---------------------------- MODULE ProductStore ----------------------------
(***************************************************************************)
(* The write side of the product context (crates/product): the tables      *)
(* `products` and `product_attribute_values` and the events that           *)
(* repository.rs and extras.rs write to the outbox.  Each operation is one *)
(* transaction on the only writer connection: the rows and the event are   *)
(* committed together, and a violated constraint rolls both back, which    *)
(* here is a guard.  Prices, descriptions and times belong to `text`.      *)
(***************************************************************************)
EXTENDS Naturals, Sequences

CONSTANTS
  Products,     \* product ids (ULIDs: an id is never used twice)
  Sellers,      \* Sellers[p]: seller_id of product p
  Slugs,
  Texts,        \* the other editable fields of a product
  Attributes,   \* ids of catalog attributes (no foreign key: another file)
  Values,       \* typed attribute values
  NewStatuses,  \* the statuses products are created with
  None,         \* no row
  MaxLog        \* bound: events written to the outbox

Statuses == {"draft", "published", "archived"}

Rows == [slug : Slugs, text : Texts, status : Statuses]

ASSUME StoreAssumption ==
  /\ DOMAIN Sellers = Products
  /\ NewStatuses \subseteq Statuses
  /\ None \notin Values \cup Rows
  /\ MaxLog \in Nat

VARIABLES
  products,  \* products[p]: the row of p or None
  values,    \* values[p][a]: the row of product_attribute_values or None
  log,       \* every event of the outbox, by id
  silent     \* history: products whose last change of status had no event

storeVars == <<products, values, log, silent>>

Exists(p) == products[p] # None

StoreInit ==
  /\ products = [p \in Products |-> None]
  /\ values = [p \in Products |-> [a \in Attributes |-> None]]
  /\ log = << >>
  /\ silent = {}

-----------------------------------------------------------------------------
(* outbox::enqueue(&mut *tx, ev) *)
Emit(e) ==
  /\ Len(log) < MaxLog
  /\ log' = Append(log, e)

Created(p, row) ==
  [type |-> "ProductCreated", id |-> p, slug |-> row.slug, text |-> row.text,
   status |-> row.status]

CoreUpdated(p, slug, text) ==
  [type |-> "ProductUpdated", reason |-> "", id |-> p, slug |-> slug, text |-> text]

ValueSet(p, a, v) ==
  [type |-> "ProductUpdated", reason |-> "attribute_value_set", id |-> p,
   attribute |-> a, value |-> v]

ValueCleared(p, a) ==
  [type |-> "ProductUpdated", reason |-> "attribute_value_cleared", id |-> p,
   attribute |-> a]

Touched(p, reason) == [type |-> "ProductUpdated", reason |-> reason, id |-> p]

StatusChanged(type, p, to) == [type |-> type, id |-> p, to |-> to]

Deleted(p) == [type |-> "ProductDeleted", id |-> p]

(* UNIQUE INDEX products_seller_slug ON products(seller_id, slug) *)
SlugFree(p, slug) ==
  \A q \in Products \ {p} :
    Exists(q) /\ Sellers[q] = Sellers[p] => products[q].slug # slug

-----------------------------------------------------------------------------
NeverCreated(p) ==
  \A k \in DOMAIN log : log[k].type = "ProductCreated" => log[k].id # p

CreateProduct(p, row) ==
  /\ NeverCreated(p)
  /\ SlugFree(p, row.slug)
  /\ products' = [products EXCEPT ![p] = row]
  /\ Emit(Created(p, row))
  /\ UNCHANGED <<values, silent>>

(* An id is known to callers once the product was created; the product may be
   gone again.  The UPDATE of a product that is gone changes no row; the event
   is written all the same. *)
UpdateProduct(p, slug, text) ==
  /\ ~ NeverCreated(p)
  /\ Exists(p) => SlugFree(p, slug)
  /\ products' = IF Exists(p)
                   THEN [products EXCEPT ![p].slug = slug, ![p].text = text]
                   ELSE products
  /\ Emit(CoreUpdated(p, slug, text))
  /\ UNCHANGED <<values, silent>>

(* Mutant: withdrawing a product from sale is announced to nobody. *)
StatusTransitionEvent_NoUnpublish(from, to) ==
  CASE from = "draft" /\ to = "published"    -> "ProductPublished"
    [] from = "published" /\ to = "archived" -> "ProductArchived"
    [] OTHER                                 -> "none"

StatusTransitionEvent(from, to) ==
  CASE from = "draft" /\ to = "published"    -> "ProductPublished"
    [] from = "published" /\ to = "archived" -> "ProductArchived"
    [] from = "published" /\ to = "draft"    -> "ProductUnpublished"
    [] OTHER                                 -> "none"

(* A missing product and an equal status are no-ops. *)
SetStatus(p, to) ==
  /\ Exists(p)
  /\ products[p].status # to
  /\ products' = [products EXCEPT ![p].status = to]
  /\ LET type == StatusTransitionEvent(products[p].status, to) IN
       \/ /\ type # "none"
          /\ Emit(StatusChanged(type, p, to))
          /\ silent' = silent \ {p}
       \/ /\ type = "none"
          /\ silent' = silent \cup {p}
          /\ UNCHANGED log
  /\ UNCHANGED values

(* ON DELETE CASCADE takes the attribute values along. *)
DeleteProduct(p) ==
  /\ Exists(p)
  /\ products' = [products EXCEPT ![p] = None]
  /\ values' = [values EXCEPT ![p] = [a \in Attributes |-> None]]
  /\ Emit(Deleted(p))
  /\ silent' = silent \ {p}

-----------------------------------------------------------------------------
(* product_attribute_values.product_id REFERENCES products(id) *)
SetAttributeValue(p, a, v) ==
  /\ Exists(p)
  /\ values' = [values EXCEPT ![p][a] = v]
  /\ Emit(ValueSet(p, a, v))
  /\ UNCHANGED <<products, silent>>

ClearAttributeValue(p, a) ==
  /\ ~ NeverCreated(p)
  /\ values' = [values EXCEPT ![p][a] = None]
  /\ Emit(ValueCleared(p, a))
  /\ UNCHANGED <<products, silent>>

(* enqueue_product_updated: the event of every other write of extras.rs. *)
EnqueueProductUpdated(p, reason) ==
  /\ ~ NeverCreated(p)
  /\ Emit(Touched(p, reason))
  /\ UNCHANGED <<products, values, silent>>

StoreStep ==
  \E p \in Products :
    \/ \E row \in Rows : row.status \in NewStatuses /\ CreateProduct(p, row)
    \/ \E slug \in Slugs, text \in Texts : UpdateProduct(p, slug, text)
    \/ \E to \in Statuses : SetStatus(p, to)
    \/ DeleteProduct(p)
    \/ \E a \in Attributes, v \in Values : SetAttributeValue(p, a, v)
    \/ \E a \in Attributes : ClearAttributeValue(p, a)
=============================================================================
