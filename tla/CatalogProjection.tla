------------------------- MODULE CatalogProjection -------------------------
(***************************************************************************)
(* crates/catalog/src/projection.rs: how one event of the product context  *)
(* changes product_projection, product_attr_index and product_fts.  A      *)
(* handler maps a catalog to a catalog; dispatch wraps it in one           *)
(* transaction, so an event that violates a constraint changes nothing.    *)
(*                                                                         *)
(* A catalog is a record of                                                *)
(*   rows[p]      the row of product_projection, or None;                  *)
(*   index[p][a]  the value in product_attr_index, or None;                *)
(*   fts[p]       what the full-text row of p was built from, or None.     *)
(***************************************************************************)
EXTENDS Naturals, Sequences

CONSTANTS Products, Attributes, None,
          TextValues  \* the values that fill val_text (the rest fill val_num)

EmptyCatalog ==
  [rows  |-> [p \in Products |-> None],
   index |-> [p \in Products |-> [a \in Attributes |-> None]],
   fts   |-> [p \in Products |-> None]]

Projected(c, p) == c.rows[p] # None

(* Mutant: the rows whose val_text is NULL are not left out. *)
AttrTexts_All(c, p) == {c.index[p][a] : a \in Attributes} \ {None}

(* GROUP_CONCAT(val_text) over the product's non-empty text values. *)
AttrTexts(c, p) == {c.index[p][a] : a \in Attributes} \cap TextValues

(* upsert_fts: rebuilt from the row and the index; nothing without a row. *)
UpsertFts(c, p) ==
  IF Projected(c, p)
    THEN [c EXCEPT !.fts[p] = [text |-> c.rows[p].text, attrs |-> AttrTexts(c, p)]]
    ELSE c

(* UNIQUE INDEX pp_slug ON product_projection(slug): over all sellers. *)
SlugTaken(c, p, slug) ==
  \E q \in Products \ {p} : Projected(c, q) /\ c.rows[q].slug = slug

(* INSERT OR IGNORE: a known id and a taken slug are both passed over. *)
ApplyCreated(c, e) ==
  LET row == [slug |-> e.slug, text |-> e.text, status |-> e.status]
  IN  UpsertFts(IF Projected(c, e.id) \/ SlugTaken(c, e.id, e.slug)
                  THEN c ELSE [c EXCEPT !.rows[e.id] = row],
                e.id)

(* The value of an attribute the taxonomy does not know is passed over. *)
ApplyValueSet(c, known, e) ==
  UpsertFts(IF e.attribute \in known
              THEN [c EXCEPT !.index[e.id][e.attribute] = e.value] ELSE c,
            e.id)

(* Mutant: the full-text row keeps the value. *)
ApplyValueCleared_StaleFts(c, e) == [c EXCEPT !.index[e.id][e.attribute] = None]

ApplyValueCleared(c, e) ==
  UpsertFts([c EXCEPT !.index[e.id][e.attribute] = None], e.id)

(* Mutant: the UPDATE forgets the slug. *)
ApplyCoreUpdated_OldSlug(c, e) ==
  UpsertFts(IF Projected(c, e.id) THEN [c EXCEPT !.rows[e.id].text = e.text] ELSE c,
            e.id)

ApplyCoreUpdated(c, e) ==
  UpsertFts(IF Projected(c, e.id)
              THEN [c EXCEPT !.rows[e.id].slug = e.slug, !.rows[e.id].text = e.text]
              ELSE c,
            e.id)

ApplyStatusChanged(c, e) ==
  IF Projected(c, e.id) THEN [c EXCEPT !.rows[e.id].status = e.to] ELSE c

ApplyDeleted(c, e) ==
  [c EXCEPT !.rows[e.id]  = None,
            !.index[e.id] = [a \in Attributes |-> None],
            !.fts[e.id]   = None]

(* The UPDATE of a core change is the one statement a constraint can fail:
   another product of the catalog holds the slug. *)
Rejects(c, e) ==
  /\ e.type = "ProductUpdated"
  /\ e.reason = ""
  /\ Projected(c, e.id)
  /\ SlugTaken(c, e.id, e.slug)

(* dispatch, of an event that is not rejected; the reasons that are not about
   attributes only touch updated_at. *)
Apply(c, known, e) ==
  CASE e.type = "ProductCreated" -> ApplyCreated(c, e)
    [] e.type = "ProductUpdated" ->
         (CASE e.reason = "attribute_value_set"     -> ApplyValueSet(c, known, e)
            [] e.reason = "attribute_value_cleared" -> ApplyValueCleared(c, e)
            [] e.reason = ""                        -> ApplyCoreUpdated(c, e)
            [] OTHER                                -> c)
    [] e.type = "ProductDeleted" -> ApplyDeleted(c, e)
    [] OTHER                     -> ApplyStatusChanged(c, e)
=============================================================================
