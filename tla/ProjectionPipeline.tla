------------------------ MODULE ProjectionPipeline ------------------------
(***************************************************************************)
(* From the seller's product to the buyer's card: ProductStore writes rows *)
(* and events, OutboxRelay carries the events of the one source `product`, *)
(* CatalogProjection applies them, as wired in crates/tiny-shop/src/main.rs.*)
(* Sellers write while the relay is anywhere in its tick; the process may  *)
(* stop between any two steps; the catalog does not use the inbox.         *)
(***************************************************************************)
EXTENDS ProductStore

CONSTANTS
  TextValues,    \* values that are found by full-text search
  KnownAtStart,  \* attributes the taxonomy has before the first product
  Batch, MaxAttempts, MaxOutages, MaxFaults

VARIABLES
  known,    \* attributes of the taxonomy (catalog.db)
  catalog,  \* the three tables of the projection (catalog.db)
  published, attempts, received, pc, src, todo, delivered, outages, faults

relayVars == <<published, attempts, received, pc, src, todo, delivered,
               outages, faults>>
vars == <<storeVars, known, catalog, relayVars>>

ASSUME PipelineAssumption ==
  /\ KnownAtStart \subseteq Attributes
  /\ Batch \in Nat \ {0}
  /\ MaxAttempts \in Nat \ {0}
  /\ MaxOutages \in Nat
  /\ MaxFaults \in Nat

Ids == 1 .. MaxLog

Projection == INSTANCE CatalogProjection

Relay == INSTANCE OutboxRelay
           WITH NumSources <- 1,
                MaxEvents  <- MaxLog,
                Poison     <- {},
                enqueued   <- <<Len(log)>>

Init ==
  /\ StoreInit
  /\ known = KnownAtStart
  /\ catalog = Projection!EmptyCatalog
  /\ Relay!Init

(* A seller's transaction. *)
SellerStep ==
  /\ StoreStep
  /\ UNCHANGED <<known, catalog, relayVars>>

(* TaxonomyRepo::create_attribute *)
CreateAttribute(a) ==
  /\ a \notin known
  /\ known' = known \cup {a}
  /\ UNCHANGED <<storeVars, catalog, relayVars>>

(* CatalogProjection::dispatch commits what the event changes, ... *)
DispatchApplied(i) ==
  /\ UNCHANGED <<storeVars, known>>
  /\ Relay!Committed(i)
  /\ ~ Projection!Rejects(catalog, log[i])
  /\ catalog' = Projection!Apply(catalog, known, log[i])

(* ... a constraint rejects it, ... *)
DispatchRejected(i) ==
  /\ UNCHANGED <<storeVars, known, catalog, outages>>
  /\ Relay!RolledBack(i)
  /\ Projection!Rejects(catalog, log[i])

(* ... or the catalog database fails. *)
DispatchFailed(i) ==
  /\ UNCHANGED <<storeVars, known, catalog>>
  /\ outages < MaxOutages
  /\ outages' = outages + 1
  /\ Relay!RolledBack(i)

RelayStep ==
  \/ \E i \in Ids : DispatchApplied(i) \/ DispatchRejected(i) \/ DispatchFailed(i)
  \/ /\ UNCHANGED <<storeVars, known, catalog>>
     /\ \/ Relay!Fetch
        \/ \E i \in Ids : Relay!RecordFailure(i) \/ Relay!DeadLetter(i)
        \/ Relay!FinishSource

Interruption ==
  /\ UNCHANGED <<storeVars, known, catalog>>
  /\ Relay!TickError \/ Relay!Restart

Next ==
  \/ SellerStep
  \/ \E a \in Attributes : CreateAttribute(a)
  \/ RelayStep
  \/ Interruption

Spec == Init /\ [][Next]_vars

-----------------------------------------------------------------------------
TypeOK ==
  /\ products \in [Products -> Rows \cup {None}]
  /\ values \in [Products -> [Attributes -> Values \cup {None}]]
  /\ silent \subseteq Products
  /\ known \subseteq Attributes
  /\ DOMAIN catalog = {"rows", "index", "fts"}
  /\ catalog.rows \in [Products -> Rows \cup {None}]
  /\ catalog.index \in [Products -> [Attributes -> Values \cup {None}]]
  /\ catalog.fts \in
       [Products -> [text : Texts, attrs : SUBSET TextValues] \cup {None}]
  /\ Relay!TypeOK

(* Full-text search answers from the same facts as the facets and the card:
   in every state, amid redeliveries and after rejected or skipped events, a
   product has a full-text row exactly when it has a card, and that row was
   built from the card's text and the index as they are now. *)
FtsMirrorsProjection ==
  \A p \in Products :
    catalog.fts[p] =
      IF Projection!Projected(catalog, p)
        THEN [text  |-> catalog.rows[p].text,
              attrs |-> Projection!AttrTexts(catalog, p)]
        ELSE None

Drained == published[1] = 1 .. Len(log)

(* No event was given up, not even a redelivered one. *)
AllAccepted ==
  \A i \in published[1] : received[1][i] > 0 /\ attempts[1][i] < MaxAttempts

CoreIsCurrent(p) ==
  /\ Exists(p) <=> Projection!Projected(catalog, p)
  /\ Exists(p) => /\ products[p].slug = catalog.rows[p].slug
                  /\ products[p].text = catalog.rows[p].text

(* projection.rs:5, eventual consistency: once the outbox is drained and no
   event was given up, the catalog shows the products that exist and no other,
   with their present slug and text, the values of the attributes that were
   known in time, and, where the last change of status had an event, that
   status; whatever was redelivered, in whatever order sellers wrote. *)
DrainedCatalogIsCurrent ==
  Drained /\ AllAccepted =>
    \A p \in Products :
      /\ CoreIsCurrent(p)
      /\ \A a \in KnownAtStart : catalog.index[p][a] = values[p][a]
      /\ Exists(p) /\ p \notin silent =>
           catalog.rows[p].status = products[p].status

OnSale(c, p) == Projection!Projected(c, p) /\ c.rows[p].status = "published"

Offered(p) == Exists(p) /\ products[p].status = "published"

(* The events that take a product off sale. *)
Withdraws(e, p) ==
  /\ e.id = p
  /\ e.type \in {"ProductArchived", "ProductUnpublished", "ProductDeleted"}

(* Once the outbox is drained nothing is on sale in the catalog that its
   seller has withdrawn or deleted, unless the event that says so was given
   up: not where another change of status had no event, nor where a slug was
   rejected, nor where a redelivery put the product back on sale. *)
NothingWithdrawnOnSale ==
  Drained =>
    \A p \in Products :
      /\ OnSale(catalog, p)
      /\ \A i \in DOMAIN log : Withdraws(log[i], p) => attempts[1][i] < MaxAttempts
      => Offered(p)

(* projection.rs:5 says that the catalog lags by the relay's interval and no
   more; so, once the outbox is drained, every product has its status. *)
StatusIsCurrent ==
  Drained /\ AllAccepted =>
    \A p \in Products : Exists(p) => catalog.rows[p].status = products[p].status

(* product_repo.rs:127: two sellers may use the same slug; so, once the outbox
   is drained, both products have a card. *)
EveryProductHasCard ==
  Drained /\ AllAccepted =>
    \A p \in Products : Exists(p) => Projection!Projected(catalog, p)
=============================================================================
