-------------------- MODULE ProjectionPipeline_proofs --------------------
(***************************************************************************)
(* Theorems about ProjectionPipeline for any number of products, sellers, *)
(* attributes and events, and any bounds on outages and faults.            *)
(***************************************************************************)
EXTENDS ProjectionPipeline, FiniteSetTheorems, TLAPS

FtsRows == [text : Texts, attrs : SUBSET TextValues]

Catalogs == [rows  : [Products -> Rows \cup {None}],
             index : [Products -> [Attributes -> Values \cup {None}]],
             fts   : [Products -> FtsRows \cup {None}]]

Events ==
  [type : {"ProductCreated"}, id : Products, slug : Slugs, text : Texts, status : Statuses]
  \cup [type : {"ProductUpdated"}, reason : {""}, id : Products, slug : Slugs, text : Texts]
  \cup [type : {"ProductUpdated"}, reason : {"attribute_value_set"}, id : Products,
        attribute : Attributes, value : Values]
  \cup [type : {"ProductUpdated"}, reason : {"attribute_value_cleared"}, id : Products,
        attribute : Attributes]
  \cup [type : {"ProductPublished"}, id : Products, to : {"published"}]
  \cup [type : {"ProductArchived"}, id : Products, to : {"archived"}]
  \cup [type : {"ProductUnpublished"}, id : Products, to : {"draft"}]
  \cup [type : {"ProductDeleted"}, id : Products]

(* The full-text row of p says what the other two tables say. *)
MirrorAt(c, p) ==
  c.fts[p] = IF Projection!Projected(c, p)
               THEN [text |-> c.rows[p].text, attrs |-> Projection!AttrTexts(c, p)]
               ELSE None

Mirrors(c) == c \in Catalogs /\ \A p \in Products : MirrorAt(c, p)

-----------------------------------------------------------------------------
(* The handlers of projection.rs keep the tables in step. *)

LEMMA SameMirror ==
  ASSUME NEW c \in Catalogs, NEW d \in Catalogs, NEW q \in Products,
         d.rows[q] = c.rows[q], d.index[q] = c.index[q], d.fts[q] = c.fts[q],
         MirrorAt(c, q)
  PROVE  MirrorAt(d, q)
  BY DEF MirrorAt, Projection!Projected, Projection!AttrTexts

LEMMA UpsertMirrors ==
  ASSUME NEW c \in Catalogs, NEW p \in Products,
         \A q \in Products \ {p} : MirrorAt(c, q),
         Projection!Projected(c, p) \/ c.fts[p] = None
  PROVE  Mirrors(Projection!UpsertFts(c, p))
<1> DEFINE row == [text |-> c.rows[p].text, attrs |-> Projection!AttrTexts(c, p)]
           d   == [c EXCEPT !.fts[p] = row]
<1>1. CASE Projection!Projected(c, p)
  <2>1. row \in FtsRows
    BY <1>1 DEF Catalogs, FtsRows, Rows, Projection!Projected, Projection!AttrTexts
  <2>2. Projection!UpsertFts(c, p) = d
    BY <1>1 DEF Projection!UpsertFts
  <2> HIDE DEF row
  <2>3. /\ d \in Catalogs /\ d.rows = c.rows /\ d.index = c.index
        /\ d.fts = [c.fts EXCEPT ![p] = row]
    BY <2>1 DEF Catalogs
  <2> HIDE DEF d
  <2>4. d.fts[p] = row /\ \A q \in Products \ {p} : d.fts[q] = c.fts[q]
    BY <2>3 DEF Catalogs
  <2>5. MirrorAt(d, p)
    BY <1>1, <2>3, <2>4 DEF MirrorAt, row, Projection!Projected, Projection!AttrTexts
  <2>6. \A q \in Products \ {p} : MirrorAt(d, q)
    BY <2>3, <2>4, SameMirror
  <2> QED BY <2>2, <2>3, <2>5, <2>6 DEF Mirrors
<1>2. CASE ~ Projection!Projected(c, p)
  <2>1. Projection!UpsertFts(c, p) = c /\ MirrorAt(c, p)
    BY <1>2 DEF Projection!UpsertFts, MirrorAt
  <2> QED BY <2>1 DEF Mirrors
<1> QED BY <1>1, <1>2

(* A handler that changes one product and then rebuilds its full-text row. *)
LEMMA ChangeThenUpsert ==
  ASSUME NEW c, Mirrors(c), NEW d \in Catalogs, NEW p \in Products,
         \A q \in Products \ {p} : d.rows[q] = c.rows[q] /\ d.index[q] = c.index[q],
         d.fts = c.fts,
         Projection!Projected(c, p) => Projection!Projected(d, p)
  PROVE  Mirrors(Projection!UpsertFts(d, p))
<1>1. \A q \in Products \ {p} : MirrorAt(d, q)
  BY SameMirror DEF Mirrors
<1>2. Projection!Projected(d, p) \/ d.fts[p] = None
  BY DEF Mirrors, MirrorAt
<1> QED BY <1>1, <1>2, UpsertMirrors

LEMMA CreatedMirrors ==
  ASSUME NEW c, Mirrors(c), NEW e \in Events, e.type = "ProductCreated"
  PROVE  Mirrors(Projection!ApplyCreated(c, e))
<1> DEFINE row == [slug |-> e.slug, text |-> e.text, status |-> e.status]
           d   == [c EXCEPT !.rows[e.id] = row]
<1>0. e.id \in Products /\ row \in Rows
  BY DEF Events, Rows
<1>1. e.id \in Products /\ row \in Rows /\ row # None /\ c \in Catalogs
  BY <1>0, StoreAssumption DEF Mirrors
<1> HIDE DEF row
<1>2. /\ d \in Catalogs /\ d.index = c.index /\ d.fts = c.fts
      /\ d.rows = [c.rows EXCEPT ![e.id] = row]
  BY <1>1 DEF Catalogs
<1> HIDE DEF d
<1>3. /\ d.rows[e.id] = row
      /\ \A q \in Products \ {e.id} : d.rows[q] = c.rows[q]
  BY <1>1, <1>2 DEF Catalogs
<1>4. Mirrors(Projection!UpsertFts(d, e.id))
  BY <1>1, <1>2, <1>3, ChangeThenUpsert DEF Projection!Projected
<1>5. Mirrors(Projection!UpsertFts(c, e.id))
  BY <1>1, ChangeThenUpsert
<1>6. \/ Projection!ApplyCreated(c, e) = Projection!UpsertFts(d, e.id)
      \/ Projection!ApplyCreated(c, e) = Projection!UpsertFts(c, e.id)
  BY DEF Projection!ApplyCreated, d, row
<1> QED BY <1>4, <1>5, <1>6

LEMMA IndexMirrors ==
  ASSUME NEW c, Mirrors(c), NEW p \in Products, NEW a \in Attributes,
         NEW v \in Values \cup {None}
  PROVE  Mirrors(Projection!UpsertFts([c EXCEPT !.index[p][a] = v], p))
<1> DEFINE d == [c EXCEPT !.index[p][a] = v]
<1>1. c \in Catalogs
  BY DEF Mirrors
<1>2. /\ d \in Catalogs /\ d.rows = c.rows /\ d.fts = c.fts
      /\ d.index = [c.index EXCEPT ![p][a] = v]
  BY <1>1 DEF Catalogs
<1> HIDE DEF d
<1>3. \A q \in Products \ {p} : d.index[q] = c.index[q]
  BY <1>1, <1>2 DEF Catalogs
<1>4. Mirrors(Projection!UpsertFts(d, p))
  BY <1>2, <1>3, ChangeThenUpsert DEF Projection!Projected
<1> QED BY <1>4 DEF d

LEMMA CoreMirrors ==
  ASSUME NEW c, Mirrors(c), NEW e \in Events, e.type = "ProductUpdated", e.reason = ""
  PROVE  Mirrors(Projection!ApplyCoreUpdated(c, e))
<1> DEFINE p == e.id
<1>1. p \in Products /\ e.slug \in Slugs /\ e.text \in Texts /\ c \in Catalogs
  BY DEF Events, Mirrors
<1>2. CASE ~ Projection!Projected(c, p)
  <2>1. Projection!ApplyCoreUpdated(c, e) = Projection!UpsertFts(c, p)
    BY <1>2 DEF Projection!ApplyCoreUpdated
  <2> QED BY <1>1, <2>1, ChangeThenUpsert
<1>3. CASE Projection!Projected(c, p)
  <2> DEFINE b == [c EXCEPT !.rows[p].slug = e.slug]
             d == [b EXCEPT !.rows[p].text = e.text]
  <2>1. c.rows[p] \in Rows
    BY <1>1, <1>3 DEF Catalogs, Projection!Projected
  <2>2. /\ b \in Catalogs /\ b.index = c.index /\ b.fts = c.fts
        /\ b.rows = [c.rows EXCEPT ![p].slug = e.slug] /\ b.rows[p] \in Rows
    BY <1>1, <2>1 DEF Catalogs, Rows
  <2>3. [c EXCEPT !.rows[p].slug = e.slug, !.rows[p].text = e.text] = d
    OBVIOUS
  <2>4. \A q \in Products \ {p} : b.rows[q] = c.rows[q]
    BY <1>1 DEF Catalogs
  <2> HIDE DEF b
  <2>5. /\ d \in Catalogs /\ d.index = b.index /\ d.fts = b.fts
        /\ d.rows = [b.rows EXCEPT ![p].text = e.text] /\ d.rows[p] \in Rows
    BY <1>1, <2>2 DEF Catalogs, Rows
  <2>6. \A q \in Products \ {p} : d.rows[q] = b.rows[q]
    BY <1>1, <2>2 DEF Catalogs
  <2>7. Projection!ApplyCoreUpdated(c, e) = Projection!UpsertFts(d, p)
    BY <1>3, <2>3 DEF Projection!ApplyCoreUpdated
  <2> HIDE DEF d
  <2>8. Projection!Projected(d, p)
    BY <2>5, StoreAssumption DEF Projection!Projected
  <2>9. /\ \A q \in Products \ {p} : d.rows[q] = c.rows[q] /\ d.index[q] = c.index[q]
        /\ d \in Catalogs /\ d.fts = c.fts
    BY <2>2, <2>4, <2>5, <2>6
  <2>10. Mirrors(Projection!UpsertFts(d, p))
    BY <1>1, <2>8, <2>9, ChangeThenUpsert
  <2> QED BY <2>7, <2>10
<1> QED BY <1>2, <1>3

LEMMA StatusMirrors ==
  ASSUME NEW c, Mirrors(c), NEW e \in Events,
         e.type \notin {"ProductCreated", "ProductUpdated", "ProductDeleted"}
  PROVE  Mirrors(Projection!ApplyStatusChanged(c, e))
<1> DEFINE p == e.id
           d == [c EXCEPT !.rows[p].status = e.to]
<1>1. p \in Products /\ e.to \in Statuses /\ c \in Catalogs
  BY DEF Events, Mirrors, Statuses
<1>2. CASE ~ Projection!Projected(c, p)
  BY <1>2 DEF Projection!ApplyStatusChanged
<1>3. CASE Projection!Projected(c, p)
  <2>1. c.rows[p] \in Rows
    BY <1>1, <1>3 DEF Catalogs, Projection!Projected
  <2>2. /\ d \in Catalogs /\ d.index = c.index /\ d.fts = c.fts
        /\ d.rows = [c.rows EXCEPT ![p].status = e.to]
    BY <1>1, <2>1 DEF Catalogs, Rows
  <2>3. Projection!ApplyStatusChanged(c, e) = d
    BY <1>3 DEF Projection!ApplyStatusChanged
  <2> HIDE DEF d
  <2>4. d.rows[p] \in Rows /\ d.rows[p].text = c.rows[p].text
    <3>1. d.rows[p] = [c.rows[p] EXCEPT !.status = e.to]
      BY <1>1, <2>2 DEF Catalogs
    <3> QED BY <1>1, <2>1, <3>1 DEF Rows
  <2>5. \A q \in Products \ {p} : d.rows[q] = c.rows[q]
    BY <1>1, <2>2 DEF Catalogs
  <2>6. \A q \in Products \ {p} : MirrorAt(d, q)
    BY <1>1, <2>2, <2>5, SameMirror DEF Mirrors
  <2>7. MirrorAt(d, p)
    <3>1. MirrorAt(c, p) /\ Projection!AttrTexts(d, p) = Projection!AttrTexts(c, p)
      BY <1>1, <2>2 DEF Mirrors, Projection!AttrTexts
    <3>2. Projection!Projected(d, p)
      BY <2>4, StoreAssumption DEF Projection!Projected
    <3> QED BY <1>3, <2>2, <2>4, <3>1, <3>2 DEF MirrorAt
  <2> QED BY <2>2, <2>3, <2>6, <2>7 DEF Mirrors
<1> QED BY <1>2, <1>3

LEMMA DeletedMirrors ==
  ASSUME NEW c, Mirrors(c), NEW e \in Events, e.type = "ProductDeleted"
  PROVE  Mirrors(Projection!ApplyDeleted(c, e))
<1> DEFINE p     == e.id
           empty == [a \in Attributes |-> None]
           b     == [c EXCEPT !.rows[p] = None]
           x     == [b EXCEPT !.index[p] = empty]
           d     == [x EXCEPT !.fts[p] = None]
<1>1. p \in Products /\ c \in Catalogs /\ empty \in [Attributes -> Values \cup {None}]
  BY DEF Events, Mirrors
<1>2. Projection!ApplyDeleted(c, e) = d
  BY Zenon DEF Projection!ApplyDeleted
<1> HIDE DEF empty
<1>3. /\ b \in Catalogs /\ b.index = c.index /\ b.fts = c.fts
      /\ b.rows = [c.rows EXCEPT ![p] = None]
  BY <1>1 DEF Catalogs
<1> HIDE DEF b
<1>4. /\ x \in Catalogs /\ x.rows = b.rows /\ x.fts = b.fts
      /\ x.index = [b.index EXCEPT ![p] = empty]
  BY <1>1, <1>3 DEF Catalogs
<1> HIDE DEF x
<1>5. /\ d \in Catalogs /\ d.rows = x.rows /\ d.index = x.index
      /\ d.fts = [x.fts EXCEPT ![p] = None]
  BY <1>1, <1>4 DEF Catalogs
<1> HIDE DEF d
<1>6. /\ d.rows[p] = None /\ d.fts[p] = None
      /\ \A q \in Products \ {p} :
           d.rows[q] = c.rows[q] /\ d.index[q] = c.index[q] /\ d.fts[q] = c.fts[q]
  BY <1>1, <1>3, <1>4, <1>5 DEF Catalogs
<1>7. \A q \in Products \ {p} : MirrorAt(d, q)
  BY <1>1, <1>5, <1>6, SameMirror DEF Mirrors
<1>8. MirrorAt(d, p)
  BY <1>6 DEF MirrorAt, Projection!Projected
<1> QED BY <1>2, <1>5, <1>7, <1>8 DEF Mirrors

LEMMA ApplyMirrors ==
  ASSUME NEW c, Mirrors(c), NEW taxonomy, NEW e \in Events
  PROVE  Mirrors(Projection!Apply(c, taxonomy, e))
<1>1. CASE e.type = "ProductCreated"
  BY <1>1, CreatedMirrors DEF Projection!Apply
<1>2. CASE e.type = "ProductDeleted"
  BY <1>2, DeletedMirrors DEF Projection!Apply
<1>3. CASE e.type = "ProductUpdated" /\ e.reason = ""
  BY <1>3, CoreMirrors DEF Projection!Apply
<1>4. CASE e.type = "ProductUpdated" /\ e.reason = "attribute_value_set"
  <2>1. e.id \in Products /\ e.attribute \in Attributes /\ e.value \in Values
    BY <1>4 DEF Events
  <2>2. Projection!Apply(c, taxonomy, e) = Projection!ApplyValueSet(c, taxonomy, e)
    BY <1>4 DEF Projection!Apply
  <2>3. Mirrors(Projection!UpsertFts(c, e.id))
    BY <2>1, ChangeThenUpsert DEF Mirrors
  <2>4. Mirrors(Projection!UpsertFts([c EXCEPT !.index[e.id][e.attribute] = e.value], e.id))
    BY <2>1, IndexMirrors
  <2> QED BY <2>2, <2>3, <2>4 DEF Projection!ApplyValueSet
<1>5. CASE e.type = "ProductUpdated" /\ e.reason = "attribute_value_cleared"
  <2>1. e.id \in Products /\ e.attribute \in Attributes
    BY <1>5 DEF Events
  <2>2. Projection!Apply(c, taxonomy, e) = Projection!ApplyValueCleared(c, e)
    BY <1>5 DEF Projection!Apply
  <2> QED BY <2>1, <2>2, IndexMirrors DEF Projection!ApplyValueCleared
<1>6. CASE e.type \notin {"ProductCreated", "ProductUpdated", "ProductDeleted"}
  BY <1>6, StatusMirrors DEF Projection!Apply
<1>7. e.type = "ProductUpdated" =>
        e.reason \in {"", "attribute_value_set", "attribute_value_cleared"}
  BY DEF Events
<1> QED BY <1>1, <1>2, <1>3, <1>4, <1>5, <1>6, <1>7
-----------------------------------------------------------------------------
(* The relay hands the projection events of the log and nothing else. *)
PipelineInv ==
  /\ Mirrors(catalog)
  /\ log \in Seq(Events)
  /\ src = 1
  /\ todo \subseteq 1 .. Len(log)

LEMMA InitPipeline == Init => PipelineInv
<1> SUFFICES ASSUME Init PROVE PipelineInv
  OBVIOUS
<1>1. log = << >> /\ src = 1 /\ todo = {} /\ catalog = Projection!EmptyCatalog
  BY DEF Init, StoreInit, Relay!Init
<1>2. catalog \in Catalogs /\ \A p \in Products : catalog.rows[p] = None /\ catalog.fts[p] = None
  BY <1>1 DEF Projection!EmptyCatalog, Catalogs
<1>3. Mirrors(catalog)
  BY <1>2 DEF Mirrors, MirrorAt, Projection!Projected
<1> QED BY <1>1, <1>3 DEF PipelineInv

(* A write of the store appends one event, or none. *)
LEMMA LogGrows ==
  ASSUME StoreStep
  PROVE  UNCHANGED log \/ \E e \in Events : log' = Append(log, e)
<1>1. ASSUME NEW p \in Products, NEW row \in Rows, CreateProduct(p, row)
      PROVE  \E e \in Events : log' = Append(log, e)
  <2>1. Created(p, row) \in Events
    BY DEF Created, Events, Rows
  <2> QED BY <1>1, <2>1 DEF CreateProduct, Emit
<1>2. ASSUME NEW p \in Products, NEW slug \in Slugs, NEW text \in Texts,
             UpdateProduct(p, slug, text)
      PROVE  \E e \in Events : log' = Append(log, e)
  <2>1. CoreUpdated(p, slug, text) \in Events
    BY DEF CoreUpdated, Events
  <2> QED BY <1>2, <2>1 DEF UpdateProduct, Emit
<1>3. ASSUME NEW p \in Products, NEW to \in Statuses, SetStatus(p, to)
      PROVE  UNCHANGED log \/ \E e \in Events : log' = Append(log, e)
  <2> DEFINE type == StatusTransitionEvent(products[p].status, to)
  <2>1. type # "none" => StatusChanged(type, p, to) \in Events
    BY DEF StatusTransitionEvent, StatusChanged, Events
  <2>2. \/ type # "none" /\ log' = Append(log, StatusChanged(type, p, to))
        \/ UNCHANGED log
    BY <1>3 DEF SetStatus, Emit
  <2> HIDE DEF type
  <2> QED BY <2>1, <2>2
<1>4. ASSUME NEW p \in Products, DeleteProduct(p)
      PROVE  \E e \in Events : log' = Append(log, e)
  <2>1. Deleted(p) \in Events
    BY DEF Deleted, Events
  <2> QED BY <1>4, <2>1 DEF DeleteProduct, Emit
<1>5. ASSUME NEW p \in Products, NEW a \in Attributes, NEW v \in Values,
             SetAttributeValue(p, a, v)
      PROVE  \E e \in Events : log' = Append(log, e)
  <2>1. ValueSet(p, a, v) \in Events
    BY DEF ValueSet, Events
  <2> QED BY <1>5, <2>1 DEF SetAttributeValue, Emit
<1>6. ASSUME NEW p \in Products, NEW a \in Attributes, ClearAttributeValue(p, a)
      PROVE  \E e \in Events : log' = Append(log, e)
  <2>1. ValueCleared(p, a) \in Events
    BY DEF ValueCleared, Events
  <2> QED BY <1>6, <2>1 DEF ClearAttributeValue, Emit
<1> QED BY <1>1, <1>2, <1>3, <1>4, <1>5, <1>6 DEF StoreStep

LEMMA SellerKeeps ==
  ASSUME PipelineInv, SellerStep
  PROVE  PipelineInv'
<1>1. UNCHANGED <<catalog, src, todo>>
  BY DEF SellerStep, relayVars
<1>2. log' \in Seq(Events) /\ Len(log) <= Len(log') /\ Len(log) \in Nat /\ Len(log') \in Nat
  <2>1. log \in Seq(Events)
    BY DEF PipelineInv
  <2>2. UNCHANGED log \/ \E e \in Events : log' = Append(log, e)
    BY LogGrows DEF SellerStep
  <2> QED BY <2>1, <2>2
<1>3. todo' \subseteq 1 .. Len(log')
  BY <1>1, <1>2 DEF PipelineInv
<1>4. Mirrors(catalog)' /\ src' = 1
  BY <1>1 DEF PipelineInv, Mirrors, Catalogs, FtsRows, MirrorAt, Projection!Projected,
              Projection!AttrTexts
<1> QED BY <1>2, <1>3, <1>4 DEF PipelineInv

LEMMA RelayKeeps ==
  ASSUME PipelineInv, RelayStep
  PROVE  PipelineInv'
<1>1. UNCHANGED log
  BY DEF RelayStep, DispatchApplied, DispatchRejected, DispatchFailed, storeVars
<1>2. src' = 1 /\ todo' \subseteq 1 .. Len(log)
  <2>1. CASE \E i \in Ids : DispatchApplied(i) \/ DispatchRejected(i) \/ DispatchFailed(i)
    BY <2>1 DEF PipelineInv, DispatchApplied, DispatchRejected, DispatchFailed,
                Relay!Committed, Relay!RolledBack
  <2>2. CASE Relay!Fetch
    <3>1. Relay!FetchUnpublished(1) \subseteq 1 .. Len(log)
      BY DEF Relay!FetchUnpublished, Relay!Unpublished
    <3> QED BY <2>2, <3>1 DEF PipelineInv, Relay!Fetch
  <2>3. CASE \E i \in Ids : Relay!RecordFailure(i) \/ Relay!DeadLetter(i)
    BY <2>3 DEF PipelineInv, Relay!RecordFailure, Relay!DeadLetter
  <2>4. CASE Relay!FinishSource
    BY <2>4 DEF PipelineInv, Relay!FinishSource
  <2> QED BY <2>1, <2>2, <2>3, <2>4 DEF RelayStep
<1>3. Mirrors(catalog')
  <2>1. ASSUME NEW i \in Ids, DispatchApplied(i)
        PROVE  Mirrors(catalog')
    <3>1. i \in 1 .. Len(log)
      BY <2>1 DEF PipelineInv, DispatchApplied, Relay!Committed, Relay!IsNext
    <3>2. log[i] \in Events
      BY <3>1 DEF PipelineInv
    <3> QED BY <2>1, <3>2, ApplyMirrors DEF PipelineInv, DispatchApplied
  <2>2. CASE UNCHANGED catalog
    BY <2>2 DEF PipelineInv
  <2> QED BY <2>1, <2>2 DEF RelayStep, DispatchRejected, DispatchFailed
<1>4. Mirrors(catalog)'
  BY <1>3 DEF Mirrors, Catalogs, FtsRows, MirrorAt, Projection!Projected,
              Projection!AttrTexts
<1> QED BY <1>1, <1>2, <1>4 DEF PipelineInv

LEMMA OtherStepsKeep ==
  ASSUME PipelineInv,
         (\E a \in Attributes : CreateAttribute(a)) \/ Interruption \/ UNCHANGED vars
  PROVE  PipelineInv'
<1>1. UNCHANGED <<log, catalog>>
  BY DEF CreateAttribute, Interruption, vars, storeVars
<1>2. \/ UNCHANGED <<src, todo>>
      \/ src' = 1 /\ todo' = {}
  BY DEF CreateAttribute, Interruption, vars, relayVars, Relay!TickError, Relay!Restart,
         Relay!AbandonTick
<1>3. Mirrors(catalog)'
  BY <1>1 DEF PipelineInv, Mirrors, Catalogs, FtsRows, MirrorAt, Projection!Projected,
              Projection!AttrTexts
<1> QED BY <1>1, <1>2, <1>3 DEF PipelineInv

(* For any number of products, sellers, attributes and events, under any
   outages, redeliveries and restarts: the full-text row of a product is the
   one its card and its index would give now (upsert_fts, projection.rs). *)
THEOREM FullTextIsInStep == Spec => []FtsMirrorsProjection
<1>1. PipelineInv /\ [Next]_vars => PipelineInv'
  BY SellerKeeps, RelayKeeps, OtherStepsKeep DEF Next
<1>2. PipelineInv => FtsMirrorsProjection
  BY DEF PipelineInv, Mirrors, MirrorAt, FtsMirrorsProjection
<1> QED BY InitPipeline, <1>1, <1>2, PTL DEF Spec
-----------------------------------------------------------------------------
(* What puts a product on sale in the catalog, and what takes it off. *)

Offers(e, p) ==
  /\ e.id = p
  /\ \/ e.type = "ProductPublished"
     \/ e.type = "ProductCreated" /\ e.status = "published"

LEMMA UpsertKeepsRows ==
  ASSUME NEW c \in Catalogs, NEW p
  PROVE  Projection!UpsertFts(c, p).rows = c.rows
  BY DEF Projection!UpsertFts, Catalogs

(* A product has the status it had, or the one the event says. *)
LEMMA SaleComesFromEvents ==
  ASSUME NEW c \in Catalogs, NEW taxonomy, NEW e \in Events, NEW p \in Products,
         OnSale(Projection!Apply(c, taxonomy, e), p)
  PROVE  ~ Withdraws(e, p) /\ (Offers(e, p) \/ OnSale(c, p))
<1> DEFINE d == Projection!Apply(c, taxonomy, e)
<1>0. OnSale(d, p)
  OBVIOUS
<1> HIDE DEF d
<1>1. CASE e.type = "ProductCreated"
  <2> DEFINE row == [slug |-> e.slug, text |-> e.text, status |-> e.status]
             b   == [c EXCEPT !.rows[e.id] = row]
  <2>1. e.id \in Products /\ row \in Rows
    BY <1>1 DEF Events, Rows
  <2>2. b \in Catalogs /\ b.rows = [c.rows EXCEPT ![e.id] = row]
    <3> HIDE DEF row
    <3> QED BY <2>1 DEF Catalogs
  <2>3. d = Projection!UpsertFts(b, e.id) \/ d = Projection!UpsertFts(c, e.id)
    BY <1>1 DEF d, Projection!Apply, Projection!ApplyCreated
  <2> HIDE DEF b, row
  <2>4. d.rows = c.rows \/ d.rows = [c.rows EXCEPT ![e.id] = row]
    BY <2>2, <2>3, UpsertKeepsRows
  <2>5. d.rows[p] = c.rows[p] \/ (p = e.id /\ d.rows[p] = row)
    BY <2>1, <2>4 DEF Catalogs
  <2> QED BY <1>0, <1>1, <2>5 DEF row, OnSale, Offers, Withdraws, Projection!Projected
<1>2. CASE e.type = "ProductUpdated" /\ e.reason = ""
  <2> DEFINE b == [c EXCEPT !.rows[e.id].slug = e.slug, !.rows[e.id].text = e.text]
  <2>1. e.id \in Products /\ e.slug \in Slugs /\ e.text \in Texts
    BY <1>2 DEF Events
  <2>2. d = Projection!ApplyCoreUpdated(c, e)
    BY <1>2 DEF d, Projection!Apply
  <2>3. CASE ~ Projection!Projected(c, e.id)
    <3>1. d.rows = c.rows
      BY <2>2, <2>3, UpsertKeepsRows DEF Projection!ApplyCoreUpdated
    <3> QED BY <1>0, <1>2, <3>1 DEF OnSale, Withdraws, Projection!Projected
  <2>4. CASE Projection!Projected(c, e.id)
    <3>1. c.rows[e.id] \in Rows
      BY <2>1, <2>4 DEF Catalogs, Projection!Projected
    <3>2. /\ b \in Catalogs
          /\ b.rows = [c.rows EXCEPT ![e.id] = [c.rows[e.id] EXCEPT !.slug = e.slug, !.text = e.text]]
      BY <2>1, <3>1 DEF Catalogs, Rows
    <3>3. d = Projection!UpsertFts(b, e.id)
      BY <2>2, <2>4 DEF Projection!ApplyCoreUpdated
    <3> HIDE DEF b
    <3>4. d.rows = b.rows
      BY <3>2, <3>3, UpsertKeepsRows
    <3>5. DOMAIN c.rows = Products
      BY DEF Catalogs
    <3>6. [c.rows[e.id] EXCEPT !.slug = e.slug, !.text = e.text].status = c.rows[e.id].status
      BY <3>1 DEF Rows
    <3>7. d.rows[p] = c.rows[p] \/ (p = e.id /\ d.rows[p].status = c.rows[p].status)
      BY <2>1, <3>2, <3>4, <3>5, <3>6
    <3> QED BY <1>0, <1>2, <2>4, <3>7 DEF OnSale, Withdraws, Projection!Projected
  <2> QED BY <2>3, <2>4
<1>3. CASE e.type = "ProductUpdated" /\ e.reason # ""
  <2>1. \/ e.reason = "attribute_value_set"
        \/ e.reason = "attribute_value_cleared"
    BY <1>3 DEF Events
  <2>2. \E v : \/ d = Projection!UpsertFts([c EXCEPT !.index[e.id][e.attribute] = v], e.id)
               \/ d = Projection!UpsertFts(c, e.id)
    <3>1. CASE e.reason = "attribute_value_set"
      BY <1>3, <3>1 DEF d, Projection!Apply, Projection!ApplyValueSet
    <3>2. CASE e.reason = "attribute_value_cleared"
      BY <1>3, <3>2 DEF d, Projection!Apply, Projection!ApplyValueCleared
    <3> QED BY <2>1, <3>1, <3>2
  <2>3. d.rows = c.rows
    BY <2>2 DEF Projection!UpsertFts, Catalogs
  <2> QED BY <1>0, <1>3, <2>3 DEF OnSale, Withdraws, Projection!Projected
<1>4. CASE e.type = "ProductDeleted"
  <2>1. d = Projection!ApplyDeleted(c, e)
    BY <1>4 DEF d, Projection!Apply
  <2>2. d.rows = [c.rows EXCEPT ![e.id] = None]
    BY <2>1 DEF Projection!ApplyDeleted, Catalogs
  <2>3. p # e.id /\ d.rows[p] = c.rows[p]
    BY <1>0, <2>2 DEF OnSale, Projection!Projected, Catalogs
  <2> QED BY <1>0, <2>3 DEF OnSale, Withdraws, Projection!Projected
<1>5. CASE e.type \notin {"ProductCreated", "ProductUpdated", "ProductDeleted"}
  <2>1. d = Projection!ApplyStatusChanged(c, e)
    BY <1>5 DEF d, Projection!Apply
  <2>2. CASE ~ Projection!Projected(c, e.id)
    <3>1. d = c
      BY <2>1, <2>2 DEF Projection!ApplyStatusChanged
    <3>2. p # e.id
      BY <1>0, <2>2, <3>1 DEF OnSale, Projection!Projected
    <3> QED BY <1>0, <3>1, <3>2 DEF Withdraws
  <2>3. CASE Projection!Projected(c, e.id)
    <3>1. e.id \in Products /\ c.rows[e.id] \in Rows
      BY <1>5, <2>3 DEF Events, Catalogs, Projection!Projected
    <3>2. d.rows = [c.rows EXCEPT ![e.id].status = e.to]
      BY <2>1, <2>3 DEF Projection!ApplyStatusChanged, Catalogs
    <3>3. CASE p # e.id
      <4>1. d.rows[p] = c.rows[p]
        BY <3>2, <3>3 DEF Catalogs
      <4> QED BY <1>0, <3>3, <4>1 DEF OnSale, Withdraws, Projection!Projected
    <3>4. CASE p = e.id
      <4>1. d.rows[p].status = e.to
        BY <3>1, <3>2, <3>4 DEF Catalogs, Rows
      <4>2. e.to = "published"
        BY <1>0, <4>1 DEF OnSale
      <4>3. e.type = "ProductPublished"
        BY <1>5, <4>2 DEF Events
      <4> QED BY <3>4, <4>3 DEF Offers, Withdraws
    <3> QED BY <3>3, <3>4
  <2> QED BY <2>2, <2>3
<1> QED BY <1>1, <1>2, <1>3, <1>4, <1>5

-----------------------------------------------------------------------------
(* What the locals of relay_tick say about the outbox: everything before the
   next event is published or delivered, and only an event that was given up is
   published before an older one. *)

GivenUp(i) == attempts[1][i] >= MaxAttempts

Passed(i) == i \in delivered \/ i \in published[1]

QueueTyped ==
  /\ Len(log) \in 0 .. MaxLog
  /\ published \in [{1} -> SUBSET (1 .. Len(log))]
  /\ attempts \in [{1} -> [Ids -> Nat]]
  /\ delivered \subseteq 1 .. Len(log)
  /\ pc = "fetch" => todo = {} /\ delivered = {}

QueueOK ==
  /\ QueueTyped
  /\ \A i \in todo : ~ Passed(i)
  /\ \A d \in delivered : \A i \in todo : d < i
  /\ \A i \in todo \cup delivered : \A k \in Ids : k < i => k \in todo \/ Passed(k)
  /\ \A i \in published[1] : \A k \in Ids : k < i => k \in published[1] \/ GivenUp(i)
  /\ pc = "dead_letter" => \A i \in todo : Relay!IsNext(i) => GivenUp(i)

(* A product that is not offered was withdrawn after it was last offered. *)
LogOK ==
  /\ products \in [Products -> Rows \cup {None}]
  /\ \A p \in Products : Exists(p) => ~ NeverCreated(p)
  /\ \A p \in Products : ~ Offered(p) =>
       \A i \in DOMAIN log : Offers(log[i], p) =>
         \E j \in DOMAIN log : i < j /\ Withdraws(log[j], p)

(* The catalog has passed no withdrawal since the event that put p on sale. *)
SaleOK(p) ==
  OnSale(catalog, p) =>
    \E i \in DOMAIN log :
      /\ Offers(log[i], p)
      /\ \A j \in DOMAIN log : i < j /\ Withdraws(log[j], p) =>
           j \notin delivered /\ (j \in published[1] => GivenUp(j))

SaleInv ==
  /\ PipelineInv
  /\ QueueOK
  /\ LogOK
  /\ \A p \in Products : SaleOK(p)

LEMMA InitSale == Init => SaleInv
<1> SUFFICES ASSUME Init PROVE SaleInv
  OBVIOUS
<1>1. /\ log = << >> /\ products = [p \in Products |-> None]
      /\ published = [s \in {1} |-> {}] /\ attempts = [s \in {1} |-> [i \in Ids |-> 0]]
      /\ pc = "fetch" /\ todo = {} /\ delivered = {}
      /\ catalog = Projection!EmptyCatalog
  BY DEF Init, StoreInit, Relay!Init, Relay!Sources, Relay!Ids, Ids
<1>2. Len(log) = 0 /\ DOMAIN log = {}
  BY <1>1
<1>3. QueueOK
  <2>1. published[1] = {} /\ published \in [{1} -> SUBSET (1 .. Len(log))]
    BY <1>1
  <2>2. attempts \in [{1} -> [Ids -> Nat]]
    BY <1>1
  <2>3. QueueTyped
    BY <1>1, <1>2, <2>1, <2>2, StoreAssumption DEF QueueTyped
  <2>4. pc # "dead_letter" /\ todo = {} /\ delivered = {}
    BY <1>1
  <2> QED BY <2>1, <2>3, <2>4 DEF QueueOK
<1>4. LogOK
  <2>1. products \in [Products -> Rows \cup {None}] /\ \A p \in Products : ~ Exists(p)
    BY <1>1 DEF Exists
  <2> QED BY <1>2, <2>1 DEF LogOK
<1>5. \A p \in Products : SaleOK(p)
  BY <1>1 DEF SaleOK, OnSale, Projection!Projected, Projection!EmptyCatalog
<1> QED BY <1>3, <1>4, <1>5, InitPipeline DEF SaleInv

(* What a write of the store tells the catalog: leaving "published" has an
   event, and an event that offers a product is of a product that is offered. *)
Tells(e, p) ==
  /\ Offered(p)' \/ Withdraws(e, p) \/ (~ Offered(p) /\ ~ Offers(e, p))
  /\ Exists(p)' => Exists(p) \/ (e.type = "ProductCreated" /\ e.id = p)

LEMMA StoreTells ==
  ASSUME StoreStep, products \in [Products -> Rows \cup {None}],
         \A p \in Products : Exists(p) => ~ NeverCreated(p)
  PROVE  /\ products' \in [Products -> Rows \cup {None}]
         /\ \/ /\ UNCHANGED log
               /\ \A p \in Products : (Offered(p) => Offered(p)') /\ (Exists(p)' => Exists(p))
            \/ \E e \in Events :
                 /\ Len(log) < MaxLog
                 /\ log' = Append(log, e)
                 /\ \A p \in Products : Tells(e, p)
<1> DEFINE Told(e) == \A p \in Products : Tells(e, p)
           Fits == products' \in [Products -> Rows \cup {None}]
<1>1. ASSUME NEW p \in Products, NEW row \in Rows, CreateProduct(p, row)
      PROVE  Fits /\ \E e \in Events : Len(log) < MaxLog /\ log' = Append(log, e) /\ Told(e)
  <2>1. Created(p, row) \in Events
    BY DEF Created, Events, Rows
  <2>2. Fits /\ products'[p] = row /\ \A q \in Products \ {p} : products'[q] = products[q]
    BY <1>1 DEF CreateProduct
  <2>3. row # None
    BY StoreAssumption
  <2>4. Told(Created(p, row))
    <3>1. \A q \in Products \ {p} : (Offered(q) => Offered(q)') /\ (Exists(q)' => Exists(q))
      BY <2>2 DEF Offered, Exists
    <3>2. row.status = "published" => Offered(p)'
      BY <2>2, <2>3 DEF Offered, Exists
    <3>3. Created(p, row).type = "ProductCreated" /\ Created(p, row).id = p
      BY DEF Created
    <3>4. \A q \in Products : Offers(Created(p, row), q) => q = p /\ row.status = "published"
      BY DEF Offers, Created
    <3>5. ~ Offered(p)
      BY <1>1 DEF CreateProduct, Offered
    <3> QED BY <3>1, <3>2, <3>3, <3>4, <3>5 DEF Tells
  <2> QED BY <1>1, <2>1, <2>2, <2>4 DEF CreateProduct, Emit
<1>2. ASSUME NEW p \in Products, NEW slug \in Slugs, NEW text \in Texts,
             UpdateProduct(p, slug, text)
      PROVE  Fits /\ \E e \in Events : Len(log) < MaxLog /\ log' = Append(log, e) /\ Told(e)
  <2>1. CoreUpdated(p, slug, text) \in Events
    BY DEF CoreUpdated, Events
  <2>2. Fits /\ \A q \in Products : (Offered(q) => Offered(q)') /\ (Exists(q)' => Exists(q))
    <3>1. CASE ~ Exists(p)
      BY <1>2, <3>1 DEF UpdateProduct, Offered, Exists
    <3>2. CASE Exists(p)
      <4> DEFINE new == [products[p] EXCEPT !.slug = slug, !.text = text]
      <4>1. products[p] \in Rows
        BY <3>2 DEF Exists
      <4>2. new \in Rows /\ new.status = products[p].status
        BY <4>1 DEF Rows
      <4>3. products' = [products EXCEPT ![p] = new]
        BY <1>2, <3>2 DEF UpdateProduct
      <4> HIDE DEF new
      <4>4. new # None
        BY <4>2, StoreAssumption
      <4>5. products'[p] = new /\ \A q \in Products \ {p} : products'[q] = products[q]
        BY <4>3
      <4>6. Fits
        BY <4>2, <4>3
      <4> QED BY <3>2, <4>2, <4>4, <4>5, <4>6 DEF Offered, Exists
    <3> QED BY <3>1, <3>2
  <2>3. Told(CoreUpdated(p, slug, text))
    BY <2>2 DEF CoreUpdated, Offers, Tells
  <2> QED BY <1>2, <2>1, <2>2, <2>3 DEF UpdateProduct, Emit
<1>3. ASSUME NEW p \in Products, NEW to \in Statuses, SetStatus(p, to)
      PROVE  /\ Fits
             /\ \/ /\ UNCHANGED log
                   /\ \A q \in Products : (Offered(q) => Offered(q)') /\ (Exists(q)' => Exists(q))
                \/ \E e \in Events : Len(log) < MaxLog /\ log' = Append(log, e) /\ Told(e)
  <2> DEFINE from == products[p].status
             type == StatusTransitionEvent(from, to)
             new  == [products[p] EXCEPT !.status = to]
             e    == StatusChanged(type, p, to)
  <2>1. products[p] \in Rows /\ Exists(p)
    BY <1>3 DEF SetStatus, Exists
  <2>2. new \in Rows /\ new.status = to /\ new # None
    BY <2>1, StoreAssumption DEF Rows
  <2>3. products' = [products EXCEPT ![p] = new]
    BY <1>3 DEF SetStatus
  <2>4. to # from /\ to \in Statuses /\ from \in Statuses
    BY <1>3, <2>1 DEF SetStatus, Rows
  <2>5. /\ Fits /\ (Offered(p)' <=> to = "published")
        /\ \A q \in Products \ {p} : Offered(q)' <=> Offered(q)
        /\ \A q \in Products : Exists(q)' <=> Exists(q)
    <3> HIDE DEF new
    <3> QED BY <2>1, <2>2, <2>3 DEF Offered, Exists
  <2>6. Offered(p) <=> from = "published"
    BY <2>1, StoreAssumption DEF Offered, Exists
  <2>7. type # "none" => e \in Events
    BY DEF StatusTransitionEvent, StatusChanged, Events
  <2>8. type # "none" => Told(e)
    <3> SUFFICES ASSUME type # "none", NEW q \in Products
                 PROVE  Offered(q)' \/ Withdraws(e, q) \/ (~ Offered(q) /\ ~ Offers(e, q))
      BY <2>5 DEF Tells
    <3>1. e.id = p /\ e.type = type
      BY DEF StatusChanged
    <3>2. CASE q # p
      BY <2>5, <3>1, <3>2 DEF Offers
    <3>3. CASE q = p /\ to # "published"
      <4>1. type \in {"ProductArchived", "ProductUnpublished"}
        BY <2>4, <3>3 DEF StatusTransitionEvent, Statuses
      <4> QED BY <3>1, <3>3, <4>1 DEF Withdraws
    <3> QED BY <2>5, <3>2, <3>3
  <2>9. type = "none" => (Offered(p) => Offered(p)')
    BY <2>4, <2>5, <2>6 DEF StatusTransitionEvent, Statuses
  <2>10. \/ type # "none" /\ Len(log) < MaxLog /\ log' = Append(log, e)
         \/ type = "none" /\ UNCHANGED log
    BY <1>3 DEF SetStatus, Emit
  <2> HIDE DEF type, e
  <2> QED BY <2>5, <2>7, <2>8, <2>9, <2>10
<1>4. ASSUME NEW p \in Products, DeleteProduct(p)
      PROVE  Fits /\ \E e \in Events : Len(log) < MaxLog /\ log' = Append(log, e) /\ Told(e)
  <2>1. Deleted(p) \in Events
    BY DEF Deleted, Events
  <2>2. Fits /\ \A q \in Products \ {p} : products'[q] = products[q]
    BY <1>4 DEF DeleteProduct
  <2>3. Told(Deleted(p))
    <3>1. \A q \in Products \ {p} : (Offered(q) => Offered(q)') /\ (Exists(q)' => Exists(q))
      BY <2>2 DEF Offered, Exists
    <3>2. Withdraws(Deleted(p), p) /\ \A q \in Products : ~ Offers(Deleted(p), q)
      BY DEF Deleted, Offers, Withdraws
    <3>3. ~ Exists(p)'
      BY <1>4 DEF DeleteProduct, Exists
    <3> QED BY <3>1, <3>2, <3>3 DEF Tells
  <2> QED BY <1>4, <2>1, <2>2, <2>3 DEF DeleteProduct, Emit
<1>5. ASSUME NEW p \in Products, NEW a \in Attributes,
             (\E v \in Values : SetAttributeValue(p, a, v)) \/ ClearAttributeValue(p, a)
      PROVE  Fits /\ \E e \in Events : Len(log) < MaxLog /\ log' = Append(log, e) /\ Told(e)
  <2>1. PICK e : /\ e \in Events /\ e.type = "ProductUpdated"
                 /\ Len(log) < MaxLog /\ log' = Append(log, e) /\ UNCHANGED products
    <3>1. ASSUME NEW v \in Values, SetAttributeValue(p, a, v)
          PROVE  ValueSet(p, a, v) \in Events /\ ValueSet(p, a, v).type = "ProductUpdated"
      BY DEF ValueSet, Events
    <3>2. ValueCleared(p, a) \in Events /\ ValueCleared(p, a).type = "ProductUpdated"
      BY DEF ValueCleared, Events
    <3> QED BY <1>5, <3>1, <3>2 DEF SetAttributeValue, ClearAttributeValue, Emit
  <2> QED BY <2>1 DEF Offered, Exists, Offers, Tells
<1> QED BY <1>1, <1>2, <1>3, <1>4, <1>5 DEF StoreStep

LEMMA SellerSale ==
  ASSUME SaleInv, SellerStep
  PROVE  QueueOK' /\ LogOK' /\ \A p \in Products : SaleOK(p)'
<1>1. /\ UNCHANGED <<catalog, published, attempts, delivered, pc, todo>>
      /\ StoreStep
  BY DEF SellerStep, relayVars
<1>2. log \in Seq(Events) /\ QueueTyped /\ LogOK
  BY DEF SaleInv, PipelineInv, QueueOK
<1>3. CASE /\ UNCHANGED log
           /\ products' \in [Products -> Rows \cup {None}]
           /\ \A p \in Products : (Offered(p) => Offered(p)') /\ (Exists(p)' => Exists(p))
  <2>1. LogOK'
    BY <1>2, <1>3 DEF LogOK, NeverCreated
  <2>2. QueueOK'
    BY <1>1, <1>3 DEF SaleInv, QueueOK, QueueTyped, Passed, GivenUp, Relay!IsNext
  <2>3. \A p \in Products : SaleOK(p)'
    BY <1>1, <1>3 DEF SaleInv, SaleOK, OnSale, Projection!Projected, GivenUp
  <2> QED BY <2>1, <2>2, <2>3
<1>4. ASSUME NEW e \in Events, Len(log) < MaxLog, log' = Append(log, e),
             products' \in [Products -> Rows \cup {None}],
             \A p \in Products : Tells(e, p)
      PROVE  QueueOK' /\ LogOK' /\ \A p \in Products : SaleOK(p)'
  <2> DEFINE n == Len(log)
  <2>1. /\ n \in Nat /\ Len(log') = n + 1 /\ DOMAIN log = 1 .. n /\ DOMAIN log' = 1 .. n + 1
        /\ log'[n + 1] = e /\ \A i \in 1 .. n : log'[i] = log[i]
    BY <1>2, <1>4
  <2>2. QueueOK'
    <3>1. QueueTyped'
      <4>1. 1 .. n \subseteq 1 .. n + 1
        BY <2>1
      <4> QED BY <1>1, <1>2, <1>4, <2>1, <4>1, StoreAssumption DEF QueueTyped
    <3> QED BY <1>1, <3>1 DEF SaleInv, QueueOK, Passed, GivenUp, Relay!IsNext
  <2>3. LogOK'
    <3>1. ASSUME NEW p \in Products, Exists(p)'
          PROVE  ~ NeverCreated(p)'
      <4>1. CASE Exists(p)
        <5>1. PICK k \in DOMAIN log : log[k].type = "ProductCreated" /\ log[k].id = p
          BY <1>2, <4>1 DEF LogOK, NeverCreated
        <5>2. k \in DOMAIN log' /\ log'[k] = log[k]
          BY <2>1
        <5> QED BY <5>1, <5>2 DEF NeverCreated
      <4>2. CASE ~ Exists(p)
        <5>1. e.type = "ProductCreated" /\ e.id = p
          BY <1>4, <3>1, <4>2 DEF Tells
        <5>2. n + 1 \in DOMAIN log' /\ log'[n + 1] = e
          BY <2>1
        <5> QED BY <5>1, <5>2 DEF NeverCreated
      <4> QED BY <4>1, <4>2
    <3>2. ASSUME NEW p \in Products, ~ Offered(p)', NEW i \in DOMAIN log', Offers(log'[i], p)
          PROVE  \E j \in DOMAIN log' : i < j /\ Withdraws(log'[j], p)
      <4>1. CASE Withdraws(e, p)
        <5>1. i # n + 1
          BY <2>1, <3>2, <4>1 DEF Offers, Withdraws
        <5>2. n + 1 \in DOMAIN log' /\ i < n + 1 /\ Withdraws(log'[n + 1], p)
          BY <2>1, <4>1, <5>1
        <5> QED BY <5>2
      <4>2. CASE ~ Withdraws(e, p)
        <5>1. ~ Offered(p) /\ ~ Offers(e, p)
          BY <1>4, <3>2, <4>2 DEF Tells
        <5>2. i \in DOMAIN log /\ Offers(log[i], p)
          <6>1. i # n + 1
            BY <2>1, <3>2, <5>1
          <6> QED BY <2>1, <3>2, <6>1
        <5>3. PICK j \in DOMAIN log : i < j /\ Withdraws(log[j], p)
          BY <1>2, <5>1, <5>2 DEF LogOK
        <5>4. j \in DOMAIN log' /\ log'[j] = log[j]
          BY <2>1
        <5> QED BY <5>3, <5>4
      <4> QED BY <4>1, <4>2
    <3> QED BY <1>4, <3>1, <3>2 DEF LogOK
  <2>4. ASSUME NEW p \in Products, OnSale(catalog, p)'
        PROVE  \E i \in DOMAIN log' :
                 /\ Offers(log'[i], p)
                 /\ \A j \in DOMAIN log' : i < j /\ Withdraws(log'[j], p) =>
                      j \notin delivered' /\ (j \in published'[1] => GivenUp(j)')
    <3>1. OnSale(catalog, p)
      BY <1>1, <2>4 DEF OnSale, Projection!Projected
    <3>2. PICK i \in DOMAIN log :
            /\ Offers(log[i], p)
            /\ \A j \in DOMAIN log : i < j /\ Withdraws(log[j], p) =>
                 j \notin delivered /\ (j \in published[1] => GivenUp(j))
      BY <3>1 DEF SaleInv, SaleOK
    <3>3. i \in DOMAIN log' /\ Offers(log'[i], p)
      BY <2>1, <3>2
    <3>4. ASSUME NEW j \in DOMAIN log', i < j, Withdraws(log'[j], p)
          PROVE  j \notin delivered' /\ (j \in published'[1] => GivenUp(j)')
      <4>1. CASE j = n + 1
        <5>1. n + 1 \notin 1 .. n
          BY <2>1
        <5> QED BY <1>1, <1>2, <4>1, <5>1 DEF QueueTyped
      <4>2. CASE j # n + 1
        <5>1. j \in DOMAIN log /\ Withdraws(log[j], p)
          BY <2>1, <3>4, <4>2
        <5> QED BY <1>1, <3>2, <3>4, <5>1 DEF GivenUp
      <4> QED BY <4>1, <4>2
    <3> QED BY <3>3, <3>4
  <2> QED BY <2>2, <2>3, <2>4 DEF SaleOK
<1> QED BY <1>1, <1>2, <1>3, <1>4, StoreTells DEF LogOK

(* A step that leaves the catalog and the log alone, marks and delivers nothing
   but what was given up, and forgets no attempt. *)
LEMMA SaleStays ==
  ASSUME SaleInv, UNCHANGED <<catalog, log>>,
         \A j \in DOMAIN log : j \notin delivered => j \notin delivered',
         \A j \in DOMAIN log : GivenUp(j) => GivenUp(j)',
         \A j \in published'[1] : j \in published[1] \/ j \in delivered \/ GivenUp(j)'
  PROVE  \A p \in Products : SaleOK(p)'
<1> SUFFICES ASSUME NEW p \in Products, OnSale(catalog, p)'
             PROVE  \E i \in DOMAIN log' :
                      /\ Offers(log'[i], p)
                      /\ \A j \in DOMAIN log' : i < j /\ Withdraws(log'[j], p) =>
                           j \notin delivered' /\ (j \in published'[1] => GivenUp(j)')
  BY DEF SaleOK
<1>1. OnSale(catalog, p)
  BY DEF OnSale, Projection!Projected
<1>2. PICK i \in DOMAIN log :
        /\ Offers(log[i], p)
        /\ \A j \in DOMAIN log : i < j /\ Withdraws(log[j], p) =>
             j \notin delivered /\ (j \in published[1] => GivenUp(j))
  BY <1>1 DEF SaleInv, SaleOK
<1>3. \A j \in DOMAIN log : i < j /\ Withdraws(log[j], p) =>
        j \notin delivered' /\ (j \in published'[1] => GivenUp(j)')
  BY <1>2
<1> QED BY <1>2, <1>3

(* fetch_unpublished cuts a batch at its young end. *)
LEMMA BatchIsPrefix ==
  ASSUME QueueTyped
  PROVE  /\ Relay!FetchUnpublished(1) \subseteq (1 .. Len(log)) \ published[1]
         /\ \A i \in Relay!FetchUnpublished(1) : \A k \in (1 .. Len(log)) \ published[1] :
              k < i => k \in Relay!FetchUnpublished(1)
<1> DEFINE due     == (1 .. Len(log)) \ published[1]
           upTo(i) == {k \in due : k <= i}
<1>1. Relay!FetchUnpublished(1) = {i \in due : Cardinality(upTo(i)) <= Batch}
  <2>1. Relay!Unpublished(1) = due
    BY DEF Relay!Unpublished
  <2>2. Relay!FetchUnpublished(1) =
          {i \in Relay!Unpublished(1) :
             Cardinality({k \in Relay!Unpublished(1) : k <= i}) <= Batch}
    BY Zenon DEF Relay!FetchUnpublished, Relay!Cardinality, Cardinality
  <2> QED BY <2>1, <2>2
<1>2. Len(log) \in Nat /\ IsFiniteSet(1 .. Len(log))
  BY StoreAssumption, FS_Interval DEF QueueTyped
<1>3. ASSUME NEW i \in due, NEW k \in due, k < i, Cardinality(upTo(i)) <= Batch
      PROVE  Cardinality(upTo(k)) <= Batch
  <2>1. upTo(k) \subseteq upTo(i) /\ upTo(i) \subseteq 1 .. Len(log)
    BY <1>2, <1>3
  <2> HIDE DEF upTo
  <2>2. IsFiniteSet(upTo(i))
    BY <1>2, <2>1, FS_Subset
  <2>3. IsFiniteSet(upTo(k)) /\ Cardinality(upTo(k)) <= Cardinality(upTo(i))
    BY <2>1, <2>2, FS_Subset
  <2>4. Cardinality(upTo(k)) \in Nat /\ Cardinality(upTo(i)) \in Nat
    BY <2>2, <2>3, FS_CardinalityType
  <2> QED BY <1>3, <2>3, <2>4, PipelineAssumption
<1> HIDE DEF upTo
<1> QED BY <1>1, <1>3

LEMMA FetchSale ==
  ASSUME SaleInv, Relay!Fetch, UNCHANGED <<log, catalog>>
  PROVE  QueueOK' /\ \A p \in Products : SaleOK(p)'
<1>1. /\ src = 1 /\ pc = "fetch" /\ pc' = "dispatch" /\ todo' = Relay!FetchUnpublished(1)
      /\ UNCHANGED <<published, attempts, delivered>>
      /\ QueueTyped /\ delivered = {}
  BY DEF SaleInv, PipelineInv, QueueOK, QueueTyped, Relay!Fetch, Relay!outbox
<1>2. QueueTyped'
  BY <1>1 DEF QueueTyped
<1>3. \A i \in todo' : \A k \in Ids : k < i => k \in todo' \/ k \in published[1]
  <2> SUFFICES ASSUME NEW i \in todo', NEW k \in Ids, k < i, k \notin published[1]
               PROVE  k \in todo'
    OBVIOUS
  <2>1. k \in (1 .. Len(log)) \ published[1]
    BY <1>1, BatchIsPrefix DEF QueueTyped, Ids
  <2> QED BY <1>1, <2>1, BatchIsPrefix
<1>4. QueueOK'
  BY <1>1, <1>2, <1>3, BatchIsPrefix DEF SaleInv, QueueOK, Passed, GivenUp
<1>5. \A p \in Products : SaleOK(p)'
  BY <1>1, SaleStays DEF GivenUp
<1> QED BY <1>4, <1>5

LEMMA RecordSale ==
  ASSUME SaleInv, NEW i \in Ids, Relay!RecordFailure(i), UNCHANGED <<log, catalog>>
  PROVE  QueueOK' /\ \A p \in Products : SaleOK(p)'
<1>1. /\ src = 1 /\ Relay!IsNext(i) /\ UNCHANGED <<published, delivered>>
      /\ attempts' = [attempts EXCEPT ![1][i] = @ + 1]
      /\ \/ pc' = "dead_letter" /\ attempts[1][i] + 1 >= MaxAttempts /\ todo' = todo
         \/ pc' = "dispatch" /\ todo' = {}
      /\ QueueTyped
  BY DEF SaleInv, PipelineInv, QueueOK, Relay!RecordFailure, Relay!LimitReached
<1>2. /\ attempts' \in [{1} -> [Ids -> Nat]]
      /\ attempts'[1][i] = attempts[1][i] + 1
      /\ \A k \in Ids \ {i} : attempts'[1][k] = attempts[1][k]
  BY <1>1 DEF QueueTyped
<1>3. \A k \in Ids : GivenUp(k) => GivenUp(k)'
  BY <1>1, <1>2, PipelineAssumption DEF GivenUp, QueueTyped
<1>4. DOMAIN log \subseteq Ids /\ todo \subseteq Ids /\ published[1] \subseteq Ids
      /\ todo' \subseteq todo
  BY <1>1, StoreAssumption DEF SaleInv, PipelineInv, QueueTyped, Ids
<1>5. QueueTyped'
  BY <1>1, <1>2 DEF QueueTyped
<1>6. pc' = "dead_letter" => \A k \in todo : (Relay!IsNext(k))' => GivenUp(k)'
  <2> SUFFICES ASSUME pc' = "dead_letter", NEW k \in todo, (Relay!IsNext(k))'
               PROVE  GivenUp(k)'
    OBVIOUS
  <2>1. todo' = todo /\ attempts[1][i] + 1 >= MaxAttempts
    BY <1>1
  <2>2. k = i
    BY <1>1, <1>4, <2>1 DEF Relay!IsNext, Ids
  <2> QED BY <1>2, <2>1, <2>2 DEF GivenUp
<1>7. QueueOK'
  <2>1. \A k \in todo' \cup delivered' : \A l \in Ids : l < k => l \in todo' \/ Passed(l)'
    <3>1. \A k \in todo' : \A l \in Ids : l < k => l \in todo' \/ Passed(l)
      BY <1>1 DEF SaleInv, QueueOK
    <3>2. \A k \in delivered : \A l \in Ids : l < k => l \notin todo
      BY <1>1, <1>4 DEF SaleInv, QueueOK, QueueTyped, Ids
    <3>3. \A k \in delivered : \A l \in Ids : l < k => Passed(l)
      BY <3>2 DEF SaleInv, QueueOK
    <3> QED BY <1>1, <3>1, <3>3 DEF Passed
  <2>2. \A k \in todo' : ~ Passed(k)'
    BY <1>1, <1>4 DEF SaleInv, QueueOK, Passed
  <2>3. \A d \in delivered' : \A k \in todo' : d < k
    BY <1>1, <1>4 DEF SaleInv, QueueOK
  <2>4. \A k \in published'[1] : \A l \in Ids : l < k => l \in published'[1] \/ GivenUp(k)'
    BY <1>1, <1>3, <1>4 DEF SaleInv, QueueOK
  <2> QED BY <1>1, <1>5, <1>6, <2>1, <2>2, <2>3, <2>4 DEF QueueOK
<1>8. \A p \in Products : SaleOK(p)'
  BY <1>1, <1>3, <1>4, SaleStays
<1> QED BY <1>7, <1>8

LEMMA DeadLetterSale ==
  ASSUME SaleInv, NEW i \in Ids, Relay!DeadLetter(i), UNCHANGED <<log, catalog>>
  PROVE  QueueOK' /\ \A p \in Products : SaleOK(p)'
<1>1. /\ src = 1 /\ pc = "dead_letter" /\ Relay!IsNext(i) /\ pc' = "dispatch"
      /\ UNCHANGED <<attempts, delivered>> /\ todo' = todo \ {i}
      /\ published' = [published EXCEPT ![1] = @ \cup {i}]
      /\ QueueTyped /\ todo \subseteq 1 .. Len(log)
  BY DEF SaleInv, PipelineInv, QueueOK, Relay!DeadLetter
<1>2. i \in todo /\ GivenUp(i) /\ GivenUp(i)'
  BY <1>1 DEF SaleInv, QueueOK, Relay!IsNext, GivenUp
<1>3. published'[1] = published[1] \cup {i} /\ QueueTyped'
  BY <1>1, <1>2 DEF QueueTyped
<1>4. QueueOK'
  BY <1>1, <1>2, <1>3 DEF SaleInv, QueueOK, Passed, GivenUp
<1>5. \A p \in Products : SaleOK(p)'
  BY <1>1, <1>2, <1>3, SaleStays DEF GivenUp
<1> QED BY <1>4, <1>5

LEMMA FinishSale ==
  ASSUME SaleInv, Relay!FinishSource, UNCHANGED <<log, catalog>>
  PROVE  QueueOK' /\ \A p \in Products : SaleOK(p)'
<1>1. /\ src = 1 /\ pc = "dispatch" /\ todo = {} /\ todo' = {} /\ delivered' = {}
      /\ pc' = "fetch" /\ UNCHANGED attempts
      /\ published' = [published EXCEPT ![1] = @ \cup delivered]
      /\ QueueTyped
  BY DEF SaleInv, PipelineInv, QueueOK, Relay!FinishSource
<1>2. published'[1] = published[1] \cup delivered /\ QueueTyped'
  BY <1>1 DEF QueueTyped
<1>3. QueueOK'
  BY <1>1, <1>2 DEF SaleInv, QueueOK, Passed, GivenUp
<1>4. \A p \in Products : SaleOK(p)'
  BY <1>1, <1>2, SaleStays DEF GivenUp
<1> QED BY <1>3, <1>4

LEMMA AbandonSale ==
  ASSUME SaleInv, Relay!AbandonTick, UNCHANGED <<log, catalog>>
  PROVE  QueueOK' /\ \A p \in Products : SaleOK(p)'
<1>1. /\ pc' = "fetch" /\ todo' = {} /\ delivered' = {} /\ UNCHANGED <<published, attempts>>
      /\ QueueTyped
  BY DEF SaleInv, QueueOK, Relay!AbandonTick, Relay!outbox
<1>2. QueueOK'
  BY <1>1 DEF SaleInv, QueueOK, QueueTyped, Passed, GivenUp
<1>3. \A p \in Products : SaleOK(p)'
  BY <1>1, SaleStays DEF GivenUp
<1> QED BY <1>2, <1>3

LEMMA RolledBackSale ==
  ASSUME SaleInv, NEW i \in Ids, Relay!RolledBack(i), UNCHANGED <<log, catalog>>
  PROVE  QueueOK' /\ \A p \in Products : SaleOK(p)'
<1>1. /\ pc' = "record" /\ UNCHANGED <<published, attempts, todo, delivered>>
  BY DEF Relay!RolledBack, Relay!outbox
<1>2. QueueOK'
  BY <1>1 DEF SaleInv, QueueOK, QueueTyped, Passed, GivenUp
<1>3. \A p \in Products : SaleOK(p)'
  BY <1>1, SaleStays DEF GivenUp
<1> QED BY <1>2, <1>3

(* The catalog applies the next event of the batch: none before it is left
   behind, and none after it was passed but those that were given up. *)
LEMMA AppliedSale ==
  ASSUME SaleInv, NEW i \in Ids, DispatchApplied(i)
  PROVE  QueueOK' /\ \A p \in Products : SaleOK(p)'
<1>1. /\ src = 1 /\ pc = "dispatch" /\ i \in todo /\ \A k \in todo : i <= k
      /\ UNCHANGED <<log, pc, published, attempts>>
      /\ todo' = todo \ {i} /\ delivered' = delivered \cup {i}
      /\ catalog' = Projection!Apply(catalog, known, log[i])
      /\ QueueTyped /\ todo \subseteq 1 .. Len(log)
  BY DEF SaleInv, PipelineInv, QueueOK, DispatchApplied, Relay!Committed, Relay!IsNext,
         Relay!outbox, storeVars
<1>2. i \in DOMAIN log /\ log[i] \in Events /\ DOMAIN log \subseteq Ids
      /\ DOMAIN log = 1 .. Len(log) /\ Len(log) \in Nat
  BY <1>1, StoreAssumption DEF SaleInv, PipelineInv, QueueTyped, Ids
<1>3. QueueTyped'
  BY <1>1, <1>2 DEF QueueTyped
<1>4. \A k \in Ids : k < i => Passed(k)
  BY <1>1, <1>2 DEF SaleInv, QueueOK, Ids
<1>5. \A k \in todo' : i < k
  BY <1>1, <1>2
<1>6. QueueOK'
  BY <1>1, <1>3, <1>4, <1>5 DEF SaleInv, QueueOK, Passed, GivenUp
<1>7. ASSUME NEW p \in Products, OnSale(catalog', p)
      PROVE  \E k \in DOMAIN log :
               /\ Offers(log[k], p)
               /\ \A j \in DOMAIN log : k < j /\ Withdraws(log[j], p) =>
                    j \notin delivered' /\ (j \in published[1] => GivenUp(j))
  <2>1. ~ Withdraws(log[i], p) /\ (Offers(log[i], p) \/ OnSale(catalog, p))
    <3>1. catalog \in Catalogs
      BY DEF SaleInv, PipelineInv, Mirrors
    <3> QED BY <1>1, <1>2, <1>7, <3>1, SaleComesFromEvents
  <2>2. CASE Offers(log[i], p)
    <3>1. ASSUME NEW j \in DOMAIN log, i < j
          PROVE  j \notin delivered' /\ (j \in published[1] => GivenUp(j))
      <4>1. j \notin delivered
        BY <1>1, <1>2, <3>1 DEF SaleInv, QueueOK
      <4>2. i \notin published[1]
        BY <1>1 DEF SaleInv, QueueOK, Passed
      <4>3. j \in published[1] => GivenUp(j)
        BY <3>1, <4>2 DEF SaleInv, QueueOK
      <4> QED BY <1>1, <1>2, <3>1, <4>1, <4>3
    <3> QED BY <1>2, <2>2, <3>1
  <2>3. CASE OnSale(catalog, p)
    <3>1. PICK k \in DOMAIN log :
            /\ Offers(log[k], p)
            /\ \A j \in DOMAIN log : k < j /\ Withdraws(log[j], p) =>
                 j \notin delivered /\ (j \in published[1] => GivenUp(j))
      BY <2>3 DEF SaleInv, SaleOK
    <3> QED BY <1>1, <2>1, <3>1
  <2> QED BY <2>1, <2>2, <2>3
<1>8. \A p \in Products : SaleOK(p)'
  BY <1>1, <1>7 DEF SaleOK, OnSale, Projection!Projected, GivenUp
<1> QED BY <1>6, <1>8

LEMMA SaleStep ==
  ASSUME SaleInv, [Next]_vars
  PROVE  SaleInv'
<1>1. PipelineInv'
  BY SellerKeeps, RelayKeeps, OtherStepsKeep DEF SaleInv, Next
<1>2. CASE SellerStep
  BY <1>1, <1>2, SellerSale DEF SaleInv
<1>3. ASSUME UNCHANGED storeVars, QueueOK' /\ \A p \in Products : SaleOK(p)'
      PROVE  SaleInv'
  <2>1. LogOK'
    BY <1>3 DEF SaleInv, LogOK, storeVars, Offered, Exists, NeverCreated
  <2> QED BY <1>1, <1>3, <2>1 DEF SaleInv
<1>4. CASE RelayStep
  <2>1. ASSUME NEW i \in Ids, DispatchApplied(i)
        PROVE  SaleInv'
    BY <1>3, <2>1, AppliedSale DEF DispatchApplied
  <2>2. ASSUME NEW i \in Ids, DispatchRejected(i) \/ DispatchFailed(i)
        PROVE  SaleInv'
    BY <1>3, <2>2, RolledBackSale DEF DispatchRejected, DispatchFailed, storeVars
  <2>3. ASSUME UNCHANGED <<storeVars, known, catalog>>,
               \/ Relay!Fetch
               \/ \E i \in Ids : Relay!RecordFailure(i) \/ Relay!DeadLetter(i)
               \/ Relay!FinishSource
        PROVE  SaleInv'
    <3>1. UNCHANGED storeVars /\ UNCHANGED <<log, catalog>>
      BY <2>3 DEF storeVars
    <3> QED BY <1>3, <2>3, <3>1, FetchSale, RecordSale, DeadLetterSale, FinishSale
  <2> QED BY <1>4, <2>1, <2>2, <2>3 DEF RelayStep
<1>5. CASE Interruption
  <2>1. Relay!AbandonTick /\ UNCHANGED storeVars /\ UNCHANGED <<log, catalog>>
    BY <1>5 DEF Interruption, Relay!TickError, Relay!Restart, storeVars
  <2> QED BY <1>3, <2>1, AbandonSale
<1>6. CASE (\E a \in Attributes : CreateAttribute(a)) \/ UNCHANGED vars
  <2>1. UNCHANGED <<storeVars, catalog, relayVars>>
    BY <1>6 DEF CreateAttribute, vars
  <2>2. UNCHANGED <<log, published, attempts, delivered, pc, todo>>
    BY <2>1 DEF storeVars, relayVars
  <2>3. QueueOK'
    BY <2>2 DEF SaleInv, QueueOK, QueueTyped, Passed, GivenUp, Relay!IsNext
  <2>4. \A p \in Products : SaleOK(p)'
    BY <2>1, <2>2, SaleStays DEF GivenUp
  <2> QED BY <1>3, <2>1, <2>3, <2>4
<1> QED BY <1>2, <1>4, <1>5, <1>6 DEF Next

(* For any number of products, sellers and events, any outages, redeliveries
   and restarts: when the outbox is drained the catalog sells nothing that its
   seller withdrew (set_status, delete_product), unless the withdrawal itself
   was given up after MAX_DISPATCH_ATTEMPTS. *)
THEOREM WithdrawnIsOffSale == Spec => []NothingWithdrawnOnSale
<1>1. SaleInv => NothingWithdrawnOnSale
  <2> SUFFICES ASSUME SaleInv, Drained, NEW p \in Products, OnSale(catalog, p),
                      \A i \in DOMAIN log :
                        Withdraws(log[i], p) => attempts[1][i] < MaxAttempts,
                      ~ Offered(p)
               PROVE  FALSE
    BY DEF NothingWithdrawnOnSale
  <2>1. PICK i \in DOMAIN log :
          /\ Offers(log[i], p)
          /\ \A j \in DOMAIN log : i < j /\ Withdraws(log[j], p) =>
               j \notin delivered /\ (j \in published[1] => GivenUp(j))
    BY DEF SaleInv, SaleOK
  <2>2. PICK j \in DOMAIN log : i < j /\ Withdraws(log[j], p)
    BY <2>1 DEF SaleInv, LogOK
  <2>3. j \in published[1] /\ j \in Ids
    BY StoreAssumption DEF SaleInv, PipelineInv, QueueOK, QueueTyped, Drained, Ids
  <2>4. attempts[1][j] \in Nat /\ attempts[1][j] >= MaxAttempts
    BY <2>1, <2>2, <2>3 DEF SaleInv, QueueOK, QueueTyped, GivenUp
  <2> QED BY <2>2, <2>4, PipelineAssumption
<1> QED BY InitSale, SaleStep, <1>1, PTL DEF Spec

-----------------------------------------------------------------------------
(* The types that no invariant above needed. *)
RestTyped ==
  /\ values \in [Products -> [Attributes -> Values \cup {None}]]
  /\ silent \subseteq Products
  /\ known \subseteq Attributes
  /\ received \in [{1} -> [Ids -> Nat]]
  /\ pc \in {"fetch", "dispatch", "record", "dead_letter"}
  /\ outages \in 0 .. MaxOutages
  /\ faults \in 0 .. MaxFaults

LEMMA InitRest == Init => RestTyped
  BY PipelineAssumption
     DEF Init, StoreInit, Relay!Init, Relay!Sources, Relay!Ids, Ids, RestTyped

LEMMA RestStep ==
  ASSUME RestTyped, src = 1, [Next]_vars
  PROVE  RestTyped'
<1>1. CASE SellerStep
  <2>1. UNCHANGED <<known, received, pc, outages, faults>>
    BY <1>1 DEF SellerStep, relayVars
  <2>2. silent' \subseteq Products /\ values' \in [Products -> [Attributes -> Values \cup {None}]]
    <3>1. \/ UNCHANGED <<values, silent>>
          \/ \E p \in Products : UNCHANGED values /\ silent' \in {silent \cup {p}, silent \ {p}}
          \/ \E p \in Products : DeleteProduct(p)
          \/ \E p \in Products, a \in Attributes, v \in Values \cup {None} :
               UNCHANGED silent /\ values' = [values EXCEPT ![p][a] = v]
      BY <1>1 DEF SellerStep, StoreStep, CreateProduct, UpdateProduct, SetStatus,
                  SetAttributeValue, ClearAttributeValue
    <3> QED BY <3>1 DEF DeleteProduct, RestTyped
  <2> QED BY <2>1, <2>2 DEF RestTyped
<1>2. CASE \E a \in Attributes : CreateAttribute(a)
  BY <1>2 DEF CreateAttribute, storeVars, relayVars, RestTyped
<1>3. CASE \E i \in Ids : DispatchApplied(i)
  BY <1>3 DEF DispatchApplied, Relay!Committed, storeVars, RestTyped
<1>4. CASE \E i \in Ids : DispatchRejected(i)
  BY <1>4 DEF DispatchRejected, Relay!RolledBack, storeVars, RestTyped
<1>5. CASE \E i \in Ids : DispatchFailed(i)
  BY <1>5, PipelineAssumption DEF DispatchFailed, Relay!RolledBack, storeVars, RestTyped
<1>6. CASE /\ UNCHANGED <<storeVars, known, catalog>>
           /\ \/ Relay!Fetch
              \/ \E i \in Ids : Relay!RecordFailure(i) \/ Relay!DeadLetter(i)
              \/ Relay!FinishSource
  BY <1>6 DEF Relay!Fetch, Relay!RecordFailure, Relay!DeadLetter, Relay!FinishSource,
              storeVars, RestTyped
<1>7. CASE Interruption
  BY <1>7, PipelineAssumption
     DEF Interruption, Relay!TickError, Relay!Restart, Relay!AbandonTick, storeVars, RestTyped
<1>8. CASE UNCHANGED vars
  BY <1>8 DEF vars, storeVars, relayVars, RestTyped
<1> QED BY <1>1, <1>2, <1>3, <1>4, <1>5, <1>6, <1>7, <1>8 DEF Next, RelayStep

(* The tables keep their types, and the locals of relay_tick name rows of the
   outbox, while the store writes more of them. *)
THEOREM PipelineTypeCorrect == Spec => []TypeOK
<1>1. SaleInv /\ RestTyped => TypeOK
  <2> SUFFICES ASSUME SaleInv, RestTyped PROVE TypeOK
    OBVIOUS
  <2>1. catalog \in Catalogs /\ log \in Seq(Events) /\ src = 1 /\ todo \subseteq 1 .. Len(log)
    BY DEF SaleInv, PipelineInv, Mirrors
  <2>2. QueueTyped
    BY DEF SaleInv, QueueOK
  <2>3. Relay!Sources = {1} /\ Relay!Ids = Ids
    BY DEF Relay!Sources, Relay!Ids, Ids
  <2>4. Relay!TypeOK
    <3>1. <<Len(log)>> \in [{1} -> 0 .. MaxLog]
      BY <2>2 DEF QueueTyped
    <3>2. 1 .. Len(log) \subseteq Ids
      BY <2>2, StoreAssumption DEF QueueTyped, Ids
    <3>3. published \in [{1} -> SUBSET Ids]
      BY <2>2, <3>2 DEF QueueTyped
    <3>4. published[1] \subseteq 1 .. <<Len(log)>>[1] /\ <<Len(log)>>[1] = Len(log)
      BY <2>2 DEF QueueTyped
    <3> QED BY <2>1, <2>2, <2>3, <3>1, <3>3, <3>4 DEF Relay!TypeOK, RestTyped, QueueTyped
  <2>5. /\ DOMAIN catalog = {"rows", "index", "fts"}
        /\ catalog.rows \in [Products -> Rows \cup {None}]
        /\ catalog.index \in [Products -> [Attributes -> Values \cup {None}]]
        /\ catalog.fts \in [Products -> [text : Texts, attrs : SUBSET TextValues] \cup {None}]
    BY <2>1 DEF Catalogs, FtsRows
  <2> QED BY <2>4, <2>5 DEF TypeOK, RestTyped, SaleInv, LogOK
<1>2. SaleInv /\ RestTyped /\ [Next]_vars => (SaleInv /\ RestTyped)'
  BY SaleStep, RestStep DEF SaleInv, PipelineInv
<1> QED BY InitSale, InitRest, <1>1, <1>2, PTL DEF Spec
-----------------------------------------------------------------------------
(* What an event leaves in the row and in the index of its product. *)

LEMMA UpsertKeepsTables ==
  ASSUME NEW c \in Catalogs, NEW p
  PROVE  /\ Projection!UpsertFts(c, p).rows = c.rows
         /\ Projection!UpsertFts(c, p).index = c.index
  BY DEF Projection!UpsertFts, Catalogs

LEMMA CreatedEffect ==
  ASSUME NEW c \in Catalogs, NEW taxonomy, NEW e \in Events, e.type = "ProductCreated",
         NEW d, d = Projection!Apply(c, taxonomy, e)
  PROVE  /\ d.index = c.index
         /\ \A q \in Products \ {e.id} : d.rows[q] = c.rows[q]
         /\ Projection!Projected(c, e.id) \/ Projection!SlugTaken(c, e.id, e.slug) =>
              d.rows[e.id] = c.rows[e.id]
         /\ ~ Projection!Projected(c, e.id) /\ ~ Projection!SlugTaken(c, e.id, e.slug) =>
              /\ Projection!Projected(d, e.id)
              /\ d.rows[e.id].slug = e.slug /\ d.rows[e.id].text = e.text
              /\ d.rows[e.id].status = e.status
<1> DEFINE row == [slug |-> e.slug, text |-> e.text, status |-> e.status]
           b   == [c EXCEPT !.rows[e.id] = row]
<1>0. e.id \in Products /\ row \in Rows
  BY DEF Events, Rows
<1>1. /\ e.id \in Products /\ row \in Rows /\ row # None
      /\ row.slug = e.slug /\ row.text = e.text /\ row.status = e.status
  BY <1>0, StoreAssumption
<1>2. /\ b \in Catalogs /\ b.index = c.index /\ b.rows[e.id] = row
      /\ \A q \in Products \ {e.id} : b.rows[q] = c.rows[q]
  <2> HIDE DEF row
  <2> QED BY <1>1 DEF Catalogs
<1>3. d = Projection!ApplyCreated(c, e)
  BY DEF Projection!Apply
<1>4. CASE Projection!Projected(c, e.id) \/ Projection!SlugTaken(c, e.id, e.slug)
  <2>1. d = Projection!UpsertFts(c, e.id)
    BY <1>3, <1>4 DEF Projection!ApplyCreated
  <2> HIDE DEF row, b
  <2>2. d.rows = c.rows /\ d.index = c.index
    BY <2>1, UpsertKeepsTables
  <2> QED BY <1>4, <2>2
<1>5. CASE ~ (Projection!Projected(c, e.id) \/ Projection!SlugTaken(c, e.id, e.slug))
  <2>1. d = Projection!UpsertFts(b, e.id)
    BY <1>3, <1>5 DEF Projection!ApplyCreated
  <2> HIDE DEF row, b
  <2>2. d.rows = b.rows /\ d.index = b.index
    BY <1>2, <2>1, UpsertKeepsTables
  <2>3. Projection!Projected(d, e.id)
    BY <1>1, <1>2, <2>2 DEF Projection!Projected
  <2> QED BY <1>1, <1>2, <1>5, <2>2, <2>3
<1> QED BY <1>4, <1>5

UpdatesCore(e) == e.type = "ProductUpdated" /\ e.reason = ""

LEMMA CoreEffect ==
  ASSUME NEW c \in Catalogs, NEW taxonomy, NEW e \in Events, UpdatesCore(e),
         NEW d, d = Projection!Apply(c, taxonomy, e)
  PROVE  /\ d.index = c.index
         /\ \A q \in Products \ {e.id} : d.rows[q] = c.rows[q]
         /\ Projection!Projected(c, e.id) =>
              /\ Projection!Projected(d, e.id)
              /\ d.rows[e.id].slug = e.slug /\ d.rows[e.id].text = e.text
              /\ d.rows[e.id].status = c.rows[e.id].status
         /\ ~ Projection!Projected(c, e.id) => d.rows[e.id] = c.rows[e.id]
<1> DEFINE b == [c EXCEPT !.rows[e.id].slug = e.slug, !.rows[e.id].text = e.text]
<1>1. e.id \in Products /\ e.slug \in Slugs /\ e.text \in Texts
  BY DEF Events, UpdatesCore
<1>2. d = Projection!ApplyCoreUpdated(c, e)
  BY DEF Projection!Apply, UpdatesCore
<1>3. CASE ~ Projection!Projected(c, e.id)
  <2>1. d = Projection!UpsertFts(c, e.id)
    BY <1>2, <1>3 DEF Projection!ApplyCoreUpdated
  <2> HIDE DEF b
  <2>2. d.rows = c.rows /\ d.index = c.index
    BY <2>1, UpsertKeepsTables
  <2> QED BY <1>3, <2>2
<1>4. CASE Projection!Projected(c, e.id)
  <2> DEFINE new == [c.rows[e.id] EXCEPT !.slug = e.slug, !.text = e.text]
  <2>1. c.rows[e.id] \in Rows
    BY <1>1, <1>4 DEF Catalogs, Projection!Projected
  <2>2. /\ new \in Rows /\ new.slug = e.slug /\ new.text = e.text
        /\ new.status = c.rows[e.id].status
    BY <1>1, <2>1 DEF Rows
  <2>3. b \in Catalogs /\ b.index = c.index /\ b.rows = [c.rows EXCEPT ![e.id] = new]
    BY <1>1, <2>1 DEF Catalogs, Rows
  <2>4. d = Projection!UpsertFts(b, e.id)
    BY <1>2, <1>4 DEF Projection!ApplyCoreUpdated
  <2> HIDE DEF b, new
  <2>5. d.rows = b.rows /\ d.index = b.index
    BY <2>3, <2>4, UpsertKeepsTables
  <2>6. d.rows[e.id] = new /\ \A q \in Products \ {e.id} : d.rows[q] = c.rows[q]
    BY <1>1, <2>3, <2>5 DEF Catalogs
  <2>7. new # None
    BY <2>2, StoreAssumption
  <2>8. Projection!Projected(d, e.id)
    BY <2>6, <2>7 DEF Projection!Projected
  <2> QED BY <1>4, <2>2, <2>3, <2>5, <2>6, <2>8
<1> QED BY <1>3, <1>4

LEMMA ValueEffect ==
  ASSUME NEW c \in Catalogs, NEW taxonomy, NEW e \in Events,
         e.type = "ProductUpdated",
         e.reason \in {"attribute_value_set", "attribute_value_cleared"}
  PROVE  LET d == Projection!Apply(c, taxonomy, e)
         IN  /\ d.rows = c.rows
             /\ \A q \in Products \ {e.id} : d.index[q] = c.index[q]
             /\ \A a \in Attributes \ {e.attribute} : d.index[e.id][a] = c.index[e.id][a]
             /\ IF e.reason = "attribute_value_cleared"
                  THEN d.index[e.id][e.attribute] = None
                  ELSE e.attribute \in taxonomy => d.index[e.id][e.attribute] = e.value
<1> DEFINE d    == Projection!Apply(c, taxonomy, e)
           b(v) == [c EXCEPT !.index[e.id][e.attribute] = v]
<1>1. /\ e.id \in Products /\ e.attribute \in Attributes
      /\ e.reason = "attribute_value_set" => e.value \in Values
  BY DEF Events
<1>2. ASSUME NEW v \in Values \cup {None}
      PROVE  /\ b(v) \in Catalogs /\ b(v).rows = c.rows
             /\ b(v).index[e.id][e.attribute] = v
             /\ \A q \in Products \ {e.id} : b(v).index[q] = c.index[q]
             /\ \A a \in Attributes \ {e.attribute} : b(v).index[e.id][a] = c.index[e.id][a]
  BY <1>1 DEF Catalogs
<1>3. ASSUME NEW v \in Values \cup {None}, d = Projection!UpsertFts(b(v), e.id)
      PROVE  /\ d.rows = c.rows
             /\ d.index[e.id][e.attribute] = v
             /\ \A q \in Products \ {e.id} : d.index[q] = c.index[q]
             /\ \A a \in Attributes \ {e.attribute} : d.index[e.id][a] = c.index[e.id][a]
  <2> HIDE DEF d, b
  <2>1. d.rows = b(v).rows /\ d.index = b(v).index
    BY <1>2, <1>3, UpsertKeepsTables
  <2> QED BY <1>2, <2>1
<1>4. CASE e.reason = "attribute_value_set" /\ e.attribute \in taxonomy
  <2>1. d = Projection!UpsertFts(b(e.value), e.id)
    BY <1>4 DEF Projection!Apply, Projection!ApplyValueSet
  <2> HIDE DEF d, b
  <2> QED BY <1>1, <1>3, <1>4, <2>1 DEF d
<1>5. CASE e.reason = "attribute_value_set" /\ e.attribute \notin taxonomy
  <2>1. d = Projection!UpsertFts(c, e.id)
    BY <1>5 DEF Projection!Apply, Projection!ApplyValueSet
  <2> HIDE DEF d, b
  <2>2. d.rows = c.rows /\ d.index = c.index
    BY <2>1, UpsertKeepsTables
  <2> QED BY <1>5, <2>2 DEF d
<1>6. CASE e.reason = "attribute_value_cleared"
  <2>1. d = Projection!UpsertFts(b(None), e.id)
    BY <1>6 DEF Projection!Apply, Projection!ApplyValueCleared
  <2> HIDE DEF d, b
  <2> QED BY <1>3, <1>6, <2>1 DEF d
<1> QED BY <1>4, <1>5, <1>6

LEMMA DeletedEffect ==
  ASSUME NEW c \in Catalogs, NEW taxonomy, NEW e \in Events, e.type = "ProductDeleted"
  PROVE  LET d == Projection!Apply(c, taxonomy, e)
         IN  /\ d.rows[e.id] = None
             /\ \A a \in Attributes : d.index[e.id][a] = None
             /\ \A q \in Products \ {e.id} : d.rows[q] = c.rows[q] /\ d.index[q] = c.index[q]
<1> DEFINE d     == Projection!Apply(c, taxonomy, e)
           empty == [a \in Attributes |-> None]
<1>1. d = Projection!ApplyDeleted(c, e) /\ e.id \in Products
  BY DEF Projection!Apply, Events
<1>2. /\ d.rows = [c.rows EXCEPT ![e.id] = None]
      /\ d.index = [c.index EXCEPT ![e.id] = empty]
  BY <1>1 DEF Projection!ApplyDeleted, Catalogs
<1> HIDE DEF d
<1>3. d.rows[e.id] = None /\ d.index[e.id] = empty
      /\ \A q \in Products \ {e.id} : d.rows[q] = c.rows[q] /\ d.index[q] = c.index[q]
  BY <1>1, <1>2 DEF Catalogs
<1> QED BY <1>3 DEF d

LEMMA StatusEffect ==
  ASSUME NEW c \in Catalogs, NEW taxonomy, NEW e \in Events,
         e.type \notin {"ProductCreated", "ProductUpdated", "ProductDeleted"}
  PROVE  LET d == Projection!Apply(c, taxonomy, e)
         IN  /\ d.index = c.index
             /\ \A q \in Products \ {e.id} : d.rows[q] = c.rows[q]
             /\ IF Projection!Projected(c, e.id)
                  THEN /\ Projection!Projected(d, e.id)
                       /\ d.rows[e.id].slug = c.rows[e.id].slug
                       /\ d.rows[e.id].text = c.rows[e.id].text
                       /\ d.rows[e.id].status = e.to
                  ELSE d.rows[e.id] = c.rows[e.id]
<1> DEFINE d == Projection!Apply(c, taxonomy, e)
<1>1. /\ d = Projection!ApplyStatusChanged(c, e)
      /\ e.id \in Products /\ e.to \in Statuses
  BY DEF Projection!Apply, Events, Statuses
<1>2. CASE ~ Projection!Projected(c, e.id)
  BY <1>1, <1>2 DEF Projection!ApplyStatusChanged
<1>3. CASE Projection!Projected(c, e.id)
  <2> DEFINE new == [c.rows[e.id] EXCEPT !.status = e.to]
  <2>1. c.rows[e.id] \in Rows
    BY <1>1, <1>3 DEF Catalogs, Projection!Projected
  <2>2. /\ new \in Rows /\ new.status = e.to /\ new.slug = c.rows[e.id].slug
        /\ new.text = c.rows[e.id].text
    BY <1>1, <2>1 DEF Rows
  <2>3. d.rows = [c.rows EXCEPT ![e.id] = new] /\ d.index = c.index
    BY <1>1, <1>3 DEF Projection!ApplyStatusChanged, Catalogs
  <2> HIDE DEF d, new
  <2>4. d.rows[e.id] = new /\ \A q \in Products \ {e.id} : d.rows[q] = c.rows[q]
    BY <1>1, <2>3 DEF Catalogs
  <2>5. new # None
    BY <2>2, StoreAssumption
  <2>6. Projection!Projected(d, e.id)
    BY <2>4, <2>5 DEF Projection!Projected
  <2> QED BY <1>3, <2>2, <2>3, <2>4, <2>6 DEF d
<1> QED BY <1>2, <1>3
-----------------------------------------------------------------------------
(* Which event of the log a field was last written by. *)

CreatesProduct(e, p) == e.type = "ProductCreated" /\ e.id = p

DeletesProduct(e, p) == e.type = "ProductDeleted" /\ e.id = p

WritesCore(e, p) ==
  /\ e.id = p
  /\ e.type = "ProductCreated" \/ (e.type = "ProductUpdated" /\ e.reason = "")

WritesStatus(e, p) == e.id = p /\ e.type \notin {"ProductUpdated", "ProductDeleted"}

StatusIn(e) == IF e.type = "ProductCreated" THEN e.status ELSE e.to

WritesValue(e, p, a) ==
  /\ e.id = p
  /\ \/ e.type = "ProductDeleted"
     \/ /\ e.type = "ProductUpdated"
        /\ e.reason \in {"attribute_value_set", "attribute_value_cleared"}
        /\ e.attribute = a

ValueIn(e) ==
  IF e.type = "ProductUpdated" /\ e.reason = "attribute_value_set" THEN e.value ELSE None

Creations(p)      == {i \in DOMAIN log : CreatesProduct(log[i], p)}
Deletions(p)      == {i \in DOMAIN log : DeletesProduct(log[i], p)}
CoreWrites(p)     == {i \in DOMAIN log : WritesCore(log[i], p)}
StatusWrites(p)   == {i \in DOMAIN log : WritesStatus(log[i], p)}
ValueWrites(p, a) == {i \in DOMAIN log : WritesValue(log[i], p, a)}

Newest(w, W) == w \in W /\ \A j \in W : j <= w

(* What the store holds is what the log says of it. *)
CreatedFirst(p) ==
  \A k \in Creations(p) : \A i \in DOMAIN log : log[i].id = p => k <= i

ExistenceTold(p) == Exists(p) <=> Creations(p) # {} /\ Deletions(p) = {}

CoreTold(p) ==
  Exists(p) =>
    \E w \in DOMAIN log : /\ Newest(w, CoreWrites(p))
                          /\ products[p].slug = log[w].slug
                          /\ products[p].text = log[w].text

StatusTold(p) ==
  Exists(p) /\ p \notin silent =>
    \E w \in DOMAIN log : /\ Newest(w, StatusWrites(p))
                          /\ products[p].status = StatusIn(log[w])

ValueTold(p, a) ==
  \/ values[p][a] = None /\ ValueWrites(p, a) = {}
  \/ \E w \in DOMAIN log : /\ Newest(w, ValueWrites(p, a))
                           /\ values[p][a] = ValueIn(log[w])

StoreTold(p) ==
  /\ CreatedFirst(p)
  /\ NeverCreated(p) => p \notin silent
  /\ ExistenceTold(p)
  /\ CoreTold(p)
  /\ StatusTold(p)
  /\ \A a \in Attributes : ValueTold(p, a)

LogTells ==
  /\ \A i \in DOMAIN log : \E k \in DOMAIN log : k <= i /\ CreatesProduct(log[k], log[i].id)
  /\ \A p \in Products : StoreTold(p)

(* No two products that exist at the same time have the same slug. *)
SlugsDiffer ==
  \A p, q \in Products :
    p # q /\ Exists(p) /\ Exists(q) => products[p].slug # products[q].slug

(* The slug a product is created with had been left by its last holder. *)
SlugWasFree(p, q) ==
  \A i \in Creations(p) : \A w \in CoreWrites(q) :
    w < i /\ log[w].slug = log[i].slug =>
      \/ \E j \in CoreWrites(q) : w < j /\ j < i
      \/ \E d \in Deletions(q) : d < i

SlugsWereFree == \A p \in Products : \A q \in Products \ {p} : SlugWasFree(p, q)

LEMMA LogAfter ==
  ASSUME log \in Seq(Events), NEW e \in Events, log' = Append(log, e)
  PROVE  /\ Len(log) \in Nat
         /\ DOMAIN log = 1 .. Len(log)
         /\ DOMAIN log' = DOMAIN log \cup {Len(log) + 1}
         /\ Len(log) + 1 \notin DOMAIN log
         /\ \A i \in DOMAIN log : i <= Len(log) /\ log'[i] = log[i] /\ log[i] \in Events
         /\ log'[Len(log) + 1] = e
  OBVIOUS

(* One event more: the sets above grow by its place, or stay. *)
LEMMA WritesAfter ==
  ASSUME log \in Seq(Events), NEW e \in Events, log' = Append(log, e), NEW p
  PROVE  LET n == Len(log) + 1 IN
         /\ Creations(p)' = Creations(p) \cup (IF CreatesProduct(e, p) THEN {n} ELSE {})
         /\ Deletions(p)' = Deletions(p) \cup (IF DeletesProduct(e, p) THEN {n} ELSE {})
         /\ CoreWrites(p)' = CoreWrites(p) \cup (IF WritesCore(e, p) THEN {n} ELSE {})
         /\ StatusWrites(p)' = StatusWrites(p) \cup (IF WritesStatus(e, p) THEN {n} ELSE {})
         /\ \A a : ValueWrites(p, a)' =
                     ValueWrites(p, a) \cup (IF WritesValue(e, p, a) THEN {n} ELSE {})
<1> DEFINE n == Len(log) + 1
<1>1. /\ DOMAIN log' = DOMAIN log \cup {n} /\ n \notin DOMAIN log
      /\ \A i \in DOMAIN log : log'[i] = log[i]
      /\ log'[n] = e
  BY LogAfter
<1> HIDE DEF n
<1>2. Creations(p)' = Creations(p) \cup (IF CreatesProduct(e, p) THEN {n} ELSE {})
  BY <1>1 DEF Creations, CreatesProduct
<1>3. Deletions(p)' = Deletions(p) \cup (IF DeletesProduct(e, p) THEN {n} ELSE {})
  BY <1>1 DEF Deletions, DeletesProduct
<1>4. CoreWrites(p)' = CoreWrites(p) \cup (IF WritesCore(e, p) THEN {n} ELSE {})
  BY <1>1 DEF CoreWrites, WritesCore
<1>5. StatusWrites(p)' = StatusWrites(p) \cup (IF WritesStatus(e, p) THEN {n} ELSE {})
  BY <1>1 DEF StatusWrites, WritesStatus
<1>6. \A a : ValueWrites(p, a)' =
               ValueWrites(p, a) \cup (IF WritesValue(e, p, a) THEN {n} ELSE {})
  BY <1>1 DEF ValueWrites, WritesValue
<1> QED BY <1>2, <1>3, <1>4, <1>5, <1>6 DEF n

(* One event more: what it does not write is told as before, and what it
   writes is told by it. *)
LEMMA CoreStillTold ==
  ASSUME log \in Seq(Events), NEW e \in Events, log' = Append(log, e),
         NEW p \in Products, CoreTold(p),
         \/ WritesCore(e, p) /\ (Exists(p)' => /\ products'[p].slug = e.slug
                                               /\ products'[p].text = e.text)
         \/ ~ WritesCore(e, p) /\ (Exists(p)' => /\ Exists(p)
                                                 /\ products'[p].slug = products[p].slug
                                                 /\ products'[p].text = products[p].text)
  PROVE  CoreTold(p)'
<1> DEFINE n == Len(log) + 1
<1>1. /\ n \in Nat /\ DOMAIN log' = DOMAIN log \cup {n} /\ n \notin DOMAIN log
      /\ \A i \in DOMAIN log : i < n /\ log'[i] = log[i]
      /\ log'[n] = e
  BY LogAfter
<1>2. CoreWrites(p)' = CoreWrites(p) \cup (IF WritesCore(e, p) THEN {n} ELSE {})
  BY WritesAfter
<1>3. CoreWrites(p) \subseteq DOMAIN log
  BY DEF CoreWrites
<1> HIDE DEF n
<1> QED BY <1>1, <1>2, <1>3 DEF CoreTold, Newest

LEMMA StatusStillTold ==
  ASSUME log \in Seq(Events), NEW e \in Events, log' = Append(log, e),
         NEW p \in Products, StatusTold(p),
         \/ /\ WritesStatus(e, p)
            /\ Exists(p)' /\ p \notin silent' => products'[p].status = StatusIn(e)
         \/ /\ ~ WritesStatus(e, p)
            /\ Exists(p)' /\ p \notin silent' =>
                 Exists(p) /\ p \notin silent /\ products'[p].status = products[p].status
  PROVE  StatusTold(p)'
<1> DEFINE n == Len(log) + 1
<1>1. /\ n \in Nat /\ DOMAIN log' = DOMAIN log \cup {n} /\ n \notin DOMAIN log
      /\ \A i \in DOMAIN log : i < n /\ log'[i] = log[i]
      /\ log'[n] = e
  BY LogAfter
<1>2. StatusWrites(p)' = StatusWrites(p) \cup (IF WritesStatus(e, p) THEN {n} ELSE {})
  BY WritesAfter
<1>3. StatusWrites(p) \subseteq DOMAIN log
  BY DEF StatusWrites
<1> HIDE DEF n
<1> QED BY <1>1, <1>2, <1>3 DEF StatusTold, Newest, StatusIn

LEMMA ValueStillTold ==
  ASSUME log \in Seq(Events), NEW e \in Events, log' = Append(log, e),
         NEW p \in Products, NEW a \in Attributes, ValueTold(p, a),
         \/ WritesValue(e, p, a) /\ values'[p][a] = ValueIn(e)
         \/ ~ WritesValue(e, p, a) /\ values'[p][a] = values[p][a]
  PROVE  ValueTold(p, a)'
<1> DEFINE n == Len(log) + 1
<1>1. /\ n \in Nat /\ DOMAIN log' = DOMAIN log \cup {n} /\ n \notin DOMAIN log
      /\ \A i \in DOMAIN log : i < n /\ log'[i] = log[i]
      /\ log'[n] = e
  BY LogAfter
<1>2. ValueWrites(p, a)' = ValueWrites(p, a) \cup (IF WritesValue(e, p, a) THEN {n} ELSE {})
  BY WritesAfter
<1>3. ValueWrites(p, a) \subseteq DOMAIN log
  BY DEF ValueWrites
<1> HIDE DEF n
<1> QED BY <1>1, <1>2, <1>3 DEF ValueTold, Newest, ValueIn

(* The rest of StoreTold, for an event that does not create p. *)
LEMMA ExistenceStillTold ==
  ASSUME log \in Seq(Events), NEW e \in Events, log' = Append(log, e),
         NEW p \in Products, StoreTold(p), ~ CreatesProduct(e, p),
         p \in silent' => p \in silent,
         \/ DeletesProduct(e, p) /\ ~ Exists(p)'
         \/ ~ DeletesProduct(e, p) /\ (Exists(p)' <=> Exists(p))
  PROVE  /\ CreatedFirst(p)' /\ ExistenceTold(p)'
         /\ NeverCreated(p)' => p \notin silent'
<1> DEFINE n == Len(log) + 1
<1>1. /\ n \in Nat /\ DOMAIN log' = DOMAIN log \cup {n} /\ n \notin DOMAIN log
      /\ \A i \in DOMAIN log : i < n /\ log'[i] = log[i] /\ i \in Nat
      /\ log'[n] = e
  BY LogAfter
<1>2. /\ Creations(p)' = Creations(p)
      /\ Deletions(p)' = Deletions(p) \cup (IF DeletesProduct(e, p) THEN {n} ELSE {})
  BY WritesAfter
<1>3. Creations(p) \subseteq DOMAIN log
  BY DEF Creations
<1> HIDE DEF n
<1>4. CreatedFirst(p)'
  BY <1>1, <1>2, <1>3 DEF StoreTold, CreatedFirst
<1>5. ExistenceTold(p)'
  BY <1>2 DEF StoreTold, ExistenceTold
<1>6. NeverCreated(p)' => NeverCreated(p)
  BY <1>1 DEF NeverCreated
<1> QED BY <1>4, <1>5, <1>6 DEF StoreTold

(* Nothing is written of the other products. *)
LEMMA OthersStillTold ==
  ASSUME log \in Seq(Events), NEW e \in Events, log' = Append(log, e),
         NEW q \in Products, StoreTold(q), q # e.id,
         products'[q] = products[q], values'[q] = values[q], q \in silent' <=> q \in silent
  PROVE  StoreTold(q)'
<1>1. /\ ~ CreatesProduct(e, q) /\ ~ DeletesProduct(e, q) /\ ~ WritesCore(e, q)
      /\ ~ WritesStatus(e, q) /\ \A a : ~ WritesValue(e, q, a)
  BY DEF CreatesProduct, DeletesProduct, WritesCore, WritesStatus, WritesValue
<1>2. Exists(q)' <=> Exists(q)
  BY DEF Exists
<1>3. CoreTold(q)'
  BY <1>1, <1>2, CoreStillTold DEF StoreTold
<1>4. StatusTold(q)'
  BY <1>1, <1>2, StatusStillTold DEF StoreTold
<1>5. \A a \in Attributes : ValueTold(q, a)'
  BY <1>1, ValueStillTold DEF StoreTold
<1>6. /\ CreatedFirst(q)' /\ ExistenceTold(q)'
      /\ NeverCreated(q)' => q \notin silent'
  BY <1>1, <1>2, ExistenceStillTold
<1> QED BY <1>3, <1>4, <1>5, <1>6 DEF StoreTold

LEMMA OneProductTold ==
  ASSUME log \in Seq(Events), LogTells, NEW e \in Events, log' = Append(log, e),
         NEW p \in Products, e.id = p,
         CreatesProduct(e, p) \/ ~ NeverCreated(p),
         StoreTold(p)',
         \A q \in Products \ {p} : /\ products'[q] = products[q] /\ values'[q] = values[q]
                                   /\ q \in silent' <=> q \in silent
  PROVE  LogTells'
<1> DEFINE n == Len(log) + 1
<1>1. /\ n \in Nat /\ DOMAIN log' = DOMAIN log \cup {n} /\ n \notin DOMAIN log
      /\ \A i \in DOMAIN log : i < n /\ log'[i] = log[i] /\ i \in Nat
      /\ log'[n] = e
  BY LogAfter
<1> HIDE DEF n
<1>2. ASSUME NEW i \in DOMAIN log'
      PROVE  \E k \in DOMAIN log' : k <= i /\ CreatesProduct(log'[k], log'[i].id)
  <2>1. CASE i \in DOMAIN log
    <3>1. PICK k \in DOMAIN log : k <= i /\ CreatesProduct(log[k], log[i].id)
      BY <2>1 DEF LogTells
    <3> QED BY <1>1, <2>1, <3>1
  <2>2. CASE i = n
    <3>1. CASE CreatesProduct(e, p)
      BY <1>1, <2>2, <3>1
    <3>2. CASE ~ NeverCreated(p)
      <4>1. PICK k \in DOMAIN log : CreatesProduct(log[k], p)
        BY <3>2 DEF NeverCreated, CreatesProduct
      <4> QED BY <1>1, <2>2, <4>1
    <3> QED BY <3>1, <3>2
  <2> QED BY <1>1, <2>1, <2>2
<1>3. \A q \in Products \ {p} : StoreTold(q)'
  BY OthersStillTold DEF LogTells
<1> QED BY <1>2, <1>3 DEF LogTells

(* A write of the store is told, whatever it is. *)
LEMMA SellerTells ==
  ASSUME log \in Seq(Events), LogTells, StoreStep,
         products \in [Products -> Rows \cup {None}],
         values \in [Products -> [Attributes -> Values \cup {None}]],
         \A p \in Products : Exists(p) => ~ NeverCreated(p)
  PROVE  LogTells'
<1>1. ASSUME NEW p \in Products, NEW row \in Rows, CreateProduct(p, row)
      PROVE  LogTells'
  <2> DEFINE e == Created(p, row)
             n == Len(log) + 1
  <2>1. /\ e \in Events /\ e.id = p /\ e.type = "ProductCreated"
        /\ e.slug = row.slug /\ e.text = row.text /\ e.status = row.status
    BY DEF Created, Events, Rows
  <2>2. /\ NeverCreated(p) /\ log' = Append(log, e) /\ UNCHANGED <<values, silent>>
        /\ products' = [products EXCEPT ![p] = row]
    BY <1>1 DEF CreateProduct, Emit
  <2> HIDE DEF e
  <2>3. products'[p] = row /\ \A q \in Products \ {p} : products'[q] = products[q]
    BY <2>2
  <2>4. Exists(p)'
    BY <2>3, StoreAssumption DEF Exists
  <2>5. /\ CreatesProduct(e, p) /\ ~ DeletesProduct(e, p) /\ WritesCore(e, p)
        /\ WritesStatus(e, p) /\ StatusIn(e) = row.status /\ \A a : ~ WritesValue(e, p, a)
    BY <2>1 DEF CreatesProduct, DeletesProduct, WritesCore, WritesStatus, WritesValue, StatusIn
  <2>6. StoreTold(p)
    BY DEF LogTells
  <2>7. \A i \in DOMAIN log : log[i].id # p
    <3>1. Creations(p) = {}
      BY <2>2 DEF Creations, NeverCreated, CreatesProduct
    <3> QED BY <3>1 DEF LogTells, Creations
  <2>8. /\ n \in Nat /\ DOMAIN log' = DOMAIN log \cup {n}
        /\ \A i \in DOMAIN log : log'[i] = log[i]
        /\ log'[n] = e
    BY <2>1, <2>2, LogAfter
  <2>9. Creations(p)' = {n} /\ Deletions(p)' = {}
    <3>1. Creations(p) = {} /\ Deletions(p) = {}
      BY <2>7 DEF Creations, Deletions, CreatesProduct, DeletesProduct
    <3>2. /\ Creations(p)' = Creations(p) \cup (IF CreatesProduct(e, p) THEN {n} ELSE {})
          /\ Deletions(p)' = Deletions(p) \cup (IF DeletesProduct(e, p) THEN {n} ELSE {})
      BY <2>1, <2>2, WritesAfter
    <3> QED BY <2>5, <3>1, <3>2
  <2> HIDE DEF n
  <2>10. CreatedFirst(p)'
    BY <2>7, <2>8, <2>9 DEF CreatedFirst
  <2>11. ExistenceTold(p)'
    BY <2>4, <2>9 DEF ExistenceTold
  <2>12. p \notin silent'
    BY <2>2, <2>6 DEF StoreTold
  <2>13. CoreTold(p)'
    BY <2>1, <2>2, <2>3, <2>5, <2>6, CoreStillTold DEF StoreTold
  <2>14. StatusTold(p)'
    BY <2>1, <2>2, <2>3, <2>5, <2>6, StatusStillTold DEF StoreTold
  <2>15. \A a \in Attributes : ValueTold(p, a)'
    BY <2>1, <2>2, <2>5, <2>6, ValueStillTold DEF StoreTold
  <2>16. StoreTold(p)'
    BY <2>10, <2>11, <2>12, <2>13, <2>14, <2>15 DEF StoreTold
  <2> QED BY <2>1, <2>2, <2>3, <2>5, <2>16, OneProductTold
<1>2. ASSUME NEW p \in Products, NEW slug \in Slugs, NEW text \in Texts,
             UpdateProduct(p, slug, text)
      PROVE  LogTells'
  <2> DEFINE e == CoreUpdated(p, slug, text)
  <2>1. /\ e \in Events /\ e.id = p /\ e.type = "ProductUpdated" /\ e.reason = ""
        /\ e.slug = slug /\ e.text = text
    BY DEF CoreUpdated, Events
  <2>2. ~ NeverCreated(p) /\ log' = Append(log, e) /\ UNCHANGED <<values, silent>>
    BY <1>2 DEF UpdateProduct, Emit
  <2> HIDE DEF e
  <2>3. /\ \A q \in Products \ {p} : products'[q] = products[q]
        /\ Exists(p)' <=> Exists(p)
        /\ Exists(p) => /\ products'[p].slug = slug /\ products'[p].text = text
                        /\ products'[p].status = products[p].status
    <3>1. CASE ~ Exists(p)
      BY <1>2, <3>1 DEF UpdateProduct, Exists
    <3>2. CASE Exists(p)
      <4> DEFINE new == [products[p] EXCEPT !.slug = slug, !.text = text]
      <4>1. products[p] \in Rows
        BY <3>2 DEF Exists
      <4>2. /\ new \in Rows /\ new.slug = slug /\ new.text = text
            /\ new.status = products[p].status
        BY <4>1 DEF Rows
      <4>3. products' = [products EXCEPT ![p] = new]
        BY <1>2, <3>2 DEF UpdateProduct
      <4> HIDE DEF new
      <4>4. new # None
        BY <4>2, StoreAssumption
      <4>5. products'[p] = new /\ \A q \in Products \ {p} : products'[q] = products[q]
        BY <4>3
      <4> QED BY <3>2, <4>2, <4>4, <4>5 DEF Exists
    <3> QED BY <3>1, <3>2
  <2>4. /\ ~ CreatesProduct(e, p) /\ ~ DeletesProduct(e, p) /\ WritesCore(e, p)
        /\ ~ WritesStatus(e, p) /\ \A a : ~ WritesValue(e, p, a)
    BY <2>1 DEF CreatesProduct, DeletesProduct, WritesCore, WritesStatus, WritesValue
  <2>5. StoreTold(p)
    BY DEF LogTells
  <2>6. /\ CreatedFirst(p)' /\ ExistenceTold(p)' /\ (NeverCreated(p)' => p \notin silent')
    BY <2>1, <2>2, <2>3, <2>4, <2>5, ExistenceStillTold
  <2>7. CoreTold(p)'
    BY <2>1, <2>2, <2>3, <2>4, <2>5, CoreStillTold DEF StoreTold
  <2>8. StatusTold(p)'
    BY <2>1, <2>2, <2>3, <2>4, <2>5, StatusStillTold DEF StoreTold
  <2>9. \A a \in Attributes : ValueTold(p, a)'
    BY <2>1, <2>2, <2>4, <2>5, ValueStillTold DEF StoreTold
  <2>10. StoreTold(p)'
    BY <2>2, <2>6, <2>7, <2>8, <2>9 DEF StoreTold
  <2> QED BY <2>1, <2>2, <2>3, <2>10, OneProductTold
<1>3. ASSUME NEW p \in Products, NEW to \in Statuses, SetStatus(p, to)
      PROVE  LogTells'
  <2> DEFINE type == StatusTransitionEvent(products[p].status, to)
             new  == [products[p] EXCEPT !.status = to]
             e    == StatusChanged(type, p, to)
  <2>1. products[p] \in Rows /\ Exists(p) /\ products' = [products EXCEPT ![p] = new]
        /\ UNCHANGED values
    BY <1>3 DEF SetStatus, Exists
  <2>2. /\ new \in Rows /\ new.status = to /\ new.slug = products[p].slug
        /\ new.text = products[p].text
    BY <2>1 DEF Rows
  <2>3. \/ type # "none" /\ log' = Append(log, e) /\ silent' = silent \ {p}
        \/ type = "none" /\ UNCHANGED log /\ silent' = silent \cup {p}
    BY <1>3 DEF SetStatus, Emit
  <2>4. type # "none" => /\ e \in Events /\ e.id = p /\ e.to = to
                         /\ e.type \notin {"ProductCreated", "ProductUpdated", "ProductDeleted"}
    BY DEF StatusTransitionEvent, StatusChanged, Events
  <2> HIDE DEF new, e, type
  <2>5. new # None
    BY <2>2, StoreAssumption
  <2>6. /\ products'[p] = new /\ \A q \in Products \ {p} : products'[q] = products[q]
        /\ Exists(p)' /\ \A q \in Products \ {p} : Exists(q)' <=> Exists(q)
    BY <2>1, <2>5 DEF Exists
  <2>7. StoreTold(p) /\ ~ NeverCreated(p)
    BY <2>1 DEF LogTells
  <2>8. CASE type # "none"
    <3>1. /\ ~ CreatesProduct(e, p) /\ ~ DeletesProduct(e, p) /\ ~ WritesCore(e, p)
          /\ WritesStatus(e, p) /\ StatusIn(e) = to /\ \A a : ~ WritesValue(e, p, a)
      BY <2>4, <2>8
         DEF CreatesProduct, DeletesProduct, WritesCore, WritesStatus, WritesValue, StatusIn
    <3>2. e \in Events /\ e.id = p /\ log' = Append(log, e) /\ silent' = silent \ {p}
      BY <2>3, <2>4, <2>8
    <3>3. /\ CreatedFirst(p)' /\ ExistenceTold(p)' /\ (NeverCreated(p)' => p \notin silent')
      BY <2>1, <2>6, <2>7, <3>1, <3>2, ExistenceStillTold
    <3>4. CoreTold(p)'
      BY <2>1, <2>2, <2>6, <2>7, <3>1, <3>2, CoreStillTold DEF StoreTold
    <3>5. StatusTold(p)'
      BY <2>2, <2>6, <2>7, <3>1, <3>2, StatusStillTold DEF StoreTold
    <3>6. \A a \in Attributes : ValueTold(p, a)'
      BY <2>1, <2>7, <3>1, <3>2, ValueStillTold DEF StoreTold
    <3>7. StoreTold(p)'
      BY <3>2, <3>3, <3>4, <3>5, <3>6 DEF StoreTold
    <3> QED BY <2>1, <2>6, <2>7, <3>2, <3>7, OneProductTold
  <2>9. CASE type = "none"
    <3>1. UNCHANGED <<log, values>> /\ silent' = silent \cup {p}
      BY <2>1, <2>3, <2>9
    <3>2. \A q \in Products : StoreTold(q)'
      <4> SUFFICES ASSUME NEW q \in Products PROVE StoreTold(q)'
        OBVIOUS
      <4>1. StoreTold(q)
        BY DEF LogTells
      <4>2. /\ Creations(q)' = Creations(q) /\ Deletions(q)' = Deletions(q)
            /\ CoreWrites(q)' = CoreWrites(q) /\ StatusWrites(q)' = StatusWrites(q)
            /\ \A a : ValueWrites(q, a)' = ValueWrites(q, a)
            /\ NeverCreated(q)' <=> NeverCreated(q)
        BY <3>1 DEF Creations, Deletions, CoreWrites, StatusWrites, ValueWrites, NeverCreated
      <4>3. /\ Exists(q)' <=> Exists(q)
            /\ products'[q].slug = products[q].slug /\ products'[q].text = products[q].text
        BY <2>1, <2>2, <2>6
      <4>4. q # p => products'[q] = products[q]
        BY <2>6
      <4>5. CreatedFirst(q)' /\ ExistenceTold(q)' /\ CoreTold(q)'
            /\ \A a \in Attributes : ValueTold(q, a)'
        BY <3>1, <4>1, <4>2, <4>3
           DEF StoreTold, CreatedFirst, ExistenceTold, CoreTold, ValueTold, Newest
      <4>6. StatusTold(q)'
        BY <3>1, <4>1, <4>2, <4>3, <4>4 DEF StoreTold, StatusTold, Newest
      <4>7. NeverCreated(q)' => q \notin silent'
        BY <2>7, <3>1, <4>1, <4>2 DEF StoreTold
      <4> QED BY <4>5, <4>6, <4>7 DEF StoreTold
    <3> QED BY <3>1, <3>2 DEF LogTells
  <2> QED BY <2>8, <2>9
<1>4. ASSUME NEW p \in Products, DeleteProduct(p)
      PROVE  LogTells'
  <2> DEFINE e == Deleted(p)
  <2>1. e \in Events /\ e.id = p /\ e.type = "ProductDeleted"
    BY DEF Deleted, Events
  <2>2. /\ log' = Append(log, e) /\ silent' = silent \ {p}
        /\ ~ Exists(p)' /\ \A q \in Products \ {p} : products'[q] = products[q]
        /\ \A a \in Attributes : values'[p][a] = None
        /\ \A q \in Products \ {p} : values'[q] = values[q]
        /\ ~ NeverCreated(p)
    BY <1>4 DEF DeleteProduct, Emit, Exists
  <2> HIDE DEF e
  <2>3. /\ ~ CreatesProduct(e, p) /\ DeletesProduct(e, p) /\ ~ WritesCore(e, p)
        /\ ~ WritesStatus(e, p) /\ \A a : WritesValue(e, p, a) /\ ValueIn(e) = None
    BY <2>1 DEF CreatesProduct, DeletesProduct, WritesCore, WritesStatus, WritesValue, ValueIn
  <2>4. StoreTold(p)
    BY DEF LogTells
  <2>5. /\ CreatedFirst(p)' /\ ExistenceTold(p)' /\ (NeverCreated(p)' => p \notin silent')
    BY <2>1, <2>2, <2>3, <2>4, ExistenceStillTold
  <2>6. CoreTold(p)'
    BY <2>1, <2>2, <2>3, <2>4, CoreStillTold DEF StoreTold
  <2>7. StatusTold(p)'
    BY <2>1, <2>2, <2>3, <2>4, StatusStillTold DEF StoreTold
  <2>8. \A a \in Attributes : ValueTold(p, a)'
    BY <2>1, <2>2, <2>3, <2>4, ValueStillTold DEF StoreTold
  <2>9. StoreTold(p)'
    BY <2>2, <2>5, <2>6, <2>7, <2>8 DEF StoreTold
  <2> QED BY <2>1, <2>2, <2>9, OneProductTold
<1>5. ASSUME NEW p \in Products, NEW a \in Attributes, NEW v \in Values \cup {None},
             NEW e \in Events, e.id = p, e.type = "ProductUpdated",
             e.reason \in {"attribute_value_set", "attribute_value_cleared"},
             e.attribute = a, ValueIn(e) = v,
             values' = [values EXCEPT ![p][a] = v], log' = Append(log, e),
             UNCHANGED <<products, silent>>, ~ NeverCreated(p)
      PROVE  LogTells'
  <2>1. /\ values'[p][a] = v /\ \A b \in Attributes \ {a} : values'[p][b] = values[p][b]
        /\ \A q \in Products \ {p} : values'[q] = values[q]
    BY <1>5
  <2>2. /\ ~ CreatesProduct(e, p) /\ ~ DeletesProduct(e, p) /\ ~ WritesCore(e, p)
        /\ ~ WritesStatus(e, p) /\ WritesValue(e, p, a)
        /\ \A b \in Attributes \ {a} : ~ WritesValue(e, p, b)
    BY <1>5 DEF CreatesProduct, DeletesProduct, WritesCore, WritesStatus, WritesValue
  <2>3. StoreTold(p) /\ (Exists(p)' <=> Exists(p))
    BY <1>5 DEF LogTells, Exists
  <2>4. /\ CreatedFirst(p)' /\ ExistenceTold(p)' /\ (NeverCreated(p)' => p \notin silent')
    BY <1>5, <2>2, <2>3, ExistenceStillTold
  <2>5. CoreTold(p)'
    BY <1>5, <2>2, <2>3, CoreStillTold DEF StoreTold
  <2>6. StatusTold(p)'
    BY <1>5, <2>2, <2>3, StatusStillTold DEF StoreTold
  <2>7. \A b \in Attributes : ValueTold(p, b)'
    BY <1>5, <2>1, <2>2, <2>3, ValueStillTold DEF StoreTold
  <2>8. StoreTold(p)'
    BY <1>5, <2>4, <2>5, <2>6, <2>7 DEF StoreTold
  <2> QED BY <1>5, <2>1, <2>8, OneProductTold
<1>6. ASSUME NEW p \in Products, NEW a \in Attributes, NEW v \in Values,
             SetAttributeValue(p, a, v)
      PROVE  LogTells'
  <2>1. /\ ValueSet(p, a, v) \in Events /\ ValueSet(p, a, v).type = "ProductUpdated"
        /\ ValueSet(p, a, v).reason = "attribute_value_set" /\ ValueSet(p, a, v).id = p
        /\ ValueSet(p, a, v).attribute = a /\ ValueIn(ValueSet(p, a, v)) = v
    BY DEF ValueSet, Events, ValueIn
  <2>2. /\ values' = [values EXCEPT ![p][a] = v] /\ log' = Append(log, ValueSet(p, a, v))
        /\ UNCHANGED <<products, silent>> /\ ~ NeverCreated(p)
    BY <1>6 DEF SetAttributeValue, Emit
  <2> QED BY <1>5, <2>1, <2>2
<1>7. ASSUME NEW p \in Products, NEW a \in Attributes, ClearAttributeValue(p, a)
      PROVE  LogTells'
  <2>1. /\ ValueCleared(p, a) \in Events /\ ValueCleared(p, a).type = "ProductUpdated"
        /\ ValueCleared(p, a).reason = "attribute_value_cleared" /\ ValueCleared(p, a).id = p
        /\ ValueCleared(p, a).attribute = a /\ ValueIn(ValueCleared(p, a)) = None
    BY DEF ValueCleared, Events, ValueIn
  <2>2. /\ values' = [values EXCEPT ![p][a] = None] /\ log' = Append(log, ValueCleared(p, a))
        /\ UNCHANGED <<products, silent>> /\ ~ NeverCreated(p)
    BY <1>7 DEF ClearAttributeValue, Emit
  <2> QED BY <1>5, <2>1, <2>2
<1> QED BY <1>1, <1>2, <1>3, <1>4, <1>6, <1>7 DEF StoreStep

LEMMA SellerLeavesSlugs ==
  ASSUME log \in Seq(Events), LogTells, SlugsWereFree, StoreStep, SlugsDiffer',
         products \in [Products -> Rows \cup {None}]
  PROVE  SlugsWereFree'
<1>1. CASE UNCHANGED log
  BY <1>1 DEF SlugsWereFree, SlugWasFree, Creations, CoreWrites, Deletions
<1>2. ASSUME NEW e \in Events, log' = Append(log, e)
      PROVE  SlugsWereFree'
  <2> DEFINE n == Len(log) + 1
  <2>1. /\ n \in Nat /\ DOMAIN log' = DOMAIN log \cup {n} /\ n \notin DOMAIN log
        /\ \A i \in DOMAIN log : i < n /\ log'[i] = log[i] /\ i \in Nat
        /\ log'[n] = e
    BY <1>2, LogAfter
  <2>2. ASSUME NEW p
        PROVE  /\ Creations(p)' = Creations(p) \cup (IF CreatesProduct(e, p) THEN {n} ELSE {})
               /\ Deletions(p)' = Deletions(p) \cup (IF DeletesProduct(e, p) THEN {n} ELSE {})
               /\ CoreWrites(p)' = CoreWrites(p) \cup (IF WritesCore(e, p) THEN {n} ELSE {})
               /\ Creations(p) \subseteq DOMAIN log /\ Deletions(p) \subseteq DOMAIN log
               /\ CoreWrites(p) \subseteq DOMAIN log
    BY <1>2, WritesAfter DEF Creations, Deletions, CoreWrites
  <2> HIDE DEF n
  <2> SUFFICES ASSUME NEW p \in Products, NEW q \in Products \ {p},
                      NEW i \in Creations(p)', NEW w \in CoreWrites(q)',
                      w < i, log'[w].slug = log'[i].slug
               PROVE  \/ \E j \in CoreWrites(q)' : w < j /\ j < i
                      \/ \E d \in Deletions(q)' : d < i
    BY DEF SlugsWereFree, SlugWasFree
  <2>3. w \in CoreWrites(q)
    BY <2>1, <2>2
  <2>4. CASE i \in Creations(p)
    <3>1. log[w].slug = log[i].slug
      BY <2>1, <2>2, <2>3, <2>4
    <3>2. \/ \E j \in CoreWrites(q) : w < j /\ j < i
          \/ \E d \in Deletions(q) : d < i
      BY <2>3, <2>4, <3>1 DEF SlugsWereFree, SlugWasFree
    <3> QED BY <2>2, <3>2
  <2>5. CASE i = n /\ CreatesProduct(e, p)
    <3> SUFFICES ASSUME \A j \in CoreWrites(q) : j <= w, Deletions(q) = {}
                 PROVE  FALSE
      BY <2>1, <2>2, <2>3, <2>5
    <3>1. PICK row \in Rows : products' = [products EXCEPT ![p] = row] /\ e = Created(p, row)
      <4>1. \/ \E r \in Products, row \in Rows : CreateProduct(r, row)
            \/ \E f : f.type # "ProductCreated" /\ log' = Append(log, f)
            \/ UNCHANGED log
        <5>1. ASSUME NEW r \in Products, NEW slug, NEW text, UpdateProduct(r, slug, text)
              PROVE  \E f : f.type # "ProductCreated" /\ log' = Append(log, f)
          BY <5>1 DEF UpdateProduct, Emit, CoreUpdated
        <5>2. ASSUME NEW r \in Products, NEW to, SetStatus(r, to)
              PROVE  \/ \E f : f.type # "ProductCreated" /\ log' = Append(log, f)
                     \/ UNCHANGED log
          <6> DEFINE type == StatusTransitionEvent(products[r].status, to)
          <6>1. type # "ProductCreated"
            BY DEF StatusTransitionEvent
          <6>2. log' = Append(log, StatusChanged(type, r, to)) \/ UNCHANGED log
            BY <5>2 DEF SetStatus, Emit
          <6> HIDE DEF type
          <6> QED BY <6>1, <6>2 DEF StatusChanged
        <5>3. ASSUME NEW r \in Products, DeleteProduct(r)
              PROVE  \E f : f.type # "ProductCreated" /\ log' = Append(log, f)
          BY <5>3 DEF DeleteProduct, Emit, Deleted
        <5>4. ASSUME NEW r \in Products, NEW a, NEW v, SetAttributeValue(r, a, v)
              PROVE  \E f : f.type # "ProductCreated" /\ log' = Append(log, f)
          BY <5>4 DEF SetAttributeValue, Emit, ValueSet
        <5>5. ASSUME NEW r \in Products, NEW a, ClearAttributeValue(r, a)
              PROVE  \E f : f.type # "ProductCreated" /\ log' = Append(log, f)
          BY <5>5 DEF ClearAttributeValue, Emit, ValueCleared
        <5> QED BY <5>1, <5>2, <5>3, <5>4, <5>5 DEF StoreStep
      <4>2. ASSUME NEW f, log' = Append(log, f)
            PROVE  f = e
        <5>1. Seq(Events) \subseteq Seq(Events \cup {f})
          OBVIOUS
        <5>2. Append(log, f)[Len(log) + 1] = f
          BY <5>1
        <5> QED BY <2>1, <4>2, <5>2 DEF n
      <4>3. PICK r \in Products, row \in Rows : CreateProduct(r, row)
        BY <1>2, <2>1, <2>5, <4>1, <4>2 DEF CreatesProduct
      <4>4. e = Created(r, row) /\ products' = [products EXCEPT ![r] = row]
        BY <4>2, <4>3 DEF CreateProduct, Emit
      <4>5. r = p
        BY <2>5, <4>4 DEF CreatesProduct, Created
      <4> QED BY <4>4, <4>5
    <3>2. /\ products'[p] = row /\ products'[q] = products[q] /\ e.slug = row.slug
      BY <3>1 DEF Created
    <3>3. Exists(p)' /\ (Exists(q)' <=> Exists(q))
      BY <3>1, <3>2, StoreAssumption DEF Exists
    <3>4. Exists(q)
      <4>1. log[w].id = q /\ w \in DOMAIN log
        BY <2>3 DEF CoreWrites, WritesCore
      <4>2. Creations(q) # {}
        BY <4>1 DEF LogTells, Creations
      <4> QED BY <4>2 DEF LogTells, StoreTold, ExistenceTold
    <3>5. products[q].slug = log[w].slug
      <4>1. PICK v \in DOMAIN log : Newest(v, CoreWrites(q)) /\ products[q].slug = log[v].slug
        BY <3>4 DEF LogTells, StoreTold, CoreTold
      <4>2. v = w
        BY <2>1, <2>2, <2>3, <4>1 DEF Newest
      <4> QED BY <4>1, <4>2
    <3>6. log'[w].slug = e.slug /\ log'[w] = log[w]
      BY <2>1, <2>2, <2>3, <2>5
    <3> QED BY <3>2, <3>3, <3>4, <3>5, <3>6 DEF SlugsDiffer
  <2> QED BY <2>2, <2>4, <2>5
<1> QED BY <1>1, <1>2, LogGrows

-----------------------------------------------------------------------------
(* What the catalog has passed. *)

Seen == {i \in Ids : received[1][i] > 0}

NoneGivenUp == \A i \in published[1] : ~ GivenUp(i)

SeenOK ==
  /\ received \in [{1} -> [Ids -> Nat]]
  /\ Seen \subseteq DOMAIN log
  /\ NoneGivenUp => /\ \A i \in Ids : Passed(i) => i \in Seen
                    /\ \A i \in Seen : \A k \in Ids : k < i => k \in Seen

(* w is in W, and no later member of W was passed in this round. *)
Current(w, W) == w \in W /\ \A j \in W : Passed(j) => j <= w

(* What the catalog shows of p is what the last event that it passed, or one
   after that, says. *)
CoreShown(p) ==
  Projection!Projected(catalog, p) =>
    \E w \in Seen : /\ Current(w, CoreWrites(p))
                    /\ catalog.rows[p].slug = log[w].slug
                    /\ catalog.rows[p].text = log[w].text

StatusShown(p) ==
  Projection!Projected(catalog, p) =>
    \E w \in DOMAIN log : /\ Current(w, StatusWrites(p))
                          /\ catalog.rows[p].status = StatusIn(log[w])

ExistenceShown(p) ==
  /\ Projection!Projected(catalog, p) => \A d \in Deletions(p) : ~ Passed(d)
  /\ Creations(p) \cap Seen # {} /\ Deletions(p) \cap Seen = {} =>
       Projection!Projected(catalog, p)

ValueShown(p, a) ==
  \/ catalog.index[p][a] = None /\ \A j \in ValueWrites(p, a) : ~ Passed(j)
  \/ \E w \in DOMAIN log : /\ Current(w, ValueWrites(p, a))
                           /\ catalog.index[p][a] = ValueIn(log[w])

Shown(p) ==
  /\ ExistenceShown(p)
  /\ CoreShown(p)
  /\ StatusShown(p)
  /\ \A a \in KnownAtStart : ValueShown(p, a)

CurrentInv ==
  /\ LogTells
  /\ SlugsWereFree
  /\ SeenOK
  /\ KnownAtStart \subseteq known
  /\ NoneGivenUp => \A p \in Products : Shown(p)

Base == SaleInv /\ RestTyped

LEMMA InitCurrent == Init => CurrentInv
<1> SUFFICES ASSUME Init PROVE CurrentInv
  OBVIOUS
<1>1. /\ log = << >> /\ products = [p \in Products |-> None] /\ silent = {}
      /\ values = [p \in Products |-> [a \in Attributes |-> None]]
      /\ received = [s \in {1} |-> [i \in Ids |-> 0]]
      /\ known = KnownAtStart /\ catalog = Projection!EmptyCatalog
  BY DEF Init, StoreInit, Relay!Init, Relay!Sources, Relay!Ids, Ids
<1>2. DOMAIN log = {}
  BY <1>1
<1>3. \A p, a : /\ Creations(p) = {} /\ Deletions(p) = {} /\ CoreWrites(p) = {}
                /\ StatusWrites(p) = {} /\ ValueWrites(p, a) = {}
  BY <1>2 DEF Creations, Deletions, CoreWrites, StatusWrites, ValueWrites
<1>4. LogTells
  <2>1. \A p \in Products : ~ Exists(p) /\ \A a \in Attributes : values[p][a] = None
    BY <1>1 DEF Exists
  <2> QED BY <1>1, <1>2, <1>3, <2>1 DEF LogTells, StoreTold, CreatedFirst, ExistenceTold, CoreTold,
                                StatusTold, ValueTold
<1>5. SlugsWereFree
  BY <1>3 DEF SlugsWereFree, SlugWasFree
<1>6. Seen = {} /\ received \in [{1} -> [Ids -> Nat]]
  BY <1>1 DEF Seen
<1>7. SeenOK
  <2>1. NoneGivenUp /\ published[1] = {} /\ delivered = {}
    BY DEF Init, Relay!Init, Relay!Sources, NoneGivenUp
  <2> QED BY <1>6, <2>1 DEF SeenOK, Passed
<1>8. \A p \in Products : Shown(p)
  <2>1. \A p \in Products : /\ ~ Projection!Projected(catalog, p)
                            /\ \A a \in Attributes : catalog.index[p][a] = None
    BY <1>1 DEF Projection!Projected, Projection!EmptyCatalog
  <2> QED BY <1>3, <2>1, PipelineAssumption
          DEF Shown, ExistenceShown, CoreShown, StatusShown, ValueShown
<1> QED BY <1>1, <1>4, <1>5, <1>7, <1>8 DEF CurrentInv

(* A new event of the log has not been passed, nor seen. *)
LEMMA SellerCurrent ==
  ASSUME Base, CurrentInv, SellerStep, SlugsDiffer'
  PROVE  CurrentInv'
<1>1. /\ UNCHANGED <<known, catalog, published, attempts, received, delivered>>
      /\ StoreStep
  BY DEF SellerStep, relayVars
<1>2. /\ log \in Seq(Events) /\ QueueTyped /\ catalog \in Catalogs
      /\ products \in [Products -> Rows \cup {None}]
      /\ values \in [Products -> [Attributes -> Values \cup {None}]]
      /\ \A p \in Products : Exists(p) => ~ NeverCreated(p)
  BY DEF Base, SaleInv, PipelineInv, Mirrors, QueueOK, LogOK, RestTyped
<1>3. LogTells' /\ SlugsWereFree'
  BY <1>1, <1>2, SellerTells, SellerLeavesSlugs DEF CurrentInv
<1>4. Seen' = Seen /\ (NoneGivenUp' <=> NoneGivenUp) /\ \A i : Passed(i)' <=> Passed(i)
  BY <1>1 DEF Seen, NoneGivenUp, GivenUp, Passed
<1>5. CASE UNCHANGED log
  <2>1. \A p, a : /\ Creations(p)' = Creations(p) /\ Deletions(p)' = Deletions(p)
                  /\ CoreWrites(p)' = CoreWrites(p) /\ StatusWrites(p)' = StatusWrites(p)
                  /\ ValueWrites(p, a)' = ValueWrites(p, a)
    BY <1>5 DEF Creations, Deletions, CoreWrites, StatusWrites, ValueWrites
  <2>2. \A p \in Products : Shown(p) => Shown(p)'
    BY <1>1, <1>4, <1>5, <2>1
       DEF Shown, ExistenceShown, CoreShown, StatusShown, ValueShown, Current,
           Projection!Projected
  <2>3. SeenOK'
    BY <1>1, <1>4, <1>5 DEF CurrentInv, SeenOK
  <2> QED BY <1>1, <1>3, <1>4, <2>2, <2>3 DEF CurrentInv
<1>6. ASSUME NEW e \in Events, log' = Append(log, e)
      PROVE  CurrentInv'
  <2> DEFINE n == Len(log) + 1
  <2>1. /\ DOMAIN log' = DOMAIN log \cup {n} /\ n \notin DOMAIN log
        /\ \A i \in DOMAIN log : log'[i] = log[i]
        /\ DOMAIN log = 1 .. Len(log)
    BY <1>2, <1>6, LogAfter
  <2>2. ~ Passed(n) /\ n \notin Seen /\ Seen \subseteq DOMAIN log
    BY <1>2, <2>1 DEF QueueTyped, Passed, CurrentInv, SeenOK
  <2> HIDE DEF n
  <2>3. ASSUME NEW p, NEW a
        PROVE  /\ Creations(p) \subseteq Creations(p)' /\ Creations(p)' \subseteq Creations(p) \cup {n}
               /\ Deletions(p) \subseteq Deletions(p)' /\ Deletions(p)' \subseteq Deletions(p) \cup {n}
               /\ CoreWrites(p) \subseteq CoreWrites(p)'
               /\ CoreWrites(p)' \subseteq CoreWrites(p) \cup {n}
               /\ StatusWrites(p) \subseteq StatusWrites(p)'
               /\ StatusWrites(p)' \subseteq StatusWrites(p) \cup {n}
               /\ ValueWrites(p, a) \subseteq ValueWrites(p, a)'
               /\ ValueWrites(p, a)' \subseteq ValueWrites(p, a) \cup {n}
    BY <2>1 DEF Creations, Deletions, CoreWrites, StatusWrites, ValueWrites
  <2>4. ASSUME NEW p \in Products, Shown(p)
        PROVE  Shown(p)'
    <3>1. ExistenceShown(p)'
      BY <1>1, <1>4, <2>2, <2>3, <2>4 DEF Shown, ExistenceShown, Projection!Projected
    <3>2. CoreShown(p)'
      BY <1>1, <1>4, <2>1, <2>2, <2>3, <2>4 DEF Shown, CoreShown, Current, Projection!Projected
    <3>3. StatusShown(p)'
      <4> SUFFICES ASSUME Projection!Projected(catalog, p)
                   PROVE  StatusShown(p)'
        BY <1>1 DEF StatusShown, Projection!Projected
      <4>1. PICK w \in DOMAIN log : /\ Current(w, StatusWrites(p))
                                    /\ catalog.rows[p].status = StatusIn(log[w])
        BY <2>4 DEF Shown, StatusShown
      <4>2. Current(w, StatusWrites(p))'
        BY <1>4, <2>2, <2>3, <4>1 DEF Current
      <4>3. w \in DOMAIN log' /\ catalog'.rows[p].status = StatusIn(log'[w])
        BY <1>1, <2>1, <4>1
      <4> QED BY <4>2, <4>3 DEF StatusShown, StatusIn
    <3>4. ASSUME NEW a \in KnownAtStart
          PROVE  ValueShown(p, a)'
      <4>1. CASE catalog.index[p][a] = None /\ \A j \in ValueWrites(p, a) : ~ Passed(j)
        BY <1>1, <1>4, <2>2, <2>3, <4>1 DEF ValueShown
      <4>2. ASSUME NEW w \in DOMAIN log, Current(w, ValueWrites(p, a)),
                   catalog.index[p][a] = ValueIn(log[w])
            PROVE  ValueShown(p, a)'
        <5>1. Current(w, ValueWrites(p, a))'
          BY <1>4, <2>2, <2>3, <4>2 DEF Current
        <5>2. w \in DOMAIN log' /\ catalog'.index[p][a] = ValueIn(log'[w])
          BY <1>1, <2>1, <4>2
        <5> QED BY <5>1, <5>2 DEF ValueShown, ValueIn
      <4> QED BY <2>4, <4>1, <4>2 DEF Shown, ValueShown
    <3> QED BY <3>1, <3>2, <3>3, <3>4 DEF Shown
  <2>5. SeenOK'
    BY <1>1, <1>4, <2>1, <2>2 DEF CurrentInv, SeenOK
  <2> QED BY <1>1, <1>3, <1>4, <2>4, <2>5 DEF CurrentInv
<1> QED BY <1>1, <1>5, <1>6, LogGrows

(* A step that leaves the store and the catalog alone and passes nothing, or
   gives an event up. *)
LEMMA CurrentStays ==
  ASSUME CurrentInv, UNCHANGED <<storeVars, catalog, received>>, known \subseteq known',
         NoneGivenUp' => NoneGivenUp /\ \A i \in Ids : Passed(i)' => Passed(i),
         DOMAIN log \subseteq Ids
  PROVE  CurrentInv'
<1>1. UNCHANGED <<products, values, log, silent>>
  BY DEF storeVars
<1>2. \A p, a : /\ Creations(p)' = Creations(p) /\ Deletions(p)' = Deletions(p)
                /\ CoreWrites(p)' = CoreWrites(p) /\ StatusWrites(p)' = StatusWrites(p)
                /\ ValueWrites(p, a)' = ValueWrites(p, a)
                /\ Creations(p) \subseteq DOMAIN log /\ Deletions(p) \subseteq DOMAIN log
                /\ CoreWrites(p) \subseteq DOMAIN log /\ StatusWrites(p) \subseteq DOMAIN log
                /\ ValueWrites(p, a) \subseteq DOMAIN log
  BY <1>1 DEF Creations, Deletions, CoreWrites, StatusWrites, ValueWrites
<1>3. Seen' = Seen
  BY DEF Seen
<1>4. LogTells'
  BY <1>1, <1>2 DEF CurrentInv, LogTells, StoreTold, CreatedFirst, ExistenceTold, CoreTold,
                    StatusTold, ValueTold, Newest, Exists, NeverCreated
<1>5. SlugsWereFree'
  BY <1>1, <1>2 DEF CurrentInv, SlugsWereFree, SlugWasFree
<1>6. SeenOK'
  BY <1>1, <1>3 DEF CurrentInv, SeenOK
<1>7. ASSUME NoneGivenUp', NEW p \in Products
      PROVE  Shown(p)'
  <2>1. Shown(p) /\ \A i \in Ids : Passed(i)' => Passed(i)
    BY <1>7 DEF CurrentInv
  <2>2. ExistenceShown(p)'
    BY <1>2, <1>3, <2>1 DEF Shown, ExistenceShown, Projection!Projected
  <2>3. CoreShown(p)'
    BY <1>1, <1>2, <1>3, <2>1 DEF Shown, CoreShown, Current, Projection!Projected
  <2>4. StatusShown(p)'
    BY <1>1, <1>2, <2>1 DEF Shown, StatusShown, Current, Projection!Projected
  <2>5. \A a \in KnownAtStart : ValueShown(p, a)'
    BY <1>1, <1>2, <2>1 DEF Shown, ValueShown, Current
  <2> QED BY <2>2, <2>3, <2>4, <2>5 DEF Shown
<1> QED BY <1>4, <1>5, <1>6, <1>7 DEF CurrentInv

(* The relay has just passed event i: all before it, and none after it. *)
Passing(i) ==
  /\ UNCHANGED log
  /\ log \in Seq(Events)
  /\ DOMAIN log \subseteq Ids
  /\ i \in DOMAIN log
  /\ \A k \in DOMAIN log : /\ Passed(k) <=> k < i
                           /\ Passed(k)' <=> k <= i
  /\ Seen' = Seen \cup {i}

LEMMA AppliedPasses ==
  ASSUME Base, NoneGivenUp, NEW i \in Ids, DispatchApplied(i)
  PROVE  Passing(i)
<1>1. /\ src = 1 /\ pc = "dispatch" /\ i \in todo /\ \A k \in todo : i <= k
      /\ UNCHANGED <<log, published>>
      /\ delivered' = delivered \cup {i}
      /\ received' = [received EXCEPT ![1][i] = @ + 1]
      /\ QueueTyped /\ todo \subseteq 1 .. Len(log) /\ log \in Seq(Events)
      /\ received \in [{1} -> [Ids -> Nat]]
  BY DEF Base, RestTyped, SaleInv, PipelineInv, QueueOK, DispatchApplied, Relay!Committed,
         Relay!IsNext, Relay!outbox, storeVars
<1>2. i \in DOMAIN log /\ DOMAIN log \subseteq Ids /\ DOMAIN log = 1 .. Len(log) /\ Len(log) \in Nat
  BY <1>1, StoreAssumption DEF QueueTyped, Ids
<1>3. \A k \in DOMAIN log : k < i => Passed(k)
  BY <1>1, <1>2 DEF Base, SaleInv, QueueOK, Ids
<1>4. ~ Passed(i)
  BY <1>1 DEF Base, SaleInv, QueueOK
<1>5. \A k \in DOMAIN log : Passed(k) => k < i
  <2> SUFFICES ASSUME NEW k \in DOMAIN log, Passed(k), ~ (k < i) PROVE FALSE
    OBVIOUS
  <2>1. i < k
    BY <1>2, <1>4
  <2>2. k \notin delivered
    BY <1>1, <1>2, <2>1 DEF Base, SaleInv, QueueOK
  <2>3. k \in published[1] /\ i \notin published[1]
    BY <1>4, <2>2 DEF Passed
  <2> QED BY <1>2, <2>1, <2>3 DEF Base, SaleInv, QueueOK, NoneGivenUp
<1>6. \A k : Passed(k)' <=> Passed(k) \/ k = i
  BY <1>1 DEF Passed
<1>7. \A k \in DOMAIN log : Passed(k)' <=> k <= i
  BY <1>2, <1>3, <1>5, <1>6
<1>8. Seen' = Seen \cup {i}
  BY <1>1 DEF Seen
<1> QED BY <1>1, <1>2, <1>3, <1>5, <1>7, <1>8 DEF Passing

(* What the event writes it shows; what it leaves is shown as before. *)
LEMMA CoreAfter ==
  ASSUME NEW i \in Ids, Passing(i), NEW p \in Products, Shown(p), CreatedFirst(p),
         Projection!Projected(catalog, p)' =>
           \/ /\ WritesCore(log[i], p)
              /\ catalog'.rows[p].slug = log[i].slug
              /\ catalog'.rows[p].text = log[i].text
           \/ /\ Projection!Projected(catalog, p)
              /\ catalog'.rows[p].slug = catalog.rows[p].slug
              /\ catalog'.rows[p].text = catalog.rows[p].text
              /\ WritesCore(log[i], p) => CreatesProduct(log[i], p)
  PROVE  CoreShown(p)'
<1> SUFFICES ASSUME Projection!Projected(catalog, p)'
             PROVE  \E w \in Seen' : /\ Current(w, CoreWrites(p))'
                                     /\ catalog'.rows[p].slug = log[w].slug
                                     /\ catalog'.rows[p].text = log[w].text
  BY DEF CoreShown, Passing
<1>1. CoreWrites(p)' = CoreWrites(p) /\ CoreWrites(p) \subseteq DOMAIN log
  BY DEF CoreWrites, Passing
<1>2. DOMAIN log \subseteq Nat
  BY DEF Passing
<1>3. CASE /\ WritesCore(log[i], p)
           /\ catalog'.rows[p].slug = log[i].slug
           /\ catalog'.rows[p].text = log[i].text
  <2>1. i \in CoreWrites(p)
    BY <1>3 DEF CoreWrites, Passing
  <2>2. Current(i, CoreWrites(p))'
    BY <1>1, <2>1 DEF Current, Passing
  <2> QED BY <1>3, <2>2 DEF Passing
<1>4. CASE /\ Projection!Projected(catalog, p)
           /\ catalog'.rows[p].slug = catalog.rows[p].slug
           /\ catalog'.rows[p].text = catalog.rows[p].text
           /\ WritesCore(log[i], p) => CreatesProduct(log[i], p)
  <2>1. PICK w \in Seen : /\ Current(w, CoreWrites(p))
                          /\ catalog.rows[p].slug = log[w].slug
                          /\ catalog.rows[p].text = log[w].text
    BY <1>4 DEF Shown, CoreShown
  <2>2. w \in DOMAIN log /\ log[w].id = p
    BY <2>1 DEF Current, CoreWrites, WritesCore
  <2>3. i \in CoreWrites(p) => i <= w
    BY <1>4, <2>2 DEF CoreWrites, CreatedFirst, Creations
  <2>4. Current(w, CoreWrites(p))'
    BY <1>1, <1>2, <2>1, <2>2, <2>3 DEF Current, Passing
  <2> QED BY <1>4, <2>1, <2>4 DEF Passing
<1> QED BY <1>3, <1>4

LEMMA StatusAfter ==
  ASSUME NEW i \in Ids, Passing(i), NEW p \in Products, Shown(p), CreatedFirst(p),
         Projection!Projected(catalog, p)' =>
           \/ /\ WritesStatus(log[i], p)
              /\ catalog'.rows[p].status = StatusIn(log[i])
           \/ /\ Projection!Projected(catalog, p)
              /\ catalog'.rows[p].status = catalog.rows[p].status
              /\ WritesStatus(log[i], p) => CreatesProduct(log[i], p)
  PROVE  StatusShown(p)'
<1>0. \A w \in DOMAIN log : StatusIn(log[w])' = StatusIn(log[w])
  BY DEF Passing, StatusIn
<1> SUFFICES ASSUME Projection!Projected(catalog, p)'
             PROVE  \E w \in DOMAIN log : /\ Current(w, StatusWrites(p))'
                                          /\ catalog'.rows[p].status = StatusIn(log[w])
  BY <1>0 DEF StatusShown, Passing
<1>1. StatusWrites(p)' = StatusWrites(p) /\ StatusWrites(p) \subseteq DOMAIN log
  BY DEF StatusWrites, Passing
<1>2. DOMAIN log \subseteq Nat
  BY DEF Passing
<1>3. CASE WritesStatus(log[i], p) /\ catalog'.rows[p].status = StatusIn(log[i])
  <2>1. i \in StatusWrites(p)
    BY <1>3 DEF StatusWrites, Passing
  <2>2. Current(i, StatusWrites(p))'
    BY <1>1, <2>1 DEF Current, Passing
  <2> QED BY <1>3, <2>2 DEF Passing
<1>4. CASE /\ Projection!Projected(catalog, p)
           /\ catalog'.rows[p].status = catalog.rows[p].status
           /\ WritesStatus(log[i], p) => CreatesProduct(log[i], p)
  <2>1. PICK w \in DOMAIN log : /\ Current(w, StatusWrites(p))
                                /\ catalog.rows[p].status = StatusIn(log[w])
    BY <1>4 DEF Shown, StatusShown
  <2>2. log[w].id = p
    BY <2>1 DEF Current, StatusWrites, WritesStatus
  <2>3. i \in StatusWrites(p) => i <= w
    BY <1>4, <2>2 DEF StatusWrites, CreatedFirst, Creations
  <2>4. Current(w, StatusWrites(p))'
    BY <1>1, <1>2, <2>1, <2>2, <2>3 DEF Current, Passing
  <2> QED BY <1>4, <2>1, <2>4
<1> QED BY <1>3, <1>4

LEMMA ValueAfter ==
  ASSUME NEW i \in Ids, Passing(i), NEW p \in Products, NEW a \in KnownAtStart, Shown(p),
         \/ WritesValue(log[i], p, a) /\ catalog'.index[p][a] = ValueIn(log[i])
         \/ ~ WritesValue(log[i], p, a) /\ catalog'.index[p][a] = catalog.index[p][a]
  PROVE  ValueShown(p, a)'
<1>0. \A w \in DOMAIN log : ValueIn(log[w])' = ValueIn(log[w])
  BY DEF Passing, ValueIn
<1>1. ValueWrites(p, a)' = ValueWrites(p, a) /\ ValueWrites(p, a) \subseteq DOMAIN log
  BY DEF ValueWrites, Passing
<1>2. DOMAIN log \subseteq Nat
  BY DEF Passing
<1>3. CASE WritesValue(log[i], p, a) /\ catalog'.index[p][a] = ValueIn(log[i])
  <2>1. i \in ValueWrites(p, a)
    BY <1>3 DEF ValueWrites, Passing
  <2>2. Current(i, ValueWrites(p, a))'
    BY <1>1, <2>1 DEF Current, Passing
  <2> QED BY <1>0, <1>3, <2>2 DEF Passing, ValueShown
<1>4. CASE ~ WritesValue(log[i], p, a) /\ catalog'.index[p][a] = catalog.index[p][a]
  <2>1. i \notin ValueWrites(p, a)
    BY <1>4 DEF ValueWrites
  <2>2. \A j \in ValueWrites(p, a) : Passed(j)' <=> Passed(j)
    BY <1>1, <1>2, <2>1 DEF Passing
  <2>3. CASE catalog.index[p][a] = None /\ \A j \in ValueWrites(p, a) : ~ Passed(j)
    BY <1>1, <1>4, <2>2, <2>3 DEF ValueShown
  <2>4. ASSUME NEW w \in DOMAIN log, Current(w, ValueWrites(p, a)),
               catalog.index[p][a] = ValueIn(log[w])
        PROVE  ValueShown(p, a)'
    <3>1. Current(w, ValueWrites(p, a))'
      BY <1>1, <2>2, <2>4 DEF Current
    <3> QED BY <1>0, <1>4, <2>4, <3>1 DEF ValueShown, Passing
  <2> QED BY <2>3, <2>4 DEF Shown, ValueShown
<1> QED BY <1>3, <1>4

(* An event that neither creates nor deletes p leaves it projected or not. *)
LEMMA ExistenceAfter ==
  ASSUME NEW i \in Ids, Passing(i), NEW p \in Products, Shown(p),
         ~ CreatesProduct(log[i], p), ~ DeletesProduct(log[i], p),
         Projection!Projected(catalog, p)' <=> Projection!Projected(catalog, p)
  PROVE  ExistenceShown(p)'
<1>1. /\ Creations(p)' = Creations(p) /\ Deletions(p)' = Deletions(p)
      /\ i \notin Creations(p) /\ i \notin Deletions(p)
      /\ Deletions(p) \subseteq DOMAIN log
  BY DEF Creations, Deletions, Passing
<1>2. \A d \in Deletions(p) : Passed(d)' <=> Passed(d)
  BY <1>1 DEF Passing
<1> QED BY <1>1, <1>2 DEF Shown, ExistenceShown, Passing

LEMMA OthersShown ==
  ASSUME NEW i \in Ids, Passing(i), NEW q \in Products, Shown(q), CreatedFirst(q),
         log[i].id # q,
         catalog'.rows[q] = catalog.rows[q], catalog'.index[q] = catalog.index[q]
  PROVE  Shown(q)'
<1>1. /\ ~ CreatesProduct(log[i], q) /\ ~ DeletesProduct(log[i], q)
      /\ ~ WritesCore(log[i], q) /\ ~ WritesStatus(log[i], q)
      /\ \A a : ~ WritesValue(log[i], q, a)
  BY DEF CreatesProduct, DeletesProduct, WritesCore, WritesStatus, WritesValue
<1>2. Projection!Projected(catalog, q)' <=> Projection!Projected(catalog, q)
  BY DEF Projection!Projected
<1>3. ExistenceShown(q)'
  BY <1>1, <1>2, ExistenceAfter
<1>4. CoreShown(q)'
  BY <1>1, <1>2, CoreAfter
<1>5. StatusShown(q)'
  BY <1>1, <1>2, StatusAfter
<1>6. \A a \in KnownAtStart : ValueShown(q, a)'
  BY <1>1, ValueAfter
<1> QED BY <1>3, <1>4, <1>5, <1>6 DEF Shown

(* The slug of a product that comes into the catalog is free there, unless the
   event is redelivered: whoever held it has been passed on. *)
LEMMA NewSlugIsFree ==
  ASSUME CurrentInv, NoneGivenUp, NEW i \in Ids, Passing(i), i \notin Seen,
         NEW p \in Products, CreatesProduct(log[i], p)
  PROVE  ~ Projection!SlugTaken(catalog, p, log[i].slug)
<1> SUFFICES ASSUME NEW q \in Products \ {p}, Projection!Projected(catalog, q),
                    catalog.rows[q].slug = log[i].slug
             PROVE  FALSE
  BY DEF Projection!SlugTaken
<1>1. Shown(q) /\ SlugWasFree(p, q)
  BY DEF CurrentInv, SlugsWereFree
<1>2. PICK w \in Seen : Current(w, CoreWrites(q)) /\ catalog.rows[q].slug = log[w].slug
  BY <1>1 DEF Shown, CoreShown
<1>3. w \in DOMAIN log /\ w < i /\ i \in Creations(p)
  BY <1>2 DEF CurrentInv, SeenOK, Passing, Creations, Seen, Ids
<1>4. \/ \E j \in CoreWrites(q) : w < j /\ j < i
      \/ \E d \in Deletions(q) : d < i
  BY <1>1, <1>2, <1>3 DEF SlugWasFree, Current
<1>5. ASSUME NEW j \in CoreWrites(q), w < j, j < i
      PROVE  FALSE
  <2>1. j \in DOMAIN log
    BY DEF CoreWrites
  <2>2. Passed(j)
    BY <1>5, <2>1 DEF Passing
  <2> QED BY <1>2, <1>3, <1>5, <2>1, <2>2 DEF Current, Passing
<1>6. ASSUME NEW d \in Deletions(q), d < i
      PROVE  FALSE
  BY <1>1, <1>6 DEF Shown, ExistenceShown, Deletions, Passing
<1> QED BY <1>4, <1>5, <1>6

(* The product an applied event is about, one kind of event at a time. *)
LEMMA CreatedShown ==
  ASSUME Base, CurrentInv, NoneGivenUp, NEW i \in Ids, Passing(i),
         NEW e \in Events, e = log[i], NEW p \in Products, e.id = p,
         catalog' = Projection!Apply(catalog, known, e),
         e.type = "ProductCreated"
  PROVE  Shown(p)'
<1>1. catalog \in Catalogs
  BY DEF Base, SaleInv, PipelineInv, Mirrors
<1>2. Shown(p) /\ CreatedFirst(p)
  BY <1>1 DEF CurrentInv, LogTells, StoreTold
<1>3. /\ CreatesProduct(e, p) /\ WritesCore(e, p) /\ WritesStatus(e, p)
      /\ StatusIn(e) = e.status /\ \A a : ~ WritesValue(e, p, a)
  BY DEF CreatesProduct, WritesCore, WritesStatus, WritesValue, StatusIn
<1>4. /\ catalog'.index = catalog.index
      /\ Projection!Projected(catalog, p) \/ Projection!SlugTaken(catalog, p, e.slug) =>
           catalog'.rows[p] = catalog.rows[p]
      /\ ~ Projection!Projected(catalog, p) /\ ~ Projection!SlugTaken(catalog, p, e.slug) =>
           /\ Projection!Projected(catalog', p)
           /\ catalog'.rows[p].slug = e.slug /\ catalog'.rows[p].text = e.text
           /\ catalog'.rows[p].status = e.status
  BY <1>1, CreatedEffect
<1>5. Projection!Projected(catalog, p)' <=>
        Projection!Projected(catalog, p) \/ ~ Projection!SlugTaken(catalog, p, e.slug)
  BY <1>4 DEF Projection!Projected
<1>6. CoreShown(p)'
  BY <1>1, <1>2, <1>3, <1>4, <1>5, CoreAfter
<1>7. StatusShown(p)'
  BY <1>1, <1>2, <1>3, <1>4, <1>5, StatusAfter
<1>8. \A a \in KnownAtStart : ValueShown(p, a)'
  BY <1>1, <1>2, <1>3, <1>4, ValueAfter
<1>9. ExistenceShown(p)'
  <2>1. /\ Creations(p)' = Creations(p) /\ Deletions(p)' = Deletions(p)
        /\ i \in Creations(p) /\ i \notin Deletions(p) /\ Deletions(p) \subseteq DOMAIN log
        /\ \A d \in Deletions(p) : log[d].id = p
    BY <1>3 DEF Creations, Deletions, CreatesProduct, DeletesProduct, Passing
  <2>2. \A d \in Deletions(p) : ~ Passed(d)'
    <3> SUFFICES ASSUME NEW d \in Deletions(p) PROVE ~ Passed(d)'
      OBVIOUS
    <3>1. i <= d /\ i # d
      BY <1>2, <2>1 DEF CreatedFirst
    <3> QED BY <2>1, <3>1 DEF Passing
  <2>3. Deletions(p) \cap Seen' = {} => Projection!Projected(catalog, p)'
    <3> SUFFICES ASSUME Deletions(p) \cap Seen' = {}
                 PROVE  Projection!Projected(catalog, p)'
      OBVIOUS
    <3>1. CASE i \in Seen
      <4>1. Deletions(p) \cap Seen = {}
        BY DEF Passing
      <4> QED BY <1>2, <1>5, <2>1, <3>1, <4>1 DEF Shown, ExistenceShown
    <3>2. CASE i \notin Seen
      BY <1>1, <1>3, <1>5, <3>2, NewSlugIsFree
    <3> QED BY <3>1, <3>2
  <2> QED BY <2>1, <2>2, <2>3 DEF ExistenceShown
<1> QED BY <1>6, <1>7, <1>8, <1>9 DEF Shown

LEMMA DeletedShown ==
  ASSUME Base, CurrentInv, NoneGivenUp, NEW i \in Ids, Passing(i),
         NEW e \in Events, e = log[i], NEW p \in Products, e.id = p,
         catalog' = Projection!Apply(catalog, known, e),
         e.type = "ProductDeleted"
  PROVE  Shown(p)'
<1>1. catalog \in Catalogs
  BY DEF Base, SaleInv, PipelineInv, Mirrors
<1>2. Shown(p)
  BY <1>1 DEF CurrentInv
<1>3. DeletesProduct(e, p) /\ ValueIn(e) = None /\ \A a : WritesValue(e, p, a)
  BY DEF DeletesProduct, ValueIn, WritesValue
<1>4. catalog'.rows[p] = None /\ \A a \in Attributes : catalog'.index[p][a] = None
  BY <1>1, DeletedEffect
<1>5. ~ Projection!Projected(catalog, p)'
  BY <1>4 DEF Projection!Projected
<1>6. ExistenceShown(p)'
  <2>1. i \in Deletions(p)' /\ i \in Seen'
    BY <1>3 DEF Deletions, Passing, DeletesProduct
  <2> QED BY <1>5, <2>1 DEF ExistenceShown
<1>7. \A a \in KnownAtStart : ValueShown(p, a)'
  BY <1>1, <1>2, <1>3, <1>4, ValueAfter, PipelineAssumption
<1> QED BY <1>5, <1>6, <1>7 DEF Shown, CoreShown, StatusShown

LEMMA CoreUpdateShown ==
  ASSUME Base, CurrentInv, NoneGivenUp, NEW i \in Ids, Passing(i),
         NEW e \in Events, e = log[i], NEW p \in Products, e.id = p,
         catalog' = Projection!Apply(catalog, known, e),
         UpdatesCore(e)
  PROVE  Shown(p)'
<1>1. catalog \in Catalogs
  BY DEF Base, SaleInv, PipelineInv, Mirrors
<1>2. Shown(p) /\ CreatedFirst(p)
  BY <1>1 DEF CurrentInv, LogTells, StoreTold
<1>3. /\ ~ CreatesProduct(e, p) /\ ~ DeletesProduct(e, p) /\ WritesCore(e, p)
      /\ ~ WritesStatus(e, p) /\ \A a : ~ WritesValue(e, p, a)
  BY DEF CreatesProduct, DeletesProduct, WritesCore, WritesStatus, WritesValue, UpdatesCore
<1>4. /\ catalog'.index = catalog.index
      /\ Projection!Projected(catalog, p) =>
           /\ Projection!Projected(catalog', p)
           /\ catalog'.rows[p].slug = e.slug /\ catalog'.rows[p].text = e.text
           /\ catalog'.rows[p].status = catalog.rows[p].status
      /\ ~ Projection!Projected(catalog, p) => catalog'.rows[p] = catalog.rows[p]
  BY <1>1, CoreEffect
<1>5. Projection!Projected(catalog, p)' <=> Projection!Projected(catalog, p)
  BY <1>4 DEF Projection!Projected
<1>6. ExistenceShown(p)'
  BY <1>1, <1>2, <1>3, <1>5, ExistenceAfter
<1>7. CoreShown(p)'
  BY <1>1, <1>2, <1>3, <1>4, <1>5, CoreAfter
<1>8. StatusShown(p)'
  BY <1>1, <1>2, <1>3, <1>4, <1>5, StatusAfter
<1>9. \A a \in KnownAtStart : ValueShown(p, a)'
  BY <1>1, <1>2, <1>3, <1>4, ValueAfter
<1> QED BY <1>6, <1>7, <1>8, <1>9 DEF Shown

LEMMA ValueEventShown ==
  ASSUME Base, CurrentInv, NoneGivenUp, NEW i \in Ids, Passing(i),
         NEW e \in Events, e = log[i], NEW p \in Products, e.id = p,
         catalog' = Projection!Apply(catalog, known, e),
         e.type = "ProductUpdated",
         e.reason \in {"attribute_value_set", "attribute_value_cleared"}
  PROVE  Shown(p)'
<1>1. catalog \in Catalogs
  BY DEF Base, SaleInv, PipelineInv, Mirrors
<1>2. Shown(p) /\ CreatedFirst(p)
  BY <1>1 DEF CurrentInv, LogTells, StoreTold
<1>3. /\ ~ CreatesProduct(e, p) /\ ~ DeletesProduct(e, p) /\ ~ WritesCore(e, p)
      /\ ~ WritesStatus(e, p) /\ \A a : WritesValue(e, p, a) <=> e.attribute = a
      /\ ValueIn(e) = IF e.reason = "attribute_value_cleared" THEN None ELSE e.value
  BY DEF CreatesProduct, DeletesProduct, WritesCore, WritesStatus, WritesValue, ValueIn
<1>4. /\ catalog'.rows = catalog.rows
      /\ \A a \in Attributes \ {e.attribute} : catalog'.index[p][a] = catalog.index[p][a]
      /\ IF e.reason = "attribute_value_cleared"
           THEN catalog'.index[p][e.attribute] = None
           ELSE e.attribute \in known => catalog'.index[p][e.attribute] = e.value
  BY <1>1, ValueEffect
<1>5. Projection!Projected(catalog, p)' <=> Projection!Projected(catalog, p)
  BY <1>4 DEF Projection!Projected
<1>6. ExistenceShown(p)'
  BY <1>1, <1>2, <1>3, <1>5, ExistenceAfter
<1>7. CoreShown(p)'
  BY <1>1, <1>2, <1>3, <1>4, <1>5, CoreAfter
<1>8. StatusShown(p)'
  BY <1>1, <1>2, <1>3, <1>4, <1>5, StatusAfter
<1>9. ASSUME NEW a \in KnownAtStart
      PROVE  ValueShown(p, a)'
  <2>1. a \in known /\ a \in Attributes
    BY PipelineAssumption DEF CurrentInv
  <2>2. \/ WritesValue(e, p, a) /\ catalog'.index[p][a] = ValueIn(e)
        \/ ~ WritesValue(e, p, a) /\ catalog'.index[p][a] = catalog.index[p][a]
    BY <1>3, <1>4, <2>1
  <2> QED BY <1>1, <1>2, <2>2, ValueAfter
<1> QED BY <1>6, <1>7, <1>8, <1>9 DEF Shown

LEMMA StatusEventShown ==
  ASSUME Base, CurrentInv, NoneGivenUp, NEW i \in Ids, Passing(i),
         NEW e \in Events, e = log[i], NEW p \in Products, e.id = p,
         catalog' = Projection!Apply(catalog, known, e),
         e.type \notin {"ProductCreated", "ProductUpdated", "ProductDeleted"}
  PROVE  Shown(p)'
<1>1. catalog \in Catalogs
  BY DEF Base, SaleInv, PipelineInv, Mirrors
<1>2. Shown(p) /\ CreatedFirst(p)
  BY <1>1 DEF CurrentInv, LogTells, StoreTold
<1>3. /\ ~ CreatesProduct(e, p) /\ ~ DeletesProduct(e, p) /\ ~ WritesCore(e, p)
      /\ WritesStatus(e, p) /\ StatusIn(e) = e.to /\ \A a : ~ WritesValue(e, p, a)
  BY DEF CreatesProduct, DeletesProduct, WritesCore, WritesStatus, WritesValue, StatusIn
<1>4. /\ catalog'.index = catalog.index
      /\ IF Projection!Projected(catalog, p)
           THEN /\ Projection!Projected(catalog', p)
                /\ catalog'.rows[p].slug = catalog.rows[p].slug
                /\ catalog'.rows[p].text = catalog.rows[p].text
                /\ catalog'.rows[p].status = e.to
           ELSE catalog'.rows[p] = catalog.rows[p]
  BY <1>1, StatusEffect
<1>5. Projection!Projected(catalog, p)' <=> Projection!Projected(catalog, p)
  BY <1>4 DEF Projection!Projected
<1>6. ExistenceShown(p)'
  BY <1>1, <1>2, <1>3, <1>5, ExistenceAfter
<1>7. CoreShown(p)'
  BY <1>1, <1>2, <1>3, <1>4, <1>5, CoreAfter
<1>8. StatusShown(p)'
  BY <1>1, <1>2, <1>3, <1>4, <1>5, StatusAfter
<1>9. \A a \in KnownAtStart : ValueShown(p, a)'
  BY <1>1, <1>2, <1>3, <1>4, ValueAfter
<1> QED BY <1>6, <1>7, <1>8, <1>9 DEF Shown

LEMMA AppliedShown ==
  ASSUME Base, CurrentInv, NoneGivenUp, NEW i \in Ids, Passing(i),
         catalog' = Projection!Apply(catalog, known, log[i])
  PROVE  \A p \in Products : Shown(p)'
<1>1. PICK e \in Events : e = log[i]
  BY DEF Passing
<1>2. PICK p \in Products : e.id = p
  BY DEF Events
<1>3. catalog \in Catalogs /\ catalog' = Projection!Apply(catalog, known, e)
  BY <1>1 DEF Base, SaleInv, PipelineInv, Mirrors
<1>4. \A q \in Products : Shown(q) /\ CreatedFirst(q)
  BY DEF CurrentInv, LogTells, StoreTold
<1>5. e.type = "ProductUpdated" =>
        UpdatesCore(e) \/ e.reason \in {"attribute_value_set", "attribute_value_cleared"}
  BY DEF Events, UpdatesCore
<1>6. Shown(p)'
  BY <1>1, <1>2, <1>3, <1>5,
     CreatedShown, DeletedShown, CoreUpdateShown, ValueEventShown, StatusEventShown
<1>7. \A q \in Products \ {p} :
        catalog'.rows[q] = catalog.rows[q] /\ catalog'.index[q] = catalog.index[q]
  <2>1. CASE e.type = "ProductCreated"
    BY <1>2, <1>3, <2>1, CreatedEffect
  <2>2. CASE e.type = "ProductDeleted"
    BY <1>2, <1>3, <2>2, DeletedEffect
  <2>3. CASE UpdatesCore(e)
    BY <1>2, <1>3, <2>3, CoreEffect
  <2>4. CASE /\ e.type = "ProductUpdated"
             /\ e.reason \in {"attribute_value_set", "attribute_value_cleared"}
    BY <1>2, <1>3, <2>4, ValueEffect
  <2>5. CASE e.type \notin {"ProductCreated", "ProductUpdated", "ProductDeleted"}
    BY <1>2, <1>3, <2>5, StatusEffect
  <2> QED BY <1>5, <2>1, <2>2, <2>3, <2>4, <2>5
<1>8. \A q \in Products \ {p} : Shown(q)'
  BY <1>1, <1>2, <1>3, <1>4, <1>7, OthersShown
<1> QED BY <1>6, <1>8

LEMMA AppliedCurrent ==
  ASSUME Base, CurrentInv, NEW i \in Ids, DispatchApplied(i)
  PROVE  CurrentInv'
<1>1. /\ UNCHANGED <<products, values, log, silent, known, published, attempts>>
      /\ catalog' = Projection!Apply(catalog, known, log[i])
      /\ received' = [received EXCEPT ![1][i] = @ + 1]
      /\ received \in [{1} -> [Ids -> Nat]]
  BY DEF DispatchApplied, Relay!Committed, Relay!outbox, storeVars, Base, SaleInv,
         PipelineInv, RestTyped
<1>2. LogTells'
  BY <1>1 DEF CurrentInv, LogTells, StoreTold, CreatedFirst, ExistenceTold, CoreTold,
              StatusTold, ValueTold, Newest, Exists, NeverCreated, Creations, Deletions,
              CoreWrites, StatusWrites, ValueWrites
<1>3. SlugsWereFree'
  BY <1>1 DEF CurrentInv, SlugsWereFree, SlugWasFree, Creations, Deletions, CoreWrites
<1>4. NoneGivenUp' <=> NoneGivenUp
  BY <1>1 DEF NoneGivenUp, GivenUp
<1>5. i \in DOMAIN log /\ Seen' = Seen \cup {i}
  <2>1. i \in todo /\ todo \subseteq 1 .. Len(log) /\ log \in Seq(Events)
    BY DEF DispatchApplied, Relay!Committed, Relay!IsNext, Base, SaleInv, PipelineInv
  <2> QED BY <1>1, <2>1 DEF Seen
<1>6. SeenOK'
  <2>1. received' \in [{1} -> [Ids -> Nat]] /\ Seen' \subseteq DOMAIN log'
    BY <1>1, <1>5 DEF CurrentInv, SeenOK
  <2>2. ASSUME NoneGivenUp
        PROVE  /\ \A k \in Ids : Passed(k)' => k \in Seen'
               /\ \A j \in Seen' : \A k \in Ids : k < j => k \in Seen'
    <3>1. Passing(i)
      BY <2>2, AppliedPasses
    <3>2. \A k \in Ids : Passed(k) => k \in Seen
      BY <2>2 DEF CurrentInv, SeenOK
    <3>3. \A k : Passed(k)' <=> Passed(k) \/ k = i
      BY <1>1 DEF Passed, DispatchApplied, Relay!Committed
    <3>4. \A k \in Ids : k < i => k \in Seen
      BY <1>5, <3>1, <3>2 DEF Passing, Ids
    <3> QED BY <1>5, <2>2, <3>2, <3>3, <3>4 DEF CurrentInv, SeenOK
  <2> QED BY <1>4, <2>1, <2>2 DEF SeenOK
<1>7. NoneGivenUp => \A p \in Products : Shown(p)'
  BY <1>1, AppliedPasses, AppliedShown
<1> QED BY <1>1, <1>2, <1>3, <1>4, <1>6, <1>7 DEF CurrentInv

LEMMA CurrentStep ==
  ASSUME Base, CurrentInv, SlugsDiffer', [Next]_vars
  PROVE  CurrentInv'
<1>1. /\ QueueTyped /\ src = 1 /\ todo \subseteq DOMAIN log /\ DOMAIN log \subseteq Ids
      /\ DOMAIN log = 1 .. Len(log)
  BY StoreAssumption DEF Base, SaleInv, PipelineInv, QueueOK, QueueTyped, Ids
<1>2. CASE SellerStep
  BY <1>2, SellerCurrent
<1>3. ASSUME UNCHANGED <<storeVars, catalog, published, attempts, received>>,
             delivered' \subseteq delivered, known \subseteq known'
      PROVE  CurrentInv'
  <2>1. NoneGivenUp' => NoneGivenUp
    BY <1>3 DEF NoneGivenUp, GivenUp
  <2>2. \A i \in Ids : Passed(i)' => Passed(i)
    BY <1>3 DEF Passed
  <2> QED BY <1>1, <1>3, <2>1, <2>2, CurrentStays
<1>4. CASE RelayStep
  <2>1. ASSUME NEW i \in Ids, DispatchApplied(i)
        PROVE  CurrentInv'
    BY <2>1, AppliedCurrent
  <2>2. ASSUME NEW i \in Ids, DispatchRejected(i) \/ DispatchFailed(i)
        PROVE  CurrentInv'
    BY <1>3, <2>2 DEF DispatchRejected, DispatchFailed, Relay!RolledBack, Relay!outbox
  <2>3. ASSUME UNCHANGED <<storeVars, known, catalog>>, Relay!Fetch
        PROVE  CurrentInv'
    BY <1>3, <2>3 DEF Relay!Fetch, Relay!outbox
  <2>4. ASSUME UNCHANGED <<storeVars, known, catalog>>, NEW i \in Ids, Relay!RecordFailure(i)
        PROVE  CurrentInv'
    <3>1. UNCHANGED <<published, received, delivered>>
          /\ attempts' = [attempts EXCEPT ![1][i] = @ + 1]
      BY <1>1, <2>4 DEF Relay!RecordFailure
    <3>2. \A k \in Ids : attempts'[1][k] >= attempts[1][k]
      BY <1>1, <3>1 DEF QueueTyped
    <3>3. NoneGivenUp' => NoneGivenUp
      <4>1. \A k \in published[1] : k \in Ids /\ attempts[1][k] \in Nat /\ attempts'[1][k] \in Nat
        BY <1>1, <3>1 DEF QueueTyped
      <4> QED BY <3>1, <3>2, <4>1, PipelineAssumption DEF NoneGivenUp, GivenUp
    <3>4. \A k \in Ids : Passed(k)' => Passed(k)
      BY <3>1 DEF Passed
    <3> QED BY <1>1, <2>4, <3>1, <3>3, <3>4, CurrentStays
  <2>5. ASSUME UNCHANGED <<storeVars, known, catalog>>, NEW i \in Ids, Relay!DeadLetter(i)
        PROVE  CurrentInv'
    <3>1. /\ UNCHANGED <<attempts, received, delivered>> /\ pc = "dead_letter"
          /\ Relay!IsNext(i) /\ i \in todo
          /\ published' = [published EXCEPT ![1] = @ \cup {i}]
      BY <1>1, <2>5 DEF Relay!DeadLetter, Relay!IsNext
    <3>2. GivenUp(i) /\ GivenUp(i)'
      BY <3>1 DEF Base, SaleInv, QueueOK, GivenUp
    <3>3. i \in published'[1]
      BY <1>1, <3>1 DEF QueueTyped
    <3>4. ~ NoneGivenUp'
      BY <3>2, <3>3 DEF NoneGivenUp
    <3> QED BY <1>1, <2>5, <3>1, <3>4, CurrentStays
  <2>6. ASSUME UNCHANGED <<storeVars, known, catalog>>, Relay!FinishSource
        PROVE  CurrentInv'
    <3>1. /\ UNCHANGED <<attempts, received>> /\ delivered' = {}
          /\ published' = [published EXCEPT ![1] = @ \cup delivered]
      BY <1>1, <2>6 DEF Relay!FinishSource
    <3>2. published'[1] = published[1] \cup delivered
      BY <1>1, <3>1 DEF QueueTyped
    <3>3. NoneGivenUp' => NoneGivenUp
      BY <3>1, <3>2 DEF NoneGivenUp, GivenUp
    <3>4. \A k \in Ids : Passed(k)' => Passed(k)
      BY <3>1, <3>2 DEF Passed
    <3> QED BY <1>1, <2>6, <3>1, <3>3, <3>4, CurrentStays
  <2> QED BY <1>4, <2>1, <2>2, <2>3, <2>4, <2>5, <2>6 DEF RelayStep
<1>5. CASE Interruption
  BY <1>3, <1>5
     DEF Interruption, Relay!TickError, Relay!Restart, Relay!AbandonTick, Relay!outbox
<1>6. CASE (\E a \in Attributes : CreateAttribute(a)) \/ UNCHANGED vars
  BY <1>3, <1>6 DEF CreateAttribute, vars, relayVars
<1> QED BY <1>2, <1>4, <1>5, <1>6 DEF Next

(* When the outbox is drained and nothing was given up, every event was passed
   and seen: store and catalog both hold what the newest events say. *)
LEMMA CurrentMeansDrained == Base /\ CurrentInv => DrainedCatalogIsCurrent
<1> SUFFICES ASSUME Base, CurrentInv, Drained, AllAccepted, NEW p \in Products
             PROVE  /\ CoreIsCurrent(p)
                    /\ \A a \in KnownAtStart : catalog.index[p][a] = values[p][a]
                    /\ Exists(p) /\ p \notin silent =>
                         catalog.rows[p].status = products[p].status
  BY DEF DrainedCatalogIsCurrent
<1>1. QueueTyped /\ log \in Seq(Events) /\ DOMAIN log = 1 .. Len(log) /\ DOMAIN log \subseteq Ids
  BY StoreAssumption DEF Base, SaleInv, PipelineInv, QueueOK, QueueTyped, Ids
<1>2. NoneGivenUp
  <2>1. \A i \in published[1] : attempts[1][i] \in Nat
    BY <1>1 DEF QueueTyped
  <2> QED BY <2>1, PipelineAssumption DEF AllAccepted, NoneGivenUp, GivenUp
<1>3. \A i \in DOMAIN log : i \in Seen /\ Passed(i)
  BY <1>1 DEF Drained, AllAccepted, Seen, Passed
<1>4. StoreTold(p) /\ Shown(p)
  BY <1>2 DEF CurrentInv, LogTells
<1>5. DOMAIN log \subseteq Nat
  BY <1>1
<1>6. /\ Creations(p) \subseteq DOMAIN log /\ Deletions(p) \subseteq DOMAIN log
      /\ CoreWrites(p) \subseteq DOMAIN log /\ StatusWrites(p) \subseteq DOMAIN log
      /\ \A a : ValueWrites(p, a) \subseteq DOMAIN log
  BY DEF Creations, Deletions, CoreWrites, StatusWrites, ValueWrites
<1>7. ASSUME NEW W, W \subseteq DOMAIN log, NEW v, NEW w, Current(v, W), Newest(w, W)
      PROVE  v = w
  BY <1>3, <1>5, <1>7 DEF Current, Newest
<1>8. Exists(p) <=> Projection!Projected(catalog, p)
  <2>1. CASE Exists(p)
    BY <1>3, <1>4, <1>6, <2>1 DEF StoreTold, ExistenceTold, Shown, ExistenceShown
  <2>2. CASE Projection!Projected(catalog, p)
    <3>1. Deletions(p) = {}
      BY <1>3, <1>4, <1>6, <2>2 DEF Shown, ExistenceShown
    <3>2. PICK w \in Seen : w \in CoreWrites(p)
      BY <1>4, <2>2 DEF Shown, CoreShown, Current
    <3>3. w \in DOMAIN log /\ log[w].id = p
      BY <3>2 DEF CoreWrites, WritesCore
    <3>4. PICK k \in DOMAIN log : CreatesProduct(log[k], p)
      BY <3>3 DEF CurrentInv, LogTells
    <3>5. k \in Creations(p)
      BY <3>4 DEF Creations
    <3> QED BY <1>4, <2>2, <3>1, <3>5 DEF StoreTold, ExistenceTold
  <2> QED BY <2>1, <2>2
<1>9. CoreIsCurrent(p)
  <2> SUFFICES ASSUME Exists(p)
               PROVE  /\ products[p].slug = catalog.rows[p].slug
                      /\ products[p].text = catalog.rows[p].text
    BY <1>8 DEF CoreIsCurrent
  <2>1. PICK w \in DOMAIN log : /\ Newest(w, CoreWrites(p))
                                /\ products[p].slug = log[w].slug
                                /\ products[p].text = log[w].text
    BY <1>4 DEF StoreTold, CoreTold
  <2>2. PICK v \in Seen : /\ Current(v, CoreWrites(p))
                          /\ catalog.rows[p].slug = log[v].slug
                          /\ catalog.rows[p].text = log[v].text
    BY <1>4, <1>8 DEF Shown, CoreShown
  <2> QED BY <1>6, <1>7, <2>1, <2>2
<1>10. ASSUME NEW a \in KnownAtStart
       PROVE  catalog.index[p][a] = values[p][a]
  <2>1. ValueTold(p, a) /\ ValueShown(p, a)
    BY <1>4, PipelineAssumption DEF StoreTold, Shown
  <2>2. CASE ValueWrites(p, a) = {}
    BY <2>1, <2>2 DEF ValueTold, ValueShown, Newest, Current
  <2>3. CASE ValueWrites(p, a) # {}
    <3>1. PICK w \in DOMAIN log : /\ Newest(w, ValueWrites(p, a))
                                  /\ values[p][a] = ValueIn(log[w])
      BY <2>1, <2>3 DEF ValueTold
    <3>2. PICK v \in DOMAIN log : /\ Current(v, ValueWrites(p, a))
                                  /\ catalog.index[p][a] = ValueIn(log[v])
      BY <1>3, <1>6, <2>1, <2>3 DEF ValueShown
    <3> QED BY <1>6, <1>7, <3>1, <3>2
  <2> QED BY <2>2, <2>3
<1>11. ASSUME Exists(p), p \notin silent
       PROVE  catalog.rows[p].status = products[p].status
  <2>1. PICK w \in DOMAIN log : /\ Newest(w, StatusWrites(p))
                                /\ products[p].status = StatusIn(log[w])
    BY <1>4, <1>11 DEF StoreTold, StatusTold
  <2>2. PICK v \in DOMAIN log : /\ Current(v, StatusWrites(p))
                                /\ catalog.rows[p].status = StatusIn(log[v])
    BY <1>4, <1>8, <1>11 DEF Shown, StatusShown
  <2> QED BY <1>6, <1>7, <2>1, <2>2
<1> QED BY <1>9, <1>10, <1>11

(* projection.rs:5, for any number of products, sellers, attributes and
   events, under redelivery, outages and restarts: as long as no two products
   that exist have the same slug, the catalog whose outbox is drained shows
   what the product store holds. *)
THEOREM CatalogCatchesUp == Spec /\ []SlugsDiffer => []DrainedCatalogIsCurrent
<1>1. Base /\ CurrentInv /\ SlugsDiffer' /\ [Next]_vars => Base' /\ CurrentInv'
  BY SaleStep, RestStep, CurrentStep DEF Base, SaleInv, PipelineInv
<1>2. Init => Base /\ CurrentInv
  BY InitSale, InitRest, InitCurrent DEF Base
<1> QED BY <1>1, <1>2, CurrentMeansDrained, PTL DEF Spec

(* UNIQUE INDEX products_seller_slug keeps the slugs of one seller apart. *)
LEMMA OneSellerSlugs ==
  ASSUME \A p, q \in Products : Sellers[p] = Sellers[q]
  PROVE  Spec => []SlugsDiffer
<1>1. Init => SlugsDiffer
  BY DEF Init, StoreInit, SlugsDiffer, Exists
<1>2. SaleInv /\ SlugsDiffer /\ [Next]_vars => SlugsDiffer'
  <2> SUFFICES ASSUME SaleInv, SlugsDiffer, [Next]_vars PROVE SlugsDiffer'
    OBVIOUS
  <2>0. products \in [Products -> Rows \cup {None}]
    BY DEF SaleInv, LogOK
  <2>1. CASE UNCHANGED products
    BY <2>1 DEF SlugsDiffer, Exists
  <2>2. ASSUME NEW p \in Products, NEW row, products' = [products EXCEPT ![p] = row],
               row = None \/ SlugFree(p, row.slug)
        PROVE  SlugsDiffer'
    <3>1. products'[p] = row /\ \A q \in Products \ {p} : products'[q] = products[q]
      BY <2>0, <2>2
    <3> QED BY <2>2, <3>1 DEF SlugsDiffer, SlugFree, Exists
  <2>3. CASE SellerStep
    <3>1. ASSUME NEW p \in Products, NEW row \in Rows, CreateProduct(p, row)
          PROVE  SlugsDiffer'
      BY <2>2, <3>1 DEF CreateProduct
    <3>2. ASSUME NEW p \in Products, NEW slug \in Slugs, NEW text \in Texts,
                 UpdateProduct(p, slug, text)
          PROVE  SlugsDiffer'
      <4>1. CASE ~ Exists(p)
        BY <2>1, <3>2, <4>1 DEF UpdateProduct
      <4>2. CASE Exists(p)
        <5> DEFINE row == [products[p] EXCEPT !.slug = slug, !.text = text]
        <5>1. products' = [products EXCEPT ![p] = row] /\ SlugFree(p, slug)
          BY <3>2, <4>2 DEF UpdateProduct
        <5>2. row.slug = slug
          BY <2>0, <4>2 DEF Exists, Rows
        <5> HIDE DEF row
        <5> QED BY <2>2, <5>1, <5>2
      <4> QED BY <4>1, <4>2
    <3>3. ASSUME NEW p \in Products, NEW to \in Statuses, SetStatus(p, to)
          PROVE  SlugsDiffer'
      <4> DEFINE row == [products[p] EXCEPT !.status = to]
      <4>1. products' = [products EXCEPT ![p] = row] /\ Exists(p)
        BY <3>3 DEF SetStatus
      <4>2. row.slug = products[p].slug
        BY <2>0, <4>1 DEF Exists, Rows
      <4>3. SlugFree(p, products[p].slug)
        BY <4>1 DEF SlugFree, SlugsDiffer
      <4> HIDE DEF row
      <4> QED BY <2>2, <4>1, <4>2, <4>3
    <3>4. ASSUME NEW p \in Products, DeleteProduct(p)
          PROVE  SlugsDiffer'
      BY <2>2, <3>4 DEF DeleteProduct
    <3>5. ASSUME NEW p \in Products, NEW a, NEW v,
                 SetAttributeValue(p, a, v) \/ ClearAttributeValue(p, a)
          PROVE  SlugsDiffer'
      BY <2>1, <3>5 DEF SetAttributeValue, ClearAttributeValue
    <3> QED BY <2>3, <3>1, <3>2, <3>3, <3>4, <3>5 DEF SellerStep, StoreStep
  <2>4. CASE ~ SellerStep
    <3>1. UNCHANGED products
      BY <2>4 DEF Next, CreateAttribute, RelayStep, Interruption, DispatchApplied,
                  DispatchRejected, DispatchFailed, vars, storeVars
    <3> QED BY <2>1, <3>1
  <2> QED BY <2>3, <2>4
<1>3. Init => SaleInv
  BY InitSale
<1>4. SaleInv /\ [Next]_vars => SaleInv'
  BY SaleStep
<1> QED BY <1>1, <1>2, <1>3, <1>4, PTL DEF Spec

(* With one seller the schema keeps all slugs apart, and the catalog catches up
   (projection.rs:5) whatever is redelivered, refused or restarted. *)
THEOREM OneSellerCatchesUp ==
  ASSUME \A p, q \in Products : Sellers[p] = Sellers[q]
  PROVE  Spec => []DrainedCatalogIsCurrent
<1>1. Spec => []SlugsDiffer
  BY OneSellerSlugs
<1> QED BY <1>1, CatalogCatchesUp, PTL
=============================================================================
