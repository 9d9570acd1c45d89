----------------------- MODULE MCProjectionPipeline -----------------------
(* ProjectionPipeline for TLC: two products, of one seller or of two. *)
EXTENDS ProjectionPipeline, SequencesExt, FiniteSets

CONSTANTS p1, p2, sellerA, sellerB, sx, sy, t1

OneSeller  == p1 :> sellerA @@ p2 :> sellerA
OneProduct == p1 :> sellerA
TwoSellers == p1 :> sellerA @@ p2 :> sellerB

(* With one seller, products and slugs are interchangeable. *)
Symmetry == Permutations(Products) \cup Permutations(Slugs)

(* Three ways to spend the bounds: the texts and values of one draft, with one
   outage of the catalog or one other fault, ... *)
OneProductByValue ==
  /\ outages + faults <= 1
  /\ silent = {}
  /\ Len(log) <= 3
  /\ Cardinality({e.id : e \in ToSet(log)}) <= 1
  /\ \A e \in ToSet(log) :
       e.type \in {"ProductCreated", "ProductUpdated", "ProductDeleted"}
  /\ Cardinality({e.slug : e \in {f \in ToSet(log) : "slug" \in DOMAIN f}}) <= 1

(* ... the statuses of one product, while outages give up an event that is
   delivered again, ... *)
OneProductByStatus ==
  /\ Len(log) <= 3
  /\ Cardinality({e.id : e \in ToSet(log)}) <= 1
  /\ known = KnownAtStart
  /\ \A e \in ToSet(log) :
       /\ e.type # "ProductUpdated"
       /\ "text" \in DOMAIN e => e.text = t1

(* ... or two products that exchange slugs and statuses. *)
TwoProductsBySlug ==
  /\ outages = 0
  /\ known = KnownAtStart
  /\ \A e \in ToSet(log) :
       /\ "attribute" \notin DOMAIN e
       /\ "text" \in DOMAIN e => e.text = t1

Focus == OneProductByValue \/ OneProductByStatus \/ TwoProductsBySlug

FocusedNext ==
  \/ SellerStep /\ Focus'
  \/ (\E a \in Attributes : CreateAttribute(a)) /\ Focus'
  \/ RelayStep /\ Focus'
  \/ Interruption /\ Focus'

FocusedSpec == Init /\ [][FocusedNext]_vars
=============================================================================
