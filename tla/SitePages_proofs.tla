-------------------------- MODULE SitePages_proofs --------------------------
(***************************************************************************)
(* Theorems about ListingPages, for any number of products, any page size  *)
(* and any number of changes, and about Taxonomy, for every finite set of  *)
(* categories and every set of slugs and attributes.                       *)
(***************************************************************************)
EXTENDS ListingPages, Taxonomy, FiniteSetTheorems, SequenceTheorems, TLAPS

-----------------------------------------------------------------------------
(* ListingPages. *)

Below(S, p) == {q \in S : q < p}

(* How many of S come before p: the place LIMIT and OFFSET go by. *)
Pos(S, p) == Cardinality(Below(S, p))

(* Every set of natural numbers has a least element. *)
LEMMA LeastOf ==
  ASSUME NEW T \in SUBSET Nat, T # {}
  PROVE  \E i \in T : \A j \in T : i <= j
<1> DEFINE upTo == {1 .. i : i \in T}
<1>1. upTo \subseteq FiniteSubsetsOf(Nat) /\ upTo # {}
  <2>1. ASSUME NEW i \in T
        PROVE  1 .. i \in FiniteSubsetsOf(Nat)
    BY FS_Interval DEF FiniteSubsetsOf
  <2> QED BY <2>1
<1>2. \E U \in upTo : \A V \in upTo : ~ (<<V, U>> \in StrictSubsetOrdering(Nat))
  <2> HIDE DEF upTo
  <2> QED BY <1>1, FS_StrictSubsetOrderingWellFounded, WFMin, Zenon
<1>3. PICK i \in T : \A j \in T : ~ (<<1 .. j, 1 .. i>> \in StrictSubsetOrdering(Nat))
  BY <1>2, Zenon
<1>4. ASSUME NEW j \in T
      PROVE  i <= j
  <2> SUFFICES ASSUME j < i PROVE FALSE
    OBVIOUS
  <2>1. 1 .. j \subseteq 1 .. i /\ 1 .. j # 1 .. i /\ 1 .. i \subseteq Nat
    <3>1. 1 .. j \subseteq 1 .. i /\ 1 .. i \subseteq Nat
      OBVIOUS
    <3>2. i \in 1 .. i /\ i \notin 1 .. j
      BY <1>3
    <3> QED BY <3>1, <3>2
  <2>2. <<1 .. j, 1 .. i>> \in StrictSubsetOrdering(Nat)
    BY <2>1, Zenon DEF StrictSubsetOrdering
  <2> QED BY <1>3, <2>2
<1> QED BY <1>4

LEMMA ProductsAreNumbers == Products \subseteq Nat /\ \A p \in Products : p <= NumProducts
  BY ListingAssumption DEF Products

LEMMA GreatestOf ==
  ASSUME NEW T \in SUBSET Products, T # {}
  PROVE  \E i \in T : \A j \in T : j <= i
<1> DEFINE mirror == {NumProducts - i : i \in T}
<1>1. mirror \in SUBSET Nat /\ mirror # {}
  <2>1. ASSUME NEW i \in T
        PROVE  NumProducts - i \in Nat
    BY ProductsAreNumbers, ListingAssumption
  <2> QED BY <2>1
<1>2. \E m \in mirror : \A n \in mirror : m <= n
  <2> HIDE DEF mirror
  <2> QED BY <1>1, LeastOf
<1>3. PICK i \in T : \A j \in T : NumProducts - i <= NumProducts - j
  BY <1>2
<1> QED BY <1>3, ProductsAreNumbers, ListingAssumption

LEMMA ListingIsFinite ==
  ASSUME NEW S \in SUBSET Products
  PROVE  IsFiniteSet(S) /\ Cardinality(S) \in 0 .. NumProducts
<1>1. IsFiniteSet(Products) /\ Cardinality(Products) = NumProducts
  BY FS_Interval, ListingAssumption DEF Products
<1> QED BY <1>1, FS_Subset, FS_CardinalityType, ListingAssumption

LEMMA PosType ==
  ASSUME NEW S \in SUBSET Products, NEW p \in Products
  PROVE  /\ Below(S, p) \in SUBSET Products /\ IsFiniteSet(Below(S, p))
         /\ Pos(S, p) \in Nat
         /\ Pos(S, p) <= Cardinality(S)
<1>1. Below(S, p) \in SUBSET S
  BY DEF Below
<1> QED BY <1>1, ListingIsFinite, FS_Subset, FS_CardinalityType DEF Pos

(* A product that enters or leaves moves what comes after it by one. *)
LEMMA PosEnter ==
  ASSUME NEW S \in SUBSET Products, NEW x \in Products, x \notin S, NEW p \in Products
  PROVE  Pos(S \cup {x}, p) = Pos(S, p) + (IF x < p THEN 1 ELSE 0)
<1>1. CASE x < p
  <2>1. Below(S \cup {x}, p) = Below(S, p) \cup {x} /\ x \notin Below(S, p)
    BY <1>1 DEF Below
  <2> QED BY <1>1, <2>1, PosType, FS_AddElement DEF Pos
<1>2. CASE ~ (x < p)
  <2>1. Below(S \cup {x}, p) = Below(S, p)
    BY <1>2 DEF Below
  <2>2. Pos(S, p) \in Nat
    BY PosType
  <2>3. Pos(S \cup {x}, p) = Pos(S, p)
    BY <2>1 DEF Pos
  <2> QED BY <1>2, <2>2, <2>3
<1> QED BY <1>1, <1>2

LEMMA PosLeave ==
  ASSUME NEW S \in SUBSET Products, NEW x \in S, NEW p \in Products
  PROVE  Pos(S, p) = Pos(S \ {x}, p) + (IF x < p THEN 1 ELSE 0)
<1>1. S \ {x} \in SUBSET Products /\ x \in Products /\ x \notin S \ {x}
  OBVIOUS
<1>2. (S \ {x}) \cup {x} = S
  OBVIOUS
<1> QED BY <1>1, <1>2, PosEnter

(* Different products of the listing have different places, in its order. *)
LEMMA PosOrder ==
  ASSUME NEW S \in SUBSET Products, NEW p \in Products, NEW q \in Products
  PROVE  /\ p <= q => Pos(S, p) <= Pos(S, q)
         /\ p \in S /\ p < q => Pos(S, p) < Pos(S, q)
<1>0. p \in Nat /\ q \in Nat /\ \A x \in S : x \in Nat
  BY ProductsAreNumbers
<1>1. ASSUME p <= q
      PROVE  Below(S, p) \in SUBSET Below(S, q)
  <2>1. \A x \in S : x < p => x < q
    BY <1>0, <1>1
  <2> QED BY <2>1 DEF Below
<1>2. p <= q => Pos(S, p) <= Pos(S, q)
  BY <1>1, PosType, FS_Subset DEF Pos
<1>3. ASSUME p \in S, p < q
      PROVE  Pos(S, p) < Pos(S, q)
  <2>1. Below(S, p) \cup {p} \in SUBSET Below(S, q) /\ p \notin Below(S, p)
    <3>1. (\A x \in S : x < p => x < q) /\ ~ (p < p)
      BY <1>0, <1>3
    <3> QED BY <1>3, <3>1 DEF Below
  <2>2. Cardinality(Below(S, p) \cup {p}) = Pos(S, p) + 1
    BY <2>1, PosType, FS_AddElement DEF Pos
  <2>3. Cardinality(Below(S, p) \cup {p}) <= Pos(S, q)
    BY <2>1, PosType, FS_Subset DEF Pos
  <2> QED BY <2>2, <2>3, PosType
<1> QED BY <1>2, <1>3

(* The places have no gap. *)
LEMMA PlaceIsTaken ==
  ASSUME NEW S \in SUBSET Products, NEW k \in Nat,
         NEW r \in S, k <= Pos(S, r)
  PROVE  \E q \in S : Pos(S, q) = k
<1> DEFINE T == {q \in S : k <= Pos(S, q)}
<1>1. T \in SUBSET Nat /\ T # {}
  BY ProductsAreNumbers
<1>2. PICK p \in T : \A j \in T : p <= j
  <2> HIDE DEF T
  <2> QED BY <1>1, LeastOf
<1>3. p \in S /\ p \in Products /\ Pos(S, p) \in Nat /\ k <= Pos(S, p)
  BY PosType
<1>4. CASE Pos(S, p) = k
  BY <1>3, <1>4
<1>5. CASE Pos(S, p) # k
  <2>1. Below(S, p) # {}
    BY <1>3, <1>5, FS_EmptySet DEF Pos
  <2>2. PICK m \in Below(S, p) : \A j \in Below(S, p) : j <= m
    BY <1>3, <2>1, PosType, GreatestOf
  <2>3. m \in S /\ m \in Products /\ m < p
    BY <2>2 DEF Below
  <2>4. Below(S, p) = Below(S, m) \cup {m} /\ m \notin Below(S, m)
    <3>1. p \in Nat /\ m \in Nat /\ \A x \in S : x \in Nat
      BY <1>3, <2>3, ProductsAreNumbers
    <3>2. \A x \in S : x < p <=> x < m \/ x = m
      <4>1. \A x \in S : x < p => x <= m
        BY <2>2 DEF Below
      <4> QED BY <2>3, <3>1, <4>1
    <3>3. ~ (m < m)
      BY <3>1
    <3> QED BY <2>3, <3>2, <3>3 DEF Below
  <2>5. Pos(S, p) = Pos(S, m) + 1
    BY <2>3, <2>4, PosType, FS_AddElement DEF Pos
  <2>6. k <= Pos(S, m)
    BY <1>3, <1>5, <2>3, <2>5, PosType
  <2> QED BY <1>2, <1>3, <2>3, <2>6, ProductsAreNumbers
<1> QED BY <1>4, <1>5

(* What comes at place k or later. *)
Rest(S, k) == {p \in S : k <= Pos(S, p)}

LEMMA RestIsSmall ==
  ASSUME NEW S \in SUBSET Products, NEW k \in Nat, Rest(S, k) # {}
  PROVE  Cardinality(Rest(S, k)) = Cardinality(S) - k
<1>1. PICK q \in S : Pos(S, q) = k
  BY PlaceIsTaken DEF Rest
<1>2. Rest(S, k) = S \ Below(S, q)
  <2>1. ASSUME NEW p \in S
        PROVE  k <= Pos(S, p) <=> ~ (p < q)
    <3>1. p \in Products /\ q \in Products /\ p \in Nat /\ q \in Nat
      BY ProductsAreNumbers
    <3>2. Pos(S, p) \in Nat /\ Pos(S, q) \in Nat
      BY <3>1, PosType
    <3>3. /\ q <= p => Pos(S, q) <= Pos(S, p)
          /\ p < q => Pos(S, p) < Pos(S, q)
      BY <3>1, PosOrder
    <3> QED BY <1>1, <3>1, <3>2, <3>3
  <2> QED BY <2>1 DEF Rest, Below
<1>3. S \cap Below(S, q) = Below(S, q)
  BY DEF Below
<1> QED BY <1>1, <1>2, <1>3, ListingIsFinite, FS_Difference DEF Pos
-----------------------------------------------------------------------------
Typed == TypeOK /\ entered \in Nat /\ left \in Nat

(* What the reader has passed without being given it. *)
Missed(S, kept, given, from) == {p \in kept : given[p] = 0 /\ Pos(S, p) < from}

(* What was given is behind the offset, unless something entered before it. *)
GivenIsBehind ==
  \A p \in Products : seen[p] # 0 => Pos(listing, p) + seen[p] <= offset + entered

ReadInv ==
  /\ Typed
  /\ at # "done" =>
       /\ GivenIsBehind
       /\ Cardinality(Missed(listing, throughout, seen, offset)) <= left
  /\ at = "select" => Cardinality(listing) <= total + entered
  /\ RepeatsAreEntries
  /\ MissesAreChanges

LEMMA MissedType ==
  ASSUME NEW S, NEW kept \in SUBSET Products, NEW given, NEW from
  PROVE  /\ Missed(S, kept, given, from) \in SUBSET Products
         /\ IsFiniteSet(Missed(S, kept, given, from))
         /\ Cardinality(Missed(S, kept, given, from)) \in Nat
<1>1. Missed(S, kept, given, from) \in SUBSET Products
  BY DEF Missed
<1> QED BY <1>1, ListingIsFinite

LEMMA InitRead == Init => ReadInv
<1> SUFFICES ASSUME Init PROVE ReadInv
  OBVIOUS
<1>1. Typed
  BY ListingAssumption DEF Init, Typed, TypeOK, MaxSeen
<1>2. Cardinality(Missed(listing, throughout, seen, offset)) <= left
  <2>1. \A p \in Products : Pos(listing, p) \in Nat
    BY PosType DEF Init
  <2>2. Missed(listing, throughout, seen, offset) = {}
    BY <2>1 DEF Init, Missed
  <2> QED BY <2>2, FS_EmptySet DEF Init
<1>3. GivenIsBehind /\ RepeatsAreEntries /\ MissesAreChanges /\ at = "count"
  BY DEF Init, GivenIsBehind, RepeatsAreEntries, MissesAreChanges
<1> QED BY <1>1, <1>2, <1>3 DEF ReadInv

LEMMA EnterKeeps ==
  ASSUME ReadInv, NEW x \in Products, Enter(x)
  PROVE  ReadInv'
<1>1. Typed'
  BY ListingAssumption DEF ReadInv, Typed, TypeOK, Enter, readerVars
<1>2. /\ listing \in SUBSET Products /\ throughout \in SUBSET Products
      /\ offset \in Nat /\ entered \in Nat /\ left \in Nat /\ total \in Nat
      /\ \A p \in Products : seen[p] \in Nat
  BY ListingAssumption DEF ReadInv, Typed, TypeOK, MaxSeen
<1>3. /\ x \notin listing /\ listing' = listing \cup {x} /\ entered' = entered + 1
      /\ at # "done" /\ UNCHANGED <<reader, at, offset, total, seen, left, throughout>>
  BY DEF Enter, readerVars
<1>4. ASSUME NEW p \in Products
      PROVE  /\ Pos(listing, p) \in Nat
             /\ Pos(listing', p) \in {Pos(listing, p), Pos(listing, p) + 1}
  <2>1. Pos(listing, p) \in Nat
    BY <1>2, PosType
  <2>2. Pos(listing', p) = Pos(listing, p) + (IF x < p THEN 1 ELSE 0)
    BY <1>2, <1>3, PosEnter
  <2> QED BY <2>1, <2>2
<1>5. ASSUME NEW p \in Products, seen[p] # 0
      PROVE  Pos(listing', p) + seen[p] <= offset + entered + 1
  <2>1. Pos(listing, p) + seen[p] <= offset + entered
    BY <1>3, <1>5 DEF ReadInv, GivenIsBehind
  <2> QED BY <1>2, <1>4, <2>1
<1>6. GivenIsBehind'
  BY <1>2, <1>3, <1>5 DEF GivenIsBehind, Pos, Below
<1>7. Cardinality(Missed(listing', throughout, seen, offset)) <= left
  <2>1. Missed(listing', throughout, seen, offset)
          \in SUBSET Missed(listing, throughout, seen, offset)
    <3>1. \A p \in throughout : Pos(listing', p) < offset => Pos(listing, p) < offset
      BY <1>2, <1>4
    <3> QED BY <3>1 DEF Missed
  <2>2. Cardinality(Missed(listing', throughout, seen, offset))
          <= Cardinality(Missed(listing, throughout, seen, offset))
    BY <1>2, <2>1, MissedType, FS_Subset
  <2>3. /\ Cardinality(Missed(listing', throughout, seen, offset)) \in Nat
        /\ Cardinality(Missed(listing, throughout, seen, offset)) \in Nat
    BY <1>2, MissedType
  <2> QED BY <1>2, <1>3, <2>2, <2>3 DEF ReadInv
<1>8. Cardinality(listing') = Cardinality(listing) + 1 /\ Cardinality(listing) \in Nat
  BY <1>2, <1>3, ListingIsFinite, FS_AddElement, ListingAssumption
<1>9. at = "select" => Cardinality(listing') <= total + entered + 1
  BY <1>2, <1>8 DEF ReadInv
<1>10. RepeatsAreEntries'
  BY <1>2, <1>3 DEF ReadInv, RepeatsAreEntries
<1>11. MissesAreChanges'
  BY <1>3 DEF MissesAreChanges
<1>12. Cardinality(Missed(listing, throughout, seen, offset))' <= left'
  BY <1>3, <1>7 DEF Missed, Pos, Below
<1>13. (at = "select" => Cardinality(listing) <= total + entered)'
  BY <1>2, <1>3, <1>9
<1> QED BY <1>1, <1>6, <1>10, <1>11, <1>12, <1>13 DEF ReadInv

LEMMA LeaveKeeps ==
  ASSUME ReadInv, NEW x \in Products, Leave(x)
  PROVE  ReadInv'
<1>1. Typed'
  BY ListingAssumption DEF ReadInv, Typed, TypeOK, Leave, readerVars
<1>2. /\ listing \in SUBSET Products /\ throughout \in SUBSET listing
      /\ throughout \in SUBSET Products
      /\ offset \in Nat /\ entered \in Nat /\ left \in Nat /\ total \in Nat
      /\ \A p \in Products : seen[p] \in Nat
  BY ListingAssumption DEF ReadInv, Typed, TypeOK, MaxSeen
<1>3. /\ x \in listing /\ listing' = listing \ {x} /\ left' = left + 1
      /\ throughout' = throughout \ {x}
      /\ at # "done" /\ UNCHANGED <<reader, at, offset, total, seen, entered>>
  BY DEF Leave, readerVars
<1>4. ASSUME NEW p \in Products
      PROVE  /\ Pos(listing', p) \in Nat
             /\ Pos(listing, p) \in {Pos(listing', p), Pos(listing', p) + 1}
  <2>1. listing' \in SUBSET Products
    BY <1>2, <1>3
  <2> QED BY <1>2, <1>3, <2>1, PosLeave, PosType
<1>5. ASSUME NEW p \in Products, seen[p] # 0
      PROVE  Pos(listing', p) + seen[p] <= offset + entered
  <2>1. Pos(listing, p) + seen[p] <= offset + entered
    BY <1>3, <1>5 DEF ReadInv, GivenIsBehind
  <2> QED BY <1>2, <1>4, <2>1
<1>6. GivenIsBehind'
  BY <1>3, <1>5 DEF GivenIsBehind, Pos, Below
<1> DEFINE before == Missed(listing, throughout, seen, offset)
           after  == Missed(listing', throughout', seen, offset)
<1>7. /\ before \in SUBSET Products /\ IsFiniteSet(before) /\ Cardinality(before) \in Nat
      /\ after \in SUBSET Products /\ IsFiniteSet(after) /\ Cardinality(after) \in Nat
      /\ Cardinality(before) <= left
  <2>1. throughout' \in SUBSET Products
    BY <1>2, <1>3
  <2> QED BY <1>2, <1>3, <2>1, MissedType DEF ReadInv
<1>8. ASSUME NEW p \in after
      PROVE  p \in before \/ (p \in listing /\ Pos(listing, p) = offset)
  <2>1. p \in throughout /\ p \in listing /\ p \in Products
    BY <1>2, <1>3 DEF Missed
  <2>2. seen[p] = 0 /\ Pos(listing', p) < offset
    BY DEF Missed
  <2>3. Pos(listing, p) < offset \/ Pos(listing, p) = offset
    BY <1>2, <1>4, <2>1, <2>2
  <2> QED BY <2>1, <2>2, <2>3 DEF Missed
<1>9. Cardinality(after) <= left + 1
  <2> HIDE DEF before, after
  <2>1. CASE after \subseteq before
    BY <1>2, <1>7, <2>1, FS_Subset
  <2>2. CASE ~ (after \subseteq before)
    <3>1. PICK q \in after : q \in listing /\ Pos(listing, q) = offset
      BY <1>8, <2>2
    <3>2. ASSUME NEW p \in listing, Pos(listing, p) = offset
          PROVE  p = q
      <4>1. p \in Products /\ q \in Products /\ p \in Nat /\ q \in Nat
        BY <1>2, <3>1, ProductsAreNumbers
      <4>2. (p < q => Pos(listing, p) < Pos(listing, q)) /\ (q < p => Pos(listing, q) < Pos(listing, p))
        BY <1>2, <3>1, <4>1, PosOrder
      <4> QED BY <1>2, <3>1, <3>2, <4>1, <4>2
    <3>3. after \in SUBSET (before \cup {q})
      BY <1>8, <3>2
    <3>4. IsFiniteSet(before \cup {q}) /\ Cardinality(before \cup {q}) <= Cardinality(before) + 1
      <4>1. /\ IsFiniteSet(before \cup {q})
            /\ Cardinality(before \cup {q}) =
                 IF q \in before THEN Cardinality(before) ELSE Cardinality(before) + 1
        BY <1>7, FS_AddElement
      <4> QED BY <1>7, <4>1
    <3>5. Cardinality(after) <= Cardinality(before \cup {q})
      BY <3>3, <3>4, FS_Subset
    <3>6. Cardinality(before \cup {q}) \in Nat
      BY <3>4, FS_CardinalityType
    <3> QED BY <1>2, <1>7, <3>4, <3>5, <3>6
  <2> QED BY <2>1, <2>2
<1>10. Cardinality(listing') = Cardinality(listing) - 1 /\ Cardinality(listing) \in Nat
  BY <1>2, <1>3, ListingIsFinite, FS_RemoveElement, ListingAssumption
<1>11. at = "select" => Cardinality(listing') <= total + entered
  BY <1>2, <1>10 DEF ReadInv
<1>12. RepeatsAreEntries'
  BY <1>3 DEF ReadInv, RepeatsAreEntries
<1>13. MissesAreChanges'
  BY <1>3 DEF MissesAreChanges
<1>14. Cardinality(Missed(listing, throughout, seen, offset))' <= left'
  BY <1>3, <1>9 DEF Missed, Pos, Below
<1>15. (at = "select" => Cardinality(listing) <= total + entered)'
  BY <1>3, <1>11
<1> QED BY <1>1, <1>6, <1>12, <1>13, <1>14, <1>15 DEF ReadInv

LEMMA CountKeeps ==
  ASSUME ReadInv, Count
  PROVE  ReadInv'
<1>1. /\ listing \in SUBSET Products /\ throughout \in SUBSET listing
      /\ offset \in Nat /\ entered \in Nat /\ left \in Nat
  BY DEF ReadInv, Typed, TypeOK
<1>2. /\ at = "count" /\ total' = Cardinality(listing)
      /\ at' = IF listing = {} THEN "done" ELSE "select"
      /\ UNCHANGED <<reader, listing, offset, seen, entered, left, throughout>>
  BY DEF Count
<1>3. Cardinality(listing) \in 0 .. NumProducts /\ NumProducts \in Nat
  BY <1>1, ListingIsFinite, ListingAssumption
<1>4. Typed'
  BY <1>2, <1>3 DEF ReadInv, Typed, TypeOK
<1>5. GivenIsBehind'
  BY <1>2 DEF ReadInv, GivenIsBehind, Pos, Below
<1>6. (Cardinality(Missed(listing, throughout, seen, offset)) <= left)'
  BY <1>2 DEF ReadInv, Missed, Pos, Below
<1>7. (at = "select" => Cardinality(listing) <= total + entered)'
  BY <1>1, <1>2, <1>3
<1>8. RepeatsAreEntries'
  BY <1>2 DEF ReadInv, RepeatsAreEntries
<1>9. MissesAreChanges'
  <2>1. ASSUME listing = {}
        PROVE  Cardinality({p \in throughout : seen[p] = 0}) <= entered + left
    <3>1. {p \in throughout : seen[p] = 0} = {}
      BY <1>1, <2>1
    <3> QED BY <1>1, <3>1, FS_EmptySet
  <2> QED BY <1>2, <2>1 DEF MissesAreChanges
<1> QED BY <1>4, <1>5, <1>6, <1>7, <1>8, <1>9 DEF ReadInv

(* The products that hold the places of the page are its items. *)
LEMMA PageIsPlaces ==
  ASSUME listing \in SUBSET Products, offset \in Nat
  PROVE  /\ Page(offset) = {p \in listing : offset <= Pos(listing, p) /\ Pos(listing, p) < offset + Limit}
         /\ Page(offset) \in SUBSET Products
         /\ IsFiniteSet(Page(offset)) /\ Cardinality(Page(offset)) \in Nat
<1>1. ASSUME NEW p \in listing
      PROVE  Cardinality({q \in listing : q < p}) \in offset .. offset + Limit - 1
               <=> offset <= Pos(listing, p) /\ Pos(listing, p) < offset + Limit
  <2>1. Cardinality({q \in listing : q < p}) = Pos(listing, p) /\ Pos(listing, p) \in Nat
    BY PosType DEF Pos, Below
  <2> QED BY <2>1, ListingAssumption
<1>2. Page(offset) = {p \in listing : offset <= Pos(listing, p) /\ Pos(listing, p) < offset + Limit}
  BY <1>1 DEF Page
<1>3. Page(offset) \in SUBSET Products
  BY <1>2
<1> QED BY <1>2, <1>3, ListingIsFinite

(* A reader that stops has few products after its last page. *)
LEMMA LittleIsLeft ==
  ASSUME ReadInv, Select, at' = "done"
  PROVE  Cardinality(Rest(listing, offset + Limit)) <= entered
<1> DEFINE items == Page(offset)
           rest  == Rest(listing, offset + Limit)
<1>1. /\ listing \in SUBSET Products /\ offset \in Nat /\ entered \in Nat /\ total \in Nat
      /\ Limit \in Nat \ {0}
  BY ListingAssumption DEF ReadInv, Typed, TypeOK
<1>2. Cardinality(listing) \in Nat /\ Cardinality(listing) <= total + entered
  BY <1>1, ListingIsFinite, ListingAssumption DEF ReadInv, Select
<1>3. items = {} \/ total <= offset + Limit \/ total <= offset + Cardinality(items)
  <2>1. Cardinality(items) \in Nat
    BY <1>1, PageIsPlaces
  <2>2. ~ SitemapGoesOn(items) \/ ~ HasNext(items)
    BY DEF Select
  <2> HIDE DEF items
  <2> QED BY <1>1, <2>1, <2>2 DEF SitemapGoesOn, HasNext, NextOffset
<1>4. CASE rest = {}
  BY <1>1, <1>4, FS_EmptySet
<1>5. CASE rest # {}
  <2>1. offset + Limit \in Nat
    BY <1>1
  <2>2. Cardinality(rest) = Cardinality(listing) - (offset + Limit)
    BY <1>1, <1>5, <2>1, RestIsSmall
  <2>3. PICK r \in listing : offset + Limit <= Pos(listing, r)
    BY <1>5 DEF Rest
  <2>4. Pos(listing, r) \in Nat
    BY <1>1, PosType
  <2>5. items # {}
    <3>1. PICK q \in listing : Pos(listing, q) = offset
      BY <1>1, <2>3, <2>4, PlaceIsTaken
    <3> QED BY <1>1, <3>1, PageIsPlaces
  <2>6. CASE total <= offset + Limit
    BY <1>1, <1>2, <2>2, <2>6
  <2>7. CASE total <= offset + Cardinality(items)
    <3>1. Rest(listing, offset) # {}
      BY <1>1, <2>3, <2>4 DEF Rest
    <3>2. Cardinality(Rest(listing, offset)) = Cardinality(listing) - offset
      BY <1>1, <3>1, RestIsSmall
    <3>3. Rest(listing, offset) = items \cup rest /\ items \cap rest = {}
      <4>1. \A p \in listing : Pos(listing, p) \in Nat
        BY <1>1, PosType
      <4>2. \A p \in listing :
              /\ offset <= Pos(listing, p) <=>
                   \/ offset <= Pos(listing, p) /\ Pos(listing, p) < offset + Limit
                   \/ offset + Limit <= Pos(listing, p)
              /\ ~ (Pos(listing, p) < offset + Limit /\ offset + Limit <= Pos(listing, p))
        BY <1>1, <4>1
      <4>3. items = {p \in listing : offset <= Pos(listing, p) /\ Pos(listing, p) < offset + Limit}
        BY <1>1, PageIsPlaces
      <4> QED BY <4>2, <4>3 DEF Rest
    <3>4. /\ IsFiniteSet(items) /\ Cardinality(items) \in Nat
          /\ IsFiniteSet(rest) /\ Cardinality(rest) \in Nat
      <4>1. rest \in SUBSET Products
        BY <1>1 DEF Rest
      <4> QED BY <1>1, <4>1, PageIsPlaces, ListingIsFinite
    <3> HIDE DEF items, rest
    <3>5. Cardinality(items \cup rest) = Cardinality(items) + Cardinality(rest)
      <4>1. Cardinality(items \cup rest) =
              Cardinality(items) + Cardinality(rest) - Cardinality(items \cap rest)
        BY <3>4, FS_Union
      <4>2. Cardinality(items \cap rest) = 0
        BY <3>3, FS_EmptySet
      <4> QED BY <3>4, <4>1, <4>2
    <3>6. Cardinality(rest) <= entered
      BY <1>1, <1>2, <2>7, <3>2, <3>3, <3>4, <3>5
    <3> QED BY <3>6 DEF rest
  <2> QED BY <1>3, <2>5, <2>6, <2>7
<1> QED BY <1>4, <1>5

LEMMA SelectKeeps ==
  ASSUME ReadInv, Select
  PROVE  ReadInv'
<1> DEFINE items == Page(offset)
<1>1. /\ listing \in SUBSET Products /\ throughout \in SUBSET listing
      /\ throughout \in SUBSET Products
      /\ offset \in Nat /\ entered \in Nat /\ left \in Nat /\ total \in 0 .. NumProducts
      /\ Limit \in Nat \ {0} /\ MaxSeen \in Nat \ {0} /\ NumProducts \in Nat
      /\ seen \in [Products -> 0 .. MaxSeen]
  BY ListingAssumption DEF ReadInv, Typed, TypeOK, MaxSeen
<1>2. /\ at = "select"
      /\ seen' = [p \in Products |->
                    IF p \in items /\ seen[p] < MaxSeen THEN seen[p] + 1 ELSE seen[p]]
      /\ \/ at' = "count" /\ offset' = offset + Limit
         \/ at' = "done" /\ offset' = offset
      /\ UNCHANGED <<reader, listing, total, entered, left, throughout>>
  BY DEF Select, Give, NextOffset
<1>3. \A p \in Products : Pos(listing, p) \in Nat
  BY <1>1, PosType
<1>4. items = {p \in listing : offset <= Pos(listing, p) /\ Pos(listing, p) < offset + Limit}
  BY <1>1, PageIsPlaces
<1> HIDE DEF items
<1>5. seen' \in [Products -> 0 .. MaxSeen]
  BY <1>1, <1>2
<1>6. Typed'
  <2>1. reader = "sitemap" => offset' <= NumProducts
    <3>1. at' = "count" /\ reader = "sitemap" => offset + Limit < total
      BY DEF Select, SitemapGoesOn, NextOffset
    <3> QED BY <1>1, <1>2, <3>1 DEF ReadInv, Typed, TypeOK
  <2>2. offset' \in Nat /\ at' \in {"count", "done"}
    BY <1>1, <1>2
  <2> QED BY <1>2, <1>5, <2>1, <2>2 DEF ReadInv, Typed, TypeOK
<1>7. ASSUME NEW p \in Products
      PROVE  /\ seen'[p] <= 1 + entered
             /\ seen'[p] # 0 => Pos(listing, p) + seen'[p] <= offset + Limit + entered
  <2>1. /\ seen[p] \in Nat /\ seen[p] <= 1 + entered
        /\ seen[p] # 0 => Pos(listing, p) + seen[p] <= offset + entered
        /\ Pos(listing, p) \in Nat
    BY <1>1, <1>2, <1>3 DEF ReadInv, RepeatsAreEntries, GivenIsBehind
  <2>2. CASE p \in items /\ seen[p] < MaxSeen
    <3>1. offset <= Pos(listing, p) /\ Pos(listing, p) < offset + Limit
      BY <1>4, <2>2
    <3>2. seen'[p] = seen[p] + 1
      BY <1>2, <2>2
    <3> QED BY <1>1, <2>1, <3>1, <3>2
  <2>3. CASE ~ (p \in items /\ seen[p] < MaxSeen)
    <3>1. seen'[p] = seen[p]
      BY <1>2, <2>3
    <3> QED BY <1>1, <2>1, <3>1
  <2> QED BY <2>2, <2>3
<1>8. RepeatsAreEntries'
  BY <1>2, <1>7 DEF RepeatsAreEntries
<1>9. at' = "count" => GivenIsBehind'
  BY <1>2, <1>7 DEF GivenIsBehind, Pos, Below
<1> DEFINE before == Missed(listing, throughout, seen, offset)
           passed == Missed(listing, throughout, seen', offset + Limit)
(* What is not on the page was passed before. *)
<1>10. ASSUME NEW p \in throughout, seen'[p] = 0
       PROVE  seen[p] = 0 /\ (Pos(listing, p) < offset \/ offset + Limit <= Pos(listing, p))
  <2>1. seen[p] \in Nat /\ Pos(listing, p) \in Nat /\ p \in listing /\ p \in Products
    BY <1>1, <1>3
  <2>2. seen[p] = 0 /\ p \notin items
    BY <1>1, <1>2, <1>10, <2>1
  <2> QED BY <1>1, <1>4, <2>1, <2>2
<1>11. /\ IsFiniteSet(before) /\ Cardinality(before) \in Nat /\ Cardinality(before) <= left
       /\ IsFiniteSet(passed) /\ Cardinality(passed) \in Nat
  BY <1>1, <1>2, MissedType DEF ReadInv
<1>12. passed \in SUBSET before
  <2>1. ASSUME NEW p \in passed
        PROVE  p \in before
    <3>1. p \in throughout /\ seen'[p] = 0 /\ Pos(listing, p) < offset + Limit
      BY DEF Missed
    <3>2. Pos(listing, p) \in Nat
      BY <1>1, <1>3, <3>1
    <3> QED BY <1>1, <1>10, <3>1, <3>2 DEF Missed
  <2> QED BY <2>1
<1>13. at' = "count" => Cardinality(Missed(listing, throughout, seen, offset))' <= left'
  <2>1. Cardinality(passed) <= left
    <3> HIDE DEF passed, before
    <3>1. Cardinality(passed) <= Cardinality(before)
      BY <1>11, <1>12, FS_Subset
    <3> QED BY <1>1, <1>11, <3>1
  <2> QED BY <1>2, <2>1 DEF Missed, Pos, Below
<1>14. MissesAreChanges'
  <2> SUFFICES ASSUME at' = "done"
               PROVE  Cardinality({p \in throughout : seen'[p] = 0}) <= entered + left
    BY <1>2 DEF MissesAreChanges
  <2> DEFINE misses == {p \in throughout : seen'[p] = 0}
             rest   == Rest(listing, offset + Limit)
  <2>1. misses \in SUBSET (before \cup rest)
    <3>1. ASSUME NEW p \in misses
          PROVE  p \in before \cup rest
      BY <1>1, <1>10 DEF Missed, Rest
    <3> QED BY <3>1
  <2>2. Cardinality(rest) <= entered
    BY LittleIsLeft
  <2>3. IsFiniteSet(rest) /\ Cardinality(rest) \in Nat
    <3>1. rest \in SUBSET Products
      BY <1>1 DEF Rest
    <3> QED BY <3>1, ListingIsFinite
  <2> HIDE DEF before, rest, misses
  <2>4. /\ IsFiniteSet(before \cup rest)
        /\ Cardinality(before \cup rest) <= Cardinality(before) + Cardinality(rest)
    <3>1. /\ IsFiniteSet(before \cup rest)
          /\ Cardinality(before \cup rest) =
               Cardinality(before) + Cardinality(rest) - Cardinality(before \cap rest)
      BY <1>11, <2>3, FS_Union
    <3>2. Cardinality(before \cap rest) \in Nat
      BY <1>11, FS_Intersection, FS_CardinalityType
    <3> QED BY <1>11, <2>3, <3>1, <3>2
  <2>5. Cardinality(misses) <= Cardinality(before \cup rest)
    BY <2>1, <2>4, FS_Subset
  <2>6. Cardinality(misses) \in Nat /\ Cardinality(before \cup rest) \in Nat
    BY <2>1, <2>4, FS_Subset, FS_CardinalityType
  <2>7. Cardinality(misses) <= entered + left
    BY <1>1, <1>11, <2>2, <2>3, <2>4, <2>5, <2>6
  <2> QED BY <2>7 DEF misses
<1> QED BY <1>2, <1>6, <1>8, <1>9, <1>13, <1>14 DEF ReadInv

LEMMA ReadStep == ReadInv /\ [Next]_vars => ReadInv'
<1> SUFFICES ASSUME ReadInv, [Next]_vars PROVE ReadInv'
  OBVIOUS
<1>1. ASSUME NEW p \in Products, Enter(p) \/ Leave(p)
      PROVE  ReadInv'
  BY <1>1, EnterKeeps, LeaveKeeps
<1>2. CASE Read
  BY <1>2, CountKeeps, SelectKeeps DEF Read
<1>3. CASE UNCHANGED vars
  BY <1>3 DEF ReadInv, Typed, TypeOK, GivenIsBehind, Missed, Pos, Below, RepeatsAreEntries,
              MissesAreChanges, vars, readerVars
<1> QED BY <1>1, <1>2, <1>3 DEF Next

LEMMA ReadAlways == Spec => []ReadInv
  BY InitRead, ReadStep, PTL DEF Spec

(* For any number of products, page size and number of changes: the sitemap
   asks for no page beyond the products there are. *)
THEOREM ListingTypeCorrect == Spec => []TypeOK
<1>1. ReadInv => TypeOK
  BY DEF ReadInv, Typed
<1> QED BY <1>1, ReadAlways, PTL

(* A reader of OFFSET pages is given a product once more for each product that
   enters the listing meanwhile, and no more. *)
THEOREM RepeatsBounded == Spec => []RepeatsAreEntries
<1>1. ReadInv => RepeatsAreEntries
  BY DEF ReadInv
<1> QED BY <1>1, ReadAlways, PTL

(* A reader that is done missed at most one of the products that were there all
   the time for each change of the listing. *)
THEOREM MissesBounded == Spec => []MissesAreChanges
<1>1. ReadInv => MissesAreChanges
  BY DEF ReadInv
<1> QED BY <1>1, ReadAlways, PTL

-----------------------------------------------------------------------------
(* Taxonomy. *)

(* Nothing refers to a row that does not exist. *)
TablesOK ==
  /\ TaxonomyTypeOK
  /\ \A c \in KnownCategories :
       categories[c] \in [parent : KnownCategories \cup {None}, slug : Slugs]
  /\ \A f \in filters : attributes[f.attribute] # None

(* What exists stays as it is. *)
TablesGrow ==
  /\ \A c \in KnownCategories : c \in KnownCategories' /\ categories'[c] = categories[c]
  /\ \A a \in Attributes : attributes[a] # None => attributes'[a] = attributes[a]
  /\ filters \subseteq filters'

FilterRows == [category : Categories, attribute : Attributes, type : FilterTypes]

(* What the category page has read so far. *)
PageOK ==
  /\ request.at = "category" =>
       /\ request.slug \in Slugs
       /\ request.start \subseteq {c \in KnownCategories : categories[c].slug = request.slug}
  /\ request.at = "parent" =>
       request.category \in KnownCategories /\ categories[request.category].parent # None
  /\ request.at \in {"parent", "filters", "form", "shown"} =>
       request.category \in KnownCategories
  /\ request.at \in {"parent", "filters"} =>
       request = [at |-> request.at, category |-> request.category, crumb |-> request.crumb]
  /\ request.at \in {"filters", "form", "shown"} =>
       request.crumb = categories[request.category].parent
  /\ request.at \in {"form", "shown"} =>
       /\ request = [at |-> request.at, category |-> request.category, crumb |-> request.crumb,
                     filters |-> request.filters, fields |-> request.fields]
       /\ request.filters \subseteq filters
  /\ request.at = "not found" => request.start = {}
  /\ request.at = "shown" =>
       \A f \in request.filters :
         Applies(f) /\ attributes[f.attribute] = request.category => f \in request.fields

LEMMA InitTables == TaxonomyInit => TablesOK /\ PageOK
<1> SUFFICES ASSUME TaxonomyInit PROVE TablesOK /\ PageOK
  OBVIOUS
<1> USE DEF TaxonomyInit, KnownCategories, Known
<1>1. TablesOK
  BY DEF TablesOK, TaxonomyTypeOK
<1>2. PageOK
  BY DEF PageOK
<1> QED BY <1>1, <1>2

LEMMA TablesKept ==
  ASSUME TablesOK, UNCHANGED tableVars
  PROVE  TablesOK' /\ TablesGrow
  BY DEF TablesOK, TaxonomyTypeOK, TablesGrow, tableVars, KnownCategories, Known

LEMMA CreateCategoryTables ==
  ASSUME TablesOK, NEW c \in Categories, NEW slug \in Slugs,
         NEW parent \in Categories \cup {None}, CreateCategory(c, parent, slug)
  PROVE  TablesOK' /\ TablesGrow
<1> DEFINE row == [parent |-> parent, slug |-> slug]
<1>1. /\ categories' = [categories EXCEPT ![c] = row]
      /\ UNCHANGED <<attributes, filters>>
      /\ c \notin KnownCategories
      /\ parent \in KnownCategories \cup {None, c}
      /\ row \notin {categories[d] : d \in KnownCategories}
  BY DEF CreateCategory, SlugTaken, KnownCategories
<1>2. row # None
  BY TaxonomyAssumption
<1>3. KnownCategories' = KnownCategories \cup {c}
  BY <1>1, <1>2 DEF TablesOK, TaxonomyTypeOK, KnownCategories, Known
<1>4. /\ categories'[c] = row
      /\ \A d \in KnownCategories : categories'[d] = categories[d]
  BY <1>1 DEF TablesOK, TaxonomyTypeOK, KnownCategories, Known
<1>5. TablesGrow
  BY <1>1, <1>3, <1>4 DEF TablesGrow
<1>6. \A d \in KnownCategories' :
        categories'[d] \in [parent : KnownCategories' \cup {None}, slug : Slugs]
  BY <1>1, <1>3, <1>4 DEF TablesOK
<1>7. categories' \in
        [Categories -> [parent : KnownCategories' \cup {None}, slug : Slugs] \cup {None}]
  BY <1>1, <1>6 DEF TablesOK, TaxonomyTypeOK, KnownCategories, Known
<1>8. \A d, e \in KnownCategories' : categories'[d] = categories'[e] => d = e
  BY <1>1, <1>3, <1>4 DEF TablesOK, TaxonomyTypeOK
<1>9. TaxonomyTypeOK'
  BY <1>1, <1>3, <1>7, <1>8 DEF TablesOK, TaxonomyTypeOK
<1> QED BY <1>1, <1>5, <1>6, <1>9 DEF TablesOK

LEMMA CreateAttributeTables ==
  ASSUME TablesOK, NEW a \in Attributes, NEW c \in Categories, CreateAttribute(a, c)
  PROVE  TablesOK' /\ TablesGrow
<1>1. /\ attributes' = [attributes EXCEPT ![a] = c]
      /\ attributes[a] = None
      /\ c \in KnownCategories
      /\ c # None
      /\ UNCHANGED <<categories, filters>>
  BY TaxonomyAssumption DEF CreateAttribute, KnownCategories
<1>2. KnownCategories' = KnownCategories
  BY <1>1 DEF KnownCategories, Known
<1> QED BY <1>1, <1>2 DEF TablesOK, TaxonomyTypeOK, TablesGrow

LEMMA CreateFilterTables ==
  ASSUME TablesOK, NEW a \in Attributes, NEW c \in Categories, NEW type \in FilterTypes,
         CreateFilter(c, a, type)
  PROVE  TablesOK' /\ TablesGrow
<1> DEFINE f == [category |-> c, attribute |-> a, type |-> type]
<1>1. /\ filters' = filters \cup {f}
      /\ c \in KnownCategories
      /\ attributes[a] # None
      /\ \A g \in filters : <<g.category, g.attribute>> # <<c, a>>
      /\ UNCHANGED <<categories, attributes>>
  BY DEF CreateFilter, FilterAllowed, KnownCategories
<1>2. KnownCategories' = KnownCategories
  BY <1>1 DEF KnownCategories, Known
<1>3. f \in [category : KnownCategories, attribute : Attributes, type : FilterTypes]
  BY <1>1
<1>4. TablesGrow
  BY <1>1, <1>2 DEF TablesGrow
<1>5. TaxonomyTypeOK'
  BY <1>1, <1>2, <1>3 DEF TablesOK, TaxonomyTypeOK
<1> QED BY <1>1, <1>2, <1>4, <1>5 DEF TablesOK

(* No step changes or deletes a row, and the constraints hold after it. *)
LEMMA TablesStep ==
  ASSUME TablesOK, [TaxonomyNext]_taxonomyVars
  PROVE  TablesOK' /\ TablesGrow
<1>1. CASE UNCHANGED tableVars
  BY <1>1, TablesKept
<1>2. ASSUME NEW c \in Categories, NEW slug \in Slugs, NEW parent \in Categories \cup {None},
             CreateCategory(c, parent, slug)
      PROVE  TablesOK' /\ TablesGrow
  BY <1>2, CreateCategoryTables
<1>3. ASSUME NEW a \in Attributes, NEW c \in Categories, CreateAttribute(a, c)
      PROVE  TablesOK' /\ TablesGrow
  BY <1>3, CreateAttributeTables
<1>4. ASSUME NEW a \in Attributes, NEW c \in Categories, NEW type \in FilterTypes,
             CreateFilter(c, a, type)
      PROVE  TablesOK' /\ TablesGrow
  BY <1>4, CreateFilterTables
<1>5. BeginWalk \/ (\E slug \in Slugs : BeginPage(slug)) \/ RequestStep \/ UNCHANGED taxonomyVars
        => UNCHANGED tableVars
  BY DEF BeginWalk, BeginPage, RequestStep, WalkStep, WalkDone, FindCategory, FindParent,
     ListFilters, RenderForm, taxonomyVars
<1> QED BY <1>1, <1>2, <1>3, <1>4, <1>5 DEF TaxonomyNext

-----------------------------------------------------------------------------
(* The page. *)

LEMMA PageKept ==
  ASSUME TablesOK, PageOK, TablesGrow, UNCHANGED request
  PROVE  PageOK'
<1>1. \A f \in filters : attributes'[f.attribute] = attributes[f.attribute]
  BY DEF TablesOK, TaxonomyTypeOK, TablesGrow
<1>2. \A c \in KnownCategories : c \in KnownCategories' /\ categories'[c] = categories[c]
  BY DEF TablesGrow
<1>3. filters \subseteq filters'
  BY DEF TablesGrow
<1> QED BY <1>1, <1>2, <1>3 DEF PageOK

LEMMA BeginPageKeeps ==
  ASSUME TablesOK, NEW slug \in Slugs, BeginPage(slug)
  PROVE  PageOK'
  BY DEF BeginPage, PageOK, tableVars, KnownCategories, Known

LEMMA FindCategoryKeeps ==
  ASSUME TablesOK, PageOK, FindCategory
  PROVE  PageOK'
<1> DEFINE found == {c \in KnownCategories : categories[c].slug = request.slug}
<1>1. request.at = "category" /\ UNCHANGED tableVars
  BY DEF FindCategory
<1>2. CASE found = {} /\ request' = [at |-> "not found", start |-> request.start]
  BY <1>1, <1>2 DEF PageOK
<1>3. ASSUME NEW c \in found,
             request' = [at |-> IF categories[c].parent = None THEN "filters" ELSE "parent",
                         category |-> c, crumb |-> None]
      PROVE  PageOK'
  BY <1>1, <1>3 DEF PageOK, tableVars, KnownCategories, Known
<1> QED BY <1>2, <1>3 DEF FindCategory

LEMMA FindParentKeeps ==
  ASSUME TablesOK, PageOK, FindParent
  PROVE  PageOK'
<1> DEFINE parent == categories[request.category].parent
<1>1. /\ request.at = "parent"
      /\ UNCHANGED tableVars
      /\ request' = [request EXCEPT !.at = "filters",
                                    !.crumb = IF Known(parent) THEN parent ELSE None]
  BY DEF FindParent
<1>2. request.category \in KnownCategories /\ parent \in KnownCategories
  BY <1>1 DEF PageOK, TablesOK
<1>3. Known(parent)
  BY <1>2 DEF KnownCategories
<1>4. request' = [at |-> "filters", category |-> request.category, crumb |-> parent]
  BY <1>1, <1>3 DEF PageOK
<1> QED BY <1>1, <1>2, <1>4 DEF PageOK, tableVars, KnownCategories, Known

LEMMA ListFiltersKeeps ==
  ASSUME TablesOK, PageOK, ListFilters
  PROVE  PageOK'
<1> DEFINE own == {f \in filters : f.category = request.category}
<1>1. /\ request.at = "filters"
      /\ UNCHANGED tableVars
      /\ request' = [at |-> IF own = {} THEN "shown" ELSE "form",
                     category |-> request.category, crumb |-> request.crumb,
                     filters |-> own, fields |-> {}]
  BY DEF ListFilters
<1> QED BY <1>1 DEF PageOK, tableVars, KnownCategories, Known

LEMMA RenderFormKeeps ==
  ASSUME TablesOK, PageOK, RenderForm
  PROVE  PageOK'
<1> DEFINE found == {a \in Attributes : attributes[a] = request.category}
           fields == {f \in request.filters : HasField(f, found)}
<1>1. /\ request.at = "form"
      /\ UNCHANGED tableVars
      /\ request' = [at |-> "shown", category |-> request.category, crumb |-> request.crumb,
                     filters |-> request.filters, fields |-> fields]
  BY DEF RenderForm, PageOK
<1>2. request.filters \subseteq filters
  BY <1>1 DEF PageOK
<1>3. \A f \in filters : f.attribute \in Attributes /\ f.type \in {"price", "options", "text"}
  BY TaxonomyAssumption DEF TablesOK, TaxonomyTypeOK
<1>4. \A f \in request.filters :
        Applies(f) /\ attributes[f.attribute] = request.category => f \in fields
  BY <1>2, <1>3 DEF Applies, HasField
<1> HIDE DEF fields
<1> QED BY <1>1, <1>2, <1>4 DEF PageOK, tableVars, KnownCategories, Known

-----------------------------------------------------------------------------
(* The walk. *)

(* A turn of the loop: the queue is the end of what was listed, the categories
   before it were asked for their children; parents come before children, and
   the children there were at the start are listed. *)
Progress(table, queue, listed, start) ==
  LET done == Len(listed) - Len(queue) IN
  /\ done \in Nat
  /\ \A n \in 1 .. Len(queue) : queue[n] = listed[done + n]
  /\ \A m, n \in 1 .. Len(listed) : listed[m] = listed[n] => m = n
  /\ \A n \in 1 .. Len(listed) :
       table[listed[n]].parent # None =>
         \E m \in 1 .. done : m < n /\ listed[m] = table[listed[n]].parent
  /\ \A c \in start :
       (\/ table[c].parent = None
        \/ \E m \in 1 .. done : listed[m] = table[c].parent)
         => \E n \in 1 .. Len(listed) : listed[n] = c

WalkOK ==
  request.at \in {"walk", "walked"} =>
    /\ request = [at |-> request.at, queue |-> request.queue, listed |-> request.listed,
                  start |-> request.start]
    /\ request.queue \in Seq(Categories \cup {None})
    /\ request.listed \in Seq(KnownCategories)
    /\ request.start \subseteq KnownCategories
    /\ \A c \in request.start : categories[c].parent \in request.start \cup {None}
    /\ request.at = "walked" => request.queue = << >>
    /\ \/ request.queue = <<None>> /\ request.listed = << >>
       \/ Progress(categories, request.queue, request.listed, request.start)

LEMMA ChildrenAreFinite ==
  ASSUME NEW parent
  PROVE  Children(parent) \subseteq KnownCategories /\ IsFiniteSet(Children(parent))
<1>1. Children(parent) \in SUBSET Categories /\ Children(parent) \subseteq KnownCategories
  BY DEF Children, KnownCategories
<1> QED BY <1>1, FS_Subset, TaxonomyAssumption

(* SetToSeqs: every element once, and nothing else. *)
LEMMA SequenceOfSet ==
  ASSUME NEW S, IsFiniteSet(S), NEW s \in SetToSeqs(S)
  PROVE  /\ s \in Seq(S)
         /\ \A m, n \in 1 .. Len(s) : s[m] = s[n] => m = n
         /\ \A x \in S : \E n \in 1 .. Len(s) : s[n] = x
<1> DEFINE D == 1 .. Cardinality(S)
<1>1. Cardinality(S) \in Nat
  BY FS_CardinalityType
<1>2. s \in [D -> S] /\ \A m, n \in D : m # n => s[m] # s[n]
  BY DEF SetToSeqs
<1>3. s \in Seq(S)
  BY <1>1, <1>2, SeqDef
<1>4. Len(s) = Cardinality(S)
  BY <1>1, <1>2, <1>3, LenProperties
<1>5. IsFiniteSet(D) /\ Cardinality(D) = Cardinality(S)
  BY <1>1, FS_Interval
<1>6. s \in Injection(D, S)
  BY <1>2 DEF Injection, IsInjective
<1>7. s \in Surjection(D, S)
  BY <1>5, <1>6, FS_Injection
<1>8. \A x \in S : \E n \in D : s[n] = x
  BY <1>7 DEF Surjection
<1> QED BY <1>2, <1>3, <1>4, <1>8

(* The first turn lists the roots. *)
LEMMA FirstTurn ==
  ASSUME TablesOK, NEW start \in SUBSET KnownCategories,
         \A c \in start : categories[c].parent \in start \cup {None},
         NEW children \in SetToSeqs(Children(None))
  PROVE  Progress(categories, children, children, start) /\ children \in Seq(KnownCategories)
<1>1. /\ children \in Seq(Children(None))
      /\ \A m, n \in 1 .. Len(children) : children[m] = children[n] => m = n
      /\ \A c \in Children(None) : \E n \in 1 .. Len(children) : children[n] = c
  BY ChildrenAreFinite, SequenceOfSet
<1>2. children \in Seq(KnownCategories) /\ Len(children) \in Nat
  BY <1>1, ChildrenAreFinite, SeqMonotonic, LenProperties
<1>3. \A n \in 1 .. Len(children) : categories[children[n]].parent = None
  BY <1>1, ElementOfSeq DEF Children
<1>4. \A c \in start : categories[c].parent = None => c \in Children(None)
  BY DEF Children
<1>5. 1 .. Len(children) - Len(children) = {}
  BY <1>2
<1> QED BY <1>1, <1>2, <1>3, <1>4, <1>5 DEF Progress

(* A later turn takes the next category off the queue and lists its children. *)
LEMMA NextTurn ==
  ASSUME TablesOK, NEW start \in SUBSET KnownCategories,
         NEW queue \in Seq(Categories \cup {None}), queue # << >>,
         NEW listed \in Seq(KnownCategories),
         Progress(categories, queue, listed, start),
         NEW children \in SetToSeqs(Children(Head(queue)))
  PROVE  /\ Progress(categories, Tail(queue) \o children, listed \o children, start)
         /\ Tail(queue) \o children \in Seq(Categories \cup {None})
         /\ listed \o children \in Seq(KnownCategories)
<1> DEFINE done == Len(listed) - Len(queue)
           head == Head(queue)
           longer == listed \o children
           rest == Tail(queue) \o children
<1>1. /\ children \in Seq(Children(head))
      /\ \A m, n \in 1 .. Len(children) : children[m] = children[n] => m = n
      /\ \A c \in Children(head) : \E n \in 1 .. Len(children) : children[n] = c
  BY ChildrenAreFinite, SequenceOfSet
<1>2. /\ children \in Seq(KnownCategories)
      /\ children \in Seq(Categories \cup {None})
      /\ Len(children) \in Nat
  <2>1. KnownCategories \subseteq Categories \cup {None}
    BY DEF KnownCategories
  <2> QED BY <1>1, <2>1, ChildrenAreFinite, SeqMonotonic, LenProperties
<1>3. /\ longer \in Seq(KnownCategories)
      /\ Len(longer) = Len(listed) + Len(children)
      /\ \A n \in 1 .. Len(listed) : longer[n] = listed[n]
      /\ \A n \in 1 .. Len(children) : longer[Len(listed) + n] = children[n]
      /\ Len(listed) \in Nat
      /\ \A n \in 1 .. Len(listed) : listed[n] \in KnownCategories
  BY <1>2, ConcatProperties, LenProperties, ElementOfSeq
<1>4. /\ Tail(queue) \in Seq(Categories \cup {None})
      /\ Len(queue) \in Nat \ {0}
      /\ Len(Tail(queue)) = Len(queue) - 1
      /\ \A n \in 1 .. Len(queue) - 1 : Tail(queue)[n] = queue[n + 1]
      /\ head = queue[1]
  BY HeadTailProperties, EmptySeq
<1>5. /\ rest \in Seq(Categories \cup {None})
      /\ Len(rest) = Len(queue) - 1 + Len(children)
      /\ \A n \in 1 .. Len(rest) :
           rest[n] = IF n <= Len(queue) - 1 THEN queue[n + 1]
                                            ELSE children[n - (Len(queue) - 1)]
  BY <1>2, <1>4, ConcatProperties
<1>6. /\ done \in Nat
      /\ \A n \in 1 .. Len(queue) : queue[n] = listed[done + n]
      /\ \A m, n \in 1 .. Len(listed) : listed[m] = listed[n] => m = n
      /\ \A n \in 1 .. Len(listed) :
           categories[listed[n]].parent # None =>
             \E m \in 1 .. done : m < n /\ listed[m] = categories[listed[n]].parent
      /\ \A c \in start :
           (\/ categories[c].parent = None
            \/ \E m \in 1 .. done : listed[m] = categories[c].parent)
             => \E n \in 1 .. Len(listed) : listed[n] = c
  BY DEF Progress
<1>7. done + 1 \in 1 .. Len(listed) /\ head = listed[done + 1]
  BY <1>3, <1>4, <1>6
<1>8. done = Len(listed) - Len(queue)
  OBVIOUS
<1> HIDE DEF done, head, longer, rest
<1>20. head \in KnownCategories /\ head # None
  BY <1>3, <1>7, TaxonomyAssumption DEF KnownCategories
<1>9. \A n \in 1 .. Len(children) :
        children[n] \in KnownCategories /\ categories[children[n]].parent = head
  BY <1>1, <1>2, ElementOfSeq DEF Children
<1>10. \A m \in 1 .. Len(listed) : \A n \in 1 .. Len(children) : listed[m] # children[n]
  <2> SUFFICES ASSUME NEW m \in 1 .. Len(listed), NEW n \in 1 .. Len(children),
                      listed[m] = children[n]
               PROVE  FALSE
    OBVIOUS
  <2>1. categories[listed[m]].parent = listed[done + 1]
    BY <1>7, <1>9
  <2>2. PICK k \in 1 .. done : listed[k] = listed[done + 1]
    BY <1>6, <1>7, <1>20, <2>1
  <2>3. k \in 1 .. Len(listed) /\ k # done + 1
    BY <1>3, <1>6, <1>7
  <2> QED BY <1>6, <1>7, <2>2, <2>3
<1>11. Len(longer) - Len(rest) = done + 1
  BY <1>2, <1>3, <1>4, <1>5, <1>6, <1>8
<1>12. \A n \in 1 .. Len(rest) : rest[n] = longer[done + 1 + n]
  <2> SUFFICES ASSUME NEW n \in 1 .. Len(rest) PROVE rest[n] = longer[done + 1 + n]
    OBVIOUS
  <2>1. CASE n <= Len(queue) - 1
    <3>1. n + 1 \in 1 .. Len(queue) /\ done + (n + 1) \in 1 .. Len(listed)
      BY <1>3, <1>4, <1>5, <1>6, <1>8, <2>1
    <3>2. rest[n] = listed[done + (n + 1)]
      BY <1>5, <1>6, <2>1, <3>1
    <3> QED BY <1>3, <1>4, <1>6, <1>8, <3>1, <3>2
  <2>2. CASE n > Len(queue) - 1
    <3>1. PICK k \in 1 .. Len(children) : n = Len(queue) - 1 + k
      <4>1. n - (Len(queue) - 1) \in 1 .. Len(children)
        BY <1>2, <1>4, <1>5, <2>2
      <4> QED BY <1>4, <4>1
    <3>2. rest[n] = children[k]
      <4>1. n - (Len(queue) - 1) = k
        BY <1>4, <3>1
      <4>2. ~ (n <= Len(queue) - 1)
        BY <1>4, <2>2
      <4>3. rest[n] = children[n - (Len(queue) - 1)]
        BY <1>5, <4>2
      <4> QED BY <4>1, <4>3
    <3>3. done + 1 + n = Len(listed) + k
      BY <1>3, <1>4, <1>8, <3>1
    <3> QED BY <1>3, <3>2, <3>3
  <2> QED BY <1>2, <1>4, <1>5, <2>1, <2>2
<1>13. \A n \in 1 .. Len(longer) :
         \/ n \in 1 .. Len(listed)
         \/ /\ n - Len(listed) \in 1 .. Len(children)
            /\ longer[n] = children[n - Len(listed)]
  <2> SUFFICES ASSUME NEW n \in 1 .. Len(longer), ~ (n \in 1 .. Len(listed))
               PROVE  /\ n - Len(listed) \in 1 .. Len(children)
                      /\ longer[n] = children[n - Len(listed)]
    OBVIOUS
  <2>1. n - Len(listed) \in 1 .. Len(children)
    BY <1>2, <1>3
  <2>2. Len(listed) + (n - Len(listed)) = n
    BY <1>3
  <2> QED BY <1>3, <2>1, <2>2
<1>14. \A m, n \in 1 .. Len(longer) : longer[m] = longer[n] => m = n
  <2> SUFFICES ASSUME NEW m \in 1 .. Len(longer), NEW n \in 1 .. Len(longer),
                      longer[m] = longer[n]
               PROVE  m = n
    OBVIOUS
  <2>1. CASE m \in 1 .. Len(listed) /\ n \in 1 .. Len(listed)
    BY <1>3, <1>6, <2>1
  <2>2. CASE m - Len(listed) \in 1 .. Len(children) /\ n - Len(listed) \in 1 .. Len(children)
    <3>1. longer[m] = children[m - Len(listed)] /\ longer[n] = children[n - Len(listed)]
      BY <1>2, <1>3, <1>13, <2>2
    <3>2. m - Len(listed) = n - Len(listed)
      BY <1>1, <2>2, <3>1
    <3> QED BY <1>3, <3>2
  <2>3. CASE m \in 1 .. Len(listed) /\ n - Len(listed) \in 1 .. Len(children)
    <3>1. longer[m] = listed[m] /\ longer[n] = children[n - Len(listed)]
      BY <1>2, <1>3, <1>13, <2>3
    <3> QED BY <1>10, <2>3, <3>1
  <2>4. CASE n \in 1 .. Len(listed) /\ m - Len(listed) \in 1 .. Len(children)
    <3>1. longer[n] = listed[n] /\ longer[m] = children[m - Len(listed)]
      BY <1>2, <1>3, <1>13, <2>4
    <3> QED BY <1>10, <2>4, <3>1
  <2> QED BY <1>13, <2>1, <2>2, <2>3, <2>4
<1>15. \A n \in 1 .. Len(longer) :
         categories[longer[n]].parent # None =>
           \E m \in 1 .. done + 1 : m < n /\ longer[m] = categories[longer[n]].parent
  <2> SUFFICES ASSUME NEW n \in 1 .. Len(longer), categories[longer[n]].parent # None
               PROVE  \E m \in 1 .. done + 1 :
                        m < n /\ longer[m] = categories[longer[n]].parent
    OBVIOUS
  <2>1. CASE n \in 1 .. Len(listed)
    <3>1. PICK m \in 1 .. done : m < n /\ listed[m] = categories[listed[n]].parent
      BY <1>3, <1>6, <2>1
    <3>2. m \in 1 .. done + 1 /\ m \in 1 .. Len(listed)
      BY <1>3, <1>6, <1>7
    <3> QED BY <1>3, <2>1, <3>1, <3>2
  <2>2. CASE n - Len(listed) \in 1 .. Len(children) /\ longer[n] = children[n - Len(listed)]
    <3>1. categories[longer[n]].parent = longer[done + 1]
      BY <1>3, <1>7, <1>9, <2>2
    <3>2. done + 1 < n /\ done + 1 \in 1 .. done + 1
      BY <1>3, <1>6, <1>7, <2>2
    <3> QED BY <3>1, <3>2
  <2> QED BY <1>13, <2>1, <2>2
<1>16. \A c \in start :
         (\/ categories[c].parent = None
          \/ \E m \in 1 .. done + 1 : longer[m] = categories[c].parent)
           => \E n \in 1 .. Len(longer) : longer[n] = c
  <2> SUFFICES ASSUME NEW c \in start,
                      \/ categories[c].parent = None
                      \/ \E m \in 1 .. done + 1 : longer[m] = categories[c].parent
               PROVE  \E n \in 1 .. Len(longer) : longer[n] = c
    OBVIOUS
  <2>1. ASSUME NEW n \in 1 .. Len(listed), listed[n] = c
        PROVE  \E k \in 1 .. Len(longer) : longer[k] = c
    <3>1. n \in 1 .. Len(longer) /\ longer[n] = c
      BY <1>2, <1>3, <2>1
    <3> QED BY <3>1
  <2>2. CASE categories[c].parent = head
    <3>1. c \in Children(head)
      BY <2>2 DEF Children
    <3>2. PICK n \in 1 .. Len(children) : children[n] = c
      BY <1>1, <3>1
    <3>3. Len(listed) + n \in 1 .. Len(longer) /\ longer[Len(listed) + n] = c
      BY <1>2, <1>3, <3>2
    <3> QED BY <3>3
  <2>3. CASE categories[c].parent = None
    BY <1>6, <2>1, <2>3
  <2>4. ASSUME NEW m \in 1 .. done, longer[m] = categories[c].parent
        PROVE  \E n \in 1 .. Len(longer) : longer[n] = c
    <3>1. listed[m] = categories[c].parent
      BY <1>3, <1>6, <1>7, <2>4
    <3> QED BY <1>6, <2>1, <3>1
  <2>5. longer[done + 1] = head
    BY <1>3, <1>7
  <2>6. \A m \in 1 .. done + 1 : m \in 1 .. done \/ m = done + 1
    BY <1>6
  <2> QED BY <2>2, <2>3, <2>4, <2>5, <2>6
<1>17. Progress(categories, rest, longer, start)
  <2> DEFINE turned == Len(longer) - Len(rest)
  <2>1. turned = done + 1
    BY <1>11
  <2>2. turned \in Nat
    BY <1>6, <2>1
  <2>3. \A n \in 1 .. Len(rest) : rest[n] = longer[turned + n]
    BY <1>12, <2>1
  <2>4. \A n \in 1 .. Len(longer) :
          categories[longer[n]].parent # None =>
            \E m \in 1 .. turned : m < n /\ longer[m] = categories[longer[n]].parent
    BY <1>15, <2>1
  <2>5. \A c \in start :
          (\/ categories[c].parent = None
           \/ \E m \in 1 .. turned : longer[m] = categories[c].parent)
            => \E n \in 1 .. Len(longer) : longer[n] = c
    BY <1>16, <2>1
  <2> QED BY <1>14, <2>2, <2>3, <2>4, <2>5, Zenon DEF Progress
<1> QED BY <1>3, <1>5, <1>17 DEF longer, rest, head

(* Only the rows of categories that exist matter to it. *)
LEMMA ProgressKept ==
  ASSUME NEW table, NEW newer, NEW known, \A c \in known : newer[c] = table[c],
         NEW queue, NEW listed \in Seq(known), NEW start \in SUBSET known,
         Progress(table, queue, listed, start)
  PROVE  Progress(newer, queue, listed, start)
<1> DEFINE done == Len(listed) - Len(queue)
<1>1. \A n \in 1 .. Len(listed) : newer[listed[n]] = table[listed[n]]
  BY ElementOfSeq
<1>2. \A c \in start : newer[c] = table[c]
  OBVIOUS
<1>3. \A n \in 1 .. Len(listed) :
        newer[listed[n]].parent # None =>
          \E m \in 1 .. done : m < n /\ listed[m] = newer[listed[n]].parent
  <2>1. \A n \in 1 .. Len(listed) :
          table[listed[n]].parent # None =>
            \E m \in 1 .. done : m < n /\ listed[m] = table[listed[n]].parent
    BY DEF Progress
  <2> HIDE DEF done
  <2> QED BY <1>1, <2>1
<1>4. \A c \in start :
        (\/ newer[c].parent = None
         \/ \E m \in 1 .. done : listed[m] = newer[c].parent)
          => \E n \in 1 .. Len(listed) : listed[n] = c
  BY <1>2, Zenon DEF Progress
<1> QED BY <1>3, <1>4, Zenon DEF Progress

LEMMA WalkKept ==
  ASSUME TablesOK, WalkOK, TablesGrow, UNCHANGED request
  PROVE  WalkOK'
<1> SUFFICES ASSUME request.at \in {"walk", "walked"} PROVE WalkOK'
  BY DEF WalkOK
<1>1. \A c \in KnownCategories : c \in KnownCategories' /\ categories'[c] = categories[c]
  BY DEF TablesGrow
<1>2. /\ request.listed \in Seq(KnownCategories)
      /\ request.start \subseteq KnownCategories
      /\ \A n \in 1 .. Len(request.listed) : request.listed[n] \in KnownCategories
  BY ElementOfSeq DEF WalkOK
<1>3. request.listed \in Seq(KnownCategories')
  BY <1>1, <1>2, SeqMonotonic
<1>4. Progress(categories, request.queue, request.listed, request.start)
        => Progress(categories', request.queue, request.listed, request.start)
  BY <1>1, <1>2, ProgressKept
<1>5. \A c \in request.start : categories'[c] = categories[c]
  BY <1>1, <1>2
<1> QED BY <1>1, <1>2, <1>3, <1>4, <1>5 DEF WalkOK

LEMMA BeginWalkKeeps ==
  ASSUME TablesOK, BeginWalk
  PROVE  WalkOK'
<1>1. /\ request' = [at |-> "walk", queue |-> <<None>>, listed |-> << >>,
                     start |-> KnownCategories]
      /\ UNCHANGED categories
  BY DEF BeginWalk, tableVars
<1>2. <<None>> \in Seq(Categories \cup {None}) /\ << >> \in Seq(KnownCategories)
  OBVIOUS
<1>3. KnownCategories' = KnownCategories
  BY <1>1 DEF KnownCategories, Known
<1>4. \A c \in KnownCategories : categories[c].parent \in KnownCategories \cup {None}
  BY DEF TablesOK
<1> QED BY <1>1, <1>2, <1>3, <1>4 DEF WalkOK

LEMMA WalkStepKeeps ==
  ASSUME TablesOK, WalkOK, WalkStep
  PROVE  WalkOK'
<1> DEFINE queue == request.queue
           listed == request.listed
           start == request.start
<1>1. /\ request.at = "walk"
      /\ queue # << >>
      /\ UNCHANGED categories
  BY DEF WalkStep, tableVars
<1>2. PICK children \in SetToSeqs(Children(Head(queue))) :
        request' = [request EXCEPT !.queue = Tail(queue) \o children,
                                   !.listed = listed \o children]
  BY DEF WalkStep, Requeue
<1>3. /\ request = [at |-> "walk", queue |-> queue, listed |-> listed, start |-> start]
      /\ queue \in Seq(Categories \cup {None})
      /\ listed \in Seq(KnownCategories)
      /\ start \in SUBSET KnownCategories
      /\ \A c \in start : categories[c].parent \in start \cup {None}
      /\ (queue = <<None>> /\ listed = << >>) \/ Progress(categories, queue, listed, start)
  BY <1>1 DEF WalkOK
<1>4. request' = [at |-> "walk", queue |-> Tail(queue) \o children,
                  listed |-> listed \o children, start |-> start]
  <2> DEFINE q == Tail(queue) \o children
             l == listed \o children
             queued == [request EXCEPT !.queue = q]
  <2>1. request = [at |-> "walk", queue |-> queue, listed |-> listed, start |-> start]
    BY <1>3
  <2>2. request' = [queued EXCEPT !.listed = l]
    BY <1>2
  <2> HIDE DEF queue, listed, start, q, l
  <2>3. queued = [at |-> "walk", queue |-> q, listed |-> listed, start |-> start]
    BY <2>1
  <2> HIDE DEF queued
  <2>4. request' = [at |-> "walk", queue |-> q, listed |-> l, start |-> start]
    BY <2>2, <2>3
  <2> QED BY <2>4 DEF q, l
<1>5. KnownCategories' = KnownCategories
  BY <1>1 DEF KnownCategories, Known
<1>6. /\ Tail(queue) \o children \in Seq(Categories \cup {None})
      /\ listed \o children \in Seq(KnownCategories)
      /\ Progress(categories, Tail(queue) \o children, listed \o children, start)
  <2>1. CASE queue = <<None>> /\ listed = << >>
    <3>1. children \in SetToSeqs(Children(None))
      BY <1>2, <2>1
    <3>2. Progress(categories, children, children, start) /\ children \in Seq(KnownCategories)
      BY <1>3, <3>1, FirstTurn
    <3>3. children \in Seq(Categories \cup {None})
      <4>1. KnownCategories \subseteq Categories \cup {None}
        BY DEF KnownCategories
      <4> QED BY <3>2, <4>1, SeqMonotonic
    <3>4. Tail(queue) = << >> /\ listed = << >>
      BY <2>1
    <3>5. Tail(queue) \o children = children /\ listed \o children = children
      BY <3>2, <3>4, ConcatEmptySeq
    <3> QED BY <3>2, <3>3, <3>5
  <2>2. CASE Progress(categories, queue, listed, start)
    BY <1>1, <1>2, <1>3, <2>2, NextTurn
  <2> QED BY <1>3, <2>1, <2>2
<1> QED BY <1>1, <1>3, <1>4, <1>5, <1>6 DEF WalkOK

LEMMA WalkDoneKeeps ==
  ASSUME TablesOK, WalkOK, WalkDone
  PROVE  WalkOK'
<1>1. /\ request.at = "walk"
      /\ request.queue = << >>
      /\ UNCHANGED categories
      /\ request' = [request EXCEPT !.at = "walked"]
  BY DEF WalkDone, tableVars
<1>2. request' = [at |-> "walked", queue |-> request.queue, listed |-> request.listed,
                  start |-> request.start]
  BY <1>1 DEF WalkOK
<1>3. KnownCategories' = KnownCategories
  BY <1>1 DEF KnownCategories, Known
<1> QED BY <1>1, <1>2, <1>3 DEF WalkOK

(* The tables and whatever request there is. *)
TaxonomyInv == TablesOK /\ PageOK /\ WalkOK

LEMMA RequestStepKeeps ==
  ASSUME TaxonomyInv, [TaxonomyNext]_taxonomyVars
  PROVE  PageOK' /\ WalkOK'
<1>0. TablesOK /\ PageOK /\ WalkOK
  BY DEF TaxonomyInv
<1>1. TablesGrow
  BY <1>0, TablesStep
<1>2. CASE UNCHANGED request
  BY <1>0, <1>1, <1>2, PageKept, WalkKept
<1>3. CASE BeginWalk \/ WalkStep \/ WalkDone
  <2>1. WalkOK'
    BY <1>0, <1>3, BeginWalkKeeps, WalkStepKeeps, WalkDoneKeeps
  <2>2. request'.at \in {"walk", "walked"}
    <3>1. CASE BeginWalk
      BY <3>1 DEF BeginWalk
    <3>2. CASE WalkStep
      <4>1. \A q, l : [request EXCEPT !.queue = q, !.listed = l].at = "walk"
        BY <1>0, <3>2 DEF WalkStep, WalkOK
      <4> QED BY <3>2, <4>1 DEF WalkStep
    <3>3. CASE WalkDone
      BY <1>0, <3>3 DEF WalkDone, WalkOK
    <3> QED BY <1>3, <3>1, <3>2, <3>3
  <2> QED BY <2>1, <2>2 DEF PageOK
<1>4. ASSUME NEW slug \in Slugs, BeginPage(slug)
      PROVE  PageOK' /\ WalkOK'
  <2>1. request'.at = "category"
    BY <1>4 DEF BeginPage
  <2> QED BY <1>0, <1>4, <2>1, BeginPageKeeps DEF WalkOK
<1>5. CASE FindCategory \/ FindParent \/ ListFilters \/ RenderForm
  <2>1. PageOK'
    BY <1>0, <1>5, FindCategoryKeeps, FindParentKeeps, ListFiltersKeeps, RenderFormKeeps
  <2>2. request'.at \notin {"walk", "walked"}
    <3>1. CASE FindCategory
      <4>1. ASSUME NEW c, request' = [at |-> IF categories[c].parent = None
                                               THEN "filters" ELSE "parent",
                                      category |-> c, crumb |-> None]
            PROVE  request'.at \notin {"walk", "walked"}
        BY <4>1
      <4>2. ASSUME request' = [at |-> "not found", start |-> request.start]
            PROVE  request'.at \notin {"walk", "walked"}
        BY <4>2
      <4> QED BY <3>1, <4>1, <4>2 DEF FindCategory
    <3>2. CASE FindParent
      <4>1. request = [at |-> "parent", category |-> request.category, crumb |-> request.crumb]
        BY <1>0, <3>2 DEF FindParent, PageOK
      <4>2. \A x : [request EXCEPT !.at = "filters", !.crumb = x].at = "filters"
        BY <4>1
      <4> QED BY <3>2, <4>2 DEF FindParent
    <3>3. CASE ListFilters
      BY <3>3 DEF ListFilters
    <3>4. CASE RenderForm
      <4>1. request = [at |-> "form", category |-> request.category, crumb |-> request.crumb,
                       filters |-> request.filters, fields |-> request.fields]
        BY <1>0, <3>4 DEF RenderForm, PageOK
      <4>2. \A x : [request EXCEPT !.at = "shown", !.fields = x].at = "shown"
        BY <4>1
      <4> QED BY <3>4, <4>2 DEF RenderForm
    <3> QED BY <1>5, <3>1, <3>2, <3>3, <3>4
  <2> QED BY <2>1, <2>2 DEF WalkOK
<1>6. ASSUME NEW c \in Categories, NEW slug \in Slugs, NEW parent \in Categories \cup {None},
             CreateCategory(c, parent, slug)
      PROVE  UNCHANGED request
  BY <1>6 DEF CreateCategory
<1>7. ASSUME NEW a \in Attributes, NEW c \in Categories,
             CreateAttribute(a, c) \/ \E type \in FilterTypes : CreateFilter(c, a, type)
      PROVE  UNCHANGED request
  BY <1>7 DEF CreateAttribute, CreateFilter
<1> QED BY <1>2, <1>3, <1>4, <1>5, <1>6, <1>7 DEF TaxonomyNext, RequestStep, taxonomyVars

LEMMA TaxonomyInvariant == TaxonomySpec => []TaxonomyInv
<1>1. TaxonomyInit => TaxonomyInv
  BY InitTables DEF TaxonomyInv, TaxonomyInit, WalkOK
<1>2. TaxonomyInv /\ [TaxonomyNext]_taxonomyVars => TaxonomyInv'
  BY TablesStep, RequestStepKeeps DEF TaxonomyInv
<1> QED BY <1>1, <1>2, PTL DEF TaxonomySpec

(* What hung on a root when the walk began is listed when it is done: the
   listed categories, and those that are newer than the walk, are closed under
   taking children. *)
LEMMA WalkIsComplete ==
  ASSUME TablesOK, WalkOK, request.at = "walked"
  PROVE  TreeIsListedOnce
<1> DEFINE listed == request.listed
           start == request.start
<1>1. /\ request.queue = << >>
      /\ listed \in Seq(KnownCategories)
      /\ start \subseteq KnownCategories
      /\ \A c \in start : categories[c].parent \in start \cup {None}
      /\ Progress(categories, << >>, listed, start)
  BY DEF WalkOK
<1>2. Len(listed) \in Nat /\ DOMAIN listed = 1 .. Len(listed)
  BY <1>1, LenProperties
<1>3. Len(listed) - Len(<< >>) = Len(listed)
  BY <1>2
<1>4. /\ \A m, n \in 1 .. Len(listed) : listed[m] = listed[n] => m = n
      /\ \A n \in 1 .. Len(listed) :
           categories[listed[n]].parent # None =>
             \E m \in 1 .. Len(listed) : m < n /\ listed[m] = categories[listed[n]].parent
      /\ \A c \in start :
           (\/ categories[c].parent = None
            \/ \E m \in 1 .. Len(listed) : listed[m] = categories[c].parent)
             => \E n \in 1 .. Len(listed) : listed[n] = c
  BY <1>1, <1>3 DEF Progress
<1>5. IsInjective(listed)
  BY <1>2, <1>4 DEF IsInjective
<1>6. ASSUME NEW c \in start, c \in Rooted
      PROVE  c \in ToSet(listed)
  <2> DEFINE S == {d \in KnownCategories : d \in start => \E n \in 1 .. Len(listed) : listed[n] = d}
  <2>1. ASSUME NEW d \in KnownCategories, categories[d].parent \in S \cup {None}
        PROVE  d \in S
    <3>1. CASE d \notin start
      BY <3>1
    <3>2. CASE d \in start /\ categories[d].parent = None
      BY <1>4, <3>2
    <3>3. CASE d \in start /\ categories[d].parent # None
      <4>1. categories[d].parent \in S /\ categories[d].parent \in start
        BY <1>1, <2>1, <3>3
      <4> QED BY <1>4, <3>3, <4>1
    <3> QED BY <3>1, <3>2, <3>3
  <2>2. S \in SUBSET KnownCategories
    OBVIOUS
  <2>3. c \in S
    BY <1>6, <2>1, <2>2, Zenon DEF Rooted
  <2> QED BY <1>2, <1>6, <2>3 DEF ToSet
<1>7. ASSUME NEW n \in DOMAIN listed, categories[listed[n]].parent # None
      PROVE  \E m \in 1 .. n - 1 : listed[m] = categories[listed[n]].parent
  <2>1. PICK m \in 1 .. Len(listed) : m < n /\ listed[m] = categories[listed[n]].parent
    BY <1>2, <1>4, <1>7
  <2>2. m \in 1 .. n - 1
    BY <1>2, <2>1
  <2> QED BY <2>1, <2>2
<1> QED BY <1>5, <1>6, <1>7 DEF TreeIsListedOnce

(* repository.rs and the constraints of 0002_taxonomy.sql: types, foreign keys
   and the unique slugs of siblings, under any sequence of writes and reads. *)
THEOREM TaxonomyTypeCorrect == TaxonomySpec => []TaxonomyTypeOK
<1>1. TaxonomyInv => TaxonomyTypeOK
  BY DEF TaxonomyInv, TablesOK
<1> QED BY <1>1, TaxonomyInvariant, PTL

(* category.rs: a category that was there is found, its breadcrumb is its
   parent, and every filter the search applies has its field, although the page
   is put together from five queries. *)
THEOREM CategoryPageIsWhole == TaxonomySpec => []PageIsWhole
<1>1. TaxonomyInv => PageIsWhole
  BY DEF TaxonomyInv, PageOK, PageIsWhole
<1> QED BY <1>1, TaxonomyInvariant, PTL

(* sitemap.rs: the walk lists what hung on a root when it began, everything
   once and parents first, for any tree and whatever is created meanwhile. *)
THEOREM SitemapListsTheTree == TaxonomySpec => []TreeIsListedOnce
<1>1. TaxonomyInv => TreeIsListedOnce
  BY WalkIsComplete DEF TaxonomyInv, TreeIsListedOnce
<1> QED BY <1>1, TaxonomyInvariant, PTL
=============================================================================
