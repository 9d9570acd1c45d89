-------------------------- MODULE OrderRepo_proofs --------------------------
(***************************************************************************)
(* Theorems about OrderRepo: the types and keys of orders.db, totals that  *)
(* add up, readers that see rows that fit together, and the refinement of  *)
(* OrderBook.  A transaction that runs is described by its shape: what it  *)
(* has done to the tables since it began and what is left to do.           *)
(***************************************************************************)
EXTENDS OrderRepo, FiniteSetTheorems, SequenceTheorems, TLAPS

(* Some finite sets have one that includes none of the others. *)
LEMMA LeastSet ==
  ASSUME NEW S, IsFiniteSet(S), NEW some \in SUBSET SUBSET S, some # {}
  PROVE  \E T \in some : \A U \in some : U \subseteq T => U = T
<1>1. some \subseteq FiniteSubsetsOf(S)
  BY FS_Subset DEF FiniteSubsetsOf
<1>2. PICK T \in some : \A U \in some : ~ (<<U, T>> \in StrictSubsetOrdering(S))
  BY <1>1, FS_StrictSubsetOrderingWellFounded, WFMin, Zenon
<1>3. ASSUME NEW U \in some, U \subseteq T, U # T
      PROVE  FALSE
  <2>1. <<U, T>> \in StrictSubsetOrdering(S)
    BY <1>3, Zenon DEF StrictSubsetOrdering
  <2> QED BY <1>2, <2>1
<1> QED BY <1>3

(* A set of naturals that is not empty has a least element. *)
LEMMA LeastNat ==
  ASSUME NEW N \in SUBSET Nat, N # {}
  PROVE  \E m \in N : \A k \in N : m <= k
<1>1. PICK n \in N : TRUE
  OBVIOUS
<1> DEFINE below == {1 .. k : k \in {i \in N : i <= n}}
<1>2. IsFiniteSet(1 .. n) /\ below \in SUBSET SUBSET (1 .. n) /\ below # {}
  <2>1. \A k \in Nat : k <= n => 1 .. k \subseteq 1 .. n
    OBVIOUS
  <2>2. IsFiniteSet(1 .. n)
    BY FS_Interval
  <2> QED BY <1>1, <2>1, <2>2
<1>3. PICK T \in below : \A U \in below : U \subseteq T => U = T
  <2> HIDE DEF below
  <2>1. PICK S : S = 1 .. n
    OBVIOUS
  <2>2. IsFiniteSet(S) /\ below \in SUBSET SUBSET S /\ below # {}
    BY <1>2, <2>1
  <2> QED BY <2>2, LeastSet
<1>4. PICK m \in N : m <= n /\ T = 1 .. m
  OBVIOUS
<1>5. ASSUME NEW k \in N, k < m
      PROVE  FALSE
  <2>1. 1 .. k \in below /\ 1 .. k \subseteq T
    BY <1>4, <1>5
  <2>2. 1 .. k = 1 .. m
    BY <1>3, <1>4, <2>1
  <2>3. m \in 1 .. m /\ m \notin 1 .. k
    BY <1>5
  <2> QED BY <2>2, <2>3
<1> QED BY <1>4, <1>5

(* The sum SQL computes over the items of an order is well defined. *)
Unfolds(iter, S, price) ==
  iter = [s \in SUBSET S |->
            IF s = {} THEN 0
            ELSE price[CHOOSE x \in s : TRUE] + iter[s \ {CHOOSE x \in s : TRUE}]]

(* The recursion of the fold over the items has a solution. *)
LEMMA SumExists ==
  ASSUME NEW S, IsFiniteSet(S), NEW price \in [S -> Nat]
  PROVE  \E iter : Unfolds(iter, S, price)
<1> DEFINE pick(s) == CHOOSE x \in s : TRUE
           upTo(n) == {s \in SUBSET S : Cardinality(s) <= n}
           Sums(g, n) == /\ g \in [upTo(n) -> Nat]
                         /\ \A s \in upTo(n) :
                              g[s] = IF s = {} THEN 0 ELSE price[pick(s)] + g[s \ {pick(s)}]
           bad == {n \in Nat : ~ \E g : Sums(g, n)}
<1>1. \A s \in SUBSET S : IsFiniteSet(s) /\ Cardinality(s) \in Nat /\ Cardinality(s) <= Cardinality(S)
  BY FS_Subset, FS_CardinalityType
<1>2. \A s \in SUBSET S : s # {} =>
        /\ pick(s) \in s /\ s \ {pick(s)} \in SUBSET S
        /\ Cardinality(s \ {pick(s)}) = Cardinality(s) - 1
  BY <1>1, FS_RemoveElement
<1>3. \A s \in SUBSET S : Cardinality(s) <= 0 <=> s = {}
  BY <1>1, FS_EmptySet
<1> HIDE DEF pick
<1>4. bad = {}
  <2> SUFFICES ASSUME bad # {} PROVE FALSE
    OBVIOUS
  <2>1. PICK m \in bad : \A k \in bad : m <= k
    BY LeastNat
  <2>2. CASE m = 0
    <3>1. Sums([s \in upTo(0) |-> 0], 0)
      BY <1>3
    <3> QED BY <2>1, <2>2, <3>1
  <2>3. CASE m # 0
    <3>1. m - 1 \in Nat /\ m - 1 \notin bad
      <4>1. m \in Nat
        BY <2>1
      <4> HIDE DEF bad
      <4> QED BY <2>1, <2>3, <4>1
    <3>2. PICK g : Sums(g, m - 1)
      BY <3>1
    <3> DEFINE h == [s \in upTo(m) |-> IF s = {} THEN 0 ELSE price[pick(s)] + g[s \ {pick(s)}]]
    <3>3. \A s \in upTo(m) : s # {} => s \ {pick(s)} \in upTo(m - 1) /\ s \ {pick(s)} \in upTo(m)
      <4> SUFFICES ASSUME NEW s \in SUBSET S, Cardinality(s) <= m, s # {}
                   PROVE  s \ {pick(s)} \in upTo(m - 1) /\ s \ {pick(s)} \in upTo(m)
        OBVIOUS
      <4>1. /\ s \ {pick(s)} \in SUBSET S
            /\ Cardinality(s \ {pick(s)}) = Cardinality(s) - 1 /\ Cardinality(s) \in Nat
        BY <1>1, <1>2
      <4>2. m \in Nat
        BY <2>1
      <4>3. Cardinality(s \ {pick(s)}) <= m - 1 /\ Cardinality(s \ {pick(s)}) <= m
        BY <4>1, <4>2
      <4> QED BY <4>1, <4>3
    <3>4. \A s \in upTo(m - 1) : s \in upTo(m) /\ h[s] = g[s]
      <4> SUFFICES ASSUME NEW s \in upTo(m - 1) PROVE s \in upTo(m) /\ h[s] = g[s]
        OBVIOUS
      <4>1. s \in SUBSET S /\ Cardinality(s) \in Nat /\ Cardinality(s) <= m - 1 /\ m \in Nat
        BY <1>1, <2>1
      <4>2. s \in upTo(m)
        BY <4>1
      <4>3. g[s] = IF s = {} THEN 0 ELSE price[pick(s)] + g[s \ {pick(s)}]
        BY <3>2
      <4> HIDE DEF upTo
      <4> QED BY <4>2, <4>3
    <3>5. \A s \in upTo(m) : h[s] = IF s = {} THEN 0 ELSE price[pick(s)] + h[s \ {pick(s)}]
      BY <3>3, <3>4
    <3>6. h \in [upTo(m) -> Nat]
      BY <1>2, <3>2, <3>3
    <3>7. Sums(h, m)
      BY <3>5, <3>6
    <3> QED BY <2>1, <3>7
  <2> QED BY <2>2, <2>3
<1>5. PICK g : Sums(g, Cardinality(S))
  BY <1>1, <1>4
<1>6. upTo(Cardinality(S)) = SUBSET S
  BY <1>1
<1>7. g = [s \in SUBSET S |-> IF s = {} THEN 0 ELSE price[pick(s)] + g[s \ {pick(s)}]]
  BY <1>5, <1>6
<1> QED BY <1>7 DEF Unfolds, pick

(* Every solution of that recursion is a natural number. *)
LEMMA SumType ==
  ASSUME NEW S, IsFiniteSet(S), NEW price \in [S -> Nat], NEW iter, Unfolds(iter, S, price)
  PROVE  iter[S] \in Nat /\ (S = {} => iter[S] = 0)
<1> DEFINE pick(s) == CHOOSE x \in s : TRUE
           bad == {s \in SUBSET S : iter[s] \notin Nat}
<1>1. \A s \in SUBSET S : iter[s] = IF s = {} THEN 0 ELSE price[pick(s)] + iter[s \ {pick(s)}]
  BY DEF Unfolds
<1>2. \A s \in SUBSET S : s # {} => pick(s) \in s
  OBVIOUS
<1> HIDE DEF pick
<1>3. bad = {}
  <2> SUFFICES ASSUME bad # {} PROVE FALSE
    OBVIOUS
  <2>1. PICK s \in bad : \A u \in bad : u \subseteq s => u = s
    <3>1. bad \in SUBSET SUBSET S
      OBVIOUS
    <3> HIDE DEF bad
    <3> QED BY <3>1, LeastSet
  <2>2. s # {} /\ pick(s) \in s
    <3>1. s \in SUBSET S /\ iter[s] \notin Nat
      BY <2>1
    <3>2. s # {}
      BY <1>1, <3>1
    <3> QED BY <1>2, <3>1, <3>2
  <2>3. iter[s \ {pick(s)}] \in Nat
    BY <2>1, <2>2
  <2> QED BY <1>1, <2>2, <2>3
<1> QED BY <1>1, <1>3

(* SUM is a natural number, and 0 if there are no rows. *)
LEMMA SumOfItems ==
  ASSUME NEW items \in Seq(Items)
  PROVE  SumOf(items) \in Nat /\ (items = << >> => SumOf(items) = 0)
<1> DEFINE S == DOMAIN items
           price == [n \in S |-> PriceOf(items[n])]
           iter == CHOOSE iter : iter = [s \in SUBSET S |->
                     IF s = {} THEN 0
                     ELSE PriceOf(items[CHOOSE x \in s : TRUE])
                            + iter[s \ {CHOOSE x \in s : TRUE}]]
<1>1. SumOf(items) = iter[S]
  BY Zenon DEF SumOf, FoldSeq, FoldFunction, FoldFunctionOnSet, MapThenFoldSet
<1>2. IsFiniteSet(S) /\ price \in [S -> Nat]
  BY FS_Interval, OrderAssumption
<1>3. \E g : g = [s \in SUBSET S |->
                     IF s = {} THEN 0
                     ELSE PriceOf(items[CHOOSE x \in s : TRUE])
                            + g[s \ {CHOOSE x \in s : TRUE}]]
  <2>1. PICK g : Unfolds(g, S, price)
    <3> HIDE DEF price, S
    <3> QED BY <1>2, SumExists
  <2>2. \A s \in SUBSET S : s # {} =>
          price[CHOOSE x \in s : TRUE] = PriceOf(items[CHOOSE x \in s : TRUE])
    OBVIOUS
  <2>3. \A s \in SUBSET S :
          (IF s = {} THEN 0
           ELSE PriceOf(items[CHOOSE x \in s : TRUE]) + g[s \ {CHOOSE x \in s : TRUE}])
          = (IF s = {} THEN 0
             ELSE price[CHOOSE x \in s : TRUE] + g[s \ {CHOOSE x \in s : TRUE}])
    BY <2>2
  <2> HIDE DEF price, S
  <2>4. g = [s \in SUBSET S |->
               IF s = {} THEN 0
               ELSE PriceOf(items[CHOOSE x \in s : TRUE]) + g[s \ {CHOOSE x \in s : TRUE}]]
    BY <2>1, <2>3 DEF Unfolds
  <2> QED BY <2>4
<1>4. iter = [s \in SUBSET S |->
                IF s = {} THEN 0
                ELSE PriceOf(items[CHOOSE x \in s : TRUE]) + iter[s \ {CHOOSE x \in s : TRUE}]]
  BY <1>3
<1> HIDE DEF iter
<1>5. Unfolds(iter, S, price)
  <2>1. \A s \in SUBSET S : s # {} =>
          price[CHOOSE x \in s : TRUE] = PriceOf(items[CHOOSE x \in s : TRUE])
    OBVIOUS
  <2>2. \A s \in SUBSET S :
          (IF s = {} THEN 0
           ELSE PriceOf(items[CHOOSE x \in s : TRUE]) + iter[s \ {CHOOSE x \in s : TRUE}])
          = (IF s = {} THEN 0
             ELSE price[CHOOSE x \in s : TRUE] + iter[s \ {CHOOSE x \in s : TRUE}])
    BY <2>1
  <2> HIDE DEF price, S
  <2> QED BY <1>4, <2>2 DEF Unfolds
<1>6. items = << >> => S = {}
  OBVIOUS
<1> HIDE DEF S, price
<1> QED BY <1>1, <1>2, <1>5, <1>6, SumType

Row == [currency : Currencies, total : 0 .. MaxTotal]

Tables == [orders : [Orders -> Row \cup {None}], items : [Orders -> Seq(Items)],
           contacts : SUBSET Orders, outbox : Seq(Orders)]

(* What the schema keeps of any tables, between any two statements. *)
TablesOK(tables) ==
  /\ tables \in Tables
  /\ \A o \in Orders : tables.orders[o] = None =>
       tables.items[o] = << >> /\ o \notin tables.contacts
  /\ \A o, p \in Orders : \A m \in DOMAIN tables.items[o], n \in DOMAIN tables.items[p] :
       tables.items[o][m] = tables.items[p][n] => o = p /\ m = n

-----------------------------------------------------------------------------
(* What each statement does. *)
LEMMA OrderInserted ==
  ASSUME NEW tables, TablesOK(tables), NEW o \in Orders, NEW currency \in Currencies,
         ~ Refused(InsertOrder(o, currency), tables),
         NEW after, after = Result(InsertOrder(o, currency), tables),
         NEW row, row = [currency |-> currency, total |-> 0]
  PROVE  /\ TablesOK(after)
         /\ tables.orders[o] = None
         /\ after.orders = [tables.orders EXCEPT ![o] = row]
         /\ after.items = tables.items /\ after.contacts = tables.contacts
         /\ after.outbox = tables.outbox
<1>1. tables.orders[o] = None
  BY DEF Refused, InsertOrder
<1>2. /\ after = [tables EXCEPT !.orders[o] = row]
      /\ tables \in Tables
  BY DEF Result, InsertOrder, TablesOK
<1>3. row \in Row /\ row # None
  BY OrderAssumption DEF Row
<1>4. /\ after.orders = [tables.orders EXCEPT ![o] = row]
      /\ after.items = tables.items /\ after.contacts = tables.contacts
      /\ after.outbox = tables.outbox /\ after \in Tables
  <2>1. after = [orders |-> [tables.orders EXCEPT ![o] = row], items |-> tables.items,
                 contacts |-> tables.contacts, outbox |-> tables.outbox]
    BY <1>2 DEF Tables
  <2>2. [tables.orders EXCEPT ![o] = row] \in [Orders -> Row \cup {None}]
    BY <1>2, <1>3 DEF Tables
  <2> QED BY <1>2, <2>1, <2>2 DEF Tables
<1>5. \A p \in Orders : after.orders[p] = None => tables.orders[p] = None
  BY <1>2, <1>3, <1>4 DEF Tables
<1> QED BY <1>1, <1>4, <1>5 DEF TablesOK

(* INSERT INTO order_items: the next item of an order that exists, under a new id. *)
LEMMA ItemInserted ==
  ASSUME NEW tables, TablesOK(tables), NEW o \in Orders, NEW i \in Items,
         ~ Refused(InsertItem(o, i), tables),
         NEW after, after = Result(InsertItem(o, i), tables)
  PROVE  /\ TablesOK(after)
         /\ tables.orders[o] # None /\ i \notin ItemIds(tables)
         /\ after.items = [tables.items EXCEPT ![o] = Append(@, i)]
         /\ after.orders = tables.orders /\ after.contacts = tables.contacts
         /\ after.outbox = tables.outbox
<1>1. tables.orders[o] # None /\ i \notin ItemIds(tables)
  BY DEF Refused, InsertItem
<1>2. /\ after = [tables EXCEPT !.items[o] = Append(@, i)]
      /\ tables \in Tables
  BY DEF Result, InsertItem, TablesOK
<1>3. /\ after.items = [tables.items EXCEPT ![o] = Append(@, i)]
      /\ after.orders = tables.orders /\ after.contacts = tables.contacts
      /\ after.outbox = tables.outbox /\ after \in Tables
  <2>1. after = [orders |-> tables.orders, items |-> [tables.items EXCEPT ![o] = Append(@, i)],
                 contacts |-> tables.contacts, outbox |-> tables.outbox]
    BY <1>2 DEF Tables
  <2>2. [tables.items EXCEPT ![o] = Append(@, i)] \in [Orders -> Seq(Items)]
    BY <1>2 DEF Tables
  <2> QED BY <1>2, <2>1, <2>2 DEF Tables
<1>4. \A p \in Orders : \A n \in DOMAIN tables.items[p] : tables.items[p][n] # i
  BY <1>1 DEF ItemIds, ToSet
<1>5. \A p \in Orders : tables.items[p] \in Seq(Items)
  BY <1>2 DEF Tables
<1>6. /\ after.items[o] = Append(tables.items[o], i)
      /\ \A p \in Orders : p # o => after.items[p] = tables.items[p]
  BY <1>2, <1>3 DEF Tables
<1>7. /\ DOMAIN after.items[o] = DOMAIN tables.items[o] \cup {Len(tables.items[o]) + 1}
      /\ \A n \in DOMAIN tables.items[o] : after.items[o][n] = tables.items[o][n]
      /\ after.items[o][Len(tables.items[o]) + 1] = i
  BY <1>5, <1>6
<1>8. ASSUME NEW p \in Orders, NEW q \in Orders,
             NEW m \in DOMAIN after.items[p], NEW n \in DOMAIN after.items[q],
             after.items[p][m] = after.items[q][n]
      PROVE  p = q /\ m = n
  <2>1. \/ m \in DOMAIN tables.items[p] /\ after.items[p][m] = tables.items[p][m]
        \/ p = o /\ m = Len(tables.items[o]) + 1 /\ after.items[p][m] = i
    BY <1>6, <1>7
  <2>2. \/ n \in DOMAIN tables.items[q] /\ after.items[q][n] = tables.items[q][n]
        \/ q = o /\ n = Len(tables.items[o]) + 1 /\ after.items[q][n] = i
    BY <1>6, <1>7
  <2> QED BY <1>4, <1>8, <2>1, <2>2 DEF TablesOK
<1>9. \A p \in Orders : after.orders[p] = None =>
        after.items[p] = << >> /\ p \notin after.contacts
  BY <1>1, <1>3, <1>6 DEF TablesOK
<1> QED BY <1>1, <1>3, <1>8, <1>9 DEF TablesOK

(* UPDATE orders SET total = the sum, which did not overflow. *)
LEMMA TotalUpdated ==
  ASSUME NEW tables, TablesOK(tables), NEW o \in Orders, tables.orders[o] # None,
         ~ Refused(UpdateTotal(o), tables),
         NEW after, after = Result(UpdateTotal(o), tables),
         NEW row, row = [currency |-> tables.orders[o].currency, total |-> SumOf(tables.items[o])]
  PROVE  /\ TablesOK(after)
         /\ SumOf(tables.items[o]) \in 0 .. MaxTotal
         /\ after.orders = [tables.orders EXCEPT ![o] = row]
         /\ after.items = tables.items /\ after.contacts = tables.contacts
         /\ after.outbox = tables.outbox
<1> DEFINE sum == SumOf(tables.items[o])
<1>1. tables \in Tables /\ tables.items[o] \in Seq(Items) /\ tables.orders[o] \in Row
  BY DEF TablesOK, Tables
<1>2. sum \in Nat
  BY <1>1, SumOfItems
<1>3. ~ (sum > MaxTotal)
  BY DEF Refused, UpdateTotal
<1>4. sum \in 0 .. MaxTotal
  BY <1>2, <1>3, OrderAssumption
<1>5. after = [tables EXCEPT !.orders[o].total = sum]
  BY DEF Result, UpdateTotal
<1> HIDE DEF sum
<1>6. [tables.orders[o] EXCEPT !.total = sum] = row
  BY <1>1 DEF Row, sum
<1>7. row \in Row /\ row # None
  BY <1>1, <1>4, OrderAssumption DEF Row, sum
<1>8. after.orders = [tables.orders EXCEPT ![o] = [tables.orders[o] EXCEPT !.total = sum]]
  BY <1>1, <1>5 DEF Tables
<1>9. /\ after.items = tables.items /\ after.contacts = tables.contacts
      /\ after.outbox = tables.outbox
      /\ after = [orders |-> after.orders, items |-> tables.items,
                  contacts |-> tables.contacts, outbox |-> tables.outbox]
  BY <1>1, <1>5 DEF Tables
<1>10. after.orders = [tables.orders EXCEPT ![o] = row]
  BY <1>6, <1>8
<1>11. after.orders \in [Orders -> Row \cup {None}]
  BY <1>1, <1>7, <1>10 DEF Tables
<1>12. after \in Tables
  BY <1>1, <1>9, <1>11 DEF Tables
<1>13. \A p \in Orders : after.orders[p] = None => tables.orders[p] = None
  BY <1>1, <1>7, <1>10 DEF Tables
<1> QED BY <1>4, <1>9, <1>10, <1>12, <1>13 DEF TablesOK, sum

(* INSERT INTO order_contacts, for an order that exists. *)
LEMMA ContactInserted ==
  ASSUME NEW tables, TablesOK(tables), NEW o \in Orders, tables.orders[o] # None,
         NEW after, after = Result(InsertContact(o), tables)
  PROVE  /\ TablesOK(after)
         /\ after.contacts = tables.contacts \cup {o}
         /\ after.orders = tables.orders /\ after.items = tables.items
         /\ after.outbox = tables.outbox
<1>1. after = [tables EXCEPT !.contacts = @ \cup {o}] /\ tables \in Tables
  BY DEF Result, InsertContact, TablesOK
<1>2. /\ after.contacts = tables.contacts \cup {o}
      /\ after.orders = tables.orders /\ after.items = tables.items
      /\ after.outbox = tables.outbox /\ after \in Tables
  BY <1>1 DEF Tables
<1> QED BY <1>2 DEF TablesOK

(* INSERT INTO outbox. *)
LEMMA Enqueued ==
  ASSUME NEW tables, TablesOK(tables), NEW o \in Orders,
         NEW after, after = Result(Enqueue(o), tables)
  PROVE  /\ TablesOK(after)
         /\ after.outbox = Append(tables.outbox, o)
         /\ after.orders = tables.orders /\ after.items = tables.items
         /\ after.contacts = tables.contacts
<1>1. after = [tables EXCEPT !.outbox = Append(@, o)] /\ tables \in Tables
  BY DEF Result, Enqueue, TablesOK
<1>2. /\ after.outbox = Append(tables.outbox, o)
      /\ after.orders = tables.orders /\ after.items = tables.items
      /\ after.contacts = tables.contacts /\ after \in Tables
  <2>1. after = [orders |-> tables.orders, items |-> tables.items,
                 contacts |-> tables.contacts, outbox |-> Append(tables.outbox, o)]
    BY <1>1 DEF Tables
  <2>2. Append(tables.outbox, o) \in Seq(Orders)
    BY <1>1 DEF Tables
  <2> QED BY <1>1, <2>1, <2>2 DEF Tables
<1> QED BY <1>2 DEF TablesOK

(* The statements a write can send. *)
Statement ==
  [sql : {"insert order"}, order : Orders, currency : Currencies]
  \cup [sql : {"insert item"}, order : Orders, id : Items]
  \cup [sql : {"update total", "insert contact", "enqueue"}, order : Orders]

(* What a checkout has left to do while items are to be inserted. *)
IsPlan(todo, o, rest, contact) ==
  /\ todo \in Seq(Statement)
  /\ Len(todo) = Len(rest) + (IF contact THEN 3 ELSE 2)
  /\ \A n \in 1 .. Len(rest) : todo[n] = InsertItem(o, rest[n])
  /\ todo[Len(rest) + 1] = UpdateTotal(o)
  /\ contact => todo[Len(rest) + 2] = InsertContact(o)
  /\ todo[Len(todo)] = Enqueue(o)

(* What the writes send are statements. *)
LEMMA Statements ==
  ASSUME NEW o \in Orders
  PROVE  /\ \A currency \in Currencies : InsertOrder(o, currency) \in Statement
         /\ \A i \in Items : InsertItem(o, i) \in Statement
         /\ UpdateTotal(o) \in Statement /\ InsertContact(o) \in Statement
         /\ Enqueue(o) \in Statement
  BY DEF Statement, InsertOrder, InsertItem, UpdateTotal, InsertContact, Enqueue

(* Sequences, named so that a proof can speak of their parts. *)
Joins(j, s, t) == j = s \o t

Plan(j, x, s, y, t, z) == j = <<x>> \o s \o <<y>> \o t \o <<z>>

Follows(j, t, k, l) == \A n \in 1 .. l : j[k + n] = t[n]

Laid(j, x, s, k, y, t, l, z) ==
  /\ Len(j) = k + l + 3 /\ j[1] = x
  /\ \A n \in 1 .. k : j[n + 1] = s[n]
  /\ j[k + 2] = y
  /\ \A n \in 1 .. l : j[k + 2 + n] = t[n]
  /\ j[k + l + 3] = z

(* The statements of s, then those of t. *)
LEMMA Joined ==
  ASSUME NEW S, NEW s \in Seq(S), NEW t \in Seq(S), NEW j, Joins(j, s, t),
         NEW k \in Nat, k = Len(s), NEW l \in Nat, l = Len(t)
  PROVE  /\ j \in Seq(S) /\ Len(j) = k + l
         /\ \A n \in 1 .. k : j[n] = s[n]
         /\ Follows(j, t, k, l)
  BY DEF Joins, Follows

(* One more statement at the end. *)
LEMMA Followed ==
  ASSUME NEW S, NEW s \in Seq(S), NEW x \in S, NEW j, j = s \o <<x>>
  PROVE  /\ j \in Seq(S) /\ Len(j) = Len(s) + 1
         /\ \A n \in 1 .. Len(s) : j[n] = s[n]
         /\ j[Len(s) + 1] = x
  OBVIOUS

(* One statement before the others. *)
LEMMA Preceded ==
  ASSUME NEW S, NEW s \in Seq(S), NEW x \in S, NEW j, j = <<x>> \o s
  PROVE  /\ j \in Seq(S) /\ Len(j) = Len(s) + 1
         /\ \A n \in 1 .. Len(s) : j[n + 1] = s[n]
         /\ j[1] = x
  OBVIOUS

(* All statements but the first. *)
LEMMA Tailed ==
  ASSUME NEW S, NEW s \in Seq(S), Len(s) > 0, NEW j, j = Tail(s)
  PROVE  /\ j \in Seq(S) /\ Len(j) = Len(s) - 1
         /\ \A n \in 1 .. Len(s) - 1 : j[n] = s[n + 1]
         /\ Head(s) = s[1] /\ s # << >>
  OBVIOUS

(* Where each statement is in a plan of five parts. *)
LEMMA InFive ==
  ASSUME NEW S, NEW x \in S, NEW s \in Seq(S), NEW y \in S, NEW t \in Seq(S), NEW z \in S,
         NEW k \in Nat, k = Len(s), NEW l \in Nat, l = Len(t),
         NEW j, Plan(j, x, s, y, t, z)
  PROVE  j \in Seq(S) /\ Laid(j, x, s, k, y, t, l, z)
<1> DEFINE a == <<x>> \o s
           b == a \o <<y>>
           c == b \o t
           d == c \o <<z>>
<1>1. j = d
  BY DEF Plan
<1>2. /\ a \in Seq(S) /\ Len(a) = k + 1 /\ a[1] = x
      /\ \A n \in 1 .. k : a[n + 1] = s[n]
  BY Preceded
<1> HIDE DEF a
<1>3. /\ b \in Seq(S) /\ Len(b) = Len(a) + 1 /\ b[Len(a) + 1] = y
      /\ \A n \in 1 .. Len(a) : b[n] = a[n]
  BY <1>2, Followed
<1> HIDE DEF b
<1>0. Joins(c, b, t)
  BY DEF Joins
<1> HIDE DEF c
<1>4. /\ c \in Seq(S) /\ Len(c) = k + 2 + l
      /\ \A n \in 1 .. k + 2 : c[n] = b[n]
      /\ Follows(c, t, k + 2, l)
  <2>1. PICK p \in Nat : p = k + 2 /\ p = Len(b)
    BY <1>2, <1>3
  <2>2. /\ c \in Seq(S) /\ Len(c) = p + l
        /\ \A n \in 1 .. p : c[n] = b[n]
        /\ Follows(c, t, p, l)
    BY <1>0, <1>3, <2>1, Joined
  <2> QED BY <2>1, <2>2
<1>5. /\ d \in Seq(S) /\ Len(d) = Len(c) + 1 /\ d[Len(c) + 1] = z
      /\ \A n \in 1 .. Len(c) : d[n] = c[n]
  BY <1>4, Followed
<1> HIDE DEF d
<1>6. Len(a) = k + 1 /\ Len(b) = k + 2 /\ Len(c) = k + l + 2 /\ Len(d) = k + l + 3
  BY <1>2, <1>3, <1>4, <1>5
<1>7. d[1] = x /\ d[k + 2] = y /\ d[k + l + 3] = z
  <2>1. /\ 1 \in 1 .. Len(a) /\ 1 \in 1 .. Len(b) /\ 1 \in 1 .. Len(c)
        /\ 1 \in 1 .. k + 2 /\ k + 2 \in 1 .. k + 2
        /\ k + 2 \in 1 .. Len(b) /\ k + 2 \in 1 .. Len(c)
        /\ Len(a) + 1 = k + 2 /\ Len(c) + 1 = k + l + 3
    BY <1>6
  <2> QED BY <1>2, <1>3, <1>4, <1>5, <2>1
<1>8. ASSUME NEW n \in 1 .. k
      PROVE  d[n + 1] = s[n]
  <2>1. /\ n + 1 \in 1 .. Len(a) /\ n + 1 \in 1 .. Len(b) /\ n + 1 \in 1 .. Len(c)
        /\ n + 1 \in 1 .. k + 2
    BY <1>6
  <2> QED BY <1>2, <1>3, <1>4, <1>5, <2>1
<1>9. ASSUME NEW n \in 1 .. l
      PROVE  d[k + 2 + n] = t[n]
  <2>1. k + 2 + n \in 1 .. Len(c)
    BY <1>6
  <2> QED BY <1>4, <1>5, <2>1 DEF Follows
<1> QED BY <1>1, <1>5, <1>6, <1>7, <1>8, <1>9 DEF Laid

(* Behind its first statement, what a checkout sends is a plan of its items. *)
LEMMA Opened ==
  ASSUME NEW o \in Orders, NEW rest \in Seq(Items), NEW contact \in BOOLEAN,
         NEW io \in Statement, NEW ii \in Seq(Statement), NEW cc \in Seq(Statement),
         Len(ii) = Len(rest), \A n \in 1 .. Len(rest) : ii[n] = InsertItem(o, rest[n]),
         Len(cc) = (IF contact THEN 1 ELSE 0), contact => cc[1] = InsertContact(o),
         NEW todo, Plan(todo, io, ii, UpdateTotal(o), cc, Enqueue(o))
  PROVE  todo # << >> /\ Head(todo) = io /\ IsPlan(Tail(todo), o, rest, contact)
<1>1. PICK ut, ic, eq \in Statement :
        ut = UpdateTotal(o) /\ ic = InsertContact(o) /\ eq = Enqueue(o)
  BY Statements
<1>2. PICK k \in Nat : k = Len(rest) /\ k = Len(ii)
  OBVIOUS
<1>3. PICK l \in Nat : l = Len(cc) /\ l = IF contact THEN 1 ELSE 0
  OBVIOUS
<1>4. Plan(todo, io, ii, ut, cc, eq)
  BY <1>1
<1>5. /\ todo \in Seq(Statement) /\ Len(todo) = k + l + 3 /\ todo[1] = io
      /\ \A n \in 1 .. k : todo[n + 1] = ii[n]
      /\ todo[k + 2] = ut
      /\ \A n \in 1 .. l : todo[k + 2 + n] = cc[n]
      /\ todo[k + l + 3] = eq
  <2>1. todo \in Seq(Statement) /\ Laid(todo, io, ii, k, ut, cc, l, eq)
    BY <1>2, <1>3, <1>4, InFive
  <2> QED BY <2>1 DEF Laid
<1> DEFINE tail == Tail(todo)
<1>6. /\ tail \in Seq(Statement) /\ Len(tail) = Len(todo) - 1
      /\ \A n \in 1 .. Len(todo) - 1 : tail[n] = todo[n + 1]
      /\ Head(todo) = todo[1] /\ todo # << >>
  <2>1. Len(todo) > 0
    BY <1>5
  <2> QED BY <1>5, <2>1, Tailed
<1> HIDE DEF tail
<1>7. Len(tail) = k + l + 2 /\ Len(todo) - 1 = k + l + 2
  BY <1>5, <1>6
<1>8. ASSUME NEW n \in 1 .. k
      PROVE  tail[n] = InsertItem(o, rest[n])
  <2>1. n \in 1 .. Len(todo) - 1 /\ n \in 1 .. Len(rest)
    BY <1>2, <1>7
  <2> QED BY <1>5, <1>6, <2>1
<1>9. tail[k + 1] = ut
  <2>1. k + 1 \in 1 .. Len(todo) - 1 /\ (k + 1) + 1 = k + 2
    BY <1>7
  <2> QED BY <1>5, <1>6, <2>1
<1>10. ASSUME contact
       PROVE  tail[k + 2] = ic
  <2>1. k + 2 \in 1 .. Len(todo) - 1 /\ (k + 2) + 1 = k + 2 + 1 /\ 1 \in 1 .. l
    BY <1>3, <1>7, <1>10
  <2> QED BY <1>1, <1>5, <1>6, <1>10, <2>1
<1>11. tail[Len(tail)] = eq
  <2>1. Len(tail) \in 1 .. Len(todo) - 1 /\ Len(tail) + 1 = k + l + 3
    BY <1>7
  <2> QED BY <1>5, <1>6, <2>1
<1>12. Len(tail) = k + (IF contact THEN 3 ELSE 2)
  BY <1>3, <1>7
<1>13. IsPlan(tail, o, rest, contact)
  BY <1>1, <1>2, <1>6, <1>8, <1>9, <1>10, <1>11, <1>12 DEF IsPlan
<1> QED BY <1>5, <1>6, <1>13 DEF tail

CheckoutPlan(o, currency, items, contact) ==
  <<InsertOrder(o, currency)>>
  \o [n \in DOMAIN items |-> InsertItem(o, items[n])]
  \o <<UpdateTotal(o)>>
  \o (IF contact THEN <<InsertContact(o)>> ELSE << >>)
  \o <<Enqueue(o)>>

(* The statements of checkout are the order, then a plan of its items. *)
LEMMA PlanOfCheckout ==
  ASSUME NEW o \in Orders, NEW currency \in Currencies, NEW items \in Seq(Items),
         NEW contact \in BOOLEAN, NEW todo,
         todo = CheckoutPlan(o, currency, items, contact)
  PROVE  /\ todo # << >> /\ Head(todo) = InsertOrder(o, currency)
         /\ IsPlan(Tail(todo), o, items, contact)
<1> DEFINE io == InsertOrder(o, currency)
           ii == [n \in DOMAIN items |-> InsertItem(o, items[n])]
           cc == IF contact THEN <<InsertContact(o)>> ELSE << >>
<1>1. io \in Statement
  BY Statements
<1>2. /\ ii \in Seq(Statement) /\ Len(ii) = Len(items)
      /\ \A n \in 1 .. Len(items) : ii[n] = InsertItem(o, items[n])
  <2>1. DOMAIN items = 1 .. Len(items) /\ Len(items) \in Nat
    OBVIOUS
  <2>2. ii \in [1 .. Len(items) -> Statement]
    BY <2>1, Statements
  <2>3. ii \in Seq(Statement) /\ Len(ii) = Len(items)
    BY <2>1, <2>2
  <2> QED BY <2>1, <2>3
<1>3. /\ cc \in Seq(Statement) /\ Len(cc) = (IF contact THEN 1 ELSE 0)
      /\ contact => cc[1] = InsertContact(o)
  <2>1. PICK ic \in Statement : ic = InsertContact(o)
    BY Statements
  <2>2. <<ic>> \in Seq(Statement) /\ Len(<<ic>>) = 1 /\ <<ic>>[1] = ic
    OBVIOUS
  <2>3. << >> \in Seq(Statement) /\ Len(<< >>) = 0
    OBVIOUS
  <2>4. CASE contact
    <3>1. cc = <<ic>>
      BY <2>1, <2>4
    <3> HIDE DEF cc
    <3> QED BY <2>1, <2>2, <2>4, <3>1
  <2>5. CASE ~ contact
    <3>1. cc = << >>
      BY <2>5
    <3> HIDE DEF cc
    <3> QED BY <2>3, <2>5, <3>1
  <2> QED BY <2>4, <2>5
<1>4. Plan(todo, io, ii, UpdateTotal(o), cc, Enqueue(o))
  BY DEF Plan, CheckoutPlan
<1> HIDE DEF ii, cc
<1>5. todo # << >> /\ Head(todo) = io /\ IsPlan(Tail(todo), o, items, contact)
  <2> HIDE DEF io
  <2> QED BY <1>1, <1>2, <1>3, <1>4, Opened
<1> QED BY <1>5

(* While items are left, the next statement inserts the first of them. *)
LEMMA PlanGoesOn ==
  ASSUME NEW o \in Orders, NEW todo, NEW rest \in Seq(Items), NEW contact \in BOOLEAN,
         IsPlan(todo, o, rest, contact), rest # << >>
  PROVE  /\ Head(todo) = InsertItem(o, Head(rest)) /\ Head(rest) \in Items
         /\ Tail(rest) \in Seq(Items) /\ IsPlan(Tail(todo), o, Tail(rest), contact)
<1>1. /\ Len(rest) \in Nat \ {0} /\ todo \in Seq(Statement)
      /\ Tail(rest) \in Seq(Items) /\ Len(Tail(rest)) = Len(rest) - 1
      /\ Head(rest) = rest[1] /\ Head(rest) \in Items
      /\ \A n \in 1 .. Len(rest) - 1 : Tail(rest)[n] = rest[n + 1]
  BY DEF IsPlan
<1>2. /\ Head(todo) = todo[1] /\ todo # << >> /\ Tail(todo) \in Seq(Statement)
      /\ Len(Tail(todo)) = Len(todo) - 1
      /\ \A n \in 1 .. Len(todo) - 1 : Tail(todo)[n] = todo[n + 1]
  BY <1>1 DEF IsPlan
<1> QED BY <1>1, <1>2 DEF IsPlan

(* When no item is left, the total, then the contact, if there is one, and the event. *)
LEMMA PlanEnds ==
  ASSUME NEW o \in Orders, NEW todo, NEW contact \in BOOLEAN, IsPlan(todo, o, << >>, contact)
  PROVE  /\ Head(todo) = UpdateTotal(o)
         /\ Tail(todo) = IF contact THEN <<InsertContact(o), Enqueue(o)>> ELSE <<Enqueue(o)>>
<1>1. /\ todo \in Seq(Statement) /\ Len(todo) = IF contact THEN 3 ELSE 2
      /\ todo[1] = UpdateTotal(o) /\ (contact => todo[2] = InsertContact(o))
      /\ todo[Len(todo)] = Enqueue(o)
  BY EmptySeq DEF IsPlan
<1> DEFINE tail == Tail(todo)
<1>2. /\ tail \in Seq(Statement) /\ Len(tail) = Len(todo) - 1
      /\ \A n \in 1 .. Len(todo) - 1 : tail[n] = todo[n + 1]
      /\ Head(todo) = todo[1]
  <2>1. Len(todo) > 0
    BY <1>1
  <2> QED BY <1>1, <2>1, Tailed
<1>6. tail = Tail(todo)
  OBVIOUS
<1> HIDE DEF tail
<1>3. PICK ic, eq \in Statement : ic = InsertContact(o) /\ eq = Enqueue(o)
  BY Statements
<1>4. CASE contact
  <2>1. Len(todo) = 3 /\ todo[2] = ic /\ todo[3] = eq
    BY <1>1, <1>3, <1>4
  <2>2. Len(tail) = 2 /\ tail[1] = ic /\ tail[2] = eq
    BY <1>2, <2>1
  <2>3. tail = <<ic, eq>>
    BY <1>2, <2>2
  <2> QED BY <1>1, <1>2, <1>3, <1>4, <1>6, <2>3
<1>5. CASE ~ contact
  <2>1. Len(todo) = 2 /\ todo[2] = eq
    BY <1>1, <1>3, <1>5
  <2>2. Len(tail) = 1 /\ tail[1] = eq
    BY <1>2, <2>1
  <2>3. tail = <<eq>>
    BY <1>2, <2>2
  <2> QED BY <1>1, <1>2, <1>3, <1>5, <1>6, <2>3
<1> QED BY <1>4, <1>5

-----------------------------------------------------------------------------
(* How far a transaction has come.  base is what was committed when it began. *)

InCurrency(items, currency) == \A n \in DOMAIN items : CurrencyOf(items[n]) = currency

(* The order o is new, with the total given; no other order is touched. *)
Grown(base, tables, o, currency, total) ==
  /\ base.orders[o] = None
  /\ tables.orders = [base.orders EXCEPT ![o] = [currency |-> currency, total |-> total]]
  /\ \A p \in Orders : p # o => tables.items[p] = base.items[p]
  /\ InCurrency(tables.items[o], currency)

Quiet(base, tables) == tables.contacts = base.contacts /\ tables.outbox = base.outbox

Reached(base, tables, o) ==
  \/ tables.contacts = base.contacts
  \/ tables.contacts = base.contacts \cup {o} /\ tables.items[o] # << >>

Opening(base, t) ==
  /\ t.tables = base
  /\ \E o \in Orders, currency \in Currencies :
       /\ t.todo # << >> /\ Head(t.todo) = InsertOrder(o, currency)
       /\ \/ Tail(t.todo) = <<Enqueue(o)>>
          \/ \E rest \in Seq(Items), contact \in BOOLEAN :
               rest # << >> /\ InCurrency(rest, currency) /\ IsPlan(Tail(t.todo), o, rest, contact)

Filling(base, t) ==
  \E o \in Orders, currency \in Currencies, rest \in Seq(Items), contact \in BOOLEAN :
    /\ IsPlan(t.todo, o, rest, contact) /\ InCurrency(rest, currency)
    /\ Grown(base, t.tables, o, currency, 0) /\ Quiet(base, t.tables)
    /\ rest # << >> \/ t.tables.items[o] # << >>

Contacting(base, t) ==
  \E o \in Orders, currency \in Currencies :
    /\ t.todo = <<InsertContact(o), Enqueue(o)>>
    /\ Grown(base, t.tables, o, currency, SumOf(t.tables.items[o])) /\ Quiet(base, t.tables)
    /\ t.tables.items[o] # << >>

Announcing(base, t) ==
  \E o \in Orders, currency \in Currencies :
    /\ t.todo = <<Enqueue(o)>>
    /\ Grown(base, t.tables, o, currency, SumOf(t.tables.items[o]))
    /\ Reached(base, t.tables, o) /\ t.tables.outbox = base.outbox

Announced(base, t) ==
  \E o \in Orders, currency \in Currencies :
    /\ t.todo = << >>
    /\ Grown(base, t.tables, o, currency, SumOf(t.tables.items[o]))
    /\ Reached(base, t.tables, o) /\ t.tables.outbox = Append(base.outbox, o)

Adding(base, t) ==
  /\ t.tables = base
  /\ \E o \in Orders, i \in Items : t.todo = <<InsertItem(o, i), UpdateTotal(o)>>

Extended(base, tables, o) ==
  /\ base.orders[o] # None
  /\ \E i \in Items : /\ i \notin ItemIds(base)
                      /\ tables.items = [base.items EXCEPT ![o] = Append(@, i)]
  /\ Quiet(base, tables)

Added(base, t) ==
  \E o \in Orders : /\ t.todo = <<UpdateTotal(o)>>
                    /\ Extended(base, t.tables, o) /\ t.tables.orders = base.orders

Totalled(base, t) ==
  \E o \in Orders :
    /\ t.todo = << >> /\ Extended(base, t.tables, o)
    /\ t.tables.orders = [base.orders EXCEPT ![o] =
         [currency |-> base.orders[o].currency, total |-> SumOf(t.tables.items[o])]]

Shape(base, t) ==
  \/ Opening(base, t) \/ Filling(base, t) \/ Contacting(base, t)
  \/ Announcing(base, t) \/ Announced(base, t)
  \/ Adding(base, t) \/ Added(base, t) \/ Totalled(base, t)

TxOK == tx # None => TablesOK(tx.tables) /\ Shape(disk, tx)

(* A reader on its way has a row that fits the items there were then, and items
   are only ever appended. *)
ReaderOK ==
  /\ reader.at \in {"idle", "items", "answered", "missing"}
  /\ reader.at = "items" =>
       /\ reader.order \in Orders
       /\ reader.before \in Seq(Items)
       /\ reader.row.total = SumOf(reader.before)
       /\ IsPrefix(reader.before, disk.items[reader.order])
  /\ ReadAddsUp

IInv == TablesOK(disk) /\ TotalsAddUp /\ TxOK /\ ReaderOK

(* Two orders tables with one row replaced. *)
LEMMA GrownRow ==
  ASSUME NEW base, TablesOK(base), NEW tables, TablesOK(tables),
         NEW o \in Orders, NEW currency \in Currencies, NEW total \in Nat,
         Grown(base, tables, o, currency, total)
  PROVE  /\ tables.orders[o] # None
         /\ tables.orders[o].currency = currency /\ tables.orders[o].total = total
         /\ \A p \in Orders : p # o => tables.orders[p] = base.orders[p]
<1> DEFINE row == [currency |-> currency, total |-> total]
<1>1. row # None /\ row.currency = currency /\ row.total = total
  BY OrderAssumption
<1>2. tables.orders = [base.orders EXCEPT ![o] = row] /\ base.orders \in [Orders -> Row \cup {None}]
  BY DEF Grown, TablesOK, Tables
<1> HIDE DEF row
<1> QED BY <1>1, <1>2

(* An order that does not exist has neither items nor a contact. *)
LEMMA EmptyNowhere ==
  ASSUME NEW base, TablesOK(base), NEW o \in Orders, base.orders[o] = None
  PROVE  base.items[o] = << >> /\ o \notin base.contacts
  BY DEF TablesOK

(* The order is inserted: its items are next, or, in create_order, its event. *)
LEMMA FromOpening ==
  ASSUME NEW base, TablesOK(base), NEW t, Opening(base, t),
         ~ Refused(Head(t.todo), t.tables),
         NEW u, u = [todo |-> Tail(t.todo), tables |-> Result(Head(t.todo), t.tables)]
  PROVE  t.todo # << >> /\ TablesOK(u.tables) /\ (Filling(base, u) \/ Announcing(base, u))
<1>1. PICK o \in Orders, currency \in Currencies :
        /\ t.todo # << >> /\ Head(t.todo) = InsertOrder(o, currency)
        /\ \/ Tail(t.todo) = <<Enqueue(o)>>
           \/ \E rest \in Seq(Items), contact \in BOOLEAN :
                rest # << >> /\ InCurrency(rest, currency) /\ IsPlan(Tail(t.todo), o, rest, contact)
  BY DEF Opening
<1>2. PICK after : after = Result(InsertOrder(o, currency), base)
  OBVIOUS
<1>3. t.tables = base /\ ~ Refused(InsertOrder(o, currency), base)
  BY <1>1 DEF Opening
<1>4. u.todo = Tail(t.todo) /\ u.tables = after
  BY <1>1, <1>2, <1>3
<1>5. PICK row : row = [currency |-> currency, total |-> 0]
  OBVIOUS
<1>6. /\ TablesOK(after)
      /\ base.orders[o] = None
      /\ after.orders = [base.orders EXCEPT ![o] = row]
      /\ after.items = base.items /\ after.contacts = base.contacts
      /\ after.outbox = base.outbox
  BY <1>2, <1>3, <1>5, OrderInserted
<1>7. after.items[o] = << >> /\ SumOf(after.items[o]) = 0 /\ InCurrency(after.items[o], currency)
  <2>1. after.items[o] = << >>
    BY <1>6, EmptyNowhere
  <2>2. << >> \in Seq(Items) /\ DOMAIN << >> = {}
    OBVIOUS
  <2>3. SumOf(<< >>) = 0
    BY <2>2, SumOfItems
  <2> QED BY <2>1, <2>2, <2>3 DEF InCurrency
<1>8. Grown(base, after, o, currency, 0)
  BY <1>5, <1>6, <1>7 DEF Grown
<1>9. CASE Tail(t.todo) = <<Enqueue(o)>>
  <2>1. Grown(base, after, o, currency, SumOf(after.items[o]))
    BY <1>7, <1>8
  <2> QED BY <1>1, <1>4, <1>6, <1>9, <2>1 DEF Announcing, Reached
<1>10. CASE \E rest \in Seq(Items), contact \in BOOLEAN :
              rest # << >> /\ InCurrency(rest, currency) /\ IsPlan(Tail(t.todo), o, rest, contact)
  <2>1. Quiet(base, after)
    BY <1>6 DEF Quiet
  <2> QED BY <1>1, <1>4, <1>6, <1>8, <1>10, <2>1 DEF Filling
<1> QED BY <1>1, <1>9, <1>10

(* One more item in the currency of the others. *)
LEMMA AppendedInCurrency ==
  ASSUME NEW items \in Seq(Items), NEW currency, InCurrency(items, currency),
         NEW i \in Items, CurrencyOf(i) = currency
  PROVE  InCurrency(Append(items, i), currency)
<1>1. \A n \in DOMAIN Append(items, i) :
        (n \in DOMAIN items /\ Append(items, i)[n] = items[n]) \/ Append(items, i)[n] = i
  OBVIOUS
<1> QED BY <1>1 DEF InCurrency

(* An item is inserted, or the total renewed when the last one is. *)
LEMMA FromFilling ==
  ASSUME NEW base, TablesOK(base), NEW t, Filling(base, t), TablesOK(t.tables),
         ~ Refused(Head(t.todo), t.tables),
         NEW u, u = [todo |-> Tail(t.todo), tables |-> Result(Head(t.todo), t.tables)]
  PROVE  /\ TablesOK(u.tables)
         /\ Filling(base, u) \/ Contacting(base, u) \/ Announcing(base, u)
<1>1. PICK o \in Orders, currency \in Currencies, rest \in Seq(Items), contact \in BOOLEAN :
        /\ IsPlan(t.todo, o, rest, contact) /\ InCurrency(rest, currency)
        /\ Grown(base, t.tables, o, currency, 0) /\ Quiet(base, t.tables)
        /\ rest # << >> \/ t.tables.items[o] # << >>
  BY DEF Filling
<1>2. PICK tables : tables = t.tables
  OBVIOUS
<1>3. PICK after : after = Result(Head(t.todo), tables)
  OBVIOUS
<1>4. u.todo = Tail(t.todo) /\ u.tables = after
  BY <1>2, <1>3
<1>5. /\ tables.items \in [Orders -> Seq(Items)] /\ tables.items[o] \in Seq(Items)
      /\ tables.orders \in [Orders -> Row \cup {None}] /\ base.orders \in [Orders -> Row \cup {None}]
  BY <1>2 DEF TablesOK, Tables
<1>6. tables.orders[o] # None /\ tables.orders[o].currency = currency
  BY <1>1, <1>2, GrownRow
<1>7. CASE rest # << >>
  <2>1. PICK i \in Items : i = Head(rest) /\ Head(t.todo) = InsertItem(o, i)
    BY <1>1, <1>7, PlanGoesOn
  <2>2. Tail(rest) \in Seq(Items) /\ IsPlan(Tail(t.todo), o, Tail(rest), contact)
    BY <1>1, <1>7, PlanGoesOn
  <2>0. TablesOK(tables) /\ ~ Refused(InsertItem(o, i), tables) /\ after = Result(InsertItem(o, i), tables)
    BY <1>2, <1>3, <2>1
  <2>3. /\ TablesOK(after)
        /\ after.items = [tables.items EXCEPT ![o] = Append(@, i)]
        /\ after.orders = tables.orders /\ after.contacts = tables.contacts
        /\ after.outbox = tables.outbox
    BY <2>0, ItemInserted
  <2>4. CurrencyOf(i) = currency /\ InCurrency(Tail(rest), currency)
    <3>1. /\ i = rest[1] /\ 1 \in DOMAIN rest
          /\ \A n \in DOMAIN Tail(rest) : n + 1 \in DOMAIN rest /\ Tail(rest)[n] = rest[n + 1]
      BY <1>7, <2>1
    <3> QED BY <1>1, <3>1 DEF InCurrency
  <2>5. /\ after.items[o] = Append(tables.items[o], i)
        /\ \A p \in Orders : p # o => after.items[p] = tables.items[p]
    BY <1>5, <2>3
  <2>6. InCurrency(after.items[o], currency)
    BY <1>1, <1>2, <1>5, <2>4, <2>5, AppendedInCurrency DEF Grown
  <2>7. Grown(base, after, o, currency, 0)
    BY <1>1, <1>2, <2>3, <2>5, <2>6 DEF Grown
  <2>8. Quiet(base, after)
    BY <1>1, <1>2, <2>3 DEF Quiet
  <2>9. after.items[o] # << >>
    <3>1. \A s \in Seq(Items) : Append(s, i) # << >>
      OBVIOUS
    <3> QED BY <1>5, <2>5, <3>1
  <2>10. PICK left \in Seq(Items) : left = Tail(rest)
    BY <2>2
  <2>11. Filling(base, u)
    BY <1>4, <2>2, <2>4, <2>7, <2>8, <2>9, <2>10 DEF Filling
  <2> QED BY <1>4, <2>3, <2>11
<1>8. CASE rest = << >>
  <2>1. /\ Head(t.todo) = UpdateTotal(o)
        /\ Tail(t.todo) = IF contact THEN <<InsertContact(o), Enqueue(o)>> ELSE <<Enqueue(o)>>
    BY <1>1, <1>8, PlanEnds
  <2>2. PICK row : row = [currency |-> tables.orders[o].currency, total |-> SumOf(tables.items[o])]
    OBVIOUS
  <2>3. /\ TablesOK(after)
        /\ after.orders = [tables.orders EXCEPT ![o] = row]
        /\ after.items = tables.items /\ after.contacts = tables.contacts
        /\ after.outbox = tables.outbox
    BY <1>2, <1>3, <1>6, <2>1, <2>2, TotalUpdated
  <2>4. PICK sum : sum = SumOf(after.items[o])
    OBVIOUS
  <2>5. row = [currency |-> currency, total |-> sum]
    BY <1>6, <2>2, <2>3, <2>4
  <2>6. PICK row0 : row0 = [currency |-> currency, total |-> 0]
    OBVIOUS
  <2>7. tables.orders = [base.orders EXCEPT ![o] = row0]
    BY <1>1, <1>2, <2>6 DEF Grown
  <2>8. after.orders = [base.orders EXCEPT ![o] = row]
    BY <1>5, <2>3, <2>7
  <2>9. Grown(base, after, o, currency, sum)
    BY <1>1, <1>2, <2>3, <2>5, <2>8 DEF Grown
  <2>10. Quiet(base, after) /\ after.items[o] # << >>
    BY <1>1, <1>2, <1>8, <2>3 DEF Quiet
  <2>11. CASE contact
    BY <1>4, <2>1, <2>3, <2>4, <2>9, <2>10, <2>11 DEF Contacting
  <2>12. CASE ~ contact
    BY <1>4, <2>1, <2>3, <2>4, <2>9, <2>10, <2>12 DEF Announcing, Reached, Quiet
  <2> QED BY <2>11, <2>12
<1> QED BY <1>7, <1>8

(* The items of an order have a sum. *)
LEMMA SumIsNat ==
  ASSUME NEW tables, TablesOK(tables), NEW o \in Orders
  PROVE  SumOf(tables.items[o]) \in Nat
  BY SumOfItems DEF TablesOK, Tables

(* The last two statements. *)
LEMMA TwoStatements ==
  ASSUME NEW x, NEW y, NEW todo, todo = <<x, y>>
  PROVE  todo # << >> /\ Head(todo) = x /\ Tail(todo) = <<y>>
  OBVIOUS

(* The last statement. *)
LEMMA OneStatement ==
  ASSUME NEW x, NEW todo, todo = <<x>>
  PROVE  todo # << >> /\ Head(todo) = x /\ Tail(todo) = << >>
  OBVIOUS

(* The contact is inserted. *)
LEMMA FromContacting ==
  ASSUME NEW base, TablesOK(base), NEW t, Contacting(base, t), TablesOK(t.tables),
         NEW u, u = [todo |-> Tail(t.todo), tables |-> Result(Head(t.todo), t.tables)]
  PROVE  TablesOK(u.tables) /\ Announcing(base, u)
<1>1. PICK o \in Orders, currency \in Currencies :
        /\ t.todo = <<InsertContact(o), Enqueue(o)>>
        /\ Grown(base, t.tables, o, currency, SumOf(t.tables.items[o])) /\ Quiet(base, t.tables)
        /\ t.tables.items[o] # << >>
  BY DEF Contacting
<1>2. PICK tables : tables = t.tables
  OBVIOUS
<1>3. Head(t.todo) = InsertContact(o) /\ Tail(t.todo) = <<Enqueue(o)>>
  BY <1>1, TwoStatements
<1>4. PICK after : after = Result(InsertContact(o), tables)
  OBVIOUS
<1>5. u.todo = <<Enqueue(o)>> /\ u.tables = after
  BY <1>2, <1>3, <1>4
<1>6. tables.orders[o] # None
  BY <1>1, <1>2, GrownRow, SumIsNat
<1>7. /\ TablesOK(after)
      /\ after.contacts = tables.contacts \cup {o}
      /\ after.orders = tables.orders /\ after.items = tables.items
      /\ after.outbox = tables.outbox
  BY <1>2, <1>4, <1>6, ContactInserted
<1>8. Grown(base, after, o, currency, SumOf(after.items[o]))
  BY <1>1, <1>2, <1>7 DEF Grown
<1>9. Reached(base, after, o) /\ after.outbox = base.outbox
  BY <1>1, <1>2, <1>7 DEF Reached, Quiet
<1> QED BY <1>5, <1>7, <1>8, <1>9 DEF Announcing

(* The event is enqueued, and nothing is left to do. *)
LEMMA FromAnnouncing ==
  ASSUME NEW base, TablesOK(base), NEW t, Announcing(base, t), TablesOK(t.tables),
         NEW u, u = [todo |-> Tail(t.todo), tables |-> Result(Head(t.todo), t.tables)]
  PROVE  TablesOK(u.tables) /\ Announced(base, u)
<1>1. PICK o \in Orders, currency \in Currencies :
        /\ t.todo = <<Enqueue(o)>>
        /\ Grown(base, t.tables, o, currency, SumOf(t.tables.items[o]))
        /\ Reached(base, t.tables, o) /\ t.tables.outbox = base.outbox
  BY DEF Announcing
<1>2. PICK tables : tables = t.tables
  OBVIOUS
<1>3. Head(t.todo) = Enqueue(o) /\ Tail(t.todo) = << >>
  BY <1>1, OneStatement
<1>4. PICK after : after = Result(Enqueue(o), tables)
  OBVIOUS
<1>5. u.todo = << >> /\ u.tables = after
  BY <1>2, <1>3, <1>4
<1>6. /\ TablesOK(after)
      /\ after.outbox = Append(tables.outbox, o)
      /\ after.orders = tables.orders /\ after.items = tables.items
      /\ after.contacts = tables.contacts
  BY <1>2, <1>4, Enqueued
<1>7. Grown(base, after, o, currency, SumOf(after.items[o]))
  BY <1>1, <1>2, <1>6 DEF Grown
<1>8. Reached(base, after, o) /\ after.outbox = Append(base.outbox, o)
  BY <1>1, <1>2, <1>6 DEF Reached
<1> QED BY <1>5, <1>6, <1>7, <1>8 DEF Announced

(* add_item inserts its item. *)
LEMMA FromAdding ==
  ASSUME NEW base, TablesOK(base), NEW t, Adding(base, t),
         ~ Refused(Head(t.todo), t.tables),
         NEW u, u = [todo |-> Tail(t.todo), tables |-> Result(Head(t.todo), t.tables)]
  PROVE  TablesOK(u.tables) /\ Added(base, u)
<1>1. PICK o \in Orders, i \in Items : t.todo = <<InsertItem(o, i), UpdateTotal(o)>>
  BY DEF Adding
<1>2. t.tables = base
  BY DEF Adding
<1>3. Head(t.todo) = InsertItem(o, i) /\ Tail(t.todo) = <<UpdateTotal(o)>>
  BY <1>1, TwoStatements
<1>4. PICK after : after = Result(InsertItem(o, i), base)
  OBVIOUS
<1>5. u.todo = <<UpdateTotal(o)>> /\ u.tables = after
  BY <1>2, <1>3, <1>4
<1>6. /\ TablesOK(after)
      /\ base.orders[o] # None /\ i \notin ItemIds(base)
      /\ after.items = [base.items EXCEPT ![o] = Append(@, i)]
      /\ after.orders = base.orders /\ after.contacts = base.contacts
      /\ after.outbox = base.outbox
  BY <1>2, <1>3, <1>4, ItemInserted
<1>7. Extended(base, after, o)
  BY <1>6 DEF Extended, Quiet
<1> QED BY <1>5, <1>6, <1>7 DEF Added

(* add_item renews the total. *)
LEMMA FromAdded ==
  ASSUME NEW base, TablesOK(base), NEW t, Added(base, t), TablesOK(t.tables),
         ~ Refused(Head(t.todo), t.tables),
         NEW u, u = [todo |-> Tail(t.todo), tables |-> Result(Head(t.todo), t.tables)]
  PROVE  TablesOK(u.tables) /\ Totalled(base, u)
<1>1. PICK o \in Orders : /\ t.todo = <<UpdateTotal(o)>>
                          /\ Extended(base, t.tables, o) /\ t.tables.orders = base.orders
  BY DEF Added
<1>2. PICK tables : tables = t.tables
  OBVIOUS
<1>3. Head(t.todo) = UpdateTotal(o) /\ Tail(t.todo) = << >>
  BY <1>1, OneStatement
<1>4. PICK after : after = Result(UpdateTotal(o), tables)
  OBVIOUS
<1>5. u.todo = << >> /\ u.tables = after
  BY <1>2, <1>3, <1>4
<1>6. PICK row : row = [currency |-> tables.orders[o].currency, total |-> SumOf(tables.items[o])]
  OBVIOUS
<1>7. tables.orders[o] # None
  BY <1>1, <1>2 DEF Extended
<1>8. /\ TablesOK(after)
      /\ after.orders = [tables.orders EXCEPT ![o] = row]
      /\ after.items = tables.items /\ after.contacts = tables.contacts
      /\ after.outbox = tables.outbox
  BY <1>2, <1>3, <1>4, <1>6, <1>7, TotalUpdated
<1>9. Extended(base, after, o)
  BY <1>1, <1>2, <1>8 DEF Extended, Quiet
<1>10. PICK sum : sum = SumOf(after.items[o])
  OBVIOUS
<1>11. row = [currency |-> base.orders[o].currency, total |-> sum]
  BY <1>1, <1>2, <1>6, <1>8, <1>10
<1>12. after.orders = [base.orders EXCEPT ![o] = row]
  BY <1>1, <1>2, <1>8
<1> QED BY <1>5, <1>8, <1>9, <1>10, <1>11, <1>12 DEF Totalled

(* A statement that is not refused leads from one shape to the next. *)
LEMMA ShapeGoesOn ==
  ASSUME NEW base, TablesOK(base), NEW t, Shape(base, t), TablesOK(t.tables), t.todo # << >>,
         ~ Refused(Head(t.todo), t.tables),
         NEW u, u = [todo |-> Tail(t.todo), tables |-> Result(Head(t.todo), t.tables)]
  PROVE  TablesOK(u.tables) /\ Shape(base, u)
<1>1. ~ Announced(base, t) /\ ~ Totalled(base, t)
  BY DEF Announced, Totalled
<1>2. \/ Opening(base, t) \/ Filling(base, t) \/ Contacting(base, t)
      \/ Announcing(base, t) \/ Adding(base, t) \/ Added(base, t)
  BY <1>1 DEF Shape
<1>3. /\ TablesOK(u.tables)
      /\ \/ Filling(base, u) \/ Contacting(base, u) \/ Announcing(base, u)
         \/ Announced(base, u) \/ Added(base, u) \/ Totalled(base, u)
  BY <1>2, FromOpening, FromFilling, FromContacting, FromAnnouncing, FromAdding, FromAdded
<1> QED BY <1>3 DEF Shape

-----------------------------------------------------------------------------
(* Prefixes. *)
LEMMA PrefixPointwise ==
  ASSUME NEW s \in Seq(Items), NEW t \in Seq(Items)
  PROVE  IsPrefix(s, t) <=> Len(s) <= Len(t) /\ \A n \in 1 .. Len(s) : s[n] = t[n]
<1>1. PICK k \in Nat : k = Len(s)
  OBVIOUS
<1>2. SubSeq(s, 1, Len(s)) = [n \in 1 .. k |-> s[n]] /\ SubSeq(t, 1, Len(s)) = [n \in 1 .. k |-> t[n]]
  BY <1>1
<1> QED BY <1>1, <1>2 DEF IsPrefix

(* A sequence is a prefix of itself. *)
LEMMA PrefixSame ==
  ASSUME NEW s \in Seq(Items)
  PROVE  IsPrefix(s, s)
  BY DEF IsPrefix

(* It stays a prefix of what is appended to. *)
LEMMA PrefixAppend ==
  ASSUME NEW s \in Seq(Items), NEW t \in Seq(Items), IsPrefix(s, t), NEW i \in Items,
         NEW u, u = Append(t, i)
  PROVE  IsPrefix(s, u)
<1>1. Len(s) <= Len(t) /\ \A n \in 1 .. Len(s) : s[n] = t[n]
  BY PrefixPointwise
<1>2. u \in Seq(Items) /\ Len(u) = Len(t) + 1 /\ \A n \in 1 .. Len(t) : u[n] = t[n]
  OBVIOUS
<1>3. Len(s) <= Len(u) /\ \A n \in 1 .. Len(s) : s[n] = u[n]
  BY <1>1, <1>2
<1> QED BY <1>2, <1>3, PrefixPointwise

(* A prefix of nothing is a prefix of everything. *)
LEMMA PrefixOfNothing ==
  ASSUME NEW s \in Seq(Items), NEW t \in Seq(Items), IsPrefix(s, << >>)
  PROVE  IsPrefix(s, t)
<1>1. PICK k, l \in Nat : k = Len(s) /\ l = Len(t)
  OBVIOUS
<1>2. k <= 0
  BY <1>1 DEF IsPrefix
<1>3. k <= l /\ \A n \in 1 .. k : s[n] = t[n]
  BY <1>2
<1> QED BY <1>1, <1>3, PrefixPointwise

-----------------------------------------------------------------------------
(* What a finished transaction does to the committed tables. *)
AddUp(tables) ==
  \A o \in Orders : tables.orders[o] # None =>
    /\ tables.orders[o].total = SumOf(tables.items[o])
    /\ tables.orders[o].total <= MaxTotal

(* No row holds a total beyond the largest sum. *)
LEMMA WithinReach ==
  ASSUME NEW tables, TablesOK(tables), NEW o \in Orders, tables.orders[o] # None
  PROVE  tables.orders[o] \in Row /\ tables.orders[o].total <= MaxTotal
<1>1. tables.orders[o] \in Row
  BY DEF TablesOK, Tables
<1> QED BY <1>1, OrderAssumption DEF Row

(* A new order with the sum of its items, and the other orders as they were. *)
LEMMA AnnouncedAddsUp ==
  ASSUME NEW base, TablesOK(base), AddUp(base), NEW t, Announced(base, t), TablesOK(t.tables),
         NEW s \in Seq(Items), NEW q \in Orders, IsPrefix(s, base.items[q])
  PROVE  AddUp(t.tables) /\ IsPrefix(s, t.tables.items[q])
<1>1. PICK o \in Orders, currency \in Currencies :
        Grown(base, t.tables, o, currency, SumOf(t.tables.items[o]))
  BY DEF Announced
<1>2. PICK tables : tables = t.tables
  OBVIOUS
<1>3. PICK sum \in Nat : sum = SumOf(tables.items[o])
  BY <1>2, SumIsNat
<1>4. /\ tables.orders[o] # None /\ tables.orders[o].total = sum
      /\ \A p \in Orders : p # o => tables.orders[p] = base.orders[p]
  BY <1>1, <1>2, <1>3, GrownRow
<1>5. \A p \in Orders : p # o => tables.items[p] = base.items[p]
  BY <1>1, <1>2 DEF Grown
<1>6. AddUp(tables)
  <2> SUFFICES ASSUME NEW p \in Orders, tables.orders[p] # None
               PROVE  /\ tables.orders[p].total = SumOf(tables.items[p])
                      /\ tables.orders[p].total <= MaxTotal
    BY DEF AddUp
  <2>1. tables.orders[p].total <= MaxTotal
    BY <1>2, WithinReach
  <2>2. CASE p = o
    BY <1>3, <1>4, <2>1, <2>2
  <2>3. CASE p # o
    BY <1>4, <1>5, <2>1, <2>3 DEF AddUp
  <2> QED BY <2>2, <2>3
<1>7. tables.items[q] \in Seq(Items)
  BY <1>2 DEF TablesOK, Tables
<1>8. CASE q = o
  <2>1. base.items[q] = << >>
    BY <1>1, <1>8, EmptyNowhere DEF Grown
  <2> QED BY <1>2, <1>6, <1>7, <2>1, PrefixOfNothing
<1>9. CASE q # o
  BY <1>2, <1>5, <1>6, <1>9
<1> QED BY <1>8, <1>9

(* An order with one more item and its new sum, and the others as they were. *)
LEMMA TotalledAddsUp ==
  ASSUME NEW base, TablesOK(base), AddUp(base), NEW t, Totalled(base, t), TablesOK(t.tables),
         NEW s \in Seq(Items), NEW q \in Orders, IsPrefix(s, base.items[q])
  PROVE  AddUp(t.tables) /\ IsPrefix(s, t.tables.items[q])
<1>1. PICK tables : tables = t.tables
  OBVIOUS
<1>2. PICK o \in Orders :
        /\ Extended(base, tables, o)
        /\ tables.orders = [base.orders EXCEPT ![o] =
             [currency |-> base.orders[o].currency, total |-> SumOf(tables.items[o])]]
  BY <1>1 DEF Totalled
<1>3. PICK i \in Items : tables.items = [base.items EXCEPT ![o] = Append(@, i)]
  BY <1>2 DEF Extended
<1>4. /\ base.items \in [Orders -> Seq(Items)] /\ base.orders \in [Orders -> Row \cup {None}]
  BY DEF TablesOK, Tables
<1>5. PICK sum : sum = SumOf(tables.items[o])
  OBVIOUS
<1>6. PICK row : row = [currency |-> base.orders[o].currency, total |-> sum]
  OBVIOUS
<1>7. row.total = sum /\ tables.orders = [base.orders EXCEPT ![o] = row]
  BY <1>2, <1>5, <1>6
<1>8. /\ tables.orders[o].total = sum
      /\ \A p \in Orders : p # o => tables.orders[p] = base.orders[p]
  BY <1>4, <1>7
<1>9. /\ tables.items[o] = Append(base.items[o], i)
      /\ \A p \in Orders : p # o => tables.items[p] = base.items[p]
  BY <1>3, <1>4
<1>10. AddUp(tables)
  <2> SUFFICES ASSUME NEW p \in Orders, tables.orders[p] # None
               PROVE  /\ tables.orders[p].total = SumOf(tables.items[p])
                      /\ tables.orders[p].total <= MaxTotal
    BY DEF AddUp
  <2>1. tables.orders[p].total <= MaxTotal
    BY <1>1, WithinReach
  <2>2. CASE p = o
    BY <1>5, <1>8, <2>1, <2>2
  <2>3. CASE p # o
    BY <1>8, <1>9, <2>1, <2>3 DEF AddUp
  <2> QED BY <2>2, <2>3
<1>11. base.items[q] \in Seq(Items)
  BY <1>4
<1>12. CASE q = o
  BY <1>1, <1>9, <1>10, <1>11, <1>12, PrefixAppend
<1>13. CASE q # o
  BY <1>1, <1>9, <1>10, <1>13
<1> QED BY <1>12, <1>13

(* A transaction with nothing left to do made an order or extended one. *)
LEMMA Finished ==
  ASSUME NEW base, TablesOK(base), AddUp(base), NEW t, Shape(base, t), TablesOK(t.tables),
         t.todo = << >>
  PROVE  /\ Announced(base, t) \/ Totalled(base, t)
         /\ AddUp(t.tables)
         /\ \A s \in Seq(Items), q \in Orders :
              IsPrefix(s, base.items[q]) => IsPrefix(s, t.tables.items[q])
<1>1. ~ Opening(base, t)
  BY DEF Opening
<1>2. ~ Filling(base, t)
  <2> SUFFICES ASSUME Filling(base, t) PROVE FALSE
    OBVIOUS
  <2>1. PICK o \in Orders, rest \in Seq(Items), contact \in BOOLEAN : IsPlan(t.todo, o, rest, contact)
    BY DEF Filling
  <2>2. PICK k \in Nat : k = Len(rest)
    OBVIOUS
  <2>3. Len(t.todo) = k + (IF contact THEN 3 ELSE 2) /\ Len(t.todo) = 0
    BY <2>1, <2>2 DEF IsPlan
  <2> QED BY <2>3
<1>3. ~ Contacting(base, t) /\ ~ Announcing(base, t) /\ ~ Adding(base, t) /\ ~ Added(base, t)
  <2>1. /\ \A x : t.todo # <<x>>
        /\ \A x, y : t.todo # <<x, y>>
    OBVIOUS
  <2> QED BY <2>1 DEF Contacting, Announcing, Adding, Added
<1>4. Announced(base, t) \/ Totalled(base, t)
  BY <1>1, <1>2, <1>3 DEF Shape
<1>5. ASSUME NEW s \in Seq(Items), NEW q \in Orders, IsPrefix(s, base.items[q])
      PROVE  AddUp(t.tables) /\ IsPrefix(s, t.tables.items[q])
  BY <1>4, <1>5, AnnouncedAddsUp, TotalledAddsUp
<1>6. \E o \in Orders : IsPrefix(base.items[o], base.items[o]) /\ base.items[o] \in Seq(Items)
  <2>1. \E o \in Orders : TRUE
    BY <1>4 DEF Announced, Totalled
  <2> QED BY <2>1, PrefixSame DEF TablesOK, Tables
<1> QED BY <1>4, <1>5, <1>6

-----------------------------------------------------------------------------
(* How a transaction begins. *)
LEMMA CreateOpens ==
  ASSUME NEW base, NEW o \in Orders, NEW currency \in Currencies, NEW t,
         t = [todo |-> <<InsertOrder(o, currency), Enqueue(o)>>, tables |-> base]
  PROVE  Opening(base, t)
<1>1. t.todo = <<InsertOrder(o, currency), Enqueue(o)>> /\ t.tables = base
  OBVIOUS
<1>2. t.todo # << >> /\ Head(t.todo) = InsertOrder(o, currency) /\ Tail(t.todo) = <<Enqueue(o)>>
  BY <1>1, TwoStatements
<1> QED BY <1>1, <1>2 DEF Opening

(* checkout begins by inserting the order, and the plan of its items is next. *)
LEMMA CheckoutOpens ==
  ASSUME NEW base, NEW o \in Orders, NEW currency \in Currencies, NEW items \in Seq(Items),
         NEW contact \in BOOLEAN, items # << >>, \A i \in ToSet(items) : CurrencyOf(i) = currency,
         NEW t, t = [todo |-> CheckoutPlan(o, currency, items, contact), tables |-> base]
  PROVE  Opening(base, t)
<1>1. t.todo = CheckoutPlan(o, currency, items, contact) /\ t.tables = base
  OBVIOUS
<1>2. /\ t.todo # << >> /\ Head(t.todo) = InsertOrder(o, currency)
      /\ IsPlan(Tail(t.todo), o, items, contact)
  BY <1>1, PlanOfCheckout
<1>3. InCurrency(items, currency)
  BY DEF InCurrency, ToSet
<1> QED BY <1>1, <1>2, <1>3 DEF Opening

(* The positions a checkout is given are a sequence of items. *)
LEMMA GivenIsSeq ==
  ASSUME NEW items \in SeqOf(Items, MaxItems)
  PROVE  items \in Seq(Items)
<1>1. PICK k \in 0 .. MaxItems : items \in [1 .. k -> Items]
  BY DEF SeqOf
<1>2. k \in Nat
  BY <1>1, OrderAssumption
<1> QED BY <1>1, <1>2

-----------------------------------------------------------------------------
(* The invariant. *)
LEMMA InitIInv == Init => IInv
<1> SUFFICES ASSUME Init PROVE IInv
  OBVIOUS
<1>1. /\ disk.orders = [o \in Orders |-> None] /\ disk.items = [o \in Orders |-> << >>]
      /\ disk.contacts = {} /\ disk.outbox = << >>
      /\ disk = [orders |-> disk.orders, items |-> disk.items,
                 contacts |-> disk.contacts, outbox |-> disk.outbox]
  BY DEF Init
<1>2. disk \in Tables
  <2>1. << >> \in Seq(Orders) /\ << >> \in Seq(Items)
    OBVIOUS
  <2> QED BY <1>1, <2>1 DEF Tables
<1>3. TablesOK(disk)
  BY <1>1, <1>2 DEF TablesOK
<1>4. TotalsAddUp
  BY <1>1 DEF TotalsAddUp
<1>5. TxOK /\ ReaderOK
  BY DEF Init, TxOK, ReaderOK, ReadAddsUp, Idle
<1> QED BY <1>3, <1>4, <1>5 DEF IInv

(* BEGIN, of create_order or of checkout. *)
LEMMA BeginKeeps ==
  ASSUME IInv, NEW plan, Begin(plan),
         \A t : t = [todo |-> plan, tables |-> disk] => Opening(disk, t)
  PROVE  IInv'
<1>1. /\ tx' = [todo |-> plan, tables |-> disk] /\ disk' = disk /\ reader' = reader
  BY DEF Begin
<1>2. tx'.tables = disk /\ Opening(disk, tx')
  BY <1>1
<1>3. TxOK'
  BY <1>1, <1>2 DEF TxOK, IInv, Shape
<1> QED BY <1>1, <1>3 DEF IInv, TotalsAddUp, ReaderOK, ReadAddsUp

(* BEGIN, of any write. *)
LEMMA WriteKeeps == IInv /\ Write => IInv'
<1> SUFFICES ASSUME IInv, Write PROVE IInv'
  OBVIOUS
<1>1. ASSUME NEW o \in Orders, NEW currency \in Currencies, CreateOrder(o, currency)
      PROVE  IInv'
  <2>1. PICK plan : plan = <<InsertOrder(o, currency), Enqueue(o)>>
    OBVIOUS
  <2>2. Begin(plan)
    BY <1>1, <2>1 DEF CreateOrder
  <2>3. \A t : t = [todo |-> plan, tables |-> disk] => Opening(disk, t)
    BY <2>1, CreateOpens
  <2> QED BY <2>2, <2>3, BeginKeeps
<1>2. ASSUME NEW o \in Orders, NEW currency \in Currencies,
             NEW contact \in BOOLEAN, NEW items \in SeqOf(Items, MaxItems),
             Checkout(o, currency, items, contact)
      PROVE  IInv'
  <2>1. PICK plan : plan = CheckoutPlan(o, currency, items, contact)
    OBVIOUS
  <2>2. Begin(plan)
    BY <1>2, <2>1 DEF Checkout, CheckoutPlan
  <2>3. /\ items \in Seq(Items) /\ items # << >>
        /\ \A i \in ToSet(items) : CurrencyOf(i) = currency
    BY <1>2, GivenIsSeq DEF Checkout
  <2>4. \A t : t = [todo |-> plan, tables |-> disk] => Opening(disk, t)
    BY <2>1, <2>3, CheckoutOpens
  <2> QED BY <2>2, <2>4, BeginKeeps
<1>3. ASSUME NEW o \in Orders, NEW i \in Items, AddItem(o, i)
      PROVE  IInv'
  <2>1. PICK plan : plan = <<InsertItem(o, i), UpdateTotal(o)>>
    OBVIOUS
  <2>2. tx' = [todo |-> plan, tables |-> disk] /\ disk' = disk /\ reader' = reader
    BY <1>3, <2>1 DEF AddItem, Begin
  <2>3. tx'.tables = disk /\ tx'.todo = plan
    BY <2>2
  <2>4. Adding(disk, tx')
    BY <2>1, <2>3 DEF Adding
  <2>5. TxOK'
    BY <2>2, <2>3, <2>4 DEF TxOK, IInv, Shape
  <2> QED BY <2>2, <2>5 DEF IInv, TotalsAddUp, ReaderOK, ReadAddsUp
<1> QED BY <1>1, <1>2, <1>3 DEF Write

(* One statement, or its error. *)
LEMMA ExecuteKeeps == IInv /\ Execute => IInv'
<1> SUFFICES ASSUME IInv, Execute PROVE IInv'
  OBVIOUS
<1>1. disk' = disk /\ reader' = reader /\ tx # None /\ tx.todo # << >>
  BY DEF Execute
<1>2. TablesOK(disk) /\ TablesOK(tx.tables) /\ Shape(disk, tx)
  BY <1>1 DEF IInv, TxOK
<1>3. CASE Refused(Head(tx.todo), tx.tables)
  <2>1. tx' = None
    BY <1>3 DEF Execute
  <2> QED BY <1>1, <2>1 DEF IInv, TotalsAddUp, TxOK, ReaderOK, ReadAddsUp
<1>4. CASE ~ Refused(Head(tx.todo), tx.tables)
  <2>1. tx' = [todo |-> Tail(tx.todo), tables |-> Result(Head(tx.todo), tx.tables)]
    BY <1>4 DEF Execute
  <2>2. PICK t : t = tx
    OBVIOUS
  <2>3. PICK u : u = [todo |-> Tail(t.todo), tables |-> Result(Head(t.todo), t.tables)]
    OBVIOUS
  <2>4. PICK base : base = disk
    OBVIOUS
  <2>5. TablesOK(u.tables) /\ Shape(base, u)
    <3>1. /\ TablesOK(base) /\ TablesOK(t.tables) /\ Shape(base, t) /\ t.todo # << >>
          /\ ~ Refused(Head(t.todo), t.tables)
      BY <1>1, <1>2, <1>4, <2>2, <2>4
    <3> QED BY <2>3, <3>1, ShapeGoesOn
  <2>6. tx' = u /\ disk' = base
    BY <1>1, <2>1, <2>2, <2>3, <2>4
  <2>7. TxOK'
    BY <2>5, <2>6 DEF TxOK
  <2> QED BY <1>1, <2>7 DEF IInv, TotalsAddUp, ReaderOK, ReadAddsUp
<1> QED BY <1>3, <1>4

(* COMMIT: a reader on its way still holds a prefix of the items. *)
LEMMA CommitKeeps == IInv /\ Commit => IInv'
<1> SUFFICES ASSUME IInv, Commit PROVE IInv'
  OBVIOUS
<1>1. /\ tx # None /\ tx.todo = << >> /\ disk' = tx.tables /\ tx' = None /\ reader' = reader
  BY DEF Commit
<1>2. TablesOK(disk) /\ TablesOK(tx.tables) /\ Shape(disk, tx) /\ AddUp(disk)
  BY <1>1 DEF IInv, TxOK, TotalsAddUp, AddUp
<1>3. /\ AddUp(tx.tables)
      /\ \A s \in Seq(Items), q \in Orders :
           IsPrefix(s, disk.items[q]) => IsPrefix(s, tx.tables.items[q])
  BY <1>1, <1>2, Finished
<1>4. TablesOK(disk)' /\ TotalsAddUp' /\ TxOK'
  BY <1>1, <1>2, <1>3 DEF TotalsAddUp, AddUp, TxOK
<1>5. ReaderOK'
  BY <1>1, <1>3 DEF IInv, ReaderOK, ReadAddsUp
<1> QED BY <1>4, <1>5 DEF IInv

(* ROLLBACK. *)
LEMMA RollbackKeeps == IInv /\ Rollback => IInv'
  BY DEF IInv, Rollback, TotalsAddUp, TxOK, ReaderOK, ReadAddsUp

(* get_order_with_items reads the row. *)
LEMMA ReadRowKeeps == ASSUME NEW o \in Orders PROVE IInv /\ ReadRow(o) => IInv'
<1> SUFFICES ASSUME IInv, ReadRow(o) PROVE IInv'
  OBVIOUS
<1>1. disk' = disk /\ tx' = tx
  BY DEF ReadRow
<1>2. CASE disk.orders[o] = None
  <2>1. reader'.at = "missing"
    BY <1>2 DEF ReadRow, Visible
  <2> QED BY <1>1, <2>1 DEF IInv, TotalsAddUp, TxOK, ReaderOK, ReadAddsUp
<1>3. CASE disk.orders[o] # None
  <2>1. /\ reader'.at = "items" /\ reader'.order = o /\ reader'.row = disk.orders[o]
        /\ reader'.before = disk.items[o]
    BY <1>3 DEF ReadRow, Visible
  <2>2. disk.items[o] \in Seq(Items)
    BY DEF IInv, TablesOK, Tables
  <2>3. disk.orders[o].total = SumOf(disk.items[o])
    BY <1>3 DEF IInv, TotalsAddUp
  <2>4. IsPrefix(disk.items[o], disk.items[o])
    BY <2>2, PrefixSame
  <2> QED BY <1>1, <2>1, <2>2, <2>3, <2>4 DEF IInv, TotalsAddUp, TxOK, ReaderOK, ReadAddsUp
<1> QED BY <1>2, <1>3

(* get_order_with_items reads the items, perhaps some commits later. *)
LEMMA ReadItemsKeeps == IInv /\ ReadItems => IInv'
<1> SUFFICES ASSUME IInv, ReadItems PROVE IInv'
  OBVIOUS
<1>1. disk' = disk /\ tx' = tx /\ reader.at = "items"
  BY DEF ReadItems
<1>2. /\ reader'.at = "answered" /\ reader'.row = reader.row /\ reader'.before = reader.before
      /\ reader'.items = disk.items[reader.order]
  BY DEF ReadItems, Visible
<1>3. reader.row.total = SumOf(reader.before) /\ IsPrefix(reader.before, disk.items[reader.order])
  BY <1>1 DEF IInv, ReaderOK
<1> QED BY <1>1, <1>2, <1>3 DEF IInv, TotalsAddUp, TxOK, ReaderOK, ReadAddsUp

(* The reader leaves. *)
LEMMA LeaveKeeps == IInv /\ Leave => IInv'
  BY DEF IInv, Leave, Idle, TotalsAddUp, TxOK, ReaderOK, ReadAddsUp

(* Every step keeps the invariant. *)
LEMMA StepIInv == IInv /\ [Next]_vars => IInv'
<1> SUFFICES ASSUME IInv, [Next]_vars PROVE IInv'
  OBVIOUS
<1>1. CASE UNCHANGED vars
  BY <1>1 DEF vars, IInv, TotalsAddUp, TxOK, ReaderOK, ReadAddsUp
<1> QED BY <1>1, WriteKeeps, ExecuteKeeps, CommitKeeps, RollbackKeeps, ReadRowKeeps,
           ReadItemsKeeps, LeaveKeeps DEF Next

(* The invariant holds in every reachable state, for any number of orders, items
   and currencies. *)
THEOREM Invariance == Spec => []IInv
  BY InitIInv, StepIInv, PTL DEF Spec

(* In every reachable state the rows of orders.db have their types, no item or
   contact is without its order, and no item id occurs twice: the keys of
   migrations/orders, through any mixture of create_order, add_item and checkout,
   failed statements and dropped calls. *)
THEOREM OrdersTyped == Spec => []TypeOK
<1>1. IInv => TypeOK
  <2> SUFFICES ASSUME IInv PROVE TypeOK
    OBVIOUS
  <2>1. /\ disk.orders \in [Orders -> Row \cup {None}] /\ disk.items \in [Orders -> Seq(Items)]
        /\ disk.contacts \in SUBSET Orders /\ disk.outbox \in Seq(Orders)
    BY DEF IInv, TablesOK, Tables
  <2> QED BY <2>1 DEF IInv, TablesOK, ReaderOK, TypeOK, Row
<1> QED BY <1>1, Invariance, PTL

(* The committed total of every order is the sum of its items, for any items and
   prices: what add_item and checkout commit is never a partial sum or one that
   overflowed. *)
THEOREM TotalsFit == Spec => []TotalsAddUp
<1>1. IInv => TotalsAddUp
  BY DEF IInv
<1> QED BY <1>1, Invariance, PTL

(* get_order_with_items shows a total that is the sum of the first items it
   lists, however many transactions commit between its two queries. *)
THEOREM ReadersAddUp == Spec => []ReadAddsUp
<1>1. IInv => ReadAddsUp
  BY DEF IInv, ReaderOK
<1> QED BY <1>1, Invariance, PTL

-----------------------------------------------------------------------------
(* The repository implements the order book. *)

BookOf(tables) ==
  [o \in Orders |->
     IF tables.orders[o] = None THEN None
     ELSE [currency |-> tables.orders[o].currency, items |-> tables.items[o],
           contact |-> o \in tables.contacts]]

SoldIn(book) == UNION {ToSet(book[o].items) : o \in {p \in Orders : book[p] # None}}

Entry(currency, items, contact) ==
  [currency |-> currency, items |-> items, contact |-> contact]

HasContact(tables, o) == o \in tables.contacts

(* A contact is there or not. *)
LEMMA ContactFlag ==
  ASSUME NEW tables, NEW o
  PROVE  HasContact(tables, o) \in BOOLEAN
  BY DEF HasContact

(* An entry of the book is not None. *)
LEMMA SomeEntry ==
  ASSUME NEW c \in Currencies, NEW s \in Seq(Items), NEW b \in BOOLEAN
  PROVE  Entry(c, s, b) # None /\ Entry(c, s, b).items = s
<1>1. Entry(c, s, b) \in [currency : Currencies, items : Seq(Items), contact : BOOLEAN]
  BY DEF Entry
<1>2. Entry(c, s, b) # None
  BY <1>1, OrderAssumption
<1> QED BY <1>2 DEF Entry

(* The entry of an order that exists. *)
LEMMA EntryIs ==
  ASSUME NEW tables, NEW o \in Orders, tables.orders[o] # None
  PROVE  BookOf(tables)[o]
           = Entry(tables.orders[o].currency, tables.items[o], HasContact(tables, o))
  BY DEF BookOf, Entry, HasContact

(* An order that exists has an entry with its items. *)
LEMMA EntryIsSome ==
  ASSUME NEW tables, TablesOK(tables), NEW o \in Orders, tables.orders[o] # None
  PROVE  BookOf(tables)[o] # None /\ BookOf(tables)[o].items = tables.items[o]
<1>1. tables.orders[o].currency \in Currencies /\ tables.items[o] \in Seq(Items)
  BY DEF TablesOK, Tables, Row
<1>2. HasContact(tables, o) \in BOOLEAN
  BY ContactFlag
<1> QED BY <1>1, <1>2, EntryIs, SomeEntry

(* An order that does not exist has none. *)
LEMMA EntryIsNone ==
  ASSUME NEW tables, NEW o \in Orders, tables.orders[o] = None
  PROVE  BookOf(tables)[o] = None
  BY DEF BookOf

(* An order that was not touched keeps its entry. *)
LEMMA EntryAsBefore ==
  ASSUME NEW base, NEW tables, NEW o \in Orders,
         tables.orders[o] = base.orders[o], tables.items[o] = base.items[o],
         (o \in tables.contacts) = (o \in base.contacts)
  PROVE  BookOf(tables)[o] = BookOf(base)[o]
  BY DEF BookOf

(* What the book has sold are items in the tables. *)
LEMMA SoldAreIds ==
  ASSUME NEW tables, TablesOK(tables), NEW i \in SoldIn(BookOf(tables))
  PROVE  i \in ItemIds(tables)
<1>1. PICK o \in Orders : BookOf(tables)[o] # None /\ i \in ToSet(BookOf(tables)[o].items)
  BY DEF SoldIn
<1>2. tables.orders[o] # None
  BY <1>1, EntryIsNone
<1>3. BookOf(tables)[o].items = tables.items[o]
  BY <1>2, EntryIsSome
<1> QED BY <1>1, <1>3 DEF ItemIds

(* A sequence without repetitions arranges its set of elements. *)
LEMMA Arranges ==
  ASSUME NEW items \in Seq(Items),
         \A m, n \in DOMAIN items : items[m] = items[n] => m = n
  PROVE  items \in SetToSeqs(ToSet(items))
<1>1. PICK k \in Nat : k = Len(items) /\ DOMAIN items = 1 .. k
  OBVIOUS
<1>2. PICK S : S = ToSet(items)
  OBVIOUS
<1>3. items \in [1 .. k -> S] /\ \A x \in S : \E n \in 1 .. k : items[n] = x
  BY <1>1, <1>2 DEF ToSet
<1>4. items \in Bijection(1 .. k, S)
  BY <1>1, <1>3 DEF Bijection, Injection, Surjection, IsInjective
<1>5. Cardinality(S) = k
  BY <1>4, FS_CountingElements DEF ExistsBijection
<1>6. \A m, n \in 1 .. k : m # n => items[m] # items[n]
  BY <1>1
<1> QED BY <1>2, <1>3, <1>5, <1>6 DEF SetToSeqs

(* What Open or Place of the book say, of the tables before and after. *)
Appears(base, tables) ==
  \E o \in Orders, currency \in Currencies, items \in Seq(Items), contact \in BOOLEAN :
    /\ BookOf(base)[o] = None
    /\ BookOf(tables) = [BookOf(base) EXCEPT ![o] =
         [currency |-> currency, items |-> items, contact |-> contact]]
    /\ tables.outbox = Append(base.outbox, o)
    /\ items = << >> => contact = FALSE
    /\ InCurrency(items, currency)
    /\ ToSet(items) \in SUBSET (Items \ SoldIn(BookOf(base)))
    /\ items \in SetToSeqs(ToSet(items))

(* What Extend of the book says. *)
Grows(base, tables) ==
  \E o \in Orders, i \in Items :
    /\ BookOf(base)[o] # None
    /\ i \notin SoldIn(BookOf(base))
    /\ BookOf(tables) = [BookOf(base) EXCEPT ![o].items = Append(@, i)]
    /\ tables.outbox = base.outbox

(* A transaction that announced its order makes it appear in the book. *)
LEMMA AnnouncedAppears ==
  ASSUME NEW base, TablesOK(base), NEW t, Announced(base, t), TablesOK(t.tables)
  PROVE  Appears(base, t.tables)
<1>1. PICK o \in Orders, currency \in Currencies :
        /\ Grown(base, t.tables, o, currency, SumOf(t.tables.items[o]))
        /\ Reached(base, t.tables, o) /\ t.tables.outbox = Append(base.outbox, o)
  BY DEF Announced
<1>2. PICK tables : tables = t.tables
  OBVIOUS
<1>3. PICK items \in Seq(Items) : items = tables.items[o]
  BY <1>2 DEF TablesOK, Tables
<1>4. PICK contact \in BOOLEAN : contact = HasContact(tables, o)
  BY ContactFlag
<1>5. PICK sum \in Nat : sum = SumOf(items)
  BY SumOfItems
<1>6. /\ tables.orders[o] # None /\ tables.orders[o].currency = currency
      /\ \A p \in Orders : p # o => tables.orders[p] = base.orders[p]
  BY <1>1, <1>2, <1>3, <1>5, GrownRow
<1>7. base.orders[o] = None /\ BookOf(base)[o] = None
  BY <1>1, EntryIsNone DEF Grown
<1>8. PICK entry : entry = Entry(currency, items, contact)
  OBVIOUS
<1>9. BookOf(tables)[o] = entry
  BY <1>2, <1>3, <1>4, <1>6, <1>8, EntryIs
<1>10. \A p \in Orders : p # o => BookOf(tables)[p] = BookOf(base)[p]
  <2> SUFFICES ASSUME NEW p \in Orders, p # o PROVE BookOf(tables)[p] = BookOf(base)[p]
    OBVIOUS
  <2>1. tables.items[p] = base.items[p]
    BY <1>1, <1>2 DEF Grown
  <2>2. (p \in tables.contacts) = (p \in base.contacts)
    BY <1>1, <1>2 DEF Reached
  <2> QED BY <1>6, <2>1, <2>2, EntryAsBefore
<1>11. BookOf(tables) = [BookOf(base) EXCEPT ![o] = entry]
  <2>1. DOMAIN BookOf(tables) = Orders /\ DOMAIN BookOf(base) = Orders
    BY DEF BookOf
  <2>2. /\ BookOf(tables) = [p \in Orders |-> BookOf(tables)[p]]
        /\ BookOf(base) = [p \in Orders |-> BookOf(base)[p]]
    BY DEF BookOf
  <2> QED BY <1>9, <1>10, <2>1, <2>2
<1>12. items = << >> => contact = FALSE
  <2>1. o \notin base.contacts
    BY <1>7, EmptyNowhere
  <2> QED BY <1>1, <1>2, <1>3, <1>4, <2>1 DEF Reached, HasContact
<1>13. InCurrency(items, currency)
  BY <1>1, <1>2, <1>3 DEF Grown
<1>14. ToSet(items) \in SUBSET (Items \ SoldIn(BookOf(base)))
  <2> SUFFICES ASSUME NEW m \in DOMAIN items PROVE items[m] \in Items \ SoldIn(BookOf(base))
    BY DEF ToSet
  <2>1. items[m] \in Items
    OBVIOUS
  <2>2. ASSUME items[m] \in SoldIn(BookOf(base)) PROVE FALSE
    <3>1. PICK i : i = items[m] /\ i \in SoldIn(BookOf(base))
      BY <2>2
    <3>2. PICK p \in Orders : \E n \in DOMAIN base.items[p] : base.items[p][n] = i
      BY <3>1, SoldAreIds DEF ItemIds, ToSet
    <3>3. p # o
      BY <1>7, <3>2, EmptyNowhere
    <3>4. tables.items[p] = base.items[p]
      BY <1>1, <1>2, <3>3 DEF Grown
    <3> QED BY <1>2, <1>3, <3>1, <3>2, <3>3, <3>4 DEF TablesOK
  <2> QED BY <2>1, <2>2
<1>15. items \in SetToSeqs(ToSet(items))
  <2>1. \A m, n \in DOMAIN items : items[m] = items[n] => m = n
    BY <1>2, <1>3 DEF TablesOK
  <2> QED BY <2>1, Arranges
<1>16. PICK chosen : chosen = ToSet(items)
  OBVIOUS
<1> QED
  <2>1. /\ BookOf(base)[o] = None
        /\ BookOf(tables) = [BookOf(base) EXCEPT ![o] =
             [currency |-> currency, items |-> items, contact |-> contact]]
        /\ tables.outbox = Append(base.outbox, o)
        /\ items = << >> => contact = FALSE
    BY <1>1, <1>2, <1>7, <1>8, <1>11, <1>12 DEF Entry
  <2> QED BY <1>2, <1>13, <1>14, <1>15, <2>1 DEF Appears

(* A transaction of add_item extends an order of the book. *)
LEMMA TotalledExtends ==
  ASSUME NEW base, TablesOK(base), NEW t, Totalled(base, t), TablesOK(t.tables)
  PROVE  Grows(base, t.tables)
<1>1. PICK tables : tables = t.tables
  OBVIOUS
<1>2. PICK o \in Orders :
        /\ Extended(base, tables, o)
        /\ tables.orders = [base.orders EXCEPT ![o] =
             [currency |-> base.orders[o].currency, total |-> SumOf(tables.items[o])]]
  BY <1>1 DEF Totalled
<1>3. PICK i \in Items : /\ i \notin ItemIds(base)
                         /\ tables.items = [base.items EXCEPT ![o] = Append(@, i)]
  BY <1>2 DEF Extended
<1>4. /\ base.orders[o] # None
      /\ tables.contacts = base.contacts /\ tables.outbox = base.outbox
  BY <1>2 DEF Extended, Quiet
<1>5. /\ base.items \in [Orders -> Seq(Items)] /\ base.orders \in [Orders -> Row \cup {None}]
      /\ base.orders[o] \in Row
  BY <1>4 DEF TablesOK, Tables
<1>6. PICK sum \in Nat : sum = SumOf(tables.items[o])
  BY <1>1, SumIsNat
<1>7. PICK c \in Currencies : c = base.orders[o].currency
  BY <1>5 DEF Row
<1>8. PICK row : row = [currency |-> c, total |-> sum]
  OBVIOUS
<1>9. row # None /\ row.currency = c /\ tables.orders = [base.orders EXCEPT ![o] = row]
  BY <1>2, <1>6, <1>7, <1>8, OrderAssumption
<1>10. /\ tables.orders[o] # None /\ tables.orders[o].currency = c
       /\ \A p \in Orders : p # o => tables.orders[p] = base.orders[p]
  BY <1>5, <1>9
<1>11. PICK old, new \in Seq(Items) :
         old = base.items[o] /\ new = tables.items[o] /\ new = Append(old, i)
  <2>1. base.items[o] \in Seq(Items) /\ tables.items[o] = Append(base.items[o], i)
    BY <1>3, <1>5
  <2>2. PICK old \in Seq(Items) : old = base.items[o]
    BY <2>1
  <2>3. Append(old, i) \in Seq(Items)
    OBVIOUS
  <2> QED BY <2>1, <2>2, <2>3
<1>12. PICK contact \in BOOLEAN : contact = HasContact(base, o)
  BY ContactFlag
<1>13. contact = HasContact(tables, o)
  BY <1>4, <1>12 DEF HasContact
<1>14. BookOf(base)[o] = Entry(c, old, contact) /\ BookOf(base)[o] # None
  BY <1>4, <1>7, <1>11, <1>12, EntryIs, SomeEntry
<1>15. BookOf(tables)[o] = Entry(c, new, contact)
  BY <1>10, <1>11, <1>13, EntryIs
<1>16. PICK before, after : before = Entry(c, old, contact) /\ after = Entry(c, new, contact)
  OBVIOUS
<1>17. after = [before EXCEPT !.items = Append(@, i)]
  <2>1. before.items = old /\ after = [before EXCEPT !.items = new]
    BY <1>16 DEF Entry
  <2>2. Append(before.items, i) = new
    BY <1>11, <2>1
  <2> QED BY <2>1, <2>2
<1>18. \A p \in Orders : p # o => BookOf(tables)[p] = BookOf(base)[p]
  <2> SUFFICES ASSUME NEW p \in Orders, p # o PROVE BookOf(tables)[p] = BookOf(base)[p]
    OBVIOUS
  <2>1. tables.items[p] = base.items[p]
    BY <1>3, <1>5
  <2> QED BY <1>4, <1>10, <2>1, EntryAsBefore
<1>19. BookOf(tables) = [BookOf(base) EXCEPT ![o].items = Append(@, i)]
  <2>1. PICK b : b = BookOf(base)
    OBVIOUS
  <2>2. b = [p \in Orders |-> b[p]] /\ BookOf(tables) = [p \in Orders |-> BookOf(tables)[p]]
    BY <2>1 DEF BookOf
  <2>3. BookOf(tables) = [b EXCEPT ![o] = after]
    BY <1>15, <1>16, <1>18, <2>1, <2>2
  <2>4. [b EXCEPT ![o].items = Append(@, i)] = [b EXCEPT ![o] = [b[o] EXCEPT !.items = Append(@, i)]]
    BY <2>2
  <2> QED BY <1>14, <1>16, <1>17, <2>1, <2>3, <2>4
<1>20. i \notin SoldIn(BookOf(base))
  BY <1>3, SoldAreIds
<1> QED BY <1>1, <1>4, <1>14, <1>19, <1>20 DEF Grows

(* An empty database is an empty book. *)
LEMMA InitBook == Init => Book!Init
<1> SUFFICES ASSUME Init PROVE Book!Init
  OBVIOUS
<1>1. \A o \in Orders : disk.orders[o] = None
  BY DEF Init
<1>2. disk.outbox = << >>
  BY DEF Init
<1> QED BY <1>1, <1>2 DEF Book!Init

(* Only a commit changes the book, by one step of it. *)
LEMMA StepBook == IInv /\ [Next]_vars => [Book!Next]_Book!vars
<1> SUFFICES ASSUME IInv, [Next]_vars PROVE [Book!Next]_Book!vars
  OBVIOUS
<1>1. CASE disk' = disk
  BY <1>1 DEF Book!vars
<1>2. CASE Commit
  <2>1. /\ tx # None /\ tx.todo = << >> /\ disk' = tx.tables
    BY <1>2 DEF Commit
  <2>2. TablesOK(disk) /\ TablesOK(tx.tables) /\ Shape(disk, tx) /\ AddUp(disk)
    BY <2>1 DEF IInv, TxOK, TotalsAddUp, AddUp
  <2>3. Announced(disk, tx) \/ Totalled(disk, tx)
    BY <2>1, <2>2, Finished
  <2>4. CASE Announced(disk, tx)
    <3>1. PICK o \in Orders, currency \in Currencies, items \in Seq(Items), contact \in BOOLEAN :
            /\ BookOf(disk)[o] = None
            /\ BookOf(disk') = [BookOf(disk) EXCEPT ![o] =
                 [currency |-> currency, items |-> items, contact |-> contact]]
            /\ disk'.outbox = Append(disk.outbox, o)
            /\ items = << >> => contact = FALSE
            /\ InCurrency(items, currency)
            /\ ToSet(items) \in SUBSET (Items \ SoldIn(BookOf(disk)))
            /\ items \in SetToSeqs(ToSet(items))
      <4>1. Appears(disk, disk')
        BY <2>1, <2>2, <2>4, AnnouncedAppears
      <4> QED BY <4>1 DEF Appears
    <3>2. Book!Appear(o, currency, items, contact)
      BY <3>1 DEF Book!Appear, BookOf
    <3>3. CASE items = << >>
      <4>1. Book!Open(o, currency)
        BY <3>1, <3>2, <3>3 DEF Book!Open
      <4> QED BY <4>1 DEF Book!Next
    <3>4. CASE items # << >>
      <4>1. PICK chosen : chosen = ToSet(items)
        OBVIOUS
      <4>2. chosen \in (SUBSET (Items \ Book!Sold)) \ {{}}
        <5>1. Book!Sold = SoldIn(BookOf(disk))
          BY DEF Book!Sold, SoldIn, BookOf, Book!ToSet, ToSet
        <5>2. chosen # {}
          <6>1. 1 \in DOMAIN items
            BY <3>4
          <6> QED BY <4>1, <6>1 DEF ToSet
        <5> QED BY <3>1, <4>1, <5>1, <5>2
      <4>3. \A i \in chosen : CurrencyOf(i) = currency
        BY <3>1, <4>1 DEF InCurrency, ToSet
      <4>4. items \in Book!SetToSeqs(chosen)
        BY <3>1, <4>1 DEF SetToSeqs, Book!SetToSeqs, Cardinality, Book!Cardinality
      <4>5. Book!Place(o, currency, contact)
        BY <3>2, <4>2, <4>3, <4>4 DEF Book!Place
      <4> QED BY <4>5 DEF Book!Next
    <3> QED BY <3>3, <3>4
  <2>5. CASE Totalled(disk, tx)
    <3>1. PICK o \in Orders, i \in Items :
            /\ BookOf(disk)[o] # None
            /\ i \notin SoldIn(BookOf(disk))
            /\ BookOf(disk') = [BookOf(disk) EXCEPT ![o].items = Append(@, i)]
            /\ disk'.outbox = disk.outbox
      <4>1. Grows(disk, disk')
        BY <2>1, <2>2, <2>5, TotalledExtends
      <4> QED BY <4>1 DEF Grows
    <3>2. Book!Extend(o, i)
      BY <3>1 DEF Book!Extend, BookOf, Book!Sold, SoldIn, Book!ToSet, ToSet
    <3> QED BY <3>2 DEF Book!Next
  <2> QED BY <2>3, <2>4, <2>5
<1>3. disk' = disk \/ Commit
  BY DEF Next, vars, Write, CreateOrder, AddItem, Checkout, Begin, Execute, Rollback, ReadRow,
         ReadItems, Leave
<1> QED BY <1>1, <1>2, <1>3

(* OrderRepo implements OrderBook: every step of the statements, commits,
   rollbacks and readers is a step of the book or leaves it as it is. *)
THEOREM OrdersAppearWhole == Spec => ImplementsOrderBook
<1>1. Init => Book!Init
  BY InitBook
<1>2. IInv /\ [Next]_vars => [Book!Next]_Book!vars
  BY StepBook
<1> QED BY <1>1, <1>2, Invariance, PTL DEF Spec, Book!Spec, ImplementsOrderBook
=============================================================================
