----------------------------- MODULE OrderRepo ------------------------------
(***************************************************************************)
(* OrderRepo of crates/orders, statement by statement: a write is a plan   *)
(* of SQL statements run in one transaction on the only writer connection; *)
(* any statement may fail, and the caller may go away between any two,     *)
(* which rolls back.  Readers see the committed tables and read an order   *)
(* and its items by two queries.                                           *)
(***************************************************************************)
EXTENDS Naturals, Sequences, SequencesExt

CONSTANTS
  Orders, Currencies,
  Items,          \* positions: an id with the price and currency it is sold at
  PriceOf(_), CurrencyOf(_),
  MaxTotal,       \* the largest sum SQLite's SUM returns without an overflow
  MaxItems,       \* bound: items of a checkout
  None

(* Ids are uuids: there are finitely many. *)
ASSUME OrderAssumption ==
  /\ IsFiniteSet(Items)
  /\ \A i \in Items : PriceOf(i) \in Nat /\ CurrencyOf(i) \in Currencies
  /\ MaxTotal \in Nat /\ MaxItems \in Nat
  /\ None \notin Orders
  /\ None \notin [currency : Currencies, total : Nat]
  /\ None \notin [currency : Currencies, items : Seq(Items), contact : BOOLEAN]

VARIABLES
  disk,   \* the committed tables of orders.db
  tx,     \* the transaction: its statements still to run and its tables, or None
  reader  \* a call of get_order_with_items

vars == <<disk, tx, reader>>

Idle == [at |-> "idle"]

Init ==
  /\ disk = [orders |-> [o \in Orders |-> None],  \* [currency, total]
             items |-> [o \in Orders |-> << >>],   \* the items of o by rowid
             contacts |-> {}, outbox |-> << >>]
  /\ tx = None
  /\ reader = Idle

SumOf(items) == FoldSeq(LAMBDA i, sum : PriceOf(i) + sum, 0, items)

ItemIds(tables) == UNION {ToSet(tables.items[o]) : o \in Orders}

-----------------------------------------------------------------------------
(* Statements. *)

InsertOrder(o, currency) == [sql |-> "insert order", order |-> o, currency |-> currency]
InsertItem(o, i) == [sql |-> "insert item", order |-> o, id |-> i]
UpdateTotal(o) == [sql |-> "update total", order |-> o]
InsertContact(o) == [sql |-> "insert contact", order |-> o]
Enqueue(o) == [sql |-> "enqueue", order |-> o]

(* Mutant: foreign keys are switched off. *)
Refused_NoForeignKeys(s, tables) ==
  \/ s.sql = "insert order" /\ tables.orders[s.order] # None
  \/ s.sql = "insert item" /\ s.id \in ItemIds(tables)
  \/ s.sql = "update total" /\ SumOf(tables.items[s.order]) > MaxTotal

(* Primary keys, foreign keys, and the overflow of SUM. *)
Refused(s, tables) ==
  \/ s.sql = "insert order" /\ tables.orders[s.order] # None
  \/ /\ s.sql = "insert item"
     /\ s.id \in ItemIds(tables) \/ tables.orders[s.order] = None
  \/ s.sql = "update total" /\ SumOf(tables.items[s.order]) > MaxTotal

Result(s, tables) ==
  CASE s.sql = "insert order" ->
         [tables EXCEPT !.orders[s.order] = [currency |-> s.currency, total |-> 0]]
    [] s.sql = "insert item" ->
         [tables EXCEPT !.items[s.order] = Append(@, s.id)]
    [] s.sql = "update total" ->
         IF tables.orders[s.order] = None THEN tables
         ELSE [tables EXCEPT !.orders[s.order].total = SumOf(tables.items[s.order])]
    [] s.sql = "insert contact" -> [tables EXCEPT !.contacts = @ \cup {s.order}]
    [] s.sql = "enqueue" -> [tables EXCEPT !.outbox = Append(@, s.order)]

-----------------------------------------------------------------------------
(* The writes, as what they send between begin and commit. *)

Begin(plan) ==
  /\ tx = None
  /\ tx' = [todo |-> plan, tables |-> disk]
  /\ UNCHANGED <<disk, reader>>

CreateOrder(o, currency) == Begin(<<InsertOrder(o, currency), Enqueue(o)>>)

(* Mutant: the total is not renewed. *)
AddItem_NoTotal(o, i) == Begin(<<InsertItem(o, i)>>)

AddItem(o, i) == Begin(<<InsertItem(o, i), UpdateTotal(o)>>)

(* Mutant: the event is sent only with a contact. *)
Checkout_EventWithContact(o, currency, items, contact) ==
  /\ items # << >>
  /\ \A i \in ToSet(items) : CurrencyOf(i) = currency
  /\ disk.orders[o] = None
  /\ Begin(<<InsertOrder(o, currency)>>
           \o [n \in DOMAIN items |-> InsertItem(o, items[n])]
           \o <<UpdateTotal(o)>>
           \o (IF contact THEN <<InsertContact(o), Enqueue(o)>> ELSE << >>))

(* checkout: no items and mixed currencies are refused before anything is
   written.  The id of the order is a new uuid; those of its items are the caller's,
   and one that is there or comes twice is refused by the primary key. *)
Checkout(o, currency, items, contact) ==
  /\ items # << >>
  /\ \A i \in ToSet(items) : CurrencyOf(i) = currency
  /\ disk.orders[o] = None
  /\ Begin(<<InsertOrder(o, currency)>>
           \o [n \in DOMAIN items |-> InsertItem(o, items[n])]
           \o <<UpdateTotal(o)>>
           \o (IF contact THEN <<InsertContact(o)>> ELSE << >>)
           \o <<Enqueue(o)>>)

(* The next statement runs, or its error drops the transaction. *)
Execute ==
  /\ tx # None
  /\ tx.todo # << >>
  /\ tx' = IF Refused(Head(tx.todo), tx.tables)
             THEN None
             ELSE [todo |-> Tail(tx.todo), tables |-> Result(Head(tx.todo), tx.tables)]
  /\ UNCHANGED <<disk, reader>>

Commit ==
  /\ tx # None
  /\ tx.todo = << >>
  /\ disk' = tx.tables
  /\ tx' = None
  /\ UNCHANGED reader

(* A failed statement or commit, a dropped call, or the end of the process. *)
Rollback ==
  /\ tx # None
  /\ tx' = None
  /\ UNCHANGED <<disk, reader>>

-----------------------------------------------------------------------------
(* get_order_with_items, which the confirmation page shows. *)

(* Mutant: readers share the connection of the writer. *)
Visible_Dirty == IF tx = None THEN disk ELSE tx.tables

(* Readers have connections of their own: what is committed. *)
Visible == disk

(* SELECT ... FROM orders; `before` is history. *)
ReadRow(o) ==
  /\ reader.at = "idle"
  /\ reader' = IF Visible.orders[o] = None
                 THEN [at |-> "missing"]
                 ELSE [at |-> "items", order |-> o, row |-> Visible.orders[o],
                       before |-> Visible.items[o]]
  /\ UNCHANGED <<disk, tx>>

(* fetch_items *)
ReadItems ==
  /\ reader.at = "items"
  /\ reader' = [at |-> "answered", order |-> reader.order, row |-> reader.row,
                before |-> reader.before, items |-> Visible.items[reader.order]]
  /\ UNCHANGED <<disk, tx>>

(* The answer is taken, or the call dropped. *)
Leave ==
  /\ reader.at # "idle"
  /\ reader' = Idle
  /\ UNCHANGED <<disk, tx>>

Write ==
  \/ \E o \in Orders, currency \in Currencies :
       \/ CreateOrder(o, currency)
       \/ \E items \in SeqOf(Items, MaxItems), contact \in BOOLEAN :
            Checkout(o, currency, items, contact)
  \/ \E o \in Orders, i \in Items : AddItem(o, i)

Next ==
  \/ Write \/ Execute \/ Commit \/ Rollback
  \/ (\E o \in Orders : ReadRow(o)) \/ ReadItems \/ Leave

Spec == Init /\ [][Next]_vars

-----------------------------------------------------------------------------
(* Types; every item and contact belongs to an order that exists, and every
   item id occurs once. *)
TypeOK ==
  /\ disk.orders \in [Orders -> [currency : Currencies, total : 0 .. MaxTotal] \cup {None}]
  /\ disk.items \in [Orders -> Seq(Items)]
  /\ \A o \in Orders : disk.orders[o] = None => disk.items[o] = << >>
  /\ \A o, p \in Orders : \A m \in DOMAIN disk.items[o], n \in DOMAIN disk.items[p] :
       disk.items[o][m] = disk.items[p][n] => o = p /\ m = n
  /\ disk.contacts \subseteq {o \in Orders : disk.orders[o] # None}
  /\ disk.outbox \in Seq(Orders)
  /\ reader.at \in {"idle", "items", "answered", "missing"}

(* Whatever mixture of create_order, add_item and checkout was tried, failed
   half way or was dropped, the committed total of an order is the exact sum of
   its items; a sum that cannot be represented is never committed. *)
TotalsAddUp ==
  \A o \in Orders : disk.orders[o] # None =>
    /\ disk.orders[o].total = SumOf(disk.items[o])
    /\ disk.orders[o].total <= MaxTotal

(* The two queries of get_order_with_items fit together: the total is that of
   the items there were when it was read, and the items listed are those,
   followed by what was added since.  An order that does not grow is therefore
   shown with the sum of what is listed. *)
ReadAddsUp ==
  reader.at = "answered" =>
    /\ reader.row.total = SumOf(reader.before)
    /\ IsPrefix(reader.before, reader.items)

Book ==
  INSTANCE OrderBook WITH
    book <- [o \in Orders |->
               IF disk.orders[o] = None THEN None
               ELSE [currency |-> disk.orders[o].currency, items |-> disk.items[o],
                     contact |-> o \in disk.contacts]],
    announced <- disk.outbox

(* The repository implements the order book: an order appears with all items of
   its checkout, its contact and its one event, or not at all. *)
ImplementsOrderBook == Book!Spec
=============================================================================
