----------------------------- MODULE OrderBook ------------------------------
(***************************************************************************)
(* What the orders repository promises: orders that appear whole, are      *)
(* announced once, and only grow.                                          *)
(***************************************************************************)
EXTENDS Sequences, SequencesExt

CONSTANTS
  Orders, Currencies, Items,
  CurrencyOf(_),  \* the currency an item is sold in
  None

VARIABLES
  book,      \* book[o]: [currency, items, contact], or None
  announced  \* orders in the sequence of their OrderCreated events

vars == <<book, announced>>

Init ==
  /\ book = [o \in Orders |-> None]
  /\ announced = << >>

Sold == UNION {ToSet(book[o].items) : o \in {p \in Orders : book[p] # None}}

Appear(o, currency, items, contact) ==
  /\ book[o] = None
  /\ book' = [book EXCEPT ![o] = [currency |-> currency, items |-> items, contact |-> contact]]
  /\ announced' = Append(announced, o)

Open(o, currency) == Appear(o, currency, << >>, FALSE)

(* A checkout: all items at once, at least one, in the order's currency. *)
Place(o, currency, contact) ==
  \E chosen \in (SUBSET (Items \ Sold)) \ {{}} :
    /\ \A i \in chosen : CurrencyOf(i) = currency
    /\ \E items \in SetToSeqs(chosen) : Appear(o, currency, items, contact)

Extend(o, item) ==
  /\ book[o] # None
  /\ item \notin Sold
  /\ book' = [book EXCEPT ![o].items = Append(@, item)]
  /\ UNCHANGED announced

Next ==
  \/ \E o \in Orders, currency \in Currencies :
       \/ Open(o, currency)
       \/ \E contact \in BOOLEAN : Place(o, currency, contact)
  \/ \E o \in Orders, item \in Items : Extend(o, item)

Spec == Init /\ [][Next]_vars
=============================================================================
