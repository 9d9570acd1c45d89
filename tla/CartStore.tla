----------------------------- MODULE CartStore -----------------------------
(***************************************************************************)
(* The cart tables of orders.db and the writes of crates/orders/src/       *)
(* cart_repo.rs.  Each operation is one transaction on the only writer     *)
(* connection.  A row of cart_items keeps, next to product and quantity,   *)
(* the snapshot of the catalog card (price, currency, title) it was added  *)
(* with.  Variants are not modelled: the storefront always passes None.    *)
(***************************************************************************)
EXTENDS Naturals, FiniteSets

CONSTANTS
  Products,
  Cards,     \* what the catalog can show of a product: [price, currency]
  MaxQty,    \* MAX_QTY (999 in the code)
  MaxCarts,  \* bound: carts created
  MaxRows    \* bound: ids AUTOINCREMENT hands out in cart_items

ASSUME CartAssumption ==
  /\ \A c \in Cards : DOMAIN c = {"price", "currency"}
  /\ MaxQty \in Nat \ {0}
  /\ MaxCarts \in Nat
  /\ MaxRows \in Nat

CartIds == 1 .. MaxCarts
RowIds  == 1 .. MaxRows

CartRow == [id : RowIds, cart : CartIds, product : Products, qty : 1 .. MaxQty,
            card : Cards]

VARIABLES
  carts,    \* how many carts were created; carts are never deleted
  rows,     \* the rows of cart_items
  lastRow   \* the last id of cart_items; ids are not used again

cartVars == <<carts, rows, lastRow>>

CartInit ==
  /\ carts = 0
  /\ rows = {}
  /\ lastRow = 0

ListItems(cart) == {r \in rows : r.cart = cart}

(* list_items is ordered by id. *)
FirstOf(some) == CHOOSE r \in some : \A s \in some : r.id <= s.id

-----------------------------------------------------------------------------
(* create_cart; the new cart is carts'. *)
CreateCart ==
  /\ carts < MaxCarts
  /\ carts' = carts + 1
  /\ UNCHANGED <<rows, lastRow>>

(* Mutant: the cap of the accumulated quantity is lost. *)
AddedQty_NoCap(have, qty) == have + qty

(* qty = MIN(qty + excluded.qty, MAX_QTY) *)
AddedQty(have, qty) == IF have + qty > MaxQty THEN MaxQty ELSE have + qty

(* add_item: ON CONFLICT (cart_id, product_id) the quantities add up and the
   snapshot is taken anew; AUTOINCREMENT gives the other rows a new id. *)
AddItem(cart, product, qty, card) ==
  LET same == {r \in ListItems(cart) : r.product = product} IN
  /\ qty \in 1 .. MaxQty
  /\ \/ /\ same = {}
        /\ lastRow < MaxRows
        /\ lastRow' = lastRow + 1
        /\ rows' = rows \cup {[id |-> lastRow + 1, cart |-> cart, product |-> product,
                               qty |-> qty, card |-> card]}
     \/ /\ same # {}
        /\ rows' = (rows \ same) \cup
                   {[r EXCEPT !.qty = AddedQty(r.qty, qty), !.card = card] : r \in same}
        /\ UNCHANGED lastRow
  /\ UNCHANGED carts

(* WHERE id = ? AND cart_id = ? *)
OwnRow(cart, id) == {r \in rows : r.id = id /\ r.cart = cart}

RemoveItem(cart, id) ==
  /\ rows' = rows \ OwnRow(cart, id)
  /\ UNCHANGED <<carts, lastRow>>

(* update_qty, within its bounds; a quantity of 0 deletes the row. *)
UpdateQty(cart, id, qty) ==
  \/ qty = 0 /\ RemoveItem(cart, id)
  \/ /\ qty \in 1 .. MaxQty
     /\ rows' = (rows \ OwnRow(cart, id)) \cup
                {[r EXCEPT !.qty = qty] : r \in OwnRow(cart, id)}
     /\ UNCHANGED <<carts, lastRow>>

Clear(cart) ==
  /\ rows' = rows \ ListItems(cart)
  /\ UNCHANGED <<carts, lastRow>>
=============================================================================
