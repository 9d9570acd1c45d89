----------------------------- MODULE Storefront -----------------------------
(***************************************************************************)
(* The buying side of crates/web: POST /cart/add, /cart/update,            *)
(* /cart/remove (routes/cart.rs) and POST /checkout (routes/checkout.rs),  *)
(* over CartStore, the published cards of the catalog and                  *)
(* OrderRepo::checkout (crates/orders/src/repository.rs).                  *)
(*                                                                         *)
(* A tab of a browser has one request under way; each database call its    *)
(* handler awaits is one step.  A request carries the cookie the browser   *)
(* had when it was sent, and the cookie changes when the response arrives. *)
(* A handler may be dropped at any await (the client is gone, the process  *)
(* stops); sellers change the catalog at any moment.                       *)
(***************************************************************************)
EXTENDS CartStore, Sequences

CONSTANTS
  Tabs,
  Browser,   \* Browser[t]: the browser tab t belongs to; tabs share its cookie
  None,
  MaxOrders, \* bound: orders written
  MaxEdits   \* bound: changes of the catalog

Browsers == {Browser[t] : t \in Tabs}

NoCart == 0  \* no cart cookie
NoSet  == None  \* the response has no Set-Cookie

ASSUME StorefrontAssumption ==
  /\ DOMAIN Browser = Tabs
  /\ None \notin Cards
  /\ None \notin CartIds
  /\ MaxOrders \in Nat
  /\ MaxEdits \in Nat

VARIABLES
  cards,   \* cards[p]: the card of p while p is published, else None
  edits,   \* changes of the catalog so far
  cookie,  \* cookie[b]: the cart named by the cookie of browser b, or NoCart
  req,     \* req[t]: how far the request of tab t is, with its locals
  orders,  \* orders with their items and their event, in the order of commit
  cut      \* history: carts one of whose requests ended half way

vars == <<cartVars, cards, edits, cookie, req, orders, cut>>

(* One line stands for the `qty` rows of order_items of one row of the cart. *)
Lines == [row : RowIds, product : Products, qty : 1 .. MaxQty, card : Cards]

Idle == [at |-> "idle"]

Init ==
  /\ CartInit
  /\ cards \in [Products -> Cards \cup {None}]
  /\ edits = 0
  /\ cookie = [b \in Browsers |-> NoCart]
  /\ req = [t \in Tabs |-> Idle]
  /\ orders = << >>
  /\ cut = {}

At(t, where) == req[t].at = where

Goto(t, next) == req' = [req EXCEPT ![t] = next]

(* A response changes the browser only by its Set-Cookie; without one the
   request is over. *)
Reply(setCookie) ==
  IF setCookie = NoSet THEN Idle ELSE [at |-> "reply", cookie |-> setCookie]

-----------------------------------------------------------------------------
(* The catalog, as the relay keeps changing it: a product is published, gets
   another price or currency, or is withdrawn.  What a running checkout might
   have read since it began is recorded with it. *)
CatalogChanges(p, card) ==
  /\ edits < MaxEdits
  /\ cards[p] # card
  /\ edits' = edits + 1
  /\ cards' = [cards EXCEPT ![p] = card]
  /\ req' = [t \in Tabs |->
               IF At(t, "cards") THEN [req[t] EXCEPT !.shown = @ \cup {<<p, card>>}]
                                 ELSE req[t]]
  /\ UNCHANGED <<cartVars, cookie, orders, cut>>

(* A tab sends a request. *)
Send(t) ==
  /\ At(t, "idle")
  /\ \/ \E p \in Products : Goto(t, [at |-> "slug", product |-> p, cart |-> cookie[Browser[t]]])
     \/ /\ cookie[Browser[t]] # NoCart
        /\ \/ \E id \in 1 .. lastRow :
                Goto(t, [at |-> "edit", id |-> id, cart |-> cookie[Browser[t]]])
           \/ Goto(t, [at |-> "list", cart |-> cookie[Browser[t]]])
  /\ UNCHANGED <<cartVars, cards, edits, cookie, orders, cut>>

-----------------------------------------------------------------------------
(* render_add: get_card_by_slug. *)
AddFindCard(t) ==
  /\ At(t, "slug")
  /\ Goto(t, IF cards[req[t].product] = None
               THEN Idle
               ELSE [at   |-> IF req[t].cart = NoCart THEN "create" ELSE "check",
                     item |-> [product |-> req[t].product, card |-> cards[req[t].product]],
                     cart |-> req[t].cart, set |-> NoSet])
  /\ UNCHANGED <<cartVars, cards, edits, cookie, orders, cut>>

(* get_or_create_cart, without a cookie. *)
AddCreateCart(t) ==
  /\ At(t, "create")
  /\ CreateCart
  /\ Goto(t, [req[t] EXCEPT !.at = "check", !.cart = carts', !.set = carts'])
  /\ UNCHANGED <<cards, edits, cookie, orders, cut>>

(* Mutant: the currency of the first item is not looked at. *)
SameCurrency_Any(cart, card) == TRUE

(* The first item of the cart stands for all. *)
SameCurrency(cart, card) ==
  ListItems(cart) # {} => FirstOf(ListItems(cart)).card.currency = card.currency

AddCheckCurrency(t) ==
  /\ At(t, "check")
  /\ Goto(t, IF SameCurrency(req[t].cart, req[t].item.card)
               THEN [req[t] EXCEPT !.at = "add"]
               ELSE Idle)
  /\ UNCHANGED <<cartVars, cards, edits, cookie, orders, cut>>

(* Mutant: the cookie of a new cart is not sent. *)
AddWrite_NoCookie(t, qty) ==
  /\ At(t, "add")
  /\ AddItem(req[t].cart, req[t].item.product, qty, req[t].item.card)
  /\ Goto(t, Idle)
  /\ UNCHANGED <<cards, edits, cookie, orders, cut>>

(* CartRepo::add_item and the redirect, with the cookie of a new cart. *)
AddWrite(t, qty) ==
  /\ At(t, "add")
  /\ AddItem(req[t].cart, req[t].item.product, qty, req[t].item.card)
  /\ Goto(t, Reply(req[t].set))
  /\ UNCHANGED <<cards, edits, cookie, orders, cut>>

(* InvalidQty: an error response, which sets no cookie. *)
AddRefused(t) ==
  /\ At(t, "add")
  /\ Goto(t, Idle)
  /\ UNCHANGED <<cartVars, cards, edits, cookie, orders, cut>>

(* render_update and render_remove; out of its bounds a quantity is refused. *)
EditCart(t) ==
  /\ At(t, "edit")
  /\ \/ \E qty \in 0 .. MaxQty : UpdateQty(req[t].cart, req[t].id, qty)
     \/ RemoveItem(req[t].cart, req[t].id)
     \/ UNCHANGED cartVars
  /\ Goto(t, Idle)
  /\ UNCHANGED <<cards, edits, cookie, orders, cut>>

-----------------------------------------------------------------------------
(* render_submit: list_items, then the form is validated. *)
CheckoutList(t) ==
  LET listed == ListItems(req[t].cart) IN
  /\ At(t, "list")
  /\ \/ /\ listed # {}
        /\ Goto(t, [at |-> "cards", cart |-> req[t].cart, listed |-> listed, lines |-> {},
                    shown |-> {<<p, cards[p]>> : p \in Products}])
     \/ Goto(t, Idle)
  /\ UNCHANGED <<cartVars, cards, edits, cookie, orders, cut>>

(* The rows whose card has not been read. *)
Unread(t) == {r \in req[t].listed : \A l \in req[t].lines : l.row # r.id}

LineOf(r, card) == [row |-> r.id, product |-> r.product, qty |-> r.qty, card |-> card]

(* Mutant: the price is the one the cart remembers. *)
CheckoutReadCard_CartPrice(t) ==
  /\ At(t, "cards")
  /\ Unread(t) # {}
  /\ LET r == FirstOf(Unread(t)) IN
       Goto(t, IF cards[r.product] = None
                 THEN Idle
                 ELSE [req[t] EXCEPT !.lines = @ \cup {LineOf(r, r.card)}])
  /\ UNCHANGED <<cartVars, cards, edits, cookie, orders, cut>>

(* Mutant: a row whose product is withdrawn is passed over. *)
CheckoutReadCard_Skip(t) ==
  /\ At(t, "cards")
  /\ Unread(t) # {}
  /\ LET r == FirstOf(Unread(t)) IN
       Goto(t, IF cards[r.product] = None
                 THEN [req[t] EXCEPT !.listed = @ \ {r}]
                 ELSE [req[t] EXCEPT !.lines = @ \cup {LineOf(r, cards[r.product])}])
  /\ UNCHANGED <<cartVars, cards, edits, cookie, orders, cut>>

(* get_card_by_id of the next row; a withdrawn product ends the checkout. *)
CheckoutReadCard(t) ==
  /\ At(t, "cards")
  /\ Unread(t) # {}
  /\ LET r == FirstOf(Unread(t)) IN
       Goto(t, IF cards[r.product] = None
                 THEN Idle
                 ELSE [req[t] EXCEPT !.lines = @ \cup {LineOf(r, cards[r.product])}])
  /\ UNCHANGED <<cartVars, cards, edits, cookie, orders, cut>>

(* Mutant: the order takes the items in whatever currencies they are. *)
CheckoutCommit_NoCheck(t) ==
  /\ At(t, "cards")
  /\ Unread(t) = {}
  /\ Len(orders) < MaxOrders
  /\ orders' = Append(orders, [cart |-> req[t].cart, lines |-> req[t].lines])
  /\ Goto(t, [at |-> "clear", cart |-> req[t].cart])
  /\ UNCHANGED <<cartVars, cards, edits, cookie, cut>>

(* The currency check, and OrderRepo::checkout: order, items, contact and
   OrderCreated in one transaction. *)
CheckoutCommit(t) ==
  LET lines == req[t].lines IN
  /\ At(t, "cards")
  /\ Unread(t) = {}
  /\ \/ /\ \A k, l \in lines : k.card.currency = l.card.currency
        /\ Len(orders) < MaxOrders
        /\ orders' = Append(orders, [cart |-> req[t].cart, lines |-> lines])
        /\ Goto(t, [at |-> "clear", cart |-> req[t].cart])
     \/ /\ \E k, l \in lines : k.card.currency # l.card.currency
        /\ Goto(t, Idle)
        /\ UNCHANGED orders
  /\ UNCHANGED <<cartVars, cards, edits, cookie, cut>>

(* Mutant: the cookie goes, the rows stay. *)
CheckoutClear_RowsStay(t) ==
  /\ At(t, "clear")
  /\ Goto(t, Reply(NoCart))
  /\ UNCHANGED <<cartVars, cards, edits, cookie, orders, cut>>

(* CartRepo::clear, and the redirect with the expired cookie. *)
CheckoutClear(t) ==
  /\ At(t, "clear")
  /\ Clear(req[t].cart)
  /\ Goto(t, Reply(NoCart))
  /\ UNCHANGED <<cards, edits, cookie, orders, cut>>

-----------------------------------------------------------------------------
(* The response reaches the browser. *)
Receive(t) ==
  /\ At(t, "reply")
  /\ cookie' = [cookie EXCEPT ![Browser[t]] = req[t].cookie]
  /\ Goto(t, Idle)
  /\ UNCHANGED <<cartVars, cards, edits, orders, cut>>

(* The carts a dropped request leaves in the middle of something: an order
   whose cart is not cleared, a cart whose cookie is not set. *)
HalfDone(r) ==
  CASE r.at = "clear" -> {r.cart}
    [] r.at \in {"check", "add"} -> {r.set} \ {NoSet}
    [] r.at = "reply" -> {r.cookie} \ {NoCart}
    [] OTHER -> {}

(* The connection is lost or the process stops: the handler is dropped at the
   await it is in, or its response does not arrive. *)
Drop(t) ==
  /\ ~ At(t, "idle")
  /\ cut' = cut \cup HalfDone(req[t])
  /\ Goto(t, Idle)
  /\ UNCHANGED <<cartVars, cards, edits, cookie, orders>>

-----------------------------------------------------------------------------
Next ==
  \/ \E p \in Products, card \in Cards \cup {None} : CatalogChanges(p, card)
  \/ \E t \in Tabs :
       \/ Send(t)
       \/ AddFindCard(t) \/ AddCreateCart(t) \/ AddCheckCurrency(t)
       \/ \E qty \in 1 .. MaxQty : AddWrite(t, qty)
       \/ AddRefused(t)
       \/ EditCart(t)
       \/ CheckoutList(t) \/ CheckoutReadCard(t) \/ CheckoutCommit(t) \/ CheckoutClear(t)
       \/ Receive(t) \/ Drop(t)

Spec == Init /\ [][Next]_vars

-----------------------------------------------------------------------------
(* Where a request can be, with the locals its handler holds there. *)
Requests ==
  {Idle}
  \cup [at : {"slug"}, product : Products, cart : 0 .. MaxCarts]
  \cup [at : {"create", "check", "add"}, item : [product : Products, card : Cards],
        cart : 0 .. MaxCarts, set : CartIds \cup {NoSet}]
  \cup [at : {"edit"}, id : RowIds, cart : CartIds]
  \cup [at : {"list", "clear"}, cart : CartIds]
  \cup [at : {"cards"}, cart : CartIds, listed : SUBSET CartRow, lines : SUBSET Lines,
        shown : SUBSET (Products \X (Cards \cup {None}))]
  \cup [at : {"reply"}, cookie : 0 .. MaxCarts]

(* Types; the quantity of a row stays within MAX_QTY however often it is added. *)
TypeOK ==
  /\ carts \in 0 .. MaxCarts
  /\ rows \subseteq CartRow
  /\ lastRow \in 0 .. MaxRows
  /\ cards \in [Products -> Cards \cup {None}]
  /\ edits \in 0 .. MaxEdits
  /\ cookie \in [Browsers -> 0 .. MaxCarts]
  /\ \A t \in Tabs : req[t] \in Requests
  /\ orders \in Seq([cart : CartIds, lines : SUBSET Lines])
  /\ cut \subseteq CartIds

(* cart.rs:61: all items of a cart are in one currency; the total the buyer is
   shown adds them up under the currency of the first. *)
CartInOneCurrency ==
  \A r, s \in rows : r.cart = s.cart => r.card.currency = s.card.currency

(* checkout.rs:211-217: whatever became of the cart and of the catalog while
   it was read card by card, an order is in one currency. *)
OrdersInOneCurrency ==
  \A k \in DOMAIN orders : \A l, m \in orders[k].lines :
    l.card.currency = m.card.currency

(* What was ordered leaves the cart: a row that is part of an order is still
   there only while the checkout has yet to clear the cart, or was dropped
   before it could.  So only a checkout that overlaps another one, or follows
   one that was cut short, can order the same thing twice. *)
OrderedRowsLeave ==
  \A r \in rows : \A k \in DOMAIN orders :
    (\E l \in orders[k].lines : l.row = r.id) =>
      \/ r.cart \in cut
      \/ \E t \in Tabs : At(t, "clear") /\ req[t].cart = r.cart

(* cart_cookie.rs:54: the cart that is cleared was turned into an order.  A row
   goes because its buyer takes it out, or with an order of just that row. *)
NothingVanishes ==
  [][\A r \in rows :
       (\A s \in rows' : s.id # r.id) =>
         \/ \E t \in Tabs : /\ At(t, "edit") /\ ~ At(t, "edit")'
                            /\ req[t].id = r.id /\ req[t].cart = r.cart
         \/ \E k \in DOMAIN orders : \E l \in orders[k].lines :
              l.row = r.id /\ l.qty = r.qty]_vars

(* Nothing is left in a cart no browser can name: a row belongs to a cart of
   some browser's cookie, or of a cookie that is on its way, or of a request
   that was cut short. *)
RowsReachable ==
  \A r \in rows :
    \/ r.cart \in cut
    \/ \E b \in Browsers : cookie[b] = r.cart
    \/ \E t \in Tabs : At(t, "reply") /\ req[t].cookie = r.cart

(* checkout.rs:8-11: an order has prices of the catalog and not of the cart.
   Each price in it is one the catalog showed while that checkout was running. *)
PricesWereShown ==
  [][\A t \in Tabs : At(t, "cards") /\ At(t, "clear")' =>
       LET order == orders'[Len(orders')] IN
         \A l \in order.lines : <<l.product, l.card>> \in req[t].shown]_vars
=============================================================================
