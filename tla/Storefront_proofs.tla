------------------------- MODULE Storefront_proofs -------------------------
(***************************************************************************)
(* Theorems about Storefront for any number of browsers, tabs, products,   *)
(* cards, carts and orders.                                                *)
(***************************************************************************)
EXTENDS Storefront, FiniteSetTheorems, TLAPS

Order == [cart : CartIds, lines : SUBSET Lines]

(* What a request that checks or adds knows: it has a cart. *)
HasCart(r) == r.at \in {"check", "add"} => r.cart # NoCart

Typed ==
  /\ TypeOK
  /\ req \in [Tabs -> Requests]
  /\ \A t \in Tabs : HasCart(req[t])

LEMMA InitTyped == Init => Typed
<1> SUFFICES ASSUME Init PROVE Typed
  OBVIOUS
<1> USE StorefrontAssumption, CartAssumption DEF Init, CartInit
<1>1. req \in [Tabs -> Requests]
  BY DEF Requests, Idle
<1>2. TypeOK
  BY <1>1 DEF TypeOK, NoCart
<1>3. \A t \in Tabs : HasCart(req[t])
  BY DEF HasCart, Idle
<1> QED BY <1>1, <1>2, <1>3 DEF Typed

LEMMA TypedKept ==
  ASSUME Typed, UNCHANGED vars
  PROVE  Typed'
  BY DEF Typed, TypeOK, HasCart, vars, cartVars

(* A step of one request. *)
LEMMA GotoTyped ==
  ASSUME req \in [Tabs -> Requests], NEW t \in Tabs, NEW next \in Requests, Goto(t, next)
  PROVE  req' \in [Tabs -> Requests] /\ \A u \in Tabs : req'[u] = IF u = t THEN next ELSE req[u]
  BY DEF Goto

LEMMA RequestTypes ==
  ASSUME Typed, NEW t \in Tabs
  PROVE  /\ req[t] \in Requests
         /\ Idle \in Requests /\ HasCart(Idle)
         /\ At(t, "slug") => req[t] \in [at : {"slug"}, product : Products, cart : 0 .. MaxCarts]
         /\ At(t, "create") \/ At(t, "check") \/ At(t, "add") =>
              req[t] \in [at : {"create", "check", "add"},
                          item : [product : Products, card : Cards],
                          cart : 0 .. MaxCarts, set : CartIds \cup {NoSet}]
         /\ At(t, "check") \/ At(t, "add") => req[t].cart \in CartIds
         /\ At(t, "edit") => req[t] \in [at : {"edit"}, id : RowIds, cart : CartIds]
         /\ At(t, "list") \/ At(t, "clear") => req[t] \in [at : {"list", "clear"}, cart : CartIds]
         /\ At(t, "cards") =>
              req[t] \in [at : {"cards"}, cart : CartIds, listed : SUBSET CartRow,
                          lines : SUBSET Lines,
                          shown : SUBSET (Products \X (Cards \cup {None}))]
         /\ At(t, "reply") => req[t] \in [at : {"reply"}, cookie : 0 .. MaxCarts]
<1>1. req[t] \in Requests
  BY DEF Typed
<1>2. Idle \in Requests /\ HasCart(Idle)
  BY DEF Requests, HasCart, Idle
<1>3. At(t, "create") \/ At(t, "check") \/ At(t, "add") =>
        req[t] \in [at : {"create", "check", "add"}, item : [product : Products, card : Cards],
                    cart : 0 .. MaxCarts, set : CartIds \cup {NoSet}]
  BY <1>1 DEF At, Requests, Idle
<1>4. At(t, "check") \/ At(t, "add") => req[t].cart \in CartIds
  BY <1>3, CartAssumption DEF At, Typed, HasCart, CartIds, NoCart
<1> QED BY <1>1, <1>2, <1>3, <1>4 DEF At, Requests, Idle

(* The first of some rows is one of them. *)
LEMMA FirstIsOne ==
  ASSUME NEW some \in SUBSET CartRow, some # {}
  PROVE  FirstOf(some) \in some
<1> DEFINE ids  == {r.id : r \in some}
           upTo == {1 .. i : i \in ids}
<1>1. ids \subseteq Nat /\ ids # {}
  BY CartAssumption DEF CartRow, RowIds
<1> HIDE DEF ids
<1>2. upTo \subseteq FiniteSubsetsOf(Nat) /\ upTo # {}
  <2>1. ASSUME NEW i \in ids
        PROVE  1 .. i \in FiniteSubsetsOf(Nat)
    BY <1>1, FS_Interval DEF FiniteSubsetsOf
  <2> QED BY <1>1, <2>1
<1>3. \E T \in upTo : \A U \in upTo : ~ (<<U, T>> \in StrictSubsetOrdering(Nat))
  <2> HIDE DEF upTo
  <2> QED BY <1>2, FS_StrictSubsetOrderingWellFounded, WFMin, Zenon
<1>4. PICK i \in ids : \A j \in ids : ~ (<<1 .. j, 1 .. i>> \in StrictSubsetOrdering(Nat))
  BY <1>3, Zenon
<1>5. ASSUME NEW j \in ids
      PROVE  i <= j
  <2> SUFFICES ASSUME j < i PROVE FALSE
    BY <1>1
  <2>1. 1 .. j \subseteq 1 .. i /\ 1 .. j # 1 .. i /\ 1 .. i \subseteq Nat
    <3>1. 1 .. j \subseteq 1 .. i /\ 1 .. i \subseteq Nat
      BY <1>1
    <3>2. i \in 1 .. i /\ i \notin 1 .. j
      BY <1>1
    <3> QED BY <3>1, <3>2
  <2>2. <<1 .. j, 1 .. i>> \in StrictSubsetOrdering(Nat)
    BY <2>1, Zenon DEF StrictSubsetOrdering
  <2> QED BY <1>4, <2>2
<1>6. \E r \in some : \A s \in some : r.id <= s.id
  BY <1>5 DEF ids
<1> QED BY <1>6 DEF FirstOf

(* A request that only moves on. *)
LEMMA MoveTyped ==
  ASSUME Typed, NEW t \in Tabs, NEW next \in Requests, Goto(t, next), HasCart(next),
         UNCHANGED <<cards, edits, cookie, orders, cut>>,
         carts' \in 0 .. MaxCarts, rows' \subseteq CartRow, lastRow' \in 0 .. MaxRows
  PROVE  Typed'
<1>1. req' \in [Tabs -> Requests] /\ \A u \in Tabs : HasCart(req'[u])
  BY GotoTyped DEF Typed
<1>2. \A u \in Tabs : HasCart(req[u])'
  BY <1>1 DEF HasCart, NoCart
<1>3. TypeOK'
  BY <1>1 DEF Typed, TypeOK, Browsers
<1> QED BY <1>1, <1>2, <1>3 DEF Typed

LEMMA StepTyped ==
  ASSUME Typed, NEW t \in Tabs, NEW next \in Requests, Goto(t, next), HasCart(next),
         UNCHANGED <<cartVars, cards, edits, cookie, orders, cut>>
  PROVE  Typed'
<1>1. carts' \in 0 .. MaxCarts /\ rows' \subseteq CartRow /\ lastRow' \in 0 .. MaxRows
  BY DEF Typed, TypeOK, cartVars
<1> QED BY <1>1, MoveTyped

LEMMA CatalogTyped ==
  ASSUME Typed, NEW p \in Products, NEW card \in Cards \cup {None}, CatalogChanges(p, card)
  PROVE  Typed'
<1>1. ASSUME NEW t \in Tabs
      PROVE  (IF At(t, "cards") THEN [req[t] EXCEPT !.shown = @ \cup {<<p, card>>}]
                                ELSE req[t]) \in Requests
  <2>1. CASE At(t, "cards")
    <3>1. [req[t] EXCEPT !.shown = @ \cup {<<p, card>>}]
            \in [at : {"cards"}, cart : CartIds, listed : SUBSET CartRow,
                 lines : SUBSET Lines, shown : SUBSET (Products \X (Cards \cup {None}))]
      BY <2>1, RequestTypes
    <3> QED BY <2>1, <3>1 DEF Requests
  <2> QED BY <2>1, RequestTypes
<1>2. req' \in [Tabs -> Requests]
  BY <1>1 DEF CatalogChanges
<1>3. cards' \in [Products -> Cards \cup {None}] /\ edits' \in 0 .. MaxEdits
  BY StorefrontAssumption DEF CatalogChanges, Typed, TypeOK
<1>4. ASSUME NEW t \in Tabs
      PROVE  HasCart(req[t])'
  BY <1>1, RequestTypes DEF CatalogChanges, HasCart, At, NoCart, Typed
<1>5. TypeOK'
  BY <1>2, <1>3 DEF CatalogChanges, Typed, TypeOK, cartVars, Browsers
<1> QED BY <1>2, <1>4, <1>5 DEF Typed

LEMMA SendTyped ==
  ASSUME Typed, NEW t \in Tabs, Send(t)
  PROVE  Typed'
<1>1. Browser[t] \in Browsers /\ cookie[Browser[t]] \in 0 .. MaxCarts
  BY DEF Browsers, Typed, TypeOK
<1>2. PICK next : Goto(t, next) /\ next \in Requests /\ HasCart(next)
  <2>1. ASSUME NEW p \in Products
        PROVE  LET next == [at |-> "slug", product |-> p, cart |-> cookie[Browser[t]]] IN
                 next \in Requests /\ HasCart(next)
    BY <1>1 DEF Requests, HasCart
  <2>2. ASSUME NEW id \in 1 .. lastRow, cookie[Browser[t]] # NoCart
        PROVE  LET next == [at |-> "edit", id |-> id, cart |-> cookie[Browser[t]]] IN
                 next \in Requests /\ HasCart(next)
    <3>1. id \in RowIds
      BY CartAssumption DEF RowIds, Typed, TypeOK
    <3>2. cookie[Browser[t]] \in CartIds
      BY <1>1, <2>2, CartAssumption DEF CartIds, NoCart
    <3> QED BY <3>1, <3>2 DEF Requests, HasCart
  <2>3. ASSUME cookie[Browser[t]] # NoCart
        PROVE  LET next == [at |-> "list", cart |-> cookie[Browser[t]]] IN
                 next \in Requests /\ HasCart(next)
    <3>1. cookie[Browser[t]] \in CartIds
      BY <1>1, <2>3, CartAssumption DEF CartIds, NoCart
    <3> QED BY <3>1 DEF Requests, HasCart
  <2> QED BY <2>1, <2>2, <2>3 DEF Send
<1> QED BY <1>2, StepTyped DEF Send

LEMMA AddStepsTyped ==
  ASSUME Typed, NEW t \in Tabs,
         AddFindCard(t) \/ AddCreateCart(t) \/ AddCheckCurrency(t) \/ AddRefused(t)
  PROVE  Typed'
<1>1. CASE AddFindCard(t)
  <2> DEFINE card == cards[req[t].product]
             next == [at   |-> IF req[t].cart = NoCart THEN "create" ELSE "check",
                      item |-> [product |-> req[t].product, card |-> card],
                      cart |-> req[t].cart, set |-> NoSet]
  <2>1. req[t].product \in Products /\ req[t].cart \in 0 .. MaxCarts
    BY <1>1, RequestTypes DEF AddFindCard
  <2>2. card # None => card \in Cards
    BY <2>1 DEF Typed, TypeOK
  <2>3. card # None => next \in Requests /\ HasCart(next)
    BY <2>1, <2>2 DEF Requests, HasCart
  <2> HIDE DEF next
  <2>4. Goto(t, IF card = None THEN Idle ELSE next)
    BY <1>1 DEF AddFindCard, next
  <2>5. UNCHANGED <<cartVars, cards, edits, cookie, orders, cut>>
    BY <1>1 DEF AddFindCard
  <2> HIDE DEF card
  <2> QED BY <2>3, <2>4, <2>5, RequestTypes, StepTyped
<1>2. CASE AddCreateCart(t)
  <2> DEFINE next == [req[t] EXCEPT !.at = "check", !.cart = carts', !.set = carts']
  <2>1. carts' \in CartIds /\ carts' \in 0 .. MaxCarts /\ carts' # NoCart
    BY <1>2, CartAssumption DEF AddCreateCart, CreateCart, CartIds, NoCart, Typed, TypeOK
  <2>2. /\ next \in [at : {"create", "check", "add"},
                     item : [product : Products, card : Cards],
                     cart : 0 .. MaxCarts, set : CartIds \cup {NoSet}]
        /\ next.cart = carts'
    BY <1>2, <2>1, RequestTypes DEF AddCreateCart
  <2>3. Goto(t, next) /\ UNCHANGED <<rows, lastRow, cards, edits, cookie, orders, cut>>
    BY <1>2 DEF AddCreateCart, CreateCart
  <2> HIDE DEF next
  <2>4. next \in Requests /\ HasCart(next)
    BY <2>1, <2>2 DEF Requests, HasCart
  <2>5. rows' \subseteq CartRow /\ lastRow' \in 0 .. MaxRows
    BY <2>3 DEF Typed, TypeOK
  <2> QED BY <2>1, <2>3, <2>4, <2>5, MoveTyped
<1>3. CASE AddCheckCurrency(t)
  <2> DEFINE next == [req[t] EXCEPT !.at = "add"]
  <2>1. /\ next \in [at : {"create", "check", "add"},
                     item : [product : Products, card : Cards],
                     cart : 0 .. MaxCarts, set : CartIds \cup {NoSet}]
        /\ next.cart = req[t].cart
    BY <1>3, RequestTypes DEF AddCheckCurrency
  <2>2. Goto(t, next) \/ Goto(t, Idle)
    BY <1>3 DEF AddCheckCurrency
  <2> HIDE DEF next
  <2>3. next \in Requests /\ HasCart(next)
    BY <1>3, <2>1, RequestTypes, CartAssumption
      DEF Requests, HasCart, AddCheckCurrency, CartIds, NoCart
  <2>4. UNCHANGED <<cartVars, cards, edits, cookie, orders, cut>>
    BY <1>3 DEF AddCheckCurrency
  <2> QED BY <2>2, <2>3, <2>4, RequestTypes, StepTyped
<1>4. CASE AddRefused(t)
  BY <1>4, RequestTypes, StepTyped DEF AddRefused
<1> QED BY <1>1, <1>2, <1>3, <1>4

(* What a write does to cart_items: rows go or keep their id and their cart,
   and at most one comes, with the next id. *)
RowsFollow ==
  /\ rows' \subseteq CartRow
  /\ lastRow' \in 0 .. MaxRows
  /\ \E cart \in Nat : \A r \in rows' :
       \/ \E s \in rows : s.id = r.id /\ s.cart = r.cart
       \/ r.id = lastRow + 1 /\ lastRow' = lastRow + 1 /\ r.cart = cart
  /\ lastRow <= lastRow'

LEMMA RowsKept ==
  ASSUME Typed, UNCHANGED lastRow, rows' \subseteq CartRow,
         \A r \in rows' : \E s \in rows : s.id = r.id /\ s.cart = r.cart
  PROVE  RowsFollow
<1>1. 0 \in Nat
  OBVIOUS
<1>2. lastRow' \in 0 .. MaxRows /\ lastRow <= lastRow'
  BY CartAssumption DEF Typed, TypeOK
<1> QED BY <1>1, <1>2 DEF RowsFollow

LEMMA RowsGo ==
  ASSUME Typed, rows' \subseteq rows, UNCHANGED lastRow
  PROVE  RowsFollow
<1>1. rows' \subseteq CartRow
  BY DEF Typed, TypeOK
<1>2. \A r \in rows' : \E s \in rows : s.id = r.id /\ s.cart = r.cart
  OBVIOUS
<1> QED BY <1>1, <1>2, RowsKept

LEMMA AddedRows ==
  ASSUME Typed, NEW cart \in CartIds, NEW product \in Products, NEW qty \in Nat,
         NEW card \in Cards, AddItem(cart, product, qty, card)
  PROVE  RowsFollow /\ UNCHANGED carts
<1> DEFINE same == {r \in ListItems(cart) : r.product = product}
<1> HIDE DEF same
<1>0. qty \in 1 .. MaxQty /\ UNCHANGED carts /\ cart \in Nat /\ lastRow \in 0 .. MaxRows
  <2>1. qty \in 1 .. MaxQty /\ UNCHANGED carts
    BY Zenon DEF AddItem
  <2>2. cart \in Nat /\ lastRow \in 0 .. MaxRows
    BY DEF CartIds, Typed, TypeOK
  <2> QED BY <2>1, <2>2
<1>1. CASE /\ lastRow < MaxRows
           /\ lastRow' = lastRow + 1
           /\ rows' = rows \cup {[id |-> lastRow + 1, cart |-> cart, product |-> product,
                                  qty |-> qty, card |-> card]}
  <2> DEFINE row == [id |-> lastRow + 1, cart |-> cart, product |-> product,
                     qty |-> qty, card |-> card]
  <2>1. row \in CartRow /\ row.id = lastRow + 1 /\ row.cart = cart
    BY <1>0, <1>1, CartAssumption DEF CartRow, RowIds
  <2>2. rows' = rows \cup {row}
    BY <1>1
  <2> HIDE DEF row
  <2> QED BY <1>0, <1>1, <2>1, <2>2, CartAssumption DEF RowsFollow, Typed, TypeOK
<1>2. CASE /\ rows' = (rows \ same) \cup
                      {[r EXCEPT !.qty = AddedQty(r.qty, qty), !.card = card] : r \in same}
           /\ UNCHANGED lastRow
  <2>1. ASSUME NEW r \in same
        PROVE  LET row == [r EXCEPT !.qty = AddedQty(r.qty, qty), !.card = card] IN
                 row \in CartRow /\ row.id = r.id /\ row.cart = r.cart
    <3>1. r \in CartRow
      BY DEF same, ListItems, Typed, TypeOK
    <3>2. AddedQty(r.qty, qty) \in 1 .. MaxQty
      BY <1>0, <3>1, CartAssumption DEF CartRow, AddedQty
    <3> DEFINE more == [r EXCEPT !.qty = AddedQty(r.qty, qty)]
    <3>3. more \in CartRow /\ more.id = r.id /\ more.cart = r.cart
      BY <3>1, <3>2 DEF CartRow
    <3>4. [r EXCEPT !.qty = AddedQty(r.qty, qty), !.card = card] = [more EXCEPT !.card = card]
      OBVIOUS
    <3> HIDE DEF more
    <3> DEFINE row == [more EXCEPT !.card = card]
    <3>5. row \in CartRow /\ row.id = more.id /\ row.cart = more.cart
      BY <3>3 DEF CartRow
    <3> QED BY <3>3, <3>4, <3>5
  <2>2. same \subseteq rows
    BY DEF same, ListItems
  <2> DEFINE new == {[r EXCEPT !.qty = AddedQty(r.qty, qty), !.card = card] : r \in same}
  <2>3. /\ new \subseteq CartRow
        /\ \A row \in new : \E s \in rows : s.id = row.id /\ s.cart = row.cart
    BY <2>1, <2>2
  <2>4. rows' = (rows \ same) \cup new
    BY <1>2
  <2> HIDE DEF new
  <2>5. rows' \subseteq CartRow
    BY <2>3, <2>4 DEF Typed, TypeOK
  <2> QED BY <1>0, <1>2, <2>3, <2>4, <2>5, RowsKept
<1> QED BY <1>0, <1>1, <1>2 DEF AddItem, same

LEMMA EditedRows ==
  ASSUME Typed, NEW cart \in CartIds, NEW id \in RowIds, NEW qty \in 0 .. MaxQty,
         UpdateQty(cart, id, qty)
  PROVE  RowsFollow /\ UNCHANGED carts
<1>1. CASE RemoveItem(cart, id)
  BY <1>1, RowsGo DEF RemoveItem
<1>2. CASE /\ qty \in 1 .. MaxQty
           /\ rows' = (rows \ OwnRow(cart, id)) \cup
                      {[r EXCEPT !.qty = qty] : r \in OwnRow(cart, id)}
           /\ UNCHANGED <<carts, lastRow>>
  <2> DEFINE new == {[r EXCEPT !.qty = qty] : r \in OwnRow(cart, id)}
  <2>1. ASSUME NEW r \in OwnRow(cart, id)
        PROVE  LET row == [r EXCEPT !.qty = qty] IN
                 r \in rows /\ row \in CartRow /\ row.id = r.id /\ row.cart = r.cart
    BY <1>2 DEF OwnRow, CartRow, Typed, TypeOK
  <2>2. /\ new \subseteq CartRow
        /\ \A row \in new : \E s \in rows : s.id = row.id /\ s.cart = row.cart
    BY <2>1
  <2>3. rows' = (rows \ OwnRow(cart, id)) \cup new
    BY <1>2
  <2> HIDE DEF new
  <2>4. rows' \subseteq CartRow
    BY <2>2, <2>3 DEF Typed, TypeOK
  <2> QED BY <1>2, <2>2, <2>3, <2>4, RowsKept
<1> QED BY <1>1, <1>2 DEF UpdateQty
LEMMA ReplyTyped ==
  ASSUME NEW setCookie \in (0 .. MaxCarts) \cup {NoSet}
  PROVE  Reply(setCookie) \in Requests /\ HasCart(Reply(setCookie))
  BY DEF Reply, Requests, HasCart, Idle

(* A request that writes the cart. *)
LEMMA WriteTyped ==
  ASSUME Typed, NEW t \in Tabs, NEW next \in Requests, Goto(t, next), HasCart(next),
         RowsFollow, UNCHANGED <<carts, cards, edits, cookie, orders, cut>>
  PROVE  Typed'
<1>1. carts' \in 0 .. MaxCarts /\ rows' \subseteq CartRow /\ lastRow' \in 0 .. MaxRows
  BY DEF Typed, TypeOK, RowsFollow
<1> QED BY <1>1, MoveTyped

LEMMA AddWriteTyped ==
  ASSUME Typed, NEW t \in Tabs, NEW qty \in 1 .. MaxQty, AddWrite(t, qty)
  PROVE  Typed' /\ RowsFollow
<1>1. /\ req[t].cart \in CartIds
      /\ req[t].item \in [product : Products, card : Cards]
      /\ req[t].set \in CartIds \cup {NoSet}
  BY RequestTypes DEF AddWrite
<1>2. RowsFollow /\ UNCHANGED carts
  <2>1. qty \in Nat
    BY CartAssumption
  <2>2. AddItem(req[t].cart, req[t].item.product, qty, req[t].item.card)
    BY DEF AddWrite
  <2>3. req[t].item.product \in Products /\ req[t].item.card \in Cards
    BY <1>1
  <2> QED BY <1>1, <2>1, <2>2, <2>3, AddedRows
<1>3. Reply(req[t].set) \in Requests /\ HasCart(Reply(req[t].set))
  <2>1. req[t].set \in (0 .. MaxCarts) \cup {NoSet}
    BY <1>1 DEF CartIds
  <2> QED BY <2>1, ReplyTyped
<1> QED BY <1>2, <1>3, WriteTyped DEF AddWrite

LEMMA EditTyped ==
  ASSUME Typed, NEW t \in Tabs, EditCart(t)
  PROVE  Typed' /\ RowsFollow
<1>1. req[t].cart \in CartIds /\ req[t].id \in RowIds
  BY RequestTypes DEF EditCart
<1>2. RowsFollow /\ UNCHANGED carts
  <2>1. CASE \E qty \in 0 .. MaxQty : UpdateQty(req[t].cart, req[t].id, qty)
    BY <1>1, <2>1, EditedRows
  <2>2. CASE RemoveItem(req[t].cart, req[t].id)
    BY <2>2, RowsGo DEF RemoveItem
  <2>3. CASE UNCHANGED cartVars
    BY <2>3, RowsGo DEF cartVars
  <2> QED BY <2>1, <2>2, <2>3 DEF EditCart
<1> QED BY <1>2, RequestTypes, WriteTyped DEF EditCart

LEMMA CheckoutListTyped ==
  ASSUME Typed, NEW t \in Tabs, CheckoutList(t)
  PROVE  Typed'
<1> DEFINE next == [at |-> "cards", cart |-> req[t].cart, listed |-> ListItems(req[t].cart),
                    lines |-> {}, shown |-> {<<p, cards[p]>> : p \in Products}]
<1>1. req[t].cart \in CartIds
  BY RequestTypes DEF CheckoutList
<1>2. ListItems(req[t].cart) \subseteq CartRow
  BY DEF ListItems, Typed, TypeOK
<1>3. {<<p, cards[p]>> : p \in Products} \subseteq Products \X (Cards \cup {None})
  BY DEF Typed, TypeOK
<1>4. next \in Requests /\ HasCart(next)
  BY <1>1, <1>2, <1>3 DEF Requests, HasCart
<1>5. Goto(t, next) \/ Goto(t, Idle)
  BY DEF CheckoutList
<1> HIDE DEF next
<1>6. UNCHANGED <<cartVars, cards, edits, cookie, orders, cut>>
  BY DEF CheckoutList
<1> QED BY <1>4, <1>5, <1>6, RequestTypes, StepTyped

(* The row whose card is read is one of those listed. *)
LEMMA ReadCardSteps ==
  ASSUME Typed, NEW t \in Tabs, CheckoutReadCard(t)
  PROVE  /\ UNCHANGED <<cartVars, cards, edits, cookie, orders, cut>>
         /\ \/ Goto(t, Idle)
            \/ \E r \in req[t].listed, card \in Cards :
                 /\ r \in CartRow /\ card = cards[r.product]
                 /\ Goto(t, [req[t] EXCEPT !.lines = @ \cup {LineOf(r, card)}])
<1> DEFINE r == FirstOf(Unread(t))
<1>1. Unread(t) \subseteq req[t].listed /\ Unread(t) # {} /\ req[t].listed \subseteq CartRow
  BY RequestTypes DEF CheckoutReadCard, Unread
<1>2. r \in req[t].listed /\ r \in CartRow
  BY <1>1, FirstIsOne
<1>3. Goto(t, IF cards[r.product] = None
               THEN Idle
               ELSE [req[t] EXCEPT !.lines = @ \cup {LineOf(r, cards[r.product])}])
  BY DEF CheckoutReadCard
<1> HIDE DEF r
<1>4. r.product \in Products
  BY <1>2 DEF CartRow
<1>5. cards[r.product] # None => cards[r.product] \in Cards
  BY <1>4 DEF Typed, TypeOK
<1>6. UNCHANGED <<cartVars, cards, edits, cookie, orders, cut>>
  BY DEF CheckoutReadCard
<1> QED BY <1>2, <1>3, <1>5, <1>6

LEMMA ReadCardTyped ==
  ASSUME Typed, NEW t \in Tabs, CheckoutReadCard(t)
  PROVE  Typed'
<1>1. ASSUME NEW r \in req[t].listed, NEW card \in Cards, r \in CartRow
      PROVE  LET next == [req[t] EXCEPT !.lines = @ \cup {LineOf(r, card)}] IN
               next \in Requests /\ HasCart(next)
  <2> DEFINE next == [req[t] EXCEPT !.lines = @ \cup {LineOf(r, card)}]
  <2>1. LineOf(r, card) \in Lines
    BY <1>1 DEF LineOf, Lines, CartRow
  <2> HIDE DEF next
  <2>2. next \in [at : {"cards"}, cart : CartIds, listed : SUBSET CartRow,
                 lines : SUBSET Lines, shown : SUBSET (Products \X (Cards \cup {None}))]
    BY <2>1, RequestTypes DEF CheckoutReadCard, next
  <2>3. next \in Requests /\ HasCart(next)
    BY <2>2 DEF Requests, HasCart
  <2> QED BY <2>3 DEF next
<1>2. PICK next \in Requests : HasCart(next) /\ Goto(t, next)
  <2>1. CASE Goto(t, Idle)
    BY <2>1, RequestTypes
  <2>2. CASE ~ Goto(t, Idle)
    <3>1. PICK r \in req[t].listed, card \in Cards :
            r \in CartRow /\ Goto(t, [req[t] EXCEPT !.lines = @ \cup {LineOf(r, card)}])
      BY <2>2, ReadCardSteps
    <3> QED BY <3>1, <1>1
  <2> QED BY <2>1, <2>2
<1>3. UNCHANGED <<cartVars, cards, edits, cookie, orders, cut>>
  BY ReadCardSteps
<1> QED BY <1>2, <1>3, StepTyped

LEMMA CommitTyped ==
  ASSUME Typed, NEW t \in Tabs, CheckoutCommit(t)
  PROVE  Typed'
<1>1. req[t].cart \in CartIds /\ req[t].lines \subseteq Lines
  BY RequestTypes DEF CheckoutCommit
<1>2. CASE /\ orders' = Append(orders, [cart |-> req[t].cart, lines |-> req[t].lines])
           /\ Goto(t, [at |-> "clear", cart |-> req[t].cart])
  <2> DEFINE next == [at |-> "clear", cart |-> req[t].cart]
  <2>1. next \in Requests /\ HasCart(next)
    BY <1>1 DEF Requests, HasCart
  <2>2. req' \in [Tabs -> Requests] /\ \A u \in Tabs : HasCart(req'[u])
    BY <1>2, <2>1, GotoTyped DEF Typed
  <2>3. \A u \in Tabs : HasCart(req[u])'
    BY <2>2 DEF HasCart, NoCart
  <2>4. orders' \in Seq([cart : CartIds, lines : SUBSET Lines])
    BY <1>1, <1>2 DEF Typed, TypeOK
  <2>5. TypeOK'
    BY <2>2, <2>4 DEF CheckoutCommit, Typed, TypeOK, cartVars, Browsers
  <2> QED BY <2>2, <2>3, <2>5 DEF Typed
<1>3. CASE Goto(t, Idle) /\ UNCHANGED orders
  BY <1>3, RequestTypes, StepTyped DEF CheckoutCommit
<1> QED BY <1>2, <1>3 DEF CheckoutCommit

LEMMA ClearTyped ==
  ASSUME Typed, NEW t \in Tabs, CheckoutClear(t)
  PROVE  Typed' /\ RowsFollow
<1>1. RowsFollow /\ UNCHANGED carts
  BY RowsGo DEF CheckoutClear, Clear
<1>2. Reply(NoCart) \in Requests /\ HasCart(Reply(NoCart))
  BY ReplyTyped, CartAssumption DEF NoCart
<1> QED BY <1>1, <1>2, WriteTyped DEF CheckoutClear

LEMMA ReceiveTyped ==
  ASSUME Typed, NEW t \in Tabs, Receive(t)
  PROVE  Typed'
<1>1. req' \in [Tabs -> Requests] /\ \A u \in Tabs : HasCart(req'[u])
  BY RequestTypes, GotoTyped DEF Receive, Typed
<1>2. \A u \in Tabs : HasCart(req[u])'
  BY <1>1 DEF HasCart, NoCart
<1>3. cookie' \in [Browsers -> 0 .. MaxCarts]
  BY RequestTypes DEF Receive, Typed, TypeOK
<1>4. TypeOK'
  BY <1>1, <1>3 DEF Receive, Typed, TypeOK, cartVars, Browsers
<1> QED BY <1>1, <1>2, <1>4 DEF Typed

LEMMA DropTyped ==
  ASSUME Typed, NEW t \in Tabs, Drop(t)
  PROVE  Typed'
<1>1. req' \in [Tabs -> Requests] /\ \A u \in Tabs : HasCart(req'[u])
  BY RequestTypes, GotoTyped DEF Drop, Typed
<1>2. \A u \in Tabs : HasCart(req[u])'
  BY <1>1 DEF HasCart, NoCart
<1>3. HalfDone(req[t]) \subseteq CartIds
  BY RequestTypes, CartAssumption DEF HalfDone, At, CartIds, NoCart
<1>4. TypeOK'
  BY <1>1, <1>3 DEF Drop, Typed, TypeOK, cartVars, Browsers
<1> QED BY <1>1, <1>2, <1>4 DEF Typed
-----------------------------------------------------------------------------
(* A row with this id, if there is one, is in this cart, and no later row will
   get the id. *)
OfCart(id, cart) == id <= lastRow /\ \A s \in rows : s.id = id => s.cart = cart

CheckoutOK(r) ==
  /\ \A s \in r.listed : OfCart(s.id, r.cart)
  /\ \A l \in r.lines : OfCart(l.row, r.cart)

(* A checkout has seen what is on sale now, and the cards of its lines. *)
ShownOK(r, onSale) ==
  /\ \A p \in Products : <<p, onSale[p]>> \in r.shown
  /\ \A l \in r.lines : <<l.product, l.card>> \in r.shown

(* What carts, checkouts and orders say of the rows of cart_items. *)
StoreInv ==
  /\ Typed
  /\ \A t \in Tabs : At(t, "cards") => ShownOK(req[t], cards)
  /\ \A r \in rows : OfCart(r.id, r.cart)
  /\ \A t \in Tabs : At(t, "cards") => CheckoutOK(req[t])
  /\ \A k \in DOMAIN orders : \A l \in orders[k].lines : OfCart(l.row, orders[k].cart)
  /\ OrderedRowsLeave
  /\ OrdersInOneCurrency

LEMMA InitStore == Init => StoreInv
<1> SUFFICES ASSUME Init PROVE StoreInv
  OBVIOUS
<1>1. Typed /\ rows = {} /\ orders = << >> /\ \A t \in Tabs : ~ At(t, "cards")
  BY InitTyped DEF Init, CartInit, At, Idle
<1> QED BY <1>1 DEF StoreInv, OrderedRowsLeave, OrdersInOneCurrency

LEMMA OfCartKept ==
  ASSUME Typed, RowsFollow
  PROVE  \A id \in RowIds, cart \in CartIds : OfCart(id, cart) => OfCart(id, cart)'
<1>1. lastRow \in Nat /\ lastRow' \in Nat /\ lastRow <= lastRow'
  BY CartAssumption DEF Typed, TypeOK, RowsFollow
<1>2. \A r \in rows' : \/ \E s \in rows : s.id = r.id /\ s.cart = r.cart
                       \/ r.id = lastRow + 1
  BY DEF RowsFollow
<1> QED BY <1>1, <1>2 DEF OfCart, RowIds, CartIds

(* Every row of cart_items has an id of its own, also after a write. *)
LEMMA RowsOfCartsKept ==
  ASSUME Typed, RowsFollow, \A r \in rows : OfCart(r.id, r.cart)
  PROVE  (\A r \in rows : OfCart(r.id, r.cart))'
<1>1. PICK cart \in Nat : \A r \in rows' :
        \/ \E s \in rows : s.id = r.id /\ s.cart = r.cart
        \/ r.id = lastRow + 1 /\ lastRow' = lastRow + 1 /\ r.cart = cart
  BY DEF RowsFollow
<1>2. lastRow \in Nat /\ lastRow' \in Nat /\ lastRow <= lastRow'
  BY CartAssumption DEF Typed, TypeOK, RowsFollow
<1>3. ASSUME NEW r \in rows'
      PROVE  r.id <= lastRow' /\ \A s \in rows' : s.id = r.id => s.cart = r.cart
  <2>1. r.id \in Nat
    BY CartAssumption DEF RowsFollow, CartRow, RowIds
  <2>2. CASE \E s \in rows : s.id = r.id /\ s.cart = r.cart
    BY <1>1, <1>2, <2>1, <2>2 DEF OfCart
  <2>3. CASE r.id = lastRow + 1 /\ lastRow' = lastRow + 1 /\ r.cart = cart
    BY <1>1, <1>2, <2>1, <2>3 DEF OfCart
  <2> QED BY <1>1, <2>2, <2>3
<1> QED BY <1>3 DEF OfCart

(* A step that writes no order keeps StoreInv, if what a checkout has in hand is
   of its cart, and if a checkout that leaves "clear" has cleared its cart or is
   recorded as cut short. *)
LEMMA OrdersStay ==
  ASSUME StoreInv, Typed', RowsFollow, UNCHANGED orders, cut \subseteq cut',
         \A t \in Tabs : req'[t].at = "cards" =>
           CheckoutOK(req'[t]) /\ ShownOK(req'[t], cards'),
         \A t \in Tabs : At(t, "clear") =>
           \/ req'[t] = req[t]
           \/ req[t].cart \in cut'
           \/ \A r \in rows' : r.cart # req[t].cart
  PROVE  StoreInv'
<1>1. (\A r \in rows : OfCart(r.id, r.cart))'
  BY RowsOfCartsKept DEF StoreInv
<1>2. \A id \in RowIds, cart \in CartIds : OfCart(id, cart) => OfCart(id, cart)'
  BY OfCartKept DEF StoreInv
<1>3. ASSUME NEW t \in Tabs, At(t, "cards")'
      PROVE  CheckoutOK(req[t])'
  <2>1. /\ req'[t].cart \in CartIds
        /\ req'[t].listed \subseteq CartRow
        /\ req'[t].lines \subseteq Lines
    <3>1. req'[t] \in Requests /\ req'[t].at = "cards"
      BY <1>3 DEF Typed, At, Requests, CartIds, RowIds, CartRow, Lines, Idle, NoSet
    <3> QED BY <3>1 DEF Requests, Idle
  <2>2. CheckoutOK(req'[t])
    BY <1>3 DEF At
  <2>3. \A s \in req'[t].listed : OfCart(s.id, req'[t].cart) /\ s.id \in RowIds
    BY <2>1, <2>2 DEF CheckoutOK, CartRow
  <2>4. \A l \in req'[t].lines : OfCart(l.row, req'[t].cart) /\ l.row \in RowIds
    BY <2>1, <2>2 DEF CheckoutOK, Lines
  <2>5. \A s \in req'[t].listed :
          s.id <= lastRow' /\ \A r \in rows' : r.id = s.id => r.cart = req'[t].cart
    BY <1>2, <2>1, <2>3 DEF OfCart
  <2>6. \A l \in req'[t].lines :
          l.row <= lastRow' /\ \A r \in rows' : r.id = l.row => r.cart = req'[t].cart
    BY <1>2, <2>1, <2>4 DEF OfCart
  <2> QED BY <2>5, <2>6 DEF CheckoutOK, OfCart
<1>4. orders' = orders /\ \A k \in DOMAIN orders :
        orders[k].cart \in CartIds /\ orders[k].lines \subseteq Lines
  <2>1. orders \in Seq(Order)
    BY DEF StoreInv, Typed, TypeOK, Order
  <2>2. \A k \in DOMAIN orders : orders[k] \in Order
    BY <2>1
  <2> QED BY <2>2 DEF Order
<1>5. (\A k \in DOMAIN orders : \A l \in orders[k].lines : OfCart(l.row, orders[k].cart))'
  BY <1>2, <1>4 DEF StoreInv, Lines
<1>6. OrderedRowsLeave'
  <2> SUFFICES ASSUME NEW r \in rows', NEW k \in DOMAIN orders, NEW l \in orders[k].lines,
                      l.row = r.id
               PROVE  \/ r.cart \in cut'
                      \/ \E t \in Tabs : At(t, "clear")' /\ req'[t].cart = r.cart
    BY <1>4 DEF OrderedRowsLeave
  <2>1. l.row \in Nat /\ l.row <= lastRow /\ lastRow \in Nat
    BY <1>4, CartAssumption DEF StoreInv, OfCart, Lines, RowIds, Typed, TypeOK
  <2>2. PICK s \in rows : s.id = r.id /\ s.cart = r.cart
    BY <2>1 DEF RowsFollow
  <2>3. \/ s.cart \in cut
        \/ \E t \in Tabs : At(t, "clear") /\ req[t].cart = s.cart
    BY <2>2 DEF StoreInv, OrderedRowsLeave
  <2>4. ASSUME NEW t \in Tabs, At(t, "clear"), req[t].cart = r.cart
        PROVE  r.cart \in cut' \/ (At(t, "clear")' /\ req'[t].cart = r.cart)
    BY <2>4 DEF At
  <2> QED BY <2>2, <2>3, <2>4
<1>7. OrdersInOneCurrency'
  BY <1>4 DEF StoreInv, OrdersInOneCurrency
<1>8. (\A t \in Tabs : At(t, "cards") => ShownOK(req[t], cards))'
  BY DEF At, ShownOK
<1> QED BY <1>1, <1>3, <1>5, <1>6, <1>7, <1>8 DEF StoreInv

(* The same for a step of one request. *)
LEMMA RequestMoves ==
  ASSUME StoreInv, Typed', RowsFollow, UNCHANGED <<cards, orders>>, cut \subseteq cut',
         NEW t \in Tabs, NEW next \in Requests, Goto(t, next),
         next.at = "cards" => CheckoutOK(next) /\ ShownOK(next, cards),
         At(t, "clear") => \/ req[t].cart \in cut'
                           \/ \A r \in rows' : r.cart # req[t].cart
  PROVE  StoreInv'
<1>1. \A u \in Tabs : req'[u] = IF u = t THEN next ELSE req[u]
  BY GotoTyped DEF StoreInv, Typed
<1>2. \A u \in Tabs : req'[u].at = "cards" => CheckoutOK(req'[u]) /\ ShownOK(req'[u], cards')
  BY <1>1 DEF StoreInv, At
<1> QED BY <1>1, <1>2, OrdersStay DEF At
LEMMA CatalogKeeps ==
  ASSUME StoreInv, NEW p \in Products, NEW card \in Cards \cup {None},
         CatalogChanges(p, card)
  PROVE  StoreInv'
<1>1. Typed' /\ RowsFollow
  BY CatalogTyped, RowsGo DEF StoreInv, CatalogChanges, cartVars
<1>2. ASSUME NEW t \in Tabs
      PROVE  req'[t] = IF At(t, "cards")
                         THEN [req[t] EXCEPT !.shown = @ \cup {<<p, card>>}]
                         ELSE req[t]
  BY DEF CatalogChanges
<1>3. ASSUME NEW t \in Tabs, At(t, "cards")
      PROVE  CheckoutOK(req'[t]) /\ ShownOK(req'[t], cards')
  <2>1. /\ req'[t].cart = req[t].cart
        /\ req'[t].listed = req[t].listed
        /\ req'[t].lines = req[t].lines
        /\ req'[t].shown = req[t].shown \cup {<<p, card>>}
    BY <1>2, <1>3, RequestTypes DEF StoreInv
  <2>2. \A q \in Products : cards'[q] = IF q = p THEN card ELSE cards[q]
    BY DEF CatalogChanges, StoreInv, Typed, TypeOK
  <2>3. CheckoutOK(req[t]) /\ ShownOK(req[t], cards)
    BY <1>3 DEF StoreInv
  <2>4. CheckoutOK(req'[t])
    BY <2>1, <2>3 DEF CheckoutOK
  <2>5. ShownOK(req'[t], cards')
    BY <2>1, <2>2, <2>3 DEF ShownOK
  <2> QED BY <2>4, <2>5
<1>4. \A t \in Tabs : ~ At(t, "cards") => req'[t] = req[t]
  BY <1>2
<1>5. \A t \in Tabs : req'[t].at = "cards" => CheckoutOK(req'[t]) /\ ShownOK(req'[t], cards')
  BY <1>3, <1>4 DEF At
<1>6. \A t \in Tabs : At(t, "clear") => req'[t] = req[t]
  BY <1>4 DEF At
<1> QED BY <1>1, <1>5, <1>6, OrdersStay DEF CatalogChanges

LEMMA SendKeeps ==
  ASSUME StoreInv, NEW t \in Tabs, Send(t)
  PROVE  StoreInv'
<1>1. Typed' /\ RowsFollow
  BY SendTyped, RowsGo DEF StoreInv, Send, cartVars
<1>2. PICK next : Goto(t, next) /\ next.at # "cards"
  <2> DEFINE cart == cookie[Browser[t]]
             add(p)   == [at |-> "slug", product |-> p, cart |-> cart]
             edit(id) == [at |-> "edit", id |-> id, cart |-> cart]
             list     == [at |-> "list", cart |-> cart]
  <2>1. \/ \E p \in Products : Goto(t, add(p))
        \/ \E id \in 1 .. lastRow : Goto(t, edit(id))
        \/ Goto(t, list)
    BY DEF Send
  <2>2. /\ \A p \in Products : add(p).at = "slug"
        /\ \A id \in 1 .. lastRow : edit(id).at = "edit"
        /\ list.at = "list"
    OBVIOUS
  <2> HIDE DEF add, edit, list
  <2> QED BY <2>1, <2>2
<1>3. next \in Requests
  BY <1>1, <1>2 DEF Goto, StoreInv, Typed
<1> QED BY <1>1, <1>2, <1>3, RequestMoves DEF Send, At

LEMMA AddStepsKeep ==
  ASSUME StoreInv, NEW t \in Tabs,
         AddFindCard(t) \/ AddCreateCart(t) \/ AddCheckCurrency(t) \/ AddRefused(t)
  PROVE  StoreInv'
<1>1. Typed' /\ RowsFollow
  <2>1. Typed' /\ UNCHANGED <<rows, lastRow>>
    BY AddStepsTyped
      DEF StoreInv, AddFindCard, AddCreateCart, AddCheckCurrency, AddRefused, CreateCart, cartVars
  <2> QED BY <2>1, RowsGo DEF StoreInv
<1>2. PICK next : Goto(t, next) /\ next.at # "cards"
  <2>1. CASE AddFindCard(t)
    BY <2>1 DEF AddFindCard, Idle
  <2>2. CASE AddCreateCart(t)
    <3> DEFINE next == [req[t] EXCEPT !.at = "check", !.cart = carts', !.set = carts']
    <3>1. Goto(t, next)
      BY <2>2 DEF AddCreateCart
    <3>2. next.at = "check"
      BY <2>2, RequestTypes DEF AddCreateCart, StoreInv
    <3> QED BY <3>1, <3>2
  <2>3. CASE AddCheckCurrency(t)
    <3>1. Goto(t, [req[t] EXCEPT !.at = "add"]) \/ Goto(t, Idle)
      BY <2>3 DEF AddCheckCurrency
    <3> DEFINE next == [req[t] EXCEPT !.at = "add"]
    <3>2. next.at = "add" /\ Idle.at = "idle"
      BY <2>3, RequestTypes DEF AddCheckCurrency, StoreInv, Idle
    <3> HIDE DEF next
    <3>3. Goto(t, next) \/ Goto(t, Idle)
      BY <3>1 DEF next
    <3> QED BY <3>2, <3>3
  <2>4. CASE AddRefused(t)
    BY <2>4 DEF AddRefused, Idle
  <2> QED BY <2>1, <2>2, <2>3, <2>4
<1>3. next \in Requests
  BY <1>1, <1>2 DEF Goto, StoreInv, Typed
<1>4. ~ At(t, "clear") /\ UNCHANGED <<cards, orders, cut>>
  BY DEF AddFindCard, AddCreateCart, AddCheckCurrency, AddRefused, At
<1> QED BY <1>1, <1>2, <1>3, <1>4, RequestMoves

LEMMA AddWriteKeeps ==
  ASSUME StoreInv, NEW t \in Tabs, NEW qty \in 1 .. MaxQty, AddWrite(t, qty)
  PROVE  StoreInv'
<1>1. Typed' /\ RowsFollow
  BY AddWriteTyped DEF StoreInv
<1>2. Goto(t, Reply(req[t].set)) /\ Reply(req[t].set).at # "cards"
  BY DEF AddWrite, Reply, Idle
<1>3. Reply(req[t].set) \in Requests
  BY <1>1, <1>2 DEF Goto, StoreInv, Typed
<1>4. ~ At(t, "clear") /\ UNCHANGED <<cards, orders, cut>>
  BY DEF AddWrite, At
<1> QED BY <1>1, <1>2, <1>3, <1>4, RequestMoves

LEMMA EditKeeps ==
  ASSUME StoreInv, NEW t \in Tabs, EditCart(t)
  PROVE  StoreInv'
<1>1. Typed' /\ RowsFollow
  BY EditTyped DEF StoreInv
<1>2. Goto(t, Idle) /\ Idle.at # "cards" /\ Idle \in Requests
  BY RequestTypes DEF EditCart, Idle, StoreInv
<1>3. ~ At(t, "clear") /\ UNCHANGED <<cards, orders, cut>>
  BY DEF EditCart, At
<1> QED BY <1>1, <1>2, <1>3, RequestMoves

LEMMA CheckoutListKeeps ==
  ASSUME StoreInv, NEW t \in Tabs, CheckoutList(t)
  PROVE  StoreInv'
<1>1. Typed' /\ RowsFollow
  BY CheckoutListTyped, RowsGo DEF StoreInv, CheckoutList, cartVars
<1> DEFINE next == [at |-> "cards", cart |-> req[t].cart, listed |-> ListItems(req[t].cart),
                    lines |-> {}, shown |-> {<<p, cards[p]>> : p \in Products}]
<1>2. CheckoutOK(next) /\ ShownOK(next, cards)
  BY DEF CheckoutOK, ShownOK, ListItems, StoreInv
<1>3. Goto(t, next) \/ Goto(t, Idle)
  BY DEF CheckoutList
<1>4. ~ At(t, "clear") /\ UNCHANGED <<cards, orders, cut>>
  BY DEF CheckoutList, At
<1> HIDE DEF next
<1>5. CASE Goto(t, next)
  <2>1. next \in Requests
    BY <1>1, <1>5 DEF Goto, StoreInv, Typed
  <2> QED BY <1>1, <1>2, <1>4, <1>5, <2>1, RequestMoves
<1>6. CASE Goto(t, Idle)
  BY <1>1, <1>4, <1>6, RequestTypes, RequestMoves DEF StoreInv, Idle
<1> QED BY <1>3, <1>5, <1>6

LEMMA ReadCardKeeps ==
  ASSUME StoreInv, NEW t \in Tabs, CheckoutReadCard(t)
  PROVE  StoreInv'
<1>1. Typed' /\ RowsFollow
  BY ReadCardTyped, RowsGo DEF StoreInv, CheckoutReadCard, cartVars
<1>2. ~ At(t, "clear") /\ UNCHANGED <<cards, orders, cut>> /\ At(t, "cards")
  BY DEF CheckoutReadCard, At
<1>3. CASE Goto(t, Idle)
  BY <1>1, <1>2, <1>3, RequestTypes, RequestMoves DEF StoreInv, Idle
<1>4. ASSUME NEW r \in req[t].listed, NEW card \in Cards, r \in CartRow,
             card = cards[r.product],
             Goto(t, [req[t] EXCEPT !.lines = @ \cup {LineOf(r, card)}])
      PROVE  StoreInv'
  <2> DEFINE next == [req[t] EXCEPT !.lines = @ \cup {LineOf(r, card)}]
  <2>1. /\ next.cart = req[t].cart
        /\ next.listed = req[t].listed
        /\ next.lines = req[t].lines \cup {LineOf(r, card)}
        /\ next.shown = req[t].shown
    BY <1>2, RequestTypes DEF StoreInv
  <2>2. CheckoutOK(req[t]) /\ ShownOK(req[t], cards)
    BY <1>2 DEF StoreInv
  <2>3. Goto(t, next)
    BY <1>4
  <2> HIDE DEF next
  <2>4. /\ LineOf(r, card).row = r.id /\ LineOf(r, card).product = r.product
        /\ LineOf(r, card).card = cards[r.product] /\ r.product \in Products
    BY <1>4 DEF LineOf, CartRow
  <2>5. CheckoutOK(next) /\ ShownOK(next, cards)
    BY <2>1, <2>2, <2>4 DEF CheckoutOK, ShownOK
  <2>6. next \in Requests
    BY <1>1, <2>3 DEF Goto, StoreInv, Typed
  <2> QED BY <1>1, <1>2, <2>3, <2>5, <2>6, RequestMoves
<1> QED BY <1>3, <1>4, ReadCardSteps DEF StoreInv

LEMMA CommitKeeps ==
  ASSUME StoreInv, NEW t \in Tabs, CheckoutCommit(t)
  PROVE  StoreInv'
<1>1. Typed' /\ RowsFollow /\ UNCHANGED <<rows, lastRow, cards, cut>>
  BY CommitTyped, RowsGo DEF StoreInv, CheckoutCommit, cartVars
<1>2. At(t, "cards") /\ CheckoutOK(req[t])
  BY DEF CheckoutCommit, StoreInv
<1>3. CASE Goto(t, Idle) /\ UNCHANGED orders
  BY <1>1, <1>2, <1>3, RequestTypes, RequestMoves DEF StoreInv, Idle, At
<1>4. CASE /\ \A k, l \in req[t].lines : k.card.currency = l.card.currency
           /\ orders' = Append(orders, [cart |-> req[t].cart, lines |-> req[t].lines])
           /\ Goto(t, [at |-> "clear", cart |-> req[t].cart])
  <2> DEFINE order == [cart |-> req[t].cart, lines |-> req[t].lines]
             next == [at |-> "clear", cart |-> req[t].cart]
  <2>1. orders \in Seq(Order) /\ order \in Order
    BY <1>2, RequestTypes DEF StoreInv, Typed, TypeOK, Order
  <2>2. next.at = "clear" /\ next.cart = req[t].cart /\ next \in Requests
    BY <1>2, RequestTypes DEF StoreInv, Requests
  <2>3. order.cart = req[t].cart /\ order.lines = req[t].lines
    OBVIOUS
  <2>4. orders' = Append(orders, order) /\ Goto(t, next)
    BY <1>4
  <2> HIDE DEF order, next
  <2>5. /\ DOMAIN orders' = DOMAIN orders \cup {Len(orders) + 1}
        /\ \A k \in DOMAIN orders : orders'[k] = orders[k]
        /\ orders'[Len(orders) + 1] = order
    BY <2>1, <2>4
  <2>6. \A u \in Tabs : req'[u] = IF u = t THEN next ELSE req[u]
    BY <2>2, <2>4, GotoTyped DEF StoreInv, Typed
  <2>7. ASSUME NEW u \in Tabs, At(u, "cards")'
        PROVE  CheckoutOK(req[u])'
    <3>1. req'[u] = req[u] /\ At(u, "cards")
      BY <2>2, <2>6, <2>7 DEF At
    <3> QED BY <1>1, <3>1 DEF StoreInv, CheckoutOK, OfCart
  <2>8. (\A k \in DOMAIN orders : \A l \in orders[k].lines : OfCart(l.row, orders[k].cart))'
    <3>1. ASSUME NEW k \in DOMAIN orders', NEW l \in orders'[k].lines
          PROVE  OfCart(l.row, orders'[k].cart)
      BY <1>2, <2>3, <2>5 DEF StoreInv, CheckoutOK
    <3> QED BY <1>1, <3>1 DEF OfCart
  <2>9. OrderedRowsLeave'
    <3> SUFFICES ASSUME NEW r \in rows, NEW k \in DOMAIN orders', NEW l \in orders'[k].lines,
                        l.row = r.id
                 PROVE  \/ r.cart \in cut
                        \/ \E u \in Tabs : req'[u].at = "clear" /\ req'[u].cart = r.cart
      BY <1>1 DEF OrderedRowsLeave, At
    <3>1. CASE k \in DOMAIN orders
      <4>1. \/ r.cart \in cut
            \/ \E u \in Tabs : At(u, "clear") /\ req[u].cart = r.cart
        BY <2>5, <3>1 DEF StoreInv, OrderedRowsLeave
      <4> QED BY <1>2, <2>6, <4>1 DEF At
    <3>2. CASE k = Len(orders) + 1
      <4>1. r.cart = req[t].cart
        BY <1>2, <2>3, <2>5, <3>2 DEF CheckoutOK, OfCart
      <4> QED BY <2>2, <2>6, <4>1
    <3> QED BY <2>5, <3>1, <3>2
  <2>10. OrdersInOneCurrency'
    <3>1. ASSUME NEW k \in DOMAIN orders', NEW l \in orders'[k].lines,
                 NEW m \in orders'[k].lines
          PROVE  l.card.currency = m.card.currency
      BY <1>4, <2>3, <2>5 DEF StoreInv, OrdersInOneCurrency
    <3> QED BY <3>1 DEF OrdersInOneCurrency
  <2>11. (\A r \in rows : OfCart(r.id, r.cart))'
    BY <1>1, RowsOfCartsKept DEF StoreInv
  <2>12. ASSUME NEW u \in Tabs, At(u, "cards")'
         PROVE  ShownOK(req[u], cards)'
    <3>1. req'[u] = req[u] /\ At(u, "cards") /\ cards' = cards
      BY <2>2, <2>6, <2>12 DEF At, CheckoutCommit
    <3> QED BY <3>1 DEF StoreInv, ShownOK
  <2> QED BY <1>1, <2>7, <2>8, <2>9, <2>10, <2>11, <2>12 DEF StoreInv
<1> QED BY <1>3, <1>4 DEF CheckoutCommit

LEMMA ClearKeeps ==
  ASSUME StoreInv, NEW t \in Tabs, CheckoutClear(t)
  PROVE  StoreInv'
<1>1. Typed' /\ RowsFollow
  BY ClearTyped DEF StoreInv
<1>2. Goto(t, Reply(NoCart)) /\ Reply(NoCart).at # "cards"
  BY DEF CheckoutClear, Reply, Idle
<1>3. Reply(NoCart) \in Requests
  BY <1>1, <1>2 DEF Goto, StoreInv, Typed
<1>4. \A r \in rows' : r.cart # req[t].cart
  BY DEF CheckoutClear, Clear, ListItems
<1> QED BY <1>1, <1>2, <1>3, <1>4, RequestMoves DEF CheckoutClear

LEMMA ReceiveKeeps ==
  ASSUME StoreInv, NEW t \in Tabs, Receive(t)
  PROVE  StoreInv'
<1>1. Typed' /\ RowsFollow
  BY ReceiveTyped, RowsGo DEF StoreInv, Receive, cartVars
<1> QED BY <1>1, RequestTypes, RequestMoves DEF StoreInv, Receive, Idle, At

LEMMA DropKeeps ==
  ASSUME StoreInv, NEW t \in Tabs, Drop(t)
  PROVE  StoreInv'
<1>1. Typed' /\ RowsFollow
  BY DropTyped, RowsGo DEF StoreInv, Drop, cartVars
<1>2. At(t, "clear") => req[t].cart \in cut'
  BY DEF Drop, HalfDone, At
<1> QED BY <1>1, <1>2, RequestTypes, RequestMoves DEF StoreInv, Drop, Idle

LEMMA StutterKeeps ==
  ASSUME StoreInv, UNCHANGED vars
  PROVE  StoreInv'
<1>1. Typed' /\ RowsFollow
  BY TypedKept, RowsGo DEF StoreInv, vars, cartVars
<1>2. /\ UNCHANGED <<cards, orders, cut>>
      /\ \A t \in Tabs : req'[t] = req[t]
  BY DEF vars
<1>3. \A t \in Tabs : req'[t].at = "cards" => CheckoutOK(req'[t]) /\ ShownOK(req'[t], cards')
  BY <1>2 DEF StoreInv, At
<1> QED BY <1>1, <1>2, <1>3, OrdersStay

LEMMA StoreStep == StoreInv /\ [Next]_vars => StoreInv'
<1> SUFFICES ASSUME StoreInv, [Next]_vars PROVE StoreInv'
  OBVIOUS
<1>1. CASE \E p \in Products, card \in Cards \cup {None} : CatalogChanges(p, card)
  BY <1>1, CatalogKeeps
<1>2. ASSUME NEW t \in Tabs, Send(t)
      PROVE  StoreInv'
  BY <1>2, SendKeeps
<1>3. ASSUME NEW t \in Tabs,
             AddFindCard(t) \/ AddCreateCart(t) \/ AddCheckCurrency(t) \/ AddRefused(t)
      PROVE  StoreInv'
  BY <1>3, AddStepsKeep
<1>4. ASSUME NEW t \in Tabs, NEW qty \in 1 .. MaxQty, AddWrite(t, qty)
      PROVE  StoreInv'
  BY <1>4, AddWriteKeeps
<1>5. ASSUME NEW t \in Tabs, EditCart(t)
      PROVE  StoreInv'
  BY <1>5, EditKeeps
<1>6. ASSUME NEW t \in Tabs, CheckoutList(t) \/ CheckoutReadCard(t)
      PROVE  StoreInv'
  BY <1>6, CheckoutListKeeps, ReadCardKeeps
<1>7. ASSUME NEW t \in Tabs, CheckoutCommit(t) \/ CheckoutClear(t)
      PROVE  StoreInv'
  BY <1>7, CommitKeeps, ClearKeeps
<1>8. ASSUME NEW t \in Tabs, Receive(t) \/ Drop(t)
      PROVE  StoreInv'
  BY <1>8, ReceiveKeeps, DropKeeps
<1>9. CASE UNCHANGED vars
  BY <1>9, StutterKeeps
<1> QED BY <1>1, <1>2, <1>3, <1>4, <1>5, <1>6, <1>7, <1>8, <1>9 DEF Next

LEMMA StoreAlways == Spec => []StoreInv
  BY InitStore, StoreStep, PTL DEF Spec

(* For any number of tabs, browsers, products, carts and orders: every request
   holds locals of its place, and a quantity never exceeds MAX_QTY. *)
THEOREM StorefrontTypeCorrect == Spec => []TypeOK
<1>1. StoreInv => TypeOK
  BY DEF StoreInv, Typed
<1> QED BY <1>1, StoreAlways, PTL

(* The check of the currencies in render_submit (checkout.rs:211) is enough:
   no order mixes them, whatever other tabs and the catalog do meanwhile. *)
THEOREM OrdersHaveOneCurrency == Spec => []OrdersInOneCurrency
<1>1. StoreInv => OrdersInOneCurrency
  BY DEF StoreInv
<1> QED BY <1>1, StoreAlways, PTL

(* A row that was ordered stays in its cart only while a checkout of that cart
   is about to clear it, or after one was dropped before it could. *)
THEOREM OrderedRowsAreCleared == Spec => []OrderedRowsLeave
<1>1. StoreInv => OrderedRowsLeave
  BY DEF StoreInv
<1> QED BY <1>1, StoreAlways, PTL

(* A checkout goes from reading cards to clearing its cart by a commit only. *)
LEMMA OnlyACommit ==
  ASSUME StoreInv, [Next]_vars, NEW t \in Tabs, At(t, "cards"), At(t, "clear")'
  PROVE  CheckoutCommit(t)
<1>1. req \in [Tabs -> Requests] /\ req[t].at = "cards" /\ req'[t].at = "clear"
  BY DEF StoreInv, Typed, At
<1>2. ASSUME NEW p \in Products, NEW card \in Cards \cup {None}, CatalogChanges(p, card)
      PROVE  FALSE
  <2>1. req'[t] = [req[t] EXCEPT !.shown = @ \cup {<<p, card>>}]
    BY <1>1, <1>2 DEF CatalogChanges, At
  <2>2. req'[t].at = "cards"
    BY <1>1, <2>1, RequestTypes DEF StoreInv
  <2> QED BY <1>1, <2>2
<1>3. ASSUME NEW u \in Tabs, NEW next, Goto(u, next)
      PROVE  u = t /\ next.at = "clear"
  BY <1>1, <1>3 DEF Goto
<1>4. ASSUME NEW u \in Tabs, Send(u) \/ CheckoutList(u) \/ Receive(u) \/ Drop(u)
      PROVE  FALSE
  <2>1. CASE Send(u)
    BY <1>1, <1>3, <2>1 DEF Send, At
  <2>2. CASE CheckoutList(u)
    BY <1>1, <1>3, <2>2 DEF CheckoutList, At
  <2>3. CASE Receive(u) \/ Drop(u)
    <3>1. Goto(u, Idle)
      BY <2>3 DEF Receive, Drop
    <3> QED BY <1>3, <3>1 DEF Idle
  <2> QED BY <1>4, <2>1, <2>2, <2>3
<1>5. ASSUME NEW u \in Tabs,
             AddFindCard(u) \/ AddCreateCart(u) \/ AddCheckCurrency(u) \/ AddRefused(u)
      PROVE  FALSE
  BY <1>1, <1>3, <1>5 DEF AddFindCard, AddCreateCart, AddCheckCurrency, AddRefused, At
<1>6. ASSUME NEW u \in Tabs, NEW qty \in 1 .. MaxQty, AddWrite(u, qty)
      PROVE  FALSE
  BY <1>1, <1>3, <1>6 DEF AddWrite, At
<1>7. ASSUME NEW u \in Tabs, EditCart(u) \/ CheckoutClear(u)
      PROVE  FALSE
  BY <1>1, <1>3, <1>7 DEF EditCart, CheckoutClear, At
<1>8. ASSUME NEW u \in Tabs, CheckoutReadCard(u)
      PROVE  FALSE
  <2>1. PICK next : Goto(u, next) /\ (next = Idle \/ \E lines : next = [req[u] EXCEPT !.lines = lines])
    BY <1>8 DEF CheckoutReadCard
  <2>2. u = t /\ next.at = "clear"
    BY <1>3, <2>1
  <2> QED BY <1>1, <2>1, <2>2, RequestTypes DEF StoreInv, Idle
<1>9. ASSUME NEW u \in Tabs, CheckoutCommit(u)
      PROVE  CheckoutCommit(t)
  BY <1>3, <1>9 DEF CheckoutCommit
<1>10. ~ UNCHANGED vars
  BY <1>1 DEF vars
<1> QED BY <1>2, <1>4, <1>5, <1>6, <1>7, <1>8, <1>9, <1>10 DEF Next

(* An order has prices of the catalog and not of the cart (checkout.rs:8-11):
   each was shown while that checkout was running, however the catalog changed
   between one card and the next. *)
THEOREM PricesAreShown == Spec => PricesWereShown
<1>1. StoreInv /\ [Next]_vars =>
        \A t \in Tabs : At(t, "cards") /\ At(t, "clear")' =>
          \A l \in orders'[Len(orders')].lines : <<l.product, l.card>> \in req[t].shown
  <2> SUFFICES ASSUME StoreInv, [Next]_vars, NEW t \in Tabs, At(t, "cards"), At(t, "clear")'
               PROVE  \A l \in orders'[Len(orders')].lines :
                        <<l.product, l.card>> \in req[t].shown
    OBVIOUS
  <2> DEFINE order == [cart |-> req[t].cart, lines |-> req[t].lines]
  <2>1. CheckoutCommit(t)
    BY OnlyACommit
  <2>2. orders' = Append(orders, order)
    <3>1. ~ Goto(t, Idle)
      BY DEF StoreInv, Typed, At, Goto, Idle
    <3> QED BY <2>1, <3>1 DEF CheckoutCommit
  <2>3. orders \in Seq([cart : CartIds, lines : SUBSET Lines])
        /\ order \in [cart : CartIds, lines : SUBSET Lines]
    BY RequestTypes DEF StoreInv, Typed, TypeOK
  <2>4. orders'[Len(orders')].lines = req[t].lines
    <3>1. Len(orders) \in Nat /\ Len(orders') = Len(orders) + 1
      BY <2>2, <2>3
    <3>2. orders'[Len(orders) + 1] = order
      BY <2>2, <2>3, <3>1
    <3> QED BY <3>1, <3>2
  <2>5. ShownOK(req[t], cards)
    BY DEF StoreInv
  <2> QED BY <2>4, <2>5 DEF ShownOK
<1>2. StoreInv /\ [Next]_vars =>
        [\A t \in Tabs : At(t, "cards") /\ At(t, "clear")' =>
           LET order == orders'[Len(orders')] IN
             \A l \in order.lines : <<l.product, l.card>> \in req[t].shown]_vars
  BY <1>1
<1> QED BY <1>2, StoreAlways, PTL DEF Spec, PricesWereShown
-----------------------------------------------------------------------------
(* The cart of a tab's cookie, and the cart its request has in hand. *)
Mine(t) == cookie[Browser[t]]

InHand(r) ==
  IF r.at \in {"check", "add"} THEN r.cart
  ELSE IF r.at = "reply" THEN r.cookie ELSE NoCart

Names(t, c) == Mine(t) = c \/ InHand(req[t]) = c

Ordered(r) == \E k \in DOMAIN orders : \E l \in orders[k].lines : l.row = r.id /\ l.qty = r.qty

(* A request works on the cart of its tab's cookie, or on one it created for a
   tab without a cookie, and what it has read of that cart is still so. *)
TabOK(t) ==
  LET r == req[t] IN
  /\ r.at \in {"slug", "create", "edit", "list", "cards", "clear"} => r.cart = Mine(t)
  /\ r.at = "create" => r.cart = NoCart /\ r.set = NoSet
  /\ r.at \in {"check", "add"} => \/ r.set = NoSet /\ r.cart = Mine(t)
                                  \/ r.set = r.cart /\ Mine(t) = NoCart
  /\ r.at = "add" =>
       \A s \in ListItems(r.cart) : s.card.currency = r.item.card.currency
  /\ r.at = "cards" => /\ r.listed = ListItems(Mine(t))
                       /\ \A l \in r.lines : \E s \in r.listed : l.row = s.id /\ l.qty = s.qty
  /\ r.at = "clear" => \A s \in ListItems(Mine(t)) : Ordered(s)
  /\ r.at = "reply" => \/ Mine(t) = NoCart
                       \/ r.cookie = NoCart /\ ListItems(Mine(t)) = {}

(* No two tabs name the same cart, and there is none yet beyond `carts`. *)
OwnCarts ==
  /\ \A t \in Tabs : \A c \in CartIds : Names(t, c) => c <= carts
  /\ \A t, u \in Tabs : \A c \in CartIds : Names(t, c) /\ Names(u, c) => t = u
  /\ \A r \in rows : r.cart <= carts

OwnIds == \A r, s \in rows : r.id = s.id => r = s

TabInv ==
  /\ \A t \in Tabs : TabOK(t)
  /\ OwnCarts
  /\ OwnIds
  /\ CartInOneCurrency
  /\ RowsReachable

LEMMA InitTabs == Init => TabInv
<1> SUFFICES ASSUME Init PROVE TabInv
  OBVIOUS
<1>1. /\ rows = {} /\ \A t \in Tabs : req[t] = Idle /\ Mine(t) = NoCart
  BY DEF Init, CartInit, Mine, Browsers
<1>2. \A t \in Tabs : TabOK(t)
  BY <1>1 DEF TabOK, Idle
<1>3. \A t \in Tabs, c \in CartIds : ~ Names(t, c)
  BY <1>1 DEF Names, InHand, Idle, CartIds, NoCart
<1> QED BY <1>1, <1>2, <1>3
  DEF TabInv, OwnCarts, OwnIds, CartInOneCurrency, RowsReachable

-----------------------------------------------------------------------------
(* What a step of tab t may do: write carts it names, take a new cart, add an
   order, and set the cookie of its browser. *)
WritesOwn(t) ==
  \A d \in 0 .. MaxCarts : ListItems(d)' = ListItems(d) \/ (d # NoCart /\ Names(t, d))

TakesNew(t) ==
  /\ carts' \in {carts, carts + 1}
  /\ \A c \in CartIds : Names(t, c)' => Names(t, c) \/ (c = carts + 1 /\ carts' = carts + 1)

OrdersGrow == \A k \in DOMAIN orders : k \in DOMAIN orders' /\ orders'[k] = orders[k]

OwnCookie(t) == \A b \in Browsers : b # Browser[t] => cookie'[b] = cookie[b]

(* Of the carts that only tab t could reach, those with rows stay in reach. *)
KeepsReach(t) ==
  \A r \in rows' :
    Mine(t) = r.cart \/ (At(t, "reply") /\ req[t].cookie = r.cart) \/ ListItems(r.cart) = {} =>
      r.cart \in cut' \/ Mine(t)' = r.cart \/ (At(t, "reply")' /\ req'[t].cookie = r.cart)

OneTabEach == \A t, u \in Tabs : Browser[t] = Browser[u] => t = u

(* The other tabs do not notice. *)
LEMMA OthersKept ==
  ASSUME OneTabEach, StoreInv, TabInv, NEW t \in Tabs, NEW next \in Requests, Goto(t, next),
         WritesOwn(t), OwnCookie(t), OrdersGrow, NEW u \in Tabs, u # t
  PROVE  TabOK(u)' /\ Mine(u)' = Mine(u) /\ req'[u] = req[u]
<1>1. Browser[u] \in Browsers /\ Browser[u] # Browser[t]
  BY DEF OneTabEach, Browsers
<1>2. Mine(u)' = Mine(u) /\ Mine(u) \in 0 .. MaxCarts
  BY <1>1 DEF OwnCookie, Mine, StoreInv, Typed, TypeOK
<1>3. req'[u] = req[u] /\ req[u] \in Requests
  BY GotoTyped DEF StoreInv, Typed
<1>4. \A c \in 0 .. MaxCarts : Names(u, c) => ListItems(c)' = ListItems(c)
  <2> SUFFICES ASSUME NEW c \in 0 .. MaxCarts, Names(u, c), c # NoCart, Names(t, c)
               PROVE  FALSE
    BY DEF WritesOwn
  <2>1. c \in CartIds
    BY CartAssumption DEF CartIds, NoCart
  <2> QED BY <2>1 DEF TabInv, OwnCarts
<1>5. PICK r \in Requests, mine \in 0 .. MaxCarts : r = req[u] /\ mine = Mine(u)
  BY <1>2, <1>3
<1>6. \A c \in 0 .. MaxCarts : c = mine \/ InHand(r) = c => ListItems(c)' = ListItems(c)
  BY <1>4, <1>5 DEF Names
<1>7. ListItems(mine)' = ListItems(mine)
  BY <1>6
<1>8. r.at = "add" => ListItems(r.cart)' = ListItems(r.cart)
  <2>1. r.at = "add" => r.cart \in 0 .. MaxCarts /\ InHand(r) = r.cart
    BY RequestTypes, <1>5 DEF InHand, At, StoreInv
  <2> QED BY <1>6, <2>1
<1>9. \A s : Ordered(s) => Ordered(s)'
  BY DEF Ordered, OrdersGrow
<1>10. TabOK(u)
  BY DEF TabInv
<1>11. TabOK(u)'
  BY <1>2, <1>3, <1>5, <1>7, <1>8, <1>9, <1>10 DEF TabOK
<1> QED BY <1>2, <1>3, <1>11

(* The carts of the tabs stay apart. *)
LEMMA OwnCartsKept ==
  ASSUME OneTabEach, StoreInv, StoreInv', TabInv, NEW t \in Tabs, NEW next \in Requests,
         Goto(t, next), WritesOwn(t), OwnCookie(t), OrdersGrow, TakesNew(t)
  PROVE  OwnCarts'
<1>1. \A u \in Tabs : u # t => \A c \in CartIds : Names(u, c)' => Names(u, c)
  BY OthersKept DEF Names
<1>2. carts \in Nat /\ carts' \in Nat /\ carts <= carts' /\ CartIds \subseteq Nat
  BY CartAssumption DEF StoreInv, Typed, TypeOK, TakesNew, CartIds
<1>3. ASSUME NEW u \in Tabs, NEW c \in CartIds, Names(u, c)'
      PROVE  c <= carts'
  <2>1. Names(u, c) \/ (c = carts + 1 /\ carts' = carts + 1)
    BY <1>1, <1>3 DEF TakesNew
  <2> QED BY <1>2, <2>1 DEF TabInv, OwnCarts
<1>4. ASSUME NEW u \in Tabs, NEW c \in CartIds, Names(u, c)', Names(t, c)', u # t
      PROVE  FALSE
  <2>1. Names(u, c) /\ c <= carts
    BY <1>1, <1>4 DEF TabInv, OwnCarts
  <2>2. Names(t, c)
    BY <1>2, <1>4, <2>1 DEF TakesNew
  <2> QED BY <1>4, <2>1, <2>2 DEF TabInv, OwnCarts
<1>5. ASSUME NEW u \in Tabs, NEW v \in Tabs, NEW c \in CartIds, Names(u, c)', Names(v, c)'
      PROVE  u = v
  <2>1. CASE u = t \/ v = t
    BY <1>4, <1>5, <2>1
  <2>2. CASE u # t /\ v # t
    BY <1>1, <1>5, <2>2 DEF TabInv, OwnCarts
  <2> QED BY <2>1, <2>2
<1>6. ASSUME NEW r \in rows'
      PROVE  r.cart <= carts'
  <2>1. r.cart \in CartIds /\ r.cart \in 0 .. MaxCarts
    BY CartAssumption DEF StoreInv, Typed, TypeOK, CartRow, CartIds
  <2>2. CASE ListItems(r.cart)' = ListItems(r.cart)
    <3>1. r \in rows
      BY <2>2 DEF ListItems
    <3> QED BY <1>2, <2>1, <3>1 DEF TabInv, OwnCarts
  <2>3. CASE Names(t, r.cart)
    BY <1>2, <2>1, <2>3 DEF TabInv, OwnCarts
  <2> QED BY <2>1, <2>2, <2>3 DEF WritesOwn
<1> QED BY <1>3, <1>5, <1>6 DEF OwnCarts

(* What was in reach stays in reach. *)
LEMMA ReachKept ==
  ASSUME OneTabEach, StoreInv, StoreInv', TabInv, NEW t \in Tabs, NEW next \in Requests,
         Goto(t, next), WritesOwn(t), OwnCookie(t), OrdersGrow, KeepsReach(t), cut \subseteq cut'
  PROVE  RowsReachable'
<1>1. ASSUME NEW r \in rows'
      PROVE  \/ r.cart \in cut'
             \/ \E b \in Browsers : cookie'[b] = r.cart
             \/ \E u \in Tabs : req'[u].at = "reply" /\ req'[u].cookie = r.cart
  <2>1. Browser[t] \in Browsers
    BY DEF Browsers
  <2>2. CASE \/ Mine(t) = r.cart \/ ListItems(r.cart) = {}
             \/ At(t, "reply") /\ req[t].cookie = r.cart
    BY <2>1, <2>2 DEF KeepsReach, Mine, At
  <2>3. CASE ~ \/ Mine(t) = r.cart \/ ListItems(r.cart) = {}
               \/ At(t, "reply") /\ req[t].cookie = r.cart
    <3>1. PICK s \in rows : s.cart = r.cart
      BY <2>3 DEF ListItems
    <3>2. \/ r.cart \in cut
          \/ \E b \in Browsers : cookie[b] = r.cart
          \/ \E u \in Tabs : At(u, "reply") /\ req[u].cookie = r.cart
      BY <3>1 DEF TabInv, RowsReachable
    <3>3. ASSUME NEW b \in Browsers, cookie[b] = r.cart
          PROVE  cookie'[b] = r.cart
      BY <2>3, <3>3 DEF Mine, OwnCookie
    <3>4. ASSUME NEW u \in Tabs, At(u, "reply"), req[u].cookie = r.cart
          PROVE  req'[u].at = "reply" /\ req'[u].cookie = r.cart
      BY <2>3, <3>4, OthersKept DEF At
    <3> QED BY <3>2, <3>3, <3>4
  <2> QED BY <2>2, <2>3
<1> QED BY <1>1 DEF RowsReachable, At

(* A step of one tab: what it must see to itself. *)
LEMMA TabMoves ==
  ASSUME OneTabEach, StoreInv, StoreInv', TabInv, NEW t \in Tabs, NEW next, Goto(t, next),
         WritesOwn(t), OwnCookie(t), OrdersGrow, TakesNew(t), KeepsReach(t), cut \subseteq cut',
         TabOK(t)', OwnIds', CartInOneCurrency'
  PROVE  TabInv'
<1>1. next \in Requests
  BY DEF Goto, StoreInv, Typed
<1>2. \A u \in Tabs : TabOK(u)'
  BY <1>1, OthersKept
<1> QED BY <1>1, <1>2, OwnCartsKept, ReachKept DEF TabInv

(* A step that writes neither a cart nor a cookie. *)
LEMMA QuietStep ==
  ASSUME OneTabEach, StoreInv, StoreInv', TabInv, NEW t \in Tabs, NEW next, Goto(t, next),
         UNCHANGED <<rows, cookie>>, OrdersGrow, TakesNew(t), cut \subseteq cut', TabOK(t)',
         At(t, "reply") => \/ req'[t] = req[t] \/ req[t].cookie = NoCart
                           \/ req[t].cookie \in cut'
  PROVE  TabInv'
<1>1. WritesOwn(t) /\ OwnCookie(t) /\ OwnIds' /\ CartInOneCurrency' /\ Mine(t)' = Mine(t)
  BY DEF WritesOwn, ListItems, OwnCookie, OwnIds, CartInOneCurrency, TabInv, Mine
<1>2. KeepsReach(t)
  <2>1. ASSUME NEW r \in rows'
        PROVE  r.cart # NoCart /\ ListItems(r.cart) # {}
    BY DEF ListItems, StoreInv, Typed, TypeOK, CartRow, CartIds, NoCart
  <2> QED BY <1>1, <2>1 DEF KeepsReach, At
<1> QED BY <1>1, <1>2, TabMoves

(* What the writes of a cart leave alone: the rows of other carts, the ids, and
   the currency of the cart. *)
CartWrite(cart) ==
  /\ \A d \in 0 .. MaxCarts : d # cart => ListItems(d)' = ListItems(d)
  /\ OwnIds'
  /\ CartInOneCurrency'

LEMMA RowsLeft ==
  ASSUME TabInv, NEW cart, NEW gone \in SUBSET ListItems(cart), rows' = rows \ gone
  PROVE  CartWrite(cart)
  BY DEF CartWrite, ListItems, TabInv, OwnIds, CartInOneCurrency

LEMMA AddedWell ==
  ASSUME StoreInv, TabInv, NEW cart \in CartIds, NEW product, NEW qty, NEW card,
         AddItem(cart, product, qty, card),
         \A s \in ListItems(cart) : s.card.currency = card.currency
  PROVE  CartWrite(cart) /\ \A r \in rows : \E s \in rows' : s.id = r.id
<1> DEFINE same == {r \in ListItems(cart) : r.product = product}
<1>1. /\ \A r \in rows : r.id \in Nat /\ r.id <= lastRow /\ r \in CartRow
      /\ lastRow \in Nat /\ same \subseteq ListItems(cart) /\ ListItems(cart) \subseteq rows
      /\ \A r \in same : r.cart = cart
  BY CartAssumption DEF StoreInv, OfCart, ListItems, Typed, TypeOK, CartRow, RowIds
<1> DEFINE row == [id |-> lastRow + 1, cart |-> cart, product |-> product,
                   qty |-> qty, card |-> card]
           new == {[r EXCEPT !.qty = AddedQty(r.qty, qty), !.card = card] : r \in same}
<1>2. \/ rows' = rows \cup {row}
      \/ rows' = (rows \ same) \cup new
  BY DEF AddItem
<1>3. row.id = lastRow + 1 /\ row.cart = cart /\ row.card = card
  OBVIOUS
<1>4. ASSUME NEW r \in same
      PROVE  LET s == [r EXCEPT !.qty = AddedQty(r.qty, qty), !.card = card] IN
               s.id = r.id /\ s.cart = cart /\ s.card = card
  BY <1>1 DEF CartRow
<1>5. /\ \A s \in new : \E r \in same : s.id = r.id /\ s.cart = cart /\ s.card = card
      /\ \A r \in same : \E s \in new : s.id = r.id /\ s.cart = cart /\ s.card = card
  BY <1>4
<1>6. \A s, q \in new : s.id = q.id => s = q
  <2>1. \A r, q \in same : r.id = q.id => r = q
    BY <1>1 DEF TabInv, OwnIds
  <2> SUFFICES ASSUME NEW s \in new, NEW q \in new, s.id = q.id PROVE s = q
    OBVIOUS
  <2>2. PICK r \in same : s = [r EXCEPT !.qty = AddedQty(r.qty, qty), !.card = card]
    OBVIOUS
  <2>3. PICK p \in same : q = [p EXCEPT !.qty = AddedQty(p.qty, qty), !.card = card]
    OBVIOUS
  <2>4. s.id = r.id /\ q.id = p.id
    BY <1>4, <2>2, <2>3
  <2>5. r = p
    BY <2>1, <2>4
  <2> QED BY <2>2, <2>3, <2>5
<1> HIDE DEF row, new, same
<1>7. CASE rows' = rows \cup {row}
  <2>1. \A d \in 0 .. MaxCarts : d # cart => ListItems(d)' = ListItems(d)
    BY <1>3, <1>7 DEF ListItems
  <2>2. OwnIds'
    BY <1>1, <1>3, <1>7 DEF OwnIds, TabInv
  <2>3. CartInOneCurrency'
    BY <1>3, <1>7 DEF CartInOneCurrency, ListItems, TabInv
  <2> QED BY <1>7, <2>1, <2>2, <2>3 DEF CartWrite
<1>8. CASE rows' = (rows \ same) \cup new
  <2>1. \A d \in 0 .. MaxCarts : d # cart => ListItems(d)' = ListItems(d)
    BY <1>1, <1>5, <1>8 DEF ListItems
  <2>2. OwnIds'
    <3>1. \A r \in rows \ same : \A s \in new : r.id # s.id
      BY <1>1, <1>5 DEF OwnIds, TabInv
    <3> QED BY <1>6, <1>8, <3>1 DEF OwnIds, TabInv
  <2>3. CartInOneCurrency'
    <3>1. \A s \in rows' : s.cart = cart => s.card.currency = card.currency
      BY <1>5, <1>8 DEF ListItems
    <3>2. \A s \in rows' : s.cart # cart => s \in rows
      BY <1>5, <1>8
    <3> QED BY <3>1, <3>2 DEF CartInOneCurrency, TabInv
  <2>4. \A r \in rows : \E s \in rows' : s.id = r.id
    BY <1>5, <1>8
  <2> QED BY <2>1, <2>2, <2>3, <2>4 DEF CartWrite
<1> QED BY <1>2, <1>7, <1>8

LEMMA EditedWell ==
  ASSUME StoreInv, TabInv, NEW cart \in CartIds, NEW id, NEW qty,
         UpdateQty(cart, id, qty) \/ RemoveItem(cart, id)
  PROVE  /\ CartWrite(cart)
         /\ \A r \in rows : (\E s \in rows' : s.id = r.id) \/ (r.id = id /\ r.cart = cart)
<1>1. /\ OwnRow(cart, id) \subseteq ListItems(cart)
      /\ \A r \in OwnRow(cart, id) : r.id = id /\ r.cart = cart /\ r \in rows /\ r \in CartRow
  BY DEF OwnRow, ListItems, StoreInv, Typed, TypeOK
<1>2. CASE rows' = rows \ OwnRow(cart, id)
  <2>1. \A r \in rows \ OwnRow(cart, id) : r \in rows'
    BY <1>2
  <2> QED BY <1>1, <1>2, <2>1, RowsLeft
<1>3. CASE rows' = (rows \ OwnRow(cart, id)) \cup {[r EXCEPT !.qty = qty] : r \in OwnRow(cart, id)}
  <2> DEFINE new == {[r EXCEPT !.qty = qty] : r \in OwnRow(cart, id)}
  <2>1. ASSUME NEW r \in OwnRow(cart, id)
        PROVE  LET s == [r EXCEPT !.qty = qty] IN
                 s.id = id /\ s.cart = cart /\ s.card = r.card
    BY <1>1 DEF CartRow
  <2>2. /\ \A s \in new : s.id = id /\ s.cart = cart
        /\ \A s \in new : \E r \in OwnRow(cart, id) : s.card = r.card
        /\ \A r \in OwnRow(cart, id) : \E s \in new : s.id = id
    BY <2>1
  <2>3. \A s, q \in new : s = q
    <3>1. \A r, q \in OwnRow(cart, id) : r = q
      BY <1>1 DEF TabInv, OwnIds
    <3> QED BY <3>1
  <2>4. rows' = (rows \ OwnRow(cart, id)) \cup new
    BY <1>3
  <2> HIDE DEF new
  <2>5. \A d \in 0 .. MaxCarts : d # cart => ListItems(d)' = ListItems(d)
    BY <1>1, <2>2, <2>4 DEF ListItems
  <2>6. OwnIds'
    <3>1. \A r \in rows \ OwnRow(cart, id) : \A s \in new : r.id # s.id
      <4>1. new # {} => \E q \in OwnRow(cart, id) : TRUE
        BY <2>2
      <4> QED BY <1>1, <2>2, <4>1 DEF OwnIds, TabInv
    <3> QED BY <2>3, <2>4, <3>1 DEF OwnIds, TabInv
  <2>7. CartInOneCurrency'
    <3>1. \A s \in rows' : \E r \in rows : r.cart = s.cart /\ r.card = s.card
      BY <1>1, <2>2, <2>4
    <3> QED BY <3>1 DEF CartInOneCurrency, TabInv
  <2>8. \A r \in rows : (\E s \in rows' : s.id = r.id) \/ (r.id = id /\ r.cart = cart)
    BY <1>1, <2>4
  <2> QED BY <2>5, <2>6, <2>7, <2>8 DEF CartWrite
<1> QED BY <1>2, <1>3 DEF UpdateQty, RemoveItem

LEMMA CatalogTabs ==
  ASSUME StoreInv, TabInv, NEW p \in Products, NEW card \in Cards \cup {None},
         CatalogChanges(p, card)
  PROVE  TabInv'
<1>1. UNCHANGED <<rows, carts, cookie, orders, cut>>
  BY DEF CatalogChanges, cartVars
<1>2. ASSUME NEW t \in Tabs
      PROVE  /\ At(t, "cards") => /\ req'[t].at = "cards"
                                  /\ req'[t].cart = req[t].cart
                                  /\ req'[t].listed = req[t].listed
                                  /\ req'[t].lines = req[t].lines
             /\ ~ At(t, "cards") => req'[t] = req[t]
  BY RequestTypes DEF CatalogChanges, StoreInv, At
<1>3. ASSUME NEW t \in Tabs
      PROVE  Mine(t)' = Mine(t) /\ InHand(req[t])' = InHand(req[t])
  BY <1>1, <1>2 DEF Mine, InHand, At
<1>4. \A d : ListItems(d)' = ListItems(d)
  BY <1>1 DEF ListItems
<1>5. ASSUME NEW t \in Tabs
      PROVE  TabOK(t)'
  <2>1. TabOK(t)
    BY DEF TabInv
  <2>2. PICK mine : Mine(t) = mine
    OBVIOUS
  <2>3. ListItems(mine)' = ListItems(mine) /\ Mine(t)' = mine
    BY <1>3, <1>4, <2>2
  <2>4. CASE At(t, "cards")
    BY <1>2, <2>1, <2>2, <2>3, <2>4 DEF TabOK, At
  <2>5. CASE ~ At(t, "cards")
    <3>1. PICK r : r = req[t] /\ r = req'[t] /\ r.at # "cards"
      BY <1>2, <2>5 DEF At
    <3>2. ListItems(r.cart)' = ListItems(r.cart)
      BY <1>4
    <3>3. \A s : Ordered(s)' = Ordered(s)
      BY <1>1 DEF Ordered
    <3> QED BY <2>1, <2>2, <2>3, <3>1, <3>2, <3>3 DEF TabOK
  <2> QED BY <2>4, <2>5
<1>6. OwnCarts'
  <2>1. \A t \in Tabs, c \in CartIds : Names(t, c)' = Names(t, c)
    BY <1>3 DEF Names
  <2> QED BY <1>1, <2>1 DEF OwnCarts, TabInv
<1>7. RowsReachable'
  <2>1. ASSUME NEW t \in Tabs, At(t, "reply")
        PROVE  req'[t] = req[t]
    BY <1>2, <2>1 DEF At
  <2> QED BY <1>1, <2>1 DEF RowsReachable, At, TabInv
<1> QED BY <1>1, <1>5, <1>6, <1>7 DEF TabInv, OwnIds, CartInOneCurrency

LEMMA SendTabs ==
  ASSUME OneTabEach, StoreInv, StoreInv', TabInv, NEW t \in Tabs, Send(t)
  PROVE  TabInv'
<1>1. UNCHANGED <<rows, carts, cookie, orders, cut>> /\ At(t, "idle")
  BY DEF Send, cartVars
<1>2. PICK next : Goto(t, next) /\ next.at \in {"slug", "edit", "list"} /\ next.cart = Mine(t)
  <2> DEFINE cart == cookie[Browser[t]]
             add(p)   == [at |-> "slug", product |-> p, cart |-> cart]
             edit(id) == [at |-> "edit", id |-> id, cart |-> cart]
             list     == [at |-> "list", cart |-> cart]
  <2>1. \/ \E p \in Products : Goto(t, add(p))
        \/ \E id \in 1 .. lastRow : Goto(t, edit(id))
        \/ Goto(t, list)
    BY DEF Send
  <2>2. /\ \A p \in Products : add(p).at = "slug" /\ add(p).cart = Mine(t)
        /\ \A id \in 1 .. lastRow : edit(id).at = "edit" /\ edit(id).cart = Mine(t)
        /\ list.at = "list" /\ list.cart = Mine(t)
    BY DEF Mine
  <2> HIDE DEF add, edit, list
  <2> QED BY <2>1, <2>2
<1>3. req'[t] = next /\ Mine(t)' = Mine(t)
  BY <1>1, <1>2 DEF Goto, StoreInv, Typed, Mine
<1>4. TabOK(t)'
  BY <1>2, <1>3 DEF TabOK
<1>5. TakesNew(t)
  BY <1>1, <1>2, <1>3 DEF TakesNew, Names, InHand, CartIds, NoCart
<1> QED BY <1>1, <1>2, <1>4, <1>5, QuietStep DEF OrdersGrow, At

LEMMA FindCardTabs ==
  ASSUME OneTabEach, StoreInv, StoreInv', TabInv, NEW t \in Tabs, AddFindCard(t)
  PROVE  TabInv'
<1>1. UNCHANGED <<rows, carts, cookie, orders, cut>> /\ At(t, "slug")
  BY DEF AddFindCard, cartVars
<1>2. PICK next : /\ Goto(t, next)
                  /\ \/ next.at = "idle"
                     \/ /\ next.at = IF req[t].cart = NoCart THEN "create" ELSE "check"
                        /\ next.cart = req[t].cart
                        /\ next.set = NoSet
  <2> DEFINE next == [at   |-> IF req[t].cart = NoCart THEN "create" ELSE "check",
                      item |-> [product |-> req[t].product, card |-> cards[req[t].product]],
                      cart |-> req[t].cart, set |-> NoSet]
  <2>1. Goto(t, Idle) \/ Goto(t, next)
    BY DEF AddFindCard
  <2>2. /\ Idle.at = "idle"
        /\ next.at = IF req[t].cart = NoCart THEN "create" ELSE "check"
        /\ next.cart = req[t].cart
        /\ next.set = NoSet
    BY DEF Idle
  <2> HIDE DEF next
  <2> QED BY <2>1, <2>2
<1>3. req'[t] = next /\ Mine(t)' = Mine(t) /\ req[t].cart = Mine(t)
  BY <1>1, <1>2 DEF Goto, StoreInv, Typed, Mine, TabInv, TabOK, At
<1>4. TabOK(t)'
  BY <1>2, <1>3 DEF TabOK
<1>5. TakesNew(t)
  BY <1>1, <1>2, <1>3 DEF TakesNew, Names, InHand, CartIds, NoCart
<1> QED BY <1>1, <1>2, <1>4, <1>5, QuietStep DEF OrdersGrow, At

LEMMA CreateTabs ==
  ASSUME OneTabEach, StoreInv, StoreInv', TabInv, NEW t \in Tabs, AddCreateCart(t)
  PROVE  TabInv'
<1>1. UNCHANGED <<rows, cookie, orders, cut>> /\ At(t, "create") /\ carts' = carts + 1
  BY DEF AddCreateCart, CreateCart
<1>2. PICK next : Goto(t, next) /\ next.at = "check" /\ next.cart = carts' /\ next.set = carts'
  <2> DEFINE next == [req[t] EXCEPT !.at = "check", !.cart = carts', !.set = carts']
  <2>1. next.at = "check" /\ next.cart = carts' /\ next.set = carts'
    BY <1>1, RequestTypes DEF StoreInv
  <2>2. Goto(t, next)
    BY DEF AddCreateCart
  <2> HIDE DEF next
  <2> QED BY <2>1, <2>2
<1>3. req'[t] = next /\ Mine(t)' = Mine(t) /\ Mine(t) = NoCart
  BY <1>1, <1>2 DEF Goto, StoreInv, Typed, Mine, TabInv, TabOK, At
<1>4. TabOK(t)'
  BY <1>2, <1>3 DEF TabOK
<1>5. TakesNew(t)
  BY <1>1, <1>2, <1>3 DEF TakesNew, Names, InHand, CartIds, NoCart
<1> QED BY <1>1, <1>2, <1>4, <1>5, QuietStep DEF OrdersGrow, At

LEMMA CheckTabs ==
  ASSUME OneTabEach, StoreInv, StoreInv', TabInv, NEW t \in Tabs, AddCheckCurrency(t)
  PROVE  TabInv'
<1>1. UNCHANGED <<rows, carts, cookie, orders, cut>> /\ At(t, "check")
  BY DEF AddCheckCurrency, cartVars
<1>2. PICK next : /\ Goto(t, next)
                  /\ \/ next.at = "idle"
                     \/ /\ SameCurrency(req[t].cart, req[t].item.card)
                        /\ next.at = "add" /\ next.cart = req[t].cart
                        /\ next.item = req[t].item /\ next.set = req[t].set
  <2> DEFINE next == [req[t] EXCEPT !.at = "add"]
  <2>1. Goto(t, Idle) \/ (Goto(t, next) /\ SameCurrency(req[t].cart, req[t].item.card))
    BY DEF AddCheckCurrency
  <2>2. /\ Idle.at = "idle" /\ next.at = "add" /\ next.cart = req[t].cart
        /\ next.item = req[t].item /\ next.set = req[t].set
    BY <1>1, RequestTypes DEF Idle, StoreInv
  <2> HIDE DEF next
  <2> QED BY <2>1, <2>2
<1>3. req'[t] = next /\ Mine(t)' = Mine(t)
  BY <1>1, <1>2 DEF Goto, StoreInv, Typed, Mine
<1>4. SameCurrency(req[t].cart, req[t].item.card) =>
        \A s \in ListItems(req[t].cart) : s.card.currency = req[t].item.card.currency
  <2> DEFINE first == FirstOf(ListItems(req[t].cart))
  <2> SUFFICES ASSUME SameCurrency(req[t].cart, req[t].item.card),
                      NEW s \in ListItems(req[t].cart)
               PROVE  s.card.currency = req[t].item.card.currency
    OBVIOUS
  <2>1. ListItems(req[t].cart) \subseteq CartRow
    BY DEF ListItems, StoreInv, Typed, TypeOK
  <2>2. first \in ListItems(req[t].cart)
    BY <2>1, FirstIsOne
  <2>3. first.card.currency = req[t].item.card.currency
    BY DEF SameCurrency
  <2> HIDE DEF first
  <2> QED BY <2>2, <2>3 DEF ListItems, TabInv, CartInOneCurrency
<1>5. TabOK(t)'
  <2>1. TabOK(t)
    BY DEF TabInv
  <2>2. PICK cart : cart = req[t].cart /\ ListItems(cart)' = ListItems(cart)
    BY <1>1 DEF ListItems
  <2> QED BY <1>1, <1>2, <1>3, <1>4, <2>1, <2>2 DEF TabOK, At
<1>6. TakesNew(t)
  BY <1>1, <1>2, <1>3 DEF TakesNew, Names, InHand, CartIds, NoCart, At
<1> QED BY <1>1, <1>2, <1>5, <1>6, QuietStep DEF OrdersGrow, At

(* A tab that is idle is in order. *)
LEMMA IdleOK ==
  ASSUME StoreInv, NEW t \in Tabs, Goto(t, Idle)
  PROVE  TabOK(t)' /\ req'[t].at = "idle"
<1>1. req'[t].at = "idle"
  BY DEF Goto, StoreInv, Typed, Idle
<1> QED BY <1>1 DEF TabOK

(* A request that ends without a trace. *)
LEMMA EndTabs ==
  ASSUME OneTabEach, StoreInv, StoreInv', TabInv, NEW t \in Tabs, Goto(t, Idle),
         UNCHANGED <<rows, carts, cookie, orders>>, cut \subseteq cut',
         At(t, "reply") => req[t].cookie = NoCart \/ req[t].cookie \in cut'
  PROVE  TabInv'
<1>1. Mine(t)' = Mine(t)
  BY DEF Mine
<1>2. TakesNew(t)
  BY <1>1, IdleOK DEF TakesNew, Names, InHand, CartIds, NoCart
<1>3. OrdersGrow
  BY DEF OrdersGrow
<1> QED BY <1>2, <1>3, IdleOK, QuietStep

LEMMA DropTabs ==
  ASSUME OneTabEach, StoreInv, StoreInv', TabInv, NEW t \in Tabs, AddRefused(t) \/ Drop(t)
  PROVE  TabInv'
<1>1. CASE AddRefused(t)
  BY <1>1, EndTabs DEF AddRefused, At, cartVars
<1>2. CASE Drop(t)
  <2>1. At(t, "reply") => req[t].cookie = NoCart \/ req[t].cookie \in cut'
    BY <1>2 DEF Drop, HalfDone, At
  <2> QED BY <1>2, <2>1, EndTabs DEF Drop, cartVars
<1> QED BY <1>1, <1>2

(* A write of the cart a tab has in hand. *)
LEMMA WriteStep ==
  ASSUME OneTabEach, StoreInv, StoreInv', TabInv, NEW t \in Tabs, NEW next, Goto(t, next),
         NEW cart \in CartIds, Names(t, cart), CartWrite(cart), cut = cut',
         UNCHANGED <<carts, cookie, orders>>, TabOK(t)', ~ At(t, "reply"),
         InHand(next) \in {NoCart, InHand(req[t])},
         Mine(t) = cart \/ (next.at = "reply" /\ next.cookie = cart)
                        \/ \A r \in rows' : r.cart # cart
  PROVE  TabInv'
<1>1. Mine(t)' = Mine(t) /\ req'[t] = next
  BY DEF Mine, Goto, StoreInv, Typed
<1>2. cart # NoCart /\ cart \in 0 .. MaxCarts
  BY CartAssumption DEF CartIds, NoCart
<1>3. WritesOwn(t)
  BY <1>2 DEF CartWrite, WritesOwn
<1>4. OwnCookie(t) /\ OrdersGrow
  BY DEF OwnCookie, OrdersGrow
<1>5. TakesNew(t)
  BY <1>1 DEF TakesNew, Names, InHand, CartIds, NoCart
<1>6. KeepsReach(t)
  <2> SUFFICES ASSUME NEW r \in rows', Mine(t) = r.cart \/ ListItems(r.cart) = {}
               PROVE  Mine(t)' = r.cart \/ (req'[t].at = "reply" /\ req'[t].cookie = r.cart)
    BY DEF KeepsReach, At
  <2>1. r.cart \in 0 .. MaxCarts
    BY CartAssumption DEF StoreInv, Typed, TypeOK, CartRow, CartIds
  <2>2. CASE r.cart = cart
    BY <1>1, <2>2
  <2>3. CASE r.cart # cart
    <3>1. r \in ListItems(r.cart)'
      BY DEF ListItems
    <3>2. PICK d \in 0 .. MaxCarts : d = r.cart
      BY <2>1
    <3>3. ListItems(d)' = ListItems(d)
      BY <2>3, <3>2 DEF CartWrite
    <3>4. r \in ListItems(d)
      BY <3>2, <3>3 DEF ListItems
    <3> QED BY <1>1, <3>2, <3>4
  <2> QED BY <2>2, <2>3
<1> QED BY <1>3, <1>4, <1>5, <1>6, TabMoves DEF CartWrite

LEMMA AddWriteTabs ==
  ASSUME OneTabEach, StoreInv, StoreInv', TabInv, NEW t \in Tabs, NEW qty \in 1 .. MaxQty,
         AddWrite(t, qty)
  PROVE  TabInv' /\ \A r \in rows : \E s \in rows' : s.id = r.id
<1>1. /\ At(t, "add") /\ UNCHANGED <<carts, cookie, orders, cut>>
      /\ AddItem(req[t].cart, req[t].item.product, qty, req[t].item.card)
      /\ Goto(t, Reply(req[t].set))
  BY DEF AddWrite, AddItem
<1>2. PICK cart \in CartIds : cart = req[t].cart
  BY <1>1, RequestTypes DEF StoreInv
<1>3. /\ \A s \in ListItems(cart) : s.card.currency = req[t].item.card.currency
      /\ (req[t].set = NoSet /\ cart = Mine(t)) \/ (req[t].set = cart /\ Mine(t) = NoCart)
      /\ InHand(req[t]) = cart
  BY <1>1, <1>2 DEF TabInv, TabOK, At, InHand
<1>4. CartWrite(cart) /\ \A r \in rows : \E s \in rows' : s.id = r.id
  BY <1>1, <1>2, <1>3, AddedWell
<1>5. PICK next : /\ Goto(t, next)
                  /\ \/ next.at = "idle" /\ cart = Mine(t)
                     \/ next.at = "reply" /\ next.cookie = cart /\ Mine(t) = NoCart
  <2>1. CASE req[t].set = NoSet
    <3>1. Goto(t, Idle) /\ Idle.at = "idle"
      BY <1>1, <2>1 DEF Reply, Idle
    <3>2. cart = Mine(t)
      BY <1>3, <2>1, StorefrontAssumption DEF NoSet
    <3> QED BY <3>1, <3>2
  <2>2. CASE req[t].set # NoSet
    <3>1. Goto(t, [at |-> "reply", cookie |-> cart])
      BY <1>1, <1>3, <2>2 DEF Reply
    <3> QED BY <1>3, <2>2, <3>1
  <2> QED BY <2>1, <2>2
<1>6. req'[t] = next /\ Mine(t)' = Mine(t)
  BY <1>1, <1>5 DEF Goto, StoreInv, Typed, Mine
<1>7. TabOK(t)'
  BY <1>5, <1>6 DEF TabOK
<1>8. Names(t, cart) /\ InHand(next) \in {NoCart, InHand(req[t])}
  BY <1>3, <1>5 DEF Names, InHand
<1> QED BY <1>1, <1>4, <1>5, <1>7, <1>8, WriteStep DEF At

LEMMA EditTabs ==
  ASSUME OneTabEach, StoreInv, StoreInv', TabInv, NEW t \in Tabs, EditCart(t)
  PROVE  /\ TabInv'
         /\ \A r \in rows : \/ \E s \in rows' : s.id = r.id
                            \/ /\ At(t, "edit") /\ ~ At(t, "edit")'
                               /\ req[t].id = r.id /\ req[t].cart = r.cart
<1>1. At(t, "edit") /\ UNCHANGED <<cookie, orders, cut>> /\ Goto(t, Idle) /\ ~ At(t, "edit")'
  BY IdleOK DEF EditCart, At
<1>2. PICK cart \in CartIds : cart = req[t].cart
  BY <1>1, RequestTypes DEF StoreInv
<1>3. cart = Mine(t)
  BY <1>1, <1>2 DEF TabInv, TabOK, At
<1>4. CASE UNCHANGED cartVars
  BY <1>1, <1>4, EndTabs DEF cartVars, At
<1>5. CASE \/ \E qty \in 0 .. MaxQty : UpdateQty(req[t].cart, req[t].id, qty)
           \/ RemoveItem(req[t].cart, req[t].id)
  <2>1. /\ CartWrite(cart)
        /\ \A r \in rows : (\E s \in rows' : s.id = r.id) \/ (r.id = req[t].id /\ r.cart = cart)
    BY <1>2, <1>5, EditedWell
  <2>2. UNCHANGED carts
    BY <1>5 DEF UpdateQty, RemoveItem
  <2>3. Names(t, cart) /\ InHand(Idle) = NoCart /\ TabOK(t)'
    BY <1>1, <1>3, IdleOK DEF Names, InHand, Idle
  <2>4. TabInv'
    BY <1>1, <1>3, <2>1, <2>2, <2>3, WriteStep DEF At
  <2> QED BY <1>1, <1>2, <2>1, <2>4
<1> QED BY <1>4, <1>5 DEF EditCart

LEMMA ListTabs ==
  ASSUME OneTabEach, StoreInv, StoreInv', TabInv, NEW t \in Tabs, CheckoutList(t)
  PROVE  TabInv'
<1>1. UNCHANGED <<rows, carts, cookie, orders, cut>> /\ At(t, "list")
  BY DEF CheckoutList, cartVars
<1>2. PICK cart : cart = req[t].cart /\ cart = Mine(t) /\ ListItems(cart)' = ListItems(cart)
  BY <1>1 DEF TabInv, TabOK, At, ListItems
<1>3. PICK next : /\ Goto(t, next)
                  /\ \/ next.at = "idle"
                     \/ /\ next.at = "cards" /\ next.cart = cart
                        /\ next.listed = ListItems(cart) /\ next.lines = {}
  <2> DEFINE next == [at |-> "cards", cart |-> req[t].cart, listed |-> ListItems(req[t].cart),
                      lines |-> {}, shown |-> {<<p, cards[p]>> : p \in Products}]
  <2>1. Goto(t, next) \/ Goto(t, Idle)
    BY DEF CheckoutList
  <2>2. /\ Idle.at = "idle" /\ next.at = "cards" /\ next.cart = cart
        /\ next.listed = ListItems(cart) /\ next.lines = {}
    BY <1>2 DEF Idle
  <2> HIDE DEF next
  <2> QED BY <2>1, <2>2
<1>4. req'[t] = next /\ Mine(t)' = Mine(t)
  BY <1>1, <1>3 DEF Goto, StoreInv, Typed, Mine
<1>5. TabOK(t)'
  BY <1>2, <1>3, <1>4 DEF TabOK
<1>6. TakesNew(t)
  BY <1>1, <1>3, <1>4 DEF TakesNew, Names, InHand, CartIds, NoCart
<1> QED BY <1>1, <1>3, <1>5, <1>6, QuietStep DEF OrdersGrow, At

LEMMA ReadCardTabs ==
  ASSUME OneTabEach, StoreInv, StoreInv', TabInv, NEW t \in Tabs, CheckoutReadCard(t)
  PROVE  TabInv'
<1>1. UNCHANGED <<rows, carts, cookie, orders, cut>> /\ At(t, "cards")
  BY DEF CheckoutReadCard, cartVars
<1>2. PICK mine : mine = Mine(t) /\ ListItems(mine)' = ListItems(mine)
  BY <1>1 DEF ListItems
<1>3. TabOK(t)
  BY DEF TabInv
<1>4. CASE Goto(t, Idle)
  BY <1>1, <1>4, EndTabs DEF At
<1>5. ASSUME NEW r \in req[t].listed, NEW card \in Cards,
             Goto(t, [req[t] EXCEPT !.lines = @ \cup {LineOf(r, card)}])
      PROVE  TabInv'
  <2> DEFINE next == [req[t] EXCEPT !.lines = @ \cup {LineOf(r, card)}]
  <2>1. /\ next.at = "cards" /\ next.cart = req[t].cart
        /\ next.listed = req[t].listed
        /\ next.lines = req[t].lines \cup {LineOf(r, card)}
    BY <1>1, RequestTypes DEF StoreInv, At
  <2>2. Goto(t, next)
    BY <1>5
  <2> HIDE DEF next
  <2>3. LineOf(r, card).row = r.id /\ LineOf(r, card).qty = r.qty
    BY DEF LineOf
  <2>4. req'[t] = next /\ Mine(t)' = Mine(t)
    BY <1>1, <2>2 DEF Goto, StoreInv, Typed, Mine
  <2>5. TabOK(t)'
    BY <1>1, <1>2, <1>3, <2>1, <2>3, <2>4 DEF TabOK, At
  <2>6. TakesNew(t)
    BY <1>1, <2>1, <2>4 DEF TakesNew, Names, InHand, CartIds, NoCart
  <2> QED BY <1>1, <2>2, <2>5, <2>6, QuietStep DEF OrdersGrow, At
<1> QED BY <1>4, <1>5, ReadCardSteps DEF StoreInv

LEMMA CommitTabs ==
  ASSUME OneTabEach, StoreInv, StoreInv', TabInv, NEW t \in Tabs, CheckoutCommit(t)
  PROVE  TabInv'
<1>1. UNCHANGED <<rows, carts, cookie, cut>> /\ At(t, "cards") /\ Unread(t) = {}
  BY DEF CheckoutCommit, cartVars
<1>2. PICK mine : mine = Mine(t) /\ ListItems(mine)' = ListItems(mine)
  BY <1>1 DEF ListItems
<1>3. /\ req[t].cart = mine /\ req[t].listed = ListItems(mine)
      /\ \A l \in req[t].lines : \E s \in req[t].listed : l.row = s.id /\ l.qty = s.qty
  BY <1>1, <1>2 DEF TabInv, TabOK, At
<1>4. CASE Goto(t, Idle) /\ UNCHANGED orders
  BY <1>1, <1>4, EndTabs DEF At
<1>5. CASE /\ orders' = Append(orders, [cart |-> req[t].cart, lines |-> req[t].lines])
           /\ Goto(t, [at |-> "clear", cart |-> req[t].cart])
  <2> DEFINE order == [cart |-> req[t].cart, lines |-> req[t].lines]
             next == [at |-> "clear", cart |-> req[t].cart]
  <2>1. orders \in Seq(Order) /\ order \in Order
    BY <1>1, RequestTypes DEF StoreInv, Typed, TypeOK, Order
  <2>2. next.at = "clear" /\ next.cart = mine /\ order.lines = req[t].lines
    BY <1>3
  <2>3. orders' = Append(orders, order) /\ Goto(t, next)
    BY <1>5
  <2> HIDE DEF order, next
  <2>4. /\ \A k \in DOMAIN orders : k \in DOMAIN orders' /\ orders'[k] = orders[k]
        /\ Len(orders) + 1 \in DOMAIN orders' /\ orders'[Len(orders) + 1] = order
    BY <2>1, <2>3
  <2>5. req'[t] = next /\ Mine(t)' = mine
    BY <1>1, <1>2, <2>3 DEF Goto, StoreInv, Typed, Mine
  <2>6. ASSUME NEW s \in ListItems(mine)
        PROVE  \E l \in order.lines : l.row = s.id /\ l.qty = s.qty
    <3>1. PICK l \in req[t].lines : l.row = s.id
      BY <1>1, <1>3 DEF Unread
    <3>2. PICK q \in ListItems(mine) : l.row = q.id /\ l.qty = q.qty
      BY <1>3
    <3>3. q = s
      BY <3>1, <3>2 DEF TabInv, OwnIds, ListItems
    <3> QED BY <2>2, <3>1, <3>2, <3>3
  <2>7. \A s \in ListItems(mine) : Ordered(s)'
    BY <2>4, <2>6 DEF Ordered
  <2>8. TabOK(t)'
    BY <1>2, <2>2, <2>5, <2>7 DEF TabOK
  <2>9. TakesNew(t)
    BY <1>1, <1>2, <2>2, <2>5 DEF TakesNew, Names, InHand, CartIds, NoCart
  <2> QED BY <1>1, <2>3, <2>4, <2>8, <2>9, QuietStep DEF OrdersGrow, At
<1> QED BY <1>4, <1>5 DEF CheckoutCommit

LEMMA ClearTabs ==
  ASSUME OneTabEach, StoreInv, StoreInv', TabInv, NEW t \in Tabs, CheckoutClear(t)
  PROVE  TabInv' /\ \A r \in rows : r \in rows' \/ Ordered(r)
<1>1. /\ UNCHANGED <<carts, cookie, orders, cut>> /\ At(t, "clear")
      /\ rows' = rows \ ListItems(req[t].cart) /\ Goto(t, Reply(NoCart))
  BY DEF CheckoutClear, Clear
<1>2. PICK cart \in CartIds : cart = req[t].cart
  BY <1>1, RequestTypes DEF StoreInv
<1>3. cart = Mine(t) /\ \A s \in ListItems(cart) : Ordered(s)
  BY <1>1, <1>2 DEF TabInv, TabOK, At
<1>4. CartWrite(cart) /\ \A r \in rows' : r.cart # cart
  <2>1. rows' = rows \ ListItems(cart)
    BY <1>1, <1>2
  <2> QED BY <2>1, RowsLeft DEF ListItems
<1>5. PICK next : Goto(t, next) /\ (next.at = "idle" \/ (next.at = "reply" /\ next.cookie = NoCart))
  BY <1>1 DEF Reply, Idle
<1>6. req'[t] = next /\ Mine(t)' = cart
  BY <1>1, <1>3, <1>5 DEF Goto, StoreInv, Typed, Mine
<1>7. TabOK(t)'
  <2>1. ListItems(cart)' = {}
    BY <1>4 DEF ListItems
  <2> QED BY <1>5, <1>6, <2>1 DEF TabOK
<1>8. Names(t, cart) /\ InHand(next) = NoCart
  BY <1>3, <1>5 DEF Names, InHand
<1>9. TabInv'
  BY <1>1, <1>3, <1>4, <1>5, <1>7, <1>8, WriteStep DEF At
<1> QED BY <1>1, <1>2, <1>3, <1>9

LEMMA ReceiveTabs ==
  ASSUME OneTabEach, StoreInv, StoreInv', TabInv, NEW t \in Tabs, Receive(t)
  PROVE  TabInv'
<1>1. /\ UNCHANGED <<rows, carts, orders, cut>> /\ At(t, "reply") /\ Goto(t, Idle)
      /\ cookie' = [cookie EXCEPT ![Browser[t]] = req[t].cookie]
  BY DEF Receive, cartVars
<1>2. Mine(t)' = req[t].cookie /\ OwnCookie(t)
  BY <1>1 DEF OwnCookie, Mine, Browsers, StoreInv, Typed, TypeOK
<1>3. TabOK(t)' /\ req'[t].at = "idle"
  BY <1>1, IdleOK
<1>4. TakesNew(t)
  BY <1>1, <1>2, <1>3 DEF TakesNew, Names, InHand, CartIds, NoCart, At
<1>5. WritesOwn(t) /\ OwnIds' /\ CartInOneCurrency' /\ OrdersGrow
  BY <1>1 DEF WritesOwn, ListItems, OwnIds, CartInOneCurrency, TabInv, OrdersGrow
<1>6. KeepsReach(t)
  <2>1. ASSUME NEW r \in rows'
        PROVE  r.cart # NoCart /\ ListItems(r.cart) # {}
    BY <1>1 DEF ListItems, StoreInv, Typed, TypeOK, CartRow, CartIds, NoCart
  <2>2. Mine(t) = NoCart \/ (req[t].cookie = NoCart /\ ListItems(Mine(t)) = {})
    BY <1>1 DEF TabInv, TabOK, At
  <2> QED BY <1>2, <2>1, <2>2 DEF KeepsReach
<1> QED BY <1>1, <1>2, <1>3, <1>4, <1>5, <1>6, TabMoves

LEMMA TabsStep ==
  ASSUME OneTabEach
  PROVE  StoreInv /\ TabInv /\ [Next]_vars => TabInv'
<1> SUFFICES ASSUME StoreInv, TabInv, [Next]_vars PROVE TabInv'
  OBVIOUS
<1>1. StoreInv'
  BY StoreStep
<1>2. CASE \E p \in Products, card \in Cards \cup {None} : CatalogChanges(p, card)
  BY <1>2, CatalogTabs
<1>3. ASSUME NEW t \in Tabs, Send(t) \/ AddFindCard(t) \/ AddCreateCart(t) \/ AddCheckCurrency(t)
      PROVE  TabInv'
  BY <1>1, <1>3, SendTabs, FindCardTabs, CreateTabs, CheckTabs
<1>4. ASSUME NEW t \in Tabs, NEW qty \in 1 .. MaxQty, AddWrite(t, qty)
      PROVE  TabInv'
  BY <1>1, <1>4, AddWriteTabs
<1>5. ASSUME NEW t \in Tabs, AddRefused(t) \/ EditCart(t) \/ CheckoutList(t) \/ Drop(t)
      PROVE  TabInv'
  BY <1>1, <1>5, DropTabs, EditTabs, ListTabs
<1>6. ASSUME NEW t \in Tabs,
             CheckoutReadCard(t) \/ CheckoutCommit(t) \/ CheckoutClear(t) \/ Receive(t)
      PROVE  TabInv'
  BY <1>1, <1>6, ReadCardTabs, CommitTabs, ClearTabs, ReceiveTabs
<1>7. CASE UNCHANGED vars
  BY <1>7 DEF vars, cartVars, TabInv, TabOK, OwnCarts, OwnIds, CartInOneCurrency,
    RowsReachable, Names, Mine, InHand, ListItems, Ordered, At
<1> QED BY <1>2, <1>3, <1>4, <1>5, <1>6, <1>7 DEF Next

(* What a browser has in its cart is in one currency, if it has one tab at a
   time: the check of the first item (cart.rs:61) stands for all of them. *)
THEOREM CartHasOneCurrency ==
  ASSUME \A t, u \in Tabs : Browser[t] = Browser[u] => t = u
  PROVE  Spec => []CartInOneCurrency
<1>1. OneTabEach
  BY DEF OneTabEach
<1>2. Init => TabInv
  BY InitTabs
<1>3. StoreInv /\ TabInv /\ [Next]_vars => TabInv'
  BY <1>1, TabsStep
<1>4. TabInv => CartInOneCurrency
  BY DEF TabInv
<1> QED BY <1>2, <1>3, <1>4, StoreAlways, PTL DEF Spec

(* With one tab to a browser no row is left in a cart that nobody can name: the
   browser has its cookie, or is about to, unless a request was cut short. *)
THEOREM CartsInReach ==
  ASSUME \A t, u \in Tabs : Browser[t] = Browser[u] => t = u
  PROVE  Spec => []RowsReachable
<1>1. OneTabEach
  BY DEF OneTabEach
<1>2. Init => TabInv
  BY InitTabs
<1>3. StoreInv /\ TabInv /\ [Next]_vars => TabInv'
  BY <1>1, TabsStep
<1>4. TabInv => RowsReachable
  BY DEF TabInv
<1> QED BY <1>2, <1>3, <1>4, StoreAlways, PTL DEF Spec

(* A row leaves a cart only by its buyer's hand or with an order of it. *)
LEMMA RowsGoWell ==
  ASSUME OneTabEach, StoreInv, TabInv, [Next]_vars, NEW r \in rows, \A s \in rows' : s.id # r.id
  PROVE  \/ \E t \in Tabs : /\ At(t, "edit") /\ ~ At(t, "edit")'
                            /\ req[t].id = r.id /\ req[t].cart = r.cart
         \/ Ordered(r)
<1>1. StoreInv' /\ rows' # rows
  BY StoreStep
<1>2. CASE \E p \in Products, card \in Cards \cup {None} : CatalogChanges(p, card)
  BY <1>1, <1>2 DEF CatalogChanges, cartVars
<1>3. ASSUME NEW t \in Tabs, Send(t) \/ AddFindCard(t) \/ AddCreateCart(t) \/ AddCheckCurrency(t)
      PROVE  FALSE
  BY <1>1, <1>3
    DEF Send, AddFindCard, AddCreateCart, CreateCart, AddCheckCurrency, cartVars
<1>4. ASSUME NEW t \in Tabs, NEW qty \in 1 .. MaxQty, AddWrite(t, qty)
      PROVE  FALSE
  BY <1>1, <1>4, AddWriteTabs
<1>5. ASSUME NEW t \in Tabs, EditCart(t)
      PROVE  /\ At(t, "edit") /\ ~ At(t, "edit")'
             /\ req[t].id = r.id /\ req[t].cart = r.cart
  BY <1>1, <1>5, EditTabs
<1>6. ASSUME NEW t \in Tabs,
             \/ AddRefused(t) \/ CheckoutList(t) \/ CheckoutReadCard(t)
             \/ CheckoutCommit(t) \/ Receive(t) \/ Drop(t)
      PROVE  FALSE
  BY <1>1, <1>6
    DEF AddRefused, CheckoutList, CheckoutReadCard, CheckoutCommit, Receive, Drop, cartVars
<1>7. ASSUME NEW t \in Tabs, CheckoutClear(t)
      PROVE  Ordered(r)
  BY <1>1, <1>7, ClearTabs
<1>8. CASE UNCHANGED vars
  BY <1>1, <1>8 DEF vars, cartVars
<1> QED BY <1>2, <1>3, <1>4, <1>5, <1>6, <1>7, <1>8 DEF Next

(* The comment of cart_cookie.rs:54 holds with one tab to a browser: what is
   cleared was ordered, in the quantity it was ordered in. *)
THEOREM NothingIsLost ==
  ASSUME \A t, u \in Tabs : Browser[t] = Browser[u] => t = u
  PROVE  Spec => NothingVanishes
<1>1. OneTabEach
  BY DEF OneTabEach
<1>2. Init => TabInv
  BY InitTabs
<1>3. StoreInv /\ TabInv /\ [Next]_vars => TabInv'
  BY <1>1, TabsStep
<1>4. StoreInv /\ TabInv /\ [Next]_vars =>
        [\A r \in rows :
           (\A s \in rows' : s.id # r.id) =>
             \/ \E t \in Tabs : /\ At(t, "edit") /\ ~ At(t, "edit")'
                                /\ req[t].id = r.id /\ req[t].cart = r.cart
             \/ \E k \in DOMAIN orders : \E l \in orders[k].lines :
                  l.row = r.id /\ l.qty = r.qty]_vars
  BY <1>1, RowsGoWell DEF Ordered
<1> QED BY <1>2, <1>3, <1>4, StoreAlways, PTL DEF Spec, NothingVanishes
=============================================================================
