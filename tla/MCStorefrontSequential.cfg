SPECIFICATION Spec
CONSTANTS
  p1 = p1
  p2 = p2
  tabA = tabA
  tabB = tabB
  browserA = browserA
  None = None
  Products = {p1, p2}
  Cards <- MC_Cards
  Tabs = {tabA}
  Browser <- OneTab
  MaxQty = 2
  MaxCarts = 2
  MaxRows = 2
  MaxOrders = 2
  MaxEdits = 2
SYMMETRY Symmetry
INVARIANTS
  TypeOK
  CartInOneCurrency
  OrdersInOneCurrency
  OrderedRowsLeave
  
PROPERTIES
  NothingVanishes
  PricesWereShown
CHECK_DEADLOCK FALSE
