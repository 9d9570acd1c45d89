SPECIFICATION Spec
CONSTANTS
  p1 = p1
  p2 = p2
  tabA = tabA
  tabB = tabB
  browserA = browserA
  None = None
  Products = {p1, p2}
  Cards <- MC_Cards
  Tabs = {tabA, tabB}
  Browser <- TwoTabs
  MaxQty = 1
  MaxCarts = 1
  MaxRows = 3
  MaxOrders = 2
  MaxEdits = 0
SYMMETRY TabSymmetry
INVARIANT
  OrderedRowsLeave
CHECK_DEADLOCK FALSE
