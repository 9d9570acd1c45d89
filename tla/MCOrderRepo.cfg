SPECIFICATION Spec
CONSTANTS
  i1 = i1
  i2 = i2
  i3 = i3
  uah = uah
  eur = eur
  Orders = {o1, o2}
  Currencies = {uah, eur}
  Items = {i1, i2, i3}
  PriceOf <- MCPriceOf
  CurrencyOf <- MCCurrencyOf
  MaxTotal = 3
  MaxItems = 3
  None = None
SYMMETRY Symmetry
INVARIANTS
  TypeOK
  TotalsAddUp
  ReadAddsUp
PROPERTY ImplementsOrderBook
