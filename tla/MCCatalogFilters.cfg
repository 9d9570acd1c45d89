SPECIFICATION Spec
CONSTANTS
  Products = {p1}
  Attributes <- MCAttributes
  Texts = {red}
  Numbers = {10, 15, 16}
  Prices = {1, 2}
  One = 1000
  HalvesUp = {15}
  None = None
  Junk = Junk
  MaxParams = 2
INVARIANT
  FiltersMeanWhatTheySay
CHECK_DEADLOCK FALSE
