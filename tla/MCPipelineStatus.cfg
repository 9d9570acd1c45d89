SPECIFICATION Spec
CONSTANTS
  p1 = p1
  p2 = p2
  sellerA = sellerA
  sellerB = sellerB
  sx = sx
  sy = sy
  t1 = t1
  None = None
  Products = {p1}
  Sellers <- OneProduct
  Slugs = {sx}
  Texts = {t1}
  Attributes = {}
  Values = {}
  TextValues = {}
  KnownAtStart = {}
  NewStatuses = {"draft"}
  MaxLog = 3
  Batch = 4
  MaxAttempts = 2
  MaxOutages = 0
  MaxFaults = 0
INVARIANT
  StatusIsCurrent
