SPECIFICATION FocusedSpec
CONSTANTS
  p1 = p1
  p2 = p2
  sellerA = sellerA
  sellerB = sellerB
  sx = sx
  sy = sy
  t1 = t1
  None = None
  Products = {p1, p2}
  Sellers <- OneSeller
  Slugs = {sx, sy}
  Texts = {t1, t2}
  Attributes = {a1, a2}
  Values = {v1, n1}
  TextValues = {v1}
  KnownAtStart = {a1}
  NewStatuses = {"draft"}
  MaxLog = 4
  Batch = 4
  MaxAttempts = 2
  MaxOutages = 2
  MaxFaults = 1
SYMMETRY Symmetry
INVARIANTS
  TypeOK
  FtsMirrorsProjection
  DrainedCatalogIsCurrent
  NothingWithdrawnOnSale
