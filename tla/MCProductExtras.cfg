SPECIFICATION Spec
CONSTANTS
  sellerA = sellerA
  None = None
  Products = {p1, p2}
  Sellers <- MC_Sellers
  Slugs = {s1, s2}
  Texts = {t1}
  Attributes = {}
  Values = {}
  NewStatuses = {"draft"}
  MaxLog = 6
  Variants = {v1}
  Media = {m1}
INVARIANT
  TypeOK
PROPERTY
  DeleteTakesTranslations
CHECK_DEADLOCK FALSE
