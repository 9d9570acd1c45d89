SPECIFICATION SiteSpec
CONSTANTS
  NumProducts = 5
  Limit = 2
  MaxChanges = 3
  Categories = {c1, c2, c3}
  Slugs = {s1, s2}
  Attributes = {a1}
  FilterTypes = {"price", "options", "text"}
  MaxPageCategories = 2
  None = None
INVARIANTS
  TypeOK
  MissesAreChanges
  RepeatsAreEntries
  TaxonomyTypeOK
  TreeIsListedOnce
  PageIsWhole
PROPERTIES
  ReadingEnds
  RequestsEnd
CHECK_DEADLOCK FALSE
