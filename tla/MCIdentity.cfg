SPECIFICATION Spec
CONSTANTS
  Accounts = {a1, a2}
  Emails = {e1, e2}
  Passwords = {p1, p2}
  Roles = {"customer", "seller"}
  Tokens = {t1}
  Clients = {c1}
  None = None
  MaxTime = 2
SYMMETRY Symmetry
INVARIANTS
  TypeOK
  RegistrationIsWhole
  RevokedForGood
  VerifyIsRight
PROPERTY AnswersAreAtomic
