SPECIFICATION Spec
CONSTANTS
  Conns = {c1, c2, c3}
  Sizes = {0, 2, 3, 5}
  MaxMemfd = 4
  Ceiling = 4
  Word = 16
INVARIANTS
  TypeOK
  QuotaIsExact
PROPERTY RequestEnds
CHECK_DEADLOCK FALSE
