SPECIFICATION Spec
CONSTANTS
  Backends = {b1, b2}
  Names = {n1, n2}
  Numbers = {1}
  NoTerm = NoTerm
  Offset = 2
  Ways = {w1, w2}
  Local = 1
  MaxId = 2
  MaxUses = 1
  Savepoints = {b1}
  Vacuums = TRUE
INVARIANTS
  CachesNameTheTerm
  SharedEntriesBacked
  LostIdsExplained
CHECK_DEADLOCK FALSE
SYMMETRY Symmetry
