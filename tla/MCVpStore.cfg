SPECIFICATION Spec
CONSTANTS
  Preds = {p1, p2}
  Terms = {t1}
  Graphs = {g1, g2}
  Threshold = 2
  DedupOnMerge = {FALSE, TRUE}
  MaxSid = 5
SYMMETRY Perms
INVARIANTS
  TypeOK
  NothingStranded
  LookupExact
  TombstonesCounted
PROPERTIES
  ClearGraphClears
  ReorganiseKeepsReadable
  DeleteHides
