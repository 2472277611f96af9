SPECIFICATION Spec
CONSTANTS
  Quads = {q1, q2}
  Sessions = {c1, c2}
  NoSession = NoSession
  NoRow = NoRow
  Merger = Merger
  PredId = 7
  MergeNamespace = 1347571712
  RetentionZero = {TRUE, FALSE}
  DedupOnMerge = {FALSE, TRUE}
  GcPercent = 50
  SeqCache = 2
  MaxSid = 4
SYMMETRY Perms
INVARIANTS
  TypeOK
  TombstonesHonoured
  SidsUnique
  MergeKeepsUnraced
PROPERTY
  ImplementsQuadStore
