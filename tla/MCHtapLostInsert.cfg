SPECIFICATION Spec
CONSTANTS
  Quads = {q1, q2}
  Sessions = {c1, c2}
  NoSession = NoSession
  NoRow = NoRow
  Merger = Merger
  PredId = 7
  MergeNamespace = 1347571712
  RetentionZero = {TRUE}
  DedupOnMerge = {FALSE}
  GcPercent = 5
  SeqCache = 2
  MaxSid = 4

INVARIANT
  DeltaMergedBeforeTruncate
