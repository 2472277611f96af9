SPECIFICATION FairSpec
CONSTANTS
  Quads = {q1}
  Sessions = {c1, c2}
  NoSession = NoSession
  NoRow = NoRow
  Merger = Merger
  PredId = 7
  MergeNamespace = 1347571712
  RetentionZero = {TRUE, FALSE}
  DedupOnMerge = {FALSE}
  GcPercent = 5
  SeqCache = 2
  MaxSid = 4

PROPERTIES
  MergeEnds
  ClientsEnd
