SPECIFICATION FairSpec
CONSTANTS
  Quads = {q1, q2, q3}
  Sessions = {c1, c2}
  NoSession = NoSession
  NoQuad = NoQuad
  Kinds = {"single", "encoded", "bulk", "worker"}
  Threshold = 2
  MaxCount = 4
INVARIANTS
  TypeOK
  NoQuadLost
  CountCoversRows
  
PROPERTY
  CallsEnd
