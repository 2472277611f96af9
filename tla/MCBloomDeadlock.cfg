CONSTANTS
    Procs = {r1, r2}
    Preds = {p, q}
    Pos = {1, 2, 3}
    BloomBits <- MCBloomBits
    None = None
    MaxCount = 2
    p = p
    q = q
SPECIFICATION FairSpec
PROPERTY WritersReturn
CHECK_DEADLOCK FALSE
