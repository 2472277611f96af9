CONSTANTS
    Nodes = {n1, n2}
    Preds = {"e", "a", "b"}
    Programs <- MCPrograms
    Vars <- MCVars
    Writable = {"e", "a"}
    MaxGiven = 2
    MaxWrites = 1
    MaxCalls = 2
SPECIFICATION Spec
INVARIANTS Sound QuietMeansModel OneCallComplete
PROPERTY CallsEnd
CHECK_DEADLOCK FALSE
