CONSTANTS
    Subjects = {s1}
    Values = {v1, v2}
    NoValue = NoValue
    NoRow = NoRow
    Policy = "replace"
    BatchSize = 2
    MaxClock = 3
    Focus = {f1}
    Objects = {o1, o2}
    Wrong = {o2}
    MaxCount = 1
    Processors = {w, c}
    MaxInserts = 3
    Worker = w
    MaxErrors = 1
SPECIFICATION Spec
INVARIANTS TypeOK DrainedRowsAgree 
PROPERTIES EntriesProcessed 
