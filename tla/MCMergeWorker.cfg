CONSTANTS
    Preds = {3}
    NWorkers = 2
    Clients = {c1}
    None = None
    Threshold = 2
    MaxRows = 2
    MaxLeaks = 0
SPECIFICATION FairSpec
PROPERTIES MergedDeltasHeld 
