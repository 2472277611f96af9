CONSTANTS
    g1 = g1
    g2 = g2
    g3 = g3
    Graphs = {g1, g2, g3}
    Facts = {f1}
    Names = {1, 2}
    Queries <- Pipeline
SPECIFICATION Spec
INVARIANTS  ProvenanceSupported  
CHECK_DEADLOCK FALSE
