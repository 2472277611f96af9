\* Two starting stores over three nodes and two predicates; two quads written, one
\* predicate promoted, one reading session of two, a plan cache of one entry.
SPECIFICATION Spec
CONSTANTS
    x = x
    y = y
    z = z
    g = g
    a = a
    b = b
    c = c
    p = p
    q = q
    g1 = g1
    s1 = s1
    s2 = s2
    Shape = Shape
    Default = Default
    None = None
    Vars <- MCVars
    MaxDepth = 3
    Sessions = {s1, s2}
    Readers = {s1}
    Preds <- MCPreds
    Promotable = {p}
    Stores <- MCStores
    Fresh <- MCFresh
    Hinted = {q}
    Shapes = {Shape}
    Asked <- MCAsked
    Queries <- MCQueries
    Capacity = 1
    MaxGen = 2
INVARIANTS
    FreshAnswersExact
    StaleNeverInvents
    
