SPECIFICATION Spec
CONSTANTS
    None = None
    c1 = c1
    w1 = w1
    w2 = w2
    Conns = {c1}
    Workers = {w1, w2}
    Tools <- AllTools
    Graphs <- TwoGraphs
    MaxChain = 2
    MAX_CACHED_RESULTS = 3
CONSTRAINT FromUsers
SYMMETRY SameRole
INVARIANT PagesInOrder
INVARIANT AbortNeedsOverlap
CHECK_DEADLOCK FALSE
