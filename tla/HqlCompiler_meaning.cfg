SPECIFICATION Spec
CONSTANTS
    None = None
    a = a
    b = b
    NodeTypes = {"User", "Post"}
    VectorTypes = {"Emb"}
    EdgeTypes = {"HasEmb", "About"}
    Ends <- SmallEnds
    Indexed = {"User"}
    Vals = {a, b}
    Ids = {1, 11}
    Vars = {x, y}
    x = x
    y = y
    Graphs <- TwoGraphs
    Budget = 4
    MaxStatements = 2
INVARIANT TypeSound
INVARIANT MeaningKept
INVARIANT ReadersDoNotWrite
SYMMETRY Renaming
CONSTRAINT Translated
CHECK_DEADLOCK FALSE
