SPECIFICATION FairSpec
CONSTANTS
    Vectors = {1, 2}
    MaxLevel = 1
    Nodes = {1, 2, 3}
    Excluded = {3}
    Unindexable = {2}
    Native = "little"
    Migrates = TRUE
    BatchSize = 1
    MaxCrashes = 1
    KillsConversion = FALSE
    InitialVectors <- AnyVectors
    InitialEdges <- FewEdges
    InitialMeta <- AnyMeta
INVARIANT Repaired
INVARIANT IndexComplete
INVARIANT VectorsReadable
PROPERTY OnlyOrphansRemoved
PROPERTY StartupSettles
