SPECIFICATION Spec
CONSTANTS
    Nodes = {1, 2}
    Terms = {1, 2, 3, 4}
    LongTerms = {4}
    WideTerms = {3}
    Documents <- FewDocuments
    NoProps = NoProps
    None = None
    Excluded = {}
    ChunkSize = 1
    CompatWrites = 1
    RuntimeDrops = TRUE
    MaxStatements = 1
    MaxCrashes = 1
INVARIANT TablesAgree
INVARIANT SearchSucceeds
INVARIANT TotalsMatch
INVARIANT IndexFollowsNodes
INVARIANT PartialIsUnstamped
