SPECIFICATION VectorsSpec

CONSTANTS
    Doc = Doc
    Image = Image
    Labels = {Doc, Image}
    PointsOf <- Line
    Dist <- OnALine
    Configs <- Small
    MaxVectors <- Room
    MaxDeletions = 2

INVARIANT EntryAlive
INVARIANT SymmetricWhileSmall
INVARIANT AllFoundWhileSmall
INVARIANT RebuildSucceeds
