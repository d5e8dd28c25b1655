SPECIFICATION FairPathsSpec

CONSTANTS
    Road = Road Rail = Rail h1 = h1 h2 = h2
    NoLabel = NoLabel Missing = Missing Unreadable = Unreadable
    Ids <- Four
    LabelHash <- Hashes
    Families <- Small

CHECK_DEADLOCK FALSE

INVARIANT AnswerRight
PROPERTY SearchEnds
