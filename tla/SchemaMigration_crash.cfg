SPECIFICATION FairSpec
CONSTANTS
    Labels <- ThreeLabels
    Items = {1, 2, 3, 4, 5}
    LabelOf <- Kinds
    EdgeLabels = {"Follows"}
    Releases <- Growing
    Initial = {1, 2, 4}
    BatchSize = 2
    MaxCrashes = 2
INVARIANT StepsInOrder
PROPERTY CompleteWhenDone
PROPERTY StartupEnds
CHECK_DEADLOCK FALSE
