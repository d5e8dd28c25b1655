SPECIFICATION Spec

CONSTANTS
    n1 = n1 n2 = n2 e1 = e1 e2 = e2 v1 = v1 User = User Page = Page
    Knows = Knows Likes = Likes h1 = h1 h2 = h2 name = name
    a = a b = b NoProps = NoProps
    NodeIds = {n1, n2}
    EdgeIds = {e1, e2}
    VectorIds = {v1}
    NodeLabels = {User, Page}
    EdgeLabels = {Knows, Likes}
    Hashes = {h1}
    LabelHash <- SameHash
    Fields = {name}
    Values = {a, b}
    UniqueIndices <- UserName
    PlainIndices <- PageName
    Excluded <- AllLabels
    Defaults <- NoDefaults
    MaySkip = FALSE
    FreshFields = FALSE
    MissingEnds = FALSE
    MaxHeld = 0

SYMMETRY ItemsAndValues

INVARIANT NoDanglingEdge
INVARIANT OneEdgePerPair
INVARIANT IndexSound
INVARIANT IndexComplete
INVARIANT UniqueValues
