SPECIFICATION Spec

CONSTANTS
    n1 = n1 n2 = n2 e1 = e1 e2 = e2 v1 = v1 User = User Page = Page
    Knows = Knows Likes = Likes h1 = h1 h2 = h2 name = name
    a = a b = b NoProps = NoProps
    NodeIds = {n1, n2}
    EdgeIds = {e1}
    VectorIds = {}
    NodeLabels = {User, Page}
    EdgeLabels = {Knows}
    Hashes = {h1}
    LabelHash <- NoHashes
    Fields = {name}
    Values = {a}
    UniqueIndices <- NoIndex
    PlainIndices <- NoIndex
    Excluded <- OnlyPages
    Defaults <- NoDefaults
    MaySkip = TRUE
    FreshFields = TRUE
    MissingEnds = TRUE
    MaxHeld = 1

SYMMETRY Items

INVARIANT AdjacencyMirrored
INVARIANT DocsFresh
