SPECIFICATION Spec
CONSTANTS
    a1 = a1
    a2 = a2
    None = None
    Agents = {a1, a2}
    Titles = {"survey"}
    Entities = {"paper"}
    MaxSummaries = 1
    MaxFindings = 1
    MaxId = 5
    MaxFaults = 1
INVARIANT FollowsAcyclic
INVARIANT QuestionsCarried
INVARIANT AcknowledgedKept
INVARIANT RecallSound
INVARIANT DuplicateNeedsOverlap
SYMMETRY Alike
CHECK_DEADLOCK FALSE
