SPECIFICATION Spec
CONSTANTS
    j1 = j1
    j2 = j2
    None = None
    MaxRetries <- MCMaxRetries
    Score <- MCScore
    RemoveOnComplete = 1
    RemoveOnFail = 1
    Jobs = {j1, j2}
    Slots = {s1, s2}
    Clients = {c1, c2}
    Prioritised = {j2}
    MaxCalls = 3
    MaxWaiting = 2
    MaxFaults = 0
CONSTRAINT MCFocus
SYMMETRY MCSymmetry
INVARIANTS OneOutcome DeadIsRetryable
PROPERTIES LivesAsPromised
CHECK_DEADLOCK FALSE
