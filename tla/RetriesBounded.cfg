SPECIFICATION BudgetSpec
CONSTANTS
    j1 = j1
    MaxCounted = 4
    None = None
    MaxRetries <- MCMaxRetries
    Score <- MCScore
    RemoveOnComplete = 1
    RemoveOnFail = 1
    Jobs = {j1}
    Slots = {s1}
    Clients = {}
    Prioritised = {}
    MaxCalls = 1
    MaxWaiting = 2
    MaxFaults = 0
INVARIANT RetriesBounded
CHECK_DEADLOCK FALSE
