SPECIFICATION FairSpec
CONSTANTS
    j1 = j1
    j2 = j2
    None = None
    MaxRetries <- MCMaxRetries
    Score <- MCScore
    RemoveOnComplete = 1
    RemoveOnFail = 1
    Jobs = {j1}
    Slots = {s1, s2}
    Clients = {}
    Prioritised = {}
    MaxCalls = 1
    MaxWaiting = 2
    MaxFaults = 1
INVARIANTS TypeOK Accounted ExclusiveExecution
PROPERTIES Settles LivesAsPromised
CHECK_DEADLOCK FALSE
