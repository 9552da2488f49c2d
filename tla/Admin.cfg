SPECIFICATION AdminSpec
CONSTANTS
    j1 = j1
    j2 = j2
    w1 = w1
    w2 = w2
    a1 = a1
    a2 = a2
    Jobs = {j1, j2}
    Repeating = {j2}
    Runners = {w1}
    Admins = {a1, a2}
    NoJob = NoJob
    MaxRetries <- MCMaxRetries
    Score <- MCScore
    Prioritised = {j2}
    RemoveOnComplete = 1
    RemoveOnFail = 1
    MaxCalls = 3
    MaxFaults = 1
SYMMETRY MCSymmetry
INVARIANTS   DrainedIsTold
CHECK_DEADLOCK FALSE
