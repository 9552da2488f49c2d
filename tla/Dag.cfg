SPECIFICATION FairSpec
CONSTANTS
    a = a
    b = b
    c = c
    qa = qa
    None = None
    Jobs = {a, b, c}
    Parents <- MCChain
    QueueOf <- MCOneQueue
    AddedAfter <- MCAnyOrder
    InFlow = {a, b, c}
    Failing = {a, b, c}
    RemoveOnComplete = 1
    Runs = {r1, r2}
    MaxFaults = 1
INVARIANTS TypeOK CountsCredits WaitsForParents
PROPERTIES Released
CHECK_DEADLOCK FALSE
