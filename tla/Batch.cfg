SPECIFICATION Spec
CONSTANTS
    j1 = j1
    j2 = j2
    j3 = j3
    p1 = p1
    p2 = p2
    b1 = b1
    NoBatch = NoBatch
    Jobs = {j1, j2, j3}
    Prioritised = {j3}
    Later = {j3}
    Producers = {p1, p2}
    Batches = {b1}
    BatchOf <- MCBatchOf
    Items <- MCItems
    Runs = {r1, r2}
    BatchSize = 2
    MaxRetries <- MCMaxRetries
    Score <- MCScore
    RemoveOnComplete = 1
    RemoveOnFail = 0
    MaxFaults = 1
SYMMETRY MCSymmetry
INVARIANTS   DequeueFillsBatch
CHECK_DEADLOCK FALSE
