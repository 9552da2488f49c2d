SPECIFICATION FairSpec
CONSTANTS
    Workers = {w1, w2}
    Limited = {w2}
    Concurrency = 1
    MaxAdds = 3
    MaxFaults = 1
INVARIANTS TypeOK PoolBound PauseHonoured
PROPERTIES JobsGetTaken
CHECK_DEADLOCK FALSE
