SPECIFICATION Spec
CONSTANTS
    s1 = s1
    s2 = s2
    j1 = j1
    Scheds = {s1, s2}
    Jobs = {j1}
    None = None
    Delays = {0, 3}
    Default = 4
    MaxTime = 4
    MaxDelays = 2
    MaxAttempts = 2
    MaxFaults = 3
    Apps <- MCApps
SYMMETRY MCSymmetry
INVARIANTS SomeoneMinds LoopsSound AllClosed
CHECK_DEADLOCK FALSE
