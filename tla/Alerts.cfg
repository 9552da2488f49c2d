SPECIFICATION Spec
CONSTANTS
    q1 = q1
    q2 = q2
    r1 = r1
    e1 = e1
    e2 = e2
    Queues = {q1, q2}
    Rules = {r1}
    Options <- MCOptions
    Ticks = {e1, e2}
    None = None
    Start <- MCStart
    Top = 1
    MaxEdits = 2
    MaxMoves = 1
    MaxFaults = 1
 
PROPERTIES  AlertsSettle
