SPECIFICATION FlowSpec
CONSTANTS
    r = r
    a = a
    b = b
    x = x
    o1 = o1
    o2 = o2
    q1 = q1
    q2 = q2
    Nodes = {r, a, b, x}
    Root = r
    Kids <- MCKids
    FanOut = {a}
    Extra <- MCExtra
    Others = {o1, o2}
    Late <- MCLate
    Ranked = {b}
    QueueOf <- MCQueueOf
    MaxFailures = 2
    MaxTasks = 1
  
PROPERTIES PurgedTogether
CHECK_DEADLOCK FALSE
