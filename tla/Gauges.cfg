SPECIFICATION GaugesSpec
CONSTANTS
    p = p
    d = d
    c = c
    b = b
    w1 = w1
    w2 = w2
    h = h
    Jobs = {p, d, c, b}
    Delayed = {d}
    Children = {c}
    Bulk = {b}
    MaxRetries <- MCMaxRetries
    Workers = {w1, w2}
    Batching = {w2}
    Handler <- OneHandler
    MaxStarts = 2
    MaxCalls = 2
    MaxMishaps = 2
  
PROPERTIES ToldTruly
CHECK_DEADLOCK FALSE
