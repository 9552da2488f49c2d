SPECIFICATION MCSpec
CONSTANTS
    b1 = b1
    b2 = b2
    w1 = w1
    Browsers = {b1, b2}
    Workers = {w1}
    None = None
    MaxTime = 4
    MaxEvents = 4
    Duration = 2
    Limit = 1
    Session = 3
    FixedSecret = FALSE
    Modes = {TRUE, FALSE}
    Hour = 2
    Day = 2
    Week = 2
    Beat = 2
    Offsets = {0, 1}
    ja = ja
    jb = jb
    jc = jc
    jd = jd
    je = je
    Tree = {ja, jb, jc, jd, je}
    Arrows <- MCArrows
    Looks = {1, 2}
    Nobody = Nobody
    Ranges = {"24h", "7d"}
    Groups = {"g1", "g2"}
    Answers <- MCAnswers
    Loads = {1, 2}
    NoGroup = NoGroup
ACTION_CONSTRAINT MCFocus
SYMMETRY BrowserSymmetry
INVARIANTS LimiterSound  HoursSound   QueueShown
CHECK_DEADLOCK FALSE
