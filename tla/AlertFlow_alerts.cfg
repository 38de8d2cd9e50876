SPECIFICATION Spec
CONSTANTS
    None = None
    p1 = p1
    p2 = p2
    g1 = g1
    g2 = g2
    Goroutines = {g1}
    Pods = {p1}
    Alerts <- PageAndTicket
    RepeatInterval = 2
    BurnLevels <- Burn300
    Verdicts <- TwoVerdicts
    MaxRaises = 2
    MaxRestarts = 1
PROPERTY
    DecidedAgain
CHECK_DEADLOCK FALSE
