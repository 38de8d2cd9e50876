SPECIFICATION Spec
CONSTANTS
    None = None
    p1 = p1
    p2 = p2
    g1 = g1
    g2 = g2
    Goroutines = {g1, g2}
    Pods = {p1, p2}
    Alerts <- TwoPages
    RepeatInterval = 2
    BurnLevels <- Burn144
    Verdicts <- TwoVerdicts
    MaxRaises = 2
    MaxRestarts = 1
INVARIANTS
    TypeOK
    OncePerInterval
SYMMETRY Symmetry
CHECK_DEADLOCK FALSE
