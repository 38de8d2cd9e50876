SPECIFICATION Spec
CONSTANTS
    d1 = d1
    d2 = d2
    d3 = d3
    None = None
    Deliveries = {d1, d2, d3}
    Payloads <- PageRecurs
    BurnLevels <- MildBurns
    Verdicts <- JustNoResult
    DryRun = FALSE
    Tick = 300
    MaxTime = 300
    MaxRestarts = 0
SYMMETRY Symmetry
INVARIANTS
    TypeOK
    CooldownUnlessOverlapped
    SerialDecisionsKept
    ReplacedUnlessOverlapped
    LogsTellTheirEvent
CHECK_DEADLOCK FALSE
