SPECIFICATION Spec
CONSTANTS
    d1 = d1
    d2 = d2
    None = None
    Deliveries = {d1, d2}
    Payloads <- PageAndDrill
    BurnLevels <- SomeBurns
    Verdicts <- TwoVerdicts
    DryRun = FALSE
    Tick = 300
    MaxTime = 300
    MaxRestarts = 1
INVARIANTS
    ActionsJustified
PROPERTIES
    RequestsSettle
    DecidesAsPromised
CHECK_DEADLOCK FALSE
