SPECIFICATION Spec
CONSTANTS
    d1 = d1
    d2 = d2
    None = None
    Deliveries = {d1, d2}
    DryRun = FALSE
    MaxRestarts = 0
    Payloads <- PageFiring
    BurnLevels <- SomeBurns
    Verdicts <- TwoVerdicts
    Tick = 300
    MaxTime = 300
INVARIANT
    CooldownHolds
CHECK_DEADLOCK FALSE
