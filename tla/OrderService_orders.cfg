SPECIFICATION Spec
CONSTANTS
    Pods = {p1}
    Orders = {o1, o2}
    Calls = {c1, c2}
    NoPod = NoPod
    Asked <- MCAsked
    EnvRate = 0
    EnvLatency = 4
    Buggy = FALSE
    LastArrival = 0
    MaxNow = 5
    MaxStops = 1
INVARIANTS
    TypeOK
    MetricsAgree
    GaugesShowFaults
    ShortOrdersFinish
PROPERTIES
    ReadinessFollows
CHECK_DEADLOCK FALSE
