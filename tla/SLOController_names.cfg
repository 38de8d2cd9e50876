SPECIFICATION Spec
CONSTANTS
    s1 = s1
    o1 = o1
    None = None
    Handwritten = Handwritten
    CRs = {s1}
    Ops = {o1}
    Specs <- OneSpec
    Webhook = TRUE
    MaxEdits = 1
    MaxCrashes = 0
INVARIANT
    ShippedRules
CHECK_DEADLOCK FALSE
