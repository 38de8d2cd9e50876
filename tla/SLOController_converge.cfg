SPECIFICATION Spec
CONSTANTS
    s1 = s1
    o1 = o1
    None = None
    Handwritten = Handwritten
    CRs = {s1}
    Ops = {o1}
    Specs <- ThreeSpecs
    Webhook = TRUE
    MaxEdits = 3
    MaxCrashes = 1
INVARIANTS
    TypeOK
    RulesSound
PROPERTIES
    ConfigMapFollows
    PrometheusRuleFollows
    RulesPublished
