SPECIFICATION HSpec
CONSTANTS
    Service = "ordersvc"
    Specs <- TwoSpecs
    Errors = {"conflict"}
    None = None
    MaxEvents = 2
    MaxLag = 1
INVARIANTS
    TypeOK
    QuotesWhatHappened
PROPERTIES
    StatusFollows
    FailureReported
CHECK_DEADLOCK FALSE
