SPECIFICATION InboundSpec
CONSTANTS
    Worker = {w1}
    MaxVersion = 1
    DualStore = FALSE
    Delivery = {d1}
    Request = {}
    NoJob = NoJob
    MaxRetries = 1
    MaxExecutions = 0
    Crashes = TRUE
INVARIANT
    EscalationHasTask
