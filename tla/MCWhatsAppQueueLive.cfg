SPECIFICATION FairQueueSpec
CONSTANTS
    Delivery = {d1, d2}
    Request = {}
    Worker = {w1}
    NoJob = NoJob
    MaxRetries = 1
    MaxExecutions = 1
    Crashes = FALSE
CHECK_DEADLOCK FALSE
PROPERTIES
    AcknowledgedIsHandled
