SPECIFICATION QueueSpec
CONSTANTS
    Delivery = {d1}
    Request = {r1, r2}
    Worker = {w1, w2}
    NoJob = NoJob
    MaxRetries = 2
    MaxExecutions = 0
    Crashes = TRUE
SYMMETRY Actors
CHECK_DEADLOCK FALSE
INVARIANTS
    QueueTypeOK
    ReplaysAudited
PROPERTIES
    EvidenceRemains
