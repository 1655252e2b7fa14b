SPECIFICATION FairSpec
CONSTANTS
    Campaign = {c1}
    Lead = {l1}
    Worker = {w1, w2}
    Thread = {t1}
    NoJob = NoJob
    MaxSteps = 3
    MaxRuns = 2
    MonthlyCap = 1
    MaxFaults = 2
INVARIANTS
    RepeatedOnlyWhenLost
    StepsInTurn
    LimitOverrun
PROPERTIES
    WorkersDoNotRevive
    EnrollmentSettles
CHECK_DEADLOCK FALSE
