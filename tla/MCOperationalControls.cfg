SPECIFICATION Spec
CONSTANTS
    Request = {r1, r2, r3}
    Exec = {x1, x2}
    Sender = {s1, s2}
    None = None
    TotalCap = 2
    StopFailures = 2
    MaxFaults = 2
SYMMETRY Symmetry
CHECK_DEADLOCK FALSE
INVARIANTS
    VersionsAudited
    NoCallWhenOff
    PilotCap
    SuspensionFollows
PROPERTIES
    OneStageAtATime
