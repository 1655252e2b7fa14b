SPECIFICATION Spec
CONSTANTS
    Lead = {l1}
    Address = {a1, a2}
    Server = {s1, s2}
    Thread = {t1}
    Mail = {e1, e2}
    Inbound = {i1}
    Event = {"delivered", "bounced", "complained"}
    None = None
    MaxFaults = 1
    MaxEvents = 2
SYMMETRY Actors
CHECK_DEADLOCK FALSE
INVARIANTS
    OneReply
    NothingToBarred
    StatusAgrees
    AnsweredSuppresses
PROPERTIES
    SuppressionSticks
