SPECIFICATION Spec
CONSTANTS
    Phone = {p1, p2}
    Operator = {p2}
    Sender = {s1, s2}
    MetaId = {m1, m2}
    None = None
    DailyCap = 2
    PerWindow = 1
    MaxFaults = 1
SYMMETRY Symmetry
CHECK_DEADLOCK FALSE
INVARIANTS
    CallIsPermitted
    CapHolds
    
