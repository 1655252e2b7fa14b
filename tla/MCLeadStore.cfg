SPECIFICATION Spec
CONSTANTS
    Handler = {h1, h2}
    Inbound = {m1, m2}
    Outbound = {o1}
    None = None
    MaxRecords = 2
    MaxWrites = 2
    MaxFaults = 1
SYMMETRY Symmetry
CHECK_DEADLOCK FALSE
INVARIANTS
    MessageKept
    CopiesAgree
    StatusShown
