SPECIFICATION Spec
CONSTANTS
    Enrollment = {e1}
    Worker = {w1, w2}
    Nobody = Nobody
    NoExecution = NoExecution
    Steps = 3
    Threshold = 3
    Crashes = TRUE
    Waits = TRUE
SYMMETRY Actors
INVARIANTS
    TypeOK
    StepsInOrder
PROPERTIES
    SendRespectsStop
    ImplementsAtMostOnce
