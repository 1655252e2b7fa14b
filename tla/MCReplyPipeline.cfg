SPECIFICATION Spec
CONSTANTS
    Worker = {w1, w2}
    MaxVersion = 2
    DualStore = FALSE
SYMMETRY Workers
INVARIANTS
    TypeOK
    ModelAskedOnce
    ConcludedOneWay
PROPERTY
    ImplementsAtMostOnce
