SPECIFICATION Spec
CONSTANTS
    AiReply = {a1}
    Manual = {m1}
    Worker = {w1, w2}
    Nobody = Nobody
    NoIntent = NoIntent
    MaxAttempts = 2
    MaxVersion = 2
    DualStore = FALSE
SYMMETRY Workers
INVARIANTS
    TypeOK
    AtMostOneAcceptance
    TimelineAgrees
    OneWaitingTask
PROPERTIES
    SendRespectsConversation
    ImplementsAtMostOnce
