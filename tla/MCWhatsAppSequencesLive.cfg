SPECIFICATION FairSpec
CONSTANTS
    Enrollment = {e1, e2}
    Worker = {w1}
    Nobody = Nobody
    NoExecution = NoExecution
    Steps = 1
    Threshold = 2
    Crashes = FALSE
    Waits = FALSE
PROPERTIES
    EnrollmentSettles
