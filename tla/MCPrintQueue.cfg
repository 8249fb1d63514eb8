SPECIFICATION Spec
CONSTANTS
    Requests = {r1, r2}
    Worker = worker
    MaxRetries = 2
    MaxAsked = 1
    MaxUnheard = 1
    MaxCrashes = 1
CHECK_DEADLOCK FALSE
CONSTRAINT TroublesBound
INVARIANTS
    TypeOK
    CopiesHaveCauses
    NeverDropped
PROPERTIES
    Settles
