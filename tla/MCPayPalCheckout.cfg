SPECIFICATION IntactSpec
CONSTANTS
    MaxAttempts = 2
    OtherCredit = 1
    HoldMayLapse = TRUE
    Sandbox = TRUE
INVARIANTS
    TypeOK
    OneUnresolvedAttempt
    ChargeNeverForgotten
    PaidIsBacked
PROPERTIES
    KeepsPromise
    CapturedNeverReopens
CONSTRAINT HandlersBound
CHECK_DEADLOCK FALSE
