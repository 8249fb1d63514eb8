SPECIFICATION Spec
CONSTANTS
    Keys = {k1, k2}
    Callers = {c1, c2}
    MaxHooks = 1
    Captured = 2
    NoRefund = NoRefund
    Exact = TRUE
    Crashes = TRUE
INVARIANTS
    TypeOK
    ProviderWithinCapture
    FinalizedIsBacked
    RefundIsBacked
    BooksAgree
CONSTRAINT MailBound
SYMMETRY Symmetry
CHECK_DEADLOCK FALSE
