\* PayPal may report another amount than it was asked for.
SPECIFICATION Spec
CONSTANTS
    Keys = {k1, k2}
    Callers = {c1}
    MaxHooks = 1
    Captured = 3
    NoRefund = NoRefund
    Exact = FALSE
    Crashes = TRUE
INVARIANTS
    FinalizedIsExact
SYMMETRY Symmetry
CHECK_DEADLOCK FALSE
