INIT Init
NEXT Next
CONSTANTS
    first = first
    second = second
    Workers <- MCWorkers
    Reports <- MCReports
    Outside = 0
    MaxPosts = 2
    MaxCrashes = 1
SYMMETRY Symmetric
INVARIANTS
    OneCreate
    CourierIsTrue
    EndIsFlagged
CHECK_DEADLOCK FALSE
