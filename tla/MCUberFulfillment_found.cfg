SPECIFICATION Spec
CONSTANTS
    first = first
    second = second
    Workers <- MCOneWorker
    Reports <- MCEnds
    Outside = 1
    MaxPosts = 2
    MaxCrashes = 1
CHECK_DEADLOCK FALSE
PROPERTIES
    CourierIsFound
    KeepsCourier
