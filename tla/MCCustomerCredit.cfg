SPECIFICATION OrderlySpec
CONSTANTS
    Orders <- MCOrders
    Total <- MCTotal
    Subtotal <- MCSubtotal
    Keys = {"k1", "k2"}
    Grants <- MCGrants
    FirstAttempt = 2
    MaxAttempts = 2
    Edited <- MCEdited
CHECK_DEADLOCK FALSE
CONSTRAINT BookingsBound
INVARIANTS
    TypeOK
    NeverOverdrawn
    NothingStranded
    SpentOnce
