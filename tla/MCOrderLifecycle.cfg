SPECIFICATION Spec
CONSTANTS
    ann = ann
    bob = bob
    Csrs <- MCCsrs
    Manager = Manager
    Archiver = Archiver
    Nobody = Nobody
    Statuses <- MCStatuses
    Stages <- MCStages
    MaxPending = 2
SYMMETRY Symmetric
INVARIANTS
    ClaimIsKept
    CompletedIsDue
    PaidOnce
CHECK_DEADLOCK FALSE
PROPERTIES
    PaidNeverCancelled
