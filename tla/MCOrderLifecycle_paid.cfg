SPECIFICATION Spec
CONSTANTS
    ann = ann
    bob = bob
    Csrs <- MCOneCsr
    Manager = Manager
    Archiver = Archiver
    Nobody = Nobody
    Statuses <- MCStatuses
    Stages <- MCCancelling
    MaxPending = 2
CHECK_DEADLOCK FALSE
PROPERTIES
    PaidNeverCancelled
