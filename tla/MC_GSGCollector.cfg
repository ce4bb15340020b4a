\* Two slots of two minutes, two attempts, one slot may be lost; the session that runs goes on.
SPECIFICATION FairSpec
CONSTANTS
    Slots = 2
    PerSlot = 2
    Required = 1
    MaxAttempts = 2
    Responses <- FourAnswers
    None = None
\* The window of the pilot ends.
CHECK_DEADLOCK FALSE
INVARIANTS
    RequestsInOrder
    CloseoutCountsAll
    CoverageAtCloseout
    LabelsVerify
    SealedInventoryHolds
    CleanHandover
PROPERTIES
    SessionEnds
    LastWorkerDecides
