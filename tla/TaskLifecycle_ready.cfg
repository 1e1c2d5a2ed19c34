SPECIFICATION FairSpec
CONSTANTS
    Callbacks = {b1, b2}
    Modes <- MCModes
    Attempts = 3
    MaxFaults = 1
INVARIANTS TypeOK SuccessIsTaken StartedOnce NoSpuriousError StoresAgree StopLeavesNothing
PROPERTIES FinishedStays ReadyIsDelivered
CHECK_DEADLOCK FALSE
