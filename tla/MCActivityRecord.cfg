SPECIFICATION FairSpec
CONSTANTS
    TurnWhileBusy = FALSE
    MaxRequests = 8
INVARIANTS
    OneWatchdog
    RestMeansDone
    RestAgrees
PROPERTIES
    DestroyedIsFinal
    CallbackOrder
    Converges
CHECK_DEADLOCK FALSE
