SPECIFICATION Spec
CONSTANTS
    Name = {"music", "sync"}
    Conn = {c1, c2}
    NoConn = none
    HasBinder = {"music"}
    Manners = {TRUE, FALSE}
    MaxRecords = 3
    MaxProcs = 2
    MaxRequests = 5
SYMMETRY ConnSymmetry
INVARIANTS
    LiveIsCounted
    RecordsAreSound
    CarefulIsSafe
    ClientAgrees
    ConnectionsAgree
    QuietProcessIsUsed
CHECK_DEADLOCK FALSE
