SPECIFICATION Spec
CONSTANTS
    Name = {"music"}
    Conn = {c1}
    NoConn = none
    HasBinder = {"music"}
    Manners = {FALSE}
    MaxRecords = 1
    MaxProcs = 1
    MaxRequests = 4
INVARIANTS
    NeverUndefined
CHECK_DEADLOCK FALSE
