SPECIFICATION FairSpec
CONSTANTS
    Callers = {run, other}
    MaxLeases = 1
    MaxCalls = 2
INVARIANTS
    CancelledNeverExecutes
    ExclusiveUse
    OutsideOffHolds
    ShutdownHolds
PROPERTIES
    CallersReturn
CHECK_DEADLOCK FALSE
