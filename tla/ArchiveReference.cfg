CONSTANTS
    Plan <- TwoReferences
    MaxCrashes = 1
    MaxFaults = 0
    MaxAttempts = 2
    NoRef = NoRef
    Blank = Blank
SPECIFICATION Spec
CHECK_DEADLOCK FALSE
INVARIANT RecoveredReferenceKept
