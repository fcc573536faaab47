CONSTANTS
    Plan <- TwoReferences
    MaxCrashes = 2
    MaxFaults = 1
    MaxAttempts = 3
    NoRef = NoRef
    Blank = Blank
SPECIFICATION Spec
CHECK_DEADLOCK FALSE
INVARIANTS RefusalsExplained SamePoints CompletedIsWhole ReferenceIdentity
PROPERTY ConfirmedPointsKept
