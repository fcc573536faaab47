SPECIFICATION FairSpec
CONSTANTS
    A = A
    B = B
    R = R
    keithley = keithley
    rigol = rigol
    NoOutput = none
    Outputs = {A}
    Devices = {keithley}
    DeviceOf <- DeviceOfOne
    Plans <- PulsedPlan
    MaxRetries = 1
    MaxPauses = 2
INVARIANTS
    BoundaryMatchesPlan
PROPERTIES
    StopEnds
    RunEnds
    BoundaryIsSafe
CHECK_DEADLOCK FALSE
