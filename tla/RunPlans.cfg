SPECIFICATION Spec
CONSTANTS
    A = A
    B = B
    R = R
    keithley = keithley
    rigol = rigol
    NoOutput = none
    Outputs = {A, B, R}
    Devices = {keithley, rigol}
    DeviceOf <- DeviceOfAll
    Plans <- TwoPlans
    MaxRetries = 1
    MaxPauses = 1
INVARIANTS
    SafeMeansOff
    HoldingIsPlanned
    FinallyAtMostOnce
    AtMostOneAfterStop
CHECK_DEADLOCK FALSE
