SPECIFICATION Spec
CONSTANTS
    coil = coil
    probe = probe
    Approved <- TwoOutputs
    TestOutputs = {probe}
    Lo <- Lowest
    Hi <- Highest
    Rail = 2
    Step = 1
    Kinds = {"estop"}
    MaxJobs = 1
    MaxLive = 0
    MaxFaults = 0
INVARIANT
    EmergencyAttemptsAll
CHECK_DEADLOCK FALSE
