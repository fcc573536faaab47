SPECIFICATION FairSpec
CONSTANTS
    coil = coil
    probe = probe
    Approved <- TwoOutputs
    TestOutputs = {probe}
    Lo <- Lowest
    Hi <- Highest
    Rail = 2
    Step = 1
    Kinds = {"voltage", "zero", "calibration", "disconnect", "estop"}
    MaxJobs = 2
    MaxLive = 1
    MaxFaults = 1
INVARIANTS
    ZeroSettles
    ResultTrue
PROPERTIES
    StopReturnsToZero
CHECK_DEADLOCK FALSE
