CONSTANTS
    Channels = {A, B}
    NoChannel = NoChannel
    Axes <- TwoAxes
    Literals = {3}
    Starts <- Prepared
    Count = 2
    MaxPoints = 4
    MaxBlocks = 3
SYMMETRY Symmetry
SPECIFICATION Spec
CHECK_DEADLOCK FALSE
INVARIANTS
    RunnerAssumption
    AssertionsHold
    AxisTruth
    EndsAsDeclared
    PointsAsBudgeted
