SPECIFICATION FairSpec
CONSTANTS
    Clients = {c1, c2}
    Nobody = Nobody
    Capacity = 2
    MaxRecords = 3
INVARIANTS
    AckedSurvives
    LogReadable
PROPERTIES
    TrailSpec
    AcceptedIsWritten
CHECK_DEADLOCK FALSE
