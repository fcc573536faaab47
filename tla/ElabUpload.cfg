CONSTANTS
    Results = {r1}
    Templates = {t1, t2}
    Profiles <- BothProfiles
    MaxUploads = 3
    MaxFaults = 2
    MaxChanges = 1
SPECIFICATION FairSpec
CHECK_DEADLOCK FALSE
INVARIANTS
    LedgerNeverAhead
    ReportIsTrue
    NothingTwice
    InventoryKnown
PROPERTIES
    UploadEnds
