CONSTANTS
    Results = {r1, r2}
    Templates = {t1}
    Profiles <- BothProfiles
    MaxUploads = 1
    MaxFaults = 0
    MaxChanges = 0
SPECIFICATION Spec
CHECK_DEADLOCK FALSE
INVARIANTS
    InventoryTruthful
