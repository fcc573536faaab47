CONSTANTS
    keithley = keithley
    moke = moke
    anritsu = anritsu
    Station = {keithley, moke, anritsu}
    Devices = {keithley, moke}
    Borrowed = {keithley}
    Late = {moke}
    Watched = {keithley}
    Retained = {keithley}
    MaxRuns = 2
    MaxStops = 1
    MaxFaults = 2
SPECIFICATION FairSpec
CHECK_DEADLOCK FALSE
INVARIANTS StopReachesRunner OutputsAccountedFor EmergencyStopsTheRun
PROPERTY StopEnds
