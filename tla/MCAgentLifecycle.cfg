SPECIFICATION FairSpec
CONSTANTS
    None = None
    Torn = Torn
    FaultSteps <- UnmarkedSteps
    KillSteps <- KillAnywhereFlushed
    Servers = {s1, s2}
    HomeServer = {s1}
    MaxDevices = 2
    MaxRenewals = 1
    MaxBundles = 1
    MaxInstalls = 2
    MaxCuts = 2
    MaxFaults = 1
    MaxEvents = 4
INVARIANTS AllOrNothing RestartLoadsMemory RecoveredWhole
PROPERTY RemovalFinishes
CHECK_DEADLOCK FALSE
