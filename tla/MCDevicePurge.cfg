SPECIFICATION PurgeSpec
CONSTANTS
    d1 = d1
    c1 = c1
    j1 = j1  j2 = j2
    Nobody = Nobody
    Devices = {d1}
    Conns = {c1}
    Jobs = {j1, j2}
    DeviceOf <- OneDevice
    SubjectOf <- DeviceAndTenant
    MaxFaults = 1
    MaxBoots = 1
INVARIANTS    CrashAloneResumes
PROPERTY OrphansSwept
CHECK_DEADLOCK FALSE
