SPECIFICATION ConnsSpec
CONSTANTS
    d1 = d1
    Devices = {d1}
    Conns = {1, 2, 3}
    DeviceOf <- OneDevice
    OtherTenant = {}
    MaxRestarts = 1
    DbFails = TRUE
    Nobody = Nobody
INVARIANTS ConnsTypeOK ServedIsOnline
PROPERTIES ReplacedIsGone PresenceSpec
CHECK_DEADLOCK FALSE
