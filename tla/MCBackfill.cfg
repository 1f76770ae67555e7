SPECIFICATION BackfillSpec
CONSTANTS
    d1 = d1  d2 = d2
    c1 = c1  c2 = c2  c3 = c3
    ta = ta  tb = tb
    Nobody = Nobody
    Devices = {d1, d2}
    Conns = {c1, c2, c3}
    Tenants = {ta, tb}
    DeviceOf <- Device
    TenantOf <- Tenant
    MaxConcurrent = 1
    PerTenantMax = 1
    GrantTTL = 2
    DeferBackoff = 1
    Backlog = 2
    Aged <- AgedBatches
    Skew = 0
    WriteFails = TRUE
INVARIANTS BackfillTypeOK SlotBooks AckedIsStored 
PROPERTIES DrainsOrStalls
