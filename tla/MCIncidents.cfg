SPECIFICATION IncidentsSpec
CONSTANTS
    m1 = m1  m2 = m2
    t1 = t1  t2 = t2
    Devices = {m1, m2}
    Txs = {t1, t2}
    Wide = TRUE
    Maintained = {}
    Window = 1
    Ceiling = 2
    MaxTime = 2
    MaxRooms = 2
    MaxErased = 1
SYMMETRY Symmetry
INVARIANTS  ClosedWhenQuiet 
CHECK_DEADLOCK FALSE
