SPECIFICATION RulesSpec
CONSTANTS
    d1 = d1
    c1 = c1  c2 = c2
    e1 = e1  e2 = e2
    Conns = {c1, c2}
    DeviceOf <- Device
    Edits = {e1, e2}
    KindOf <- Kind
    ReadFails = TRUE
PROPERTY MachinesCatchUp
CHECK_DEADLOCK FALSE
