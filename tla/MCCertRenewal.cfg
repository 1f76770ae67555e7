SPECIFICATION RenewalSpec
CONSTANTS
    l1 = l1  l2 = l2
    Links = {l1, l2}
    MaxCert = 3
    MaxKeys = 2
    PerDay = 2
    Copies = TRUE
    MaxBoots = 1
SYMMETRY Symmetry
INVARIANTS  NoComeback
CHECK_DEADLOCK FALSE
