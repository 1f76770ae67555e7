SPECIFICATION UpdateSpec
CONSTANTS
    MaxVersion = 3
    Mute = {2}
    MaxRollbacks = 2
    MaxOrders = 4
    MaxKills = 3
    MaxFileFaults = 2
INVARIANTS UpdateTypeOK RestoresAccepted
PROPERTY MuteGoesBack
CHECK_DEADLOCK FALSE
