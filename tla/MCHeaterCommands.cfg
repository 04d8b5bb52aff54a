SPECIFICATION HeaterSpec
CONSTANTS
    Levels = {3}
    Setpoints = {70}
    Ext = TRUE
    MaxCmds = 3
    MaxIn = 1
    MaxOut = 1
    MaxDrops = 1
    MaxRestarts = 1
INVARIANTS HeaterTypeOK StopKept
