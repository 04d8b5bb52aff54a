SPECIFICATION HeaterSpec
CONSTANTS
    Levels = {3}
    Setpoints = {70}
    Ext = TRUE
    MaxCmds = 1
    MaxIn = 2
    MaxOut = 2
    MaxDrops = 0
    MaxRestarts = 0
INVARIANTS NulledOnlyOnceApplied
