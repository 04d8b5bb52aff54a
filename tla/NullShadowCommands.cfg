SPECIFICATION Spec
CONSTANTS
    MaxCmds = 2
    MaxIn = 2
    MaxOut = 2
    MaxDrops = 0
    MaxRestarts = 0
    SeqWrap = 3
PROPERTIES NulledOnlyOnceApplied
