SPECIFICATION FairSpec
CONSTANTS
    MaxCmds = 2
    MaxIn = 2
    MaxOut = 2
    MaxDrops = 1
    MaxRestarts = 1
    SeqWrap = 3
INVARIANTS TypeOK KeptWithoutFaults
PROPERTIES AckOnlyWritten InOrder Settles EachWritten
CHECK_DEADLOCK TRUE
