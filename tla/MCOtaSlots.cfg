SPECIFICATION FairSpec
CONSTANTS
    BootLimit = 2
    MaxInstalls = 3
    MaxCuts = 4
INVARIANTS TypeOK KnownGoodKept Recoverable
PROPERTIES FullTrial NoSpuriousRollBack EndsUpGood
CHECK_DEADLOCK FALSE
