SPECIFICATION Spec
CONSTANTS
    BootLimit = 3
    MaxInstalls = 1
    MaxCuts = 1
INVARIANTS UnconfirmedOnTrial
CHECK_DEADLOCK FALSE
