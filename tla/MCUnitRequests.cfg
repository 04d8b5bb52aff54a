SPECIFICATION Spec
CONSTANTS
    Versions = {1, 2}
    RebootMin = 2
    LocationMin = 2
    Places = {x, y}
    First = 2
    MaxAsked = 2
    MaxDown = 2
    MaxUp = 2
    MaxFaults = 2
SYMMETRY Symmetry
INVARIANTS RebootOnce LocationAgrees
PROPERTIES NoReinstall
CHECK_DEADLOCK FALSE
