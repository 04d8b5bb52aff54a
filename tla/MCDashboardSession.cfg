SPECIFICATION Spec
CONSTANTS
    People = {"ann", "bob"}
    Roles = {"admin", "fm", "eu"}
    Staff <- MCStaff
    Admins = {a1, a2}
    Calls = {c1, c2}
    Life = 1
    MaxNow = 2
    MaxWork = 6
SYMMETRY Symmetry
INVARIANTS AsGranted OnePerson ShowsStored
PROPERTIES RecentAdmin
CHECK_DEADLOCK FALSE
