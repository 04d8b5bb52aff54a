SPECIFICATION Spec
CONSTANTS
    Workers = {w1, w2}
    Volts = {1, 3, 4}
    Readings <- MCReadings
    LowV = 4
    StepV = 2
    HoldMs = 2
    DailyMs = 3
    ReplayMs = 1
    MaxNow = 6
    MaxReadings = 6
    MaxStops = 1
SYMMETRY Symmetry
INVARIANTS TypeOK Story Told
PROPERTIES Serial Patient
CHECK_DEADLOCK FALSE
