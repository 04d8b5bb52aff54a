SPECIFICATION Spec
CONSTANTS
    a = a
    b = b
    Units = {a, b}
    Linked = {a}
    Located = {b}
    Null = Null
    Silent = Silent
    Off = Off
    All = All
    Situations <- MCSituations
    Fresh = 1
    Day = 2
    Week = 3
    Batch = 1
    Online = {b}
    MaxTime = 5
    MaxWork = 3
INVARIANTS CardTells PagesAgree AnswersSelected FiguresAddUp
CHECK_DEADLOCK FALSE
