SPECIFICATION Spec
CONSTANTS
    TaskIds = {t1, t2}
    NoTask = NoTask
    Ops = {o1, o2}
    NoOp = NoOp
    PerTask = 1
    Days = {0, 1}
    DefaultDays = 1
    MaxEntries = 1
    MaxLoads = 2
    MaxCounts = 1
    Clicks = 3
INVARIANTS
    TypeOK
    AsksAndKeepsToIt
    ScreenIsCurrent
SYMMETRY Symmetry
CHECK_DEADLOCK FALSE
