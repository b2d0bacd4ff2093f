SPECIFICATION Spec
CONSTANTS
    t1 = t1
    t2 = t2
    r1 = r1
    r2 = r2
    r3 = r3
    Task = {t1}
    Run = {r1, r2, r3}
    Killer = {k1}
    NoRun = NoRun
    TaskOf <- OneTask
    MaxTotal = 0
    Fields <- Definitions
SYMMETRY RunSymmetry
INVARIANTS
    TypeOK
    SlotsExact
    StopReaches
    RunsAccounted
    RetryDiscipline
PROPERTIES
    NoProcessAfterStop
