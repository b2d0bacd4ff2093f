SPECIFICATION Spec
CONSTANTS
    SecondsPerMinute = 2
    MinutesPerHour = 2
    HoursPerDay = 3
    DaysPerWeek = 3
    MonthDays <- TwoMonths
    StepMonth = 2
    LeapEvery = 4
    Years = 8
    Change = 20
    OffsetBefore = 4
    OffsetAfter = 0
    MaxIterations = 100
    Schedules <- EveryHour
    Anchors <- NoAnchor
    Afters = {0}
    LastAfter = 110
INVARIANTS
    ResultIsLater
CHECK_DEADLOCK FALSE
