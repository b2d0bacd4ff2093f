SPECIFICATION Spec
CONSTANTS
    SecondsPerMinute = 2
    MinutesPerHour = 2
    HoursPerDay = 3
    DaysPerWeek = 3
    MonthDays <- TwoMonths
    StepMonth = 2
    LeapEvery = 4
    Years = 9
    Change = 0
    OffsetBefore = 0
    OffsetAfter = 0
    MaxIterations = 100
    Schedules <- LeapDaySchedule
    Anchors <- NoAnchor
    Afters = {0, 100}
    LastAfter = 150
INVARIANTS
    NeverMeansNever
CHECK_DEADLOCK FALSE
