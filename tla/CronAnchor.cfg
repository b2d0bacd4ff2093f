SPECIFICATION Spec
CONSTANTS
    SecondsPerMinute = 2
    MinutesPerHour = 2
    HoursPerDay = 4
    DaysPerWeek = 3
    MonthDays <- TwoMonths
    StepMonth = 2
    LeapEvery = 4
    Years = 9
    Change = 0
    OffsetBefore = 0
    OffsetAfter = 0
    MaxIterations = 100
    Schedules <- EveryTwoHours
    Anchors <- OneOClock
    Afters = {4}
    LastAfter = 40
INVARIANTS
    AnchorKept
CHECK_DEADLOCK FALSE
