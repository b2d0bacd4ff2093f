SPECIFICATION PageSpec
CONSTANTS
    Count = 5
    PageDays = 12
    PageIterations = 60
    SecondsPerMinute = 2
    MinutesPerHour = 2
    HoursPerDay = 3
    DaysPerWeek = 3
    MonthDays <- TwoMonths
    StepMonth = 2
    LeapEvery = 4
    Years = 9
    Change = 0
    OffsetBefore = 0
    OffsetAfter = 0
    MaxIterations = 100
    Schedules <- StarsOnly
    Anchors <- NoAnchor
    Afters = {20, 100}
    LastAfter = 150
INVARIANT
    PredictedNotLost
CHECK_DEADLOCK FALSE
