SPECIFICATION FairSpec
CONSTANTS
    a = a
    b = b
    c = c
    Task = {a, b, c}
    Reboot = {b, c}
    Delayed = {c}
    KillPrevious = {}
    Occurs <- EverySecond
    Until <- CronOrBoot
    MaxTime = 3
    MaxEdits = 1
    MaxWakeups = 1
    MaxFaults = 1
INVARIANTS
    TypeOK
    NoneLost
    PassIsFresh
    BootOnce
PROPERTIES
    NoRefire
    LoopKeepsUp
