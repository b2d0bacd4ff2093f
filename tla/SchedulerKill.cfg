SPECIFICATION Spec
CONSTANTS
    a = a
    b = b
    c = c
    Task = {a}
    Reboot = {}
    Delayed = {}
    KillPrevious = {a}
    Occurs <- EveryOther
    Until <- OnlyA
    MaxTime = 4
    MaxEdits = 0
    MaxWakeups = 0
    MaxFaults = 0
PROPERTIES
    KillOnlyOnTrigger
