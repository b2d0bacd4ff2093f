SPECIFICATION Spec
CONSTANTS
    daemon = daemon
    cli = cli
    Proc = {daemon}
    Ops <- OnlyAppends
    Failed = {1}
    Second <- OnePerSecond
    MaxLines = 1
    Counts = {2}
    Keep = {1}
    Legacy = FALSE
    MaxEntries = 5
    MaxCrashes = 1
    MaxTorn = 0
INVARIANTS
    RotationKeepsHistory
CHECK_DEADLOCK FALSE
