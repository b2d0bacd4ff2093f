SPECIFICATION Spec
CONSTANTS
    daemon = daemon
    cli = cli
    Proc = {daemon, cli}
    Ops <- OnlyAppends
    Failed = {1}
    Second <- OnePerSecond
    MaxLines = 1
    Counts = {1}
    Keep = {1}
    Legacy = FALSE
    MaxEntries = 4
    MaxCrashes = 0
    MaxTorn = 0
INVARIANTS
    RotationKeepsHistory
CHECK_DEADLOCK FALSE
