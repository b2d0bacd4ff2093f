SPECIFICATION Spec
CONSTANTS
    daemon = daemon
    cli = cli
    Proc = {daemon, cli}
    Ops <- PruneBeside
    Failed = {1}
    Second <- OnePerSecond
    MaxLines = 2
    Counts = {1}
    Keep = {1}
    Legacy = FALSE
    MaxEntries = 3
    MaxCrashes = 0
    MaxTorn = 0
INVARIANTS
    KeepsNewest
CHECK_DEADLOCK FALSE
