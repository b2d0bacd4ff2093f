SPECIFICATION Spec
CONSTANTS
    daemon = daemon
    cli = cli
    Proc = {daemon, cli}
    Ops <- AllOps
    Failed = {2, 3}
    Second <- TwoPerSecond
    MaxLines = 2
    Counts = {1, 2}
    Keep = {1, 2}
    Legacy = TRUE
    MaxEntries = 6
    MaxCrashes = 1
    MaxTorn = 1
INVARIANTS
    TypeOK
    LogIntact
    ListingInOrder
PROPERTIES
    LiveWithinBudget
CONSTRAINT Untainted
CHECK_DEADLOCK FALSE
