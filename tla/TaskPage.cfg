SPECIFICATION FairSpec
CONSTANTS
    Deletes = {d1}
    Raws = {r1}
    MaxSaves = 2
    InitialTasks <- TwoTasks
    MaxUid = 4
    Clicks = 2
    Writes = 1
INVARIANTS
    TypeOK
    IdsUnique
    ClearsConfirmed
PROPERTIES
    EventuallyFresh
CHECK_DEADLOCK FALSE
