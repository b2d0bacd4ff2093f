SPECIFICATION FairSpec
CONSTANTS
    MaxRuns = 2
    MaxChunks = 3
    MaxEchoes = 2
    MaxShown = 2
INVARIANTS
    TypeOK
    ShowsOwnRun
    ControlsOwnRun
    StoppedNotSuccess
PROPERTIES
    ImplementsSlot
    StopEnds
CHECK_DEADLOCK FALSE
