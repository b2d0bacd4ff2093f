SPECIFICATION Spec
CONSTANTS
    MaxRuns = 2
    MaxChunks = 3
    MaxEchoes = 2
    MaxShown = 2
INVARIANT
    HeaderIsOwn
CHECK_DEADLOCK FALSE
