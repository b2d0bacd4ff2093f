SPECIFICATION Spec
CONSTANTS
    Deletes = {}
    Raws = {}
    MaxSaves = 2
    InitialTasks <- TwoTasks
    MaxUid = 4
    Clicks = 2
    Writes = 1
PROPERTIES
    EditLands
CHECK_DEADLOCK FALSE
