SPECIFICATION FairSpec
CONSTANTS
    leader = leader
    c1 = c1
    c2 = c2
    Leader = leader
    Child = {c1}
    Tee = FALSE
PROPERTIES
    CancelEndsRun
CHECK_DEADLOCK FALSE
