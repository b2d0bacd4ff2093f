SPECIFICATION FairSpec
CONSTANTS
    leader = leader
    c1 = c1
    c2 = c2
    Leader = leader
    Child = {c1, c2}
    Tee = TRUE
INVARIANTS
    TypeOK
    StopIsFinal
    NothingLeft
PROPERTIES
    NothingHangs
CHECK_DEADLOCK FALSE
