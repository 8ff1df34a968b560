SPECIFICATION FairSpec
CONSTANTS
    Threads = {t1, t2}
    Names = {n1, n2}
    KeyTypes = {INT}
    OtherTypes = {OTHER}
    Closes = {"open"}
    MaxOpens = 3
    NULL = NULL
INVARIANTS
    TypeOK
    MutualExclusion
    UniqueNames
    CloseFindsLink
    StateMatchesLink
    ExclusiveOpen
PROPERTIES
    LockedCallsReturn
    ImplementsDirectory
CHECK_DEADLOCK FALSE
