SPECIFICATION Spec
CONSTANTS
    Threads = {t1, t2}
    Names = {n1, n2}
    KeyTypes = {INT, VARCHAR}
    OtherTypes = {OTHER}
    Closes = {"open"}
    MaxOpens = 1
    NULL = NULL
INVARIANTS
    NoLockAfterReturn
CHECK_DEADLOCK FALSE
