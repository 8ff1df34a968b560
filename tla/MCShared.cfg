SPECIFICATION Spec
CONSTANTS
    Threads = {t1, t2}
    Names = {n1, n2}
    KeyTypes = {INT, VARCHAR}
    OtherTypes = {}
    Closes = {"open"}
    MaxOpens = 2
    NULL = NULL
INVARIANTS
    AnyThreadOpens
CHECK_DEADLOCK FALSE
