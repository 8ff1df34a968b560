SPECIFICATION Spec
CONSTANTS
    Threads = {t1, t2}
    Names = {n1, n2}
    KeyTypes = {INT, VARCHAR}
    OtherTypes = {}
    Closes = {"open", "closed"}
    MaxOpens = 1
    NULL = NULL
PROPERTIES
    CloseNeedsOpen
CHECK_DEADLOCK FALSE
