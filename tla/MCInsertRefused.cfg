SPECIFICATION RecSpec
CONSTANTS
    Threads = {t1, t2}
    Names = {n1}
    SHORT = SHORT
    INT = INT
    VARCHAR = VARCHAR
    KeyTypes = {SHORT, INT, VARCHAR}
    OtherTypes = {}
    Closes = {"open"}
    MaxOpens = 1
    NULL = NULL
    Keys = {k1, k2}
    NoKey = NoKey
    Tids = {0, 1}
    Codes = {"FAILURE"}
PROPERTIES
    InsertSucceeds
CHECK_DEADLOCK FALSE
