SPECIFICATION RecSpec
CONSTANTS
    Threads = {t1, t2, t3}
    Names = {n1}
    SHORT = SHORT
    INT = INT
    VARCHAR = VARCHAR
    KeyTypes = {SHORT, INT, VARCHAR}
    OtherTypes = {}
    Closes = {"open"}
    MaxOpens = 1
    NULL = NULL
    Keys = {k1}
    NoKey = NoKey
    Tids = {0}
    Codes = {"FAILURE"}
SYMMETRY ThreadSymmetry
INVARIANTS
    TreeUsedByOne
    CastsRight
CHECK_DEADLOCK FALSE
