SPECIFICATION Spec
CONSTANTS
    MaxKey = 30
    MaxNode = 31
    Keys <- MCKeys
    Payloads = {1, 3}
    EmptyData = EmptyData
    NodeSlots = 4
    LeafSlots = 4
    NodeIds <- MCNodeIds
    NULL = NULL
    Free = Free
    Junk = Junk
    Inserts = {"fill"}
    Erases = {"sought", "absent"}
    DeletePairs = {"sought", "absent"}
    PayloadsOf <- MCPayloadsOf
    Lookups = {2, 8, 12, 14, 15, 16, 18}
    Indeterminate = {FALSE}
    Reserve = 7
INVARIANTS
    TreeShape
    SiblingsChained
