SPECIFICATION RefineSpec
CONSTANTS
    MaxKey = 16
    MaxNode = 20
    Keys <- MCKeys
    Payloads = {1, 3}
    EmptyData = EmptyData
    NodeSlots = 4
    LeafSlots = 4
    NodeIds <- MCNodeIds
    NULL = NULL
    Free = Free
    Junk = Junk
    Inserts = {"fill"}
    Erases = {"first", "last"}
    DeletePairs = {}
    PayloadsOf <- MCPayloadsOf
    Lookups <- MCLookups
    Indeterminate = {FALSE}
    Reserve = 7
PROPERTIES
    DeletionKeepsOthers
