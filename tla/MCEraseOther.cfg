SPECIFICATION Spec
CONSTANTS
    MaxKey = 6
    MaxNode = 12
    Keys <- MCKeys
    Payloads = {1, 3}
    EmptyData = EmptyData
    NodeSlots = 4
    LeafSlots = 4
    NodeIds <- MCNodeIds
    NULL = NULL
    Free = Free
    Junk = Junk
    Inserts = {"any"}
    Erases = {"any"}
    DeletePairs = {}
    PayloadsOf <- MCPayloadsOf
    Lookups = {}
    Indeterminate = {FALSE}
    Reserve = 7
PROPERTIES
    EraseMatches
