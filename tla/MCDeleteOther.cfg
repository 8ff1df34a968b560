SPECIFICATION Spec
CONSTANTS
    MaxKey = 4
    MaxNode = 12
    Keys <- MCKeys
    Payloads = {1, 3}
    EmptyData = EmptyData
    NodeSlots = 4
    LeafSlots = 4
    NodeIds <- MCNodeIds
    NULL = NULL
    Free = Free
    Junk = Junk
    Inserts = {"any"}
    Erases = {}
    DeletePairs = {"any"}
    PayloadsOf <- MCAllPayloads
    Lookups = {}
    Indeterminate = {FALSE}
    Reserve = 7
PROPERTIES
    PairMatches
