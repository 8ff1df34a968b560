SPECIFICATION LiveSpec
CONSTANTS
    MaxKey = 8
    MaxNode = 14
    Keys <- MCKeys
    Payloads = {1, 3}
    EmptyData = EmptyData
    NodeSlots = 4
    LeafSlots = 4
    NodeIds <- MCNodeIds
    NULL = NULL
    Free = Free
    Junk = Junk
    Inserts = {"any"}
    Erases = {}
    DeletePairs = {}
    PayloadsOf <- MCPayloadsOf
    Lookups = {}
    Indeterminate = {FALSE}
    Reserve = 7
PROPERTIES
    CallsReturn
