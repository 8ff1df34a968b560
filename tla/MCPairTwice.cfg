SPECIFICATION Spec
CONSTANTS
    MaxKey = 10
    MaxNode = 14
    Keys <- MCKeys
    Payloads = {1, 3}
    EmptyData = EmptyData
    NodeSlots = 4
    LeafSlots = 4
    NodeIds <- MCNodeIds
    NULL = NULL
    Free = Free
    Junk = Junk
    Inserts = {"append", "repeat"}
    Erases = {}
    DeletePairs = {}
    PayloadsOf <- MCPayloadsOf
    Lookups = {}
    Indeterminate = {FALSE}
    Reserve = 7
INVARIANTS
    PairsUnique
