SPECIFICATION LiveSpec
CONSTANTS
    MaxKey = 52
    MaxNode = 44
    Keys <- MCKeys
    Payloads = {1, 3}
    EmptyData = EmptyData
    NodeSlots = 4
    LeafSlots = 4
    NodeIds <- MCNodeIds
    NULL = NULL
    Free = Free
    Junk = Junk
    Inserts = {"fill"}
    Erases = {"first"}
    DeletePairs = {"first"}
    PayloadsOf <- MCPayloadsOf
    Lookups <- MCLookups
    Indeterminate = {FALSE}
    Reserve = 7
INVARIANTS
    KeyCount
    NeverUndefined
PROPERTIES
    ImplementsKeySet
    CallsReturn
