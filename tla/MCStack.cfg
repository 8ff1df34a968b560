SPECIFICATION RefineSpec
CONSTANTS
    MaxKey = 26
    MaxNode = 17
    Keys <- MCStackKeys
    Payloads = {1, 3}
    EmptyData = EmptyData
    NodeSlots = 4
    LeafSlots = 4
    NodeIds <- MCNodeIds
    NULL = NULL
    Free = Free
    Junk = Junk
    Inserts = {"append", "retry"}
    Erases = {"last"}
    DeletePairs = {}
    PayloadsOf <- MCPayloadsOf
    Lookups = {9, 10}
    Indeterminate = {FALSE}
    Reserve = 7
INVARIANTS
    SearchOrder
    Balanced
    LeafChain
    ChainBackwards
    KeyCount
    PairsUnique
    NeverUndefined
PROPERTIES
    ImplementsMultimap
