SPECIFICATION IterSpec
CONSTANTS
    MaxKey = 36
    MaxNode = 34
    Keys <- MCKeys
    Payloads = {1, 3}
    EmptyData = EmptyData
    NodeSlots = 4
    LeafSlots = 4
    NodeIds <- MCNodeIds
    NULL = NULL
    Free = Free
    Junk = Junk
    Inserts = {"fill"}
    Erases = {"first", "last", "absent"}
    DeletePairs = {"first", "absent"}
    PayloadsOf <- MCPayloadsOf
    Lookups = {15}
    Indeterminate = {FALSE}
    Reserve = 7
    Begins = "unsplit"
    Holds = FALSE
INVARIANTS
    TypeOK
    SearchOrder
    Balanced
    LeafChain
    ChainBackwards
    IteratorInside
PROPERTIES
    StepsInOrder
