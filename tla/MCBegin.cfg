SPECIFICATION IterSpec
CONSTANTS
    MaxKey = 10
    MaxNode = 14
    Keys <- MCKeys
    Payloads = {1, 3}
    EmptyData = EmptyData
    NodeSlots = 4
    LeafSlots = 4
    NodeIds <- MCNodeIds
    NULL = NULL
    Free = Free
    Junk = Junk
    Inserts = {"fill"}
    Erases = {"first", "last"}
    DeletePairs = {"first"}
    PayloadsOf <- MCPayloadsOf
    Lookups <- MCLookups
    Indeterminate = {FALSE}
    Reserve = 7
    Begins = "always"
    Holds = FALSE
PROPERTIES
    BeginIsFirst
