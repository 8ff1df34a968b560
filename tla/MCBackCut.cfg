SPECIFICATION Spec
CONSTANTS
    MaxKey = 10
    MaxNode = 20
    Keys <- MCKeys
    Payloads = {1, 3}
    EmptyData = EmptyData
    NodeSlots = 4
    LeafSlots = 4
    NodeIds <- MCNodeIds
    NULL = NULL
    Free = Free
    Junk = Junk
    Inserts = {"fill"}
    Erases = {"first"}
    DeletePairs = {}
    PayloadsOf <- MCPayloadsOf
    Lookups <- MCLookups
    Indeterminate = {FALSE}
    Reserve = 7
INVARIANTS
    LinksLeadToLeaves
