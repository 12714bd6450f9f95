\* One worker writes a key and the other reads it.
CONSTANTS
    a = a
    b = b
    Workers = {a, b}
    Keys <- AllKeys
    Values <- Numbers
    Loaded <- TwoGroups
    CompactThreshold = 0
    Calls <- OneWriter
    Stores = {1, 2, 3, 4, 5, 6, 7, 8}
    Groups = {1, 2, 3, 4, 5, 6}
    MaxAdjustments = 1
    NONE = NONE
SPECIFICATION MapSpec
INVARIANTS NothingInUseIsFreed OneRecordPerKey
PROPERTIES ImplementsMap CallsReturn
