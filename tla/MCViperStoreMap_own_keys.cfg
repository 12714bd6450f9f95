\* Each client writes its own key and reads the other's.
CONSTANTS
    a = a
    b = b
    k1 = k1
    k2 = k2
    k3 = k3
    k4 = k4
    Clients = {a, b}
    Keys = {k1, k2}
    NumSlots = 2
    NumRetries = 2
    IndexReturnsOld = TRUE
    MaxPages = 3
    NONE = NONE
    Program <- OwnKeys
SPECIFICATION HistorySpec
PROPERTIES ImplementsMap
