\* Two clients put, update, read and remove records, their own and each other's.
CONSTANTS
    a = a
    b = b
    k1 = k1
    k2 = k2
    k3 = k3
    k4 = k4
    Clients = {a, b}
    Keys = {k1, k2, k3, k4}
    NumSlots = 2
    NumRetries = 2
    IndexReturnsOld = TRUE
    MaxPages = 3
    NONE = NONE
    Program <- PutsAndRemoves
SPECIFICATION FreesFairSpec
INVARIANTS TypeOK NoSlotLeaked SizeIsNumberOfKeys PageLockExclusive QueuedOffsetsAreAwaited IndexLeadsUntilStaleUse
PROPERTIES CallsReturn
