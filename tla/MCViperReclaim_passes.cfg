\* Two passes of reclamation while a client opens, puts, removes and leaves.
CONSTANTS
    Clients = {a}
    Reclaimer = r
    Keys = {zero, k1, k2}
    ZeroKey = zero
    NumPages = 2
    NumSlots = 1
    FreePercentage = 40
    NumBlocks = 4
    SpareBlocks = 3
    MaxCalls = 5
    MaxPasses = 2
    NONE = NONE
SPECIFICATION StrayFairSpec
CONSTRAINT NotYetStray
INVARIANTS TypeOK
   
