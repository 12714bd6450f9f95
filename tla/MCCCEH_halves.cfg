\* Two threads insert into the two halves of the table, splitting segments.
CONSTANTS
    t1 = t1
    t2 = t2
    k1 = k1
    k2 = k2
    k3 = k3
    k4 = k4
    k5 = k5
    k6 = k6
    k7 = k7
    k8 = k8
    k9 = k9
    k10 = k10
    Threads = {t1, t2}
    Keys = {k1, k2, k3, k4, k5, k6, k7, k8, k9, k10}
    INVALID = INVALID
    SENTINEL = SENTINEL
    NONE = NONE
    HashBits = 3
    Hash <- MCHash
    Loc <- MCLoc
    NumSlots = 3
    Probe = 2
    InitDepth = 1
    Program <- Halves
SPECIFICATION FairSpec
INVARIANTS SplitIsAlone OneInserterKeepsDirectory
PROPERTIES SplitKeepsPairs CallsReturn
