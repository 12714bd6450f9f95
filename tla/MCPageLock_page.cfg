\* Two clients writing a page, one reading it.
CONSTANTS
    Writers = {w1, w2}
    Readers = {r1}
    Owner = w1
    MaxCycles = 3
SPECIFICATION FairPageSpec
INVARIANTS PageTypeOK MutualExclusion NoTornRead
PROPERTIES WaitersGetThrough
