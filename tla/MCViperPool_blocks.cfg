\* Two clients use up the blocks of a pool that grows twice.
CONSTANTS
    Clients = {a, b}
    InitialBlocks = 4
    ChunkBlocks = 3
    Threshold = 25
    MaxBlocks = 4
    NONE = NONE
SPECIFICATION FairSpec
INVARIANTS TypeOK NoBlockShared ClaimsAreMapped OneResizer
PROPERTIES NoRequestHangs
