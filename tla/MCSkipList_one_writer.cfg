\* One client puts and reads, another reads.
CONSTANTS
    w = w
    r = r
    Clients = {w, r}
    Writers = {w}
    Keys = {1, 2}
    kMaxHeight = 3
    MaxNodes = 3
    NULL = NULL
    Garbage = Garbage
SPECIFICATION Spec
INVARIANTS TypeOK LinksLeadToSuccessors
PROPERTIES SearchesAreCurrent
