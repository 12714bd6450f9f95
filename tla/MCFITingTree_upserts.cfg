\* Every place a record can go to: the two buffers, the leaves, splits.
SPECIFICATION Spec
CONSTANTS
  p1 = p1
  p2 = p2
  NONE = NONE
  Keys = {1, 2, 3, 4, 6, 7, 8, 9}
  Payloads <- PayloadPair
  Loaded <- LoadedKeys
  LoadedWith = p1
  EPSILON = 1
  RESERVE = 2
  AsKey <- ReadAsKey
CONSTRAINT NotYetMisread
INVARIANTS
  FindsUntilMisread
  RangesUntilMisread
  LeavesUntilMisread
