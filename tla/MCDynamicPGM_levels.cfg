\* A first level of three items and the levels it is merged into.
SPECIFICATION Spec
CONSTANTS
  p1 = p1
  p2 = p2
  NONE = NONE
  Deleted = Deleted
  Keys = {1, 2, 3, 4, 5}
  Payloads <- PayloadPair
  log2_base = 1
  min_level = 1
  min_index_level = 3
  MaxLevel = 4
  Loads <- NoneOrAll
  LoadedWith = p1
  Calls <- Some
INVARIANTS
  TypeOK
  FindReturnsLatest
  LowerBoundIsNextKey
  PgmsAreCurrent
  LevelsFit
