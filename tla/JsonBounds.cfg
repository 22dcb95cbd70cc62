SPECIFICATION Spec
CONSTANTS
  Tables <- MCTables
  XParams = {7, 38}
  Reals = {0, 1, 2, 3, 4, 5, 6, 7, 8, 10, 12, 16, 24, 33, 42, 51}
  YParams = {0, 8}
  Unit = 4
  Null = Null
  Bad = Bad
  NotFinite = NotFinite
  MaxChanges = 1
  Texts = {"table"}
INVARIANTS
  JsonInBounds
