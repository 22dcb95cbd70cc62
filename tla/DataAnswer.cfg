SPECIFICATION AnswerSpec
CONSTANTS
  Tables <- MCTables
  XParams = {7, 38, Bad}
  Reals = {0, 1, 2, 3, 4, 5, 6, 7, 8, 10, 12, 16, 24, 33, 42, 51}
  YParams = {0, 8, NotFinite}
  Unit = 4
  Null = Null
  Bad = Bad
  NotFinite = NotFinite
  MaxChanges = 1
  Texts = {"table", "with_newline"}
  Categories = {"", "a", "b", "c", "d"}
  MaxNodes = 5
  Palette = 3
  FloatMax = 3
  Ids = {0, 3, 4, 5, 7, 8}
  MaxEdges = 2
  Exact = 4
  MaxLength = 3
INVARIANTS BinaryInBounds NothingMissing NoNullPacked HandlersAgree DecodesToRows ColorsOfCategories
