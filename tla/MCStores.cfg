SPECIFICATION Stores
CONSTANTS
  Rows = {1, 2}
  Values = {a, b}
  Workers = {w1, w2}
  Limit = 2
  Batch = 2
  Encodings = {"gzip+age"}
  MaxCaptures = 3
  MaxDamage = 1
  None = None
  Folders = {f, g}
  Entities = {e}
  Shared = Shared
  User = User
SYMMETRY Symmetry
INVARIANTS TypesOK StoresHold
PROPERTIES NothingTaken
CHECK_DEADLOCK FALSE
