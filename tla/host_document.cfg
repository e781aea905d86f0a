SPECIFICATION Spec
CONSTANTS
  web = web
  Web = Web
  db = db
  Name <- Names
  Fold <- Folded
  Id = {i, j}
  Addr = {x, y}
  Blank = blank
  Port = {0, 80, 65536}
  Secret = {s}
  Key = {k}
  None = none
  MaxEdits = 3
  Overlap = {}
INVARIANTS TypeOK NamesUnique SecretGoesHome
PROPERTIES EditsKeep SavedAsSeen
SYMMETRY Symmetry
