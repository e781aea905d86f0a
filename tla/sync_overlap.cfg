SPECIFICATION Spec
CONSTANTS
  Host = {h1, h2}
  None = {none}
  Zeros = {zeros}
  Overlap = {"edit", "lock", "meta", "late"}
  MaxEdits = 1
  MaxOther = 2
  MaxVersion = 3
INVARIANTS TypeOK
PROPERTY NoBlindOverwrite
SYMMETRY Perms
