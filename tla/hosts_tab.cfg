SPECIFICATION TabFairSpec
CONSTANTS
  Mine = {a}
  Theirs = {b}
  MaxEdits = 1
  Meanwhile = {}
INVARIANT TabTypeOK
PROPERTY TabTells
