SPECIFICATION FairSpec
CONSTANTS
  Host = {h1, h2}
  None = {none}
  Zeros = {zeros}
  Overlap = {}
  MaxEdits = 2
  MaxOther = 3
  MaxVersion = 7
INVARIANT DiskHonest
PROPERTIES MeetsContract Convergence
