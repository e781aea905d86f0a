SPECIFICATION FairSpec
CONSTANTS
  Account = {a, b}
  None = none
  Overlap = {}
INVARIANTS TypeOK NothingIsLeft StoredIsUsers
PROPERTIES BootResolves
