SPECIFICATION FairSpec
CONSTANTS
  Project = {p}
  None = none
  NoSeed = noseed
  WrongSecret = wrong
  Corrupt = corrupt
  Empty = empty
  MaxChance = 1
  MaxAsked = 2
  Overlap = {}
INVARIANTS TypeOK
PROPERTIES CacheIsShown ScreenIsUsers ListIsCurrent
