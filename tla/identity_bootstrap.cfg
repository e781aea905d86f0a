SPECIFICATION FairSpec
CONSTANTS
  Phone = {p, q}
  MaxMinted = 16
  Host = {h1, h2}
  Foreign = foreign
  MaxFaults = 3
  Overlap = {}
INVARIANTS TypeOK NothingIsStranded
PROPERTIES AlarmIsHonest IdentitySettles
CHECK_DEADLOCK FALSE
