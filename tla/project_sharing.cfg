SPECIFICATION FairSpec
CONSTANTS
  Host = {h}
  Me = me
  Member = {m}
  Admins = {me}
  None = none
  MaxAttempts = 2
  MaxRev = 2
  MaxOther = 2
  MaxFaults = 1
  Overlap = {}
INVARIANTS TypeOK HostNeverLost CopiesOpen
PROPERTIES NoSealUnderMismatch WrittenIsCached
CHECK_DEADLOCK FALSE
