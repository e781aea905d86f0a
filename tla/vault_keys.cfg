SPECIFICATION KeysSpec
CONSTANTS
  Password = {old, new}
  None = none
  MaxRev = 3
  MaxResets = 1
  MaxFaults = 1
  Overlap = {"password", "rekey"}
INVARIANTS KeysTypeOK VaultOpens
