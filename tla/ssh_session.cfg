SPECIFICATION Spec
CONSTANTS
  Session = {s1, s2}
  HostKey = {k1, k2}
  Asks = 2
  None = none
INVARIANTS TypeOK OnlyTrusted ScreenIsBacked
SYMMETRY Perms
