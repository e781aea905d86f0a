SPECIFICATION TerminalSpec
CONSTANTS
  Session = {s1}
  HostKey = {k1, k2}
  Asks = 3
  None = none
  Size = {z0, z1}
  Default = z0
  Chunks = 2
  Resizes = 2
  Early = FALSE
INVARIANTS TerminalTypeOK PageAgrees
PROPERTIES TerminalMoves
