--------------------------- MODULE MCPersonalSync ---------------------------
EXTENDS PersonalSync, TLC

Perms == Permutations(Host)
=============================================================================
