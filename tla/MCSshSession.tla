---------------------------- MODULE MCSshSession ----------------------------
EXTENDS SshSession, TLC

Perms == Permutations(Session) \cup Permutations(HostKey)
=============================================================================
