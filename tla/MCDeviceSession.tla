-------------------------- MODULE MCDeviceSession --------------------------
(* Symmetry of DeviceSession for TLC: accounts are interchangeable. *)
EXTENDS DeviceSession, TLC
Symmetry == Permutations(Account)
=============================================================================
