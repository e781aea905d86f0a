--------------------------- MODULE MCHostDocument ---------------------------
(* Values of HostDocument's constants for TLC: two spellings of one name,  *)
(* and one of another.                                                     *)
EXTENDS HostDocument, TLC
CONSTANTS web, Web, db
Names    == {web, Web, db}
Folded   == [n \in Names |-> IF n = Web THEN web ELSE n]
Symmetry == Permutations(Id) \cup Permutations(Secret) \cup Permutations(Addr)
=============================================================================
