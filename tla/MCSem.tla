-------------------------------- MODULE MCSem --------------------------------
(* Values of the constants of SemClockwait for TLC. *)
EXTENDS SemClockwait, TLC

CONSTANTS c1, c2, n1, p1, p2

Symmetry == Permutations({c1, c2}) \cup Permutations({p1, p2})
=============================================================================
