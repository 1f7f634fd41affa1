------------------------------ MODULE MCWatch ------------------------------
(* Small instances of Watch for TLC. *)
EXTENDS Watch, TLC

CONSTANTS p1, p2

PathSymmetry == Permutations({p1, p2})
=============================================================================
