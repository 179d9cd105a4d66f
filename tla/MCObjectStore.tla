--------------------------- MODULE MCObjectStore ---------------------------
(* Instances of ObjectStore for TLC. *)
EXTENDS ObjectStore, TLC

CONSTANTS p1, p2, p3, k1, k2

\* Goroutines are interchangeable; so are keys where no CHOOSE picks one.
ProcSymmetry == Permutations(Procs)
=============================================================================
