----------------------------- MODULE MCBuckets -----------------------------
(* Instances of Buckets for TLC. *)
EXTENDS Buckets, TLC

CONSTANTS p1, p2, d1, d2, admin, alice

\* Goroutines are interchangeable.
Symmetry == Permutations(Procs)
=============================================================================
