---------------------------- MODULE MCMultipart ----------------------------
(* Instances of Multipart for TLC. *)
EXTENDS Multipart, TLC

CONSTANTS p1, p2

\* Goroutines are interchangeable.
ProcSymmetry == Permutations(Procs)
=============================================================================
