----------------------------- MODULE MCIAMStore -----------------------------
(* Instances of IAMStore for TLC. *)
EXTENDS IAMStore, TLC

CONSTANTS p1, p2, u1, u2, k1, g1

\* Goroutines are interchangeable, and so are UUIDs.
Symmetry == Permutations(Procs) \cup Permutations(Users)
=============================================================================
