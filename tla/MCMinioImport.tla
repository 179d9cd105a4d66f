---------------------------- MODULE MCMinioImport ----------------------------
(* One item of each kind, and the account's parent is the one user.           *)
EXTENDS MinioImport

MCParent == [a \in {"a"} |-> "u"]
=============================================================================
