--------------------------- MODULE MCWorldCommit ---------------------------
(* Small instances of WorldCommit for TLC. *)
EXTENDS WorldCommit
=============================================================================
