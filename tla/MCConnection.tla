----------------------------- MODULE MCConnection -----------------------------
(* Connection for TLC: the constants are given in the configuration.         *)
EXTENDS Connection
=============================================================================
