----------------------------- MODULE MCLogWorker -----------------------------
(* LogWorker for TLC: the constants are given in the configuration.         *)
EXTENDS LogWorker
=============================================================================
