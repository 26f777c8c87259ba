---------------------------- MODULE MCTelnetOption ----------------------------
(* TelnetOption for TLC: the constants are given in the configuration.       *)
EXTENDS TelnetOption
=============================================================================
