----------------------------- MODULE MCAutopilot -----------------------------
(* Autopilot for TLC: the constants are given in the configuration.         *)
EXTENDS Autopilot
=============================================================================
