------------------------- MODULE MCSimulationClock -------------------------
(* A small instance of SimulationClock for TLC. *)
EXTENDS SimulationClock

\* Databases at the beginning of a turn and just before its end.
MCStartSeconds == {0, 28}
MCStartOffsets == {0, 29}
=============================================================================
