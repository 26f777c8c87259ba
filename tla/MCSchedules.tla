----------------------------- MODULE MCSchedules -----------------------------
(* Schedules for TLC: one global and one object schedule.                   *)
EXTENDS Schedules, TLC

CONSTANTS g, s
\* The global schedule matches every minute, the object's every minute but 0.
MCCron == [n \in {g, s} |-> IF n = g THEN Minutes ELSE Minutes \ {0}]

Symmetry == Permutations(Objects)
=============================================================================
