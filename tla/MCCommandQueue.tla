--------------------------- MODULE MCCommandQueue ---------------------------
(* A small instance of CommandQueue for TLC. *)
EXTENDS CommandQueue, TLC

\* @force, and @wait with a delay or with a negative number of seconds.
MCDelays == {-1, 0, 1}

\* Executors are interchangeable; used for safety runs only.
Symmetry == Permutations(Objects)
=============================================================================
