-------------------------- MODULE MCAuthentication --------------------------
(* Small instances of Authentication for TLC. *)
EXTENDS Authentication, TLC

CONSTANTS god, player1, player2, godName, playerName

\* God and one more player exist; a third may be created.
MCFirstName == god :> godName @@ player1 :> playerName

\* Connections are interchangeable; used for safety runs only.
Symmetry == Permutations(Sessions)
=============================================================================
