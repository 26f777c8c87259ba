---------------------------- MODULE DurableWorld ----------------------------
(***************************************************************************)
(* What the transaction boundary promises to the rest of the server: each   *)
(* transaction takes effect in memory and in the database at one instant or *)
(* not at all, and only what took effect is ever published.                 *)
(***************************************************************************)
EXTENDS Naturals

CONSTANTS
    Rows,   \* rows of the world
    MaxTx   \* bound on the transactions

VARIABLES
    live,       \* the world every handler starts from
    disk,       \* the world a restart would load
    committed,  \* transactions reported as committed
    out         \* transactions whose effects have been published

vars == <<live, disk, committed, out>>

Transactions == 0 .. MaxTx

\* The world w after transaction t wrote the rows in S.
Written(w, S, t) == [r \in Rows |-> IF r \in S THEN t ELSE w[r]]

Init ==
    /\ live = [r \in Rows |-> 0] /\ disk = live
    /\ committed = {0} /\ out = {}

\* The transaction is durable and visible, as a whole, from now on.
CommitWorld(S, t) ==
    /\ live' = Written(live, S, t)
    /\ disk' = live'
    /\ committed' = committed \cup {t}
    /\ UNCHANGED out

\* Nothing changed: no write, but its effects may be published.
CommitNothing(t) ==
    /\ committed' = committed \cup {t}
    /\ UNCHANGED <<live, disk, out>>

\* The caller was told that the transaction failed.  The live world is as it
\* was; the database alone may hold the candidate, and then all of it.
FailInDoubt(S, t) ==
    /\ disk' = Written(live, S, t)
    /\ UNCHANGED <<live, committed, out>>

\* Only effects of committed transactions are published.
PublishCommitted ==
    /\ out \subseteq out' /\ out' \subseteq committed
    /\ UNCHANGED <<live, disk, committed>>

\* The whole live world is written, outside any transaction.
SaveSnapshot == disk' = live /\ UNCHANGED <<live, committed, out>>

\* A process that dies starts again from the database.
Recover == live' = disk /\ UNCHANGED <<disk, committed, out>>

Next ==
    \/ \E S \in SUBSET Rows, t \in Transactions :
          CommitWorld(S, t) \/ CommitNothing(t) \/ FailInDoubt(S, t)
    \/ PublishCommitted \/ SaveSnapshot \/ Recover

Spec == Init /\ [][Next]_vars
=============================================================================
