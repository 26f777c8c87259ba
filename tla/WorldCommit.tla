---------------------------- MODULE WorldCommit ----------------------------
(***************************************************************************)
(* The serialized owner of the game world and its transaction boundary.     *)
(*                                                                          *)
(* One tokio task owns the world.  Every handler (a player command, a       *)
(* queued command, a Lua schedule, a flow line, a heartbeat, a connect or   *)
(* disconnect hook) mutates the live world and stages effects, then calls   *)
(* Server::commit, which writes the difference to SQLite or restores the    *)
(* world and rolls the effects back, and finally publishes the effects with *)
(* Server::flush.  Handlers never overlap, but the process may die at any   *)
(* of their await points and every database write may fail.                 *)
(*                                                                          *)
(* Data.  A world is a function from Rows to the number of the transaction  *)
(* that wrote the row last (0: the world the server booted with), so a row  *)
(* of a rejected transaction is visible wherever it survives.  All the      *)
(* kinds of publishable effect of one transaction (notifications, private   *)
(* output, audit records, traces, logfile appends, map files) are one       *)
(* element of `pending': the batch drains them all in the same flush.       *)
(***************************************************************************)
EXTENDS Naturals, FiniteSets

CONSTANTS
    Rows,        \* rows of the database that transactions may change
    Sessions,    \* connections that may carry a player
    Background,  \* destination of a handler that no connection invoked
    NoBaseline,  \* durable = None: the stored world must be read back
    MaxTx,       \* bound on the transactions that change or stage anything
    EntryLimit   \* config.lua.output_entry_limit, in transactions' effects

World == [Rows -> Nat]

ASSUME BackgroundAssumption == Background \notin Sessions
ASSUME BaselineAssumption == NoBaseline \notin World
ASSUME BoundsAssumption == MaxTx \in Nat /\ EntryLimit \in Nat

VARIABLES
    world,           \* Scripts::world, the live world
    stored,          \* the rows SQLite holds
    durable,         \* Server::durable, the baseline the next save diffs against
    pending,         \* EffectBatch: transactions whose effects wait for a flush
    saveRequested,   \* EffectBatch::save_requested
    maintaining,     \* whether EffectBatch::maintenance is Some
    detachments,     \* its plan's detachments, as sessions
    flows,           \* EffectBatch::flows: who wrote a session's flow; 0 is none
    flowsDurable,    \* State::durable
    attached,        \* sessions with a player, as Effects::sessions knows them
    pc,              \* where the world owner is
    txn,             \* the running handler
    shutdown,        \* Server::shutdown
    shutdownFailed,  \* Server::shutdown_failed
    lastTx,          \* the number of the latest transaction
    acked,           \* history: transactions whose commit returned true
    rejected,        \* history: transactions rolled back in memory and on disk
    published,       \* history: transactions whose effects were flushed
    owed,            \* history: acked effects neither published nor lost to a crash
                     \* (a login stages a notice but no diagnostics)
    doubt            \* history: a failed write may nevertheless be on disk

effectVars == <<pending, saveRequested, maintaining, detachments, flows, flowsDurable>>
historyVars == <<acked, rejected, published, owed, doubt>>
vars == <<world, stored, durable, effectVars, attached, pc, txn,
          shutdown, shutdownFailed, lastTx, historyVars>>

(***************************************************************************)
(* How a handler ends.  "continue" stands for every handler that flushes    *)
(* after a successful commit: Action::Continue, Action::Queue, a Report or  *)
(* Server action whose callbacks ran, a queued CommitReply, a schedule and a *)
(* heartbeat; whether a session or nobody is told the outcome makes no       *)
(* difference to the world or the batch.  "login" saves the account of a     *)
(* session that has no player yet.                                          *)
(***************************************************************************)
Kinds == {"continue", "commit_reply", "flow", "hook", "login", "dbck"}

NoFlow == [s \in Sessions |-> 0]
Idle == [id |-> 0, kind |-> "continue", dest |-> Background,
         before |-> [r \in Rows |-> 0], plan |-> {}, failed |-> FALSE]

(***************************************************************************)
(* The world owner starts with the stored world, no baseline and no         *)
(* sessions.                                                                *)
(***************************************************************************)
Init ==
    /\ world = [r \in Rows |-> 0]
    /\ stored = world
    /\ durable = NoBaseline
    /\ pending = {} /\ saveRequested = FALSE
    /\ maintaining = FALSE /\ detachments = {}
    /\ flows = NoFlow /\ flowsDurable = NoFlow
    /\ attached = {}
    /\ pc = "idle" /\ txn = Idle
    /\ shutdown = "none" /\ shutdownFailed = FALSE
    /\ lastTx = 0
    /\ acked = {0} /\ rejected = {} /\ published = {} /\ owed = {} /\ doubt = FALSE

(***************************************************************************)
(* Effects.                                                                 *)
(***************************************************************************)
\* Mutant: the retain is forgotten.
PruneNothing(f, keep) == f

\* Effects::sessions: flows of sessions that are gone are dropped.
Prune(f, keep) == [s \in Sessions |-> IF s \in keep THEN f[s] ELSE 0]

\* Mutant: the outbox is not cleared.
RollbackKeepsOutput ==
    /\ saveRequested' = FALSE
    /\ maintaining' = FALSE /\ detachments' = {}
    /\ flows' = flowsDurable
    /\ UNCHANGED <<pending, flowsDurable>>

\* Mutant: candidate flows stay.
RollbackKeepsFlows ==
    /\ pending' = {}
    /\ saveRequested' = FALSE
    /\ maintaining' = FALSE /\ detachments' = {}
    /\ UNCHANGED <<flows, flowsDurable>>

\* Mutant: the maintenance plan stays.
RollbackKeepsPlan ==
    /\ pending' = {}
    /\ saveRequested' = FALSE
    /\ flows' = flowsDurable
    /\ UNCHANGED <<maintaining, detachments, flowsDurable>>

\* Effects::rollback: flow candidates return to their durable state, and
\* every other effect is discarded.
Rollback ==
    /\ pending' = {}
    /\ saveRequested' = FALSE
    /\ maintaining' = FALSE /\ detachments' = {}
    /\ flows' = flowsDurable
    /\ UNCHANGED flowsDurable

\* Effects::rollback followed by Effects::cancel of one session's flow.
RollbackAndCancel(s) ==
    /\ pending' = {}
    /\ saveRequested' = FALSE
    /\ maintaining' = FALSE /\ detachments' = {}
    /\ flows' = [flowsDurable EXCEPT ![s] = 0]
    /\ flowsDurable' = flows'

\* Effects::stop: all interactive work and all staged effects go.
Stop ==
    /\ pending' = {}
    /\ saveRequested' = FALSE
    /\ maintaining' = FALSE /\ detachments' = {}
    /\ flows' = NoFlow /\ flowsDurable' = NoFlow

\* Effects::validate, with the limit counted in transactions' effects.  The
\* database check does not call it.
EffectsValid == txn.kind = "dbck" \/ Cardinality(pending) <= EntryLimit

(***************************************************************************)
(* Execute: a handler takes its snapshot, changes the live world, stages    *)
(* effects, may request a save, may stage a maintenance plan (any callback  *)
(* may check the database, which may destroy players) and may install,      *)
(* advance or finish flows.  A handler that changes no row and stages no    *)
(* output is transaction 0.                                                 *)
(***************************************************************************)
FlowChoices(kind, dest, id, sessions) ==
    CASE kind = "flow" -> {[flows EXCEPT ![dest] = id], [flows EXCEPT ![dest] = 0]}
      [] kind = "hook" -> {Prune(flows, sessions)}
      [] kind = "login" -> {flows}
      [] OTHER -> {flows} \cup
            {[flows EXCEPT ![s] = id] : s \in {t \in attached : flows[t] = 0 /\ id # 0}}

Empty(kind, writes, stages) == writes = {} /\ ~stages /\ kind # "flow"

\* The number of the transaction.
IdOf(kind, writes, stages) == IF Empty(kind, writes, stages) THEN 0 ELSE lastTx + 1

\* What the handler leaves in the live world and in the batch; the sessions
\* are those of its snapshot, a connection that comes or goes included.
Effect(id, kind, dest, sessions, writes, stages, detach) ==
    /\ lastTx' = IF id = 0 THEN lastTx ELSE id
    /\ txn' = [id |-> id, kind |-> kind, dest |-> dest, before |-> world, plan |-> detach,
               failed |-> FALSE]
    /\ world' = [r \in Rows |-> IF r \in writes THEN id ELSE world[r]]
    /\ pending' = IF stages THEN pending \cup {id} ELSE pending
    /\ detachments' = detachments \cup detach
    /\ flows' \in FlowChoices(kind, dest, id, sessions)
    /\ flowsDurable' = IF kind = "hook" THEN Prune(flowsDurable, sessions) ELSE flowsDurable
    /\ attached' = sessions
    /\ pc' = "executed"

Execute(kind, dest, sessions) ==
    \E writes \in SUBSET Rows, stages, saves, maintains \in BOOLEAN,
       detach \in SUBSET sessions :
       /\ Empty(kind, writes, stages) \/ lastTx < MaxTx
       /\ detach # {} => maintains /\ writes # {}
       /\ kind = "dbck" => maintains
       /\ saves \/ maintains => kind # "login"
       /\ saveRequested' = (saveRequested \/ saves)
       /\ maintaining' = (maintaining \/ maintains)
       /\ Effect(IdOf(kind, writes, stages), kind, dest, sessions, writes, stages, detach)
       /\ durable' = IF kind = "dbck" THEN NoBaseline ELSE durable
       /\ UNCHANGED <<stored, shutdown, shutdownFailed>>
       /\ UNCHANGED historyVars

\* A command line or background work; a session whose flow is active sends
\* its lines to the flow instead.
Command(dest, kind) ==
    /\ pc = "idle" /\ shutdown = "none"
    /\ dest = Background \/ (dest \in attached /\ flows[dest] = 0)
    /\ Execute(kind, dest, attached)

\* Server::dbck: the check plans its repairs and runs their callbacks inside
\* the database transaction, and gives up the baseline before it begins.
Dbck ==
    /\ pc = "idle" /\ shutdown = "none"
    /\ Execute("dbck", Background, attached)

\* A line for a session's flow.
FlowInput(s) ==
    /\ pc = "idle" /\ shutdown = "none"
    /\ s \in attached /\ flows[s] # 0
    /\ Execute("flow", s, attached)

\* An accepted or refused password, or a registration, changes the account.
Login(s) ==
    /\ pc = "idle" /\ shutdown = "none"
    /\ s \notin attached
    /\ Execute("login", s, attached)

\* A login has been saved: the player is attached and the connect hook runs.
Attach(s) ==
    /\ pc = "idle" /\ shutdown = "none"
    /\ s \notin attached
    /\ Execute("hook", s, attached \cup {s})

\* Mutant: disconnects are refused once a shutdown was accepted.
DisconnectWhileServing(s) ==
    /\ pc = "idle" /\ shutdown = "none"
    /\ s \in attached
    /\ Execute("hook", s, attached \ {s})

\* The session is forgotten before its disconnect hook runs.  The shutdown
\* path disconnects every session in the same way.
Disconnect(s) ==
    /\ pc = "idle"
    /\ s \in attached
    /\ Execute("hook", s, attached \ {s})

(***************************************************************************)
(* A handler's callback or command body fails: the snapshot returns and     *)
(* the effects are rolled back.  A failed flow is cancelled as well.  The   *)
(* connect and disconnect hooks go on to commit what is left, which is the  *)
(* snapshot itself.                                                         *)
(***************************************************************************)
Reject(id) == rejected' = rejected \cup ({id} \ {0})

ExecuteFails ==
    /\ pc = "executed" /\ ~txn.failed
    /\ world' = txn.before
    /\ Reject(txn.id)
    /\ IF txn.kind = "flow" THEN RollbackAndCancel(txn.dest) ELSE Rollback
    /\ IF txn.kind = "hook"
          THEN txn' = [txn EXCEPT !.failed = TRUE] /\ UNCHANGED pc
          ELSE txn' = Idle /\ pc' = "idle"
    /\ UNCHANGED <<stored, durable, attached, shutdown, shutdownFailed, lastTx,
                   acked, published, owed, doubt>>

(***************************************************************************)
(* Server::commit.                                                          *)
(***************************************************************************)
\* Mutant: the diff is taken against the transaction's own snapshot.
AppliedFromSnapshot ==
    [r \in Rows |-> IF world[r] # txn.before[r] THEN world[r] ELSE stored[r]]

\* write::apply_changes: only rows that differ from the baseline are written.
\* Without a baseline, and for maintenance, the baseline is what is stored.
Applied ==
    LET base == IF durable = NoBaseline \/ maintaining THEN stored ELSE durable
    IN [r \in Rows |-> IF world[r] # base[r] THEN world[r] ELSE stored[r]]

\* Mutant: a transaction that staged no effect is taken for unchanged.
UnchangedWithoutEffects == ~maintaining /\ ~saveRequested /\ txn.id \notin pending

\* A transaction that changed nothing never touches the database.
Unchanged == ~maintaining /\ ~saveRequested /\ world = txn.before

\* Server::finish_maintenance: only now are the destroyed players' sessions
\* closed and their flows dropped.
FinishMaintenance ==
    /\ attached' = attached \ detachments
    /\ flows' = Prune(flows, attached')
    /\ flowsDurable' = Prune(flowsDurable, attached')
    /\ maintaining' = FALSE /\ detachments' = {}

\* An interactive CommitReply answers without flushing (flush_for flushes for
\* queued work only), and so does a login.
Unflushed == txn.kind = "login" \/ (txn.kind = "commit_reply" /\ txn.dest # Background)

\* Server::commit returns true: the snapshot goes, and what is left of the
\* handler is whether its answer flushes.
Acknowledge ==
    /\ acked' = IF txn.failed THEN acked ELSE acked \cup {txn.id}
    /\ owed' = IF txn.kind = "login" THEN owed ELSE owed \cup (pending \cap {txn.id})
    /\ FinishMaintenance
    /\ pc' = "committed"
    /\ txn' = IF Unflushed THEN [Idle EXCEPT !.kind = txn.kind, !.dest = txn.dest] ELSE Idle
    /\ UNCHANGED <<world, pending, saveRequested, shutdown, shutdownFailed,
                   lastTx, rejected, published>>

CommitSkips ==
    /\ pc = "executed" /\ EffectsValid /\ Unchanged
    /\ Acknowledge
    /\ UNCHANGED <<stored, durable, doubt>>

CommitSaves ==
    /\ pc = "executed" /\ EffectsValid /\ ~Unchanged
    /\ stored' = Applied
    /\ durable' = IF maintaining THEN NoBaseline ELSE world
    /\ doubt' = FALSE
    /\ Acknowledge

\* Mutant: a failed write keeps the baseline.
KeepBaseline == UNCHANGED durable

\* After a failure, maintenance or a whole snapshot the baseline is unknown.
DropBaseline == durable' = NoBaseline

\* Validation, opening the database or the write itself fails.  SQLite may
\* report an error for a commit that its log nevertheless holds.
CommitFails(kept) ==
    /\ pc = "executed"
    /\ kept => EffectsValid /\ ~Unchanged
    /\ stored' = IF kept THEN Applied ELSE stored
    /\ doubt' = (doubt \/ kept)
    /\ DropBaseline
    /\ world' = txn.before
    /\ shutdownFailed' = (shutdownFailed \/ shutdown # "none")
    /\ IF kept THEN UNCHANGED rejected ELSE Reject(txn.id)
    /\ Rollback
    /\ pc' = "idle" /\ txn' = Idle
    /\ UNCHANGED <<attached, shutdown, lastTx, acked, published, owed>>

(***************************************************************************)
(* Server::flush publishes everything that is pending, and the candidate    *)
(* flows become the durable ones.                                           *)
(***************************************************************************)
\* Mutant: only the latest transaction's effects leave the batch.
DrainedLast == {t \in pending : \A u \in pending : u <= t}

\* The drain_ operations take the whole batch.
Drained == pending

Flush ==
    /\ pc = "committed" /\ ~Unflushed
    /\ published' = published \cup Drained
    /\ owed' = owed \ Drained
    /\ pending' = pending \ Drained /\ saveRequested' = FALSE
    /\ flowsDurable' = flows
    /\ pc' = "idle" /\ txn' = Idle
    /\ UNCHANGED <<world, stored, durable, maintaining, detachments, flows, attached,
                   shutdown, shutdownFailed, lastTx, acked, rejected, doubt>>

ReplyOnly ==
    /\ pc = "committed" /\ Unflushed
    /\ pc' = "idle" /\ txn' = Idle
    /\ UNCHANGED <<world, stored, durable, effectVars, attached, shutdown,
                   shutdownFailed, lastTx, historyVars>>

(***************************************************************************)
(* Server::request_shutdown and finish_shutdown.  Both save a whole         *)
(* snapshot against the stored world.                                       *)
(***************************************************************************)
SnapshotOutcome(ok, kept) ==
    /\ ok => kept
    /\ DropBaseline
    /\ stored' = IF kept THEN world ELSE stored
    /\ doubt' = IF ok THEN FALSE ELSE doubt \/ kept

RequestShutdown(origin, ok, kept) ==
    /\ pc = "idle" /\ shutdown = "none"
    /\ SnapshotOutcome(ok, kept)
    /\ IF ok \/ origin = "signal"
          THEN shutdown' = origin /\ shutdownFailed' = ~ok /\ Stop
          ELSE UNCHANGED <<shutdown, shutdownFailed, effectVars>>
    /\ UNCHANGED <<world, attached, pc, txn, lastTx, acked, rejected, published, owed>>

\* Mutant: the final save does not wait for the sessions.
FinishWithSessions(ok, kept) ==
    /\ pc = "idle" /\ shutdown # "none"
    /\ SnapshotOutcome(ok, kept)
    /\ shutdownFailed' = (shutdownFailed \/ ~ok)
    /\ pc' = "exited"
    /\ UNCHANGED <<world, effectVars, attached, txn, shutdown, lastTx, acked,
                   rejected, published, owed>>

\* The loop ends at once when a shutdown is accepted, so nothing is staged
\* between Effects::stop there and its repetition here.
FinishShutdown(ok, kept) ==
    /\ pc = "idle" /\ shutdown # "none" /\ attached = {}
    /\ SnapshotOutcome(ok, kept)
    /\ shutdownFailed' = (shutdownFailed \/ ~ok)
    /\ pc' = "exited"
    /\ UNCHANGED <<world, effectVars, attached, txn, shutdown, lastTx, acked,
                   rejected, published, owed>>

(***************************************************************************)
(* The process dies at any await point; memory is gone.  The next start     *)
(* loads the stored world.                                                  *)
(***************************************************************************)
Boot(next) ==
    /\ world' = stored
    /\ durable' = NoBaseline
    /\ Stop
    /\ attached' = {}
    /\ txn' = Idle /\ pc' = next
    /\ shutdown' = "none" /\ shutdownFailed' = FALSE
    /\ rejected' = IF pc = "executed" THEN rejected \cup ({txn.id} \ {0}) ELSE rejected
    /\ owed' = {} /\ doubt' = FALSE
    /\ UNCHANGED <<stored, lastTx, acked, published>>

Crash == pc \notin {"down", "exited"} /\ Boot("down")
Restart == pc \in {"down", "exited"} /\ Boot("idle")

(***************************************************************************)
(* Specification.  Nothing obliges a player or a callback to act, so only   *)
(* the steps of a handler that has begun and of the accepted shutdown are   *)
(* fair: the task that runs them is polled until it ends.                   *)
(***************************************************************************)
Commit == CommitSkips \/ CommitSaves \/ (\E kept \in BOOLEAN : CommitFails(kept))

Publish == Flush \/ ReplyOnly

Cleanup ==
    \/ shutdown # "none" /\ \E s \in Sessions : Disconnect(s)
    \/ \E ok, kept \in BOOLEAN : FinishShutdown(ok, kept)

Next ==
    \/ Command(Background, "continue")
    \/ \E s \in Sessions : \/ Command(s, "commit_reply") \/ FlowInput(s)
                          \/ Login(s) \/ Attach(s) \/ Disconnect(s)
    \/ Dbck
    \/ ExecuteFails
    \/ Commit
    \/ Publish
    \/ \E origin \in {"player", "signal"}, ok, kept \in BOOLEAN :
          RequestShutdown(origin, ok, kept)
    \/ \E ok, kept \in BOOLEAN : FinishShutdown(ok, kept)
    \/ Crash \/ Restart

Spec == Init /\ [][Next]_vars

FairSpec == Spec /\ WF_vars(Commit) /\ WF_vars(Publish) /\ WF_vars(Cleanup)

(***************************************************************************)
(* Properties.                                                              *)
(***************************************************************************)
\* The state of the model: worlds are rows of transaction numbers, the
\* baseline is absent or a world, flows belong to sessions.
TypeOK ==
    /\ world \in World /\ stored \in World
    /\ durable \in World \cup {NoBaseline}
    /\ pending \subseteq Nat
    /\ saveRequested \in BOOLEAN /\ maintaining \in BOOLEAN
    /\ detachments \subseteq Sessions
    /\ flows \in [Sessions -> Nat] /\ flowsDurable \in [Sessions -> Nat]
    /\ attached \subseteq Sessions
    /\ pc \in {"idle", "executed", "committed", "down", "exited"}
    /\ txn \in [id : Nat, kind : Kinds, dest : Sessions \cup {Background},
                before : World, plan : SUBSET Sessions, failed : BOOLEAN]
    /\ shutdown \in {"none", "player", "signal"} /\ shutdownFailed \in BOOLEAN
    /\ lastTx \in Nat
    /\ acked \subseteq Nat /\ rejected \subseteq Nat /\ published \subseteq Nat
    /\ owed \subseteq Nat /\ doubt \in BOOLEAN

\* The baseline that the next save diffs against is exactly what the database
\* holds; otherwise a changed row would be taken for an unchanged one.  Every
\* failure, maintenance run and shutdown save has to drop it.
BaselineIsStored == durable # NoBaseline => durable = stored

\* Between handlers nothing of the live world is unsaved, unless a failed
\* write left the stored rows in doubt: the shortcut for unchanged
\* transactions, the row diff and every rollback together never leave a
\* change in memory only.
WorldIsSaved == pc \in {"idle", "committed"} /\ ~doubt => world = stored

\* No row of a transaction that was rolled back survives in the live or in
\* the stored world, nor do its effects, candidate flows or durable flows.
RejectedLeavesNoTrace ==
    /\ \A r \in Rows : world[r] \notin rejected /\ stored[r] \notin rejected
    /\ \A s \in Sessions : flows[s] \notin rejected /\ flowsDurable[s] \notin rejected
    /\ pending \cap rejected = {}

\* Effects are published only for transactions whose commit succeeded
\* ("Durable world commits and ordered publication of runtime effects").
PublishedOnlyCommitted == published \subseteq acked

\* A session that is gone keeps no flow, in neither copy of the flow table:
\* a rollback would otherwise revive it for the next holder of the number.
FlowsBelongToSessions ==
    \A s \in Sessions : s \notin attached => flows[s] = 0 /\ flowsDurable[s] = 0

\* A session loses its player only by its own disconnect, by the end of the
\* process, or because the handler that just committed destroyed that player:
\* no rollback, reply without a flush or failed hook leaves a maintenance plan in
\* the batch, which a later handler's commit would carry out
\* (Effects::stage_maintenance merges plans, finish_maintenance drains them).
DetachedByOwnHandler ==
    [][\A s \in attached \ attached' :
        \/ pc = "idle" /\ txn'.kind = "hook" /\ txn'.dest = s
        \/ pc' = "down"
        \/ s \in txn.plan /\ txn.id \in acked']_vars

\* A shutdown that reports success left every session closed and the last
\* live world in the database.
CleanExitIsSaved ==
    pc = "exited" /\ ~shutdownFailed => world = stored /\ attached = {}

\* Effects of different transactions are published in commit order: a later
\* flush never publishes an earlier transaction than one already published.
PublishedInOrder ==
    [][\A t \in published' \ published : \A u \in published : u < t]_vars

\* An accepted shutdown ends the process, whatever the hooks and saves do.
ShutdownCompletes == shutdown # "none" ~> pc \in {"exited", "down"}

\* The world that the running handler began with, or the live one.
Snapshot == IF pc = "executed" THEN txn.before ELSE world

\* A handler that is still running has not happened yet.
Durable == INSTANCE DurableWorld WITH
    live <- Snapshot, disk <- stored, committed <- acked, out <- published

\* Server::commit and Server::flush implement atomic, durable transactions.
ImplementsDurableWorld == Durable!Spec

\* What a test says of the audit trail: "Semantic diagnostics survive
\* successful persistence and disappear on a rejected write."  Effects of a
\* committed transaction stay pending until they are published.
DiagnosticsSurvivePersistence == shutdown = "none" => owed \subseteq pending
=============================================================================
