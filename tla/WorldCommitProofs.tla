------------------------- MODULE WorldCommitProofs -------------------------
(***************************************************************************)
(* Proofs about the transaction boundary, for any rows, sessions and bounds. *)
(***************************************************************************)
EXTENDS WorldCommit, TLAPS

-----------------------------------------------------------------------------
(* Type correctness. *)

\* Pruning flows of sessions that are gone leaves a flow table.
LEMMA PruneType ==
    ASSUME NEW f \in [Sessions -> Nat], NEW keep
    PROVE Prune(f, keep) \in [Sessions -> Nat]
BY DEF Prune

\* Whatever a handler does to the flows leaves a flow table.
LEMMA FlowChoicesType ==
    ASSUME TypeOK, NEW kind, NEW dest, NEW id \in Nat, NEW sessions,
           NEW f \in FlowChoices(kind, dest, id, sessions)
    PROVE f \in [Sessions -> Nat]
<1>1. CASE kind = "flow"
  BY <1>1 DEF FlowChoices, TypeOK
<1>2. CASE kind = "hook"
  BY <1>2, PruneType DEF FlowChoices, TypeOK
<1>3. CASE kind \notin {"flow", "hook"}
  BY <1>3 DEF FlowChoices, TypeOK
<1> QED BY <1>1, <1>2, <1>3

\* The rows a save leaves in the database are a world.
LEMMA AppliedType == TypeOK => Applied \in World
BY DEF TypeOK, Applied, World

\* Nothing is running.
LEMMA IdleType ==
    Idle \in [id : Nat, kind : Kinds, dest : Sessions \cup {Background},
              before : World, plan : SUBSET Sessions, failed : BOOLEAN]
BY DEF Idle, Kinds, World

\* The initial state has its type.
LEMMA InitType == Init => TypeOK
<1> SUFFICES ASSUME Init PROVE TypeOK
  OBVIOUS
<1>1. world \in World /\ stored \in World /\ flows \in [Sessions -> Nat]
      /\ flowsDurable \in [Sessions -> Nat]
  BY DEF Init, World, NoFlow
<1>2. txn \in [id : Nat, kind : Kinds, dest : Sessions \cup {Background},
               before : World, plan : SUBSET Sessions, failed : BOOLEAN]
  BY IdleType DEF Init
<1>3. acked \subseteq Nat /\ lastTx \in Nat
  BY DEF Init
<1> QED BY <1>1, <1>2, <1>3, Zenon DEF Init, TypeOK

\* Handlers keep the type.
LEMMA ExecuteType ==
    ASSUME TypeOK, NEW kind \in Kinds, NEW dest \in Sessions \cup {Background},
           NEW sessions \in SUBSET Sessions, Execute(kind, dest, sessions)
    PROVE TypeOK'
<1>1. PICK writes \in SUBSET Rows, stages \in BOOLEAN, saves \in BOOLEAN,
           maintains \in BOOLEAN, detach \in SUBSET sessions :
         /\ saveRequested' = (saveRequested \/ saves)
         /\ maintaining' = (maintaining \/ maintains)
         /\ Effect(IdOf(kind, writes, stages), kind, dest, sessions, writes, stages, detach)
         /\ durable' \in {durable, NoBaseline}
         /\ UNCHANGED <<stored, shutdown, shutdownFailed>>
         /\ UNCHANGED historyVars
  BY DEF Execute
<1> DEFINE id == IdOf(kind, writes, stages)
<1>i. id \in Nat
  BY DEF IdOf, TypeOK
<1>e. Effect(id, kind, dest, sessions, writes, stages, detach)
  BY <1>1
<1> HIDE DEF id
<1>2. flows' \in [Sessions -> Nat]
  BY <1>e, <1>i, FlowChoicesType DEF Effect
<1>3. flowsDurable' \in [Sessions -> Nat]
  BY <1>e, PruneType DEF Effect, TypeOK
<1>4. /\ world' \in World
      /\ txn' \in [id : Nat, kind : Kinds, dest : Sessions \cup {Background},
                   before : World, plan : SUBSET Sessions, failed : BOOLEAN]
  BY <1>e, <1>i DEF Effect, TypeOK, World
<1>5. /\ pending' \subseteq Nat /\ detachments' \subseteq Sessions /\ lastTx' \in Nat
      /\ attached' \subseteq Sessions /\ pc' = "executed"
  BY <1>e, <1>i DEF Effect, TypeOK
<1>6. saveRequested' \in BOOLEAN /\ maintaining' \in BOOLEAN
  BY <1>1, Zenon DEF TypeOK
<1> QED BY <1>1, <1>2, <1>3, <1>4, <1>5, <1>6 DEF TypeOK, historyVars

\* The effect batch after Rollback, RollbackAndCancel or Stop has its type.
EffectsTypeOK ==
    /\ pending \subseteq Nat
    /\ saveRequested \in BOOLEAN /\ maintaining \in BOOLEAN
    /\ detachments \subseteq Sessions
    /\ flows \in [Sessions -> Nat] /\ flowsDurable \in [Sessions -> Nat]

\* Every way to discard the batch keeps its type.
LEMMA RollbackType ==
    ASSUME TypeOK
    PROVE /\ Rollback => EffectsTypeOK'
          /\ Stop => EffectsTypeOK'
          /\ \A s : RollbackAndCancel(s) => EffectsTypeOK'
<1>1. Rollback => EffectsTypeOK'
  BY DEF TypeOK, EffectsTypeOK, Rollback
<1>2. Stop => EffectsTypeOK'
  <2>1. NoFlow \in [Sessions -> Nat]
    BY DEF NoFlow
  <2> QED BY <2>1 DEF EffectsTypeOK, Stop
<1>3. ASSUME NEW s, RollbackAndCancel(s) PROVE EffectsTypeOK'
  <2>1. flows' \in [Sessions -> Nat]
    BY <1>3 DEF RollbackAndCancel, TypeOK
  <2> QED BY <1>3, <2>1 DEF EffectsTypeOK, RollbackAndCancel
<1> QED BY <1>1, <1>2, <1>3

\* Every step of the server keeps the type.
LEMMA NextType == TypeOK /\ [Next]_vars => TypeOK'
<1> SUFFICES ASSUME TypeOK, [Next]_vars PROVE TypeOK'
  OBVIOUS
<1> USE BoundsAssumption
<1>1. ASSUME NEW dest \in Sessions \cup {Background},
             NEW kind \in {"continue", "commit_reply"}, Command(dest, kind)
      PROVE TypeOK'
  <2>1. Execute(kind, dest, attached) /\ kind \in Kinds /\ attached \in SUBSET Sessions
    BY <1>1 DEF Command, Kinds, TypeOK
  <2> QED BY <2>1, ExecuteType
<1>d. CASE Dbck
  BY <1>d, ExecuteType DEF Dbck, Kinds, TypeOK
<1>2. ASSUME NEW s \in Sessions, FlowInput(s) \/ Login(s) \/ Attach(s) \/ Disconnect(s) PROVE TypeOK'
  <2>1. \/ Execute("flow", s, attached) \/ Execute("login", s, attached)
        \/ Execute("hook", s, attached \cup {s}) \/ Execute("hook", s, attached \ {s})
    BY <1>2 DEF FlowInput, Login, Attach, Disconnect
  <2> QED BY <2>1, ExecuteType DEF Kinds, TypeOK
<1>3. CASE ExecuteFails
  <2>1. EffectsTypeOK'
    BY <1>3, RollbackType DEF ExecuteFails
  <2>2. /\ txn' \in [id : Nat, kind : Kinds, dest : Sessions \cup {Background},
                     before : World, plan : SUBSET Sessions, failed : BOOLEAN]
        /\ pc' \in {"idle", "executed"}
    <3>1. CASE txn.kind = "hook"
      <4>1. txn' = [txn EXCEPT !.failed = TRUE] /\ pc' = pc /\ pc = "executed"
        BY <1>3, <3>1 DEF ExecuteFails
      <4> QED BY <4>1 DEF TypeOK
    <3>2. CASE txn.kind # "hook"
      BY <1>3, <3>2, IdleType DEF ExecuteFails
    <3> QED BY <3>1, <3>2
  <2> QED BY <1>3, <2>1, <2>2 DEF ExecuteFails, TypeOK, EffectsTypeOK, Reject
<1>4. ASSUME Acknowledge, stored' \in World, durable' \in World \cup {NoBaseline},
             doubt' \in BOOLEAN
      PROVE TypeOK'
  <2>1. /\ flows' \in [Sessions -> Nat] /\ flowsDurable' \in [Sessions -> Nat]
        /\ attached' \subseteq Sessions /\ maintaining' = FALSE /\ detachments' = {}
    BY <1>4, PruneType DEF Acknowledge, FinishMaintenance, TypeOK
  <2>2. acked' \subseteq Nat /\ owed' \subseteq Nat
    BY <1>4 DEF Acknowledge, TypeOK
  <2>3. txn' \in [id : Nat, kind : Kinds, dest : Sessions \cup {Background},
                  before : World, plan : SUBSET Sessions, failed : BOOLEAN]
    BY <1>4, IdleType DEF Acknowledge, TypeOK
  <2> QED BY <1>4, <2>1, <2>2, <2>3 DEF Acknowledge, TypeOK
<1>5. CASE CommitSkips
  BY <1>4, <1>5 DEF CommitSkips, TypeOK
<1>6. CASE CommitSaves
  BY <1>4, <1>6, AppliedType DEF CommitSaves, TypeOK
<1>7. ASSUME NEW kept \in BOOLEAN, CommitFails(kept) PROVE TypeOK'
  <2>1. EffectsTypeOK'
    BY <1>7, RollbackType DEF CommitFails
  <2>2. stored' \in World /\ world' \in World /\ txn' = Idle /\ pc' = "idle"
    BY <1>7, AppliedType DEF CommitFails, TypeOK
  <2>4. doubt' \in BOOLEAN /\ shutdownFailed' \in BOOLEAN
    BY <1>7, Zenon DEF CommitFails, TypeOK
  <2>5. rejected' \subseteq Nat
    BY <1>7 DEF CommitFails, Reject, TypeOK
  <2> QED BY <1>7, <2>1, <2>2, <2>4, <2>5, IdleType
          DEF CommitFails, DropBaseline, TypeOK, EffectsTypeOK
<1>8. CASE Flush
  <2>1. published' \subseteq Nat /\ owed' \subseteq Nat /\ pending' \subseteq Nat
    BY <1>8 DEF Flush, Drained, TypeOK
  <2> QED BY <1>8, <2>1, IdleType DEF Flush, TypeOK
<1>9. CASE ReplyOnly
  BY <1>9, IdleType DEF ReplyOnly, TypeOK, effectVars, historyVars
<1>10. ASSUME NEW ok \in BOOLEAN, NEW kept \in BOOLEAN, SnapshotOutcome(ok, kept)
       PROVE stored' \in World /\ durable' = NoBaseline /\ doubt' \in BOOLEAN
  <2>1. doubt' \in BOOLEAN
    BY <1>10, Zenon DEF SnapshotOutcome, TypeOK
  <2> QED BY <1>10, <2>1 DEF SnapshotOutcome, DropBaseline, TypeOK
<1>11. ASSUME NEW origin \in {"player", "signal"}, NEW ok \in BOOLEAN, NEW kept \in BOOLEAN,
              RequestShutdown(origin, ok, kept)
       PROVE TypeOK'
  <2>1. stored' \in World /\ durable' = NoBaseline /\ doubt' \in BOOLEAN
    BY <1>10, <1>11 DEF RequestShutdown
  <2>2. EffectsTypeOK'
    <3>1. CASE Stop
      BY <3>1, RollbackType
    <3>2. CASE UNCHANGED effectVars
      BY <3>2 DEF TypeOK, EffectsTypeOK, effectVars
    <3> QED BY <1>11, <3>1, <3>2 DEF RequestShutdown
  <2>3. shutdown' \in {"none", "player", "signal"} /\ shutdownFailed' \in BOOLEAN
    BY <1>11, Zenon DEF RequestShutdown, TypeOK
  <2> QED BY <1>11, <2>1, <2>2, <2>3 DEF RequestShutdown, TypeOK, EffectsTypeOK
<1>12. ASSUME NEW ok \in BOOLEAN, NEW kept \in BOOLEAN, FinishShutdown(ok, kept) PROVE TypeOK'
  <2>1. stored' \in World /\ durable' = NoBaseline /\ doubt' \in BOOLEAN
    BY <1>10, <1>12 DEF FinishShutdown
  <2>2. shutdownFailed' \in BOOLEAN
    BY <1>12, Zenon DEF FinishShutdown, TypeOK
  <2> QED BY <1>12, <2>1, <2>2 DEF FinishShutdown, TypeOK, effectVars
<1>13. ASSUME NEW next \in {"idle", "down"}, Boot(next) PROVE TypeOK'
  <2>1. EffectsTypeOK'
    BY <1>13, RollbackType DEF Boot
  <2>2. rejected' \subseteq Nat
    BY <1>13 DEF Boot, TypeOK
  <2> QED BY <1>13, <2>1, <2>2, IdleType DEF Boot, TypeOK, EffectsTypeOK
<1>14. CASE UNCHANGED vars
  BY <1>14 DEF vars, effectVars, historyVars, TypeOK
<1> QED
  BY <1>1, <1>d, <1>2, <1>3, <1>5, <1>6, <1>7, <1>8, <1>9, <1>11, <1>12, <1>13, <1>14
     DEF Next, Commit, Publish, Crash, Restart

\* The model keeps its type: the server's world, baseline, batch and running
\* handler are always well-formed, for any rows, sessions and bounds.
THEOREM TypeCorrect == Spec => []TypeOK
BY InitType, NextType, PTL DEF Spec

-----------------------------------------------------------------------------
(***************************************************************************)
(* The inductive invariant.                                                 *)
(***************************************************************************)
\* The transaction whose effects are staged but not yet acknowledged.
Running == IF pc = "executed" /\ ~txn.failed THEN {txn.id} ELSE {}

\* The database holds what the next diff and the next handler start from.
SavedInv ==
    /\ BaselineIsStored
    /\ ~doubt => Snapshot = stored

\* Where effects come from, and in which order.
OutputInv ==
    /\ pending \subseteq acked \cup Running
    /\ PublishedOnlyCommitted
    /\ \A t \in pending, u \in published : u < t

\* Transaction numbers that have been used.
NumberInv ==
    /\ lastTx <= MaxTx
    /\ acked \subseteq 0 .. lastTx /\ rejected \subseteq 1 .. lastTx
    /\ acked \cap rejected = {}
    /\ \A r \in Rows : stored[r] <= lastTx /\ world[r] <= lastTx
    /\ \A s \in Sessions : flows[s] <= lastTx /\ flowsDurable[s] <= lastTx

\* What the running handler has done so far.
HandlerInv ==
    pc = "executed" =>
        /\ txn.id <= lastTx
        /\ \A r \in Rows : /\ world[r] \in {txn.before[r], txn.id}
                          /\ txn.before[r] <= lastTx /\ txn.before[r] \notin rejected
        /\ txn.failed => /\ world = txn.before /\ pending = {}
                        /\ txn.id \in rejected \cup {0}
        /\ ~txn.failed /\ txn.id # 0 =>
              /\ txn.id \notin acked \cup rejected
              /\ \A r \in Rows : stored[r] # txn.id /\ txn.before[r] # txn.id
              /\ \A s \in Sessions : flowsDurable[s] # txn.id

IInv == TypeOK /\ SavedInv /\ OutputInv /\ NumberInv /\ HandlerInv /\ RejectedLeavesNoTrace

\* The server starts with nothing staged, rejected or in doubt.
LEMMA InitInv == Init => IInv
<1> SUFFICES ASSUME Init PROVE IInv
  OBVIOUS
<1>1. TypeOK
  BY InitType
<1>2. SavedInv /\ OutputInv /\ HandlerInv
  BY DEF Init, SavedInv, BaselineIsStored, Snapshot, OutputInv, PublishedOnlyCommitted,
         HandlerInv
<1>3. NumberInv /\ RejectedLeavesNoTrace
  BY BoundsAssumption DEF Init, NumberInv, RejectedLeavesNoTrace, NoFlow
<1> QED BY <1>1, <1>2, <1>3 DEF IInv

\* A diff against a baseline that is stored writes the whole candidate world.
LEMMA AppliedIsWorld == TypeOK /\ BaselineIsStored => Applied = world
BY BaselineAssumption DEF TypeOK, BaselineIsStored, Applied, World

\* A flow slot after pruning is what it was, or empty.
LEMMA PruneValue ==
    ASSUME NEW f, NEW keep, NEW s \in Sessions PROVE Prune(f, keep)[s] \in {f[s], 0}
BY DEF Prune

\* A flow slot after a handler is what it was, empty, or the handler's own.
LEMMA FlowChoicesValue ==
    ASSUME TypeOK, NEW kind, NEW dest, NEW id \in Nat, NEW sessions,
           NEW f \in FlowChoices(kind, dest, id, sessions), NEW s \in Sessions
    PROVE f[s] \in {flows[s], id, 0}
<1>1. CASE kind = "flow"
  BY <1>1 DEF FlowChoices, TypeOK
<1>2. CASE kind = "hook"
  BY <1>2, PruneValue DEF FlowChoices
<1>3. CASE kind \notin {"flow", "hook"}
  BY <1>3 DEF FlowChoices, TypeOK
<1> QED BY <1>1, <1>2, <1>3

\* A handler that begins between transactions keeps the invariant.
LEMMA ExecuteInv ==
    ASSUME IInv, pc = "idle", NEW kind \in Kinds, NEW dest, NEW sessions,
           Execute(kind, dest, sessions), TypeOK'
    PROVE IInv'
<1>1. PICK writes \in SUBSET Rows, stages \in BOOLEAN, saves \in BOOLEAN,
           maintains \in BOOLEAN, detach \in SUBSET sessions :
         /\ Empty(kind, writes, stages) \/ lastTx < MaxTx
         /\ Effect(IdOf(kind, writes, stages), kind, dest, sessions, writes, stages, detach)
         /\ durable' \in {durable, NoBaseline}
         /\ UNCHANGED <<stored, shutdown, shutdownFailed>>
         /\ UNCHANGED historyVars
  BY DEF Execute
<1> DEFINE id == IdOf(kind, writes, stages)
<1>i. /\ id \in Nat /\ lastTx' \in Nat
      /\ \/ id = 0 /\ writes = {} /\ stages = FALSE /\ lastTx' = lastTx
         \/ id = lastTx + 1 /\ lastTx' = id /\ lastTx < MaxTx
  BY <1>1 DEF IdOf, Empty, Effect, IInv, TypeOK
<1>e. Effect(id, kind, dest, sessions, writes, stages, detach)
  BY <1>1
<1> HIDE DEF id
<1>t. TypeOK /\ lastTx \in Nat /\ MaxTx \in Nat
  BY BoundsAssumption DEF IInv, TypeOK
<1>2. /\ pc' = "executed" /\ txn'.before = world /\ txn'.id = id /\ txn'.failed = FALSE
      /\ \A r \in Rows : world'[r] = IF r \in writes THEN id ELSE world[r]
      /\ pending' = IF stages THEN pending \cup {id} ELSE pending
      /\ durable' \in {durable, NoBaseline}
      /\ UNCHANGED <<stored, acked, rejected, published, doubt>>
  <2>1. durable' \in {durable, NoBaseline} /\ UNCHANGED <<stored, acked, rejected, published, doubt>>
    BY <1>1 DEF historyVars
  <2>2. txn' = [id |-> id, kind |-> kind, dest |-> dest, before |-> world, plan |-> detach,
                failed |-> FALSE]
    BY <1>e DEF Effect
  <2>3. pc' = "executed" /\ pending' = IF stages THEN pending \cup {id} ELSE pending
    BY <1>e DEF Effect
  <2>4. \A r \in Rows : world'[r] = IF r \in writes THEN id ELSE world[r]
    BY <1>e DEF Effect
  <2> QED BY <2>1, <2>2, <2>3, <2>4
<1>3. \A s \in Sessions : /\ flows'[s] \in {flows[s], id, 0}
                          /\ flowsDurable'[s] \in {flowsDurable[s], 0}
  BY <1>e, <1>i, <1>t, FlowChoicesValue, PruneValue DEF Effect
<1>4. SavedInv'
  BY <1>2 DEF IInv, SavedInv, BaselineIsStored, Snapshot
<1>5. OutputInv'
  <2>1. pending \subseteq acked /\ published \subseteq acked /\ acked \subseteq 0 .. lastTx
    BY DEF IInv, OutputInv, Running, PublishedOnlyCommitted, NumberInv
  <2>2. pending' \subseteq acked' \cup Running'
    BY <1>2, <2>1 DEF Running
  <2>3. ASSUME NEW t \in pending', NEW u \in published' PROVE u < t
    <3>1. u \in published /\ u \in 0 .. lastTx
      BY <1>2, <2>1
    <3>2. CASE t \in pending
      BY <3>1, <3>2 DEF IInv, OutputInv
    <3>3. CASE t \notin pending
      <4>1. stages /\ t = id
        BY <1>2, <3>3
      <4> QED BY <1>i, <1>t, <3>1, <4>1
    <3> QED BY <3>2, <3>3
  <2> QED BY <1>2, <2>1, <2>2, <2>3 DEF OutputInv, PublishedOnlyCommitted
<1>6. NumberInv'
  <2>1. lastTx' <= MaxTx /\ acked' \subseteq 0 .. lastTx' /\ rejected' \subseteq 1 .. lastTx'
        /\ acked' \cap rejected' = {}
    BY <1>2, <1>i, <1>t DEF IInv, NumberInv
  <2>2. \A r \in Rows : stored'[r] <= lastTx' /\ world'[r] <= lastTx'
    BY <1>2, <1>i, <1>t DEF IInv, NumberInv, TypeOK, World
  <2>3. \A s \in Sessions : flows'[s] <= lastTx' /\ flowsDurable'[s] <= lastTx'
    BY <1>3, <1>i, <1>t DEF IInv, NumberInv, TypeOK
  <2> QED BY <2>1, <2>2, <2>3 DEF NumberInv
<1>7. id \notin rejected /\ 0 \notin rejected /\ (id # 0 => id \notin acked)
  BY <1>i, <1>t DEF IInv, NumberInv
<1>8. HandlerInv'
  <2>1. \A r \in Rows : /\ world'[r] \in {world[r], id}
                         /\ world[r] <= lastTx' /\ world[r] \notin rejected'
    BY <1>2, <1>i, <1>t DEF IInv, NumberInv, RejectedLeavesNoTrace, TypeOK, World
  <2>2. id # 0 => \A r \in Rows : stored'[r] # id /\ world[r] # id
    BY <1>2, <1>i, <1>t DEF IInv, NumberInv, TypeOK, World
  <2>3. id # 0 => \A s \in Sessions : flowsDurable'[s] # id
    BY <1>3, <1>i, <1>t DEF IInv, NumberInv, TypeOK
  <2>4. id <= lastTx'
    BY <1>i, <1>t
  <2> QED BY <1>2, <1>7, <2>1, <2>2, <2>3, <2>4 DEF HandlerInv
<1>9. RejectedLeavesNoTrace'
  BY <1>2, <1>3, <1>7 DEF IInv, RejectedLeavesNoTrace
<1> QED BY <1>4, <1>5, <1>6, <1>8, <1>9 DEF IInv

\* A batch that is rolled back or stopped, with its flows.
Discarded ==
    /\ pending' = {}
    /\ \A s \in Sessions : /\ flows'[s] \in {flowsDurable[s], 0}
                           /\ flowsDurable'[s] \in {flowsDurable[s], 0}

\* Rollback, Stop and RollbackAndCancel discard the batch.
LEMMA RollbackDiscards ==
    ASSUME TypeOK
    PROVE /\ Rollback => Discarded
          /\ Stop => Discarded
          /\ \A s : RollbackAndCancel(s) => Discarded
<1>1. Rollback => Discarded
  BY DEF Rollback, Discarded
<1>2. Stop => Discarded
  BY DEF Stop, Discarded, NoFlow
<1>3. ASSUME NEW s, RollbackAndCancel(s) PROVE Discarded
  BY <1>3 DEF RollbackAndCancel, Discarded, TypeOK
<1> QED BY <1>1, <1>2, <1>3

\* The running transaction may be counted among the rejected ones as soon as
\* nothing but the stored rows and the durable flows is left of it.
LEMMA RejectInv ==
    ASSUME IInv, TypeOK', Discarded,
           pc = "executed", lastTx' = lastTx,
           UNCHANGED <<acked, published>>,
           rejected' = rejected \cup ({txn.id} \ {0}),
           \A r \in Rows : world'[r] \in {stored[r], txn.before[r]},
           UNCHANGED stored
    PROVE OutputInv' /\ NumberInv' /\ RejectedLeavesNoTrace'
<1>t. TypeOK /\ lastTx \in Nat /\ txn.id \in Nat
  BY DEF IInv, TypeOK
<1>1. OutputInv'
  BY DEF IInv, OutputInv, PublishedOnlyCommitted, Discarded
<1>2. txn.id # 0 => txn.id \notin acked /\ txn.id \in 1 .. lastTx
  <2>1. CASE txn.failed
    BY <1>t, <2>1 DEF IInv, HandlerInv, NumberInv
  <2>2. CASE ~txn.failed
    BY <1>t, <2>2 DEF IInv, HandlerInv
  <2> QED BY <2>1, <2>2
<1>3. \A r \in Rows : /\ stored[r] <= lastTx /\ stored[r] \notin rejected'
                       /\ txn.before[r] <= lastTx /\ txn.before[r] \notin rejected'
  <2>1. CASE txn.failed
    BY <1>t, <2>1 DEF IInv, HandlerInv, NumberInv, RejectedLeavesNoTrace
  <2>2. CASE ~txn.failed
    BY <1>t, <2>2 DEF IInv, HandlerInv, NumberInv, RejectedLeavesNoTrace
  <2> QED BY <2>1, <2>2
<1>4. \A s \in Sessions : flowsDurable[s] <= lastTx /\ flowsDurable[s] \notin rejected'
  <2>1. CASE txn.failed
    BY <1>t, <2>1 DEF IInv, HandlerInv, NumberInv, RejectedLeavesNoTrace
  <2>2. CASE ~txn.failed
    BY <1>t, <2>2 DEF IInv, HandlerInv, NumberInv, RejectedLeavesNoTrace
  <2> QED BY <2>1, <2>2
<1>5. NumberInv'
  <2>1. rejected' \subseteq 1 .. lastTx' /\ acked' \cap rejected' = {}
        /\ lastTx' <= MaxTx /\ acked' \subseteq 0 .. lastTx'
    BY <1>2, <1>t DEF IInv, NumberInv
  <2>2. \A r \in Rows : stored'[r] <= lastTx' /\ world'[r] <= lastTx'
    BY <1>3
  <2>3. \A s \in Sessions : flows'[s] <= lastTx' /\ flowsDurable'[s] <= lastTx'
    BY <1>4, <1>t DEF Discarded
  <2> QED BY <2>1, <2>2, <2>3 DEF NumberInv
<1>6. RejectedLeavesNoTrace'
  <2>1. 0 \notin rejected'
    BY DEF IInv, NumberInv
  <2> QED BY <1>3, <1>4, <2>1 DEF RejectedLeavesNoTrace, Discarded
<1> QED BY <1>1, <1>5, <1>6

\* A handler that fails leaves its snapshot and an empty batch.
LEMMA ExecuteFailsInv == ASSUME IInv, ExecuteFails, TypeOK' PROVE IInv'
<1>1. Discarded
  BY RollbackDiscards DEF IInv, ExecuteFails
<1>2. OutputInv' /\ NumberInv' /\ RejectedLeavesNoTrace'
  BY <1>1, RejectInv DEF ExecuteFails, Reject, IInv
<1>3. txn.kind = "hook" => /\ pc' = "executed" /\ txn'.before = txn.before
                           /\ txn'.failed = TRUE /\ txn'.id = txn.id
  BY DEF ExecuteFails, IInv, TypeOK
<1>4. txn.kind # "hook" => pc' = "idle"
  BY DEF ExecuteFails
<1>5. world' = txn.before /\ UNCHANGED <<stored, durable, doubt, lastTx>> /\ pc = "executed"
  BY DEF ExecuteFails
<1>6. SavedInv'
  BY <1>3, <1>4, <1>5 DEF IInv, SavedInv, BaselineIsStored, Snapshot
<1>7. HandlerInv'
  <2>1. txn'.failed => txn.id \in rejected' \cup {0}
    BY DEF ExecuteFails, Reject
  <2>2. \A r \in Rows : txn.before[r] <= lastTx' /\ txn.before[r] \notin rejected'
    BY <1>2, <1>5 DEF NumberInv, RejectedLeavesNoTrace
  <2>3. txn.id <= lastTx'
    BY <1>5 DEF IInv, HandlerInv
  <2> QED BY <1>1, <1>3, <1>4, <1>5, <2>1, <2>2, <2>3 DEF HandlerInv, Discarded
<1> QED BY <1>2, <1>6, <1>7 DEF IInv

\* A commit that succeeds: the stored rows are the live world's, or they were
\* left alone because the handler changed nothing.
LEMMA CommitInv == ASSUME IInv, CommitSkips \/ CommitSaves, TypeOK' PROVE IInv'
<1>t. TypeOK /\ lastTx \in Nat /\ txn.id \in Nat
  BY DEF IInv, TypeOK
<1>1. /\ pc = "executed" /\ pc' = "committed"
      /\ UNCHANGED <<world, pending, rejected, published, lastTx>>
      /\ acked' = IF txn.failed THEN acked ELSE acked \cup {txn.id}
  BY DEF CommitSkips, CommitSaves, Acknowledge
<1>2. \A s \in Sessions : /\ flows'[s] \in {flows[s], 0}
                          /\ flowsDurable'[s] \in {flowsDurable[s], 0}
  BY PruneValue DEF CommitSkips, CommitSaves, Acknowledge, FinishMaintenance
<1>3. SavedInv' /\ (stored' = stored \/ stored' = world)
  <2>1. CASE CommitSkips
    BY <1>1, <2>1 DEF CommitSkips, Unchanged, IInv, SavedInv, BaselineIsStored, Snapshot
  <2>2. CASE CommitSaves
    <3>1. stored' = world
      BY <2>2, AppliedIsWorld DEF CommitSaves, IInv, SavedInv
    <3> QED BY <1>1, <2>2, <3>1 DEF CommitSaves, SavedInv, BaselineIsStored, Snapshot
  <2> QED BY <2>1, <2>2
<1>4. OutputInv'
  <2>1. pending \subseteq acked'
    <3>1. CASE txn.failed
      BY <1>1, <3>1 DEF IInv, OutputInv, Running
    <3>2. CASE ~txn.failed
      BY <1>1, <3>2 DEF IInv, OutputInv, Running
    <3> QED BY <3>1, <3>2
  <2> QED BY <1>1, <2>1 DEF IInv, OutputInv, PublishedOnlyCommitted, Running
<1>5. NumberInv'
  <2>1. acked' \subseteq 0 .. lastTx' /\ acked' \cap rejected' = {}
    <3>1. CASE txn.failed
      BY <1>1, <3>1 DEF IInv, NumberInv
    <3>2. CASE ~txn.failed
      <4>1. txn.id \in 0 .. lastTx /\ txn.id \notin rejected
        BY <1>1, <1>t, <3>2 DEF IInv, NumberInv, HandlerInv
      <4> QED BY <1>1, <3>2, <4>1 DEF IInv, NumberInv
    <3> QED BY <3>1, <3>2
  <2>2. \A r \in Rows : stored'[r] <= lastTx' /\ world'[r] <= lastTx'
    BY <1>1, <1>3 DEF IInv, NumberInv
  <2>3. \A s \in Sessions : flows'[s] <= lastTx' /\ flowsDurable'[s] <= lastTx'
    BY <1>1, <1>2, <1>t DEF IInv, NumberInv
  <2> QED BY <1>1, <2>1, <2>2, <2>3 DEF IInv, NumberInv
<1>6. HandlerInv'
  BY <1>1 DEF HandlerInv
<1>7. RejectedLeavesNoTrace'
  <2>1. 0 \notin rejected
    BY DEF IInv, NumberInv
  <2> QED BY <1>1, <1>2, <1>3, <2>1 DEF IInv, RejectedLeavesNoTrace
<1> QED BY <1>3, <1>4, <1>5, <1>6, <1>7 DEF IInv

\* A commit that fails restores the snapshot, whatever the database kept.
LEMMA CommitFailsInv ==
    ASSUME IInv, NEW kept \in BOOLEAN, CommitFails(kept), TypeOK' PROVE IInv'
<1>t. TypeOK /\ lastTx \in Nat /\ txn.id \in Nat
  BY DEF IInv, TypeOK
<1>1. /\ pc = "executed" /\ pc' = "idle" /\ world' = txn.before /\ durable' = NoBaseline
      /\ UNCHANGED <<acked, published, lastTx>>
  BY DEF CommitFails, DropBaseline
<1>2. Discarded
  BY <1>t, RollbackDiscards DEF CommitFails
<1>3. SavedInv'
  BY <1>1 DEF CommitFails, IInv, SavedInv, BaselineIsStored, Snapshot
<1>4. HandlerInv'
  BY <1>1 DEF HandlerInv
<1>5. CASE ~kept
  <2>1. UNCHANGED stored /\ rejected' = rejected \cup ({txn.id} \ {0})
    BY <1>5 DEF CommitFails, Reject
  <2>2. OutputInv' /\ NumberInv' /\ RejectedLeavesNoTrace'
    BY <1>1, <1>2, <2>1, RejectInv
  <2> QED BY <1>3, <1>4, <2>2 DEF IInv
<1>6. CASE kept
  <2>1. stored' = world /\ rejected' = rejected
    BY <1>6, AppliedIsWorld DEF CommitFails, IInv, SavedInv
  <2>2. OutputInv'
    BY <1>1, <1>2 DEF IInv, OutputInv, PublishedOnlyCommitted, Discarded
  <2>3. \A r \in Rows : world'[r] <= lastTx /\ world'[r] \notin rejected
    BY <1>1 DEF IInv, HandlerInv
  <2>4. 0 \notin rejected
    BY DEF IInv, NumberInv
  <2>5. NumberInv'
    BY <1>1, <1>2, <1>t, <2>1, <2>3 DEF IInv, NumberInv, Discarded
  <2>6. RejectedLeavesNoTrace'
    BY <1>1, <1>2, <2>1, <2>3, <2>4 DEF IInv, RejectedLeavesNoTrace, Discarded
  <2> QED BY <1>3, <1>4, <2>2, <2>5, <2>6 DEF IInv
<1> QED BY <1>5, <1>6

\* Publication empties the batch; a reply alone leaves it.
LEMMA PublishInv == ASSUME IInv, Flush \/ ReplyOnly, TypeOK' PROVE IInv'
<1>1. /\ pc = "committed" /\ pc' = "idle"
      /\ UNCHANGED <<world, stored, durable, flows, lastTx, acked, rejected, doubt>>
      /\ flowsDurable' \in {flows, flowsDurable}
      /\ \/ pending' = {} /\ published' = published \cup pending
         \/ UNCHANGED <<pending, published>>
  BY DEF Flush, ReplyOnly, Drained, effectVars, historyVars
<1>2. SavedInv' /\ HandlerInv'
  BY <1>1 DEF IInv, SavedInv, BaselineIsStored, Snapshot, HandlerInv
<1>3. OutputInv'
  BY <1>1 DEF IInv, OutputInv, Running, PublishedOnlyCommitted
<1>4. NumberInv'
  BY <1>1 DEF IInv, NumberInv
<1>5. RejectedLeavesNoTrace'
  BY <1>1 DEF IInv, RejectedLeavesNoTrace
<1> QED BY <1>2, <1>3, <1>4, <1>5 DEF IInv

\* Shutdown saves the live world outside any transaction.
LEMMA ShutdownInv ==
    ASSUME IInv, TypeOK', NEW ok \in BOOLEAN, NEW kept \in BOOLEAN,
           \/ \E origin \in {"player", "signal"} : RequestShutdown(origin, ok, kept)
           \/ FinishShutdown(ok, kept)
    PROVE IInv'
<1>t. TypeOK /\ lastTx \in Nat
  BY DEF IInv, TypeOK
<1>1. /\ pc = "idle" /\ pc' \in {"idle", "exited"} /\ durable' = NoBaseline
      /\ stored' \in {stored, world}
      /\ UNCHANGED <<world, lastTx, acked, rejected, published>>
  BY DEF RequestShutdown, FinishShutdown, SnapshotOutcome, DropBaseline
<1>d. ~doubt' => stored' = world \/ (~doubt /\ stored' = stored)
  BY Zenon DEF RequestShutdown, FinishShutdown, SnapshotOutcome
<1>2. Discarded \/ UNCHANGED effectVars
  BY <1>t, RollbackDiscards DEF RequestShutdown, FinishShutdown
<1>3. SavedInv' /\ HandlerInv'
  <2>1. ~doubt => world = stored
    BY <1>1 DEF IInv, SavedInv, Snapshot
  <2>2. ~doubt' => world' = stored'
    BY <1>1, <1>d, <2>1
  <2> QED BY <1>1, <2>2 DEF SavedInv, BaselineIsStored, Snapshot, HandlerInv
<1>4. OutputInv'
  BY <1>1, <1>2 DEF IInv, OutputInv, Running, PublishedOnlyCommitted, Discarded, effectVars
<1>5. NumberInv'
  BY <1>1, <1>2, <1>t DEF IInv, NumberInv, Discarded, effectVars
<1>6. RejectedLeavesNoTrace'
  <2>1. 0 \notin rejected
    BY DEF IInv, NumberInv
  <2> QED BY <1>1, <1>2, <2>1 DEF IInv, RejectedLeavesNoTrace, Discarded, effectVars
<1> QED BY <1>3, <1>4, <1>5, <1>6 DEF IInv

\* A start loads what is stored and remembers nothing else.
LEMMA BootInv ==
    ASSUME IInv, TypeOK', NEW next \in {"idle", "down"}, Boot(next) PROVE IInv'
<1>t. TypeOK /\ lastTx \in Nat
  BY DEF IInv, TypeOK
<1>1. /\ pc' # "executed" /\ world' = stored /\ durable' = NoBaseline
      /\ UNCHANGED <<stored, lastTx, acked, published>>
  BY DEF Boot
<1>2. Discarded
  BY <1>t, RollbackDiscards DEF Boot
<1>3. SavedInv' /\ HandlerInv'
  BY <1>1 DEF SavedInv, BaselineIsStored, Snapshot, HandlerInv
<1>4. CASE pc = "executed"
  <2>1. OutputInv' /\ NumberInv' /\ RejectedLeavesNoTrace'
    BY <1>1, <1>2, <1>4, RejectInv DEF Boot
  <2> QED BY <1>3, <2>1 DEF IInv
<1>5. CASE pc # "executed"
  <2>1. rejected' = rejected /\ 0 \notin rejected
    BY <1>5 DEF Boot, IInv, NumberInv
  <2>2. OutputInv'
    BY <1>1, <1>2 DEF IInv, OutputInv, PublishedOnlyCommitted, Discarded
  <2>3. NumberInv'
    BY <1>1, <1>2, <1>t, <2>1 DEF IInv, NumberInv, Discarded
  <2>4. RejectedLeavesNoTrace'
    BY <1>1, <1>2, <2>1 DEF IInv, RejectedLeavesNoTrace, Discarded
  <2> QED BY <1>3, <2>2, <2>3, <2>4 DEF IInv
<1> QED BY <1>4, <1>5

\* Every step of the server keeps the invariant.
LEMMA NextInv == IInv /\ [Next]_vars => IInv'
<1> SUFFICES ASSUME IInv, [Next]_vars PROVE IInv'
  OBVIOUS
<1>t. TypeOK'
  BY NextType DEF IInv
<1>1. ASSUME NEW dest \in Sessions \cup {Background},
             NEW kind \in {"continue", "commit_reply"}, Command(dest, kind)
      PROVE IInv'
  BY <1>1, <1>t, ExecuteInv DEF Command, Kinds
<1>d. CASE Dbck
  BY <1>d, <1>t, ExecuteInv DEF Dbck, Kinds
<1>2. ASSUME NEW s \in Sessions, FlowInput(s) \/ Login(s) \/ Attach(s) \/ Disconnect(s) PROVE IInv'
  <2>1. pc = "idle" /\ \E kind \in Kinds : \E sessions : Execute(kind, s, sessions)
    BY <1>2 DEF FlowInput, Login, Attach, Disconnect, Kinds
  <2> QED BY <1>t, <2>1, ExecuteInv
<1>3. CASE ExecuteFails
  BY <1>3, <1>t, ExecuteFailsInv
<1>4. CASE CommitSkips \/ CommitSaves
  BY <1>4, <1>t, CommitInv
<1>5. ASSUME NEW kept \in BOOLEAN, CommitFails(kept) PROVE IInv'
  BY <1>5, <1>t, CommitFailsInv
<1>6. CASE Publish
  BY <1>6, <1>t, PublishInv DEF Publish
<1>7. ASSUME NEW origin \in {"player", "signal"}, NEW ok \in BOOLEAN, NEW kept \in BOOLEAN,
             RequestShutdown(origin, ok, kept) \/ FinishShutdown(ok, kept)
      PROVE IInv'
  BY <1>7, <1>t, ShutdownInv
<1>8. CASE Crash \/ Restart
  BY <1>8, <1>t, BootInv DEF Crash, Restart
<1>9. CASE UNCHANGED vars
  <2>1. SavedInv' /\ OutputInv' /\ NumberInv'
    BY <1>9 DEF vars, effectVars, historyVars, IInv, SavedInv, BaselineIsStored, Snapshot,
                OutputInv, Running, PublishedOnlyCommitted, NumberInv
  <2>2. HandlerInv' /\ RejectedLeavesNoTrace'
    BY <1>9 DEF vars, effectVars, historyVars, IInv, HandlerInv, RejectedLeavesNoTrace
  <2> QED BY <1>t, <2>1, <2>2 DEF IInv
<1> QED BY <1>1, <1>d, <1>2, <1>3, <1>4, <1>5, <1>6, <1>7, <1>8, <1>9 DEF Next, Commit

\* The inductive invariant holds in every reachable state.
LEMMA Invariance == Spec => []IInv
BY InitInv, NextInv, PTL DEF Spec

-----------------------------------------------------------------------------
(* The safety properties. *)

\* The baseline of the next save is what the database holds: Server::commit,
\* request_shutdown and finish_shutdown drop it wherever it may be wrong.
THEOREM BaselineCorrect == Spec => []BaselineIsStored
<1>1. IInv => BaselineIsStored
  BY DEF IInv, SavedInv
<1> QED BY <1>1, Invariance, PTL

\* Between handlers the live world is saved: the shortcut for unchanged
\* transactions and the row diff of Server::commit lose no change.
THEOREM WorldSaved == Spec => []WorldIsSaved
<1>1. IInv => WorldIsSaved
  BY DEF IInv, SavedInv, WorldIsSaved, Snapshot
<1> QED BY <1>1, Invariance, PTL

\* A transaction that was rolled back is nowhere: not in a row, not in a flow,
\* not in the batch.
THEOREM RollbackComplete == Spec => []RejectedLeavesNoTrace
<1>1. IInv => RejectedLeavesNoTrace
  BY DEF IInv
<1> QED BY <1>1, Invariance, PTL

\* Server::flush publishes effects of committed transactions only.
THEOREM OutputCommitted == Spec => []PublishedOnlyCommitted
<1>1. IInv => PublishedOnlyCommitted
  BY DEF IInv, OutputInv
<1> QED BY <1>1, Invariance, PTL

\* Only a flush publishes, and it publishes what is pending.
LEMMA PublishedStep ==
    ASSUME TypeOK, [Next]_vars PROVE published' \ published \subseteq pending
<1>1. ASSUME NEW kind, NEW dest, NEW sessions, Execute(kind, dest, sessions)
      PROVE published' = published
  BY <1>1 DEF Execute, historyVars
<1>2. ASSUME NEW dest, NEW kind, Command(dest, kind) PROVE published' = published
  BY <1>1, <1>2 DEF Command
<1>d. Dbck => published' = published
  BY <1>1 DEF Dbck
<1>3. ASSUME NEW s, FlowInput(s) \/ Login(s) \/ Attach(s) \/ Disconnect(s) PROVE published' = published
  BY <1>1, <1>3 DEF FlowInput, Login, Attach, Disconnect
<1>4. ExecuteFails \/ CommitSkips \/ CommitSaves \/ ReplyOnly => published' = published
  BY DEF ExecuteFails, CommitSkips, CommitSaves, Acknowledge, ReplyOnly, historyVars
<1>5. ASSUME NEW kept, CommitFails(kept) PROVE published' = published
  BY <1>5 DEF CommitFails
<1>6. Flush => published' = published \cup pending
  BY DEF Flush, Drained
<1>7. ASSUME NEW origin, NEW ok, NEW kept,
             RequestShutdown(origin, ok, kept) \/ FinishShutdown(ok, kept)
      PROVE published' = published
  BY <1>7 DEF RequestShutdown, FinishShutdown
<1>8. Crash \/ Restart \/ UNCHANGED vars => published' = published
  BY DEF Crash, Restart, Boot, vars, historyVars
<1> QED BY <1>2, <1>d, <1>3, <1>4, <1>5, <1>6, <1>7, <1>8 DEF Next, Commit, Publish

\* Effects are published in the order of their transactions.
THEOREM OutputOrdered == Spec => PublishedInOrder
<1>1. IInv /\ [Next]_vars =>
        [\A t \in published' \ published : \A u \in published : u < t]_vars
  BY PublishedStep DEF IInv, OutputInv
<1> QED BY <1>1, Invariance, PTL DEF Spec, PublishedInOrder

-----------------------------------------------------------------------------
(* Sessions, flows and the end of the process. *)

\* A handler gives flows to sessions of its own snapshot only.
LEMMA ExecuteFlows ==
    ASSUME TypeOK, FlowsBelongToSessions, NEW kind \in Kinds, NEW dest, NEW sessions,
           kind # "hook" => sessions = attached,
           kind = "flow" => dest \in attached,
           Execute(kind, dest, sessions)
    PROVE FlowsBelongToSessions'
<1>1. PICK writes \in SUBSET Rows, stages \in BOOLEAN, saves \in BOOLEAN,
           maintains \in BOOLEAN, detach \in SUBSET sessions :
         Effect(IdOf(kind, writes, stages), kind, dest, sessions, writes, stages, detach)
  BY DEF Execute
<1> DEFINE id == IdOf(kind, writes, stages)
<1>2. /\ flows' \in FlowChoices(kind, dest, id, sessions) /\ attached' = sessions
      /\ flowsDurable' = IF kind = "hook" THEN Prune(flowsDurable, sessions) ELSE flowsDurable
  BY <1>1 DEF Effect
<1> HIDE DEF id
<1>3. CASE kind = "hook"
  BY <1>2, <1>3 DEF FlowChoices, Prune, FlowsBelongToSessions
<1>4. CASE kind = "flow"
  BY <1>2, <1>4 DEF FlowChoices, FlowsBelongToSessions, TypeOK
<1>5. CASE kind \in {"continue", "commit_reply", "login", "dbck"}
  BY <1>2, <1>5 DEF FlowChoices, FlowsBelongToSessions, TypeOK
<1> QED BY <1>3, <1>4, <1>5 DEF Kinds

\* Every step keeps flows and sessions together.
LEMMA NextFlows == TypeOK /\ FlowsBelongToSessions /\ [Next]_vars => FlowsBelongToSessions'
<1> SUFFICES ASSUME TypeOK, FlowsBelongToSessions, [Next]_vars PROVE FlowsBelongToSessions'
  OBVIOUS
<1>1. ASSUME NEW dest \in Sessions \cup {Background},
             NEW kind \in {"continue", "commit_reply"}, Command(dest, kind)
      PROVE FlowsBelongToSessions'
  BY <1>1, ExecuteFlows DEF Command, Kinds
<1>d. CASE Dbck
  BY <1>d, ExecuteFlows DEF Dbck, Kinds
<1>2. ASSUME NEW s \in Sessions, FlowInput(s) \/ Login(s) \/ Attach(s) \/ Disconnect(s)
      PROVE FlowsBelongToSessions'
  <2>1. CASE FlowInput(s) \/ Login(s)
    BY <2>1, ExecuteFlows DEF FlowInput, Login, Kinds
  <2>2. CASE Attach(s) \/ Disconnect(s)
    BY <2>2, ExecuteFlows DEF Attach, Disconnect, Kinds
  <2> QED BY <1>2, <2>1, <2>2
<1>3. ASSUME Discarded, attached' = attached PROVE FlowsBelongToSessions'
  BY <1>3 DEF Discarded, FlowsBelongToSessions
<1>4. CASE ExecuteFails \/ \E kept \in BOOLEAN : CommitFails(kept)
  BY <1>3, <1>4, RollbackDiscards DEF ExecuteFails, CommitFails
<1>5. CASE CommitSkips \/ CommitSaves
  BY <1>5 DEF CommitSkips, CommitSaves, Acknowledge, FinishMaintenance, Prune,
              FlowsBelongToSessions
<1>6. CASE Publish
  BY <1>6 DEF Publish, Flush, ReplyOnly, effectVars, FlowsBelongToSessions
<1>7. ASSUME NEW origin, NEW ok, NEW kept, RequestShutdown(origin, ok, kept)
      PROVE FlowsBelongToSessions'
  <2>1. Discarded \/ UNCHANGED effectVars
    BY <1>7, RollbackDiscards DEF RequestShutdown
  <2> QED BY <1>3, <1>7, <2>1 DEF RequestShutdown, effectVars, FlowsBelongToSessions
<1>8. ASSUME NEW ok, NEW kept, FinishShutdown(ok, kept) PROVE FlowsBelongToSessions'
  BY <1>8 DEF FinishShutdown, effectVars, FlowsBelongToSessions
<1>9. CASE Crash \/ Restart
  BY <1>9 DEF Crash, Restart, Boot, Stop, NoFlow, FlowsBelongToSessions
<1>10. CASE UNCHANGED vars
  BY <1>10 DEF vars, effectVars, FlowsBelongToSessions
<1> QED BY <1>1, <1>d, <1>2, <1>4, <1>5, <1>6, <1>7, <1>8, <1>9, <1>10 DEF Next, Commit

\* A session that is gone keeps no flow, candidate or durable: Effects::sessions,
\* rollback, cancel and stop together never leave or revive one.
THEOREM FlowsFollowSessions == Spec => []FlowsBelongToSessions
<1>1. Init => FlowsBelongToSessions
  BY DEF Init, NoFlow, FlowsBelongToSessions
<1> QED BY <1>1, NextFlows, TypeCorrect, PTL DEF Spec

\* A process that ends without reporting unsaved changes has closed every
\* session and stored its last world (finish_shutdown).
THEOREM CleanExit == Spec => []CleanExitIsSaved
<1>1. Init => CleanExitIsSaved
  BY DEF Init, CleanExitIsSaved
<1>2. CleanExitIsSaved /\ [Next]_vars => CleanExitIsSaved'
  <2> SUFFICES ASSUME CleanExitIsSaved, [Next]_vars, pc' = "exited"
               PROVE ~shutdownFailed' => world' = stored' /\ attached' = {}
    BY DEF CleanExitIsSaved
  <2>1. ASSUME NEW kind, NEW dest, NEW sessions PROVE ~Execute(kind, dest, sessions)
    BY DEF Execute, Effect
  <2>2. \/ \E ok, kept \in BOOLEAN : FinishShutdown(ok, kept)
        \/ UNCHANGED <<pc, world, stored, attached, shutdownFailed>>
    <3>1. /\ ~Dbck /\ \A dest, kind : ~Command(dest, kind)
          /\ \A s : ~(FlowInput(s) \/ Login(s) \/ Attach(s) \/ Disconnect(s))
      BY <2>1 DEF Dbck, Command, FlowInput, Login, Attach, Disconnect
    <3>2. ~(CommitSkips \/ CommitSaves \/ Flush \/ ReplyOnly \/ Crash \/ Restart)
      BY DEF CommitSkips, CommitSaves, Acknowledge, Flush, ReplyOnly, Crash, Restart, Boot
    <3>3. ~ExecuteFails /\ \A kept : ~CommitFails(kept)
      BY DEF ExecuteFails, CommitFails
    <3>4. ~\E origin, ok, kept : RequestShutdown(origin, ok, kept)
      BY DEF RequestShutdown
    <3> QED BY <3>1, <3>2, <3>3, <3>4 DEF Next, Commit, Publish, vars
  <2>3. ASSUME NEW ok \in BOOLEAN, NEW kept \in BOOLEAN, FinishShutdown(ok, kept)
        PROVE ~shutdownFailed' => world' = stored' /\ attached' = {}
    BY <2>3 DEF FinishShutdown, SnapshotOutcome
  <2> QED BY <2>2, <2>3 DEF CleanExitIsSaved
<1> QED BY <1>1, <1>2, PTL DEF Spec

\* A staged maintenance plan is the running handler's own, and a process that
\* has ended has no sessions.
PlanInv ==
    /\ detachments \subseteq IF pc = "executed" /\ ~txn.failed THEN txn.plan ELSE {}
    /\ pc \in {"down", "exited"} => attached = {}

\* The body of DetachedByOwnHandler.
OwnDetachment ==
    \A s \in attached \ attached' :
        \/ pc = "idle" /\ txn'.kind = "hook" /\ txn'.dest = s
        \/ pc' = "down"
        \/ s \in txn.plan /\ txn.id \in acked'

\* A handler stages its own plan; only a disconnect takes its session away.
LEMMA ExecutePlan ==
    ASSUME PlanInv, pc = "idle", NEW kind, NEW dest, NEW sessions,
           \/ attached \subseteq sessions
           \/ kind = "hook" /\ sessions = attached \ {dest},
           Execute(kind, dest, sessions)
    PROVE PlanInv' /\ OwnDetachment
<1>1. PICK id, writes, stages, detach : Effect(id, kind, dest, sessions, writes, stages, detach)
  BY DEF Execute
<1>2. txn' = [id |-> id, kind |-> kind, dest |-> dest, before |-> world, plan |-> detach,
              failed |-> FALSE]
  BY <1>1 DEF Effect
<1>3. /\ txn'.plan = detach /\ ~txn'.failed /\ txn'.kind = kind /\ txn'.dest = dest
      /\ pc' = "executed" /\ attached' = sessions /\ detachments' = detachments \cup detach
  BY <1>1, <1>2 DEF Effect
<1> QED BY <1>3 DEF PlanInv, OwnDetachment

\* Every step keeps plans with their handlers, and detaches nobody else.
LEMMA NextPlan == TypeOK /\ PlanInv /\ [Next]_vars => PlanInv' /\ OwnDetachment
<1> SUFFICES ASSUME TypeOK, PlanInv, [Next]_vars PROVE PlanInv' /\ OwnDetachment
  OBVIOUS
<1>1. ASSUME NEW dest, NEW kind, Command(dest, kind) PROVE PlanInv' /\ OwnDetachment
  BY <1>1, ExecutePlan DEF Command
<1>2. CASE Dbck
  BY <1>2, ExecutePlan DEF Dbck
<1>3. ASSUME NEW s, FlowInput(s) \/ Login(s) \/ Attach(s) PROVE PlanInv' /\ OwnDetachment
  <2>1. CASE FlowInput(s) \/ Login(s)
    BY <2>1, ExecutePlan DEF FlowInput, Login
  <2>2. CASE Attach(s)
    BY <2>2, ExecutePlan DEF Attach
  <2> QED BY <1>3, <2>1, <2>2
<1>4. ASSUME NEW s, Disconnect(s) PROVE PlanInv' /\ OwnDetachment
  BY <1>4, ExecutePlan DEF Disconnect
<1>5. ASSUME detachments' = {}, attached' = attached, pc' \notin {"down", "exited"}
      PROVE PlanInv' /\ OwnDetachment
  BY <1>5 DEF PlanInv, OwnDetachment
<1>6. CASE ExecuteFails \/ \E kept \in BOOLEAN : CommitFails(kept)
  BY <1>5, <1>6 DEF ExecuteFails, CommitFails, Rollback, RollbackAndCancel
<1>7. CASE CommitSkips \/ CommitSaves
  <2>1. /\ pc = "executed" /\ pc' = "committed" /\ detachments' = {}
        /\ attached' = attached \ detachments
        /\ acked' = IF txn.failed THEN acked ELSE acked \cup {txn.id}
    BY <1>7 DEF CommitSkips, CommitSaves, Acknowledge, FinishMaintenance
  <2> QED BY <2>1 DEF PlanInv, OwnDetachment
<1>8. CASE Publish
  <2>1. detachments = {}
    BY <1>8 DEF Publish, Flush, ReplyOnly, PlanInv
  <2> QED BY <1>5, <1>8, <2>1 DEF Publish, Flush, ReplyOnly, effectVars
<1>9. ASSUME NEW origin, NEW ok, NEW kept, RequestShutdown(origin, ok, kept)
      PROVE PlanInv' /\ OwnDetachment
  <2>1. detachments = {} /\ pc' = "idle" /\ attached' = attached
    BY <1>9 DEF RequestShutdown, PlanInv
  <2>2. detachments' = {}
    BY <1>9, <2>1 DEF RequestShutdown, Stop, effectVars
  <2> QED BY <1>5, <2>1, <2>2
<1>10. ASSUME NEW ok, NEW kept, FinishShutdown(ok, kept) PROVE PlanInv' /\ OwnDetachment
  BY <1>10 DEF FinishShutdown, effectVars, PlanInv, OwnDetachment
<1>11. CASE Crash \/ Restart
  BY <1>11 DEF Crash, Restart, Boot, Stop, PlanInv, OwnDetachment
<1>12. CASE UNCHANGED vars
  BY <1>12 DEF vars, effectVars, PlanInv, OwnDetachment
<1> QED BY <1>1, <1>2, <1>3, <1>4, <1>6, <1>7, <1>8, <1>9, <1>10, <1>11, <1>12 DEF Next, Commit

\* finish_maintenance closes only the sessions of players whom the handler that
\* just committed destroyed: no plan of a failed or earlier handler is left over
\* for it to carry out (Effects::rollback, stage_maintenance).
THEOREM OwnDetachments == Spec => DetachedByOwnHandler
<1>1. Init => PlanInv
  BY DEF Init, PlanInv
<1>2. TypeOK /\ PlanInv /\ [Next]_vars => PlanInv' /\ [OwnDetachment]_vars
  BY NextPlan
<1>3. Spec => [][OwnDetachment]_vars
  BY <1>1, <1>2, TypeCorrect, PTL DEF Spec
<1> QED BY <1>3 DEF DetachedByOwnHandler, OwnDetachment

-----------------------------------------------------------------------------
(* Implementation of the abstract specification. *)

\* Beginning a handler, or failing inside it, is invisible.
LEMMA HandlerStutters ==
    ASSUME IInv,
           \/ pc = "idle" /\ \E kind, dest, sessions : Execute(kind, dest, sessions)
           \/ ExecuteFails
    PROVE UNCHANGED Durable!vars
<1>1. CASE ExecuteFails
  <2>1. Snapshot' = Snapshot
    <3>1. CASE txn.kind = "hook"
      BY <1>1, <3>1 DEF ExecuteFails, Snapshot, IInv, TypeOK
    <3>2. CASE txn.kind # "hook"
      BY <1>1, <3>2 DEF ExecuteFails, Snapshot
    <3> QED BY <3>1, <3>2
  <2> QED BY <1>1, <2>1 DEF ExecuteFails, Durable!vars
<1>2. ASSUME NEW kind, NEW dest, NEW sessions, pc = "idle", Execute(kind, dest, sessions)
      PROVE UNCHANGED Durable!vars
  BY <1>2 DEF Execute, Effect, historyVars, Snapshot, Durable!vars
<1> QED BY <1>1, <1>2

\* The candidate world is the snapshot with some rows written by the handler.
LEMMA CandidateWritten ==
    ASSUME IInv, pc = "executed"
    PROVE \E S \in SUBSET Rows : world = Durable!Written(Snapshot, S, txn.id)
<1> DEFINE S == {r \in Rows : world[r] # txn.before[r]}
<1>1. world = Durable!Written(Snapshot, S, txn.id)
  BY DEF Durable!Written, Snapshot, IInv, HandlerInv, TypeOK, World
<1> QED BY <1>1

\* A successful commit is one atomic step, or nothing at all.
LEMMA CommitImplements ==
    ASSUME IInv, CommitSkips \/ CommitSaves
    PROVE [Durable!Next]_(Durable!vars)
<1>1. /\ pc = "executed" /\ Snapshot = txn.before /\ Snapshot' = world
      /\ UNCHANGED published
      /\ acked' = IF txn.failed THEN acked ELSE acked \cup {txn.id}
  BY DEF CommitSkips, CommitSaves, Acknowledge, Snapshot
<1>2. txn.id \in Durable!Transactions
  BY <1>1, BoundsAssumption DEF IInv, TypeOK, HandlerInv, NumberInv, Durable!Transactions
<1>3. CASE CommitSkips
  <2>1. UNCHANGED <<stored, Snapshot>>
    BY <1>1, <1>3 DEF CommitSkips, Unchanged
  <2>2. CASE txn.failed
    BY <1>1, <2>1, <2>2 DEF Durable!vars
  <2>3. CASE ~txn.failed
    BY <1>1, <1>2, <2>1, <2>3 DEF Durable!Next, Durable!CommitNothing
  <2> QED BY <2>2, <2>3
<1>4. CASE CommitSaves
  <2>1. stored' = world
    BY <1>4, AppliedIsWorld DEF CommitSaves, IInv, SavedInv
  <2>2. CASE txn.failed
    <3>1. world = txn.before
      BY <1>1, <2>2 DEF IInv, HandlerInv
    <3> QED BY <1>1, <2>1, <2>2, <3>1 DEF Durable!Next, Durable!SaveSnapshot
  <2>3. CASE ~txn.failed
    <3>1. PICK S \in SUBSET Rows : world = Durable!Written(Snapshot, S, txn.id)
      BY <1>1, CandidateWritten
    <3>2. Durable!CommitWorld(S, txn.id)
      BY <1>1, <2>1, <2>3, <3>1 DEF Durable!CommitWorld
    <3> QED BY <1>2, <3>2 DEF Durable!Next
  <2> QED BY <2>2, <2>3
<1> QED BY <1>3, <1>4

\* A failed commit is nothing, or leaves the whole candidate in the database.
LEMMA CommitFailsImplements ==
    ASSUME IInv, NEW kept \in BOOLEAN, CommitFails(kept)
    PROVE [Durable!Next]_(Durable!vars)
<1>1. /\ pc = "executed" /\ Snapshot' = Snapshot /\ UNCHANGED <<published, acked>>
      /\ stored' = IF kept THEN Applied ELSE stored
  BY DEF CommitFails, Snapshot
<1>2. CASE kept
  <2>1. stored' = world
    BY <1>1, <1>2, AppliedIsWorld DEF IInv, SavedInv
  <2>2. PICK S \in SUBSET Rows : world = Durable!Written(Snapshot, S, txn.id)
    BY <1>1, CandidateWritten
  <2>3. txn.id \in Durable!Transactions
    BY <1>1, BoundsAssumption DEF IInv, TypeOK, HandlerInv, NumberInv, Durable!Transactions
  <2>4. Durable!FailInDoubt(S, txn.id)
    BY <1>1, <2>1, <2>2 DEF Durable!FailInDoubt
  <2> QED BY <2>3, <2>4 DEF Durable!Next
<1>3. CASE ~kept
  BY <1>1, <1>3 DEF Durable!vars
<1> QED BY <1>2, <1>3

\* Every step of the server is a step of the abstract specification.
LEMMA StepImplements == IInv /\ [Next]_vars => [Durable!Next]_(Durable!vars)
<1> SUFFICES ASSUME IInv, [Next]_vars PROVE [Durable!Next]_(Durable!vars)
  OBVIOUS
<1>1. ASSUME NEW dest, NEW kind, Command(dest, kind) PROVE [Durable!Next]_(Durable!vars)
  BY <1>1, HandlerStutters DEF Command
<1>d. CASE Dbck
  BY <1>d, HandlerStutters DEF Dbck
<1>2. ASSUME NEW s, FlowInput(s) \/ Login(s) \/ Attach(s) \/ Disconnect(s)
      PROVE [Durable!Next]_(Durable!vars)
  BY <1>2, HandlerStutters DEF FlowInput, Login, Attach, Disconnect
<1>3. CASE ExecuteFails
  BY <1>3, HandlerStutters
<1>4. CASE CommitSkips \/ CommitSaves
  BY <1>4, CommitImplements
<1>5. ASSUME NEW kept \in BOOLEAN, CommitFails(kept) PROVE [Durable!Next]_(Durable!vars)
  BY <1>5, CommitFailsImplements
<1>6. CASE Flush
  <2>1. pending \subseteq acked
    BY <1>6 DEF Flush, IInv, OutputInv, Running
  <2>2. Snapshot' = Snapshot /\ UNCHANGED <<stored, acked>> /\ published' = published \cup pending
    BY <1>6 DEF Flush, Drained, Snapshot
  <2>3. Durable!PublishCommitted
    BY <2>1, <2>2 DEF Durable!PublishCommitted, IInv, OutputInv, PublishedOnlyCommitted
  <2> QED BY <2>3 DEF Durable!Next
<1>7. CASE ReplyOnly
  BY <1>7 DEF ReplyOnly, Snapshot, historyVars, Durable!vars
<1>8. ASSUME NEW origin, NEW ok \in BOOLEAN, NEW kept \in BOOLEAN,
             RequestShutdown(origin, ok, kept) \/ FinishShutdown(ok, kept)
      PROVE [Durable!Next]_(Durable!vars)
  <2>1. /\ Snapshot = world /\ Snapshot' = world /\ UNCHANGED <<acked, published>>
        /\ stored' \in {stored, world}
    BY <1>8 DEF RequestShutdown, FinishShutdown, SnapshotOutcome, Snapshot
  <2> QED BY <2>1 DEF Durable!Next, Durable!SaveSnapshot, Durable!vars
<1>9. CASE Crash \/ Restart
  <2>1. Snapshot' = stored /\ UNCHANGED <<stored, acked, published>>
    BY <1>9 DEF Crash, Restart, Boot, Snapshot
  <2> QED BY <2>1 DEF Durable!Next, Durable!Recover
<1>10. CASE UNCHANGED vars
  BY <1>10 DEF vars, historyVars, Snapshot, Durable!vars
<1> QED BY <1>1, <1>d, <1>2, <1>3, <1>4, <1>5, <1>6, <1>7, <1>8, <1>9, <1>10
        DEF Next, Commit, Publish

\* The transaction boundary implements atomic durable transactions, for any
\* rows, sessions and bounds, through every rollback, failed write and crash.
THEOREM Refinement == Spec => ImplementsDurableWorld
<1>1. Init => Durable!Init
  BY DEF Init, Durable!Init, Snapshot
<1> QED BY <1>1, StepImplements, Invariance, PTL DEF Spec, ImplementsDurableWorld, Durable!Spec
=============================================================================
