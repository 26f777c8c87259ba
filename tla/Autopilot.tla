------------------------------ MODULE Autopilot ------------------------------
(***************************************************************************)
(* The autopilot controller of one BattleTech unit                          *)
(* (btech/autopilot/mod.rs): a queue of orders that scripts manage through   *)
(* Lua (lua/packages/btech/autopilot_contract.rs, btech/tactical.rs), the    *)
(* heartbeat executes (btech/autopilot/runtime.rs) and a player's own        *)
(* control pauses.  A director plans from a snapshot of the controller and   *)
(* submits with the revision it saw; it follows the orders by a cursor in a  *)
(* feedback history that keeps only its last records.                        *)
(*                                                                           *)
(* An order is its identity.  Navigation, combat and the transient route     *)
(* plan are reduced to the outcome of a heartbeat: go on, succeed or fail.   *)
(***************************************************************************)
EXTENDS Naturals, Sequences, FiniteSets

CONSTANTS
    MaxQueued,       \* MAX_QUEUED_ORDERS
    MaxFeedback,     \* MAX_FEEDBACK
    NoSnapshot,      \* the director has not observed the unit
    MaxOrders,       \* orders submitted to one controller
    MaxRevision,     \* management changes of one controller
    MaxAttachments   \* controllers attached to the unit, one after the other

ASSUME AutopilotAssumption ==
    /\ {MaxQueued, MaxFeedback} \subseteq Nat \ {0}
    /\ {MaxOrders, MaxRevision, MaxAttachments} \subseteq Nat
    /\ NoSnapshot \notin [revision : Nat, pending : SUBSET Nat, attachment : Nat]

VARIABLES
    attached,    \* whether BtechState::controllers holds the unit
    attachment,  \* how many controllers it has had
    controller,  \* AutopilotController
    director     \* what the director last observed

vars == <<attached, attachment, controller, director>>

States == {"Paused", "Idle", "Executing", "Blocked"}
Final == {"OrderSucceeded", "OrderCanceled"}

NoOrder == [id |-> 0, state |-> "None"]
Running(id) == [id |-> id, state |-> "Running"]

\* AutopilotController::new.  `blocked` says that there is a blocking reason;
\* `ended` is a history of the records that ended an order.
New ==
    [state |-> "Paused", blocked |-> FALSE, revision |-> 0, nextId |-> 1,
     active |-> NoOrder, queue |-> <<>>, feedback |-> <<>>, nextSequence |-> 1,
     ended |-> {}]

ActiveIds(c) == IF c.active = NoOrder THEN {} ELSE {c.active.id}
QueuedIds(c) == {c.queue[i] : i \in DOMAIN c.queue}
Pending(c) == ActiveIds(c) \cup QueuedIds(c)
order_count(c) == Len(c.queue) + Cardinality(ActiveIds(c))

-----------------------------------------------------------------------------
(* Operations of the controller, each from a controller to the next one.    *)

\* record_feedback for each of a sequence of orders; 0 stands for none.  The
\* history drops its oldest records.
record_feedback(c, ids, event) ==
    LET new  == [i \in 1 .. Len(ids) |->
                    [sequence |-> c.nextSequence + i - 1, order |-> ids[i], event |-> event]]
        all  == c.feedback \o new
        drop == IF Len(all) > MaxFeedback THEN Len(all) - MaxFeedback ELSE 0
    IN  [c EXCEPT !.feedback = SubSeq(all, drop + 1, Len(all)),
                  !.nextSequence = @ + Len(ids),
                  !.ended = @ \cup {new[i] : i \in {j \in DOMAIN new : event \in Final}}]

bump_revision(c) == [c EXCEPT !.revision = @ + 1]

\* ensure_revision, for a caller that gives an expected revision.
ensure_revision(c, expected) == expected = c.revision

\* configure with a patch that changes something.
configure(c) == record_feedback(bump_revision(c), <<0>>, "Configured")

\* The state after a submission; only a replacement leaves the queue empty.
SubmittedState(c, queue, mode) ==
    IF c.state = "Paused" THEN "Paused"
    ELSE IF queue = <<>> THEN "Idle"
    ELSE IF c.state = "Blocked" /\ mode = "Append" THEN "Blocked"
    ELSE "Executing"

\* Mutant: only a replacement changes the revision.
submitUnversioned(c, n, mode) ==
    LET ids      == [i \in 1 .. n |-> c.nextId + i - 1]
        old      == (IF c.active = NoOrder THEN <<>> ELSE <<c.active.id>>) \o c.queue
        queue    == (IF mode = "Replace" THEN <<>> ELSE c.queue) \o ids
        cleared  == IF mode = "Replace"
                    THEN bump_revision(record_feedback(
                            [c EXCEPT !.active = NoOrder, !.blocked = FALSE], old, "OrderCanceled"))
                    ELSE c
        accepted == [cleared EXCEPT !.queue = queue, !.nextId = @ + n,
                                    !.state = SubmittedState(c, queue, mode)]
    IN  record_feedback(accepted, ids, "OrderQueued")

\* submit: a batch of n valid orders, appended or in place of all others.
submit(c, n, mode) ==
    LET ids      == [i \in 1 .. n |-> c.nextId + i - 1]
        old      == (IF c.active = NoOrder THEN <<>> ELSE <<c.active.id>>) \o c.queue
        queue    == (IF mode = "Replace" THEN <<>> ELSE c.queue) \o ids
        cleared  == IF mode = "Replace"
                    THEN record_feedback([c EXCEPT !.active = NoOrder, !.blocked = FALSE],
                                         old, "OrderCanceled")
                    ELSE c
        accepted == [cleared EXCEPT !.queue = queue, !.nextId = @ + n,
                                    !.state = SubmittedState(c, queue, mode)]
    IN  record_feedback(bump_revision(accepted), ids, "OrderQueued")

CanSubmit(c, n, mode) ==
    /\ mode = "Append" => n > 0
    /\ n + (IF mode = "Append" THEN order_count(c) ELSE 0) <= MaxQueued

\* The controller without one of its orders, active or queued.
without(c, id) ==
    LET i == CHOOSE i \in DOMAIN c.queue : c.queue[i] = id
    IN  IF id \in ActiveIds(c) THEN [c EXCEPT !.active = NoOrder]
        ELSE [c EXCEPT !.queue = SubSeq(@, 1, i - 1) \o SubSeq(@, i + 1, Len(@))]

\* Mutant: the state is left alone.
cancelKeepsState(c, id) ==
    bump_revision(record_feedback(without(c, id), <<id>>, "OrderCanceled"))

\* cancel one active or queued order.
cancel(c, id) ==
    LET next == bump_revision(record_feedback(without(c, id), <<id>>, "OrderCanceled"))
    IN  IF next.active # NoOrder THEN next
        ELSE [next EXCEPT
                !.blocked = FALSE,
                !.state = IF @ = "Paused" THEN @
                          ELSE IF next.queue = <<>> THEN "Idle" ELSE "Executing"]

pause(c) ==
    IF c.state = "Paused" THEN c
    ELSE record_feedback(bump_revision([c EXCEPT !.state = "Paused"]), <<0>>, "Paused")

\* resume also retries the order that failed.
resume(c) ==
    IF c.state \notin {"Paused", "Blocked"} THEN c
    ELSE LET next == [c EXCEPT
                        !.active = IF @ = NoOrder THEN @ ELSE Running(@.id),
                        !.state = IF Pending(c) # {} THEN "Executing" ELSE "Idle",
                        !.blocked = FALSE]
         IN  record_feedback(bump_revision(next), <<0>>, "Resumed")

manual_takeover(c) ==
    IF c.state \notin {"Executing", "Idle"} THEN c
    ELSE record_feedback([c EXCEPT !.state = "Paused", !.blocked = FALSE],
                         <<c.active.id>>, "ManualTakeover")

start_next(c) ==
    IF c.state # "Executing" \/ c.active # NoOrder \/ c.queue = <<>> THEN c
    ELSE record_feedback([c EXCEPT !.active = Running(Head(c.queue)), !.queue = Tail(@)],
                         <<Head(c.queue)>>, "OrderStarted")

complete_active(c) ==
    record_feedback([c EXCEPT !.active = NoOrder,
                              !.state = IF c.queue = <<>> THEN "Idle" ELSE "Executing"],
                    <<c.active.id>>, "OrderSucceeded")

\* fail_active keeps the order for a retry and records both events.
fail_active(c) ==
    LET failed == [c EXCEPT !.active.state = "Failed", !.state = "Blocked", !.blocked = TRUE]
    IN  record_feedback(record_feedback(failed, <<c.active.id>>, "OrderFailed"),
                        <<c.active.id>>, "Blocked")

\* Mutant: a gap of one record goes unnoticed.
history_gapLate(c, after) == c.feedback # <<>> /\ after + 2 < Head(c.feedback).sequence

\* feedback_since a cursor: whether records after it were dropped, and the page.
history_gap(c, after) == c.feedback # <<>> /\ after + 1 < Head(c.feedback).sequence
page(c, after) == {i \in DOMAIN c.feedback : c.feedback[i].sequence > after}

-----------------------------------------------------------------------------
(* What scripts, players and the heartbeat do to the unit.                  *)

\* Attach a controller, or detach it: by script, with the unit's wreck or with
\* its object.
Attach ==
    /\ ~attached
    /\ attachment < MaxAttachments
    /\ attached' = TRUE
    /\ attachment' = attachment + 1
    /\ controller' = New
    /\ UNCHANGED director

Detach ==
    /\ attached
    /\ attached' = FALSE
    /\ controller' = New
    /\ UNCHANGED <<attachment, director>>

\* A management call: the next revision stays within the bound.
Manage(c) ==
    /\ attached
    /\ controller.revision < MaxRevision
    /\ controller' = c
    /\ UNCHANGED <<attached, attachment>>

Batch(n, mode) ==
    /\ CanSubmit(controller, n, mode)
    /\ controller.nextId + n <= MaxOrders + 1

\* btech.autopilot.configure, submit, cancel, pause and resume by other scripts,
\* which give no expected revision.
Configure == Manage(configure(controller)) /\ UNCHANGED director
Submit ==
    /\ \E n \in 0 .. MaxQueued, mode \in {"Append", "Replace"} :
            Batch(n, mode) /\ Manage(submit(controller, n, mode))
    /\ UNCHANGED director
Cancel ==
    /\ \E id \in Pending(controller) : Manage(cancel(controller, id))
    /\ UNCHANGED director
Pause == Manage(pause(controller)) /\ UNCHANGED director
Resume == Manage(resume(controller)) /\ UNCHANGED director

\* btech.tactical.observe: the director keeps the revision, the orders and the
\* last sequence it saw, and the attachment it saw them in.
Observe ==
    /\ attached
    /\ director' = [revision |-> controller.revision, pending |-> Pending(controller),
                    attachment |-> attachment]
    /\ UNCHANGED <<attached, attachment, controller>>

\* btech.tactical.submit with the observed revision.  A mismatch changes nothing
\* and makes the director observe again.
Direct ==
    /\ director # NoSnapshot
    /\ ensure_revision(controller, director.revision)
    /\ \E n \in 0 .. MaxQueued, mode \in {"Append", "Replace"} :
            Batch(n, mode) /\ Manage(submit(controller, n, mode))
    /\ director' = NoSnapshot

\* A player moves or fires the unit.
Takeover ==
    /\ attached
    /\ controller' = manual_takeover(controller)
    /\ UNCHANGED <<attached, attachment, director>>

\* advance_controller: an executing controller starts its next order, and the
\* active one goes on, succeeds or fails.
Heartbeat ==
    /\ attached
    /\ controller.state = "Executing"
    /\ LET started == start_next(controller)
       IN  \/ controller' = started
           \/ /\ started.active # NoOrder
              /\ controller' \in {complete_active(started), fail_active(started)}
    /\ UNCHANGED <<attached, attachment, director>>

-----------------------------------------------------------------------------
Init ==
    /\ attached = FALSE
    /\ attachment = 0
    /\ controller = New
    /\ director = NoSnapshot

Next ==
    \/ Attach \/ Detach
    \/ Configure \/ Submit \/ Cancel \/ Pause \/ Resume
    \/ Observe \/ Direct
    \/ Takeover \/ Heartbeat

Spec == Init /\ [][Next]_vars

-----------------------------------------------------------------------------
(* Properties                                                               *)

\* AutopilotController::validate accepts the controller after every operation:
\* the server checks it before each save and at each start, so a controller it
\* refuses would make every later command of the game fail.
Validated ==
    LET c == controller
    IN  /\ c.state = "Blocked" => c.blocked
        /\ order_count(c) <= MaxQueued
        /\ c.state = "Idle" => Pending(c) = {}
        /\ c.state = "Executing" => Pending(c) # {}
        /\ c.active = NoOrder \/ c.active.state \in {"Running", "Failed"}
        /\ Cardinality(Pending(c)) = order_count(c)
        /\ \A id \in Pending(c) : 0 < id /\ id < c.nextId
        /\ Len(c.feedback) <= MaxFeedback
        /\ \A i \in DOMAIN c.feedback :
              /\ i > 1 => c.feedback[i - 1].sequence < c.feedback[i].sequence
              /\ 0 < c.feedback[i].sequence /\ c.feedback[i].sequence < c.nextSequence

\* Every order ever submitted is still pending or has ended exactly once, and a
\* director that reads from any cursor it may hold either sees the end of every
\* order that ended after it or is told of a gap; a gap is reported only when
\* records were dropped (docs/content/docs/scripting/packages/btech/types.md).
OutcomesReported ==
    LET c == controller
    IN  /\ {r.order : r \in c.ended} = (1 .. c.nextId - 1) \ Pending(c)
        /\ \A r, s \in c.ended : r.order = s.order => r = s
        /\ \A after \in 0 .. c.nextSequence - 1 :
              LET seen == {c.feedback[i] : i \in page(c, after)}
              IN  IF history_gap(c, after)
                  THEN Cardinality(seen) < c.nextSequence - 1 - after
                  ELSE {r \in c.ended : r.sequence > after} \subseteq seen

\* A director's accepted submission replaces only orders it had seen, and leaves
\* a paused unit paused (docs/content/docs/scripting/packages/btech/tactical/
\* submit.md), however other scripts, the player and the heartbeat came between,
\* while the controller it observed stays attached.
GuardedSubmission ==
    [][(director # NoSnapshot /\ director' = NoSnapshot /\ director.attachment = attachment) =>
        /\ Pending(controller) \subseteq director.pending
        /\ controller.state = "Paused" <=> controller'.state = "Paused"]_vars
=============================================================================
