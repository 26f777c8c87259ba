---------------------------- MODULE CommandQueue ----------------------------
(***************************************************************************)
(* The runtime command queue: @force, @wait and @halt lists that the world  *)
(* owner executes one command at a time, in fair rotation over executors,   *)
(* when it has credit.  Every queue change is prepared on a copy and        *)
(* published only when the world changes that belong to it are saved.       *)
(*                                                                          *)
(* Data.  A command list is the number of commands it still holds, and its  *)
(* length in bytes is the same number.  Time is counted in seconds.         *)
(***************************************************************************)
EXTENDS Integers, Sequences, FiniteSets, Functions

CONSTANTS
    Objects,      \* game objects that may execute queued commands
    Limit,        \* config.mux.command_queue_limit: lists per executor
    LineLimit,    \* config.runtime.input_line_limit
    MaxBytes,     \* MAX_QUEUE_BYTES
    Delays,       \* seconds given to @wait, zero for @force
    ActiveChunk,  \* config.mux.command_queue_active_chunk
    IdleChunk,    \* config.mux.command_queue_idle_chunk
    MaxSequence,  \* bound on admitted lists
    MaxTime       \* bound on the clock

ASSUME QueueAssumption ==
    /\ IsFiniteSet(Objects)
    /\ Limit \in Nat /\ LineLimit \in Nat /\ MaxBytes \in Nat
    /\ ActiveChunk \in Nat /\ IdleChunk \in Nat /\ Delays \subseteq Int

VARIABLES
    queue,      \* the Queue: entries (by sequence number), rotation, next, bytes
    objects,    \* the world, as far as the queue reads and writes it
    now,        \* tokio::time::Instant::now()
    credit,     \* queue_credit of the event loop
    queueing,   \* Control::Queueing
    last,       \* history: due time and number of the list each executor ran last
    waits       \* history: how often a ready executor was passed over

vars == <<queue, objects, now, credit, queueing, last, waits>>


Init ==
    /\ queue = [entries |-> <<>>, rotation |-> <<>>, next |-> 0, bytes |-> 0]
    /\ objects = [o \in Objects |-> [kind |-> "live", going |-> FALSE, halted |-> FALSE]]
    /\ now = 0 /\ credit = 0 /\ queueing = TRUE
    /\ last = [o \in Objects |-> <<0, 0>>] /\ waits = [o \in Objects |-> 0]

-----------------------------------------------------------------------------
(* Operations of Queue, on a queue value q. *)

\* The elements of S in a strict order: number j is the one with j - 1 before it.
InOrder(S, before) ==
    [j \in 1 .. Cardinality(S) |->
        CHOOSE x \in S : Cardinality({y \in S : <<y, x>> \in before}) = j - 1]

\* VecDeque::retain: the part of a line that is in a set, in its order.
Keeping(line, set) ==
    LET kept   == {k \in DOMAIN line : line[k] \in set}
        places == InOrder(kept, {p \in kept \X kept : p[1] < p[2]})
    IN  [j \in 1 .. Cardinality(kept) |-> line[places[j]]]

Owned(q, o) == {i \in DOMAIN q.entries : q.entries[i].executor = o}
Owners(q) == {q.entries[i].executor : i \in DOMAIN q.entries}

\* The bytes of all lists, each by its list and its place in it.
Text(q) == UNION {{i} \X (1 .. q.entries[i].text) : i \in DOMAIN q.entries}

\* Mutant: the byte total is left alone.
RecountRotation(q) == [q EXCEPT !.rotation = Keeping(@, Owners(q))]

\* Queue::recount
Recount(q) == [q EXCEPT !.bytes = Cardinality(Text(q)), !.rotation = Keeping(@, Owners(q))]

Retain(q, keep) == Recount([q EXCEPT !.entries = Restrict(@, keep)])

\* Queue::cancel, of one executor or of all of them.
Cancel(q, targets) ==
    Retain(q, {i \in DOMAIN q.entries : q.entries[i].executor \notin targets})

\* Queue::reconcile: identities that are gone.  Object numbers are never given
\* out twice (World::create), so the code's generation check never differs.
Reconcile(q, world) ==
    Retain(q, {i \in DOMAIN q.entries : world[q.entries[i].executor].kind = "live"})

\* What admission finds out about a request, in the order of the code.
Admission(o, text) ==
    IF text > LineLimit \/ objects[o].kind # "live" \/ objects[o].going THEN "refused"
    ELSE IF objects[o].halted THEN "ignored"
    ELSE IF Cardinality(Owned(queue, o)) >= Limit THEN "runaway"
    ELSE IF queue.bytes + text > MaxBytes THEN "refused"
    ELSE "admitted"

Inserted(q, o, due, text) ==
    [q EXCEPT !.next = @ + 1,
              !.bytes = @ + text,
              !.entries = [i \in DOMAIN @ \cup {q.next + 1} |->
                              IF i = q.next + 1 THEN [executor |-> o, due |-> due, text |-> text]
                              ELSE @[i]]]

\* Mutant: a negative wait is not raised to zero.
InsertInPast(q, o, seconds, text) == Inserted(q, o, now + seconds, text)

Insert(q, o, seconds, text) == Inserted(q, o, now + (IF seconds > 0 THEN seconds ELSE 0), text)

Ready(q) == {i \in DOMAIN q.entries : q.entries[i].due <= now}

-----------------------------------------------------------------------------
(* Server::queue_request.  A handler runs for an event, which refills the     *)
(* credit, or for queued or scheduled work, which does not.                  *)

\* The queue becomes q; an executor with nothing ready is not waiting.
Become(q) ==
    /\ queue' = q
    /\ waits' = [o \in Objects |-> IF Owned(q, o) \cap Ready(q) = {} THEN 0 ELSE waits[o]]

Arrives == credit' \in {credit, ActiveChunk}

\* The candidate queue and the candidate world are published together, after
\* the save; a failed save leaves both as they were.
Settle(q, world, saved) ==
    IF saved THEN Become(Reconcile(q, world)) /\ objects' = world
             ELSE UNCHANGED <<queue, objects, waits>>

Add(o, seconds, text, saved) ==
    LET outcome == Admission(o, text) IN
    /\ queue.next < MaxSequence
    /\ Arrives
    /\ IF ~queueing \/ outcome = "refused" THEN UNCHANGED <<queue, objects, waits>>
       ELSE IF outcome = "ignored" THEN Settle(queue, objects, saved)
       ELSE IF outcome = "runaway"
         THEN Settle(Cancel(queue, {o}), [objects EXCEPT ![o].halted = TRUE], saved)
       ELSE Settle(Insert(queue, o, seconds, text), objects, saved)
    /\ UNCHANGED <<now, queueing, last>>

Halt(targets, saved) ==
    /\ Arrives
    /\ Settle(Cancel(queue, targets), objects, saved)
    /\ UNCHANGED <<now, queueing, last>>

-----------------------------------------------------------------------------
(* Queue::take, and the event loop that calls it. *)

Earlier(q, i, j) ==
    \/ q.entries[i].due < q.entries[j].due
    \/ q.entries[i].due = q.entries[j].due /\ i < j

\* Mutant: admission order alone decides.
FirstAdmitted(q, o) ==
    CHOOSE i \in Owned(q, o) \cap Ready(q) : \A j \in Owned(q, o) \cap Ready(q) : i <= j

\* The list of o that is first in line.
FirstOf(q, o) ==
    CHOOSE i \in Owned(q, o) \cap Ready(q) :
        \A j \in (Owned(q, o) \cap Ready(q)) \ {i} : Earlier(q, i, j)

ReadyOwners(q) == {q.entries[i].executor : i \in Ready(q)}

\* Executors that are newly ready, in the order of their first lists.
Newcomers(q) ==
    LET new == ReadyOwners(q) \ Range(q.rotation)
    IN  InOrder(new, {p \in new \X new : Earlier(q, FirstOf(q, p[1]), FirstOf(q, p[2]))})

\* Mutant: executors that are newly ready go to the front.
EnrolFirst(q) == Newcomers(q) \o Keeping(q.rotation, ReadyOwners(q))

\* Executors that are newly ready join the end of the rotation; those with
\* nothing ready leave it.
Enrol(q) == Keeping(q.rotation, ReadyOwners(q)) \o Newcomers(q)

Barred(o) == objects[o].going \/ objects[o].halted

\* A list of an object that is being destroyed or is halted is dropped, and
\* its executor loses its turn.
Drop(q, i, line) ==
    Recount([q EXCEPT !.entries = Restrict(@, DOMAIN @ \ {i}), !.rotation = Tail(line)])

\* One command leaves its list; the executor goes to the back of the line
\* while it has more that is ready.
Step(q, i, line) ==
    LET o == Head(line)
        rest == IF q.entries[i].text > 1
                  THEN [q.entries EXCEPT ![i].text = @ - 1]
                  ELSE Restrict(q.entries, DOMAIN q.entries \ {i})
        more == \E j \in DOMAIN rest : rest[j].executor = o /\ rest[j].due <= now
    IN Recount([q EXCEPT !.entries = rest,
                         !.rotation = IF more THEN Append(Tail(line), o) ELSE Tail(line)])

\* Serve the executor at the head of the line from its first ready list i.
Serve(q, i, line) ==
    LET o == Head(line)
        passed == {p \in Objects \ {o} : Owned(q, p) \cap Ready(q) # {}}
    IN /\ queue' = IF Barred(o) THEN Drop(q, i, line) ELSE Step(q, i, line)
       /\ last' = IF Barred(o) THEN last ELSE [last EXCEPT ![o] = <<q.entries[i].due, i>>]
       /\ waits' = [p \in Objects |-> IF p \in passed THEN waits[p] + 1 ELSE 0]

Take ==
    /\ credit > 0 /\ Ready(queue) # {}
    /\ credit' = credit - 1
    /\ \E q \in {Reconcile(queue, objects)} : \E line \in {Enrol(q)} :
          \/ line = <<>> /\ Become([q EXCEPT !.rotation = <<>>]) /\ UNCHANGED last
          \/ line # <<>> /\ \E i \in {FirstOf(q, Head(line))} : Serve(q, i, line)
    /\ UNCHANGED <<objects, now, queueing>>

\* Mutant: the tick grants no credit.
TickWithoutCredit == UNCHANGED vars

\* The maintenance tick.
MaintenanceTick ==
    /\ credit' = IdleChunk
    /\ UNCHANGED <<queue, objects, now, queueing, last, waits>>

\* Time passes; the loop's timer for the next delayed list grants credit, unless
\* a handler was still running when it became due.
Advance ==
    /\ now < MaxTime
    /\ now' = now + 1
    /\ \/ UNCHANGED credit
       \/ credit' = IdleChunk /\ \E i \in DOMAIN queue.entries : queue.entries[i].due = now'
    /\ UNCHANGED <<queue, objects, queueing, last, waits>>

-----------------------------------------------------------------------------
(* The rest of the world owner, as far as it concerns the queue. *)

\* @halt flags, @destroy and their reversal, by any saved command.
SetFlags(o, going, halted) ==
    /\ objects[o].kind = "live"
    /\ objects' = [objects EXCEPT ![o].going = going, ![o].halted = halted]
    /\ Arrives
    /\ UNCHANGED <<queue, now, queueing, last, waits>>

\* The database check turns destroyed objects into garbage; once that is
\* saved the queue forgets them.
Purge(o) ==
    /\ objects[o].kind = "live" /\ objects[o].going
    /\ objects' = [objects EXCEPT ![o].kind = "garbage", ![o].halted = FALSE]
    /\ Become(Reconcile(queue, objects'))
    /\ Arrives
    /\ UNCHANGED <<now, queueing, last>>

\* @disable queueing and @enable queueing.
GlobalControl ==
    /\ queueing' = ~queueing
    /\ Arrives
    /\ UNCHANGED <<queue, objects, now, last, waits>>

Next ==
    \/ \E o \in Objects, saved \in BOOLEAN :
          \/ \E seconds \in Delays, text \in 1 .. LineLimit + 1 : Add(o, seconds, text, saved)
          \/ Halt({o}, saved)
    \/ \E saved \in BOOLEAN : Halt(Objects, saved)
    \/ Take \/ MaintenanceTick \/ Advance
    \/ \E o \in Objects : Purge(o) \/ \E going, halted \in BOOLEAN : SetFlags(o, going, halted)
    \/ GlobalControl

Spec == Init /\ [][Next]_vars

\* The event loop polls its ready arms and its interval timer for ever.
FairSpec == Spec /\ WF_vars(Take) /\ WF_vars(MaintenanceTick)

-----------------------------------------------------------------------------
(* Properties. *)

\* Entries carry live numbers, a due time and at least one command.
TypeOK ==
    /\ DOMAIN queue.entries \subseteq 1 .. queue.next
    /\ \A i \in DOMAIN queue.entries :
          queue.entries[i] \in [executor : Objects, due : Nat, text : Nat \ {0}]
    /\ queue.rotation \in Seq(Objects)
    /\ queue.next \in Nat /\ queue.bytes \in Nat /\ now \in Nat /\ credit \in Nat
    /\ objects \in [Objects -> [kind : {"live", "garbage"}, going : BOOLEAN, halted : BOOLEAN]]
    /\ queueing \in BOOLEAN
    /\ last \in [Objects -> Nat \X Nat] /\ waits \in [Objects -> Nat]

\* The running byte total, which admission trusts, is what the lists really
\* hold after any mix of admissions, partial executions and cancellations,
\* and it stays under the ceiling.
BytesExact ==
    /\ queue.bytes = Cardinality(Text(queue))
    /\ queue.bytes <= MaxBytes

\* The rotation names each executor at most once, and only executors that
\* still hold lists.
RotationSound ==
    /\ IsInjective(queue.rotation)
    /\ \A k \in DOMAIN queue.rotation : Owned(queue, queue.rotation[k]) # {}

\* Nothing waits for an object that has been purged.
PurgedForgotten == \A i \in DOMAIN queue.entries : objects[queue.entries[i].executor].kind = "live"

\* Byte total, rotation and lists agree with each other and with the objects
\* after every operation: CommandQueue keeps the three side by side and patches
\* each on its own path of admission, execution, cancellation and purge.
QueueConsistent == BytesExact /\ RotationSound /\ PurgedForgotten

\* Fair rotation: an executor with a ready list is passed over by every other
\* executor at most once before its own turn.
FairRotation == \A o \in Objects : waits[o] < Cardinality(Objects)

\* Each executor's lists run in order of due time, then admission, and a list
\* that has begun is not interleaved with another of the same executor.
InOrderPerExecutor ==
    [][\A o \in Objects :
        \/ last[o][1] < last'[o][1]
        \/ last[o][1] = last'[o][1] /\ last[o][2] <= last'[o][2]]_vars

\* A list that is ready is eventually used up, however many others wait.
ReadyListsFinish ==
    \A i \in 1 .. MaxSequence :
        (i \in DOMAIN queue.entries /\ queue.entries[i].due <= now) ~> i \notin DOMAIN queue.entries
=============================================================================
