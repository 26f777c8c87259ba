------------------------------ MODULE LogWorker ------------------------------
(***************************************************************************)
(* The logfile worker (logging/worker.rs): a thread of its own that takes    *)
(* append requests from a bounded channel.  The world owner submits what     *)
(* scripts log without waiting, waits for the acknowledgement of an @log     *)
(* command, and stops the worker at the end of a shutdown; each wait has a    *)
(* deadline, because the worker may hang in the file system.                 *)
(***************************************************************************)
EXTENDS Naturals, Sequences, FiniteSets

CONSTANTS
    Capacity,         \* runtime.event_queue_capacity
    WriteTimeout,     \* runtime.write_timeout_ms
    ShutdownTimeout,  \* runtime.shutdown_timeout_ms
    MaxRequests,      \* append requests
    MaxTime           \* last instant of the clock, and last deadline of a wait

ASSUME LogWorkerAssumption ==
    /\ Capacity \in Nat \ {0}
    /\ {WriteTimeout, ShutdownTimeout, MaxRequests, MaxTime} \subseteq Nat

VARIABLES
    now,        \* the monotonic clock
    owner,      \* "idle", a wait with its deadline, or "ended"
    stopped,    \* Inner::stopped
    channel,    \* requests and the stop, in order
    worker,     \* "none" before the first request, "idle", "busy", "ended"
    current,    \* the request a busy worker is writing
    lost,       \* Inner::lost
    requests,   \* requests made so far
    outcome,    \* what became of each request
    told,       \* what the player of an @log command was told
    reported    \* omitted requests the worker has reported

vars == <<now, owner, stopped, channel, worker, current, lost, requests,
          outcome, told, reported>>

Ids == 1 .. MaxRequests
Idle == [at |-> "idle"]
\* The owner waits for room in the channel or for an answer to request `id`;
\* request 0 is the stop.
Waiting(at, id, deadline) == [at |-> at, id |-> id, deadline |-> deadline]
Ended(ok) == [at |-> "ended", ok |-> ok]

File(id, deadline) == [id |-> id, deadline |-> deadline]
Stop == [id |-> 0, deadline |-> 0]

Full == Len(channel) >= Capacity

\* Logger::sender starts the worker with the first request.
Running == IF worker = "none" THEN "idle" ELSE worker

-----------------------------------------------------------------------------
(* The owner.                                                               *)

\* Logger::submit: queue a request, or count it as lost.
Submit ==
    /\ owner = Idle
    /\ requests < MaxRequests
    /\ requests' = requests + 1
    /\ worker' = IF stopped THEN worker ELSE Running
    /\ IF stopped \/ Full
       THEN /\ lost' = lost + 1
            /\ outcome' = [outcome EXCEPT ![requests + 1] = "omitted"]
            /\ UNCHANGED channel
       ELSE /\ channel' = Append(channel, File(requests + 1, now + WriteTimeout))
            /\ outcome' = [outcome EXCEPT ![requests + 1] = "queued"]
            /\ UNCHANGED lost
    /\ UNCHANGED <<now, owner, stopped, current, told, reported>>

\* Logger::write sets its deadline and waits for room.
Write ==
    /\ owner = Idle
    /\ ~stopped
    /\ requests < MaxRequests
    /\ now + WriteTimeout <= MaxTime
    /\ requests' = requests + 1
    /\ worker' = Running
    /\ owner' = Waiting("room", requests + 1, now + WriteTimeout)
    /\ UNCHANGED <<now, stopped, channel, current, lost, outcome, told, reported>>

\* Logger::shutdown marks the logger stopped and, if a worker was ever started,
\* waits for room for the stop.
Shutdown ==
    /\ owner = Idle
    /\ ~stopped
    /\ now + ShutdownTimeout <= MaxTime
    /\ stopped' = TRUE
    /\ owner' = IF worker = "none" THEN Ended(TRUE)
                ELSE Waiting("room", 0, now + ShutdownTimeout)
    /\ UNCHANGED <<now, channel, worker, current, lost, requests, outcome, told, reported>>

\* Mutant: the stop overtakes what is in the channel.
SendStopFirst ==
    /\ owner.at = "room"
    /\ ~Full
    /\ channel' = IF owner.id = 0 THEN <<Stop>> \o channel
                  ELSE Append(channel, File(owner.id, owner.deadline))
    /\ outcome' = IF owner.id = 0 THEN outcome ELSE [outcome EXCEPT ![owner.id] = "queued"]
    /\ owner' = [owner EXCEPT !.at = "answer"]
    /\ UNCHANGED <<now, stopped, worker, current, lost, requests, told, reported>>

\* There is room: the request or the stop is sent, and its answer awaited.
SendWaiting ==
    /\ owner.at = "room"
    /\ ~Full
    /\ channel' = Append(channel, IF owner.id = 0 THEN Stop ELSE File(owner.id, owner.deadline))
    /\ outcome' = IF owner.id = 0 THEN outcome ELSE [outcome EXCEPT ![owner.id] = "queued"]
    /\ owner' = [owner EXCEPT !.at = "answer"]
    /\ UNCHANGED <<now, stopped, worker, current, lost, requests, told, reported>>

\* The answer is there: the result of the write, or the end of the worker.
Answered ==
    IF owner.id = 0 THEN worker = "ended"
    ELSE outcome[owner.id] \in {"written", "failed", "expired"}

\* What the caller learns: the player of an @log, or the end of the shutdown.
Finish(ok) ==
    IF owner.id = 0
    THEN owner' = Ended(ok) /\ UNCHANGED told
    ELSE /\ owner' = Idle
         /\ told' = [told EXCEPT ![owner.id] = IF ok THEN "logged" ELSE "failed"]

GetAnswer ==
    /\ owner.at = "answer"
    /\ Answered
    /\ Finish(owner.id = 0 \/ outcome[owner.id] = "written")
    /\ UNCHANGED <<now, stopped, channel, worker, current, lost, requests, outcome, reported>>

\* Mutant: only the wait for the answer has a deadline.
AnswerTimesOut ==
    /\ owner.at = "answer"
    /\ ~Answered
    /\ now >= owner.deadline
    /\ Finish(FALSE)
    /\ UNCHANGED <<now, stopped, channel, worker, current, lost, requests, outcome, reported>>

\* The deadline passes first; a request that was not sent is forgotten.
TimesOut ==
    /\ \/ owner.at = "room" /\ Full
       \/ owner.at = "answer" /\ ~Answered
    /\ now >= owner.deadline
    /\ Finish(FALSE)
    /\ UNCHANGED <<now, stopped, channel, worker, current, lost, requests, outcome, reported>>

-----------------------------------------------------------------------------
(* The worker.                                                              *)

\* The next request: report what was omitted before it, then end, refuse a
\* request whose deadline has passed, or start to write.
Take ==
    /\ worker = "idle"
    /\ channel # <<>>
    /\ channel' = Tail(channel)
    /\ reported' = reported + lost
    /\ lost' = 0
    /\ LET r == Head(channel)
       IN  \/ /\ r = Stop
              /\ worker' = "ended"
              /\ UNCHANGED <<current, outcome>>
           \/ /\ r # Stop
              /\ now > r.deadline
              /\ outcome' = [outcome EXCEPT ![r.id] = "expired"]
              /\ UNCHANGED <<worker, current>>
           \/ /\ r # Stop
              /\ now <= r.deadline
              /\ worker' = "busy"
              /\ current' = r.id
              /\ UNCHANGED outcome
    /\ UNCHANGED <<now, owner, stopped, requests, told>>

\* Cache::write succeeds or fails, and the result is sent to whoever waits.
AppendRecord ==
    /\ worker = "busy"
    /\ \E result \in {"written", "failed"} :
            outcome' = [outcome EXCEPT ![current] = result]
    /\ worker' = "idle"
    /\ UNCHANGED <<now, owner, stopped, channel, current, lost, requests, told, reported>>

Tick ==
    /\ now < MaxTime
    /\ now' = now + 1
    /\ UNCHANGED <<owner, stopped, channel, worker, current, lost, requests,
                   outcome, told, reported>>

-----------------------------------------------------------------------------
Init ==
    /\ now = 0
    /\ owner = Idle
    /\ stopped = FALSE
    /\ channel = <<>>
    /\ worker = "none"
    /\ current = 0
    /\ lost = 0
    /\ requests = 0
    /\ outcome = [id \in Ids |-> "none"]
    /\ told = [id \in Ids |-> "nothing"]
    /\ reported = 0

Next ==
    \/ Submit \/ Write \/ Shutdown \/ SendWaiting \/ GetAnswer \/ TimesOut
    \/ Take \/ AppendRecord
    \/ Tick

Spec == Init /\ [][Next]_vars

\* The owner's waits are polled until they return, and time passes.  Nothing is
\* assumed of the worker, which may hang in the file system.
FairSpec == Spec /\ WF_vars(SendWaiting) /\ WF_vars(GetAnswer) /\ WF_vars(TimesOut) /\ WF_vars(Tick)

-----------------------------------------------------------------------------
(* Properties                                                               *)

\* Nothing disappears silently: every request that entered the channel is there,
\* in the worker's hands or has an outcome the worker reports; a shutdown that
\* succeeds has drained all of them and reported every omission (the error text
\* "Logging shutdown did not drain before deadline" of Logger::shutdown), and a
\* player is told that a message was logged only if it is in the file, although
\* the deadline races the worker (Logger::write).
Undecided == {id \in Ids : outcome[id] = "queued"}
RecordsAccounted ==
    /\ Undecided = ({channel[i].id : i \in DOMAIN channel} \ {0})
                   \cup (IF worker = "busy" THEN {current} ELSE {})
    /\ owner = Ended(TRUE) => Undecided = {} /\ lost = 0
    /\ Cardinality({id \in Ids : outcome[id] = "omitted"}) = lost + reported
    /\ \A id \in Ids : told[id] = "logged" => outcome[id] = "written"

\* A hanging worker holds neither a command nor the shutdown.
OwnerReleased == owner.at \in {"room", "answer"} ~> owner.at \in {"idle", "ended"}
=============================================================================
