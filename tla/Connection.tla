----------------------------- MODULE Connection -----------------------------
(***************************************************************************)
(* The world owner and the socket tasks: one task per connection, an event  *)
(* channel that all tasks share and the owner reads, and one output channel *)
(* per session that the owner fills and the task empties.  All channels are *)
(* bounded, and both sides wait: a task for room in the event channel, the  *)
(* owner for room in an output channel while it delivers a report.          *)
(*                                                                          *)
(* The runtime has one thread, so what happens between two awaits is one    *)
(* step.  The outcome of reads and writes is up to the peer.  Every message *)
(* counts as one unit of the byte counters.                                 *)
(***************************************************************************)
EXTENDS Integers, Sequences, FiniteSets

CONSTANTS
    Conns,            \* connections
    EventCapacity,    \* runtime.event_queue_capacity
    OutputCapacity,   \* runtime.session_output_queue_capacity
    Chunks,           \* chunks of a report
    MaxReads          \* reads from all sockets together

ASSUME ConnectionAssumption ==
    /\ EventCapacity \in Nat \ {0}
    /\ OutputCapacity \in Nat \ {0}
    /\ Chunks \in Nat \ {0}
    /\ MaxReads \in Nat

VARIABLES
    owner,        \* what the owner is doing: see Loop and Reporting
    events,       \* the event channel
    receiving,    \* the owner still holds the receiver of the event channel
    session,      \* "none" (not accepted yet), "open", "gone"
    failed,       \* Session::failed
    output,       \* the output channels
    closed,       \* the task closed its output channel
    task,         \* state of each socket task
    reads,        \* reads so far
    compression,  \* stats.compression: 0 inactive, 1 starting, 2 active
    stats         \* counters of each connection: see NoStats

vars == <<owner, events, receiving, session, failed, output, closed, task,
          reads, compression, stats>>
taskVars == <<events, task, reads>>

Loop == [at |-> "loop"]
Stopping == [at |-> "stopping"]
Joining == [at |-> "joining"]
Ended == [at |-> "ended"]
\* A report is being delivered; `welcome` is the banner of a new connection.
Reporting(c, left, welcome) ==
    [at |-> "report", conn |-> c, left |-> left, welcome |-> welcome]

\* Output and input counters.  Of output_total and output_lost only the balance
\* is kept: what was offered, less what was lost, less what the socket took.
NoStats == [balance |-> 0, pending |-> 0, unread |-> 0]

Queued(c) == Cardinality({i \in DOMAIN output[c] : output[c][i] = "bytes"})

-----------------------------------------------------------------------------
(* The owner's side of a session (sessions.rs).  The operators give the new  *)
(* channel, counters and failure mark of one session.                        *)

Room(out, c) == ~closed[c] /\ Len(out) < OutputCapacity

\* Session::raw: count and try to queue; on failure the message is no longer
\* pending and counts as lost, which leaves the balance as it was.
Raw(s, c, fits) ==
    IF fits /\ Room(s.out, c)
    THEN [s EXCEPT !.out = Append(@, "bytes"),
                   !.stats.balance = @ + 1, !.stats.pending = @ + 1]
    ELSE [s EXCEPT !.failed = TRUE]

\* Session::close
Close(s, c) == IF Room(s.out, c) THEN [s EXCEPT !.out = Append(@, "close")] ELSE s

\* Server::tell and the delivery of a flushed notification: a session that
\* cannot take its output is closed.
Tell(s, c, fits) ==
    LET sent == Raw(s, c, fits)
    IN  IF fits /\ Room(s.out, c) THEN sent ELSE Close(sent, c)

\* Session::protocol: the compression marker goes through the channel once.
StartCompression(s, c) ==
    CASE s.compression # 0 -> s
      [] s.compression = 0 /\ Room(s.out, c) ->
            [s EXCEPT !.compression = 1, !.out = Append(@, "compress")]
      [] OTHER -> [s EXCEPT !.failed = TRUE]

Side(c) == [out |-> output[c], stats |-> stats[c], failed |-> failed[c],
            compression |-> compression[c]]

\* Install new sides of all sessions; those in `leaving` are disconnected
\* (Server::disconnect): closed, and their sender dropped.
Install(side, leaving) ==
    LET final(c) == IF c \in leaving THEN Close(side[c], c) ELSE side[c]
    IN  /\ output' = [c \in Conns |-> final(c).out]
        /\ stats' = [c \in Conns |-> final(c).stats]
        /\ failed' = [c \in Conns |-> final(c).failed]
        /\ compression' = [c \in Conns |-> final(c).compression]
        /\ session' = [c \in Conns |-> IF c \in leaving THEN "gone" ELSE session[c]]

Sides == [c \in Conns |-> Side(c)]
Open == {c \in Conns : session[c] = "open"}

-----------------------------------------------------------------------------
(* The owner's loop.                                                        *)

\* A connection is accepted: initial negotiation, then the banner.
Accept(c) ==
    /\ owner = Loop
    /\ session[c] = "none"
    /\ session' = [session EXCEPT ![c] = "open"]
    /\ task' = [task EXCEPT ![c] = "select"]
    /\ LET s == Raw(Side(c), c, TRUE)
       IN  /\ output' = [output EXCEPT ![c] = s.out]
           /\ stats' = [stats EXCEPT ![c] = [s.stats EXCEPT !.balance = @ + 1]]
           /\ failed' = [failed EXCEPT ![c] = s.failed]
    /\ owner' = Reporting(c, Chunks, TRUE)
    /\ UNCHANGED <<events, receiving, closed, reads, compression>>

\* Server::input of one read: nothing complete, a line that everybody hears, an
\* answer, an option that starts compression, a report, a line that ends the
\* session.  Input of a session that has gone is dropped.
Bytes(c) ==
    LET read == [Side(c) EXCEPT !.stats.unread = @ - 1]
        with(s) == [Sides EXCEPT ![c] = s]
    IN  /\ owner = Loop
        /\ events # <<>>
        /\ Head(events) = <<"bytes", c>>
        /\ events' = Tail(events)
        /\ UNCHANGED <<receiving, closed, task, reads>>
        /\ \/ /\ session[c] # "open"
              /\ Install(Sides, {})
              /\ UNCHANGED owner
           \/ /\ session[c] = "open"
              /\ \/ Install(with(read), {}) /\ UNCHANGED owner
                 \/ /\ \E fits \in BOOLEAN :
                         Install([d \in Conns |->
                            IF d \in Open THEN Tell(with(read)[d], d, fits) ELSE Side(d)], {})
                    /\ UNCHANGED owner
                 \/ Install(with(StartCompression(read, c)), {}) /\ UNCHANGED owner
                 \/ /\ Install(with([read EXCEPT !.stats.balance = @ + 1]), {})
                    /\ owner' = Reporting(c, Chunks, FALSE)
                 \/ Install(with(Tell(read, c, TRUE)), {c}) /\ UNCHANGED owner

\* Event::Gone
Gone(c) ==
    /\ owner = Loop
    /\ events # <<>>
    /\ Head(events) = <<"gone", c>>
    /\ events' = Tail(events)
    /\ Install(Sides, {c} \cap Open)
    /\ UNCHANGED <<owner, receiving, closed, task, reads>>

\* The maintenance tick removes sessions whose task is over or whose output failed.
Tick ==
    /\ owner = Loop
    /\ \E c \in Open : closed[c] \/ failed[c]
    /\ Install(Sides, {c \in Open : closed[c] \/ failed[c]})
    /\ UNCHANGED <<owner, receiving, closed>> /\ UNCHANGED taskVars

\* A login or idle timeout, or a boot: the session is told and disconnected.
TimesOut(c) ==
    /\ owner = Loop
    /\ c \in Open
    /\ ~closed[c] /\ ~failed[c]
    /\ Install([Sides EXCEPT ![c] = Tell(@, c, TRUE)], {c})
    /\ UNCHANGED <<owner, receiving, closed>> /\ UNCHANGED taskVars

\* Session::deliver_spans waits for a slot of the channel: it gets one, the
\* channel is closed, or the deadline of the report passes.  The next chunk is
\* counted when it starts to wait.  A failed report is followed by a message, and
\* the banner by the first prompt whether it was delivered or not.
Reported(c, welcome, s, delivered) ==
    IF welcome THEN Raw(s, c, TRUE) ELSE IF delivered THEN s ELSE Tell(s, c, TRUE)

ChunkSent ==
    /\ owner.at = "report"
    /\ LET c == owner.conn
           s == [Side(c) EXCEPT !.out = Append(@, "bytes"), !.stats.pending = @ + 1]
       IN  /\ Room(output[c], c)
           /\ IF owner.left > 1
              THEN /\ Install([Sides EXCEPT ![c] = [s EXCEPT !.stats.balance = @ + 1]], {})
                   /\ owner' = [owner EXCEPT !.left = @ - 1]
              ELSE /\ Install([Sides EXCEPT ![c] = Reported(c, owner.welcome, s, TRUE)], {})
                   /\ owner' = Loop
    /\ UNCHANGED <<receiving, closed>> /\ UNCHANGED taskVars

\* Mutant: the deadline does not cover the wait for a slot.
ChunkFailsOnClose ==
    /\ owner.at = "report"
    /\ LET c == owner.conn
           s == [Side(c) EXCEPT !.stats.balance = @ - 1, !.failed = TRUE]
       IN  /\ closed[c]
           /\ Install([Sides EXCEPT ![c] = Reported(c, owner.welcome, s, FALSE)], {})
    /\ owner' = Loop
    /\ UNCHANGED <<receiving, closed>> /\ UNCHANGED taskVars

ChunkFails ==
    /\ owner.at = "report"
    /\ LET c == owner.conn
           s == [Side(c) EXCEPT !.stats.balance = @ - 1, !.failed = TRUE]
       IN  /\ ~Room(output[c], c)
           /\ Install([Sides EXCEPT ![c] = Reported(c, owner.welcome, s, FALSE)], {})
    /\ owner' = Loop
    /\ UNCHANGED <<receiving, closed>> /\ UNCHANGED taskVars

\* An accepted shutdown leaves the loop and disconnects every session.
Shutdown ==
    /\ owner = Loop
    /\ Install(Sides, Open)
    /\ owner' = Stopping
    /\ UNCHANGED <<receiving, closed>> /\ UNCHANGED taskVars

\* Mutant: the receiver is kept while the tasks are joined.
KeepReceiver ==
    /\ owner = Stopping
    /\ owner' = Joining
    /\ UNCHANGED <<events, receiving, session, failed, output, closed, task, reads,
                   compression, stats>>

\* After the final save the receiver is dropped, so that no task waits for room.
DropReceiver ==
    /\ owner = Stopping
    /\ owner' = Joining
    /\ receiving' = FALSE
    /\ events' = <<>>
    /\ UNCHANGED <<session, failed, output, closed, task, reads, compression, stats>>

\* The tasks end, or are aborted when the shutdown timeout passes.
Joined ==
    /\ owner = Joining
    /\ \A c \in Conns : task[c] \in {"none", "ended"}
    /\ owner' = Ended
    /\ UNCHANGED <<events, receiving, session, failed, output, closed, task,
                   reads, compression, stats>>

Abort ==
    /\ owner = Joining
    /\ \E c \in Conns : task[c] \notin {"none", "ended"}
    /\ task' = [c \in Conns |-> IF task[c] = "none" THEN "none" ELSE "aborted"]
    /\ owner' = Ended
    /\ UNCHANGED <<events, receiving, session, failed, output, closed, reads,
                   compression, stats>>

-----------------------------------------------------------------------------
(* The socket task (server/connection.rs).                                  *)

\* Mutant: what is left in the channel stays pending.
LeaveUncounted(c, s) ==
    /\ closed' = [closed EXCEPT ![c] = TRUE]
    /\ output' = [output EXCEPT ![c] = <<>>]
    /\ stats' = [stats EXCEPT ![c] = s]
    /\ task' = [task EXCEPT ![c] = "leaving"]

\* The task leaves its loop: it closes the channel, counts what is left in it as
\* lost, and goes on to announce its end.  `s` are the counters before.
Leave(c, s) ==
    /\ closed' = [closed EXCEPT ![c] = TRUE]
    /\ output' = [output EXCEPT ![c] = <<>>]
    /\ stats' = [stats EXCEPT ![c] = [s EXCEPT !.pending = @ - Queued(c),
                                               !.balance = @ - Queued(c)]]
    /\ task' = [task EXCEPT ![c] = "leaving"]

ownerVars == <<owner, receiving, session, failed>>

\* Bytes are read; the task then waits for room in the event channel.  Whether
\* the channel is closed is asked on entry to select! only, so a read that was
\* begun before may end after it; a read begun after it is let through as well.
Read(c) ==
    /\ task[c] = "select"
    /\ reads < MaxReads
    /\ reads' = reads + 1
    /\ stats' = [stats EXCEPT ![c].unread = @ + 1]
    /\ task' = [task EXCEPT ![c] = "sending"]
    /\ UNCHANGED <<events, output, closed, compression>> /\ UNCHANGED ownerVars

\* The event is sent, or the receiver has gone and the input is lost.
Sent(c) ==
    /\ task[c] = "sending"
    /\ \/ /\ receiving
          /\ Len(events) < EventCapacity
          /\ events' = Append(events, <<"bytes", c>>)
          /\ UNCHANGED stats
       \/ /\ ~receiving
          /\ stats' = [stats EXCEPT ![c].unread = @ - 1]
          /\ UNCHANGED events
    /\ task' = [task EXCEPT ![c] = "select"]
    /\ UNCHANGED <<reads, output, closed, compression>> /\ UNCHANGED ownerVars

\* The peer has closed or the read fails.
ReadEnds(c) ==
    /\ task[c] = "select"
    /\ Leave(c, stats[c])
    /\ UNCHANGED <<events, reads, compression>> /\ UNCHANGED ownerVars

\* The next message of the output channel: text and the compression marker are
\* written, a close or the end of the channel finishes the stream.
Recv(c) ==
    /\ task[c] = "select"
    /\ \/ /\ output[c] # <<>>
          /\ output' = [output EXCEPT ![c] = Tail(@)]
          /\ task' = [task EXCEPT ![c] = CASE Head(output[c]) = "bytes" -> "writing"
                                         [] Head(output[c]) = "compress" -> "starting"
                                         [] Head(output[c]) = "close" -> "finishing"]
       \/ /\ output[c] = <<>> /\ session[c] = "gone"
          /\ task' = [task EXCEPT ![c] = "finishing"]
          /\ UNCHANGED output
    /\ UNCHANGED <<events, reads, closed, stats, compression>> /\ UNCHANGED ownerVars

\* The write is done, or it fails or runs into its timeout.
Written(c) ==
    /\ task[c] = "writing"
    /\ \/ /\ stats' = [stats EXCEPT ![c].pending = @ - 1, ![c].balance = @ - 1]
          /\ task' = [task EXCEPT ![c] = "select"]
          /\ UNCHANGED <<output, closed>>
       \/ Leave(c, [stats[c] EXCEPT !.pending = @ - 1, !.balance = @ - 1])
    /\ UNCHANGED <<events, reads, compression>> /\ UNCHANGED ownerVars

\* Writer::start, which turns compression on after its marker is written.
Started(c) ==
    /\ task[c] = "starting"
    /\ \/ /\ compression' = [compression EXCEPT ![c] = 2]
          /\ task' = [task EXCEPT ![c] = "select"]
          /\ UNCHANGED <<output, closed, stats>>
       \/ Leave(c, stats[c]) /\ UNCHANGED compression
    /\ UNCHANGED <<events, reads>> /\ UNCHANGED ownerVars

\* Writer::finish ends or runs into its timeout; meanwhile the owner may still
\* queue output that nobody will write.
Finished(c) ==
    /\ task[c] = "finishing"
    /\ Leave(c, stats[c])
    /\ UNCHANGED <<events, reads, compression>> /\ UNCHANGED ownerVars

\* The end of the task is the last event it sends.
SendGone(c) ==
    /\ task[c] = "leaving"
    /\ \/ /\ receiving
          /\ Len(events) < EventCapacity
          /\ events' = Append(events, <<"gone", c>>)
       \/ ~receiving /\ UNCHANGED events
    /\ task' = [task EXCEPT ![c] = "ended"]
    /\ UNCHANGED <<reads, output, closed, compression, stats>> /\ UNCHANGED ownerVars

-----------------------------------------------------------------------------
Init ==
    /\ owner = Loop
    /\ events = <<>>
    /\ receiving = TRUE
    /\ session = [c \in Conns |-> "none"]
    /\ failed = [c \in Conns |-> FALSE]
    /\ output = [c \in Conns |-> <<>>]
    /\ closed = [c \in Conns |-> FALSE]
    /\ task = [c \in Conns |-> "none"]
    /\ reads = 0
    /\ compression = [c \in Conns |-> 0]
    /\ stats = [c \in Conns |-> NoStats]

OwnerNext ==
    \/ \E c \in Conns : Accept(c) \/ Bytes(c) \/ Gone(c) \/ TimesOut(c)
    \/ Tick
    \/ ChunkSent
    \/ ChunkFails
    \/ Shutdown
    \/ DropReceiver
    \/ Joined
    \/ Abort

TaskNext(c) ==
    \/ Read(c) \/ Sent(c) \/ ReadEnds(c)
    \/ Recv(c) \/ Written(c) \/ Started(c) \/ Finished(c)
    \/ SendGone(c)

Next == OwnerNext \/ \E c \in Conns : TaskNext(c)

Spec == Init /\ [][Next]_vars

\* Arms of a `select!` that stay ready are taken; a channel gives room in the
\* order of the waiters; waiting for a socket or for a slot ends by a timeout.
\* Nothing is assumed of the peers, of requests and of the abort.
FairSpec ==
    /\ Spec
    /\ WF_vars(Tick)
    /\ WF_vars(ChunkSent \/ ChunkFails)
    /\ WF_vars(DropReceiver)
    /\ WF_vars(Joined)
    /\ \A c \in Conns :
        /\ WF_vars(Bytes(c))
        /\ WF_vars(Gone(c))
        /\ WF_vars(Sent(c))
        /\ WF_vars(Recv(c))
        /\ WF_vars(Written(c))
        /\ WF_vars(Started(c))
        /\ WF_vars(Finished(c))
        /\ WF_vars(SendGone(c))

-----------------------------------------------------------------------------
(* Properties                                                               *)

\* The counters an operator sees are exact at every await: what is pending is
\* in the channel or being written, everything ever offered was taken by the
\* socket, is pending or counts as lost, and input that was not consumed is
\* on its way to the owner (sessions.rs `raw` and `deliver_spans`,
\* connection.rs `connection` and `input`).
CountersExact ==
    \A c \in Conns :
        LET awaited == IF owner.at = "report" /\ owner.conn = c THEN 1 ELSE 0
            inWrite == IF task[c] = "writing" THEN 1 ELSE 0
            inSend  == IF task[c] = "sending" THEN 1 ELSE 0
            sent    == Cardinality({i \in DOMAIN events : events[i] = <<"bytes", c>>})
        IN  /\ task[c] # "aborted" =>
                /\ stats[c].pending = Queued(c) + inWrite
                /\ stats[c].balance = stats[c].pending + awaited
            /\ session[c] = "open" => stats[c].unread = sent + inSend

\* Compression is starting exactly while its one marker is on the way to the
\* socket, so it is never started twice and a marker that found no room can be
\* offered again (sessions.rs `protocol`, transport.rs `start`).
OneMarker ==
    \A c \in Conns :
        LET markers == Cardinality({i \in DOMAIN output[c] : output[c][i] = "compress"})
                       + (IF task[c] = "starting" THEN 1 ELSE 0)
        IN  /\ markers <= 1
            /\ task[c] \in {"select", "sending", "writing", "starting", "finishing"}
                    => (compression[c] = 1 <=> markers = 1)

\* What transport::Stats says of a connection is exact between any two awaits of
\* the owner and the task, who both write it.
StatsExact == CountersExact /\ OneMarker

\* A peer that stops reading, or a task that itself waits for the owner, cannot
\* hold the owner in a report (sessions.rs `deliver_spans`; the test in
\* server/operations.rs says so of a reader that stops draining).
OwnerReturns == owner.at = "report" ~> owner.at # "report"

\* A session that is disconnected, whose output failed or whose task left its
\* loop goes away, and so does the task, without being aborted: neither the
\* owner nor a task keeps the other alive, and a shutdown ends all of them.
Broken(c) == session[c] = "gone" \/ failed[c] \/ closed[c]
ConnectionsEnd ==
    \A c \in Conns :
        Broken(c) ~> \/ session[c] = "gone" /\ task[c] = "ended"
                     \/ task[c] = "aborted"
=============================================================================
