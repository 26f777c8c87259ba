-------------------------- MODULE ConnectionProofs --------------------------
(***************************************************************************)
(* Proofs about a connection.  The first part is about the world owner and   *)
(* the socket tasks, for any number of connections, capacities, chunks and   *)
(* reads.  The second part is about the options that the two ends of a       *)
(* connection negotiate, for any number of requests of both ends and every   *)
(* way they cross; the two specifications share no variable.                 *)
(***************************************************************************)
EXTENDS Connection, TelnetOption, FiniteSetTheorems, SequenceTheorems, TLAPS

-----------------------------------------------------------------------------
(* The inductive invariant.                                                 *)

\* How often a message occurs in a channel.
Num(w, v) == Cardinality({i \in DOMAIN w : w[i] = v})

Messages == {"bytes", "close", "compress"}
Counters == [balance : Int, pending : Int, unread : Int]
SideType == [out : Seq(Messages), stats : Counters, failed : BOOLEAN,
             compression : {0, 1, 2}]
Idle == {Loop, Stopping, Joining, Ended}
InReport == [at : {"report"}, conn : Conns, left : Int, welcome : BOOLEAN]
EventType == {"bytes", "gone"} \X Conns
Running == {"select", "sending", "writing", "starting", "finishing"}
Over == {"leaving", "ended"}

\* What is left to be offered, or in the hands of the task.
Awaited(c) == IF owner.at = "report" /\ owner.conn = c THEN 1 ELSE 0
InWrite(c) == IF task[c] = "writing" THEN 1 ELSE 0
InSend(c) == IF task[c] = "sending" THEN 1 ELSE 0
InStart(c) == IF task[c] = "starting" THEN 1 ELSE 0

TypeInv ==
    /\ owner \in Idle \cup InReport
    /\ events \in Seq(EventType)
    /\ receiving \in BOOLEAN
    /\ session \in [Conns -> {"none", "open", "gone"}]
    /\ failed \in [Conns -> BOOLEAN]
    /\ output \in [Conns -> Seq(Messages)]
    /\ closed \in [Conns -> BOOLEAN]
    /\ task \in [Conns -> {"none", "aborted"} \cup Running \cup Over]
    /\ reads \in Int
    /\ compression \in [Conns -> {0, 1, 2}]
    /\ stats \in [Conns -> Counters]

\* The output of a connection whose task was not aborted is accounted for.
Held(c) ==
    task[c] # "aborted" =>
        /\ stats[c].pending = Num(output[c], "bytes") + InWrite(c)
        /\ stats[c].balance = stats[c].pending + Awaited(c)

\* The compression marker is on its way exactly while compression is starting.
Marked(c) ==
    /\ Num(output[c], "compress") + InStart(c) <= 1
    /\ task[c] \in Running => (compression[c] = 1 <=> Num(output[c], "compress") + InStart(c) = 1)

\* The input of an open session is accounted for.
Heard(c) ==
    session[c] = "open" => stats[c].unread = Num(events, <<"bytes", c>>) + InSend(c)

\* A connection that was not accepted yet has left no trace.
Fresh(c) ==
    task[c] = "none" =>
        /\ Side(c) = [out |-> <<>>, stats |-> NoStats, failed |-> FALSE, compression |-> 0]
        /\ ~closed[c]
        /\ Num(events, <<"bytes", c>>) = 0
        /\ Awaited(c) = 0

\* How the session, the task, the channel and the owner's phases go together.
Phase(c) ==
    /\ session[c] = "none" <=> task[c] = "none"
    /\ task[c] \in Over => closed[c]
    /\ task[c] = "aborted" => owner = Ended
    /\ owner \in {Stopping, Joining, Ended} => session[c] # "open"
    /\ ~receiving => owner \in {Joining, Ended}

ConnInv(c) == Held(c) /\ Marked(c) /\ Heard(c) /\ Fresh(c) /\ Phase(c)

IInv == TypeInv /\ \A c \in Conns : ConnInv(c)

-----------------------------------------------------------------------------
(* Counting the messages of a channel.                                      *)

\* A count is a natural number.
LEMMA NumType ==
    ASSUME NEW S, NEW w \in Seq(S), NEW v
    PROVE  Num(w, v) \in Nat /\ IsFiniteSet({i \in DOMAIN w : w[i] = v})
<1>1. DOMAIN w = 1 .. Len(w) /\ Len(w) \in Nat
  OBVIOUS
<1>2. IsFiniteSet(1 .. Len(w))
  BY <1>1, FS_Interval
<1>3. {i \in DOMAIN w : w[i] = v} \subseteq 1 .. Len(w)
  BY <1>1
<1>4. IsFiniteSet({i \in DOMAIN w : w[i] = v})
  BY <1>2, <1>3, FS_Subset
<1> QED BY <1>4, FS_CardinalityType DEF Num

\* Nothing occurs in an empty channel.
LEMMA NumEmpty == ASSUME NEW v PROVE Num(<<>>, v) = 0
<1>1. {i \in DOMAIN <<>> : <<>>[i] = v} = {}
  OBVIOUS
<1> QED BY <1>1, FS_EmptySet DEF Num

\* A message that is queued occurs once more, the others as often as before.
LEMMA NumAppend ==
    ASSUME NEW S, NEW w \in Seq(S), NEW m \in S, NEW v
    PROVE  Num(Append(w, m), v) = Num(w, v) + (IF m = v THEN 1 ELSE 0)
<1> DEFINE A == {i \in DOMAIN w : w[i] = v}
           B == {i \in DOMAIN Append(w, m) : Append(w, m)[i] = v}
           n == Len(w) + 1
<1>1. /\ IsFiniteSet(A) /\ Num(w, v) = Cardinality(A)
      /\ Num(Append(w, m), v) = Cardinality(B) /\ Num(w, v) \in Nat
  BY NumType DEF Num
<1>0. n \notin A
  OBVIOUS
<1>2. B = IF m = v THEN A \cup {n} ELSE A
  <2>1. /\ DOMAIN Append(w, m) = 1 .. Len(w) + 1 /\ DOMAIN w = 1 .. Len(w) /\ Len(w) \in Nat
        /\ \A i \in 1 .. Len(w) : Append(w, m)[i] = w[i]
        /\ Append(w, m)[n] = m
    OBVIOUS
  <2> QED BY <2>1
<1> HIDE DEF A, B, n
<1>3. Cardinality(A \cup {n}) = Cardinality(A) + 1
  BY <1>0, <1>1, FS_AddElement
<1> QED BY <1>1, <1>2, <1>3

\* A message that is taken occurs once less, the others as often as before.
LEMMA NumTail ==
    ASSUME NEW S, NEW w \in Seq(S), w # <<>>, NEW v
    PROVE  Num(Tail(w), v) = Num(w, v) - (IF Head(w) = v THEN 1 ELSE 0)
<1> DEFINE A == {i \in DOMAIN w : w[i] = v}
           B == {i \in DOMAIN Tail(w) : Tail(w)[i] = v}
           R == A \ {1}
           f == [i \in R |-> i - 1]
<1>1. /\ Tail(w) \in Seq(S) /\ Len(w) \in Nat \ {0} /\ Len(Tail(w)) = Len(w) - 1
      /\ DOMAIN w = 1 .. Len(w) /\ DOMAIN Tail(w) = 1 .. Len(w) - 1
      /\ \A i \in 1 .. Len(w) - 1 : Tail(w)[i] = w[i + 1]
      /\ Head(w) = w[1]
  OBVIOUS
<1>2. /\ IsFiniteSet(A) /\ Num(w, v) = Cardinality(A) /\ Num(w, v) \in Nat
      /\ Num(Tail(w), v) = Cardinality(B)
  BY NumType DEF Num
<1>3. IsFiniteSet(R) /\ Cardinality(R) = Cardinality(A) - (IF 1 \in A THEN 1 ELSE 0)
  <2>1. CASE 1 \in A
    BY <1>2, <2>1, FS_RemoveElement
  <2>2. CASE 1 \notin A
    <3>1. R = A
      BY <2>2
    <3>2. Cardinality(A) \in Nat
      BY <1>2
    <3> HIDE DEF A, R
    <3> QED BY <1>2, <2>2, <3>1, <3>2
  <2> QED BY <2>1, <2>2
<1>4. 1 \in A <=> Head(w) = v
  BY <1>1
<1>5. f \in Bijection(R, B)
  <2>1. \A i \in R : i \in 2 .. Len(w) /\ w[i] = v /\ f[i] = i - 1
    BY <1>1
  <2>2. \A i \in R : f[i] \in B
    BY <1>1, <2>1
  <2>3. f \in [R -> B]
    BY <2>2
  <2>4. \A a, b \in R : f[a] = f[b] => a = b
    BY <2>1
  <2>5. \A j \in B : j + 1 \in R /\ f[j + 1] = j
    BY <1>1
  <2>6. f \in Injection(R, B)
    BY <2>3, <2>4 DEF Injection, IsInjective
  <2>7. f \in Surjection(R, B)
    BY <2>3, <2>5 DEF Surjection
  <2> QED BY <2>6, <2>7 DEF Bijection
<1>6. Cardinality(R) = Cardinality(B)
  <2>1. ExistsBijection(R, B)
    BY <1>5 DEF ExistsBijection
  <2> QED BY <1>3, <2>1, FS_Bijection
<1> QED BY <1>2, <1>3, <1>4, <1>6

-----------------------------------------------------------------------------
(* What the owner's operations on a session leave as it was.                *)

\* Output that is counted as pending and not in the channel, output that is
\* counted as offered and not pending yet, and markers in the channel.
Owed(s) == s.stats.pending - Num(s.out, "bytes")
Lent(s) == s.stats.balance - s.stats.pending
Markers(s) == Num(s.out, "compress")

\* The owner queues something, or nothing, and its counters agree with that.
Same(s, t) ==
    /\ t \in SideType
    /\ Owed(t) = Owed(s)
    /\ Lent(t) = Lent(s)
    /\ t.stats.unread = s.stats.unread
    /\ t.compression = s.compression
    /\ Markers(t) = Markers(s)

LEMMA SameItself == ASSUME NEW s \in SideType PROVE Same(s, s)
BY DEF Same

LEMMA SameTwice ==
    ASSUME NEW s, NEW t, NEW u, Same(s, t), Same(t, u)
    PROVE  Same(s, u)
BY DEF Same

\* The parts of a side, and of one whose parts are given.
LEMMA SideParts ==
    ASSUME NEW s \in SideType
    PROVE  /\ s.out \in Seq(Messages)
           /\ s.stats \in Counters
           /\ s.stats.balance \in Int /\ s.stats.pending \in Int /\ s.stats.unread \in Int
           /\ s.failed \in BOOLEAN
           /\ s.compression \in {0, 1, 2}
           /\ Num(s.out, "bytes") \in Nat
           /\ Num(s.out, "compress") \in Nat
<1>1. s.out \in Seq(Messages)
  BY DEF SideType
<1> QED BY <1>1, NumType DEF SideType, Counters

\* Counters with other output counters, and a side with another channel and
\* other counters.
Counted(r, x, y) == [r EXCEPT !.balance = x, !.pending = y]
With(s, x, y) == [s EXCEPT !.out = x, !.stats = y]

LEMMA CountersSet ==
    ASSUME NEW r \in Counters, NEW x \in Int, NEW y \in Int
    PROVE  /\ Counted(r, x, y) \in Counters
           /\ Counted(r, x, y).balance = x
           /\ Counted(r, x, y).pending = y
           /\ Counted(r, x, y).unread = r.unread
BY DEF Counters, Counted

LEMMA SideSet ==
    ASSUME NEW s \in SideType, NEW x \in Seq(Messages), NEW y \in Counters
    PROVE  /\ With(s, x, y) \in SideType
           /\ With(s, x, y).out = x
           /\ With(s, x, y).stats = y
           /\ With(s, x, y).compression = s.compression
           /\ With(s, x, y).failed = s.failed
BY DEF SideType, With

\* A message in the channel that nobody counts.
LEMMA ClosingQueued ==
    ASSUME NEW s \in SideType
    PROVE  Same(s, [s EXCEPT !.out = Append(@, "close")])
<1> DEFINE t == [s EXCEPT !.out = Append(@, "close")]
<1>1. s.out \in Seq(Messages) /\ "close" \in Messages
  BY SideParts DEF Messages
<1>2. /\ t \in SideType /\ t.stats = s.stats /\ t.compression = s.compression
      /\ t.out = Append(s.out, "close")
  BY <1>1 DEF SideType
<1>3. /\ Num(Append(s.out, "close"), "bytes") = Num(s.out, "bytes")
      /\ Num(Append(s.out, "close"), "compress") = Num(s.out, "compress")
  <2>1. Num(s.out, "bytes") \in Nat /\ Num(s.out, "compress") \in Nat
    BY SideParts
  <2>2. /\ Num(Append(s.out, "close"), "bytes") = Num(s.out, "bytes") + (IF "close" = "bytes" THEN 1 ELSE 0)
        /\ Num(Append(s.out, "close"), "compress") = Num(s.out, "compress") + (IF "close" = "compress" THEN 1 ELSE 0)
    BY <1>1, NumAppend
  <2> QED BY <2>1, <2>2
<1> HIDE DEF t
<1>4. Same(s, t)
  BY <1>2, <1>3 DEF Same, Owed, Lent, Markers
<1> QED BY <1>4 DEF t

\* A counted message in the channel.
LEMMA BytesQueued ==
    ASSUME NEW s \in SideType,
           NEW t \in SideType,
           t.out = Append(s.out, "bytes"),
           t.stats.pending = s.stats.pending + 1
    PROVE  Owed(t) = Owed(s) /\ Markers(t) = Markers(s)
<1>1. s.out \in Seq(Messages) /\ "bytes" \in Messages
  BY SideParts DEF Messages
<1>2. /\ Num(s.out, "bytes") \in Nat /\ Num(s.out, "compress") \in Nat
      /\ s.stats.pending \in Int
  BY SideParts
<1>3. /\ Num(t.out, "bytes") = Num(s.out, "bytes") + (IF "bytes" = "bytes" THEN 1 ELSE 0)
      /\ Num(t.out, "compress") = Num(s.out, "compress") + (IF "bytes" = "compress" THEN 1 ELSE 0)
  BY <1>1, NumAppend
<1>4. Num(t.out, "bytes") = Num(s.out, "bytes") + 1 /\ Num(t.out, "compress") = Num(s.out, "compress")
  BY <1>2, <1>3
<1>5. Markers(t) = Markers(s)
  BY <1>4 DEF Markers
<1>6. Owed(t) = Owed(s)
  <2>1. \A p \in Int, n \in Nat : (p + 1) - (n + 1) = p - n
    OBVIOUS
  <2> QED BY <1>2, <1>4, <2>1 DEF Owed
<1> QED BY <1>5, <1>6

LEMMA RawKeeps ==
    ASSUME NEW s \in SideType, NEW c, NEW fits PROVE Same(s, Raw(s, c, fits))
<1> DEFINE t == [s EXCEPT !.out = Append(@, "bytes"),
                          !.stats.balance = @ + 1, !.stats.pending = @ + 1]
           u == [s EXCEPT !.failed = TRUE]
<1>0. Raw(s, c, fits) = t \/ Raw(s, c, fits) = u
  BY DEF Raw
<1>1. Same(s, t)
  <2>1. s.out \in Seq(Messages) /\ "bytes" \in Messages /\ s.stats \in Counters
    BY SideParts DEF Messages
  <2> DEFINE r == [s.stats EXCEPT !.balance = @ + 1, !.pending = @ + 1]
  <2>0. /\ r \in Counters
        /\ r.balance = s.stats.balance + 1 /\ r.pending = s.stats.pending + 1
        /\ r.unread = s.stats.unread
    <3>1. r = Counted(s.stats, s.stats.balance + 1, s.stats.pending + 1)
      BY <2>1 DEF Counters, Counted
    <3> HIDE DEF r
    <3>2. s.stats.balance + 1 \in Int /\ s.stats.pending + 1 \in Int
      BY SideParts
    <3> QED BY <2>1, <3>1, <3>2, CountersSet
  <2>5. t = With(s, Append(s.out, "bytes"), r)
    BY DEF With
  <2> HIDE DEF t, r
  <2>6. Append(s.out, "bytes") \in Seq(Messages)
    BY <2>1
  <2>2. /\ t \in SideType
        /\ t.out = Append(s.out, "bytes")
        /\ t.stats.pending = s.stats.pending + 1
        /\ t.stats.balance = s.stats.balance + 1
        /\ t.stats.unread = s.stats.unread
        /\ t.compression = s.compression
    BY <2>0, <2>5, <2>6, SideSet
  <2>7. s.stats.pending \in Int /\ s.stats.balance \in Int
    BY SideParts
  <2>3. Owed(t) = Owed(s) /\ Markers(t) = Markers(s)
    BY <2>2, BytesQueued
  <2>4. Lent(t) = Lent(s)
    BY <2>2, <2>7 DEF Lent
  <2> QED BY <2>2, <2>3, <2>4 DEF Same
<1>2. Same(s, u)
  <2>1. u \in SideType /\ u.out = s.out /\ u.stats = s.stats /\ u.compression = s.compression
    BY DEF SideType
  <2> HIDE DEF u
  <2> QED BY <2>1 DEF Same, Owed, Lent, Markers
<1> QED BY <1>0, <1>1, <1>2

LEMMA CloseKeeps ==
    ASSUME NEW s \in SideType, NEW c PROVE Same(s, Close(s, c))
BY SameItself, ClosingQueued DEF Close

LEMMA TellKeeps ==
    ASSUME NEW s \in SideType, NEW c, NEW fits PROVE Same(s, Tell(s, c, fits))
<1>1. Same(s, Raw(s, c, fits)) /\ Raw(s, c, fits) \in SideType
  BY RawKeeps DEF Same
<1>2. Same(Raw(s, c, fits), Close(Raw(s, c, fits), c))
  BY <1>1, CloseKeeps
<1>3. Same(s, Close(Raw(s, c, fits), c))
  BY <1>1, <1>2, SameTwice
<1> QED BY <1>1, <1>3 DEF Tell

LEMMA ReportedKeeps ==
    ASSUME NEW s \in SideType, NEW c, NEW welcome, NEW delivered
    PROVE  Same(s, Reported(c, welcome, s, delivered))
BY SameItself, RawKeeps, TellKeeps DEF Reported

\* A side on which one more (a) output is offered and not pending yet, and one
\* more (u) input is unread.
Shift(s, t, a, u) ==
    /\ t \in SideType
    /\ Owed(t) = Owed(s)
    /\ Lent(t) = Lent(s) + a
    /\ t.stats.unread = s.stats.unread + u
    /\ t.compression = s.compression
    /\ Markers(t) = Markers(s)

LEMMA ShiftNothing ==
    ASSUME NEW s \in SideType, NEW t, Same(s, t) PROVE Shift(s, t, 0, 0)
<1>1. Lent(s) \in Int /\ s.stats.unread \in Int
  BY SideParts DEF Lent
<1> QED BY <1>1 DEF Shift, Same

LEMMA ShiftThen ==
    ASSUME NEW s, NEW t, NEW v, NEW a, NEW u, Shift(s, t, a, u), Same(t, v)
    PROVE  Shift(s, v, a, u)
BY DEF Shift, Same

\* Only the counters change.
LEMMA CountersMoved ==
    ASSUME NEW s \in SideType, NEW t \in SideType, NEW a \in Int, NEW u \in Int,
           t.out = s.out, t.compression = s.compression,
           t.stats.pending = s.stats.pending,
           t.stats.balance = s.stats.balance + a,
           t.stats.unread = s.stats.unread + u
    PROVE  Shift(s, t, a, u)
<1>1. Owed(t) = Owed(s) /\ Markers(t) = Markers(s)
  BY DEF Owed, Markers
<1>2. Lent(t) = Lent(s) + a
  <2>1. s.stats.balance \in Int /\ s.stats.pending \in Int
    BY SideParts
  <2>2. \A x, y \in Int : (x + a) - y = (x - y) + a
    OBVIOUS
  <2> QED BY <2>1, <2>2 DEF Lent
<1> QED BY <1>1, <1>2 DEF Shift

\* The next chunk is counted as offered, and one that got no slot no more.
LEMMA Offered ==
    ASSUME NEW s \in SideType
    PROVE  /\ Shift(s, [s EXCEPT !.stats.balance = @ + 1], 1, 0)
           /\ Shift(s, [s EXCEPT !.stats.balance = @ - 1, !.failed = TRUE], -1, 0)
<1>0. s.stats.balance \in Int /\ s.stats.pending \in Int /\ s.stats.unread \in Int
  BY SideParts
<1>1. Shift(s, [s EXCEPT !.stats.balance = @ + 1], 1, 0)
  <2> DEFINE t == [s EXCEPT !.stats.balance = @ + 1]
  <2>1. /\ t \in SideType /\ t.out = s.out /\ t.compression = s.compression
        /\ t.stats.pending = s.stats.pending /\ t.stats.balance = s.stats.balance + 1
        /\ t.stats.unread = s.stats.unread
    BY DEF SideType, Counters
  <2> HIDE DEF t
  <2>2. t.stats.unread = s.stats.unread + 0
    BY <1>0, <2>1
  <2>3. Shift(s, t, 1, 0)
    BY <2>1, <2>2, CountersMoved
  <2> QED BY <2>3 DEF t
<1>2. Shift(s, [s EXCEPT !.stats.balance = @ - 1, !.failed = TRUE], -1, 0)
  <2> DEFINE t == [s EXCEPT !.stats.balance = @ - 1, !.failed = TRUE]
  <2>1. /\ t \in SideType /\ t.out = s.out /\ t.compression = s.compression
        /\ t.stats.pending = s.stats.pending /\ t.stats.balance = s.stats.balance - 1
        /\ t.stats.unread = s.stats.unread
    <3> DEFINE r == [s EXCEPT !.stats.balance = @ - 1]
    <3>1. /\ r \in SideType /\ r.out = s.out /\ r.compression = s.compression
          /\ r.stats.pending = s.stats.pending /\ r.stats.balance = s.stats.balance - 1
          /\ r.stats.unread = s.stats.unread
      BY DEF SideType, Counters
    <3>2. t = [r EXCEPT !.failed = TRUE]
      OBVIOUS
    <3> HIDE DEF r, t
    <3>3. t \in SideType /\ t.out = r.out /\ t.compression = r.compression /\ t.stats = r.stats
      BY <3>1, <3>2 DEF SideType
    <3> QED BY <3>1, <3>3
  <2> HIDE DEF t
  <2>2. t.stats.unread = s.stats.unread + 0 /\ t.stats.balance = s.stats.balance + (-1)
    BY <1>0, <2>1
  <2>3. Shift(s, t, -1, 0)
    BY <2>1, <2>2, CountersMoved
  <2> QED BY <2>3 DEF t
<1> QED BY <1>1, <1>2

\* Input is consumed, and an answer of several chunks starts.
LEMMA Consumed ==
    ASSUME NEW s \in SideType, NEW r, r = [s EXCEPT !.stats.unread = @ - 1]
    PROVE  /\ Shift(s, r, 0, -1)
           /\ Shift(s, [r EXCEPT !.stats.balance = @ + 1], 1, -1)
<1>0. s.stats.balance \in Int /\ s.stats.pending \in Int /\ s.stats.unread \in Int
  BY SideParts
<1>1. /\ r \in SideType /\ r.out = s.out /\ r.compression = s.compression
      /\ r.stats.pending = s.stats.pending /\ r.stats.balance = s.stats.balance
      /\ r.stats.unread = s.stats.unread - 1
  BY DEF SideType, Counters
<1>2. Shift(s, r, 0, -1)
  <2>1. r.stats.unread = s.stats.unread + (-1) /\ r.stats.balance = s.stats.balance + 0
    BY <1>0, <1>1
  <2>2. 0 \in Int /\ -1 \in Int
    OBVIOUS
  <2> QED BY ONLY s \in SideType, <1>1, <2>1, <2>2, CountersMoved
<1>3. Shift(s, [r EXCEPT !.stats.balance = @ + 1], 1, -1)
  <2> DEFINE t == [r EXCEPT !.stats.balance = @ + 1]
  <2>1. Shift(r, t, 1, 0)
    BY <1>1, Offered
  <2>2. r.stats.unread + 0 = s.stats.unread + (-1) /\ Lent(r) = Lent(s)
    BY <1>0, <1>1 DEF Lent
  <2> HIDE DEF t
  <2>3. Shift(s, t, 1, -1)
    BY <1>2, <2>1, <2>2 DEF Shift
  <2> QED BY <2>3 DEF t
<1> QED BY <1>2, <1>3

\* A chunk takes its slot: it is pending now, and one less is only offered.
LEMMA ChunkQueued ==
    ASSUME NEW s \in SideType, NEW t,
           t = [s EXCEPT !.out = Append(@, "bytes"), !.stats.pending = @ + 1]
    PROVE  /\ Shift(s, t, -1, 0)
           /\ Shift(s, [t EXCEPT !.stats.balance = @ + 1], 0, 0)
<1>0. s.stats.balance \in Int /\ s.stats.pending \in Int /\ s.stats.unread \in Int
  BY SideParts
<1>1. s.out \in Seq(Messages) /\ "bytes" \in Messages /\ s.stats \in Counters
  BY SideParts DEF Messages
<1>2. /\ t \in SideType
      /\ t.out = Append(s.out, "bytes")
      /\ t.stats.pending = s.stats.pending + 1
      /\ t.stats.balance = s.stats.balance
      /\ t.stats.unread = s.stats.unread
      /\ t.compression = s.compression
  <2> DEFINE r == [s.stats EXCEPT !.pending = @ + 1]
  <2>1. /\ r \in Counters /\ r.pending = s.stats.pending + 1
        /\ r.balance = s.stats.balance /\ r.unread = s.stats.unread
    BY <1>1, <1>0 DEF Counters
  <2>2. t = With(s, Append(s.out, "bytes"), r)
    BY DEF With
  <2>3. Append(s.out, "bytes") \in Seq(Messages)
    BY <1>1
  <2> HIDE DEF r
  <2>4. /\ With(s, Append(s.out, "bytes"), r) \in SideType
        /\ With(s, Append(s.out, "bytes"), r).out = Append(s.out, "bytes")
        /\ With(s, Append(s.out, "bytes"), r).stats = r
        /\ With(s, Append(s.out, "bytes"), r).compression = s.compression
    BY ONLY s \in SideType, <2>1, <2>3, SideSet
  <2> QED BY ONLY <2>1, <2>2, <2>4
<1>3. Owed(t) = Owed(s) /\ Markers(t) = Markers(s)
  BY <1>2, BytesQueued
<1>4. Shift(s, t, -1, 0)
  <2>1. Lent(t) = Lent(s) + (-1) /\ t.stats.unread = s.stats.unread + 0
    BY <1>0, <1>2 DEF Lent
  <2> QED BY <1>2, <1>3, <2>1 DEF Shift
<1>5. Shift(s, [t EXCEPT !.stats.balance = @ + 1], 0, 0)
  <2> DEFINE v == [t EXCEPT !.stats.balance = @ + 1]
  <2>1. Shift(t, v, 1, 0)
    BY <1>2, Offered
  <2>2. /\ t.stats.unread + 0 = s.stats.unread + 0
        /\ Lent(t) + 1 = Lent(s) + 0
    BY <1>0, <1>2 DEF Lent
  <2> HIDE DEF v
  <2>3. Shift(s, v, 0, 0)
    BY <1>3, <1>2, <2>1, <2>2 DEF Shift
  <2> QED BY <2>3 DEF v
<1> QED BY <1>4, <1>5

\* Compression starts at most once, and its marker goes into the channel then.
Begun(s, t) ==
    /\ t \in SideType
    /\ s.compression = 0 /\ t.compression = 1
    /\ Markers(t) = Markers(s) + 1
    /\ Owed(t) = Owed(s)
    /\ Lent(t) = Lent(s)
    /\ t.stats.unread = s.stats.unread

LEMMA StartCompressionKeeps ==
    ASSUME NEW s \in SideType, NEW c, NEW t, t = StartCompression(s, c)
    PROVE  Same(s, t) \/ (Begun(s, t) /\ ~closed[c])
<1> DEFINE m == [s EXCEPT !.compression = 1, !.out = Append(@, "compress")]
           u == [s EXCEPT !.failed = TRUE]
<1>0. \/ t = s \/ t = u
      \/ t = m /\ s.compression = 0 /\ ~closed[c]
  <2>1. CASE s.compression # 0
    BY <2>1 DEF StartCompression
  <2>2. CASE s.compression = 0 /\ Room(s.out, c)
    BY <2>2 DEF StartCompression, Room
  <2>3. CASE s.compression = 0 /\ ~Room(s.out, c)
    BY <2>3 DEF StartCompression
  <2> QED BY <2>1, <2>2, <2>3
<1>1. Same(s, s)
  BY SameItself
<1>2. Same(s, u)
  <2>1. u \in SideType /\ u.out = s.out /\ u.stats = s.stats /\ u.compression = s.compression
    BY DEF SideType
  <2> HIDE DEF u
  <2> QED BY <2>1 DEF Same, Owed, Lent, Markers
<1>3. s.compression = 0 => Begun(s, m)
  <2>1. s.out \in Seq(Messages) /\ "compress" \in Messages
    BY SideParts DEF Messages
  <2>2. /\ m \in SideType /\ m.stats = s.stats /\ m.compression = 1
        /\ m.out = Append(s.out, "compress")
    <3> DEFINE x == Append(s.out, "compress")
    <3>1. x \in Seq(Messages)
      BY <2>1
    <3>2. m = [s EXCEPT !.compression = 1, !.out = x]
      OBVIOUS
    <3> HIDE DEF x, m
    <3>3. m \in SideType /\ m.stats = s.stats /\ m.compression = 1 /\ m.out = x
      BY ONLY s \in SideType, <3>1, <3>2 DEF SideType
    <3> QED BY <3>3 DEF x
  <2>3. /\ Num(Append(s.out, "compress"), "bytes") = Num(s.out, "bytes") + (IF "compress" = "bytes" THEN 1 ELSE 0)
        /\ Num(Append(s.out, "compress"), "compress") = Num(s.out, "compress") + (IF "compress" = "compress" THEN 1 ELSE 0)
    BY <2>1, NumAppend
  <2>4. Num(s.out, "bytes") \in Nat /\ Num(s.out, "compress") \in Nat
    BY SideParts
  <2>5. /\ Num(Append(s.out, "compress"), "bytes") = Num(s.out, "bytes")
        /\ Num(Append(s.out, "compress"), "compress") = Num(s.out, "compress") + 1
    BY <2>3, <2>4
  <2> HIDE DEF m
  <2> QED BY <2>2, <2>5 DEF Begun, Owed, Lent, Markers
<1> HIDE DEF m, u
<1> QED BY ONLY <1>0, <1>1, <1>2, <1>3

-----------------------------------------------------------------------------
(* Installing new sides.                                                    *)

\* The side of a connection is made of its variables.
LEMMA SideIs ==
    ASSUME TypeInv, NEW c \in Conns
    PROVE  /\ Side(c) \in SideType
           /\ Side(c).out = output[c] /\ Side(c).stats = stats[c]
           /\ Side(c).failed = failed[c] /\ Side(c).compression = compression[c]
           /\ Sides \in [Conns -> SideType] /\ Sides[c] = Side(c)
BY DEF TypeInv, Side, Sides, SideType

\* A disconnected session is closed, which leaves its counters as they were.
LEMMA InstallFacts ==
    ASSUME TypeInv, NEW side \in [Conns -> SideType], NEW leaving, Install(side, leaving)
    PROVE  /\ output' \in [Conns -> Seq(Messages)]
           /\ stats' \in [Conns -> Counters]
           /\ failed' \in [Conns -> BOOLEAN]
           /\ compression' \in [Conns -> {0, 1, 2}]
           /\ session' \in [Conns -> {"none", "open", "gone"}]
           /\ \A c \in Conns :
                /\ Same(side[c], Side(c)')
                /\ c \in leaving => session'[c] = "gone"
                /\ c \notin leaving => Side(c)' = side[c] /\ session'[c] = session[c]
<1> DEFINE final(c) == IF c \in leaving THEN Close(side[c], c) ELSE side[c]
<1>1. ASSUME NEW c \in Conns PROVE Same(side[c], final(c))
  BY CloseKeeps, SameItself
<1>2. ASSUME NEW c \in Conns
      PROVE  /\ final(c) \in SideType
             /\ final(c).out \in Seq(Messages) /\ final(c).stats \in Counters
             /\ final(c).failed \in BOOLEAN /\ final(c).compression \in {0, 1, 2}
  <2>1. final(c) \in SideType
    BY <1>1 DEF Same
  <2> HIDE DEF final
  <2> QED BY <2>1, SideParts
<1>3. /\ output' = [c \in Conns |-> final(c).out]
      /\ stats' = [c \in Conns |-> final(c).stats]
      /\ failed' = [c \in Conns |-> final(c).failed]
      /\ compression' = [c \in Conns |-> final(c).compression]
      /\ session' = [c \in Conns |-> IF c \in leaving THEN "gone" ELSE session[c]]
  BY DEF Install
<1>4. ASSUME NEW c \in Conns, c \notin leaving PROVE final(c) = side[c]
  BY <1>4
<1> HIDE DEF final
<1>5. ASSUME NEW c \in Conns PROVE Side(c)' = final(c)
  <2>1. /\ output'[c] = final(c).out /\ stats'[c] = final(c).stats
        /\ failed'[c] = final(c).failed /\ compression'[c] = final(c).compression
    BY <1>3
  <2>2. Side(c)' = [out |-> final(c).out, stats |-> final(c).stats,
                    failed |-> final(c).failed, compression |-> final(c).compression]
    BY <2>1 DEF Side
  <2>3. \A s \in SideType : s = [out |-> s.out, stats |-> s.stats, failed |-> s.failed,
                                 compression |-> s.compression]
    BY DEF SideType
  <2> QED BY <1>2, <2>2, <2>3
<1>6. session \in [Conns -> {"none", "open", "gone"}]
  BY DEF TypeInv
<1>7. ASSUME NEW c \in Conns
      PROVE /\ Same(side[c], Side(c)')
            /\ c \in leaving => session'[c] = "gone"
            /\ c \notin leaving => Side(c)' = side[c] /\ session'[c] = session[c]
  BY <1>1, <1>3, <1>4, <1>5
<1>8. /\ output' \in [Conns -> Seq(Messages)]
      /\ stats' \in [Conns -> Counters]
      /\ failed' \in [Conns -> BOOLEAN]
      /\ compression' \in [Conns -> {0, 1, 2}]
  BY <1>2, <1>3
<1>9. session' \in [Conns -> {"none", "open", "gone"}]
  BY <1>3, <1>6
<1> QED BY <1>7, <1>8, <1>9

\* What an operation of the owner does to a side: a shift, or a shift on which
\* compression starts.
Change(s, t, c, a, u) ==
    /\ t \in SideType
    /\ Owed(t) = Owed(s)
    /\ Lent(t) = Lent(s) + a
    /\ t.stats.unread = s.stats.unread + u
    /\ \/ t.compression = s.compression /\ Markers(t) = Markers(s)
       \/ /\ s.compression = 0 /\ t.compression = 1
          /\ Markers(t) = Markers(s) + 1
          /\ ~closed[c]

LEMMA ShiftChanges ==
    ASSUME NEW s, NEW t, NEW c, NEW a, NEW u, Shift(s, t, a, u)
    PROVE  Change(s, t, c, a, u)
BY DEF Shift, Change

LEMMA BegunChanges ==
    ASSUME NEW s, NEW t, NEW v, NEW c, NEW a, NEW u,
           Shift(s, t, a, u), Begun(t, v), ~closed[c]
    PROVE  Change(s, v, c, a, u)
BY DEF Shift, Begun, Change

LEMMA ChangeThen ==
    ASSUME NEW s, NEW t, NEW v, NEW c, NEW a, NEW u, Change(s, t, c, a, u), Same(t, v)
    PROVE  Change(s, v, c, a, u)
BY DEF Change, Same

BytesOf(c) == Num(events, <<"bytes", c>>)

\* A change by the owner keeps the invariant of a connection.
LEMMA SideKept ==
    ASSUME NEW c \in Conns, TypeInv, ConnInv(c), owner # Ended, task'[c] = task[c],
           NEW a \in Int, NEW u \in Int,
           Change(Side(c), Side(c)', c, a, u),
           Awaited(c)' = Awaited(c) + a,
           session'[c] = "open" => session[c] = "open" /\ BytesOf(c)' = BytesOf(c) + u,
           Fresh(c)', Phase(c)'
    PROVE  ConnInv(c)'
<1>1. /\ Side(c) \in SideType /\ Side(c)' \in SideType
      /\ Side(c).out = output[c] /\ Side(c).stats = stats[c]
      /\ Side(c).compression = compression[c]
  BY SideIs DEF Change
<1>2. /\ Side(c)'.out = output'[c] /\ Side(c)'.stats = stats'[c]
      /\ Side(c)'.compression = compression'[c]
  BY DEF Side
<1>3. /\ stats[c].balance \in Int /\ stats[c].pending \in Int /\ stats[c].unread \in Int
      /\ Num(output[c], "bytes") \in Nat /\ Num(output[c], "compress") \in Nat
      /\ stats'[c].balance \in Int /\ stats'[c].pending \in Int /\ stats'[c].unread \in Int
      /\ Num(output'[c], "bytes") \in Nat /\ Num(output'[c], "compress") \in Nat
  <2>1. /\ Side(c).stats.balance \in Int /\ Side(c).stats.pending \in Int
        /\ Side(c).stats.unread \in Int
        /\ Num(Side(c).out, "bytes") \in Nat /\ Num(Side(c).out, "compress") \in Nat
    BY <1>1, SideParts
  <2> DEFINE t == Side(c)'
  <2>2. t \in SideType /\ t.out = output'[c] /\ t.stats = stats'[c]
    BY <1>1, <1>2
  <2> HIDE DEF t
  <2>3. /\ t.stats.balance \in Int /\ t.stats.pending \in Int /\ t.stats.unread \in Int
        /\ Num(t.out, "bytes") \in Nat /\ Num(t.out, "compress") \in Nat
    BY <2>2, SideParts
  <2> QED BY <1>1, <2>1, <2>2, <2>3
<1>4. /\ stats'[c].pending - Num(output'[c], "bytes") = stats[c].pending - Num(output[c], "bytes")
      /\ stats'[c].balance - stats'[c].pending = stats[c].balance - stats[c].pending + a
      /\ stats'[c].unread = stats[c].unread + u
      /\ \/ /\ compression'[c] = compression[c]
            /\ Num(output'[c], "compress") = Num(output[c], "compress")
         \/ /\ compression[c] = 0 /\ compression'[c] = 1
            /\ Num(output'[c], "compress") = Num(output[c], "compress") + 1
            /\ ~closed[c]
  BY <1>1, <1>2 DEF Change, Owed, Lent, Markers
<1>5. /\ InWrite(c)' = InWrite(c) /\ InSend(c)' = InSend(c) /\ InStart(c)' = InStart(c)
      /\ InWrite(c) \in {0, 1} /\ InSend(c) \in {0, 1} /\ InStart(c) \in {0, 1}
      /\ Awaited(c) \in {0, 1}
  BY DEF InWrite, InSend, InStart, Awaited
<1>6. Held(c)'
  <2> SUFFICES ASSUME task[c] # "aborted"
               PROVE  /\ stats'[c].pending = Num(output'[c], "bytes") + InWrite(c)
                      /\ stats'[c].balance = stats'[c].pending + (Awaited(c) + a)
    BY <1>5 DEF Held
  <2>1. /\ stats[c].pending = Num(output[c], "bytes") + InWrite(c)
        /\ stats[c].balance = stats[c].pending + Awaited(c)
    BY DEF ConnInv, Held
  <2>2. \A p, r, n, m, b, d, w, x \in Int :
            /\ r - m = p - n /\ d - r = b - p + a
            /\ p = n + w /\ b = p + x
            => r = m + w /\ d = r + (x + a)
    OBVIOUS
  <2>3. InWrite(c) \in Int /\ Awaited(c) \in Int
    BY <1>5
  <2>4. /\ Num(output[c], "bytes") \in Int /\ Num(output'[c], "bytes") \in Int
    BY <1>3
  <2> QED BY ONLY <1>3, <1>4, <2>1, <2>2, <2>3, <2>4
<1>7. Heard(c)'
  <2>1. ASSUME session'[c] = "open"
        PROVE  stats'[c].unread = BytesOf(c)' + InSend(c)'
    <3>1. stats[c].unread = BytesOf(c) + InSend(c) /\ BytesOf(c)' = BytesOf(c) + u
      BY <2>1 DEF ConnInv, Heard, BytesOf
    <3>2. BytesOf(c) \in Nat
      BY NumType DEF BytesOf, TypeInv
    <3> QED BY ONLY <1>4, <1>5, <3>1, <3>2, u \in Int
  <2> QED BY <2>1 DEF Heard, BytesOf
<1>8. Marked(c)'
  <2>1. /\ Num(output[c], "compress") + InStart(c) <= 1
        /\ task[c] \in Running =>
            (compression[c] = 1 <=> Num(output[c], "compress") + InStart(c) = 1)
    BY DEF ConnInv, Marked
  <2>2. CASE /\ compression'[c] = compression[c]
             /\ Num(output'[c], "compress") = Num(output[c], "compress")
    BY <1>5, <2>1, <2>2 DEF Marked
  <2>3. CASE /\ compression[c] = 0 /\ compression'[c] = 1
             /\ Num(output'[c], "compress") = Num(output[c], "compress") + 1
             /\ ~closed[c]
    <3>1. task[c] \in Running
      <4>1. task[c] # "none"
        BY <2>3, task'[c] = task[c] DEF Fresh, Side
      <4>2. task[c] \notin Over /\ task[c] # "aborted"
        BY <2>3 DEF ConnInv, Phase
      <4> QED BY <4>1, <4>2 DEF TypeInv
    <3>2. Num(output[c], "compress") + InStart(c) = 0
      BY <1>3, <1>5, <2>1, <2>3, <3>1
    <3>3. Num(output'[c], "compress") + InStart(c) = 1
      BY <1>3, <1>5, <2>3, <3>2
    <3> QED BY <1>5, <2>3, <3>3 DEF Marked
  <2> QED BY <1>4, <2>2, <2>3
<1> QED BY <1>6, <1>7, <1>8 DEF ConnInv

-----------------------------------------------------------------------------
(* Steps of the owner.                                                      *)

Serving == {Loop} \cup InReport

\* The phases of the owner are different.
LEMMA Phases ==
    /\ Loop.at # "report" /\ Stopping.at # "report" /\ Joining.at # "report"
    /\ Ended.at # "report"
    /\ Loop \notin {Stopping, Joining, Ended} /\ Stopping \notin {Joining, Ended}
    /\ Joining # Ended
    /\ \A o \in InReport : o.at = "report" /\ o.conn \in Conns /\ o \notin Idle
<1>1. /\ Loop.at = "loop" /\ Stopping.at = "stopping" /\ Joining.at = "joining"
      /\ Ended.at = "ended"
  BY DEF Loop, Stopping, Joining, Ended
<1>2. \A o \in InReport : o.at = "report" /\ o.conn \in Conns
  BY DEF InReport
<1> QED BY <1>1, <1>2 DEF Idle

\* What a step of the owner does to a connection that gets the new side t.
Touched(c, t) ==
    /\ task[c] = "none" => t = Side(c) /\ Awaited(c)' = 0 /\ BytesOf(c)' = 0
    /\ \E a, u \in Int :
        /\ Change(Side(c), t, c, a, u)
        /\ Awaited(c)' = Awaited(c) + a
        /\ session[c] = "open" => BytesOf(c)' = BytesOf(c) + u

LEMMA OwnerStep ==
    ASSUME IInv, NEW side \in [Conns -> SideType], NEW leaving \in SUBSET Open,
           Install(side, leaving),
           owner \in Serving, owner' \in Serving \cup {Stopping},
           owner' = Stopping => leaving = Open,
           events' \in Seq(EventType), receiving' = receiving, closed' = closed,
           task' = task, reads' = reads,
           \A c \in Conns : Touched(c, side[c])
    PROVE  IInv'
<1>1. TypeInv /\ \A c \in Conns : ConnInv(c)
  BY DEF IInv
<1>2. /\ owner # Ended /\ owner \notin {Stopping, Joining, Ended}
      /\ owner' \notin {Joining, Ended}
  BY Phases DEF Serving, Idle
<1>3. TypeInv'
  <2>1. owner' \in Idle \cup InReport
    BY DEF Serving, Idle
  <2>2. /\ output' \in [Conns -> Seq(Messages)]
        /\ stats' \in [Conns -> Counters]
        /\ failed' \in [Conns -> BOOLEAN]
        /\ compression' \in [Conns -> {0, 1, 2}]
        /\ session' \in [Conns -> {"none", "open", "gone"}]
    BY <1>1, InstallFacts
  <2> QED BY <1>1, <2>1, <2>2 DEF TypeInv
<1>4. ASSUME NEW c \in Conns PROVE ConnInv(c)'
  <2>1. /\ Same(side[c], Side(c)')
        /\ c \in leaving => session'[c] = "gone"
        /\ c \notin leaving => Side(c)' = side[c] /\ session'[c] = session[c]
    BY <1>1, InstallFacts
  <2>2. Touched(c, side[c]) /\ ConnInv(c) /\ task'[c] = task[c] /\ closed'[c] = closed[c]
    BY <1>1
  <2>3. Fresh(c)'
    <3> SUFFICES ASSUME task[c] = "none" PROVE Fresh(c)'
      BY <2>2 DEF Fresh
    <3>1. c \notin leaving
      <4>1. session[c] = "none"
        BY <2>2 DEF ConnInv, Phase
      <4> QED BY <4>1 DEF Open
    <3>2. Side(c)' = Side(c) /\ Awaited(c)' = 0 /\ BytesOf(c)' = 0
      BY <2>1, <2>2, <3>1 DEF Touched
    <3>3. /\ Side(c) = [out |-> <<>>, stats |-> NoStats, failed |-> FALSE, compression |-> 0]
          /\ ~closed[c]
      BY <2>2 DEF ConnInv, Fresh
    <3>4. Side(c)' = [out |-> <<>>, stats |-> NoStats, failed |-> FALSE, compression |-> 0]
      BY <3>2, <3>3
    <3> QED BY <2>2, <3>2, <3>3, <3>4 DEF Fresh, BytesOf, NoStats
  <2>4. Phase(c)'
    <3>1. /\ session[c] = "none" <=> task[c] = "none"
          /\ task[c] \in Over => closed[c]
          /\ task[c] # "aborted"
          /\ receiving
      BY <1>1, <1>2, <2>2 DEF ConnInv, Phase, TypeInv
    <3>2. session'[c] = "none" <=> task'[c] = "none"
      <4>1. c \in leaving => session[c] # "none"
        BY DEF Open
      <4> QED BY <2>1, <2>2, <3>1, <4>1
    <3>3. owner' = Stopping => session'[c] # "open"
      <4>1. session[c] # "open" <=> c \notin Open
        BY DEF Open
      <4> QED BY <2>1, <4>1
    <3> QED BY <1>2, <2>2, <3>1, <3>2, <3>3 DEF Phase
  <2>5. PICK a \in Int, u \in Int :
            /\ Change(Side(c), side[c], c, a, u)
            /\ Awaited(c)' = Awaited(c) + a
            /\ session[c] = "open" => BytesOf(c)' = BytesOf(c) + u
    BY <2>2 DEF Touched
  <2>6. Change(Side(c), Side(c)', c, a, u)
    BY <2>1, <2>5, ChangeThen
  <2>7. session'[c] = "open" => session[c] = "open"
    BY <2>1
  <2> QED BY <1>1, <1>2, <2>2, <2>3, <2>4, <2>5, <2>6, <2>7, SideKept
<1> QED BY <1>3, <1>4 DEF IInv

LEMMA TouchedIs ==
    ASSUME IInv, NEW c \in Conns, NEW t, NEW a \in Int, NEW u \in Int,
           Change(Side(c), t, c, a, u), Awaited(c)' = Awaited(c) + a,
           session[c] = "open" => BytesOf(c)' = BytesOf(c) + u,
           task[c] # "none" \/ (t = Side(c) /\ a = 0 /\ BytesOf(c)' = BytesOf(c))
    PROVE  Touched(c, t)
<1>1. task[c] = "none" => t = Side(c) /\ Awaited(c)' = 0 /\ BytesOf(c)' = 0
  <2>1. task[c] = "none" => Awaited(c) = 0 /\ BytesOf(c) = 0
    BY DEF IInv, ConnInv, Fresh, BytesOf
  <2> QED BY <2>1
<1> QED BY <1>1 DEF Touched

\* A connection that the owner leaves alone, or to which it sends something.
LEMMA TouchedSame ==
    ASSUME IInv, NEW c \in Conns, NEW t, Same(Side(c), t),
           Awaited(c)' = Awaited(c), BytesOf(c)' = BytesOf(c),
           t = Side(c) \/ task[c] # "none"
    PROVE  Touched(c, t)
<1>1. Side(c) \in SideType
  BY SideIs DEF IInv
<1>2. Change(Side(c), t, c, 0, 0)
  BY <1>1, ShiftNothing, ShiftChanges
<1>3. BytesOf(c) \in Nat /\ Awaited(c) \in {0, 1}
  BY NumType DEF BytesOf, Awaited, IInv, TypeInv
<1>4. Awaited(c)' = Awaited(c) + 0 /\ BytesOf(c)' = BytesOf(c) + 0
  BY <1>3
<1>5. task[c] # "none" \/ (t = Side(c) /\ 0 = 0 /\ BytesOf(c)' = BytesOf(c))
  OBVIOUS
<1>6. 0 \in Int
  OBVIOUS
<1> QED BY ONLY IInv, c \in Conns, <1>2, <1>4, <1>5, <1>6, TouchedIs

\* A session that was accepted has a task.
LEMMA OpenHasTask ==
    ASSUME IInv, NEW c \in Conns, session[c] = "open" PROVE task[c] # "none"
BY DEF IInv, ConnInv, Phase

\* Nothing is awaited outside a report.
LEMMA NothingAwaited ==
    ASSUME NEW c
    PROVE  /\ owner \in Idle => Awaited(c) = 0
           /\ owner' \in Idle => Awaited(c)' = 0
BY Phases DEF Awaited, Idle

\* The owner takes the first event.
LEMMA EventTaken ==
    ASSUME IInv, events # <<>>, events' = Tail(events)
    PROVE  /\ events' \in Seq(EventType)
           /\ \A c \in Conns :
                /\ BytesOf(c) \in Nat
                /\ BytesOf(c)' \in Nat
                /\ BytesOf(c)' = IF Head(events) = <<"bytes", c>> THEN BytesOf(c) - 1
                                 ELSE BytesOf(c)
<1>1. events \in Seq(EventType)
  BY DEF IInv, TypeInv
<1>2. Tail(events) \in Seq(EventType)
  BY <1>1
<1>3. ASSUME NEW c \in Conns
      PROVE /\ BytesOf(c) \in Nat
            /\ BytesOf(c)' \in Nat
            /\ BytesOf(c)' = IF Head(events) = <<"bytes", c>> THEN BytesOf(c) - 1
                             ELSE BytesOf(c)
  <2> DEFINE v == <<"bytes", c>>
  <2>1. Num(events, v) \in Nat /\ Num(Tail(events), v) \in Nat
    BY <1>1, <1>2, NumType
  <2>2. Num(Tail(events), v) = Num(events, v) - (IF Head(events) = v THEN 1 ELSE 0)
    BY <1>1, NumTail
  <2>3. BytesOf(c) = Num(events, v) /\ BytesOf(c)' = Num(Tail(events), v)
    BY DEF BytesOf
  <2> HIDE DEF v
  <2>4. BytesOf(c)' = IF Head(events) = v THEN BytesOf(c) - 1 ELSE BytesOf(c)
    BY <2>1, <2>2, <2>3
  <2> QED BY <2>1, <2>3, <2>4 DEF v
<1> QED BY <1>2, <1>3

\* Only sessions are disconnected.
LEMMA Disconnecting ==
    ASSUME IInv, NEW leaving \in SUBSET Open, Install(Sides, leaving), owner = Loop,
           owner' \in {Loop, Stopping}, owner' = Stopping => leaving = Open,
           events' \in Seq(EventType), receiving' = receiving, closed' = closed,
           task' = task, reads' = reads,
           \A c \in Conns : BytesOf(c)' = BytesOf(c)
    PROVE  IInv'
<1>1. TypeInv
  BY DEF IInv
<1>2. \A c \in Conns : Sides[c] = Side(c) /\ Side(c) \in SideType
  BY <1>1, SideIs
<1>0. Sides \in [Conns -> SideType]
  BY <1>2 DEF Sides
<1>3. ASSUME NEW c \in Conns PROVE Touched(c, Sides[c])
  <2>1. Awaited(c)' = Awaited(c)
    BY NothingAwaited DEF Idle
  <2> QED BY <1>2, <2>1, SameItself, TouchedSame
<1>4. owner \in Serving /\ owner' \in Serving \cup {Stopping}
  BY DEF Serving
<1> QED BY <1>0, <1>3, <1>4, OwnerStep

LEMMA TickStep == ASSUME IInv, Tick PROVE IInv'
<1> DEFINE leaving == {c \in Open : closed[c] \/ failed[c]}
<1>1. /\ owner = Loop /\ owner' = owner /\ receiving' = receiving /\ closed' = closed
      /\ events' = events /\ task' = task /\ reads' = reads
      /\ Install(Sides, leaving)
  BY DEF Tick, taskVars
<1>2. /\ leaving \in SUBSET Open /\ events' \in Seq(EventType) /\ owner' # Stopping
      /\ \A c \in Conns : BytesOf(c)' = BytesOf(c)
  BY <1>1, Phases DEF IInv, TypeInv, BytesOf
<1> HIDE DEF leaving
<1> QED BY <1>1, <1>2, Disconnecting

LEMMA ShutdownStep == ASSUME IInv, Shutdown PROVE IInv'
<1>1. /\ owner = Loop /\ owner' = Stopping /\ receiving' = receiving /\ closed' = closed
      /\ events' = events /\ task' = task /\ reads' = reads
      /\ Install(Sides, Open)
  BY DEF Shutdown, taskVars
<1>2. /\ events' \in Seq(EventType)
      /\ \A c \in Conns : BytesOf(c)' = BytesOf(c)
  BY <1>1 DEF IInv, TypeInv, BytesOf
<1>3. Open \in SUBSET Open
  OBVIOUS
<1> QED BY <1>1, <1>2, <1>3, Disconnecting

LEMMA GoneStep == ASSUME IInv, NEW c \in Conns, Gone(c) PROVE IInv'
<1>1. /\ owner = Loop /\ owner' = owner /\ receiving' = receiving /\ closed' = closed
      /\ events # <<>> /\ Head(events) = <<"gone", c>> /\ events' = Tail(events)
      /\ task' = task /\ reads' = reads
      /\ Install(Sides, {c} \cap Open)
  BY DEF Gone
<1>2. events' \in Seq(EventType)
  BY <1>1, EventTaken
<1>3. \A d \in Conns : BytesOf(d)' = BytesOf(d)
  <2>1. \A d \in Conns : <<"gone", c>> # <<"bytes", d>>
    OBVIOUS
  <2> QED BY <1>1, <2>1, EventTaken
<1>4. {c} \cap Open \in SUBSET Open /\ owner' # Stopping
  BY <1>1, Phases
<1> QED BY <1>1, <1>2, <1>3, <1>4, Disconnecting

\* The owner gives one connection a new side.
LEMMA PutStep ==
    ASSUME IInv, NEW c \in Conns, NEW t, Touched(c, t), NEW leaving \in SUBSET Open,
           Install([Sides EXCEPT ![c] = t], leaving),
           owner \in Serving, owner' \in Serving, events' \in Seq(EventType),
           receiving' = receiving, closed' = closed, task' = task, reads' = reads,
           \A d \in Conns \ {c} : Awaited(d)' = Awaited(d) /\ BytesOf(d)' = BytesOf(d)
    PROVE  IInv'
<1> DEFINE side == [Sides EXCEPT ![c] = t]
<1>1. \A d \in Conns : Sides[d] = Side(d) /\ Side(d) \in SideType
  BY SideIs DEF IInv
<1>2. t \in SideType
  BY DEF Touched, Change
<1>3. side \in [Conns -> SideType] /\ \A d \in Conns : side[d] = IF d = c THEN t ELSE Side(d)
  BY <1>1, <1>2 DEF Sides
<1>4. ASSUME NEW d \in Conns PROVE Touched(d, side[d])
  <2>1. CASE d = c
    BY <1>3, <2>1
  <2>2. CASE d # c
    <3>1. side[d] = Side(d) /\ Same(Side(d), Side(d))
      BY <1>1, <1>3, <2>2, SameItself
    <3> HIDE DEF side
    <3> QED BY <2>2, <3>1, TouchedSame
  <2> QED BY <2>1, <2>2
<1>5. owner' # Stopping /\ Install(side, leaving)
  BY Phases DEF Serving, Idle
<1> HIDE DEF side
<1> QED BY <1>3, <1>4, <1>5, OwnerStep

LEMMA TimesOutStep == ASSUME IInv, NEW c \in Conns, TimesOut(c) PROVE IInv'
<1> DEFINE t == Tell(Side(c), c, TRUE)
<1>1. Side(c) \in SideType /\ Sides[c] = Side(c) /\ Sides \in [Conns -> SideType]
  BY SideIs DEF IInv
<1>2. /\ owner = Loop /\ owner' = owner /\ receiving' = receiving /\ closed' = closed
      /\ events' = events /\ task' = task /\ reads' = reads /\ c \in Open
      /\ Install([Sides EXCEPT ![c] = Tell(Sides[c], c, TRUE)], {c})
  BY DEF TimesOut, taskVars
<1>3. Install([Sides EXCEPT ![c] = t], {c}) /\ {c} \in SUBSET Open
  BY <1>1, <1>2
<1>4. events' \in Seq(EventType) /\ \A d \in Conns : BytesOf(d)' = BytesOf(d) /\ Awaited(d)' = Awaited(d)
  BY <1>2 DEF IInv, TypeInv, BytesOf, Awaited
<1>5. Same(Side(c), t)
  BY <1>1, TellKeeps
<1>6. task[c] # "none"
  BY <1>2, OpenHasTask DEF Open
<1> HIDE DEF t
<1>7. Touched(c, t)
  BY <1>4, <1>5, <1>6, TouchedSame
<1>8. owner \in Serving /\ owner' \in Serving
  BY <1>2 DEF Serving
<1> QED BY <1>2, <1>3, <1>4, <1>7, <1>8, PutStep

\* During a report the connection that gets it has a task.
LEMMA InReportFacts ==
    ASSUME IInv, owner.at = "report"
    PROVE  /\ owner \in InReport /\ owner.conn \in Conns /\ owner \in Serving
           /\ Awaited(owner.conn) = 1 /\ task[owner.conn] # "none"
           /\ \A d \in Conns \ {owner.conn} : Awaited(d) = 0
<1>1. owner \in InReport
  BY Phases DEF IInv, TypeInv, Idle
<1>2. owner.conn \in Conns
  BY <1>1, Phases
<1>3. Awaited(owner.conn) = 1 /\ \A d \in Conns \ {owner.conn} : Awaited(d) = 0
  BY DEF Awaited
<1>4. task[owner.conn] # "none"
  <2>1. PICK c \in Conns : c = owner.conn
    BY <1>2
  <2>2. Fresh(c) /\ Awaited(c) = 1
    BY <1>3, <2>1 DEF IInv, ConnInv
  <2> QED BY <2>1, <2>2 DEF Fresh
<1> QED BY <1>1, <1>2, <1>3, <1>4 DEF Serving

\* A report goes on, or ends, with a new side of its connection.
LEMMA ReportStep ==
    ASSUME IInv, owner.at = "report", NEW t, NEW a \in Int,
           Shift(Side(owner.conn), t, a, 0),
           Install([Sides EXCEPT ![owner.conn] = t], {}),
           \/ owner' = Loop /\ a = -1
           \/ owner' \in InReport /\ owner'.conn = owner.conn /\ a = 0,
           events' = events, receiving' = receiving, closed' = closed, task' = task,
           reads' = reads
    PROVE  IInv'
<1>0. PICK c \in Conns : c = owner.conn
  BY InReportFacts
<1>1. /\ c \in Conns /\ owner \in Serving /\ Awaited(c) = 1 /\ task[c] # "none"
      /\ \A d \in Conns \ {c} : Awaited(d) = 0
  BY <1>0, InReportFacts
<1>2. events' \in Seq(EventType) /\ \A d \in Conns : BytesOf(d)' = BytesOf(d) /\ BytesOf(d) \in Nat
  BY NumType DEF IInv, TypeInv, BytesOf
<1>3. /\ owner' \in Serving /\ Awaited(c)' = Awaited(c) + a
      /\ \A d \in Conns \ {c} : Awaited(d)' = Awaited(d)
  <2>1. CASE owner' = Loop /\ a = -1
    <3>1. \A d : Awaited(d)' = 0
      BY <2>1, NothingAwaited DEF Idle
    <3> QED BY <1>1, <2>1, <3>1 DEF Serving
  <2>2. CASE owner' \in InReport /\ owner'.conn = c /\ a = 0
    <3>1. owner'.at = "report"
      BY <2>2, Phases
    <3> QED BY <1>1, <2>2, <3>1 DEF Serving, Awaited
  <2> QED BY <1>0, <2>1, <2>2
<1>4. Change(Side(c), t, c, a, 0)
  BY <1>0, ShiftChanges
<1>5. BytesOf(c)' = BytesOf(c) + 0 /\ 0 \in Int
  BY <1>1, <1>2
<1>6. Touched(c, t)
  BY ONLY IInv, a \in Int, <1>1, <1>3, <1>4, <1>5, TouchedIs
<1>7. Install([Sides EXCEPT ![c] = t], {}) /\ {} \in SUBSET Open
  BY <1>0
<1> QED BY <1>1, <1>2, <1>3, <1>6, <1>7, PutStep

LEMMA ChunkSentStep == ASSUME IInv, ChunkSent PROVE IInv'
<1> DEFINE c == owner.conn
           s == [Side(c) EXCEPT !.out = Append(@, "bytes"), !.stats.pending = @ + 1]
           t == [s EXCEPT !.stats.balance = @ + 1]
           u == Reported(c, owner.welcome, s, TRUE)
<1>1. /\ owner.at = "report" /\ receiving' = receiving /\ closed' = closed
      /\ events' = events /\ task' = task /\ reads' = reads
      /\ \/ /\ Install([Sides EXCEPT ![c] = t], {})
            /\ owner' = [owner EXCEPT !.left = @ - 1]
         \/ Install([Sides EXCEPT ![c] = u], {}) /\ owner' = Loop
  BY DEF ChunkSent, taskVars
<1>2. c \in Conns /\ owner \in InReport
  BY <1>1, InReportFacts
<1>3. Side(c) \in SideType
  BY <1>2, SideIs DEF IInv
<1>4. Shift(Side(c), s, -1, 0) /\ Shift(Side(c), t, 0, 0)
  BY <1>3, ChunkQueued
<1>5. Shift(Side(c), u, -1, 0)
  <2>1. s \in SideType
    BY <1>4 DEF Shift
  <2>2. Same(s, u)
    BY <2>1, ReportedKeeps
  <2> HIDE DEF s, u
  <2> QED BY <1>4, <2>2, ShiftThen
<1> HIDE DEF s, t, u
<1>6. CASE Install([Sides EXCEPT ![c] = t], {}) /\ owner' = [owner EXCEPT !.left = @ - 1]
  <2>1. owner' \in InReport /\ owner'.conn = owner.conn
    BY <1>2, <1>6 DEF InReport
  <2>2. 0 \in Int
    OBVIOUS
  <2> QED BY <1>1, <1>4, <1>6, <2>1, <2>2, ReportStep
<1>7. CASE Install([Sides EXCEPT ![c] = u], {}) /\ owner' = Loop
  <2>2. -1 \in Int
    OBVIOUS
  <2> QED BY <1>1, <1>5, <1>7, <2>2, ReportStep
<1> QED BY <1>1, <1>6, <1>7

LEMMA ChunkFailsStep == ASSUME IInv, ChunkFails PROVE IInv'
<1> DEFINE c == owner.conn
           s == [Side(c) EXCEPT !.stats.balance = @ - 1, !.failed = TRUE]
           u == Reported(c, owner.welcome, s, FALSE)
<1>1. /\ owner.at = "report" /\ receiving' = receiving /\ closed' = closed
      /\ events' = events /\ task' = task /\ reads' = reads
      /\ Install([Sides EXCEPT ![c] = u], {}) /\ owner' = Loop
  BY DEF ChunkFails, taskVars
<1>2. Side(c) \in SideType
  BY <1>1, InReportFacts, SideIs DEF IInv
<1>3. Shift(Side(c), s, -1, 0)
  BY <1>2, Offered
<1>4. Shift(Side(c), u, -1, 0)
  <2>1. s \in SideType
    BY <1>3 DEF Shift
  <2>2. Same(s, u)
    BY <2>1, ReportedKeeps
  <2> HIDE DEF s, u
  <2> QED BY <1>3, <2>2, ShiftThen
<1> HIDE DEF s, u
<1>5. -1 \in Int
  OBVIOUS
<1> QED BY <1>1, <1>4, <1>5, ReportStep

\* A connection that a step leaves alone.
LEMMA Frame ==
    ASSUME NEW d \in Conns, ConnInv(d),
           output'[d] = output[d], stats'[d] = stats[d], failed'[d] = failed[d],
           compression'[d] = compression[d], task'[d] = task[d],
           session'[d] = session[d], closed'[d] = closed[d],
           Awaited(d)' = Awaited(d), BytesOf(d)' = BytesOf(d), Phase(d)'
    PROVE  ConnInv(d)'
<1>1. Held(d)'
  BY DEF ConnInv, Held, InWrite
<1>2. Marked(d)'
  BY DEF ConnInv, Marked, InStart
<1>3. Heard(d)'
  BY DEF ConnInv, Heard, InSend, BytesOf
<1>4. Fresh(d)'
  <2>1. Side(d)' = Side(d)
    BY DEF Side
  <2> SUFFICES ASSUME task[d] = "none" PROVE Fresh(d)'
    BY DEF Fresh
  <2>2. /\ Side(d)' = [out |-> <<>>, stats |-> NoStats, failed |-> FALSE, compression |-> 0]
        /\ ~closed[d] /\ BytesOf(d) = 0 /\ Awaited(d) = 0
    BY <2>1 DEF ConnInv, Fresh, BytesOf
  <2> QED BY <2>2 DEF Fresh, BytesOf, NoStats
<1> QED BY <1>1, <1>2, <1>3, <1>4 DEF ConnInv

LEMMA AcceptStep == ASSUME IInv, NEW c \in Conns, Accept(c) PROVE IInv'
<1> DEFINE s == Raw(Side(c), c, TRUE)
           t == [s EXCEPT !.stats.balance = @ + 1]
<1>1. /\ owner = Loop /\ session[c] = "none"
      /\ session' = [session EXCEPT ![c] = "open"]
      /\ task' = [task EXCEPT ![c] = "select"]
      /\ output' = [output EXCEPT ![c] = s.out]
      /\ stats' = [stats EXCEPT ![c] = [s.stats EXCEPT !.balance = @ + 1]]
      /\ failed' = [failed EXCEPT ![c] = s.failed]
      /\ owner' = Reporting(c, Chunks, TRUE)
      /\ events' = events /\ receiving' = receiving /\ closed' = closed
      /\ reads' = reads /\ compression' = compression
  BY DEF Accept
<1>2. TypeInv /\ \A d \in Conns : ConnInv(d)
  BY DEF IInv
<1>3. Side(c) \in SideType
  BY <1>2, SideIs
<1>4. Same(Side(c), s) /\ s \in SideType
  BY <1>3, RawKeeps DEF Same
<1>5. /\ t \in SideType /\ t.out = s.out /\ t.stats = [s.stats EXCEPT !.balance = @ + 1]
      /\ t.failed = s.failed /\ t.compression = s.compression
  <2> HIDE DEF s
  <2> QED BY <1>4 DEF SideType, Counters
<1>6. Shift(s, t, 1, 0)
  <2> HIDE DEF s
  <2> QED BY <1>4, Offered
<1>7. /\ output' = [output EXCEPT ![c] = t.out]
      /\ stats' = [stats EXCEPT ![c] = t.stats]
      /\ failed' = [failed EXCEPT ![c] = t.failed]
  BY <1>1, <1>5
<1> HIDE DEF s, t
<1>8. TypeInv'
  <2>1. owner' \in Idle \cup InReport
    BY <1>1, ConnectionAssumption DEF Reporting, InReport
  <2>2. t.out \in Seq(Messages) /\ t.stats \in Counters /\ t.failed \in BOOLEAN
    BY <1>5, SideParts
  <2>3. /\ output' \in [Conns -> Seq(Messages)] /\ stats' \in [Conns -> Counters]
        /\ failed' \in [Conns -> BOOLEAN]
        /\ session' \in [Conns -> {"none", "open", "gone"}]
        /\ task' \in [Conns -> {"none", "aborted"} \cup Running \cup Over]
    BY <1>1, <1>2, <1>7, <2>2 DEF TypeInv, Running
  <2> QED BY <1>1, <1>2, <2>1, <2>3 DEF TypeInv
<1>9. /\ owner'.at = "report" /\ owner'.conn = c
      /\ owner' \notin {Stopping, Joining, Ended, Loop}
  BY <1>1, Phases DEF Reporting, Loop, Stopping, Joining, Ended
<1>10. receiving
  <2>1. ~receiving => owner \in {Joining, Ended}
    BY <1>2 DEF ConnInv, Phase
  <2> QED BY <1>1, <1>2, <2>1, Phases DEF TypeInv
<1>11. ASSUME NEW d \in Conns, d # c PROVE ConnInv(d)'
  <2>1. /\ output'[d] = output[d] /\ stats'[d] = stats[d] /\ failed'[d] = failed[d]
        /\ compression'[d] = compression[d] /\ task'[d] = task[d]
        /\ session'[d] = session[d] /\ closed'[d] = closed[d] /\ BytesOf(d)' = BytesOf(d)
    BY <1>1, <1>2, <1>7, <1>11 DEF TypeInv, BytesOf
  <2>2. Awaited(d)' = Awaited(d)
    BY <1>1, <1>9, <1>11, NothingAwaited DEF Awaited, Idle
  <2>3. Phase(d)'
    BY <1>1, <1>2, <1>9, <1>10, <2>1, Phases DEF ConnInv, Phase
  <2> QED BY <1>2, <2>1, <2>2, <2>3, Frame
<1>12. ConnInv(c)'
  <2>1. /\ Side(c) = [out |-> <<>>, stats |-> NoStats, failed |-> FALSE, compression |-> 0]
        /\ ~closed[c] /\ BytesOf(c) = 0 /\ Awaited(c) = 0
    BY <1>1, <1>2 DEF ConnInv, Fresh, Phase, BytesOf
  <2>2. Owed(Side(c)) = 0 /\ Lent(Side(c)) = 0 /\ Markers(Side(c)) = 0
        /\ Side(c).stats.unread = 0 /\ Side(c).compression = 0
    <3>1. Num(<<>>, "bytes") = 0 /\ Num(<<>>, "compress") = 0
      BY NumEmpty
    <3>2. /\ Side(c).out = <<>> /\ Side(c).stats.pending = 0 /\ Side(c).stats.balance = 0
          /\ Side(c).stats.unread = 0 /\ Side(c).compression = 0
      BY <2>1 DEF NoStats
    <3> QED BY <3>1, <3>2 DEF Owed, Lent, Markers
  <2>3. /\ Owed(t) = 0 /\ Lent(t) = 1 /\ Markers(t) = 0 /\ t.stats.unread = 0
        /\ t.compression = 0
    BY <1>4, <1>6, <2>2 DEF Same, Shift
  <2>4. /\ output'[c] = t.out /\ stats'[c] = t.stats /\ compression'[c] = 0
        /\ task'[c] = "select" /\ session'[c] = "open" /\ Awaited(c)' = 1
        /\ BytesOf(c)' = 0
    <3>1. compression[c] = 0
      BY <2>1 DEF Side
    <3> QED BY <1>1, <1>2, <1>7, <1>9, <2>1, <3>1 DEF TypeInv, Awaited, BytesOf
  <2>5. /\ InWrite(c)' = 0 /\ InSend(c)' = 0 /\ InStart(c)' = 0
    BY <2>4 DEF InWrite, InSend, InStart
  <2>6. /\ stats'[c].pending = Num(output'[c], "bytes")
        /\ stats'[c].balance = stats'[c].pending + 1
        /\ Num(output'[c], "compress") = 0
        /\ Num(output'[c], "bytes") \in Nat
    <3>1. t.stats.balance \in Int /\ t.stats.pending \in Int /\ Num(t.out, "bytes") \in Nat
      BY <1>5, SideParts
    <3>2. t.stats.pending = Num(t.out, "bytes") /\ t.stats.balance = t.stats.pending + 1
      <4>1. \A p, n, b \in Int : p - n = 0 /\ b - p = 1 => p = n /\ b = p + 1
        OBVIOUS
      <4>2. Num(t.out, "bytes") \in Int
        BY <3>1
      <4> QED BY <2>3, <3>1, <4>1, <4>2 DEF Owed, Lent
    <3> QED BY <2>3, <2>4, <3>1, <3>2 DEF Markers
  <2>7. Held(c)'
    BY <2>4, <2>5, <2>6 DEF Held
  <2>8. Marked(c)' /\ Heard(c)' /\ Fresh(c)'
    BY <2>3, <2>4, <2>5, <2>6 DEF Marked, Heard, Fresh, BytesOf
  <2>9. Phase(c)'
    BY <1>1, <1>9, <1>10, <2>4 DEF Phase, Over
  <2> QED BY <2>7, <2>8, <2>9 DEF ConnInv
<1> QED BY <1>8, <1>11, <1>12 DEF IInv

\* Input of a session that has gone is dropped.
LEMMA BytesDropped ==
    ASSUME IInv, NEW c \in Conns, session[c] # "open", owner = Loop, owner' = owner,
           events # <<>>, Head(events) = <<"bytes", c>>, events' = Tail(events),
           Install(Sides, {}), receiving' = receiving, closed' = closed, task' = task,
           reads' = reads
    PROVE  IInv'
<1>1. /\ events' \in Seq(EventType)
      /\ \A d \in Conns :
            /\ BytesOf(d) \in Nat /\ BytesOf(d)' \in Nat
            /\ BytesOf(d)' = IF d = c THEN BytesOf(d) - 1 ELSE BytesOf(d)
  <2>1. \A d \in Conns : <<"bytes", c>> = <<"bytes", d>> <=> d = c
    OBVIOUS
  <2> QED BY <2>1, EventTaken
<1>2. \A d \in Conns : Sides[d] = Side(d) /\ Side(d) \in SideType
  BY SideIs DEF IInv
<1>3. ASSUME NEW d \in Conns PROVE Touched(d, Sides[d])
  <2>1. Awaited(d)' = Awaited(d) /\ Awaited(d) \in {0, 1}
    BY DEF Awaited
  <2>2. CASE d # c
    BY <1>1, <1>2, <2>1, <2>2, SameItself, TouchedSame
  <2>3. CASE d = c
    <3>1. task[d] # "none"
      <4>1. task[d] = "none" => BytesOf(d) = 0
        BY DEF IInv, ConnInv, Fresh, BytesOf
      <4> QED BY <1>1, <2>3, <4>1
    <3>2. Change(Side(d), Side(d), d, 0, 0)
      BY <1>2, SameItself, ShiftNothing, ShiftChanges
    <3>3. Awaited(d)' = Awaited(d) + 0 /\ 0 \in Int /\ session[d] # "open"
      BY <2>1, <2>3
    <3>4. Touched(d, Side(d))
      BY ONLY IInv, d \in Conns, <3>1, <3>2, <3>3, TouchedIs
    <3> QED BY <1>2, <3>4
  <2> QED BY <2>2, <2>3
<1>4. owner \in Serving /\ owner' # Stopping /\ owner' \in Serving \cup {Stopping}
  BY Phases DEF Serving
<1>5. Sides \in [Conns -> SideType] /\ {} \in SUBSET Open
  BY <1>2 DEF Sides
<1> QED BY <1>1, <1>3, <1>4, <1>5, OwnerStep

\* Input of an open session gives new sides.
LEMMA BytesUsed ==
    ASSUME IInv, NEW c \in Conns, session[c] = "open", owner = Loop,
           events # <<>>, Head(events) = <<"bytes", c>>, events' = Tail(events),
           receiving' = receiving, closed' = closed, task' = task, reads' = reads,
           NEW side \in [Conns -> SideType], NEW leaving \in SUBSET {c},
           Install(side, leaving),
           NEW a \in Int,
           Change(Side(c), side[c], c, a, -1),
           \/ owner' = Loop /\ a = 0
           \/ owner' \in InReport /\ owner'.conn = c /\ a = 1,
           \A d \in Conns \ {c} : Same(Side(d), side[d]) /\ (d \in Open \/ side[d] = Side(d))
    PROVE  IInv'
<1>1. /\ events' \in Seq(EventType)
      /\ \A d \in Conns :
            /\ BytesOf(d) \in Nat
            /\ BytesOf(d)' = IF d = c THEN BytesOf(d) - 1 ELSE BytesOf(d)
  <2>1. \A d \in Conns : <<"bytes", c>> = <<"bytes", d>> <=> d = c
    OBVIOUS
  <2> QED BY <2>1, EventTaken
<1>2. /\ owner' \in Serving /\ owner' # Stopping /\ Awaited(c)' = Awaited(c) + a
      /\ \A d \in Conns \ {c} : Awaited(d)' = Awaited(d)
  <2>0. \A d : Awaited(d) = 0
    BY NothingAwaited DEF Idle
  <2>1. CASE owner' = Loop /\ a = 0
    <3>1. \A d : Awaited(d)' = 0
      BY <2>1, NothingAwaited DEF Idle
    <3> QED BY <2>0, <2>1, <3>1, Phases DEF Serving
  <2>2. CASE owner' \in InReport /\ owner'.conn = c /\ a = 1
    <3>1. owner'.at = "report" /\ owner' # Stopping
      BY <2>2, Phases DEF Idle
    <3> QED BY <2>0, <2>2, <3>1 DEF Serving, Awaited
  <2> QED BY <2>1, <2>2
<1>3. ASSUME NEW d \in Conns PROVE Touched(d, side[d])
  <2>1. CASE d # c
    <3>1. side[d] = Side(d) \/ task[d] # "none"
      BY <2>1, OpenHasTask DEF Open
    <3> QED BY <1>1, <1>2, <2>1, <3>1, TouchedSame
  <2>2. CASE d = c
    <3>1. task[c] # "none"
      BY OpenHasTask
    <3>2. BytesOf(c)' = BytesOf(c) + (-1) /\ -1 \in Int
      BY <1>1
    <3>3. Touched(c, side[c])
      BY <1>2, <3>1, <3>2, TouchedIs
    <3> QED BY <2>2, <3>3
  <2> QED BY <2>1, <2>2
<1>4. owner \in Serving /\ owner' \in Serving \cup {Stopping} /\ leaving \in SUBSET Open
  BY <1>2 DEF Serving, Open
<1> QED BY <1>1, <1>2, <1>3, <1>4, OwnerStep

LEMMA BytesStep == ASSUME IInv, NEW c \in Conns, Bytes(c) PROVE IInv'
<1> DEFINE read == [Side(c) EXCEPT !.stats.unread = @ - 1]
           more == [read EXCEPT !.stats.balance = @ + 1]
           with(s) == [Sides EXCEPT ![c] = s]
           heard(fits) == [d \in Conns |->
                            IF d \in Open THEN Tell(with(read)[d], d, fits) ELSE Side(d)]
<1>1. /\ owner = Loop /\ events # <<>> /\ Head(events) = <<"bytes", c>>
      /\ events' = Tail(events) /\ receiving' = receiving /\ closed' = closed
      /\ task' = task /\ reads' = reads
  BY DEF Bytes
<1>2. \/ session[c] # "open" /\ Install(Sides, {}) /\ owner' = owner
      \/ /\ session[c] = "open"
         /\ \/ Install(with(read), {}) /\ owner' = owner
            \/ (\E fits \in BOOLEAN : Install(heard(fits), {})) /\ owner' = owner
            \/ Install(with(StartCompression(read, c)), {}) /\ owner' = owner
            \/ Install(with(more), {}) /\ owner' = Reporting(c, Chunks, FALSE)
            \/ Install(with(Tell(read, c, TRUE)), {c}) /\ owner' = owner
  BY DEF Bytes
<1>3. \A d \in Conns : Sides[d] = Side(d) /\ Side(d) \in SideType
  BY SideIs DEF IInv
<1>4. Shift(Side(c), read, 0, -1) /\ Shift(Side(c), more, 1, -1)
  BY <1>3, Consumed
<1>5. read \in SideType /\ more \in SideType
  BY <1>4 DEF Shift
<1> HIDE DEF read, more
<1>6. CASE session[c] # "open" /\ Install(Sides, {}) /\ owner' = owner
  BY <1>1, <1>6, BytesDropped
<1>7. ASSUME session[c] = "open", NEW s \in SideType, NEW leaving \in SUBSET {c},
             Install(with(s), leaving), NEW a \in Int, Change(Side(c), s, c, a, -1),
             \/ owner' = Loop /\ a = 0
             \/ owner' \in InReport /\ owner'.conn = c /\ a = 1
      PROVE  IInv'
  <2> DEFINE side == with(s)
  <2>1. /\ side \in [Conns -> SideType] /\ side[c] = s
        /\ \A d \in Conns \ {c} : side[d] = Side(d)
    BY <1>3, <1>7 DEF Sides
  <2>2. \A d \in Conns \ {c} : Same(Side(d), side[d])
    BY <1>3, <2>1, SameItself
  <2>3. Install(side, leaving)
    BY <1>7
  <2> HIDE DEF side, with
  <2>4. Change(Side(c), side[c], c, a, -1)
    BY <1>7, <2>1
  <2> QED BY <1>1, <1>7, <2>1, <2>2, <2>3, <2>4, BytesUsed
<1>8. 0 \in Int /\ 1 \in Int /\ {} \in SUBSET {c} /\ {c} \in SUBSET {c}
  OBVIOUS
<1>9. Change(Side(c), read, c, 0, -1) /\ Change(Side(c), more, c, 1, -1)
  BY <1>4, ShiftChanges
<1>10. CASE session[c] = "open" /\ Install(with(read), {}) /\ owner' = owner
  BY <1>1, <1>5, <1>7, <1>8, <1>9, <1>10
<1>11. CASE /\ session[c] = "open" /\ owner' = Reporting(c, Chunks, FALSE)
            /\ Install(with(more), {})
  <2>1. owner' \in InReport /\ owner'.conn = c
    BY <1>11, ConnectionAssumption DEF Reporting, InReport
  <2> QED BY <1>1, <1>5, <1>7, <1>8, <1>9, <1>11, <2>1
<1>12. CASE session[c] = "open" /\ Install(with(Tell(read, c, TRUE)), {c}) /\ owner' = owner
  <2>1. Same(read, Tell(read, c, TRUE)) /\ Tell(read, c, TRUE) \in SideType
    BY <1>5, TellKeeps DEF Same
  <2>2. Change(Side(c), Tell(read, c, TRUE), c, 0, -1)
    BY <1>9, <2>1, ChangeThen
  <2> QED BY <1>1, <1>7, <1>8, <1>12, <2>1, <2>2
<1>13. CASE /\ session[c] = "open" /\ owner' = owner
            /\ Install(with(StartCompression(read, c)), {})
  <2>1. PICK t : t = StartCompression(read, c)
    OBVIOUS
  <2>2. Same(read, t) \/ (Begun(read, t) /\ ~closed[c])
    BY <1>5, <2>1, StartCompressionKeeps
  <2>3. t \in SideType
    BY <2>2 DEF Same, Begun
  <2>4. Change(Side(c), t, c, 0, -1)
    BY <1>4, <1>9, <2>2, ChangeThen, BegunChanges
  <2> QED BY <1>1, <1>7, <1>8, <1>13, <2>1, <2>3, <2>4
<1>14. CASE /\ session[c] = "open" /\ owner' = owner
            /\ \E fits \in BOOLEAN : Install(heard(fits), {})
  <2>1. PICK fits \in BOOLEAN : Install(heard(fits), {})
    BY <1>14
  <2>2. ASSUME NEW d \in Conns
        PROVE  with(read)[d] = IF d = c THEN read ELSE Side(d)
    BY <1>3 DEF Sides
  <2>3. ASSUME NEW d \in Conns \ {c}
        PROVE  /\ Same(Side(d), heard(fits)[d])
               /\ d \in Open \/ heard(fits)[d] = Side(d)
               /\ heard(fits)[d] \in SideType
    <3>1. with(read)[d] = Side(d)
      BY <2>2
    <3>2. heard(fits)[d] = IF d \in Open THEN Tell(Side(d), d, fits) ELSE Side(d)
      BY <3>1
    <3> HIDE DEF heard, with
    <3> QED BY <1>3, <3>2, TellKeeps, SameItself DEF Same
  <2>4. heard(fits)[c] \in SideType /\ Change(Side(c), heard(fits)[c], c, 0, -1)
    <3>1. with(read)[c] = read
      BY <2>2
    <3>2. heard(fits)[c] = Tell(read, c, fits)
      BY <1>14, <3>1 DEF Open
    <3> HIDE DEF heard, with
    <3>3. Same(read, Tell(read, c, fits)) /\ Tell(read, c, fits) \in SideType
      BY <1>5, TellKeeps DEF Same
    <3> QED BY <1>9, <3>2, <3>3, ChangeThen
  <2> DEFINE side == heard(fits)
  <2>5. DOMAIN side = Conns /\ side = [d \in Conns |-> side[d]]
    OBVIOUS
  <2>6. side \in [Conns -> SideType]
    <3> HIDE DEF heard, with
    <3> QED BY <2>3, <2>4, <2>5
  <2> HIDE DEF heard, with
  <2> QED BY <1>1, <1>8, <1>14, <2>1, <2>3, <2>4, <2>6, BytesUsed
<1> QED BY <1>2, <1>6, <1>10, <1>11, <1>12, <1>13, <1>14

\* The receiver is dropped with the events, which no session is waiting for.
LEMMA DropReceiverStep == ASSUME IInv, DropReceiver PROVE IInv'
<1>1. /\ owner = Stopping /\ owner' = Joining /\ receiving' = FALSE /\ events' = <<>>
      /\ session' = session /\ failed' = failed /\ output' = output /\ closed' = closed
      /\ task' = task /\ reads' = reads /\ compression' = compression /\ stats' = stats
  BY DEF DropReceiver
<1>2. TypeInv /\ \A c \in Conns : ConnInv(c)
  BY DEF IInv
<1>3. TypeInv'
  <2>1. owner' \in Idle
    BY <1>1 DEF Idle
  <2>2. events' \in Seq(EventType)
    BY <1>1
  <2>3. receiving' \in BOOLEAN
    BY <1>1, Zenon
  <2> QED BY <1>1, <1>2, <2>1, <2>2, <2>3 DEF TypeInv
<1>4. ASSUME NEW c \in Conns PROVE ConnInv(c)'
  <2>0. ConnInv(c)
    BY <1>2
  <2>1. Awaited(c) = 0 /\ Awaited(c)' = 0
    BY <1>1, NothingAwaited DEF Idle
  <2>2. session[c] # "open" /\ task[c] # "aborted"
    BY <1>1, <2>0, Phases DEF ConnInv, Phase
  <2>3. Held(c)' /\ Marked(c)'
    BY <1>1, <2>0, <2>1 DEF ConnInv, Held, Marked, InWrite, InStart
  <2>4. Heard(c)'
    BY <1>1, <2>2 DEF Heard
  <2>5. Fresh(c)'
    <3>1. Side(c)' = Side(c)
      BY <1>1 DEF Side
    <3>2. Num(events', <<"bytes", c>>) = 0
      BY <1>1, NumEmpty
    <3>3. task[c] = "none" =>
            /\ Side(c) = [out |-> <<>>, stats |-> NoStats, failed |-> FALSE, compression |-> 0]
            /\ ~closed[c]
      BY <2>0 DEF ConnInv, Fresh
    <3>4. task[c] = "none" =>
            Side(c)' = [out |-> <<>>, stats |-> NoStats, failed |-> FALSE, compression |-> 0]
      BY <3>1, <3>3
    <3> QED BY <1>1, <2>1, <3>2, <3>3, <3>4 DEF Fresh, NoStats
  <2>6. Phase(c)'
    BY <1>1, <2>0, <2>2, Phases DEF ConnInv, Phase
  <2> QED BY <2>3, <2>4, <2>5, <2>6 DEF ConnInv
<1> QED BY <1>3, <1>4 DEF IInv

LEMMA JoinedStep == ASSUME IInv, Joined PROVE IInv'
<1>1. /\ owner = Joining /\ owner' = Ended /\ receiving' = receiving /\ events' = events
      /\ session' = session /\ failed' = failed /\ output' = output /\ closed' = closed
      /\ task' = task /\ reads' = reads /\ compression' = compression /\ stats' = stats
  BY DEF Joined
<1>2. TypeInv /\ \A c \in Conns : ConnInv(c)
  BY DEF IInv
<1>3. TypeInv'
  BY <1>1, <1>2 DEF TypeInv, Idle
<1>4. ASSUME NEW c \in Conns PROVE ConnInv(c)'
  <2>1. Awaited(c)' = Awaited(c) /\ BytesOf(c)' = BytesOf(c)
    BY <1>1, NothingAwaited DEF Idle, BytesOf
  <2>2. Phase(c)'
    BY <1>1, <1>2, Phases DEF ConnInv, Phase
  <2> QED BY <1>1, <1>2, <2>1, <2>2, Frame
<1> QED BY <1>3, <1>4 DEF IInv

\* The counters of a task that is aborted are no longer exact.
LEMMA AbortStep == ASSUME IInv, Abort PROVE IInv'
<1>1. /\ owner = Joining /\ owner' = Ended /\ receiving' = receiving /\ events' = events
      /\ session' = session /\ failed' = failed /\ output' = output /\ closed' = closed
      /\ task' = [c \in Conns |-> IF task[c] = "none" THEN "none" ELSE "aborted"]
      /\ reads' = reads /\ compression' = compression /\ stats' = stats
  BY DEF Abort
<1>2. TypeInv /\ \A c \in Conns : ConnInv(c)
  BY DEF IInv
<1>3. TypeInv'
  <2>1. owner' \in Idle
    BY <1>1 DEF Idle
  <2>2. task' \in [Conns -> {"none", "aborted"} \cup Running \cup Over]
    BY <1>1
  <2> QED BY <1>1, <1>2, <2>1, <2>2 DEF TypeInv
<1>4. ASSUME NEW c \in Conns PROVE ConnInv(c)'
  <2>1. Awaited(c)' = Awaited(c) /\ BytesOf(c)' = BytesOf(c)
    BY <1>1, NothingAwaited DEF Idle, BytesOf
  <2>2. Phase(c)'
    BY <1>1, <1>2, Phases DEF ConnInv, Phase, Over
  <2>3. CASE task[c] = "none"
    <3>1. task'[c] = task[c]
      BY <1>1, <2>3
    <3> QED BY <1>1, <1>2, <2>1, <2>2, <3>1, Frame
  <2>4. CASE task[c] # "none"
    <3>1. task'[c] = "aborted" /\ "aborted" \notin Running
      BY <1>1, <2>4 DEF Running
    <3>2. session[c] # "open"
      BY <1>1, <1>2, Phases DEF ConnInv, Phase
    <3>3. Held(c)' /\ Heard(c)' /\ Fresh(c)'
      BY <1>1, <3>1, <3>2 DEF Held, Heard, Fresh
    <3>4. Marked(c)'
      <4>1. /\ Num(output[c], "compress") + InStart(c) <= 1 /\ InStart(c) \in {0, 1}
            /\ Num(output[c], "compress") \in Nat /\ InStart(c)' = 0
        BY <1>2, <3>1, NumType DEF ConnInv, Marked, InStart, TypeInv
      <4> QED BY <1>1, <3>1, <4>1 DEF Marked
    <3> QED BY <2>2, <3>3, <3>4 DEF ConnInv
  <2> QED BY <2>3, <2>4
<1> QED BY <1>3, <1>4 DEF IInv

-----------------------------------------------------------------------------
(* Steps of the tasks.                                                      *)

\* A step of one task leaves the owner and the other connections alone.
LEMMA TaskStep ==
    ASSUME IInv, NEW c \in Conns, TypeInv', UNCHANGED ownerVars,
           task[c] \in Running \cup Over, task'[c] \in Running \cup Over,
           task'[c] \in Over => closed'[c],
           \A d \in Conns \ {c} :
                /\ output'[d] = output[d] /\ stats'[d] = stats[d]
                /\ compression'[d] = compression[d] /\ task'[d] = task[d]
                /\ closed'[d] = closed[d] /\ BytesOf(d)' = BytesOf(d),
           Held(c)', Marked(c)', Heard(c)'
    PROVE  IInv'
<1>1. owner' = owner /\ receiving' = receiving /\ session' = session /\ failed' = failed
  BY DEF ownerVars
<1>2. TypeInv /\ \A d \in Conns : ConnInv(d)
  BY DEF IInv
<1>3. ASSUME NEW d \in Conns, d # c PROVE ConnInv(d)'
  <2>1. Awaited(d)' = Awaited(d)
    BY <1>1 DEF Awaited
  <2>2. task'[d] = task[d] /\ closed'[d] = closed[d]
    BY <1>3
  <2>3. Phase(d)'
    BY <1>1, <1>2, <2>2 DEF ConnInv, Phase
  <2> QED BY <1>1, <1>2, <1>3, <2>1, <2>3, Frame
<1>4. ConnInv(c)'
  <2>1. task[c] \notin {"none", "aborted"} /\ task'[c] \notin {"none", "aborted"}
    BY DEF Running, Over
  <2>2. Fresh(c)' /\ Phase(c)'
    BY <1>1, <1>2, <2>1 DEF ConnInv, Phase, Fresh
  <2> QED BY <2>2 DEF ConnInv
<1> QED BY <1>3, <1>4 DEF IInv

\* What the invariant says of the counters of a running task.
LEMMA RunningFacts ==
    ASSUME IInv, NEW c \in Conns, task[c] \in Running
    PROVE  /\ stats[c] \in Counters
           /\ stats[c].pending = Num(output[c], "bytes") + InWrite(c)
           /\ stats[c].balance = stats[c].pending + Awaited(c)
           /\ session[c] = "open" => stats[c].unread = BytesOf(c) + InSend(c)
           /\ Num(output[c], "compress") + InStart(c) <= 1
           /\ compression[c] = 1 <=> Num(output[c], "compress") + InStart(c) = 1
           /\ stats[c].balance \in Int /\ stats[c].pending \in Int /\ stats[c].unread \in Int
           /\ Num(output[c], "bytes") \in Nat /\ Num(output[c], "compress") \in Nat
           /\ BytesOf(c) \in Nat /\ output[c] \in Seq(Messages)
           /\ Awaited(c) \in {0, 1}
<1>1. TypeInv /\ ConnInv(c)
  BY DEF IInv
<1>2. task[c] # "aborted"
  BY DEF Running
<1>3. stats[c] \in Counters /\ output[c] \in Seq(Messages) /\ events \in Seq(EventType)
  BY <1>1 DEF TypeInv
<1>4. /\ stats[c].pending = Num(output[c], "bytes") + InWrite(c)
      /\ stats[c].balance = stats[c].pending + Awaited(c)
  BY <1>1, <1>2 DEF ConnInv, Held
<1>5. session[c] = "open" => stats[c].unread = BytesOf(c) + InSend(c)
  BY <1>1 DEF ConnInv, Heard, BytesOf
<1>6. /\ Num(output[c], "compress") + InStart(c) <= 1
      /\ compression[c] = 1 <=> Num(output[c], "compress") + InStart(c) = 1
  BY <1>1 DEF ConnInv, Marked
<1>7. /\ Num(output[c], "bytes") \in Nat /\ Num(output[c], "compress") \in Nat
      /\ BytesOf(c) \in Nat
  BY <1>3, NumType DEF BytesOf
<1>8. stats[c].balance \in Int /\ stats[c].pending \in Int /\ stats[c].unread \in Int
  BY <1>3 DEF Counters
<1>9. Awaited(c) \in {0, 1}
  BY DEF Awaited
<1> QED BY <1>3, <1>4, <1>5, <1>6, <1>7, <1>8, <1>9

\* What is in the hands of a task, by its state.
LEMMA Hands ==
    ASSUME NEW c
    PROVE  /\ InWrite(c) = (IF task[c] = "writing" THEN 1 ELSE 0)
           /\ InSend(c) = (IF task[c] = "sending" THEN 1 ELSE 0)
           /\ InStart(c) = (IF task[c] = "starting" THEN 1 ELSE 0)
           /\ InWrite(c)' = (IF task'[c] = "writing" THEN 1 ELSE 0)
           /\ InSend(c)' = (IF task'[c] = "sending" THEN 1 ELSE 0)
           /\ InStart(c)' = (IF task'[c] = "starting" THEN 1 ELSE 0)
BY DEF InWrite, InSend, InStart

\* The task leaves its loop with counters that are exact but for the channel.
LEMMA LeaveStep ==
    ASSUME IInv, NEW c \in Conns, task[c] \in Running, task[c] # "sending",
           NEW r \in Counters,
           r.pending = Num(output[c], "bytes"), r.balance = r.pending + Awaited(c),
           r.unread = stats[c].unread,
           Leave(c, r), events' = events, reads' = reads, compression' = compression,
           UNCHANGED ownerVars
    PROVE  IInv'
<1> DEFINE n == Num(output[c], "bytes")
           w == Counted(r, r.balance - n, r.pending - n)
<1>1. TypeInv
  BY DEF IInv
<1>2. owner' = owner /\ receiving' = receiving /\ session' = session /\ failed' = failed
  BY DEF ownerVars
<1>3. n \in Nat /\ Awaited(c) \in {0, 1} /\ r.pending \in Int /\ r.balance \in Int
  BY RunningFacts DEF Counters
<1>4. /\ w \in Counters /\ w.pending = 0 /\ w.balance = Awaited(c)
      /\ w.unread = stats[c].unread
  <2>1. r.balance - n \in Int /\ r.pending - n \in Int
    BY <1>3
  <2>2. /\ w \in Counters /\ w.balance = r.balance - n /\ w.pending = r.pending - n
        /\ w.unread = r.unread
    BY <2>1, CountersSet
  <2>3. r.pending - n = 0 /\ r.balance - n = Awaited(c)
    BY <1>3
  <2> QED BY <2>2, <2>3
<1>5. /\ closed' = [closed EXCEPT ![c] = TRUE]
      /\ output' = [output EXCEPT ![c] = <<>>]
      /\ stats' = [stats EXCEPT ![c] = w]
      /\ task' = [task EXCEPT ![c] = "leaving"]
  <2>1. /\ closed' = [closed EXCEPT ![c] = TRUE]
        /\ output' = [output EXCEPT ![c] = <<>>]
        /\ stats' = [stats EXCEPT ![c] = [r EXCEPT !.pending = @ - Queued(c),
                                                   !.balance = @ - Queued(c)]]
        /\ task' = [task EXCEPT ![c] = "leaving"]
    BY DEF Leave
  <2>2. [r EXCEPT !.pending = @ - Queued(c), !.balance = @ - Queued(c)] = w
    <3>1. Queued(c) = n
      BY DEF Queued, Num
    <3> QED BY <3>1 DEF Counted, Counters
  <2> QED BY <2>1, <2>2
<1> HIDE DEF w
<1>6. TypeInv'
  <2>1. output' \in [Conns -> Seq(Messages)]
    BY <1>1, <1>5 DEF TypeInv
  <2>2. stats' \in [Conns -> Counters]
    BY <1>1, <1>4, <1>5 DEF TypeInv
  <2>3. task' \in [Conns -> {"none", "aborted"} \cup Running \cup Over]
    BY <1>1, <1>5 DEF TypeInv, Over
  <2>4. closed' \in [Conns -> BOOLEAN]
    BY <1>1, <1>5 DEF TypeInv
  <2> QED BY <1>1, <1>2, <2>1, <2>2, <2>3, <2>4 DEF TypeInv
<1>7. \A d \in Conns \ {c} :
        /\ output'[d] = output[d] /\ stats'[d] = stats[d]
        /\ compression'[d] = compression[d] /\ task'[d] = task[d]
        /\ closed'[d] = closed[d] /\ BytesOf(d)' = BytesOf(d)
  BY <1>1, <1>5 DEF TypeInv, BytesOf
<1>8. /\ output'[c] = <<>> /\ stats'[c] = w /\ task'[c] = "leaving" /\ closed'[c]
      /\ Awaited(c)' = Awaited(c) /\ BytesOf(c)' = BytesOf(c)
      /\ Num(output'[c], "bytes") = 0 /\ Num(output'[c], "compress") = 0
  <2>1. /\ output'[c] = <<>> /\ stats'[c] = w /\ task'[c] = "leaving" /\ closed'[c]
    BY <1>1, <1>5 DEF TypeInv
  <2> QED BY <1>2, <2>1, NumEmpty DEF Awaited, BytesOf
<1>9. InWrite(c)' = 0 /\ InSend(c)' = 0 /\ InStart(c)' = 0 /\ InSend(c) = 0
  BY <1>8, Hands
<1>10. Held(c)'
  BY <1>3, <1>4, <1>8, <1>9 DEF Held
<1>11. Marked(c)'
  BY <1>8, <1>9 DEF Marked, Running
<1>12. Heard(c)'
  <2>1. session[c] = "open" => stats[c].unread = BytesOf(c)
    BY <1>9, RunningFacts
  <2>2. BytesOf(c) \in Nat
    BY RunningFacts
  <2> QED BY <1>2, <1>4, <1>8, <1>9, <2>1, <2>2 DEF Heard, BytesOf
<1>13. task[c] \in Running \cup Over /\ task'[c] \in Running \cup Over
  BY <1>8 DEF Over
<1> QED BY <1>6, <1>7, <1>8, <1>10, <1>11, <1>12, <1>13, TaskStep

LEMMA ReadStep == ASSUME IInv, NEW c \in Conns, Read(c) PROVE IInv'
<1>1. /\ task[c] = "select" /\ reads' = reads + 1
      /\ stats' = [stats EXCEPT ![c].unread = @ + 1]
      /\ task' = [task EXCEPT ![c] = "sending"]
      /\ events' = events /\ output' = output /\ closed' = closed
      /\ compression' = compression /\ UNCHANGED ownerVars
  BY DEF Read
<1>2. owner' = owner /\ receiving' = receiving /\ session' = session /\ failed' = failed
  BY <1>1 DEF ownerVars
<1>3. TypeInv /\ task[c] \in Running
  BY <1>1 DEF IInv, Running
<1>4. PICK w : w = [stats[c] EXCEPT !.unread = @ + 1]
  OBVIOUS
<1>5. /\ w \in Counters /\ w.balance = stats[c].balance /\ w.pending = stats[c].pending
      /\ w.unread = stats[c].unread + 1
  BY <1>3, <1>4, RunningFacts DEF Counters
<1>6. stats' = [stats EXCEPT ![c] = w]
  BY <1>1, <1>4
<1>7. TypeInv'
  <2>1. stats' \in [Conns -> Counters]
    BY <1>3, <1>5, <1>6 DEF TypeInv
  <2>2. task' \in [Conns -> {"none", "aborted"} \cup Running \cup Over]
    BY <1>1, <1>3 DEF TypeInv, Running
  <2>3. reads' \in Int
    BY <1>1, <1>3 DEF TypeInv
  <2> QED BY <1>1, <1>2, <1>3, <2>1, <2>2, <2>3 DEF TypeInv
<1>8. \A d \in Conns \ {c} :
        /\ output'[d] = output[d] /\ stats'[d] = stats[d]
        /\ compression'[d] = compression[d] /\ task'[d] = task[d]
        /\ closed'[d] = closed[d] /\ BytesOf(d)' = BytesOf(d)
  BY <1>1, <1>3, <1>6 DEF TypeInv, BytesOf
<1>9. /\ stats'[c] = w /\ task'[c] = "sending" /\ output'[c] = output[c]
      /\ compression'[c] = compression[c]
      /\ Awaited(c)' = Awaited(c) /\ BytesOf(c)' = BytesOf(c)
  BY <1>1, <1>2, <1>3, <1>6 DEF TypeInv, Awaited, BytesOf
<1>10. /\ InWrite(c) = 0 /\ InSend(c) = 0 /\ InStart(c) = 0
       /\ InWrite(c)' = 0 /\ InSend(c)' = 1 /\ InStart(c)' = 0
  BY <1>1, <1>9, Hands
<1>11. Held(c)'
  <2>1. /\ stats[c].pending = Num(output[c], "bytes") + InWrite(c)
        /\ stats[c].balance = stats[c].pending + Awaited(c)
    BY <1>3, RunningFacts
  <2> QED BY <1>5, <1>9, <1>10, <2>1 DEF Held
<1>12. Marked(c)'
  <2>1. /\ Num(output[c], "compress") + InStart(c) <= 1
        /\ compression[c] = 1 <=> Num(output[c], "compress") + InStart(c) = 1
    BY <1>3, RunningFacts
  <2> QED BY <1>9, <1>10, <2>1 DEF Marked
<1>13. Heard(c)'
  <2>1. /\ session[c] = "open" => stats[c].unread = BytesOf(c) + InSend(c)
        /\ BytesOf(c) \in Nat
    BY <1>3, RunningFacts
  <2>2. session[c] = "open" => stats'[c].unread = BytesOf(c)' + InSend(c)'
    BY <1>5, <1>9, <1>10, <2>1
  <2> QED BY <1>2, <2>2 DEF Heard, BytesOf
<1>14. /\ task[c] \in Running \cup Over /\ task'[c] \in Running \cup Over
       /\ task'[c] \notin Over
  BY <1>3, <1>9 DEF Running, Over
<1> QED BY <1>1, <1>7, <1>8, <1>11, <1>12, <1>13, <1>14, TaskStep

\* An event of one connection is added to the channel.
LEMMA EventSent ==
    ASSUME TypeInv, NEW kind \in {"bytes", "gone"}, NEW c \in Conns,
           events' = Append(events, <<kind, c>>)
    PROVE  /\ events' \in Seq(EventType)
           /\ \A d \in Conns :
                /\ BytesOf(d) \in Nat
                /\ BytesOf(d)' = IF kind = "bytes" /\ d = c THEN BytesOf(d) + 1 ELSE BytesOf(d)
<1>1. events \in Seq(EventType) /\ <<kind, c>> \in EventType
  BY DEF TypeInv, EventType
<1>2. Append(events, <<kind, c>>) \in Seq(EventType)
  BY <1>1
<1>3. ASSUME NEW d \in Conns
      PROVE /\ BytesOf(d) \in Nat
            /\ BytesOf(d)' = IF kind = "bytes" /\ d = c THEN BytesOf(d) + 1 ELSE BytesOf(d)
  <2>1. Num(events, <<"bytes", d>>) \in Nat
    BY <1>1, NumType
  <2>2. Num(Append(events, <<kind, c>>), <<"bytes", d>>)
            = Num(events, <<"bytes", d>>) + (IF <<kind, c>> = <<"bytes", d>> THEN 1 ELSE 0)
    BY <1>1, NumAppend
  <2>3. <<kind, c>> = <<"bytes", d>> <=> kind = "bytes" /\ d = c
    OBVIOUS
  <2>4. BytesOf(d) = Num(events, <<"bytes", d>>)
        /\ BytesOf(d)' = Num(Append(events, <<kind, c>>), <<"bytes", d>>)
    BY DEF BytesOf
  <2> QED BY ONLY <2>1, <2>2, <2>3, <2>4
<1> QED BY <1>2, <1>3

LEMMA SentStep == ASSUME IInv, NEW c \in Conns, Sent(c) PROVE IInv'
<1>1. /\ task[c] = "sending"
      /\ \/ /\ receiving /\ events' = Append(events, <<"bytes", c>>) /\ stats' = stats
         \/ /\ ~receiving /\ events' = events
            /\ stats' = [stats EXCEPT ![c].unread = @ - 1]
      /\ task' = [task EXCEPT ![c] = "select"]
      /\ reads' = reads /\ output' = output /\ closed' = closed
      /\ compression' = compression /\ UNCHANGED ownerVars
  BY DEF Sent
<1>2. owner' = owner /\ receiving' = receiving /\ session' = session /\ failed' = failed
  BY <1>1 DEF ownerVars
<1>3. TypeInv /\ task[c] \in Running /\ ConnInv(c)
  BY <1>1 DEF IInv, Running
<1>4. PICK w : w = [stats[c] EXCEPT !.unread = @ - 1]
  OBVIOUS
<1>5. /\ w \in Counters /\ w.balance = stats[c].balance /\ w.pending = stats[c].pending
  BY <1>3, <1>4, RunningFacts DEF Counters
<1>6. stats' = stats \/ stats' = [stats EXCEPT ![c] = w]
  BY <1>1, <1>4
<1>7. /\ stats'[c].balance = stats[c].balance /\ stats'[c].pending = stats[c].pending
      /\ stats' \in [Conns -> Counters]
      /\ \A d \in Conns \ {c} : stats'[d] = stats[d]
  BY <1>3, <1>5, <1>6 DEF TypeInv
<1>8. /\ events' \in Seq(EventType)
      /\ \A d \in Conns \ {c} : BytesOf(d)' = BytesOf(d)
  <2>1. CASE events' = Append(events, <<"bytes", c>>)
    BY <1>3, <2>1, EventSent
  <2>2. CASE events' = events
    BY <1>3, <2>2 DEF BytesOf, TypeInv
  <2> QED BY <1>1, <2>1, <2>2
<1>9. task'[c] = "select" /\ output'[c] = output[c] /\ compression'[c] = compression[c]
      /\ Awaited(c)' = Awaited(c)
  BY <1>1, <1>2, <1>3 DEF TypeInv, Awaited
<1>10. TypeInv'
  <2>1. task' \in [Conns -> {"none", "aborted"} \cup Running \cup Over]
    BY <1>1, <1>3 DEF TypeInv, Running
  <2> QED BY <1>1, <1>2, <1>3, <1>7, <1>8, <2>1 DEF TypeInv
<1>11. \A d \in Conns \ {c} :
        /\ output'[d] = output[d] /\ stats'[d] = stats[d]
        /\ compression'[d] = compression[d] /\ task'[d] = task[d]
        /\ closed'[d] = closed[d] /\ BytesOf(d)' = BytesOf(d)
  BY <1>1, <1>3, <1>7, <1>8 DEF TypeInv
<1>12. /\ InWrite(c) = 0 /\ InSend(c) = 1 /\ InStart(c) = 0
       /\ InWrite(c)' = 0 /\ InSend(c)' = 0 /\ InStart(c)' = 0
  BY <1>1, <1>9, Hands
<1>13. Held(c)'
  <2>1. /\ stats[c].pending = Num(output[c], "bytes") + InWrite(c)
        /\ stats[c].balance = stats[c].pending + Awaited(c)
    BY <1>3, RunningFacts
  <2> QED BY <1>7, <1>9, <1>12, <2>1 DEF Held
<1>14. Marked(c)'
  <2>1. /\ Num(output[c], "compress") + InStart(c) <= 1
        /\ compression[c] = 1 <=> Num(output[c], "compress") + InStart(c) = 1
    BY <1>3, RunningFacts
  <2> QED BY <1>9, <1>12, <2>1 DEF Marked
<1>15. Heard(c)'
  <2>1. CASE receiving /\ events' = Append(events, <<"bytes", c>>) /\ stats' = stats
    <3>1. /\ session[c] = "open" => stats[c].unread = BytesOf(c) + InSend(c)
          /\ BytesOf(c) \in Nat
      BY <1>3, RunningFacts
    <3>2. BytesOf(c)' = BytesOf(c) + 1
      BY <1>3, <2>1, EventSent
    <3>3. session[c] = "open" => stats'[c].unread = BytesOf(c)' + InSend(c)'
      BY <1>12, <2>1, <3>1, <3>2
    <3> QED BY <1>2, <3>3 DEF Heard, BytesOf
  <2>2. CASE ~receiving
    <3>1. session[c] # "open"
      BY <1>3, <2>2 DEF ConnInv, Phase
    <3> QED BY <1>2, <3>1 DEF Heard
  <2> QED BY <1>1, <2>1, <2>2
<1>16. /\ task[c] \in Running \cup Over /\ task'[c] \in Running \cup Over
       /\ task'[c] \notin Over
  BY <1>3, <1>9 DEF Running, Over
<1> QED BY <1>1, <1>10, <1>11, <1>13, <1>14, <1>15, <1>16, TaskStep

LEMMA ReadEndsStep == ASSUME IInv, NEW c \in Conns, ReadEnds(c) PROVE IInv'
<1>1. /\ task[c] = "select" /\ Leave(c, stats[c]) /\ events' = events /\ reads' = reads
      /\ compression' = compression /\ UNCHANGED ownerVars
  BY DEF ReadEnds
<1>2. task[c] \in Running /\ InWrite(c) = 0
  BY <1>1, Hands DEF Running
<1>3. /\ stats[c] \in Counters /\ stats[c].pending = Num(output[c], "bytes")
      /\ stats[c].balance = stats[c].pending + Awaited(c)
  BY <1>2, RunningFacts
<1> QED BY <1>1, <1>2, <1>3, LeaveStep

LEMMA FinishedStep == ASSUME IInv, NEW c \in Conns, Finished(c) PROVE IInv'
<1>1. /\ task[c] = "finishing" /\ Leave(c, stats[c]) /\ events' = events /\ reads' = reads
      /\ compression' = compression /\ UNCHANGED ownerVars
  BY DEF Finished
<1>2. task[c] \in Running /\ InWrite(c) = 0
  BY <1>1, Hands DEF Running
<1>3. /\ stats[c] \in Counters /\ stats[c].pending = Num(output[c], "bytes")
      /\ stats[c].balance = stats[c].pending + Awaited(c)
  BY <1>2, RunningFacts
<1> QED BY <1>1, <1>2, <1>3, LeaveStep

\* A task whose step leaves the events and the owner alone, and that stays in
\* its loop.
LEMMA LoopStep ==
    ASSUME IInv, NEW c \in Conns, task[c] \in Running, NEW s \in Running,
           task[c] # "sending", s # "sending",
           task' = [task EXCEPT ![c] = s],
           NEW out \in Seq(Messages), output' = [output EXCEPT ![c] = out],
           NEW w \in Counters, stats' = [stats EXCEPT ![c] = w],
           NEW z \in {0, 1, 2}, compression' = [compression EXCEPT ![c] = z],
           events' = events, reads' = reads, closed' = closed, UNCHANGED ownerVars,
           w.unread = stats[c].unread,
           w.pending = Num(out, "bytes") + (IF s = "writing" THEN 1 ELSE 0),
           w.balance = w.pending + Awaited(c),
           Num(out, "compress") + (IF s = "starting" THEN 1 ELSE 0) <= 1,
           z = 1 <=> Num(out, "compress") + (IF s = "starting" THEN 1 ELSE 0) = 1
    PROVE  IInv'
<1>1. TypeInv
  BY DEF IInv
<1>2. owner' = owner /\ receiving' = receiving /\ session' = session /\ failed' = failed
  BY DEF ownerVars
<1>3. TypeInv'
  <2>1. output' \in [Conns -> Seq(Messages)] /\ stats' \in [Conns -> Counters]
        /\ compression' \in [Conns -> {0, 1, 2}]
        /\ task' \in [Conns -> {"none", "aborted"} \cup Running \cup Over]
    BY <1>1 DEF TypeInv
  <2> QED BY <1>1, <1>2, <2>1 DEF TypeInv
<1>4. \A d \in Conns \ {c} :
        /\ output'[d] = output[d] /\ stats'[d] = stats[d]
        /\ compression'[d] = compression[d] /\ task'[d] = task[d]
        /\ closed'[d] = closed[d] /\ BytesOf(d)' = BytesOf(d)
  BY <1>1 DEF TypeInv, BytesOf
<1>5. /\ output'[c] = out /\ stats'[c] = w /\ task'[c] = s /\ compression'[c] = z
      /\ Awaited(c)' = Awaited(c) /\ BytesOf(c)' = BytesOf(c)
  BY <1>1, <1>2 DEF TypeInv, Awaited, BytesOf
<1>6. /\ InWrite(c)' = (IF s = "writing" THEN 1 ELSE 0) /\ InSend(c)' = 0 /\ InSend(c) = 0
      /\ InStart(c)' = (IF s = "starting" THEN 1 ELSE 0)
  BY <1>5, Hands
<1>7. Held(c)'
  BY <1>5, <1>6 DEF Held
<1>8. Marked(c)'
  BY <1>5, <1>6 DEF Marked
<1>9. Heard(c)'
  <2>1. session[c] = "open" => stats[c].unread = BytesOf(c) + InSend(c)
    BY RunningFacts
  <2> QED BY <1>2, <1>5, <1>6, <2>1 DEF Heard, BytesOf
<1>10. task[c] \in Running \cup Over /\ task'[c] \in Running \cup Over /\ task'[c] \notin Over
  BY <1>5 DEF Running, Over
<1> QED BY <1>3, <1>4, <1>7, <1>8, <1>9, <1>10, TaskStep

LEMMA RecvStep == ASSUME IInv, NEW c \in Conns, Recv(c) PROVE IInv'
<1>1. /\ task[c] = "select" /\ events' = events /\ reads' = reads /\ closed' = closed
      /\ stats' = stats /\ compression' = compression /\ UNCHANGED ownerVars
  BY DEF Recv
<1>2. TypeInv /\ task[c] \in Running
  BY <1>1 DEF IInv, Running
<1>3. /\ stats' = [stats EXCEPT ![c] = stats[c]]
      /\ compression' = [compression EXCEPT ![c] = compression[c]]
      /\ compression[c] \in {0, 1, 2}
  BY <1>1, <1>2 DEF TypeInv
<1>4. /\ stats[c] \in Counters
      /\ stats[c].pending = Num(output[c], "bytes") + InWrite(c)
      /\ stats[c].balance = stats[c].pending + Awaited(c)
      /\ Num(output[c], "compress") + InStart(c) <= 1
      /\ compression[c] = 1 <=> Num(output[c], "compress") + InStart(c) = 1
      /\ Num(output[c], "bytes") \in Nat /\ Num(output[c], "compress") \in Nat
      /\ output[c] \in Seq(Messages)
  BY <1>2, RunningFacts
<1>5. InWrite(c) = 0 /\ InStart(c) = 0
  BY <1>1, Hands
<1>6. CASE /\ output[c] # <<>>
           /\ output' = [output EXCEPT ![c] = Tail(@)]
           /\ task' = [task EXCEPT ![c] = CASE Head(output[c]) = "bytes" -> "writing"
                                          [] Head(output[c]) = "compress" -> "starting"
                                          [] Head(output[c]) = "close" -> "finishing"]
  <2> DEFINE out == Tail(output[c])
             h == Head(output[c])
  <2>1. h \in Messages /\ out \in Seq(Messages)
    BY <1>4, <1>6
  <2>2. /\ Num(out, "bytes") = Num(output[c], "bytes") - (IF h = "bytes" THEN 1 ELSE 0)
        /\ Num(out, "compress") = Num(output[c], "compress") - (IF h = "compress" THEN 1 ELSE 0)
    BY <1>4, <1>6, NumTail
  <2>3. output' = [output EXCEPT ![c] = out]
    BY <1>6
  <2>4. PICK s \in Running :
            /\ s # "sending" /\ task' = [task EXCEPT ![c] = s]
            /\ s = "writing" <=> h = "bytes"
            /\ s = "starting" <=> h = "compress"
    <3>1. CASE h = "bytes"
      BY <1>6, <3>1 DEF Running
    <3>2. CASE h = "compress"
      BY <1>6, <3>2 DEF Running
    <3>3. CASE h = "close"
      BY <1>6, <3>3 DEF Running
    <3> QED BY <2>1, <3>1, <3>2, <3>3 DEF Messages
  <2> HIDE DEF out, h
  <2>5. /\ stats[c].pending = Num(out, "bytes") + (IF s = "writing" THEN 1 ELSE 0)
        /\ Num(out, "compress") + (IF s = "starting" THEN 1 ELSE 0) = Num(output[c], "compress")
    BY <1>4, <1>5, <2>2, <2>4
  <2>6. /\ Num(out, "compress") + (IF s = "starting" THEN 1 ELSE 0) <= 1
        /\ compression[c] = 1 <=> Num(out, "compress") + (IF s = "starting" THEN 1 ELSE 0) = 1
    BY <1>4, <1>5, <2>5
  <2> QED BY <1>1, <1>2, <1>3, <1>4, <2>1, <2>3, <2>4, <2>5, <2>6, LoopStep
<1>7. CASE /\ output[c] = <<>> /\ session[c] = "gone"
           /\ task' = [task EXCEPT ![c] = "finishing"] /\ output' = output
  <2>1. output' = [output EXCEPT ![c] = output[c]] /\ "finishing" \in Running
    BY <1>2, <1>7 DEF TypeInv, Running
  <2>2. /\ stats[c].pending = Num(output[c], "bytes") + (IF "finishing" = "writing" THEN 1 ELSE 0)
        /\ Num(output[c], "compress") + (IF "finishing" = "starting" THEN 1 ELSE 0) <= 1
        /\ compression[c] = 1 <=>
                Num(output[c], "compress") + (IF "finishing" = "starting" THEN 1 ELSE 0) = 1
    BY <1>4, <1>5
  <2> QED BY <1>1, <1>2, <1>3, <1>4, <1>7, <2>1, <2>2, LoopStep
<1> QED BY <1>6, <1>7 DEF Recv

LEMMA WrittenStep == ASSUME IInv, NEW c \in Conns, Written(c) PROVE IInv'
<1> DEFINE w == Counted(stats[c], stats[c].balance - 1, stats[c].pending - 1)
<1>1. /\ task[c] = "writing" /\ events' = events /\ reads' = reads
      /\ compression' = compression /\ UNCHANGED ownerVars
  BY DEF Written
<1>2. TypeInv /\ task[c] \in Running
  BY <1>1 DEF IInv, Running
<1>3. /\ stats[c] \in Counters
      /\ stats[c].pending = Num(output[c], "bytes") + InWrite(c)
      /\ stats[c].balance = stats[c].pending + Awaited(c)
      /\ Num(output[c], "compress") + InStart(c) <= 1
      /\ compression[c] = 1 <=> Num(output[c], "compress") + InStart(c) = 1
      /\ Num(output[c], "bytes") \in Nat /\ Num(output[c], "compress") \in Nat
      /\ output[c] \in Seq(Messages) /\ Awaited(c) \in {0, 1}
      /\ stats[c].balance \in Int /\ stats[c].pending \in Int
  BY <1>2, RunningFacts
<1>4. InWrite(c) = 1 /\ InStart(c) = 0
  BY <1>1, Hands
<1>5. /\ w \in Counters /\ w.unread = stats[c].unread
      /\ w.pending = Num(output[c], "bytes") /\ w.balance = w.pending + Awaited(c)
  <2>1. stats[c].balance - 1 \in Int /\ stats[c].pending - 1 \in Int
    BY <1>3
  <2>2. /\ w \in Counters /\ w.unread = stats[c].unread
        /\ w.pending = stats[c].pending - 1 /\ w.balance = stats[c].balance - 1
    BY <1>3, <2>1, CountersSet
  <2> HIDE DEF w
  <2> QED BY <1>3, <1>4, <2>2
<1>6. CASE /\ stats' = [stats EXCEPT ![c].pending = @ - 1, ![c].balance = @ - 1]
           /\ task' = [task EXCEPT ![c] = "select"] /\ output' = output /\ closed' = closed
  <2>1. stats' = [stats EXCEPT ![c] = w]
    BY <1>2, <1>3, <1>6 DEF Counted, Counters, TypeInv
  <2> HIDE DEF w
  <2>2. /\ output' = [output EXCEPT ![c] = output[c]] /\ "select" \in Running
        /\ compression' = [compression EXCEPT ![c] = compression[c]]
        /\ compression[c] \in {0, 1, 2}
    BY <1>1, <1>2, <1>6 DEF TypeInv, Running
  <2>3. /\ w.pending = Num(output[c], "bytes") + (IF "select" = "writing" THEN 1 ELSE 0)
        /\ Num(output[c], "compress") + (IF "select" = "starting" THEN 1 ELSE 0) <= 1
        /\ compression[c] = 1 <=>
                Num(output[c], "compress") + (IF "select" = "starting" THEN 1 ELSE 0) = 1
    BY <1>3, <1>4, <1>5
  <2>4. /\ task[c] # "sending" /\ "select" # "sending"
        /\ task' = [task EXCEPT ![c] = "select"] /\ closed' = closed
    BY <1>1, <1>6
  <2> QED BY ONLY IInv, c \in Conns, <1>1, <1>2, <1>3, <1>5, <2>1, <2>2, <2>3, <2>4, LoopStep
<1>7. CASE Leave(c, [stats[c] EXCEPT !.pending = @ - 1, !.balance = @ - 1])
  <2>1. [stats[c] EXCEPT !.pending = @ - 1, !.balance = @ - 1] = w
    BY <1>3 DEF Counted, Counters
  <2>2. Leave(c, w)
    BY <1>7, <2>1
  <2> HIDE DEF w
  <2>3. task[c] # "sending"
    BY <1>1
  <2> QED BY ONLY IInv, c \in Conns, <1>1, <1>2, <1>5, <2>2, <2>3, LeaveStep
<1> QED BY <1>6, <1>7 DEF Written

LEMMA StartedStep == ASSUME IInv, NEW c \in Conns, Started(c) PROVE IInv'
<1>1. /\ task[c] = "starting" /\ events' = events /\ reads' = reads /\ UNCHANGED ownerVars
  BY DEF Started
<1>2. TypeInv /\ task[c] \in Running
  BY <1>1 DEF IInv, Running
<1>3. /\ stats[c] \in Counters
      /\ stats[c].pending = Num(output[c], "bytes") + InWrite(c)
      /\ stats[c].balance = stats[c].pending + Awaited(c)
      /\ Num(output[c], "compress") + InStart(c) <= 1
      /\ Num(output[c], "bytes") \in Nat /\ Num(output[c], "compress") \in Nat
      /\ output[c] \in Seq(Messages)
  BY <1>2, RunningFacts
<1>4. InWrite(c) = 0 /\ InStart(c) = 1
  BY <1>1, Hands
<1>5. stats[c].pending = Num(output[c], "bytes") /\ Num(output[c], "compress") = 0
  BY <1>3, <1>4
<1>6. CASE /\ compression' = [compression EXCEPT ![c] = 2]
           /\ task' = [task EXCEPT ![c] = "select"]
           /\ output' = output /\ closed' = closed /\ stats' = stats
  <2>1. /\ output' = [output EXCEPT ![c] = output[c]] /\ "select" \in Running
        /\ stats' = [stats EXCEPT ![c] = stats[c]] /\ 2 \in {0, 1, 2}
    BY <1>2, <1>6 DEF TypeInv, Running
  <2>2. /\ stats[c].pending = Num(output[c], "bytes") + (IF "select" = "writing" THEN 1 ELSE 0)
        /\ Num(output[c], "compress") + (IF "select" = "starting" THEN 1 ELSE 0) <= 1
        /\ 2 = 1 <=> Num(output[c], "compress") + (IF "select" = "starting" THEN 1 ELSE 0) = 1
    BY <1>3, <1>5
  <2>3. task[c] # "sending" /\ "select" # "sending"
    BY <1>1
  <2> QED BY ONLY IInv, c \in Conns, <1>1, <1>2, <1>3, <1>6, <2>1, <2>2, <2>3, LoopStep
<1>7. CASE Leave(c, stats[c]) /\ compression' = compression
  <2>1. task[c] # "sending"
    BY <1>1
  <2> QED BY ONLY IInv, c \in Conns, <1>1, <1>2, <1>3, <1>5, <1>7, <2>1, LeaveStep
<1> QED BY <1>6, <1>7 DEF Started

LEMMA SendGoneStep == ASSUME IInv, NEW c \in Conns, SendGone(c) PROVE IInv'
<1>1. /\ task[c] = "leaving" /\ task' = [task EXCEPT ![c] = "ended"]
      /\ events' = Append(events, <<"gone", c>>) \/ events' = events
      /\ reads' = reads /\ output' = output /\ closed' = closed
      /\ compression' = compression /\ stats' = stats /\ UNCHANGED ownerVars
  BY DEF SendGone
<1>2. owner' = owner /\ receiving' = receiving /\ session' = session /\ failed' = failed
  BY <1>1 DEF ownerVars
<1>3. TypeInv /\ ConnInv(c) /\ task[c] \in Over
  BY <1>1 DEF IInv, Over
<1>4. events' \in Seq(EventType) /\ \A d \in Conns : BytesOf(d)' = BytesOf(d)
  <2>1. CASE events' = Append(events, <<"gone", c>>)
    BY <1>3, <2>1, EventSent
  <2>2. CASE events' = events
    BY <1>3, <2>2 DEF TypeInv, BytesOf
  <2> QED BY <1>1, <2>1, <2>2
<1>5. TypeInv'
  <2>1. task' \in [Conns -> {"none", "aborted"} \cup Running \cup Over]
    BY <1>1, <1>3 DEF TypeInv, Over
  <2> QED BY <1>1, <1>2, <1>3, <1>4, <2>1 DEF TypeInv
<1>6. \A d \in Conns \ {c} :
        /\ output'[d] = output[d] /\ stats'[d] = stats[d]
        /\ compression'[d] = compression[d] /\ task'[d] = task[d]
        /\ closed'[d] = closed[d] /\ BytesOf(d)' = BytesOf(d)
  BY <1>1, <1>3, <1>4 DEF TypeInv
<1>7. task'[c] = "ended" /\ Awaited(c)' = Awaited(c)
  BY <1>1, <1>2, <1>3 DEF TypeInv, Awaited
<1>8. /\ InWrite(c) = InWrite(c)' /\ InSend(c) = InSend(c)' /\ InStart(c) = InStart(c)'
      /\ "ended" \notin Running /\ closed'[c]
  BY <1>1, <1>3, <1>7, Hands DEF Running, ConnInv, Phase
<1>9. Held(c)' /\ Marked(c)'
  BY <1>1, <1>3, <1>7, <1>8 DEF ConnInv, Held, Marked
<1>10. Heard(c)'
  BY <1>1, <1>2, <1>3, <1>4, <1>8 DEF ConnInv, Heard, BytesOf
<1>11. task[c] \in Running \cup Over /\ task'[c] \in Running \cup Over
  BY <1>3, <1>7 DEF Over
<1> QED BY <1>1, <1>5, <1>6, <1>8, <1>9, <1>10, <1>11, TaskStep

-----------------------------------------------------------------------------
(* The theorem.                                                             *)

LEMMA InitHolds == Init => IInv
<1> SUFFICES ASSUME Init PROVE IInv
  OBVIOUS
<1>1. /\ owner = Loop /\ events = <<>> /\ receiving = TRUE /\ reads = 0
      /\ session = [c \in Conns |-> "none"] /\ failed = [c \in Conns |-> FALSE]
      /\ output = [c \in Conns |-> <<>>] /\ closed = [c \in Conns |-> FALSE]
      /\ task = [c \in Conns |-> "none"] /\ compression = [c \in Conns |-> 0]
      /\ stats = [c \in Conns |-> NoStats]
  BY DEF Init
<1>2. TypeInv
  <2>1. NoStats \in Counters
    BY DEF NoStats, Counters
  <2>2. owner \in Idle /\ events \in Seq(EventType) /\ reads \in Int
    BY <1>1 DEF Idle
  <2>3. receiving \in BOOLEAN
    BY <1>1, Zenon
  <2>4. /\ output \in [Conns -> Seq(Messages)] /\ stats \in [Conns -> Counters]
        /\ session \in [Conns -> {"none", "open", "gone"}]
        /\ compression \in [Conns -> {0, 1, 2}]
        /\ task \in [Conns -> {"none", "aborted"} \cup Running \cup Over]
    BY <1>1, <2>1
  <2>5. failed \in [Conns -> BOOLEAN] /\ closed \in [Conns -> BOOLEAN]
    BY <1>1
  <2> QED BY <2>2, <2>3, <2>4, <2>5 DEF TypeInv
<1>3. ASSUME NEW c \in Conns PROVE ConnInv(c)
  <2>1. /\ task[c] = "none" /\ session[c] = "none" /\ output[c] = <<>>
        /\ stats[c] = NoStats /\ ~closed[c] /\ compression[c] = 0 /\ failed[c] = FALSE
    BY <1>1
  <2>2. /\ Num(output[c], "bytes") = 0 /\ Num(output[c], "compress") = 0
        /\ Num(events, <<"bytes", c>>) = 0
    BY <1>1, <2>1, NumEmpty
  <2>3. InWrite(c) = 0 /\ InSend(c) = 0 /\ InStart(c) = 0 /\ Awaited(c) = 0
    BY <1>1, <2>1, NothingAwaited DEF InWrite, InSend, InStart, Idle
  <2>4. Held(c) /\ Marked(c) /\ Heard(c)
    BY <2>1, <2>2, <2>3 DEF Held, Marked, Heard, NoStats, Running
  <2>5. Fresh(c)
    BY <2>1, <2>2, <2>3 DEF Fresh, Side
  <2>6. Phase(c)
    BY <1>1, <2>1, Phases DEF Phase, Over
  <2> QED BY <2>4, <2>5, <2>6 DEF ConnInv
<1> QED BY <1>2, <1>3 DEF IInv

LEMMA StutterStep == ASSUME IInv, UNCHANGED vars PROVE IInv'
<1>1. /\ owner' = owner /\ receiving' = receiving /\ events' = events
      /\ session' = session /\ failed' = failed /\ output' = output /\ closed' = closed
      /\ task' = task /\ reads' = reads /\ compression' = compression /\ stats' = stats
  BY DEF vars
<1>2. TypeInv /\ \A c \in Conns : ConnInv(c)
  BY DEF IInv
<1>3. TypeInv'
  BY <1>1, <1>2 DEF TypeInv
<1>4. ASSUME NEW c \in Conns PROVE ConnInv(c)'
  <2>1. Awaited(c)' = Awaited(c) /\ BytesOf(c)' = BytesOf(c) /\ Phase(c)'
    BY <1>1, <1>2 DEF Awaited, BytesOf, ConnInv, Phase
  <2> QED BY <1>1, <1>2, <2>1, Frame
<1> QED BY <1>3, <1>4 DEF IInv

LEMMA StepHolds == IInv /\ [Next]_vars => IInv'
<1> SUFFICES ASSUME IInv, [Next]_vars PROVE IInv'
  OBVIOUS
<1>1. ASSUME NEW c \in Conns, Accept(c) \/ Bytes(c) \/ Gone(c) \/ TimesOut(c) PROVE IInv'
  BY <1>1, AcceptStep, BytesStep, GoneStep, TimesOutStep
<1>2. CASE Tick \/ ChunkSent \/ ChunkFails \/ Shutdown
  BY <1>2, TickStep, ChunkSentStep, ChunkFailsStep, ShutdownStep
<1>3. CASE DropReceiver \/ Joined \/ Abort
  BY <1>3, DropReceiverStep, JoinedStep, AbortStep
<1>4. ASSUME NEW c \in Conns, TaskNext(c) PROVE IInv'
  BY <1>4, ReadStep, SentStep, ReadEndsStep, RecvStep, WrittenStep, StartedStep,
     FinishedStep, SendGoneStep DEF TaskNext
<1>5. CASE UNCHANGED vars
  BY <1>5, StutterStep
<1> QED BY <1>1, <1>2, <1>3, <1>4, <1>5 DEF Next, OwnerNext

LEMMA Invariance == Spec => []IInv
BY InitHolds, StepHolds, PTL DEF Spec

LEMMA Exactness == IInv => StatsExact
<1> SUFFICES ASSUME IInv PROVE CountersExact /\ OneMarker
  BY DEF StatsExact
<1>1. CountersExact
  BY DEF IInv, ConnInv, Held, Heard, CountersExact, Num, Queued, Awaited, InWrite, InSend
<1>2. OneMarker
  BY DEF IInv, ConnInv, Marked, OneMarker, Num, InStart, Running
<1> QED BY <1>1, <1>2

\* The counters and the compression state that transport::Stats shows of a
\* connection are exact at every await of the owner and of the socket task, for
\* any number of connections and any capacities, however their steps interleave
\* and however a session ends (Session::raw, Session::protocol,
\* Session::deliver_spans, connection::connection).
THEOREM StatsAreExact == Spec => []StatsExact
BY Invariance, Exactness, PTL

-----------------------------------------------------------------------------
(* Negotiation of an option.  Short sequences of messages.                  *)

W0 == <<>>
W1(a) == <<a>>
W2(a, b) == <<a, b>>
W3(a, b, c) == <<a, b, c>>
First(w) == Head(w)
Rest(w) == Tail(w)
Then(w, v) == w \o v

\* Taking a message off the front.
LEMMA Taking ==
    /\ \A a : W1(a) # W0 /\ First(W1(a)) = a /\ Rest(W1(a)) = W0
    /\ \A a, b : W2(a, b) # W0 /\ First(W2(a, b)) = a /\ Rest(W2(a, b)) = W1(b)
    /\ \A a, b, c : /\ W3(a, b, c) # W0 /\ First(W3(a, b, c)) = a
                    /\ Rest(W3(a, b, c)) = W2(b, c)
<1> USE DEF First, Rest, W0
<1>1. ASSUME NEW a PROVE W1(a) # W0 /\ First(W1(a)) = a /\ Rest(W1(a)) = W0
  BY DEF W1
<1>2. ASSUME NEW a, NEW b
      PROVE W2(a, b) # W0 /\ First(W2(a, b)) = a /\ Rest(W2(a, b)) = W1(b)
  BY DEF W1, W2
<1>3. ASSUME NEW a, NEW b, NEW c
      PROVE /\ W3(a, b, c) # W0 /\ First(W3(a, b, c)) = a
            /\ Rest(W3(a, b, c)) = W2(b, c)
  BY DEF W2, W3
<1> HIDE DEF First, Rest, W0
<1> QED BY <1>1, <1>2, <1>3

\* Adding messages at the end.
LEMMA Adding ==
    /\ Then(W0, W0) = W0
    /\ \A a : Then(W0, W1(a)) = W1(a) /\ Then(W1(a), W0) = W1(a)
    /\ \A a, b : Then(W1(a), W1(b)) = W2(a, b) /\ Then(W2(a, b), W0) = W2(a, b)
    /\ \A a, b, c : /\ Then(W2(a, b), W1(c)) = W3(a, b, c)
                    /\ Then(W3(a, b, c), W0) = W3(a, b, c)
<1>1. ASSUME NEW a PROVE Then(W0, W1(a)) = W1(a) /\ Then(W1(a), W0) = W1(a)
  BY DEF W0, W1, Then
<1>2. ASSUME NEW a, NEW b
      PROVE Then(W1(a), W1(b)) = W2(a, b) /\ Then(W2(a, b), W0) = W2(a, b)
  <2> DEFINE S == {a, b}
  <2>1. /\ <<a>> \in Seq(S) /\ <<b>> \in Seq(S) /\ <<a, b>> \in Seq(S)
        /\ Len(<<a>>) = 1 /\ Len(<<b>>) = 1 /\ Len(<<a, b>>) = 2
    OBVIOUS
  <2>2. \A i \in 1 .. 2 : (<<a>> \o <<b>>)[i] = <<a, b>>[i]
    OBVIOUS
  <2>3. <<a>> \o <<b>> \in Seq(S) /\ Len(<<a>> \o <<b>>) = 2
    BY <2>1, ConcatProperties
  <2>4. <<a>> \o <<b>> = <<a, b>>
    BY <2>1, <2>2, <2>3, SeqEqual
  <2> QED BY <2>1, <2>4, ConcatEmptySeq DEF W0, W1, W2, Then
<1>3. ASSUME NEW a, NEW b, NEW c
      PROVE Then(W2(a, b), W1(c)) = W3(a, b, c) /\ Then(W3(a, b, c), W0) = W3(a, b, c)
  <2> DEFINE S == {a, b, c}
  <2>1. /\ <<a, b>> \in Seq(S) /\ <<c>> \in Seq(S) /\ <<a, b, c>> \in Seq(S)
        /\ Len(<<a, b>>) = 2 /\ Len(<<c>>) = 1 /\ Len(<<a, b, c>>) = 3
    OBVIOUS
  <2>2. \A i \in 1 .. 3 : (<<a, b>> \o <<c>>)[i] = <<a, b, c>>[i]
    OBVIOUS
  <2>3. <<a, b>> \o <<c>> \in Seq(S) /\ Len(<<a, b>> \o <<c>>) = 3
    BY <2>1, ConcatProperties
  <2>4. <<a, b>> \o <<c>> = <<a, b, c>>
    BY <2>1, <2>2, <2>3, SeqEqual
  <2> QED BY <2>1, <2>4, ConcatEmptySeq DEF W0, W1, W2, W3, Then
<1>4. Then(W0, W0) = W0
  BY DEF W0, Then
<1> QED BY <1>1, <1>2, <1>3, <1>4

-----------------------------------------------------------------------------
(* The automaton by the kind of its state.  A queued opposite request decides *)
(* what follows an answer, and nothing else.                                  *)

QStates == {No, Yes, WantNo(FALSE), WantNo(TRUE), WantYes(FALSE), WantYes(TRUE)}
Kind(s) == s[1]

\* A state has one of four kinds, and the stable kinds have one state each.
LEMMA Kinds ==
    /\ \A s \in QStates : Kind(s) \in {"No", "Yes", "WantNo", "WantYes"}
    /\ \A s \in QStates : Kind(s) = "No" => s = No
    /\ \A s \in QStates : Kind(s) = "Yes" => s = Yes
    /\ Kind(No) = "No" /\ Kind(Yes) = "Yes" /\ No \in QStates /\ Yes \in QStates
BY DEF QStates, Kind, No, Yes, WantNo, WantYes

\* QState::request speaks only from a stable state that has to change.
LEMMA RequestFacts ==
    ASSUME NEW s \in QStates, NEW enable \in BOOLEAN
    PROVE LET r == Request(s, enable)
          IN  /\ r.state \in QStates
              /\ \/ Kind(s) = "No" /\ Kind(r.state) = "WantYes" /\ r.send = W1("on")
                 \/ Kind(s) = "Yes" /\ Kind(r.state) = "WantNo" /\ r.send = W1("off")
                 \/ Kind(r.state) = Kind(s) /\ r.send = W0
<1> USE DEF Request, Silent, Sends, Verb, W0, W1, Kind,
      QStates, No, Yes, WantNo, WantYes
<1>1. CASE s = No
  BY <1>1
<1>2. CASE s = Yes
  BY <1>2
<1>3. CASE s = WantNo(FALSE)
  BY <1>3
<1>4. CASE s = WantNo(TRUE)
  BY <1>4
<1>5. CASE s = WantYes(FALSE)
  BY <1>5
<1>6. CASE s = WantYes(TRUE)
  BY <1>6
<1> QED BY <1>1, <1>2, <1>3, <1>4, <1>5, <1>6

\* QState::receive of a positive verb.
LEMMA ReceiveOn ==
    ASSUME NEW s \in QStates, NEW accept \in BOOLEAN, Kind(s) # "WantNo"
    PROVE LET r == Receive(s, TRUE, accept)
          IN  /\ r.state \in QStates
              /\ Kind(s) = "No" =>
                    \/ accept /\ Kind(r.state) = "Yes" /\ r.send = W1("on")
                    \/ ~accept /\ Kind(r.state) = "No" /\ r.send = W1("off")
              /\ Kind(s) = "Yes" => Kind(r.state) = "Yes" /\ r.send = W0
              /\ Kind(s) = "WantYes" => \/ Kind(r.state) = "Yes" /\ r.send = W0
                                        \/ Kind(r.state) = "WantNo" /\ r.send = W1("off")
<1> USE DEF Receive, Silent, Sends, Verb, W0, W1, Kind,
      QStates, No, Yes, WantNo, WantYes
<1>1. CASE s = No
  BY <1>1
<1>2. CASE s = Yes
  BY <1>2
<1>3. CASE s = WantNo(FALSE)
  BY <1>3
<1>4. CASE s = WantNo(TRUE)
  BY <1>4
<1>5. CASE s = WantYes(FALSE)
  BY <1>5
<1>6. CASE s = WantYes(TRUE)
  BY <1>6
<1> QED BY <1>1, <1>2, <1>3, <1>4, <1>5, <1>6

\* QState::receive of a negative verb.
LEMMA ReceiveOff ==
    ASSUME NEW s \in QStates, NEW accept \in BOOLEAN
    PROVE LET r == Receive(s, FALSE, accept)
          IN  /\ r.state \in QStates
              /\ Kind(s) \in {"No", "WantYes"} => Kind(r.state) = "No" /\ r.send = W0
              /\ Kind(s) = "Yes" => Kind(r.state) = "No" /\ r.send = W1("off")
              /\ Kind(s) = "WantNo" => \/ Kind(r.state) = "No" /\ r.send = W0
                                       \/ Kind(r.state) = "WantYes" /\ r.send = W1("on")
<1> USE DEF Receive, Silent, Sends, Verb, W0, W1, Kind,
      QStates, No, Yes, WantNo, WantYes
<1>1. CASE s = No
  BY <1>1
<1>2. CASE s = Yes
  BY <1>2
<1>3. CASE s = WantNo(FALSE)
  BY <1>3
<1>4. CASE s = WantNo(TRUE)
  BY <1>4
<1>5. CASE s = WantYes(FALSE)
  BY <1>5
<1>6. CASE s = WantYes(TRUE)
  BY <1>6
<1> QED BY <1>1, <1>2, <1>3, <1>4, <1>5, <1>6

-----------------------------------------------------------------------------
(***************************************************************************)
(* The inductive invariant lists the configurations of the two ends and what *)
(* is under way between them.  There are as many verbs under way as ends     *)
(* that wait: a request or its answer for one, and for two either requests   *)
(* that cross or an answer followed by the answering end's own request.      *)
(***************************************************************************)

\* Configurations of verbs, from the view of one of the ends (k1, to which w1 is
\* under way).
Verbs(k1, k2, w1, w2) ==
    \/ k1 = k2 /\ k1 \in {"No", "Yes"} /\ w1 = W0 /\ w2 = W0
    \/ k1 = "No"  /\ k2 = "WantYes" /\ w1 = W1("on")  /\ w2 = W0
    \/ k1 = "Yes" /\ k2 = "WantNo"  /\ w1 = W1("off") /\ w2 = W0
    \/ k1 = "No"  /\ k2 \in {"WantNo", "WantYes"} /\ w1 = W0 /\ w2 = W1("off")
    \/ k1 = "Yes" /\ k2 = "WantYes" /\ w1 = W0 /\ w2 = W1("on")
    \/ k1 = "WantNo"  /\ k2 = "WantNo"  /\ w1 = W1("off") /\ w2 = W1("off")
    \/ k1 = "WantYes" /\ k2 = "WantYes" /\ w1 = W1("on")  /\ w2 = W1("on")
    \/ k1 = "WantNo"  /\ k2 = "WantYes" /\ w1 = W0 /\ w2 = W2("on", "off")
    \/ k1 = "WantYes" /\ k2 \in {"WantNo", "WantYes"} /\ w1 = W0 /\ w2 = W2("off", "on")

\* Configurations with an exchange of CHARSET: it is pending while the server has
\* the option enabled and the request, its answer or the client's refusal is
\* under way, and is forgotten when the server gives the option up.
PendingExchange(ks, kc, ws, wc) ==
    /\ ks = "Yes"
    /\ \/ kc = "Yes"     /\ ws = W0                /\ wc = W1("ask")
       \/ kc = "Yes"     /\ ws = W1("answer")        /\ wc = W0
       \/ kc = "WantYes" /\ ws = W0                /\ wc = W2("on", "ask")
       \/ kc = "WantNo"  /\ ws = W1("off")           /\ wc \in {W0, W1("ask")}
       \/ kc = "WantNo"  /\ ws = W2("answer", "off") /\ wc = W0

ForgottenExchange(ks, kc, ws, wc) ==
    \/ ks = "No"      /\ kc = "WantNo"  /\ ws = W0                      /\ wc = W2("ask", "off")
    \/ ks = "WantYes" /\ kc = "WantNo"  /\ ws = W0                      /\ wc = W3("ask", "off", "on")
    \/ ks = "WantNo"  /\ kc = "Yes"     /\ ws = W0                      /\ wc = W2("ask", "off")
    \/ ks = "WantNo"  /\ kc = "Yes"     /\ ws = W1("answer")              /\ wc = W1("off")
    \/ ks = "WantNo"  /\ kc = "No"      /\ ws = W2("answer", "off")       /\ wc = W0
    \/ ks = "WantNo"  /\ kc = "WantNo"  /\ ws = W1("off")                 /\ wc = W2("ask", "off")
    \/ ks = "WantNo"  /\ kc = "WantNo"  /\ ws = W2("answer", "off")       /\ wc = W1("off")
    \/ ks = "WantNo"  /\ kc = "WantYes" /\ ws = W0                      /\ wc = W3("on", "ask", "off")
    \/ ks = "WantNo"  /\ kc = "WantYes" /\ ws = W3("answer", "off", "on") /\ wc = W0

Configuration(ks, kc, ws, wc, p) ==
    \/ Verbs(ks, kc, ws, wc) /\ ~p
    \/ Verbs(kc, ks, wc, ws) /\ ~p
    \/ option = "charset" /\ PendingExchange(ks, kc, ws, wc) /\ p
    \/ option = "charset" /\ ForgottenExchange(ks, kc, ws, wc) /\ ~p

OptionTypeInv ==
    /\ option \in {"charset", "echo", "unknown"}
    /\ accepts \in BOOLEAN
    /\ q \in [Ends -> QStates]
    /\ wire = [e \in Ends |-> wire[e]]
    /\ pending \in BOOLEAN
    /\ wish \in [Ends -> BOOLEAN]

OptionInv ==
    /\ OptionTypeInv
    /\ Configuration(Kind(q["server"]), Kind(q["client"]), wire["server"], wire["client"], pending)

\* A step of the server's automaton.
LEMMA ServerApply ==
    ASSUME OptionTypeInv, NEW step, NEW incoming, step.state \in QStates,
           Apply("server", step, incoming)
    PROVE LET enabled == Kind(step.state) = "Yes" /\ Kind(q["server"]) # "Yes"
              ask == IF option = "charset" /\ enabled THEN W1("ask") ELSE W0
          IN  /\ q' \in [Ends -> QStates] /\ wire' = [e \in Ends |-> wire'[e]]
              /\ q'["server"] = step.state /\ q'["client"] = q["client"]
              /\ wire'["server"] = incoming
              /\ wire'["client"] = Then(Then(wire["client"], step.send), ask)
              /\ pending' \in BOOLEAN
              /\ pending' = IF option # "charset" \/ step.state = q["server"] THEN pending
                            ELSE Kind(step.state) = "Yes"
BY Kinds DEF OptionTypeInv, Apply, Ends, Other,
      Announcement, Enabled, W0, W1, Then

\* A step of the client's automaton.
LEMMA ClientApply ==
    ASSUME OptionTypeInv, NEW step, NEW incoming, step.state \in QStates,
           Apply("client", step, incoming)
    PROVE /\ q' \in [Ends -> QStates] /\ wire' = [e \in Ends |-> wire'[e]]
          /\ q'["client"] = step.state /\ q'["server"] = q["server"]
          /\ wire'["client"] = incoming
          /\ wire'["server"] = Then(Then(wire["server"], step.send), W0)
          /\ pending' = pending
BY Kinds DEF OptionTypeInv, Apply, Ends, Other,
      Announcement, Enabled, W0, Then

-----------------------------------------------------------------------------
(* Each kind of step takes a configuration to a configuration.              *)

\* Only an enabled server has an exchange pending.
LEMMA PendingEnabled ==
    ASSUME NEW ks, NEW kc, NEW ws, NEW wc, NEW p \in BOOLEAN,
           Configuration(ks, kc, ws, wc, p), p
    PROVE ks = "Yes"
BY DEF Configuration, PendingExchange

\* What QState::request does to a kind.
Asked(k, k2, send) ==
    \/ k = "No" /\ k2 = "WantYes" /\ send = W1("on")
    \/ k = "Yes" /\ k2 = "WantNo" /\ send = W1("off")
    \/ k2 = k /\ send = W0

\* A request of the server leads from a configuration to another one.
LEMMA ServerRequests ==
    ASSUME NEW ks, NEW kc, NEW ws, NEW wc, NEW p \in BOOLEAN, NEW k2, NEW send,
           Configuration(ks, kc, ws, wc, p), Asked(ks, k2, send)
    PROVE Configuration(k2, kc, ws, Then(Then(wc, send), W0), p /\ k2 = ks)
<1>1. CASE Verbs(ks, kc, ws, wc) /\ ~p
  BY <1>1, Adding DEF Configuration, Asked, Verbs
<1>2. CASE Verbs(kc, ks, wc, ws) /\ ~p
  BY <1>2, Adding DEF Configuration, Asked, Verbs
<1>3. CASE option = "charset" /\ PendingExchange(ks, kc, ws, wc) /\ p
  BY <1>3, Adding DEF Configuration, Asked, Verbs, PendingExchange, ForgottenExchange
<1>4. CASE option = "charset" /\ ForgottenExchange(ks, kc, ws, wc) /\ ~p
  BY <1>4, Adding DEF Configuration, Asked, ForgottenExchange
<1> QED BY <1>1, <1>2, <1>3, <1>4 DEF Configuration

\* So does a request of the client.
LEMMA ClientRequests ==
    ASSUME NEW ks, NEW kc, NEW ws, NEW wc, NEW p \in BOOLEAN, NEW k2, NEW send,
           Configuration(ks, kc, ws, wc, p), Asked(kc, k2, send)
    PROVE Configuration(ks, k2, Then(Then(ws, send), W0), wc, p)
<1>1. CASE Verbs(ks, kc, ws, wc) /\ ~p
  BY <1>1, Adding DEF Configuration, Asked, Verbs
<1>2. CASE Verbs(kc, ks, wc, ws) /\ ~p
  BY <1>2, Adding DEF Configuration, Asked, Verbs
<1>3. CASE option = "charset" /\ PendingExchange(ks, kc, ws, wc) /\ p
  BY <1>3, Adding DEF Configuration, Asked, PendingExchange
<1>4. CASE option = "charset" /\ ForgottenExchange(ks, kc, ws, wc) /\ ~p
  BY <1>4, Adding DEF Configuration, Asked, ForgottenExchange
<1> QED BY <1>1, <1>2, <1>3, <1>4 DEF Configuration

\* A verb that arrives is one its receiver expects: a stable end hears of a
\* change only, and an end that asked to disable is not told "on".
Expected(k, m) == /\ m \in {"on", "off"}
                  /\ k \in {"Yes", "WantNo"} => m = "off"
                  /\ k = "No" => m = "on"

\* In every configuration the verb that arrives is one its receiver can meet.
LEMMA VerbsExpected ==
    ASSUME NEW ks, NEW kc, NEW ws, NEW wc, NEW p \in BOOLEAN,
           Configuration(ks, kc, ws, wc, p)
    PROVE /\ ws # W0 /\ First(ws) \in {"on", "off"} => Expected(ks, First(ws))
          /\ wc # W0 /\ First(wc) \in {"on", "off"} => Expected(kc, First(wc))
<1>1. CASE Verbs(ks, kc, ws, wc) \/ Verbs(kc, ks, wc, ws)
  BY <1>1, Taking DEF Verbs, Expected
<1>2. CASE PendingExchange(ks, kc, ws, wc)
  BY <1>2, Taking DEF PendingExchange, Expected
<1>3. CASE ForgottenExchange(ks, kc, ws, wc)
  BY <1>3, Taking DEF ForgottenExchange, Expected
<1> QED BY <1>1, <1>2, <1>3 DEF Configuration

\* What QState::receive does to a kind.
Answered(k, on, accept, k2, send) ==
    \/ k = "No" /\ on /\ accept /\ k2 = "Yes" /\ send = W1("on")
    \/ k = "No" /\ on /\ ~accept /\ k2 = "No" /\ send = W1("off")
    \/ k = "Yes" /\ ~on /\ k2 = "No" /\ send = W1("off")
    \/ k = "WantYes" /\ on /\ k2 = "Yes" /\ send = W0
    \/ k = "WantYes" /\ on /\ k2 = "WantNo" /\ send = W1("off")
    \/ k = "WantYes" /\ ~on /\ k2 = "No" /\ send = W0
    \/ k = "WantNo" /\ ~on /\ k2 = "No" /\ send = W0
    \/ k = "WantNo" /\ ~on /\ k2 = "WantYes" /\ send = W1("on")

\* The server receives a verb about an option without subnegotiation.
LEMMA ServerReceivesPlain ==
    ASSUME NEW ks, NEW kc, NEW ws, NEW wc, NEW p \in BOOLEAN, NEW k2, NEW send,
           Configuration(ks, kc, ws, wc, p), ws # W0, First(ws) \in {"on", "off"},
           option # "charset", Answered(ks, First(ws) = "on", FALSE, k2, send)
    PROVE Configuration(k2, kc, Rest(ws), Then(Then(wc, send), W0), FALSE)
<1>1. CASE Verbs(ks, kc, ws, wc)
  BY <1>1, Adding, Taking DEF Configuration, Answered, Verbs
<1>2. CASE Verbs(kc, ks, wc, ws)
  BY <1>2, Adding, Taking DEF Configuration, Answered, Verbs
<1> QED BY <1>1, <1>2 DEF Configuration

\* The server receives a verb about CHARSET: enabling it, it asks.
LEMMA ServerReceivesCharset ==
    ASSUME NEW ks, NEW kc, NEW ws, NEW wc, NEW p \in BOOLEAN, NEW k2, NEW send,
           Configuration(ks, kc, ws, wc, p), ws # W0, First(ws) \in {"on", "off"},
           option = "charset", Answered(ks, First(ws) = "on", TRUE, k2, send)
    PROVE /\ k2 = "Yes" => Configuration(k2, kc, Rest(ws), Then(Then(wc, send), W1("ask")), TRUE)
          /\ k2 # "Yes" => Configuration(k2, kc, Rest(ws), Then(Then(wc, send), W0), FALSE)
<1>1. CASE Verbs(ks, kc, ws, wc) /\ ~p
  BY <1>1, Adding, Taking DEF Configuration, Answered, Verbs, PendingExchange
<1>2. CASE Verbs(kc, ks, wc, ws) /\ ~p
  BY <1>2, Adding, Taking DEF Configuration, Answered, Verbs, PendingExchange
<1>3. CASE PendingExchange(ks, kc, ws, wc) /\ p
  BY <1>3, Adding, Taking
     DEF Configuration, Answered, Verbs, PendingExchange, ForgottenExchange
<1>4. CASE ForgottenExchange(ks, kc, ws, wc) /\ ~p
  BY <1>4, Adding, Taking
     DEF Configuration, Answered, Verbs, PendingExchange, ForgottenExchange
<1> QED BY <1>1, <1>2, <1>3, <1>4 DEF Configuration

\* The client receives a verb.
LEMMA ClientReceives ==
    ASSUME NEW ks, NEW kc, NEW ws, NEW wc, NEW p \in BOOLEAN, NEW k2, NEW send,
           Configuration(ks, kc, ws, wc, p), wc # W0, First(wc) \in {"on", "off"},
           NEW accept \in BOOLEAN, Answered(kc, First(wc) = "on", accept, k2, send)
    PROVE Configuration(ks, k2, Then(Then(ws, send), W0), Rest(wc), p)
<1>1. CASE Verbs(ks, kc, ws, wc) /\ ~p
  BY <1>1, Adding, Taking DEF Configuration, Answered, Verbs
<1>2. CASE Verbs(kc, ks, wc, ws) /\ ~p
  BY <1>2, Adding, Taking DEF Configuration, Answered, Verbs
<1>3. CASE option = "charset" /\ PendingExchange(ks, kc, ws, wc) /\ p
  BY <1>3, Adding, Taking
     DEF Configuration, Answered, Verbs, PendingExchange, ForgottenExchange
<1>4. CASE option = "charset" /\ ForgottenExchange(ks, kc, ws, wc) /\ ~p
  BY <1>4, Adding, Taking
     DEF Configuration, Answered, Verbs, PendingExchange, ForgottenExchange
<1> QED BY <1>1, <1>2, <1>3, <1>4 DEF Configuration

\* The client receives the question about its character set.
LEMMA ClientAnswers ==
    ASSUME NEW ks, NEW kc, NEW ws, NEW wc, NEW p \in BOOLEAN,
           Configuration(ks, kc, ws, wc, p), wc # W0, First(wc) = "ask"
    PROVE Configuration(ks, kc, IF kc = "Yes" THEN Then(ws, W1("answer")) ELSE ws, Rest(wc), p)
<1>1. CASE Verbs(ks, kc, ws, wc) /\ ~p
  BY <1>1, Adding, Taking DEF Verbs
<1>2. CASE Verbs(kc, ks, wc, ws) /\ ~p
  BY <1>2, Adding, Taking DEF Verbs
<1>3. CASE option = "charset" /\ PendingExchange(ks, kc, ws, wc) /\ p
  BY <1>3, Adding, Taking DEF Configuration, Verbs, PendingExchange, ForgottenExchange
<1>4. CASE option = "charset" /\ ForgottenExchange(ks, kc, ws, wc) /\ ~p
  BY <1>4, Adding, Taking DEF Configuration, Verbs, PendingExchange, ForgottenExchange
<1> QED BY <1>1, <1>2, <1>3, <1>4 DEF Configuration

\* The server receives the answer.
LEMMA ServerAnswered ==
    ASSUME NEW ks, NEW kc, NEW ws, NEW wc, NEW p \in BOOLEAN,
           Configuration(ks, kc, ws, wc, p), ws # W0, First(ws) = "answer"
    PROVE Configuration(ks, kc, Rest(ws), wc, p /\ ks # "Yes")
<1>1. CASE Verbs(ks, kc, ws, wc) /\ ~p
  BY <1>1, Adding, Taking DEF Verbs
<1>2. CASE Verbs(kc, ks, wc, ws) /\ ~p
  BY <1>2, Adding, Taking DEF Verbs
<1>3. CASE option = "charset" /\ PendingExchange(ks, kc, ws, wc) /\ p
  BY <1>3, Adding, Taking DEF Configuration, Verbs, PendingExchange, ForgottenExchange
<1>4. CASE option = "charset" /\ ForgottenExchange(ks, kc, ws, wc) /\ ~p
  BY <1>4, Adding, Taking DEF Configuration, Verbs, PendingExchange, ForgottenExchange
<1> QED BY <1>1, <1>2, <1>3, <1>4 DEF Configuration

-----------------------------------------------------------------------------
(* The steps of the specification.                                          *)

\* QState::receive of an expected verb.
LEMMA ReceiveFacts ==
    ASSUME NEW s \in QStates, NEW m, NEW accept \in BOOLEAN, Expected(Kind(s), m)
    PROVE LET r == Receive(s, m = "on", accept)
          IN  /\ r.state \in QStates
              /\ Answered(Kind(s), m = "on", accept, Kind(r.state), r.send)
<1>1. Kind(s) \in {"No", "Yes", "WantNo", "WantYes"}
  BY Kinds
<1>2. CASE m = "on"
  <2>1. (m = "on") = TRUE
    BY <1>2
  <2>2. Kind(s) \in {"No", "WantYes"}
    BY <1>1, <1>2 DEF Expected
  <2> QED BY <2>1, <2>2, ReceiveOn DEF Answered
<1>3. CASE m = "off"
  <2>1. (m = "on") = FALSE
    BY <1>3
  <2>2. Kind(s) \in {"Yes", "WantYes", "WantNo"}
    BY <1>1, <1>3 DEF Expected
  <2> QED BY <2>1, <2>2, ReceiveOff DEF Answered
<1> QED BY <1>2, <1>3 DEF Expected

\* An application requests a change at either end.
LEMMA RequestStep ==
    ASSUME OptionInv, NEW e \in Ends, NEW enable \in BOOLEAN, AppRequests(e, enable)
    PROVE OptionInv'
<1> DEFINE ks == Kind(q["server"])
           kc == Kind(q["client"])
           r == Request(q[e], enable)
<1>1. /\ OptionTypeInv /\ "server" \in Ends /\ "client" \in Ends /\ q[e] \in QStates
      /\ Configuration(ks, kc, wire["server"], wire["client"], pending)
      /\ pending \in BOOLEAN
  BY DEF OptionInv, OptionTypeInv, Ends
<1>2. r.state \in QStates /\ Asked(Kind(q[e]), Kind(r.state), r.send)
  BY <1>1, RequestFacts DEF Asked
<1>3. /\ Apply(e, r, wire[e]) /\ UNCHANGED <<option, accepts>>
      /\ wish' \in [Ends -> BOOLEAN]
  BY <1>1 DEF AppRequests, OptionTypeInv
<1>4. CASE e = "server"
  <2> DEFINE k2 == Kind(r.state)
  <2>1. /\ q' \in [Ends -> QStates] /\ wire' = [d \in Ends |-> wire'[d]]
        /\ q'["server"] = r.state /\ q'["client"] = q["client"]
        /\ wire'["server"] = wire["server"]
        /\ wire'["client"] = Then(Then(wire["client"], r.send),
                IF option = "charset" /\ k2 = "Yes" /\ ks # "Yes" THEN W1("ask") ELSE W0)
        /\ pending' \in BOOLEAN
        /\ pending' = IF option # "charset" \/ r.state = q["server"] THEN pending
                      ELSE k2 = "Yes"
    BY <1>1, <1>2, <1>3, <1>4, ServerApply
  <2>2. Asked(ks, k2, r.send)
    BY <1>2, <1>4
  <2>3. k2 = "Yes" => ks = "Yes"
    BY <2>2 DEF Asked
  <2>4. k2 = "Yes" => r.state = q["server"]
    BY <1>1, <1>2, <1>4, <2>3, Kinds
  <2>5. pending => ks = "Yes" /\ option = "charset"
    BY <1>1 DEF Configuration, PendingExchange
  <2> HIDE DEF r, ks, k2
  <2>6. pending' = (pending /\ k2 = ks)
    <3>1. CASE option # "charset"
      BY <3>1, <1>1, <2>1, <2>5
    <3>2. CASE option = "charset" /\ r.state = q["server"]
      BY <3>2, <1>1, <2>1 DEF k2, ks
    <3>3. CASE option = "charset" /\ r.state # q["server"]
      BY <3>3, <1>1, <2>1, <2>4, <2>5
    <3> QED BY <3>1, <3>2, <3>3
  <2>7. Configuration(k2, kc, wire["server"], Then(Then(wire["client"], r.send), W0),
                      pending /\ k2 = ks)
    BY <1>1, <2>2, ServerRequests
  <2>8. wire'["client"] = Then(Then(wire["client"], r.send), W0)
    BY <2>1, <2>3
  <2>9. Configuration(k2, kc, wire'["server"], wire'["client"], pending')
    BY <2>1, <2>6, <2>7, <2>8
  <2> QED BY <2>1, <2>9, <1>1, <1>3 DEF OptionInv, OptionTypeInv, Configuration, k2
<1>5. CASE e = "client"
  <2> DEFINE k2 == Kind(r.state)
  <2>1. /\ q' \in [Ends -> QStates] /\ wire' = [d \in Ends |-> wire'[d]]
        /\ q'["client"] = r.state /\ q'["server"] = q["server"]
        /\ wire'["client"] = wire["client"]
        /\ wire'["server"] = Then(Then(wire["server"], r.send), W0)
        /\ pending' = pending
    BY <1>1, <1>2, <1>3, <1>5, ClientApply
  <2>2. Asked(kc, k2, r.send)
    BY <1>2, <1>5
  <2> HIDE DEF r, ks, kc, k2
  <2>3. Configuration(ks, k2, Then(Then(wire["server"], r.send), W0), wire["client"], pending)
    BY <1>1, <2>2, ClientRequests
  <2>4. Configuration(ks, k2, wire'["server"], wire'["client"], pending')
    BY <2>1, <2>3
  <2> QED BY <2>1, <2>4, <1>1, <1>3 DEF OptionInv, OptionTypeInv, Configuration, ks, k2
<1> QED BY <1>4, <1>5 DEF Ends

\* A verb arrives at either end.
LEMMA ReceiveStep ==
    ASSUME OptionInv, NEW e \in Ends, VerbArrives(e)
    PROVE OptionInv'
<1> DEFINE ks == Kind(q["server"])
           kc == Kind(q["client"])
           m == First(wire[e])
           r == Receive(q[e], m = "on", Accepts(e))
<1>1. /\ OptionTypeInv /\ "server" \in Ends /\ "client" \in Ends /\ q[e] \in QStates
      /\ Configuration(ks, kc, wire["server"], wire["client"], pending)
      /\ pending \in BOOLEAN
  BY DEF OptionInv, OptionTypeInv, Ends
<1>2. wire[e] # W0 /\ m \in {"on", "off"}
  BY DEF VerbArrives, W0, First
<1>3. /\ Apply(e, r, Rest(wire[e])) /\ UNCHANGED <<option, accepts>>
      /\ wish' \in [Ends -> BOOLEAN]
  BY <1>1 DEF VerbArrives, OptionTypeInv, First, Rest
<1>4. Accepts(e) \in BOOLEAN
  BY <1>1 DEF OptionTypeInv, Accepts
<1>5. Expected(Kind(q[e]), m)
  <2> HIDE DEF r
  <2> QED BY <1>1, <1>2, VerbsExpected DEF Ends
<1>6. /\ r.state \in QStates
      /\ Answered(Kind(q[e]), m = "on", Accepts(e), Kind(r.state), r.send)
  BY <1>1, <1>4, <1>5, ReceiveFacts
<1>7. CASE e = "server"
  <2> DEFINE k2 == Kind(r.state)
  <2>1. /\ q' \in [Ends -> QStates] /\ wire' = [d \in Ends |-> wire'[d]]
        /\ q'["server"] = r.state /\ q'["client"] = q["client"]
        /\ wire'["server"] = Rest(wire["server"])
        /\ wire'["client"] = Then(Then(wire["client"], r.send),
                IF option = "charset" /\ k2 = "Yes" /\ ks # "Yes" THEN W1("ask") ELSE W0)
        /\ pending' \in BOOLEAN
        /\ pending' = IF option # "charset" \/ r.state = q["server"] THEN pending
                      ELSE k2 = "Yes"
    BY <1>1, <1>3, <1>6, <1>7, ServerApply
  <2>2. Answered(ks, m = "on", Accepts("server"), k2, r.send)
    BY <1>6, <1>7
  <2>3. ~(k2 = "Yes" /\ ks = "Yes")
    BY <2>2 DEF Answered
  <2>4. wire["server"] # W0 /\ m = First(wire["server"]) /\ m \in {"on", "off"}
    BY <1>2, <1>7
  <2>5. pending => ks = "Yes" /\ option = "charset"
    BY <1>1 DEF Configuration, PendingExchange
  <2>6. k2 # ks => r.state # q["server"]
    OBVIOUS
  <2> HIDE DEF r, ks, kc, k2, m
  <2>7. CASE option = "charset"
    <3>1. Accepts("server") = TRUE
      BY <2>7 DEF Accepts
    <3>2. /\ k2 = "Yes" => Configuration(k2, kc, Rest(wire["server"]),
                             Then(Then(wire["client"], r.send), W1("ask")), TRUE)
          /\ k2 # "Yes" => Configuration(k2, kc, Rest(wire["server"]),
                             Then(Then(wire["client"], r.send), W0), FALSE)
      BY <1>1, <2>2, <2>4, <2>7, <3>1, ServerReceivesCharset
    <3>3. pending' = (k2 = "Yes")
      BY <2>1, <2>3, <2>5, <2>6, <2>7, <1>1
    <3>4. Configuration(k2, kc, wire'["server"], wire'["client"], pending')
      BY <2>1, <2>3, <2>7, <3>2, <3>3
    <3> QED BY <2>1, <3>4, <1>1, <1>3 DEF OptionInv, OptionTypeInv, Configuration, kc, k2
  <2>8. CASE option # "charset"
    <3>1. Accepts("server") = FALSE
      BY <2>8 DEF Accepts
    <3>2. Configuration(k2, kc, Rest(wire["server"]), Then(Then(wire["client"], r.send), W0), FALSE)
      BY <1>1, <2>2, <2>4, <2>8, <3>1, ServerReceivesPlain
    <3>3. pending' = FALSE
      BY <2>1, <2>5, <2>8, <1>1
    <3>4. Configuration(k2, kc, wire'["server"], wire'["client"], pending')
      BY <2>1, <2>8, <3>2, <3>3
    <3> QED BY <2>1, <3>4, <1>1, <1>3 DEF OptionInv, OptionTypeInv, Configuration, kc, k2
  <2> QED BY <2>7, <2>8
<1>8. CASE e = "client"
  <2> DEFINE k2 == Kind(r.state)
             a == Accepts("client")
  <2>1. /\ q' \in [Ends -> QStates] /\ wire' = [d \in Ends |-> wire'[d]]
        /\ q'["client"] = r.state /\ q'["server"] = q["server"]
        /\ wire'["client"] = Rest(wire["client"])
        /\ wire'["server"] = Then(Then(wire["server"], r.send), W0)
        /\ pending' = pending
    BY <1>1, <1>3, <1>6, <1>8, ClientApply
  <2>2. Answered(kc, m = "on", a, k2, r.send) /\ a \in BOOLEAN
    BY <1>4, <1>6, <1>8
  <2>3. wire["client"] # W0 /\ m = First(wire["client"]) /\ m \in {"on", "off"}
    BY <1>2, <1>8
  <2> HIDE DEF r, ks, kc, k2, m, a
  <2>4. Configuration(ks, k2, Then(Then(wire["server"], r.send), W0), Rest(wire["client"]), pending)
    BY <1>1, <2>2, <2>3, ClientReceives
  <2>5. Configuration(ks, k2, wire'["server"], wire'["client"], pending')
    BY <2>1, <2>4
  <2> QED BY <2>1, <2>5, <1>1, <1>3 DEF OptionInv, OptionTypeInv, Configuration, ks, k2
<1> QED BY <1>7, <1>8 DEF Ends

\* The question arrives.
LEMMA AskStep ==
    ASSUME OptionInv, AskArrives
    PROVE OptionInv'
<1> DEFINE ks == Kind(q["server"])
           kc == Kind(q["client"])
           answers == IF kc = "Yes" THEN Then(wire["server"], W1("answer")) ELSE wire["server"]
<1>1. /\ OptionTypeInv /\ q["client"] \in QStates
      /\ Configuration(ks, kc, wire["server"], wire["client"], pending)
      /\ pending \in BOOLEAN
  BY DEF OptionInv, OptionTypeInv, Ends
<1>2. wire["client"] # W0 /\ First(wire["client"]) = "ask"
  BY DEF AskArrives, W0, First
<1>3. UNCHANGED <<option, accepts, q, pending, wish>>
  BY DEF AskArrives
<1>4. Enabled(q["client"]) <=> kc = "Yes"
  BY <1>1, Kinds DEF Enabled
<1>5. Append(wire["server"], "answer") = Then(wire["server"], W1("answer"))
  BY DEF Then, W1
<1>6. /\ wire' = [e \in Ends |-> wire'[e]]
      /\ wire'["client"] = Rest(wire["client"]) /\ wire'["server"] = answers
  BY <1>1, <1>4, <1>5 DEF OptionTypeInv, AskArrives, Ends, Rest
<1> HIDE DEF ks, kc
<1>7. Configuration(ks, kc, answers, Rest(wire["client"]), pending)
  BY <1>1, <1>2, ClientAnswers
<1>8. Configuration(ks, kc, wire'["server"], wire'["client"], pending')
  BY <1>3, <1>6, <1>7
<1> QED BY <1>1, <1>3, <1>6, <1>8 DEF OptionInv, OptionTypeInv, Configuration, ks, kc

\* The answer arrives.
LEMMA AnswerStep ==
    ASSUME OptionInv, AnswerArrives
    PROVE OptionInv'
<1> DEFINE ks == Kind(q["server"])
           kc == Kind(q["client"])
<1>1. /\ OptionTypeInv /\ q["server"] \in QStates
      /\ Configuration(ks, kc, wire["server"], wire["client"], pending)
      /\ pending \in BOOLEAN
  BY DEF OptionInv, OptionTypeInv, Ends
<1>2. wire["server"] # W0 /\ First(wire["server"]) = "answer"
  BY DEF AnswerArrives, W0, First
<1>3. UNCHANGED <<option, accepts, q, wish>>
  BY DEF AnswerArrives
<1>4. Enabled(q["server"]) <=> ks = "Yes"
  BY <1>1, Kinds DEF Enabled
<1>5. pending' = (pending /\ ks # "Yes")
  BY <1>1, <1>4 DEF AnswerArrives
<1>6. /\ wire' = [e \in Ends |-> wire'[e]]
      /\ wire'["server"] = Rest(wire["server"]) /\ wire'["client"] = wire["client"]
  BY <1>1 DEF OptionTypeInv, AnswerArrives, Ends, Rest
<1> HIDE DEF ks, kc
<1>7. Configuration(ks, kc, Rest(wire["server"]), wire["client"], pending /\ ks # "Yes")
  BY <1>1, <1>2, ServerAnswered
<1>8. Configuration(ks, kc, wire'["server"], wire'["client"], pending')
  BY <1>5, <1>6, <1>7
<1>9. pending' \in BOOLEAN
  BY <1>5
<1> QED BY <1>1, <1>3, <1>6, <1>8, <1>9 DEF OptionInv, OptionTypeInv, Configuration,
      ks, kc

\* The invariant holds at the start.
LEMMA OptionInit == TelnetInit => OptionInv
<1> SUFFICES ASSUME TelnetInit PROVE OptionInv
  OBVIOUS
<1>1. OptionTypeInv
  BY DEF TelnetInit, OptionTypeInv, QStates, Ends
<1>2. /\ Kind(q["server"]) = "No" /\ Kind(q["client"]) = "No" /\ ~pending
      /\ wire["server"] = W0 /\ wire["client"] = W0
  BY Kinds DEF TelnetInit, Ends, W0
<1> QED BY <1>1, <1>2 DEF OptionInv, Configuration, Verbs

\* Every step keeps the invariant.
LEMMA OptionStep == OptionInv /\ [TelnetNext]_telnetVars => OptionInv'
<1> SUFFICES ASSUME OptionInv, [TelnetNext]_telnetVars PROVE OptionInv'
  OBVIOUS
<1>1. CASE UNCHANGED telnetVars
  BY <1>1 DEF telnetVars, OptionInv, OptionTypeInv, Configuration
<1> QED BY <1>1, RequestStep, ReceiveStep, AskStep, AnswerStep DEF TelnetNext

\* So it holds always.
LEMMA OptionInvariance == TelnetSpec => []OptionInv
BY OptionInit, OptionStep, PTL DEF TelnetSpec

-----------------------------------------------------------------------------
(* Theorems.                                                                *)

\* Once nothing is under way both ends of a connection have settled on the same
\* state of the option and no CHARSET request is unanswered, however many
\* requests crossed (QState::receive, Decoder::effects).
THEOREM QuietAgreement == TelnetSpec => []QuietMeansAgreed
<1>1. ASSUME OptionInv PROVE QuietMeansAgreed
  <2> SUFFICES ASSUME wire["server"] = W0, wire["client"] = W0
               PROVE /\ q["server"] = q["client"]
                     /\ q["server"] \in {No, Yes}
                     /\ ~pending
    BY DEF QuietMeansAgreed, Quiet, Ends, W0
  <2> DEFINE ks == Kind(q["server"])
             kc == Kind(q["client"])
  <2>1. /\ Configuration(ks, kc, W0, W0, pending)
        /\ q["server"] \in QStates /\ q["client"] \in QStates
        /\ pending \in BOOLEAN
    BY <1>1 DEF OptionInv, OptionTypeInv, Ends
  <2> HIDE DEF ks, kc
  <2>2. ks = kc /\ ks \in {"No", "Yes"} /\ ~pending
    <3>1. ~PendingExchange(ks, kc, W0, W0)
      BY Taking DEF PendingExchange
    <3>2. ~ForgottenExchange(ks, kc, W0, W0)
      BY Taking DEF ForgottenExchange
    <3>3. Verbs(ks, kc, W0, W0) \/ Verbs(kc, ks, W0, W0) => ks = kc /\ ks \in {"No", "Yes"}
      BY Taking DEF Verbs
    <3> QED BY <2>1, <3>1, <3>2, <3>3 DEF Configuration
  <2> QED BY <2>1, <2>2, Kinds DEF ks, kc
<1> QED BY <1>1, OptionInvariance, PTL

\* The states from which an end comes to have the option enabled without its
\* peer's asking first.
Wanting == {Yes, WantYes(FALSE), WantNo(TRUE)}

\* An end that accepts nothing unasked is on its way to the option only if its
\* last request was for it.
WishInv == OptionTypeInv /\ \A e \in Ends : q[e] \in Wanting /\ ~Accepts(e) => wish[e]

\* QState::request leaves an end wanting the option exactly if it was asked to.
LEMMA RequestWants ==
    ASSUME NEW s \in QStates, NEW enable \in BOOLEAN,
           Request(s, enable).state \in Wanting
    PROVE enable
<1> USE DEF Request, Silent, Sends, Wanting, QStates, No,
      Yes, WantNo, WantYes
<1>1. CASE s = No
  BY <1>1
<1>2. CASE s = Yes
  BY <1>2
<1>3. CASE s = WantNo(FALSE)
  BY <1>3
<1>4. CASE s = WantNo(TRUE)
  BY <1>4
<1>5. CASE s = WantYes(FALSE)
  BY <1>5
<1>6. CASE s = WantYes(TRUE)
  BY <1>6
<1> QED BY <1>1, <1>2, <1>3, <1>4, <1>5, <1>6

\* QState::receive makes no end want the option that did not and does not accept it.
LEMMA ReceiveWants ==
    ASSUME NEW s \in QStates, NEW positive \in BOOLEAN,
           Receive(s, positive, FALSE).state \in Wanting
    PROVE s \in Wanting
<1> USE DEF Receive, Silent, Sends, Wanting, QStates, No,
      Yes, WantNo, WantYes
<1>1. CASE s = No
  BY <1>1
<1>2. CASE s = Yes
  BY <1>2
<1>3. CASE s = WantNo(FALSE)
  BY <1>3
<1>4. CASE s = WantNo(TRUE)
  BY <1>4
<1>5. CASE s = WantYes(FALSE)
  BY <1>5
<1>6. CASE s = WantYes(TRUE)
  BY <1>6
<1> QED BY <1>1, <1>2, <1>3, <1>4, <1>5, <1>6

\* An end that enables an option unasked has been told to want it.
LEMMA WishStep ==
    ASSUME OptionInv, OptionInv', WishInv, [TelnetNext]_telnetVars
    PROVE WishInv'
<1> SUFFICES ASSUME NEW d \in Ends, q'[d] \in Wanting, ~Accepts(d)'
             PROVE wish'[d]
  BY DEF WishInv, OptionInv
<1>1. /\ q \in [Ends -> QStates] /\ wish \in [Ends -> BOOLEAN]
      /\ q[d] \in Wanting /\ ~Accepts(d) => wish[d]
  BY DEF WishInv, OptionTypeInv
<1>2. ASSUME NEW e \in Ends, NEW enable \in BOOLEAN, AppRequests(e, enable)
      PROVE wish'[d]
  <2>1. /\ q' = [q EXCEPT ![e] = Request(q[e], enable).state]
        /\ wish' = [wish EXCEPT ![e] = enable] /\ ~Accepts(d)
    BY <1>2 DEF AppRequests, Apply, Accepts
  <2>2. CASE d = e
    BY <1>1, <2>1, <2>2, RequestWants
  <2>3. CASE d # e
    BY <1>1, <2>1, <2>3
  <2> QED BY <2>2, <2>3
<1>3. ASSUME NEW e \in Ends, VerbArrives(e)
      PROVE wish'[d]
  <2> DEFINE positive == Head(wire[e]) = "on"
  <2>1. /\ q' = [q EXCEPT ![e] = Receive(q[e], positive, Accepts(e)).state]
        /\ wish' = wish /\ ~Accepts(d)
    BY <1>3 DEF VerbArrives, Apply, Accepts
  <2>2. CASE d = e
    <3>1. Accepts(e) = FALSE
      BY <2>1, <2>2 DEF Accepts, OptionTypeInv, WishInv
    <3>2. q'[d] = Receive(q[e], positive, FALSE).state
      BY <1>1, <2>1, <2>2, <3>1
    <3>3. q[e] \in Wanting
      BY <1>1, <3>2, ReceiveWants
    <3> QED BY <1>1, <2>1, <2>2, <3>3
  <2>3. CASE d # e
    BY <1>1, <2>1, <2>3
  <2> QED BY <2>2, <2>3
<1>4. CASE AskArrives \/ AnswerArrives \/ UNCHANGED telnetVars
  BY <1>1, <1>4 DEF AskArrives, AnswerArrives, telnetVars, Accepts
<1> QED BY <1>2, <1>3, <1>4 DEF TelnetNext

\* An end that does not accept the option unasked has it enabled only if its
\* own last request was for it, whatever the peer asks for in between
\* (QState::request, QState::receive, OPTIONS).
THEOREM EnabledIfWanted == TelnetSpec => []EnabledOnlyIfWanted
<1>1. TelnetInit => WishInv
  <2>1. TelnetInit => OptionTypeInv
    BY OptionInit DEF OptionInv
  <2>2. No \notin Wanting
    BY DEF Wanting, No, Yes, WantYes, WantNo
  <2> QED BY <2>1, <2>2 DEF TelnetInit, WishInv
<1>2. WishInv => EnabledOnlyIfWanted
  BY DEF WishInv, EnabledOnlyIfWanted, Enabled, Wanting
<1>3. OptionInv /\ OptionInv' /\ WishInv /\ [TelnetNext]_telnetVars => WishInv'
  BY WishStep
<1> QED BY <1>1, <1>2, <1>3, OptionInvariance, PTL DEF TelnetSpec
=============================================================================
