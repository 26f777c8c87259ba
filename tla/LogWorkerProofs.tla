--------------------------- MODULE LogWorkerProofs ---------------------------
(***************************************************************************)
(* Proofs about the logfile worker, for any capacity of its channel, any     *)
(* deadlines and any number of requests.                                     *)
(***************************************************************************)
EXTENDS LogWorker, FiniteSetTheorems, SequenceTheorems, TLAPS

-----------------------------------------------------------------------------
(* The channel.                                                             *)

Msgs == {Stop} \cup [id : Ids, deadline : Nat]
InChannel(ch) == {ch[i].id : i \in DOMAIN ch}

\* No request is in the channel twice, and nothing follows the stop.
Good(ch) ==
    /\ ch \in Seq(Msgs)
    /\ \A i, j \in 1 .. Len(ch) : ch[i].id = ch[j].id => i = j
    /\ \A i \in 1 .. Len(ch) : ch[i].id = 0 => i = Len(ch)

\* A message has the number of its request; only the stop has number 0.
LEMMA MsgIds == \A m \in Msgs : m.id \in 0 .. MaxRequests /\ (m.id = 0 <=> m = Stop)
BY LogWorkerAssumption DEF Msgs, Stop, Ids

\* Sending to a channel without a stop.
LEMMA AppendGood ==
    ASSUME NEW ch, Good(ch), 0 \notin InChannel(ch),
           NEW m \in Msgs, m.id \notin InChannel(ch)
    PROVE /\ Good(Append(ch, m))
          /\ InChannel(Append(ch, m)) = InChannel(ch) \cup {m.id}
<1> DEFINE a == Append(ch, m)
<1>1. /\ ch \in Seq(Msgs) /\ Len(ch) \in Nat /\ DOMAIN ch = 1 .. Len(ch)
      /\ a \in Seq(Msgs) /\ Len(a) = Len(ch) + 1 /\ DOMAIN a = 1 .. Len(ch) + 1
      /\ \A i \in 1 .. Len(ch) : a[i] = ch[i]
      /\ a[Len(ch) + 1] = m
  BY AppendProperties, LenProperties DEF Good
<1> HIDE DEF a
<1>2. \A i \in 1 .. Len(ch) : ch[i].id # m.id /\ ch[i].id # 0
  BY <1>1 DEF InChannel
<1>3. \A i \in 1 .. Len(ch) + 1 : i \in 1 .. Len(ch) \/ i = Len(ch) + 1
  BY <1>1
<1>4. \A i, j \in 1 .. Len(a) : a[i].id = a[j].id => i = j
  BY <1>1, <1>2, <1>3 DEF Good
<1>5. \A i \in 1 .. Len(a) : a[i].id = 0 => i = Len(a)
  BY <1>1, <1>2, <1>3
<1>6. Good(a)
  BY <1>1, <1>4, <1>5 DEF Good
<1>7. InChannel(a) \subseteq InChannel(ch) \cup {m.id}
  BY <1>1, <1>3 DEF InChannel
<1>8. \A i \in 1 .. Len(ch) : i \in 1 .. Len(ch) + 1
  BY <1>1
<1>9. InChannel(ch) \cup {m.id} \subseteq InChannel(a)
  BY <1>1, <1>8 DEF InChannel
<1> QED BY <1>6, <1>7, <1>9 DEF a

\* Receiving from the channel.
LEMMA TailGood ==
    ASSUME NEW ch, Good(ch), ch # <<>>
    PROVE /\ Good(Tail(ch)) /\ Head(ch) \in Msgs
          /\ InChannel(ch) = InChannel(Tail(ch)) \cup {Head(ch).id}
          /\ Head(ch).id \notin InChannel(Tail(ch))
          /\ Head(ch).id = 0 => Tail(ch) = <<>>
<1> DEFINE t == Tail(ch)
<1>1. /\ ch \in Seq(Msgs) /\ Len(ch) \in Nat /\ Len(ch) > 0 /\ DOMAIN ch = 1 .. Len(ch)
      /\ t \in Seq(Msgs) /\ Len(t) = Len(ch) - 1 /\ DOMAIN t = 1 .. Len(ch) - 1
      /\ \A i \in 1 .. Len(ch) - 1 : t[i] = ch[i + 1] /\ i + 1 \in 1 .. Len(ch)
      /\ Head(ch) = ch[1] /\ 1 \in 1 .. Len(ch) /\ Head(ch) \in Msgs
  <2>1. ch \in Seq(Msgs) /\ Len(ch) \in Nat /\ DOMAIN ch = 1 .. Len(ch) /\ Len(ch) > 0
    BY LenProperties, EmptySeq DEF Good
  <2> QED BY <2>1, HeadTailProperties, LenProperties
<1>2. Len(ch) = 1 => t = <<>>
  BY <1>1, EmptySeq
<1> HIDE DEF t
<1>s. \A i \in 1 .. Len(t) :
        i \in Int /\ i + 1 \in 1 .. Len(ch) /\ i + 1 # 1 /\ t[i] = ch[i + 1]
  BY <1>1
<1>g. /\ \A i, j \in 1 .. Len(ch) : ch[i].id = ch[j].id => i = j
      /\ \A i \in 1 .. Len(ch) : ch[i].id = 0 => i = Len(ch)
  BY DEF Good
<1>3. ASSUME NEW i \in 1 .. Len(t), NEW j \in 1 .. Len(t), t[i].id = t[j].id
      PROVE i = j
  <2>1. i + 1 = j + 1
    BY <1>3, <1>s, <1>g
  <2> QED BY <2>1, <1>s
<1>4. ASSUME NEW i \in 1 .. Len(t), t[i].id = 0 PROVE i = Len(t)
  <2>1. i + 1 = Len(ch)
    BY <1>4, <1>s, <1>g
  <2> QED BY <2>1, <1>1
<1>5. \A i \in 1 .. Len(t) : t[i].id # ch[1].id
  BY <1>1, <1>s, <1>g
<1>6. Head(ch).id \notin InChannel(t)
  BY <1>1, <1>5 DEF InChannel
<1>7. InChannel(t) \cup {Head(ch).id} \subseteq InChannel(ch)
  <2>1. DOMAIN t = 1 .. Len(t)
    BY <1>1
  <2>2. \A i \in DOMAIN t : \E k \in DOMAIN ch : t[i].id = ch[k].id
    BY <1>1, <1>s, <2>1
  <2>3. InChannel(t) \subseteq InChannel(ch)
    BY <2>2 DEF InChannel
  <2>4. Head(ch).id \in InChannel(ch)
    BY <1>1 DEF InChannel
  <2> QED BY <2>3, <2>4
<1>8. InChannel(ch) \subseteq InChannel(t) \cup {Head(ch).id}
  <2> SUFFICES ASSUME NEW i \in 1 .. Len(ch), i # 1 PROVE ch[i].id \in InChannel(t)
    BY <1>1 DEF InChannel
  <2>1. i - 1 \in 1 .. Len(ch) - 1 /\ (i - 1) + 1 = i
    BY <1>1
  <2>2. t[i - 1] = ch[i]
    BY <1>1, <2>1
  <2> QED BY <1>1, <2>1, <2>2 DEF InChannel
<1>9. Head(ch).id = 0 => t = <<>>
  BY <1>1, <1>2 DEF Good
<1> QED BY <1>1, <1>3, <1>4, <1>6, <1>7, <1>8, <1>9 DEF Good, t

-----------------------------------------------------------------------------
(***************************************************************************)
(* The inductive invariant.  The stop is the last thing the owner sends, so  *)
(* a worker that took it has an empty channel; a request enters the channel  *)
(* at most once, while it has no outcome, so what leaves the channel or the  *)
(* worker's hands is exactly one undecided request.                          *)
(***************************************************************************)
Owners == {Idle, Ended(TRUE), Ended(FALSE)}
          \cup [at : {"room", "answer"}, id : 0 .. MaxRequests, deadline : Nat]
Outcomes == {"none", "queued", "omitted", "written", "failed", "expired"}
WaitsFor(id) == owner.at \in {"room", "answer"} /\ owner.id = id

TypeInv ==
    /\ now \in Nat /\ lost \in Nat /\ reported \in Nat
    /\ requests \in 0 .. MaxRequests
    /\ owner \in Owners
    /\ stopped \in BOOLEAN
    /\ Good(channel)
    /\ worker \in {"none", "idle", "busy", "ended"}
    /\ current \in 0 .. MaxRequests
    /\ outcome \in [Ids -> Outcomes]
    /\ told \in [Ids -> {"nothing", "logged", "failed"}]

\* The logger is stopped while the owner waits for the stop and afterwards; the
\* stop is in the channel only once that wait has found room.
OwnerInv ==
    /\ stopped <=> owner.at = "ended" \/ WaitsFor(0)
    /\ 0 \in InChannel(channel) => stopped /\ owner.at # "room"
    /\ \A id \in Ids : WaitsFor(id) => id <= requests
    /\ owner.at = "room" /\ owner.id # 0 => outcome[owner.id] = "none"
    /\ owner = Ended(TRUE) => worker \in {"none", "ended"}

\* A worker that never started has nothing to do, one that ended is done.
WorkerInv ==
    /\ worker = "none" => channel = <<>> /\ lost = 0 /\ owner.at \notin {"room", "answer"}
    /\ worker = "ended" => channel = <<>> /\ lost = 0 /\ stopped /\ owner.at # "room"
    /\ worker = "busy" => current \in Ids /\ current \notin InChannel(channel)

Busy == IF worker = "busy" THEN {current} ELSE {}

OutcomeInv ==
    /\ Undecided = (InChannel(channel) \ {0}) \cup Busy
    /\ \A id \in Ids : id > requests => outcome[id] = "none"
    /\ \A id \in Ids : told[id] = "logged" => outcome[id] = "written"

Omitted == {id \in Ids : outcome[id] = "omitted"}
CountInv == Cardinality(Omitted) = lost + reported

IInv == TypeInv /\ OwnerInv /\ WorkerInv /\ OutcomeInv /\ CountInv

\* The states of the owner.
LEMMA OwnerKinds ==
    /\ \A o \in Owners : o.at \in {"idle", "room", "answer", "ended"}
    /\ \A o \in Owners : o.at = "idle" <=> o = Idle
    /\ \A o \in Owners : o.at = "ended" => o \in {Ended(TRUE), Ended(FALSE)}
    /\ \A o \in Owners : o.at \in {"room", "answer"} =>
            /\ o \in [at : {"room", "answer"}, id : 0 .. MaxRequests, deadline : Nat]
            /\ o.id \in 0 .. MaxRequests /\ o.deadline \in Nat
            /\ [o EXCEPT !.at = "answer"] \in Owners
            /\ [o EXCEPT !.at = "answer"].at = "answer"
            /\ [o EXCEPT !.at = "answer"].id = o.id
    /\ Ended(TRUE).at = "ended" /\ Ended(FALSE).at = "ended" /\ Ended(TRUE) # Ended(FALSE)
    /\ Ended(TRUE) \in Owners /\ Ended(FALSE) \in Owners /\ Idle \in Owners /\ Idle.at = "idle"
BY DEF Owners, Idle, Ended

\* Waiting states.
LEMMA WaitingKinds ==
    ASSUME NEW at \in {"room", "answer"}, NEW id \in 0 .. MaxRequests, NEW d \in Nat
    PROVE /\ Waiting(at, id, d) \in Owners
          /\ Waiting(at, id, d).at = at /\ Waiting(at, id, d).id = id
BY DEF Waiting, Owners

\* An empty channel holds nothing.
LEMMA EmptyChannel == Good(<<>>) /\ InChannel(<<>>) = {}
<1>1. <<>> \in Seq(Msgs) /\ Len(<<>>) = 0 /\ DOMAIN <<>> = {}
  BY EmptySeq
<1> QED BY <1>1 DEF Good, InChannel

\* Omitted requests are finitely many, and one more is counted as one more.
LEMMA OneMoreOmitted ==
    ASSUME NEW r \in Ids, outcome \in [Ids -> Outcomes], outcome[r] # "omitted",
           outcome' = [outcome EXCEPT ![r] = "omitted"]
    PROVE Cardinality(Omitted') = Cardinality(Omitted) + 1 /\ Cardinality(Omitted) \in Nat
<1>1. IsFiniteSet(Ids)
  BY FS_Interval, LogWorkerAssumption DEF Ids
<1>2. IsFiniteSet(Omitted)
  BY <1>1, FS_Subset DEF Omitted
<1>3. Omitted' = Omitted \cup {r} /\ r \notin Omitted
  BY DEF Omitted
<1> QED BY <1>2, <1>3, FS_AddElement, FS_CardinalityType

\* The invariant holds at the start.
LEMMA InitHolds == Init => IInv
<1> SUFFICES ASSUME Init PROVE IInv
  OBVIOUS
<1>1. TypeInv
  <2>1. owner \in Owners /\ Good(channel)
    BY OwnerKinds, EmptyChannel DEF Init
  <2>2. outcome \in [Ids -> Outcomes] /\ told \in [Ids -> {"nothing", "logged", "failed"}]
    BY DEF Init, Outcomes
  <2>3. 0 \in 0 .. MaxRequests
    BY LogWorkerAssumption
  <2> QED BY <2>1, <2>2, <2>3 DEF Init, TypeInv
<1>2. OwnerInv /\ WorkerInv
  BY OwnerKinds, EmptyChannel DEF Init, OwnerInv, WorkerInv, WaitsFor, Ended, Idle
<1>3. OutcomeInv
  BY EmptyChannel DEF Init, OutcomeInv, Undecided, Busy
<1>4. CountInv
  <2>1. Omitted = {}
    BY DEF Init, Omitted
  <2> QED BY <2>1, FS_EmptySet DEF Init, CountInv
<1> QED BY <1>1, <1>2, <1>3, <1>4 DEF IInv

\* What an idle owner knows.
LEMMA IdleOwner ==
    ASSUME IInv, owner = Idle
    PROVE /\ ~stopped /\ 0 \notin InChannel(channel) /\ owner.at = "idle"
          /\ worker # "ended"
BY OwnerKinds DEF IInv, OwnerInv, WorkerInv, WaitsFor, TypeInv

\* Logger::submit: a record is put in the channel or omitted at once.
LEMMA SubmitStep ==
    ASSUME IInv, Submit
    PROVE IInv'
<1> DEFINE r == requests + 1
           m == File(r, now + WriteTimeout)
<1>1. /\ owner = Idle /\ owner.at = "idle" /\ ~stopped /\ 0 \notin InChannel(channel)
      /\ worker # "ended"
  BY IdleOwner DEF Submit
<1>2. /\ r \in Ids /\ r \in 1 .. MaxRequests /\ outcome[r] = "none" /\ r > requests
      /\ r \in 0 .. MaxRequests /\ requests' = r /\ requests \in Nat
  BY LogWorkerAssumption DEF Submit, IInv, TypeInv, OutcomeInv, Ids
<1>3. m \in Msgs /\ m.id = r
  BY <1>2, LogWorkerAssumption DEF File, Msgs, IInv, TypeInv
<1>4. r \notin InChannel(channel) \cup Busy
  <2>1. r \notin Undecided /\ r # 0
    BY <1>2 DEF Undecided
  <2> QED BY <2>1 DEF IInv, OutcomeInv
<1>5. /\ UNCHANGED <<now, owner, stopped, current, told, reported>>
      /\ worker' = Running
  BY <1>1 DEF Submit
<1>6. worker' \in {"idle", "busy"} /\ (worker' = "busy" <=> worker = "busy")
  BY <1>1, <1>5 DEF Running, IInv, TypeInv
<1>7. CASE Full
  <2>1. /\ lost' = lost + 1 /\ channel' = channel
        /\ outcome' = [outcome EXCEPT ![r] = "omitted"]
    BY <1>7 DEF Submit
  <2>2. TypeInv'
    BY <1>2, <1>5, <1>6, <2>1 DEF IInv, TypeInv, Outcomes
  <2>3. OwnerInv'
    BY <1>1, <1>5, <1>6, <2>1, OwnerKinds DEF IInv, OwnerInv, WaitsFor, Idle, Ended
  <2>4. WorkerInv'
    BY <1>5, <1>6, <2>1 DEF IInv, WorkerInv
  <2>5. OutcomeInv'
    <3>1. Undecided' = Undecided
      BY <1>2, <2>1 DEF Undecided, IInv, TypeInv
    <3>2. Busy' = Busy
      BY <1>5, <1>6 DEF Busy
    <3>3. \A id \in Ids : id > requests' => outcome'[id] = "none"
      BY <1>2, <2>1 DEF IInv, TypeInv, OutcomeInv, Ids
    <3>4. \A id \in Ids : told'[id] = "logged" => outcome'[id] = "written"
      BY <1>2, <1>5, <2>1 DEF IInv, TypeInv, OutcomeInv
    <3> QED BY <2>1, <3>1, <3>2, <3>3, <3>4 DEF OutcomeInv, IInv
  <2>6. CountInv'
    <3>1. Cardinality(Omitted') = Cardinality(Omitted) + 1
      BY <1>2, <2>1, OneMoreOmitted DEF IInv, TypeInv
    <3> QED BY <1>5, <2>1, <3>1 DEF CountInv, IInv, TypeInv
  <2> QED BY <2>2, <2>3, <2>4, <2>5, <2>6 DEF IInv
<1>8. CASE ~Full
  <2>1. /\ lost' = lost /\ channel' = Append(channel, m)
        /\ outcome' = [outcome EXCEPT ![r] = "queued"]
    BY <1>1, <1>8 DEF Submit
  <2> HIDE DEF m
  <2>2. Good(channel') /\ InChannel(channel') = InChannel(channel) \cup {r}
    BY <1>1, <1>3, <1>4, <2>1, AppendGood DEF IInv, TypeInv
  <2>3. TypeInv'
    BY <1>2, <1>5, <1>6, <2>1, <2>2 DEF IInv, TypeInv, Outcomes
  <2>4. OwnerInv'
    BY <1>1, <1>2, <1>5, <1>6, <2>1, <2>2, OwnerKinds DEF IInv, OwnerInv, WaitsFor, Idle, Ended
  <2>5. WorkerInv'
    BY <1>4, <1>5, <1>6, <2>1, <2>2 DEF IInv, WorkerInv, Busy
  <2>6. OutcomeInv'
    <3>1. Undecided' = Undecided \cup {r}
      BY <1>2, <2>1 DEF Undecided, IInv, TypeInv
    <3>2. Busy' = Busy
      BY <1>5, <1>6 DEF Busy
    <3>3. \A id \in Ids : id > requests' => outcome'[id] = "none"
      BY <1>2, <2>1 DEF IInv, TypeInv, OutcomeInv, Ids
    <3>4. \A id \in Ids : told'[id] = "logged" => outcome'[id] = "written"
      BY <1>2, <1>5, <2>1 DEF IInv, TypeInv, OutcomeInv
    <3>5. r # 0
      BY <1>2
    <3> QED BY <2>2, <3>1, <3>2, <3>3, <3>4, <3>5 DEF OutcomeInv, IInv
  <2>7. CountInv'
    <3>1. Omitted' = Omitted
      BY <1>2, <2>1 DEF Omitted, IInv, TypeInv
    <3> QED BY <1>5, <2>1, <3>1 DEF CountInv, IInv
  <2> QED BY <2>3, <2>4, <2>5, <2>6, <2>7 DEF IInv
<1> QED BY <1>7, <1>8

\* A step of the owner alone.
LEMMA WriteStep ==
    ASSUME IInv, Write
    PROVE IInv'
<1> DEFINE r == requests + 1
           w == Waiting("room", r, now + WriteTimeout)
<1>1. /\ owner = Idle /\ owner.at = "idle" /\ ~stopped /\ 0 \notin InChannel(channel)
      /\ worker # "ended"
  BY IdleOwner DEF Write
<1>2. /\ r \in Ids /\ outcome[r] = "none" /\ r > requests
      /\ r \in 0 .. MaxRequests /\ r # 0 /\ requests' = r /\ requests \in Nat
  BY LogWorkerAssumption DEF Write, IInv, TypeInv, OutcomeInv, Ids
<1>3. w \in Owners /\ w.at = "room" /\ w.id = r
  BY <1>2, WaitingKinds, LogWorkerAssumption DEF IInv, TypeInv
<1>4. /\ UNCHANGED <<now, stopped, channel, current, lost, outcome, told, reported>>
      /\ worker' = Running /\ owner' = w
  BY DEF Write
<1> HIDE DEF w
<1>5. worker' \in {"idle", "busy"} /\ (worker' = "busy" <=> worker = "busy")
  BY <1>1, <1>4 DEF Running, IInv, TypeInv
<1>6. TypeInv'
  BY <1>2, <1>3, <1>4, <1>5 DEF IInv, TypeInv
<1>7. OwnerInv'
  <2>1. owner'.at = "room" /\ owner'.id = r /\ ~stopped'
    BY <1>1, <1>3, <1>4
  <2>2. stopped' <=> owner'.at = "ended" \/ WaitsFor(0)'
    BY <1>2, <2>1 DEF WaitsFor
  <2>3. 0 \notin InChannel(channel')
    BY <1>1, <1>4
  <2>4. \A id \in Ids : WaitsFor(id)' => id <= requests'
    BY <1>2, <2>1 DEF WaitsFor
  <2>5. outcome'[owner'.id] = "none" /\ owner' # Ended(TRUE)
    BY <1>2, <1>4, <2>1, OwnerKinds
  <2> QED BY <2>1, <2>2, <2>3, <2>4, <2>5 DEF OwnerInv
<1>8. WorkerInv'
  BY <1>4, <1>5 DEF IInv, WorkerInv
<1>9. OutcomeInv'
  <2>1. Undecided' = Undecided /\ Busy' = Busy
    BY <1>4, <1>5 DEF Undecided, Busy
  <2>2. \A id \in Ids : id > requests' => outcome'[id] = "none"
    BY <1>2, <1>4 DEF IInv, OutcomeInv, Ids
  <2> QED BY <1>4, <2>1, <2>2 DEF IInv, OutcomeInv
<1>10. CountInv'
  BY <1>4 DEF IInv, CountInv, Omitted
<1> QED BY <1>6, <1>7, <1>8, <1>9, <1>10 DEF IInv

\* Logger::shutdown starts to wait for room for the stop message.
LEMMA ShutdownStep ==
    ASSUME IInv, Shutdown
    PROVE IInv'
<1> DEFINE w == Waiting("room", 0, now + ShutdownTimeout)
<1>1. /\ owner = Idle /\ owner.at = "idle" /\ 0 \notin InChannel(channel)
      /\ worker # "ended"
  BY IdleOwner DEF Shutdown
<1>2. w \in Owners /\ w.at = "room" /\ w.id = 0
  BY WaitingKinds, LogWorkerAssumption DEF IInv, TypeInv
<1>3. /\ UNCHANGED <<now, channel, worker, current, lost, requests, outcome, told, reported>>
      /\ stopped' = TRUE /\ owner' = IF worker = "none" THEN Ended(TRUE) ELSE w
  BY DEF Shutdown
<1> HIDE DEF w
<1>4. TypeInv'
  BY <1>2, <1>3, OwnerKinds DEF IInv, TypeInv
<1>5. OwnerInv'
  <2>1. \/ worker = "none" /\ owner' = Ended(TRUE) /\ owner'.at = "ended"
        \/ worker # "none" /\ owner'.at = "room" /\ owner'.id = 0
    BY <1>2, <1>3, OwnerKinds
  <2>2. stopped' <=> owner'.at = "ended" \/ WaitsFor(0)'
    BY <1>3, <2>1 DEF WaitsFor
  <2>3. 0 \notin InChannel(channel')
    BY <1>1, <1>3
  <2>4. \A id \in Ids : ~WaitsFor(id)'
    <3>1. 0 \notin Ids
      BY LogWorkerAssumption DEF Ids
    <3> QED BY <2>1, <3>1 DEF WaitsFor
  <2>5. owner'.at = "room" => owner'.id = 0
    BY <2>1
  <2>6. owner' = Ended(TRUE) => worker' = "none"
    BY <1>3, <2>1, OwnerKinds
  <2> QED BY <2>2, <2>3, <2>4, <2>5, <2>6 DEF OwnerInv
<1>6. WorkerInv'
  BY <1>1, <1>2, <1>3, OwnerKinds DEF IInv, WorkerInv
<1>7. OutcomeInv'
  BY <1>3 DEF IInv, OutcomeInv, Undecided, Busy
<1>8. CountInv'
  BY <1>3 DEF IInv, CountInv, Omitted
<1> QED BY <1>4, <1>5, <1>6, <1>7, <1>8 DEF IInv

\* A waiting owner.
LEMMA WaitingOwner ==
    ASSUME IInv, owner.at \in {"room", "answer"}
    PROVE /\ owner.id \in 0 .. MaxRequests /\ owner.deadline \in Nat
          /\ (owner.id = 0 <=> stopped) /\ (owner.id # 0 => owner.id \in Ids)
          /\ worker # "none"
<1>1. owner.id \in 0 .. MaxRequests /\ owner.deadline \in Nat
  BY OwnerKinds DEF IInv, TypeInv
<1>2. owner.id = 0 <=> stopped
  BY DEF IInv, OwnerInv, WaitsFor
<1>3. owner.id # 0 => owner.id \in Ids
  BY <1>1, LogWorkerAssumption DEF Ids
<1> QED BY <1>1, <1>2, <1>3 DEF IInv, WorkerInv

\* The waiting owner finds room in the channel.
LEMMA SendStep ==
    ASSUME IInv, SendWaiting
    PROVE IInv'
<1> DEFINE m == IF owner.id = 0 THEN Stop ELSE File(owner.id, owner.deadline)
           o == [owner EXCEPT !.at = "answer"]
<1>1. /\ owner.at = "room" /\ owner.id \in 0 .. MaxRequests /\ owner.deadline \in Nat
      /\ (owner.id = 0 <=> stopped) /\ (owner.id # 0 => owner.id \in Ids)
      /\ 0 \notin InChannel(channel) /\ worker \in {"idle", "busy"}
      /\ owner.id # 0 => outcome[owner.id] = "none"
  BY WaitingOwner DEF SendWaiting, IInv, OwnerInv, WorkerInv, TypeInv
<1>2. o \in Owners /\ o.at = "answer" /\ o.id = owner.id
  BY <1>1, OwnerKinds DEF IInv, TypeInv
<1>3. m \in Msgs /\ m.id = owner.id
  BY <1>1 DEF Msgs, Stop, File
<1>4. owner.id \notin InChannel(channel) /\ owner.id \notin Busy
  <2>1. owner.id # 0 => owner.id \notin Undecided
    BY <1>1 DEF Undecided
  <2>2. 0 \notin Busy
    BY DEF Busy, IInv, WorkerInv, Ids
  <2> QED BY <1>1, <2>1, <2>2 DEF IInv, OutcomeInv
<1>5. /\ UNCHANGED <<now, stopped, worker, current, lost, requests, told, reported>>
      /\ channel' = Append(channel, m) /\ owner' = o
      /\ outcome' = IF owner.id = 0 THEN outcome ELSE [outcome EXCEPT ![owner.id] = "queued"]
  BY DEF SendWaiting
<1> HIDE DEF m, o
<1>6. Good(channel') /\ InChannel(channel') = InChannel(channel) \cup {owner.id}
  BY <1>1, <1>3, <1>4, <1>5, AppendGood DEF IInv, TypeInv
<1>7. TypeInv'
  <2>1. outcome' \in [Ids -> Outcomes]
    BY <1>1, <1>5 DEF IInv, TypeInv, Outcomes
  <2> QED BY <1>2, <1>5, <1>6, <2>1 DEF IInv, TypeInv
<1>8. OwnerInv'
  <2>1. owner'.at = "answer" /\ owner'.id = owner.id /\ stopped' = stopped
    BY <1>2, <1>5
  <2>2. stopped' <=> owner'.at = "ended" \/ WaitsFor(0)'
    BY <1>1, <2>1 DEF WaitsFor
  <2>3. 0 \in InChannel(channel') => stopped' /\ owner'.at # "room"
    BY <1>1, <1>6, <2>1
  <2>4. \A id \in Ids : WaitsFor(id)' => id <= requests'
    BY <1>1, <1>5, <2>1 DEF WaitsFor, IInv, OwnerInv
  <2>5. owner' # Ended(TRUE)
    BY <2>1, OwnerKinds
  <2> QED BY <2>1, <2>2, <2>3, <2>4, <2>5 DEF OwnerInv
<1>9. WorkerInv'
  BY <1>1, <1>4, <1>5, <1>6 DEF IInv, WorkerInv, Busy
<1>10. OutcomeInv'
  <2>1. Busy' = Busy
    BY <1>5 DEF Busy
  <2>2. Undecided' = Undecided \cup ({owner.id} \ {0})
    BY <1>1, <1>5 DEF Undecided, IInv, TypeInv
  <2>3. \A id \in Ids : id > requests' => outcome'[id] = "none"
    <3>1. owner.id # 0 => owner.id <= requests
      BY <1>1 DEF IInv, OwnerInv, WaitsFor
    <3> QED BY <1>1, <1>5, <3>1 DEF IInv, TypeInv, OutcomeInv, Ids
  <2>4. \A id \in Ids : told'[id] = "logged" => outcome'[id] = "written"
    BY <1>1, <1>5 DEF IInv, TypeInv, OutcomeInv
  <2> QED BY <1>6, <2>1, <2>2, <2>3, <2>4 DEF IInv, OutcomeInv
<1>11. CountInv'
  <2>1. Omitted' = Omitted
    BY <1>1, <1>5 DEF Omitted, IInv, TypeInv
  <2> QED BY <1>5, <2>1 DEF IInv, CountInv
<1> QED BY <1>7, <1>8, <1>9, <1>10, <1>11 DEF IInv

\* The end of a wait: what the caller is told is true, and a shutdown that
\* succeeds has seen the end of the worker.
LEMMA FinishStep ==
    ASSUME IInv, owner.at \in {"room", "answer"}, NEW ok \in BOOLEAN, Finish(ok),
           ok => IF owner.id = 0 THEN worker = "ended" ELSE outcome[owner.id] = "written",
           UNCHANGED <<now, stopped, channel, worker, current, lost, requests, outcome, reported>>
    PROVE IInv'
<1>1. /\ owner.id \in 0 .. MaxRequests
      /\ (owner.id = 0 <=> stopped) /\ (owner.id # 0 => owner.id \in Ids)
      /\ worker # "none"
  BY WaitingOwner
<1>2. CASE owner.id = 0
  <2>1. /\ owner' = Ended(ok) /\ told' = told /\ owner' \in Owners /\ owner'.at = "ended"
        /\ stopped
    BY <1>1, <1>2, OwnerKinds DEF Finish
  <2>2. TypeInv'
    BY <2>1 DEF IInv, TypeInv
  <2>3. OwnerInv'
    <3>1. owner' = Ended(TRUE) => worker' = "ended"
      BY <1>2, <2>1, OwnerKinds DEF Ended
    <3> QED BY <2>1, <3>1 DEF IInv, OwnerInv, WaitsFor
  <2>4. WorkerInv'
    BY <1>1, <2>1 DEF IInv, WorkerInv
  <2>5. OutcomeInv' /\ CountInv'
    BY <2>1 DEF IInv, OutcomeInv, CountInv, Undecided, Busy, Omitted
  <2> QED BY <2>2, <2>3, <2>4, <2>5 DEF IInv
<1>3. CASE owner.id # 0
  <2>1. /\ owner' = Idle /\ owner' \in Owners /\ owner'.at = "idle" /\ ~stopped
        /\ told' = [told EXCEPT ![owner.id] = IF ok THEN "logged" ELSE "failed"]
    BY <1>1, <1>3, OwnerKinds DEF Finish
  <2>2. TypeInv'
    BY <1>1, <1>3, <2>1 DEF IInv, TypeInv
  <2>3. OwnerInv'
    BY <2>1, OwnerKinds DEF IInv, OwnerInv, WaitsFor
  <2>4. WorkerInv'
    BY <1>1, <2>1 DEF IInv, WorkerInv
  <2>5. \A id \in Ids : told'[id] = "logged" => outcome'[id] = "written"
    BY <1>1, <1>3, <2>1 DEF IInv, OutcomeInv, TypeInv
  <2>6. OutcomeInv' /\ CountInv'
    BY <2>5 DEF IInv, OutcomeInv, CountInv, Undecided, Busy, Omitted
  <2> QED BY <2>2, <2>3, <2>4, <2>6 DEF IInv
<1> QED BY <1>2, <1>3

\* The worker takes the next message.
LEMMA TakeStep ==
    ASSUME IInv, Take
    PROVE IInv'
<1> DEFINE r == Head(channel)
<1>1. /\ Good(channel') /\ r \in Msgs
      /\ InChannel(channel) = InChannel(channel') \cup {r.id}
      /\ r.id \notin InChannel(channel')
      /\ r.id = 0 => channel' = <<>>
      /\ r.id \in 0 .. MaxRequests /\ (r.id = 0 <=> r = Stop)
  BY TailGood, MsgIds DEF Take, IInv, TypeInv
<1>2. /\ worker = "idle" /\ Busy = {} /\ reported' = reported + lost /\ lost' = 0
      /\ UNCHANGED <<now, owner, stopped, requests, told>>
  BY DEF Take, Busy
<1>3. /\ r = Stop => worker' = "ended" /\ UNCHANGED <<current, outcome>>
      /\ r # Stop => \/ worker' = "idle" /\ UNCHANGED current
                        /\ outcome' = [outcome EXCEPT ![r.id] = "expired"]
                     \/ worker' = "busy" /\ current' = r.id /\ UNCHANGED outcome
  BY <1>2 DEF Take
<1> HIDE DEF r
<1>4. r.id # 0 => r.id \in Ids /\ outcome[r.id] = "queued"
  <2>1. r.id # 0 => r.id \in Undecided
    BY <1>1 DEF IInv, OutcomeInv
  <2> QED BY <2>1 DEF Undecided
<1>5. TypeInv'
  <2>1. outcome' \in [Ids -> Outcomes]
    BY <1>1, <1>3, <1>4 DEF IInv, TypeInv, Outcomes
  <2>2. reported' \in Nat /\ lost' \in Nat
    BY <1>2 DEF IInv, TypeInv
  <2>3. current' \in 0 .. MaxRequests /\ worker' \in {"none", "idle", "busy", "ended"}
    BY <1>1, <1>2, <1>3 DEF IInv, TypeInv
  <2> QED BY <1>1, <1>2, <2>1, <2>2, <2>3 DEF IInv, TypeInv
<1>6. OwnerInv'
  <2>1. owner # Ended(TRUE)
    BY <1>2 DEF IInv, OwnerInv
  <2>2. owner.at = "room" /\ owner.id # 0 => outcome'[owner.id] = "none"
    <3> SUFFICES ASSUME owner.at = "room", owner.id # 0 PROVE outcome'[owner.id] = "none"
      OBVIOUS
    <3>1. owner.id \in Ids /\ outcome[owner.id] = "none"
      BY WaitingOwner DEF IInv, OwnerInv
    <3> QED BY <1>1, <1>3, <1>4, <3>1 DEF IInv, TypeInv
  <2> QED BY <1>1, <1>2, <2>1, <2>2 DEF IInv, OwnerInv, WaitsFor
<1>7. WorkerInv'
  <2>1. worker' = "ended" => channel' = <<>> /\ stopped /\ owner.at # "room"
    BY <1>1, <1>2, <1>3 DEF IInv, OwnerInv
  <2>2. worker' = "busy" => current' \in Ids /\ current' \notin InChannel(channel')
    BY <1>1, <1>2, <1>3, <1>4
  <2>3. worker' # "none"
    BY <1>1, <1>3
  <2> QED BY <1>2, <2>1, <2>2, <2>3 DEF WorkerInv
<1>8. OutcomeInv'
  <2>1. Undecided' = (InChannel(channel') \ {0}) \cup Busy'
    <3>1. Undecided = InChannel(channel) \ {0}
      BY <1>2 DEF IInv, OutcomeInv
    <3>2. CASE r = Stop
      BY <1>1, <1>3, <3>1, <3>2 DEF Undecided, Busy
    <3>3. CASE r # Stop /\ worker' = "busy"
      <4>1. Undecided' = Undecided /\ Busy' = {r.id}
        BY <1>3, <3>3 DEF Undecided, Busy
      <4> QED BY <1>1, <3>1, <3>3, <4>1
    <3>4. CASE r # Stop /\ worker' # "busy"
      <4>1. outcome' = [outcome EXCEPT ![r.id] = "expired"] /\ Busy' = {}
        BY <1>3, <3>4 DEF Busy
      <4>2. Undecided' = Undecided \ {r.id}
        BY <1>1, <1>4, <3>4, <4>1 DEF Undecided, IInv, TypeInv
      <4> QED BY <1>1, <3>1, <3>4, <4>1, <4>2
    <3> QED BY <3>2, <3>3, <3>4
  <2>2. \A id \in Ids : id > requests' => outcome'[id] = "none"
    BY <1>1, <1>2, <1>3, <1>4 DEF IInv, TypeInv, OutcomeInv
  <2>3. \A id \in Ids : told'[id] = "logged" => outcome'[id] = "written"
    BY <1>1, <1>2, <1>3, <1>4 DEF IInv, TypeInv, OutcomeInv
  <2> QED BY <2>1, <2>2, <2>3 DEF OutcomeInv
<1>9. CountInv'
  <2>1. Omitted' = Omitted
    BY <1>1, <1>3, <1>4 DEF Omitted, IInv, TypeInv
  <2> QED BY <1>2, <2>1 DEF IInv, CountInv, TypeInv
<1> QED BY <1>5, <1>6, <1>7, <1>8, <1>9 DEF IInv

\* The worker appends a record to the file, or fails to.
LEMMA AppendStep ==
    ASSUME IInv, AppendRecord
    PROVE IInv'
<1>1. PICK result \in {"written", "failed"} : outcome' = [outcome EXCEPT ![current] = result]
  BY DEF AppendRecord
<1>2. /\ worker = "busy" /\ worker' = "idle" /\ Busy = {current} /\ Busy' = {}
      /\ UNCHANGED <<now, owner, stopped, channel, current, lost, requests, told, reported>>
  BY DEF AppendRecord, Busy
<1>3. /\ current \in Ids /\ current \notin InChannel(channel)
      /\ outcome[current] = "queued"
  <2>1. current \in Undecided
    BY <1>2 DEF IInv, OutcomeInv
  <2> QED BY <1>2, <2>1 DEF Undecided, IInv, WorkerInv
<1>4. TypeInv'
  BY <1>1, <1>2, <1>3 DEF IInv, TypeInv, Outcomes
<1>5. OwnerInv'
  <2>1. owner # Ended(TRUE)
    BY <1>2 DEF IInv, OwnerInv
  <2>2. owner.at = "room" /\ owner.id # 0 => outcome'[owner.id] = "none"
    <3> SUFFICES ASSUME owner.at = "room", owner.id # 0 PROVE outcome'[owner.id] = "none"
      OBVIOUS
    <3>1. owner.id \in Ids /\ outcome[owner.id] = "none"
      BY WaitingOwner DEF IInv, OwnerInv
    <3> QED BY <1>1, <1>3, <3>1 DEF IInv, TypeInv
  <2> QED BY <1>2, <2>1, <2>2 DEF IInv, OwnerInv, WaitsFor
<1>6. WorkerInv'
  BY <1>2 DEF WorkerInv
<1>7. OutcomeInv'
  <2>1. Undecided' = Undecided \ {current}
    BY <1>1, <1>3 DEF Undecided, IInv, TypeInv
  <2>2. \A id \in Ids : id > requests' => outcome'[id] = "none"
    BY <1>1, <1>2, <1>3 DEF IInv, TypeInv, OutcomeInv
  <2>3. \A id \in Ids : told'[id] = "logged" => outcome'[id] = "written"
    BY <1>1, <1>2, <1>3 DEF IInv, TypeInv, OutcomeInv
  <2> QED BY <1>2, <1>3, <2>1, <2>2, <2>3 DEF IInv, OutcomeInv
<1>8. CountInv'
  <2>1. Omitted' = Omitted
    BY <1>1, <1>3 DEF Omitted, IInv, TypeInv
  <2> QED BY <1>2, <2>1 DEF IInv, CountInv
<1> QED BY <1>4, <1>5, <1>6, <1>7, <1>8 DEF IInv

\* Every step keeps the invariant.
LEMMA StepHolds == IInv /\ [Next]_vars => IInv'
<1> SUFFICES ASSUME IInv, [Next]_vars PROVE IInv'
  OBVIOUS
<1>1. CASE GetAnswer
  <2>1. owner.at = "answer" /\ Answered /\ Finish(owner.id = 0 \/ outcome[owner.id] = "written")
    BY <1>1 DEF GetAnswer
  <2> DEFINE ok == owner.id = 0 \/ outcome[owner.id] = "written"
  <2>2. ok => IF owner.id = 0 THEN worker = "ended" ELSE outcome[owner.id] = "written"
    BY <2>1 DEF Answered
  <2>3. ok \in BOOLEAN /\ Finish(ok)
    BY <2>1
  <2> HIDE DEF ok
  <2> QED BY <1>1, <2>1, <2>2, <2>3, FinishStep DEF GetAnswer
<1>2. CASE TimesOut
  BY <1>2, FinishStep DEF TimesOut
<1>3. CASE Tick
  <2>1. now' \in Nat /\ UNCHANGED <<owner, stopped, channel, worker, current, lost, requests,
                                    outcome, told, reported>>
    BY <1>3 DEF Tick, IInv, TypeInv
  <2> QED BY <2>1 DEF IInv, TypeInv, OwnerInv, WorkerInv, OutcomeInv, CountInv, WaitsFor,
                      Undecided, Busy, Omitted
<1>4. CASE UNCHANGED vars
  BY <1>4 DEF vars, IInv, TypeInv, OwnerInv, WorkerInv, OutcomeInv, CountInv, WaitsFor,
              Undecided, Busy, Omitted
<1> QED BY <1>1, <1>2, <1>3, <1>4, SubmitStep, WriteStep, ShutdownStep, SendStep, TakeStep,
           AppendStep DEF Next

\* So it holds always.
LEMMA Invariance == Spec => []IInv
BY InitHolds, StepHolds, PTL DEF Spec

-----------------------------------------------------------------------------
(* Theorem.                                                                 *)

\* No request that entered the channel disappears, a shutdown that succeeds has
\* drained and reported everything, and a player is told only of records that
\* are in the file, for any capacity and any deadlines (Logger::submit,
\* Logger::write, Logger::shutdown and the worker's loop).
THEOREM AccountedRecords == Spec => []RecordsAccounted
<1>1. ASSUME IInv PROVE RecordsAccounted
  <2>1. Undecided = ({channel[i].id : i \in DOMAIN channel} \ {0})
                    \cup (IF worker = "busy" THEN {current} ELSE {})
    BY <1>1 DEF IInv, OutcomeInv, InChannel, Busy
  <2>2. owner = Ended(TRUE) => Undecided = {} /\ lost = 0
    <3> SUFFICES ASSUME owner = Ended(TRUE) PROVE Undecided = {} /\ lost = 0
      OBVIOUS
    <3>1. worker \in {"none", "ended"}
      BY <1>1 DEF IInv, OwnerInv
    <3>2. channel = <<>> /\ lost = 0 /\ Busy = {}
      BY <1>1, <3>1 DEF IInv, WorkerInv, Busy
    <3> QED BY <1>1, <3>2, EmptyChannel DEF IInv, OutcomeInv
  <2>3. Cardinality({id \in Ids : outcome[id] = "omitted"}) = lost + reported
    BY <1>1 DEF IInv, CountInv, Omitted
  <2>4. \A id \in Ids : told[id] = "logged" => outcome[id] = "written"
    BY <1>1 DEF IInv, OutcomeInv
  <2> QED BY <2>1, <2>2, <2>3, <2>4 DEF RecordsAccounted
<1> QED BY <1>1, Invariance, PTL
=============================================================================
