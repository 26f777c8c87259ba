----------------------- MODULE SimulationClockProofs -----------------------
(***************************************************************************)
(* Proofs about the simulation clock and the deadlines stored on it, for    *)
(* any timers, maximum and save interval.                                   *)
(***************************************************************************)
EXTENDS SimulationClock, TLAPS

\* The phase keeps its offset from the clock when both advance.
LEMMA OffsetKept ==
    ASSUME NEW p \in 0 .. 29, NEW s \in Nat
    PROVE /\ (p + 1) % 30 \in 0 .. 29
          /\ (((p + 1) % 30) - (s + 1)) % 30 = (p - s) % 30
OBVIOUS

\* Loading gives back the phase offset that was stored.
LEMMA OffsetLoaded ==
    ASSUME NEW o \in 0 .. 29, NEW s \in Nat
    PROVE /\ (s + o) % 30 \in 0 .. 29
          /\ (((s + o) % 30) - s) % 30 = o
OBVIOUS

\* The phase at an earlier second, from the offset.
LEMMA PhaseBefore ==
    ASSUME NEW p \in 0 .. 29, NEW w \in Nat, NEW s \in Nat
    PROVE (s + ((p - w) % 30)) % 30 = (p - (w - s)) % 30
OBVIOUS

-----------------------------------------------------------------------------
(***************************************************************************)
(* The inductive invariant.  The baseline is the live world, and the stored *)
(* deadlines are the live world's although the stored clock may be older:   *)
(* a clock row that is not written means that no deadline has moved.        *)
(***************************************************************************)
\* The rows of world w are the stored ones.
Matches(w) == Deadlines(w) = stored.deadlines /\ w.row = stored.row

ClockInv ==
    /\ TypeOK
    /\ LoadAccepts
    /\ durable # NoBaseline => durable = world /\ ~doubt
    /\ ~doubt => Matches(world)
    /\ PhaseOffset(world) = stored.offset
    /\ world.seconds - stored.seconds >= -1
    /\ IdleLossBounded

\* A deadline is null exactly when its timer does not run.
LEMMA DeadlineValue ==
    ASSUME NEW w \in World, NEW t \in Timers
    PROVE /\ Deadline(w, t) \in Nat
          /\ w.timers[t] = 0 <=> Deadline(w, t) = Null
          /\ w.timers[t] # 0 => Deadline(w, t) - w.seconds = w.timers[t]
          /\ w.timers[t] \in 0 .. Maximum
BY ConstantsAssumption DEF Deadline, World, Null

\* A start that accepts the database makes a world of it, with the same rows
\* and the same phase offset.
LEMMA LoadType ==
    ASSUME TypeOK, LoadAccepts
    PROVE /\ Load(stored) \in World /\ Load(stored).seconds = stored.seconds
          /\ Matches(Load(stored)) /\ PhaseOffset(Load(stored)) = stored.offset
<1>t. /\ stored.seconds \in Nat /\ stored.offset \in 0 .. 29 /\ stored.row \in Nat
      /\ \A t \in Timers : stored.deadlines[t] \in Nat
      /\ stored.deadlines = [t \in Timers |-> stored.deadlines[t]] /\ Maximum \in Nat
  BY ConstantsAssumption DEF TypeOK, Turn
<1>0. ASSUME NEW t \in Timers
      PROVE \/ stored.deadlines[t] = 0 /\ Load(stored).timers[t] = 0
            \/ /\ stored.deadlines[t] # 0
               /\ Load(stored).timers[t] = stored.deadlines[t] - stored.seconds
               /\ Load(stored).timers[t] \in 1 .. Maximum
  <2>1. Load(stored).timers[t] =
            IF stored.deadlines[t] = 0 THEN 0 ELSE stored.deadlines[t] - stored.seconds
    BY DEF Load, Null
  <2>2. stored.deadlines[t] # 0 => stored.deadlines[t] - stored.seconds \in 1 .. Maximum
    BY DEF LoadAccepts, Accepts, Null
  <2> QED BY <2>1, <2>2
<1>1. \A t \in Timers : Load(stored).timers[t] \in 0 .. Maximum
  <2> SUFFICES ASSUME NEW t \in Timers PROVE Load(stored).timers[t] \in 0 .. Maximum
    OBVIOUS
  <2> QED BY <1>t, <1>0
<1>2. Load(stored).phase \in 0 .. 29 /\ PhaseOffset(Load(stored)) = stored.offset
  BY <1>t, OffsetLoaded DEF Load, PhaseOffset, Turn
<1>3. Load(stored) \in World
  <2>1. Load(stored).timers = [t \in Timers |-> Load(stored).timers[t]]
    BY DEF Load
  <2>2. Load(stored).timers \in [Timers -> 0 .. Maximum]
    BY <1>1, <2>1
  <2>3. Load(stored) = [seconds |-> stored.seconds, phase |-> Load(stored).phase,
                        timers |-> Load(stored).timers, row |-> stored.row]
    BY DEF Load
  <2> QED BY <1>t, <1>2, <2>2, <2>3 DEF World, Turn
<1>4. \A t \in Timers : Deadline(Load(stored), t) = stored.deadlines[t]
  <2> SUFFICES ASSUME NEW t \in Timers PROVE Deadline(Load(stored), t) = stored.deadlines[t]
    OBVIOUS
  <2>1. Load(stored).seconds = stored.seconds
    BY DEF Load
  <2>2. CASE stored.deadlines[t] = 0
    BY <1>0, <2>2 DEF Deadline, Null
  <2>3. CASE stored.deadlines[t] # 0
    <3>1. Load(stored).timers[t] # 0
      BY <1>0, <1>t, <2>3
    <3>2. Deadline(Load(stored), t) = stored.seconds + (stored.deadlines[t] - stored.seconds)
      BY <1>0, <2>1, <2>3, <3>1 DEF Deadline
    <3> QED BY <1>t, <3>2
  <2> QED BY <2>2, <2>3
<1>5. Deadlines(Load(stored)) = stored.deadlines
  BY <1>t, <1>4 DEF Deadlines
<1> QED BY <1>2, <1>3, <1>5 DEF Matches, Load

\* The baseline of a diff has the stored rows.
LEMMA BaseMatches ==
    ASSUME ClockInv, NEW trusted \in BOOLEAN PROVE Matches(Base(trusted))
<1>1. CASE trusted /\ durable # NoBaseline
  BY <1>1 DEF Base, ClockInv
<1>2. CASE ~(trusted /\ durable # NoBaseline)
  BY <1>2, LoadType DEF Base, ClockInv
<1> QED BY <1>1, <1>2

\* What a save of w leaves in the database: the rows of w, and either its
\* clock or the old one, in which case no row has changed.
SavedAs(s, w, interval) ==
    /\ s \in [seconds : Nat, offset : 0 .. Turn - 1, deadlines : [Timers -> Nat], row : Nat]
    /\ s.deadlines = Deadlines(w) /\ s.row = w.row /\ s.offset = stored.offset
    /\ \/ s.seconds = w.seconds
       \/ /\ s.seconds = stored.seconds /\ Deadlines(w) = stored.deadlines
          /\ w.row = stored.row
          /\ interval > 0 => w.seconds - stored.seconds < interval
    /\ Accepts(s)

\* What a save leaves in each row, whichever baseline it diffs against.
LEMMA SavedRows ==
    ASSUME ClockInv, NEW w \in World, PhaseOffset(w) = stored.offset,
           NEW trusted \in BOOLEAN, NEW interval \in Nat,
           NEW s, s = Saved(Base(trusted), w, stored, interval)
    PROVE SavedAs(s, w, interval)
<1>1. Deadlines(Base(trusted)) = stored.deadlines /\ Base(trusted).row = stored.row
  BY BaseMatches DEF Matches
<1>t. /\ w.seconds \in Nat /\ w.row \in Nat /\ stored.seconds \in Nat
      /\ stored.offset \in 0 .. Turn - 1 /\ stored.row \in Nat
  BY DEF ClockInv, TypeOK, World
<1>2. \A t \in Timers : Deadline(Base(trusted), t) = stored.deadlines[t]
  BY <1>1 DEF Deadlines
<1>3. s.deadlines = Deadlines(w)
  <2>1. s.deadlines = [t \in Timers |-> IF Deadline(w, t) # Deadline(Base(trusted), t)
                                          THEN Deadline(w, t) ELSE stored.deadlines[t]]
    BY DEF Saved
  <2> QED BY <1>2, <2>1 DEF Deadlines
<1>4. s.row = w.row /\ s.offset = stored.offset
  BY <1>1 DEF Saved
<1>6. \/ s.seconds = w.seconds
      \/ /\ s.seconds = stored.seconds /\ Deadlines(w) = stored.deadlines
         /\ w.row = stored.row
         /\ interval > 0 => w.seconds - stored.seconds < interval
  BY <1>1, <1>t DEF Saved, ClockWritten
<1>7. Deadlines(w) \in [Timers -> Nat]
  BY DeadlineValue DEF Deadlines
<1>8. s \in [seconds : Nat, offset : 0 .. Turn - 1, deadlines : [Timers -> Nat], row : Nat]
  <2>1. s = [deadlines |-> s.deadlines, row |-> s.row, seconds |-> s.seconds, offset |-> s.offset]
    BY DEF Saved
  <2> QED BY <1>t, <1>3, <1>4, <1>6, <1>7, <2>1
<1>9. Accepts(s)
  <2>1. CASE s.seconds = w.seconds
    BY <1>3, <1>t, <2>1, DeadlineValue DEF Accepts, Deadlines
  <2>2. CASE s.seconds = stored.seconds /\ Deadlines(w) = stored.deadlines
    BY <1>3, <2>2 DEF Accepts, ClockInv, LoadAccepts
  <2> QED BY <1>6, <2>1, <2>2
<1> QED BY <1>3, <1>4, <1>6, <1>8, <1>9 DEF SavedAs

\* A commit keeps the invariant, however it ends.
LEMMA CommitInv ==
    ASSUME ClockInv, NEW w \in World, PhaseOffset(w) = PhaseOffset(world),
           w.seconds \in {world.seconds, world.seconds + 1},
           NEW trusted \in BOOLEAN, NEW interval \in {1, Interval}, Commit(w, trusted, interval)
    PROVE ClockInv'
<1>s. PICK s : s = Saved(Base(trusted), w, stored, interval)
  OBVIOUS
<1>t. /\ w.seconds \in Nat /\ world.seconds \in Nat /\ stored.seconds \in Nat
      /\ Interval \in Nat /\ interval \in Nat /\ world \in World
  BY ConstantsAssumption DEF ClockInv, TypeOK, World
<1>o. PhaseOffset(w) = stored.offset /\ PhaseOffset(world) = stored.offset
  BY DEF ClockInv
<1>0. SavedAs(s, w, interval)
  BY <1>s, <1>t, <1>o, SavedRows
<1>1. /\ s \in [seconds : Nat, offset : 0 .. Turn - 1, deadlines : [Timers -> Nat], row : Nat]
      /\ s.deadlines = Deadlines(w) /\ s.row = w.row /\ s.offset = stored.offset
      /\ \/ s.seconds = w.seconds
         \/ /\ s.seconds = stored.seconds
            /\ interval > 0 => w.seconds - stored.seconds < interval
      /\ Accepts(s)
  BY <1>0 DEF SavedAs
<1>2. CASE stored' = s /\ world' = w /\ durable' \in {w, NoBaseline} /\ doubt' = FALSE
  <2>1. TypeOK' /\ LoadAccepts'
    BY <1>1, <1>2 DEF TypeOK, LoadAccepts
  <2>2. Matches(world)' /\ (PhaseOffset(world) = stored.offset)'
    BY <1>1, <1>2, <1>o DEF Matches
  <2>3. (world.seconds - stored.seconds >= -1)' /\ IdleLossBounded'
    <3>1. world.seconds - stored.seconds >= -1
      BY DEF ClockInv
    <3> QED BY <1>1, <1>2, <1>t, <3>1 DEF IdleLossBounded
  <2>4. (durable # NoBaseline => durable = world /\ ~doubt)'
    BY <1>2
  <2> QED BY <2>1, <2>2, <2>3, <2>4 DEF ClockInv
<1>3. CASE /\ stored' \in {stored, s} /\ durable' = NoBaseline
           /\ doubt' = (doubt \/ stored' # stored) /\ world' = world
  <2>1. stored' = s \/ stored' = stored
    BY <1>3
  <2>2. doubt' \in BOOLEAN /\ (~doubt' => ~doubt /\ stored' = stored)
    BY <1>3, Zenon
  <2>3. TypeOK' /\ LoadAccepts'
    BY <1>1, <1>3, <2>1, <2>2 DEF TypeOK, LoadAccepts, ClockInv
  <2>4. (~doubt => Matches(world))'
    BY <1>3, <2>2 DEF Matches, Deadlines, Deadline, ClockInv
  <2>5. (PhaseOffset(world) = stored.offset)'
    BY <1>1, <1>3, <1>o
  <2>6. (world.seconds - stored.seconds >= -1)' /\ IdleLossBounded'
    <3>1. world.seconds - stored.seconds >= -1 /\ IdleLossBounded
      BY DEF ClockInv
    <3>2. stored'.seconds \in {stored.seconds, w.seconds}
      BY <1>1, <2>1
    <3> QED BY <1>3, <1>t, <3>1, <3>2 DEF IdleLossBounded
  <2> QED BY <1>3, <2>3, <2>4, <2>5, <2>6 DEF ClockInv
<1>4. \/ /\ stored' = s /\ world' = w /\ durable' \in {w, NoBaseline} /\ doubt' = FALSE
      \/ /\ stored' \in {stored, s} /\ durable' = NoBaseline
         /\ doubt' = (doubt \/ stored' # stored) /\ world' = world
  BY <1>s DEF Commit
<1> QED BY <1>2, <1>3, <1>4

\* A fresh database satisfies the invariant.
LEMMA InitInv == Init => ClockInv
<1> SUFFICES ASSUME Init PROVE ClockInv
  OBVIOUS
<1>1. /\ stored \in [seconds : Nat, offset : 0 .. Turn - 1, deadlines : [Timers -> Nat], row : Nat]
      /\ LoadAccepts
  BY ConstantsAssumption DEF Init, LoadAccepts, Accepts, Null
<1>2. TypeOK
  <2>1. Load(stored) \in World
    <3>1. PICK second \in StartSeconds, offset \in StartOffsets :
            stored = [seconds |-> second, offset |-> offset,
                      deadlines |-> [t \in Timers |-> Null], row |-> 0]
      BY DEF Init
    <3>4. second \in Nat /\ offset \in 0 .. 29
      BY ConstantsAssumption DEF Turn
    <3>2. (second + offset) % 30 \in 0 .. 29
      BY <3>4, OffsetLoaded
    <3>3. 0 \in 0 .. Maximum
      BY ConstantsAssumption
    <3> QED BY <3>1, <3>2, <3>3, <3>4 DEF Load, World, Turn, Null
  <2> QED BY <1>1, <2>1 DEF Init, TypeOK
<1>3. /\ world = Load(stored) /\ durable = NoBaseline /\ doubt = FALSE
  BY DEF Init
<1>4. world.seconds = stored.seconds /\ Matches(world) /\ PhaseOffset(world) = stored.offset
  BY <1>1, <1>2, <1>3, LoadType
<1>5. world.seconds - stored.seconds >= -1 /\ IdleLossBounded
  BY <1>1, <1>4, ConstantsAssumption DEF IdleLossBounded
<1> QED BY <1>1, <1>2, <1>3, <1>4, <1>5 DEF ClockInv

\* A heartbeat leaves a world, one second on, with the same phase offset.
LEMMA BeatType ==
    ASSUME NEW w \in World, NEW held, NEW started, NEW length \in 1 .. Maximum,
           NEW b, b = Beat(w, held, started, length)
    PROVE b \in World /\ b.seconds = w.seconds + 1 /\ PhaseOffset(b) = PhaseOffset(w)
<1>t. /\ w.seconds \in Nat /\ w.phase \in 0 .. 29 /\ w.row \in Nat /\ Maximum \in Nat
      /\ \A t \in Timers : w.timers[t] \in 0 .. Maximum
  BY ConstantsAssumption DEF World, Turn
<1>1. b.seconds = w.seconds + 1 /\ b.phase = (w.phase + 1) % 30 /\ b.row = w.row
  BY DEF Beat, World, Turn
<1>2. b.timers = [t \in Timers |-> IF t \in started THEN length
                      ELSE IF t \in held \/ w.timers[t] = 0 THEN w.timers[t]
                                                           ELSE w.timers[t] - 1]
  BY DEF Beat, World
<1>3. b.timers \in [Timers -> 0 .. Maximum]
  <2>1. ASSUME NEW t \in Timers PROVE b.timers[t] \in 0 .. Maximum
    BY <1>t, <1>2
  <2> QED BY <1>2, <2>1
<1>4. b.phase \in 0 .. 29 /\ PhaseOffset(b) = PhaseOffset(w)
  BY <1>t, <1>1, OffsetKept DEF PhaseOffset, Turn
<1>5. b = [seconds |-> b.seconds, phase |-> b.phase, timers |-> b.timers, row |-> b.row]
  BY DEF Beat, World
<1>6. b \in World
  BY <1>t, <1>1, <1>3, <1>4, <1>5 DEF World, Turn
<1> QED BY <1>1, <1>4, <1>6

\* Every step keeps the invariant.
LEMMA NextInv == ClockInv /\ [Next]_vars => ClockInv'
<1> SUFFICES ASSUME ClockInv, [Next]_vars PROVE ClockInv'
  OBVIOUS
<1>t. world \in World /\ world.seconds \in Nat
  BY DEF ClockInv, TypeOK, World
<1>1. CASE Heartbeat
  <2>1. PICK held \in SUBSET Timers, started \in SUBSET Timers, length \in 1 .. Maximum :
           Commit(Beat(world, held, started, length), TRUE, Interval)
    BY <1>1 DEF Heartbeat
  <2>2. PICK b : b = Beat(world, held, started, length)
    OBVIOUS
  <2>3. b \in World /\ b.seconds = world.seconds + 1 /\ PhaseOffset(b) = PhaseOffset(world)
    BY <1>t, <2>2, BeatType
  <2> QED BY <2>1, <2>2, <2>3, CommitInv
<1>2. ASSUME NEW t \in Timers, NEW length \in 0 .. Maximum, SetTimer(t, length) PROVE ClockInv'
  <2> DEFINE w == [world EXCEPT !.timers[t] = length]
  <2>1. w \in World /\ w.seconds = world.seconds /\ PhaseOffset(w) = PhaseOffset(world)
    BY <1>t DEF World, PhaseOffset
  <2>2. Commit(w, TRUE, Interval)
    BY <1>2 DEF SetTimer
  <2> QED BY <2>1, <2>2, CommitInv
<1>3. ASSUME NEW value \in {0, 1}, NEW trusted \in BOOLEAN, SetRow(value, trusted) PROVE ClockInv'
  <2> DEFINE w == [world EXCEPT !.row = value]
  <2>1. w \in World /\ w.seconds = world.seconds /\ PhaseOffset(w) = PhaseOffset(world)
    BY <1>t DEF World, PhaseOffset
  <2>2. Commit(w, trusted, IF trusted THEN Interval ELSE 1)
    BY <1>3 DEF SetRow
  <2> QED BY <2>1, <2>2, CommitInv
<1>4. CASE SaveSnapshot
  BY <1>4, <1>t, CommitInv DEF SaveSnapshot
<1>5. CASE Restart
  <2>1. /\ world' = Load(stored) /\ durable' = NoBaseline /\ doubt' = FALSE /\ stored' = stored
        /\ TypeOK /\ LoadAccepts
    BY <1>5 DEF Restart, ClockInv
  <2>2. /\ world' \in World /\ world'.seconds = stored.seconds
        /\ PhaseOffset(world') = stored.offset /\ Matches(Load(stored))
    BY <2>1, LoadType
  <2>3. TypeOK' /\ LoadAccepts' /\ Matches(world)'
    BY <2>1, <2>2 DEF TypeOK, LoadAccepts, Matches
  <2>4. (world.seconds - stored.seconds >= -1)' /\ IdleLossBounded'
    BY <2>1, <2>2, ConstantsAssumption DEF IdleLossBounded, TypeOK
  <2> QED BY <2>1, <2>2, <2>3, <2>4 DEF ClockInv
<1>6. CASE UNCHANGED vars
  BY <1>6 DEF vars, ClockInv, TypeOK, LoadAccepts, Matches, Deadlines, Deadline, PhaseOffset,
              IdleLossBounded
<1> QED BY <1>1, <1>2, <1>3, <1>4, <1>5, <1>6 DEF Next

\* The inductive invariant holds in every reachable state.
LEMMA Invariance == Spec => []ClockInv
BY InitInv, NextInv, PTL DEF Spec

-----------------------------------------------------------------------------
\* A start never refuses the deadlines that btech saves have left.
THEOREM StoredDeadlinesLoad == Spec => []LoadAccepts
<1>1. ClockInv => LoadAccepts
  BY DEF ClockInv
<1> QED BY <1>1, Invariance, PTL

\* World, stored row and counters stay well-formed: in particular no countdown,
\* no stored deadline and no phase leaves its range.
THEOREM TypeCorrect == Spec => []TypeOK
<1>1. ClockInv => TypeOK
  BY DEF ClockInv
<1> QED BY <1>1, Invariance, PTL

\* A crash loses less than the configured interval of simulation time.
THEOREM IdleLoss == Spec => []IdleLossBounded
<1>1. ClockInv => IdleLossBounded
  BY DEF ClockInv
<1> QED BY <1>1, Invariance, PTL

\* What a start restores is the live world as of the stored second.
THEOREM RestoredExactly == Spec => []RestoresStoredSecond
<1>1. ASSUME ClockInv PROVE RestoresStoredSecond
  <2> SUFFICES ASSUME ~doubt
               PROVE LET lag == world.seconds - stored.seconds
                     IN /\ lag >= -1
                        /\ Load(stored).phase = (world.phase - lag) % Turn
                        /\ \A t \in Timers : Load(stored).timers[t] =
                               IF world.timers[t] = 0 THEN 0 ELSE world.timers[t] + lag
                        /\ stored.row = world.row
    BY DEF RestoresStoredSecond
  <2>t. /\ world \in World /\ world.seconds \in Nat /\ world.phase \in 0 .. 29
        /\ stored.seconds \in Nat /\ Matches(world) /\ world.seconds - stored.seconds >= -1
    BY <1>1 DEF ClockInv, TypeOK, World, Turn
  <2>1. Load(stored).phase = (stored.seconds + ((world.phase - world.seconds) % 30)) % 30
    BY <1>1 DEF ClockInv, Load, PhaseOffset, Turn
  <2>2. Load(stored).phase = (world.phase - (world.seconds - stored.seconds)) % Turn
    BY <2>t, <2>1, PhaseBefore DEF Turn
  <2>3. ASSUME NEW t \in Timers
        PROVE Load(stored).timers[t] = IF world.timers[t] = 0 THEN 0
                  ELSE world.timers[t] + (world.seconds - stored.seconds)
    <3>1. stored.deadlines[t] = Deadline(world, t)
      BY <2>t DEF Matches, Deadlines
    <3>2. Load(stored).timers[t] = IF stored.deadlines[t] = Null THEN 0
                                   ELSE stored.deadlines[t] - stored.seconds
      BY DEF Load
    <3>3. world.timers[t] \in Nat
      BY <2>t, DeadlineValue, ConstantsAssumption
    <3>4. CASE world.timers[t] = 0
      BY <3>1, <3>2, <3>4 DEF Deadline
    <3>5. CASE world.timers[t] # 0
      BY <2>t, <3>1, <3>2, <3>3, <3>5 DEF Deadline, Null
    <3> QED BY <3>4, <3>5
  <2> QED BY <2>t, <2>2, <2>3 DEF Matches
<1> QED BY <1>1, Invariance, PTL

\* A world with the stored rows and phase offset, whose clock is not due, is
\* saved without a write.
LEMMA NothingToSave ==
    ASSUME ClockInv, NEW w \in World, Matches(w), PhaseOffset(w) = stored.offset,
           Interval > 0 => w.seconds - stored.seconds < Interval, NEW trusted \in BOOLEAN
    PROVE Saved(Base(trusted), w, stored, Interval) = stored
<1>t. /\ w.seconds \in Nat /\ stored.seconds \in Nat /\ Interval \in Nat
      /\ stored = [deadlines |-> stored.deadlines, row |-> stored.row,
                   seconds |-> stored.seconds, offset |-> stored.offset]
      /\ stored.deadlines = [t \in Timers |-> stored.deadlines[t]]
  BY ConstantsAssumption DEF ClockInv, TypeOK, World
<1>1. Deadlines(Base(trusted)) = stored.deadlines /\ Base(trusted).row = stored.row
  BY BaseMatches DEF Matches
<1>2. ~ClockWritten(Base(trusted), w, stored, Interval)
  BY <1>1, <1>t DEF ClockWritten, Matches
<1>3. \A t \in Timers : Deadline(w, t) = stored.deadlines[t]
  BY DEF Matches, Deadlines
<1>4. [t \in Timers |-> IF Deadline(w, t) # Deadline(Base(trusted), t)
                          THEN Deadline(w, t) ELSE stored.deadlines[t]] = stored.deadlines
  BY <1>3, <1>t
<1> QED BY <1>1, <1>2, <1>4, <1>t DEF Saved, Matches

\* A heartbeat in which every timer just runs on writes nothing.
THEOREM QuietBeats == Spec => QuietBeatsDoNotWrite
<1>1. ASSUME ClockInv, ClockInv', [Next]_vars, ~doubt,
             world'.seconds = world.seconds + 1, world'.row = world.row,
             \A t \in Timers : IF world.timers[t] = 0 THEN world'.timers[t] = 0
                               ELSE world'.timers[t] > 0 /\ world'.timers[t] = world.timers[t] - 1,
             Interval > 0 => world'.seconds - stored.seconds < Interval
      PROVE stored' = stored
  <2>t. /\ world \in World /\ world.seconds \in Nat /\ Matches(world)
        /\ world' \in World /\ PhaseOffset(world) = stored.offset
    BY <1>1 DEF ClockInv, TypeOK, World
  <2>1. PICK w : w = world'
    OBVIOUS
  <2>2. Matches(w)
    <3>1. ASSUME NEW t \in Timers PROVE Deadline(w, t) = Deadline(world, t)
      <4>1. world.timers[t] \in Nat /\ w.timers[t] \in Nat
        BY <2>t, <2>1, DeadlineValue, ConstantsAssumption
      <4>2. CASE world.timers[t] = 0
        BY <1>1, <2>1, <4>2 DEF Deadline
      <4>3. CASE world.timers[t] # 0
        <5>1. w.timers[t] = world.timers[t] - 1 /\ w.timers[t] # 0
          BY <1>1, <2>1, <4>1, <4>3
        <5>2. w.seconds + w.timers[t] = world.seconds + world.timers[t]
          BY <1>1, <2>1, <2>t, <4>1, <5>1
        <5> QED BY <4>3, <5>1, <5>2 DEF Deadline
      <4> QED BY <4>2, <4>3
    <3> QED BY <1>1, <2>1, <2>t, <3>1 DEF Matches, Deadlines
  <2>3. ASSUME NEW x, NEW trusted, NEW interval, Commit(x, trusted, interval)
        PROVE (x = w /\ stored' = Saved(Base(trusted), w, stored, interval)) \/ world' = world
    BY <2>1, <2>3 DEF Commit
  <2>4. world' # world
    BY <1>1, <2>t
  <2>5. CASE Heartbeat
    <3>1. PICK held \in SUBSET Timers, started \in SUBSET Timers, length \in 1 .. Maximum :
             Commit(Beat(world, held, started, length), TRUE, Interval)
      BY <2>5 DEF Heartbeat
    <3>2. PICK b : b = Beat(world, held, started, length)
      OBVIOUS
    <3>3. b = w /\ stored' = Saved(Base(TRUE), w, stored, Interval)
      BY <2>3, <2>4, <3>1, <3>2
    <3>4. PhaseOffset(w) = stored.offset
      <4>1. b \in World /\ b.seconds = world.seconds + 1 /\ PhaseOffset(b) = PhaseOffset(world)
        BY <2>t, <3>2, BeatType
      <4> QED BY <2>t, <3>3, <4>1
    <3> QED BY <1>1, <2>1, <2>2, <2>t, <3>3, <3>4, NothingToSave
  <2>6. ASSUME NEW t \in Timers, NEW length \in 0 .. Maximum, SetTimer(t, length) PROVE FALSE
    <3>1. PICK x : x = [world EXCEPT !.timers[t] = length]
      OBVIOUS
    <3>2. world' = x
      BY <2>1, <2>3, <2>4, <2>6, <3>1 DEF SetTimer
    <3> QED BY <1>1, <2>t, <3>1, <3>2 DEF World
  <2>7. ASSUME NEW value, NEW trusted, SetRow(value, trusted) PROVE FALSE
    <3>1. PICK x : x = [world EXCEPT !.row = value]
      OBVIOUS
    <3>2. world' = x
      <4>1. Commit(x, trusted, IF trusted THEN Interval ELSE 1)
        BY <2>7, <3>1 DEF SetRow
      <4>2. PICK i : i = IF trusted THEN Interval ELSE 1
        OBVIOUS
      <4> QED BY <2>1, <2>3, <2>4, <4>1, <4>2
    <3> QED BY <1>1, <2>t, <3>1, <3>2 DEF World
  <2>8. ~SaveSnapshot
    BY <2>4 DEF SaveSnapshot, Commit
  <2>9. Restart \/ UNCHANGED vars => stored' = stored
    BY DEF Restart, vars
  <2> QED BY <1>1, <2>5, <2>6, <2>7, <2>8, <2>9 DEF Next
<1>2. ClockInv /\ ClockInv' /\ [Next]_vars =>
        [/\ ~doubt
         /\ world'.seconds = world.seconds + 1 /\ world'.row = world.row
         /\ \A t \in Timers : IF world.timers[t] = 0 THEN world'.timers[t] = 0
                              ELSE world'.timers[t] > 0 /\ world'.timers[t] = world.timers[t] - 1
         /\ Interval > 0 => world'.seconds - stored.seconds < Interval
         => stored' = stored]_vars
  BY <1>1
<1> QED BY <1>2, Invariance, PTL DEF Spec, QuietBeatsDoNotWrite
=============================================================================
