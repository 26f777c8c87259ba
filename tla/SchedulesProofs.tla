--------------------------- MODULE SchedulesProofs ---------------------------
(***************************************************************************)
(* Proofs about the schedule queue, for any schedules, objects, length of a *)
(* minute and jitter, and however the clock is set.                         *)
(***************************************************************************)
EXTENDS Schedules, TLAPS

-----------------------------------------------------------------------------
(* Minutes and seconds.                                                     *)

\* Multiplication by the length of a minute keeps the order.
LEMMA TimesMonotone ==
    ASSUME NEW x \in Nat, NEW y \in Nat, NEW d \in Nat, y = x + d, NEW b \in Nat
    PROVE x * b <= y * b
<1>1. y * b = x * b + d * b
  OBVIOUS
<1>2. d * b \in Nat /\ x * b \in Nat
  OBVIOUS
<1> QED BY <1>1, <1>2

\* A minute ends before a later one begins.
LEMMA MinutesApart ==
    ASSUME NEW h \in Nat, NEW m \in Nat, h < m
    PROVE (h + 1) * MinuteSeconds <= m * MinuteSeconds
<1>1. m - (h + 1) \in Nat /\ m = (h + 1) + (m - (h + 1)) /\ h + 1 \in Nat
  OBVIOUS
<1> QED BY <1>1, TimesMonotone, SchedulesAssumption

\* A second lies in its minute.
LEMMA MinuteBounds ==
    ASSUME NEW t \in Nat
    PROVE /\ Minute(t) \in Nat
          /\ Minute(t) * MinuteSeconds <= t
          /\ t < (Minute(t) + 1) * MinuteSeconds
BY SchedulesAssumption DEF Minute

\* A second lies in no other minute.
LEMMA MinuteUnique ==
    ASSUME NEW t \in Nat, NEW m \in Nat,
           m * MinuteSeconds <= t, t < (m + 1) * MinuteSeconds
    PROVE Minute(t) = m
<1> DEFINE n == Minute(t)
<1>1. /\ n \in Nat /\ MinuteSeconds \in Nat
      /\ n * MinuteSeconds <= t /\ t < (n + 1) * MinuteSeconds
  BY MinuteBounds, SchedulesAssumption
<1> HIDE DEF n
<1>2. n < m => (n + 1) * MinuteSeconds <= m * MinuteSeconds
  BY <1>1, MinutesApart
<1>3. m < n => (m + 1) * MinuteSeconds <= n * MinuteSeconds
  BY <1>1, MinutesApart
<1>4. /\ n * MinuteSeconds \in Nat /\ m * MinuteSeconds \in Nat
      /\ (n + 1) * MinuteSeconds \in Nat /\ (m + 1) * MinuteSeconds \in Nat
  BY <1>1
<1>5. n = m
  BY <1>1, <1>2, <1>3, <1>4
<1> QED BY <1>5 DEF n

\* The minutes of the clock.
LEMMA MinutesOfClock ==
    ASSUME NEW t \in 0 .. MaxTime
    PROVE Minute(t) \in Minutes
<1>1. MaxTime \in Nat
  BY SchedulesAssumption
<1>2. /\ Minute(t) \in Nat /\ Minute(MaxTime) \in Nat
      /\ Minute(t) * MinuteSeconds <= t
      /\ MaxTime < (Minute(MaxTime) + 1) * MinuteSeconds
  BY <1>1, MinuteBounds
<1>3. Minute(MaxTime) < Minute(t) =>
        (Minute(MaxTime) + 1) * MinuteSeconds <= Minute(t) * MinuteSeconds
  BY <1>2, MinutesApart
<1>4. /\ Minute(t) * MinuteSeconds \in Nat
      /\ (Minute(MaxTime) + 1) * MinuteSeconds \in Nat
  BY <1>2, SchedulesAssumption
<1>5. ~(Minute(MaxTime) < Minute(t))
  BY <1>1, <1>2, <1>3, <1>4
<1> QED BY <1>2, <1>5 DEF Minutes

-----------------------------------------------------------------------------
(***************************************************************************)
(* The inductive invariant.  A queued job has not run in its minute and is   *)
(* the only one of its schedule and target, and nothing has run in a minute *)
(* that was not observed yet: so the job that is collected when the         *)
(* high-water mark moves is the first of its minute, and running it leaves  *)
(* no second one behind.                                                    *)
(***************************************************************************)
Jobs == [name : Names, target : Targets, minute : Nat, due : Nat, runtime : Nat]

TypeInv ==
    /\ now \in 0 .. MaxTime
    /\ runtime \in Nat
    /\ catalog \subseteq Names
    /\ highWater \in Nat
    /\ jobs \subseteq Jobs
    /\ runs \in [Names \X Targets -> [Minutes -> Nat]]

\* A job is due in its minute, which is one of the clock's.
DueInMinute ==
    \A j \in jobs : j.minute \in Minutes /\ j.minute * MinuteSeconds <= j.due

\* No queued job has run, and no two are the same.
NotRunYet ==
    /\ \A j \in jobs : runs[<<j.name, j.target>>][j.minute] = 0
    /\ \A j, k \in jobs : j.name = k.name /\ j.target = k.target => j = k

\* Minutes that were not observed yet have seen no run.
FutureIsEmpty ==
    \A k \in Names \X Targets, m \in Minutes : m > highWater => runs[k][m] = 0

IInv == TypeInv /\ JobsAreCurrent /\ DueInMinute /\ NotRunYet /\ FutureIsEmpty


\* The queue after a step that only drops jobs and neither changes the runtime
\* nor moves the high-water mark keeps the invariant.
LEMMA Dropping ==
    ASSUME IInv, jobs' \subseteq jobs,
           now' \in 0 .. MaxTime, UNCHANGED <<runtime, catalog, highWater, runs>>
    PROVE IInv'
<1> USE DEF IInv, TypeInv, JobsAreCurrent, DueInMinute, NotRunYet, FutureIsEmpty
<1>1. TypeInv'
  OBVIOUS
<1>2. JobsAreCurrent'
  OBVIOUS
<1>3. DueInMinute'
  OBVIOUS
<1>4. NotRunYet'
  OBVIOUS
<1>5. FutureIsEmpty'
  OBVIOUS
<1> QED BY <1>1, <1>2, <1>3, <1>4, <1>5 DEF IInv

\* A step that empties the queue and leaves the high-water mark alone keeps the
\* invariant.
LEMMA Clearing ==
    ASSUME IInv, jobs' = {}, runtime' \in Nat, catalog' \subseteq Names,
           UNCHANGED <<now, highWater, runs>>
    PROVE IInv'
<1>1. TypeInv'
  BY DEF IInv, TypeInv
<1>2. JobsAreCurrent' /\ DueInMinute' /\ NotRunYet'
  BY DEF JobsAreCurrent, DueInMinute, NotRunYet
<1>3. FutureIsEmpty'
  BY Zenon, SMT DEF IInv, TypeInv, FutureIsEmpty, Minutes
<1> QED BY <1>1, <1>2, <1>3 DEF IInv

\* A restart keeps the invariant wherever the clock is: the minutes ahead of it
\* count as not run, and the queue is empty.
LEMMA RestartStep ==
    ASSUME IInv, Restart
    PROVE /\ IInv'
          /\ \A k \in Names \X Targets, m \in Minutes : runs'[k][m] <= runs[k][m]
<1>1. /\ now \in 0 .. MaxTime /\ now \in Nat /\ runtime \in Nat
      /\ runs \in [Names \X Targets -> [Minutes -> Nat]]
  BY SchedulesAssumption DEF IInv, TypeInv
<1>2. PICK minute \in Nat : minute = Minute(now)
  BY <1>1, MinuteBounds
<1>3. /\ runtime' = runtime + 1 /\ catalog' \subseteq Names /\ jobs' = {}
      /\ highWater' = minute /\ now' = now
      /\ runs' = [k \in Names \X Targets |->
                    [m \in Minutes |-> IF m <= minute THEN runs[k][m] ELSE 0]]
  BY <1>2 DEF Restart
<1>4. ASSUME NEW k \in Names \X Targets, NEW m \in Minutes
      PROVE /\ runs'[k][m] = IF m <= minute THEN runs[k][m] ELSE 0
            /\ runs[k][m] \in Nat /\ m \in Nat
  <2>1. m \in Nat
    BY SchedulesAssumption, MinuteBounds DEF Minutes
  <2>2. runs'[k] = [n \in Minutes |-> IF n <= minute THEN runs[k][n] ELSE 0]
    BY <1>3
  <2>3. runs[k] \in [Minutes -> Nat]
    BY <1>1
  <2> QED BY <2>1, <2>2, <2>3
<1>5. runs' \in [Names \X Targets -> [Minutes -> Nat]]
  BY <1>1, <1>3
<1>6. TypeInv'
  BY <1>1, <1>3, <1>5 DEF TypeInv
<1>7. JobsAreCurrent' /\ DueInMinute' /\ NotRunYet'
  BY <1>3 DEF JobsAreCurrent, DueInMinute, NotRunYet
<1>8. FutureIsEmpty'
  BY <1>2, <1>3, <1>4 DEF FutureIsEmpty
<1> QED BY <1>4, <1>6, <1>7, <1>8 DEF IInv

\* What Queue::observe collects: jobs of the observed minute and the current
\* runtime, due in that minute, one for each schedule and target.
LEMMA CollectedJobs ==
    ASSUME TypeInv, NEW minute \in Nat,
           NEW jitter \in [Matching(minute) -> 0 .. JitterSeconds - 1],
           NEW j \in Collected(minute, jitter)
    PROVE /\ j \in Jobs
          /\ j.minute = minute /\ j.runtime = runtime
          /\ minute * MinuteSeconds <= j.due
          /\ \A k \in Collected(minute, jitter) :
                j.name = k.name /\ j.target = k.target => j = k
<1> DEFINE M == Matching(minute)
<1>1. M \subseteq Names \X Targets
  BY DEF Matching, Names, Targets, TypeInv
<1>2. minute * MinuteSeconds \in Nat
  BY SchedulesAssumption
<1>3. \A m \in M : jitter[m] \in Nat
  BY SchedulesAssumption
<1> HIDE DEF M
<1>4. PICK m \in M :
        j = [name |-> m[1], target |-> m[2], minute |-> minute,
             due |-> minute * MinuteSeconds + jitter[m], runtime |-> runtime]
  BY DEF Collected, M
<1>5. j.due = minute * MinuteSeconds + jitter[m]
  BY <1>4
<1>6. j.due \in Nat /\ minute * MinuteSeconds <= j.due
  BY <1>2, <1>3, <1>5
<1>7. j \in Jobs
  BY <1>1, <1>4, <1>5, <1>6 DEF Jobs, TypeInv
<1>8. ASSUME NEW k \in Collected(minute, jitter), j.name = k.name, j.target = k.target
      PROVE j = k
  <2>1. PICK n \in M :
        k = [name |-> n[1], target |-> n[2], minute |-> minute,
             due |-> minute * MinuteSeconds + jitter[n], runtime |-> runtime]
    BY DEF Collected, M
  <2>2. m[1] = n[1] /\ m[2] = n[2]
    BY <1>4, <1>8, <2>1
  <2>3. m = n
    BY <1>1, <2>2
  <2> QED BY <1>4, <2>1, <2>3
<1> QED BY <1>4, <1>6, <1>7, <1>8

\* Queue::observe keeps the invariant: when the minute is a new one the jobs of
\* the last have all expired, and nothing has run in it yet.
LEMMA ObserveStep ==
    ASSUME IInv, Observe, UNCHANGED <<now, runtime, catalog, world, runs>>
    PROVE IInv'
<1> DEFINE kept   == {j \in jobs : now < Expires(j)}
           minute == Minute(now)
<1>1. /\ now \in 0 .. MaxTime /\ now \in Nat
      /\ minute \in Minutes /\ minute \in Nat
      /\ minute * MinuteSeconds <= now
  BY MinuteBounds, MinutesOfClock, SchedulesAssumption DEF IInv, TypeInv
<1>2. CASE minute <= highWater
  <2>1. jobs' = kept /\ highWater' = highWater
    BY <1>1, <1>2 DEF Observe, IInv, TypeInv
  <2> QED BY <2>1, <1>1, Dropping
<1>3. CASE ~(minute <= highWater)
  <2>1. highWater \in Nat /\ highWater < minute /\ highWater' = minute
    BY <1>1, <1>3 DEF Observe, IInv, TypeInv
  <2>2. PICK jitter \in [Matching(minute) -> 0 .. JitterSeconds - 1] :
          jobs' = kept \cup Collected(minute, jitter)
    BY <1>3 DEF Observe
  <2>3. kept = {}
    <3> SUFFICES ASSUME NEW j \in jobs, now < Expires(j) PROVE FALSE
      OBVIOUS
    <3>1. Expires(j) = (highWater + 1) * MinuteSeconds
      BY DEF IInv, JobsAreCurrent, Expires
    <3>2. (highWater + 1) * MinuteSeconds <= minute * MinuteSeconds
      BY <2>1, <1>1, MinutesApart
    <3>3. (highWater + 1) * MinuteSeconds \in Nat /\ minute * MinuteSeconds \in Nat
      BY <2>1, <1>1, SchedulesAssumption
    <3> HIDE DEF minute
    <3> QED BY <3>1, <3>2, <3>3, <1>1
  <2> DEFINE C == Collected(minute, jitter)
  <2>4. jobs' = C
    BY <2>2, <2>3
  <2>5. \A j \in C :
          /\ j \in Jobs
          /\ j.minute = minute /\ j.runtime = runtime
          /\ minute * MinuteSeconds <= j.due
          /\ \A k \in C : j.name = k.name /\ j.target = k.target => j = k
    BY <1>1, CollectedJobs DEF IInv
  <2>6. TypeInv' /\ JobsAreCurrent'
    BY <2>1, <2>4, <2>5, <1>1 DEF IInv, TypeInv, JobsAreCurrent
  <2>7. DueInMinute'
    BY <2>4, <2>5, <1>1 DEF DueInMinute
  <2>8. \A k \in Names \X Targets : runs[k][minute] = 0
    BY <1>1, <2>1 DEF IInv, FutureIsEmpty
  <2>9. NotRunYet'
    <3>1. \A j \in C : <<j.name, j.target>> \in Names \X Targets
      BY <2>5 DEF Jobs
    <3>2. \A j \in jobs' : runs'[<<j.name, j.target>>][j.minute] = 0
      BY <2>4, <2>5, <2>8, <3>1
    <3> QED BY <2>4, <2>5, <3>2 DEF NotRunYet
  <2>10. FutureIsEmpty'
    BY <2>1, <1>1 DEF IInv, FutureIsEmpty, Minutes, TypeInv
  <2> QED BY <2>6, <2>7, <2>9, <2>10 DEF IInv
<1> QED BY <1>2, <1>3

\* A job that take_due returns is in its minute: the queue expires as a whole,
\* since all its jobs belong to the minute observed last.
LEMMA TakenInMinute ==
    ASSUME IInv, NEW j \in Front(Unexpired), now >= j.due
    PROVE j \in jobs /\ Minute(now) = j.minute
<1>1. PICK k \in jobs : now < Expires(k)
  BY DEF Front, Unexpired
<1>2. j \in jobs
  BY DEF Front, Unexpired
<1>3. k.minute = j.minute /\ j.minute \in Nat /\ j.due \in Nat
  BY <1>2 DEF IInv, TypeInv, Jobs, JobsAreCurrent
<1>4. now \in Nat /\ now < (j.minute + 1) * MinuteSeconds
  BY <1>1, <1>3, SchedulesAssumption DEF Expires, IInv, TypeInv
<1>5. j.minute * MinuteSeconds <= j.due /\ j.minute * MinuteSeconds \in Nat
  BY <1>2, <1>3, SchedulesAssumption DEF IInv, DueInMinute
<1>6. j.minute * MinuteSeconds <= now
  BY <1>3, <1>4, <1>5
<1> QED BY <1>2, <1>3, <1>4, <1>6, MinuteUnique

\* Counting one run changes no other count.
LEMMA CountOne ==
    ASSUME NEW A, NEW B, NEW f \in [A -> [B -> Nat]], NEW a \in A, NEW b \in B,
           NEW g, g = [f EXCEPT ![a][b] = @ + 1]
    PROVE /\ g \in [A -> [B -> Nat]]
          /\ \A k \in A, m \in B : k # a \/ m # b => g[k][m] = f[k][m]
<1>1. f[a] \in [B -> Nat] /\ f[a][b] + 1 \in Nat
  OBVIOUS
<1>2. [f[a] EXCEPT ![b] = f[a][b] + 1] \in [B -> Nat]
  BY <1>1
<1>3. g = [f EXCEPT ![a] = [f[a] EXCEPT ![b] = f[a][b] + 1]]
  OBVIOUS
<1> QED BY <1>1, <1>2, <1>3

\* Running a job keeps the invariant: it leaves the queue as it is counted, and
\* no other job of the queue is for its schedule and target.
LEMMA RunStep ==
    ASSUME IInv, NEW j \in jobs, jobs' \subseteq jobs \ {j},
           runs' = [runs EXCEPT ![<<j.name, j.target>>][j.minute] = @ + 1],
           UNCHANGED <<now, runtime, catalog, highWater>>
    PROVE IInv'
<1> DEFINE key == <<j.name, j.target>>
<1>1. /\ key \in Names \X Targets /\ j.minute \in Minutes /\ j.minute = highWater
      /\ runs \in [Names \X Targets -> [Minutes -> Nat]]
      /\ highWater \in Nat
  BY DEF IInv, TypeInv, Jobs, DueInMinute, JobsAreCurrent
<1>2. /\ runs' \in [Names \X Targets -> [Minutes -> Nat]]
      /\ \A k \in Names \X Targets, m \in Minutes :
            k # key \/ m # j.minute => runs'[k][m] = runs[k][m]
  <2>1. runs' = [runs EXCEPT ![key][j.minute] = @ + 1]
    OBVIOUS
  <2> DEFINE minute == j.minute
             Keys == Names \X Targets
  <2>2. /\ minute \in Minutes /\ key \in Keys
        /\ runs \in [Keys -> [Minutes -> Nat]]
        /\ runs' = [runs EXCEPT ![key][minute] = @ + 1]
    BY <1>1, <2>1
  <2> HIDE DEF key, minute, Keys
  <2>3. /\ runs' \in [Keys -> [Minutes -> Nat]]
        /\ \A k \in Keys, m \in Minutes :
            k # key \/ m # minute => runs'[k][m] = runs[k][m]
    BY ONLY <2>2, CountOne
  <2> QED BY <2>3 DEF minute, Keys
<1>3. TypeInv'
  BY <1>2 DEF IInv, TypeInv
<1>4. JobsAreCurrent' /\ DueInMinute'
  BY DEF IInv, JobsAreCurrent, DueInMinute
<1>5. NotRunYet'
  <2>1. ASSUME NEW k \in jobs'
        PROVE runs'[<<k.name, k.target>>][k.minute] = 0
    <3>1. k \in jobs /\ k # j
      OBVIOUS
    <3>2. <<k.name, k.target>> \in Names \X Targets /\ k.minute \in Minutes
      BY <3>1 DEF IInv, TypeInv, Jobs, DueInMinute
    <3>3. <<k.name, k.target>> # key
      BY <3>1 DEF IInv, NotRunYet
    <3>4. runs'[<<k.name, k.target>>][k.minute] = runs[<<k.name, k.target>>][k.minute]
      BY <3>2, <3>3, <1>2
    <3> QED BY <3>1, <3>4 DEF IInv, NotRunYet
  <2> QED BY <2>1 DEF IInv, NotRunYet
<1>6. FutureIsEmpty'
  <2> SUFFICES ASSUME NEW k \in Names \X Targets, NEW m \in Minutes, m > highWater
               PROVE runs'[k][m] = 0
    BY DEF FutureIsEmpty
  <2>1. m # j.minute
    BY <1>1 DEF Minutes
  <2> QED BY <2>1, <1>2 DEF IInv, FutureIsEmpty
<1> QED BY <1>3, <1>4, <1>5, <1>6 DEF IInv

-----------------------------------------------------------------------------
(* Theorems.                                                                *)

\* The invariant holds at the start.
LEMMA InitHolds == Init => IInv
<1> SUFFICES ASSUME Init PROVE IInv
  OBVIOUS
<1>1. MaxTime \in Nat /\ now = 0 /\ Minute(now) \in Nat
  BY MinuteBounds, SchedulesAssumption DEF Init
<1>2. TypeInv
  BY <1>1 DEF Init, TypeInv
<1>3. JobsAreCurrent /\ DueInMinute /\ NotRunYet
  BY DEF Init, JobsAreCurrent, DueInMinute, NotRunYet
<1>4. FutureIsEmpty
  BY DEF Init, FutureIsEmpty
<1> QED BY <1>2, <1>3, <1>4 DEF IInv

\* Every step keeps the invariant.
LEMMA StepHolds == IInv /\ [Next]_vars => IInv'
<1> SUFFICES ASSUME IInv, [Next]_vars PROVE IInv'
  OBVIOUS
<1>1. CASE Tick
  BY <1>1, ObserveStep DEF Tick
<1>2. CASE RunDue
  <2>0. now \in 0 .. MaxTime /\ Unexpired \subseteq jobs
    BY DEF IInv, TypeInv, Unexpired
  <2>1. CASE jobs' = Unexpired /\ UNCHANGED <<world, runs>>
    BY <1>2, <2>0, <2>1, Dropping DEF RunDue
  <2>2. ASSUME NEW j \in Front(Unexpired), jobs' = Unexpired \ {j},
               runs' = [runs EXCEPT ![<<j.name, j.target>>][j.minute] = @ + 1]
        PROVE IInv'
    <3>1. j \in jobs
      BY <2>0 DEF Front
    <3> QED BY <1>2, <2>0, <2>2, <3>1, RunStep DEF RunDue
  <2>3. ASSUME NEW j \in Front(Unexpired), jobs' = Unexpired \ {j},
               UNCHANGED <<world, runs>>
        PROVE IInv'
    BY <1>2, <2>0, <2>3, Dropping DEF RunDue
  <2> QED BY <1>2, <2>1, <2>2, <2>3 DEF RunDue
<1>3. CASE Command
  BY <1>3, Dropping DEF Command, IInv, TypeInv
<1>4. CASE Reload
  BY <1>4, Clearing DEF Reload, IInv, TypeInv
<1>5. CASE Restart
  BY <1>5, RestartStep
<1>6. CASE Clock
  BY <1>6, Dropping DEF Clock
<1>7. CASE UNCHANGED vars
  BY <1>7, Dropping DEF vars, IInv, TypeInv
<1> QED BY <1>1, <1>2, <1>3, <1>4, <1>5, <1>6, <1>7 DEF Next

\* So it holds always.
LEMMA Invariance == Spec => []IInv
BY InitHolds, StepHolds, PTL DEF Spec

\* Between two turns every queued job belongs to the runtime in use and to the
\* minute observed last (Server::run_once and Queue::observe), for any schedules.
THEOREM JobsCurrent == Spec => []JobsAreCurrent
<1>1. IInv => JobsAreCurrent
  BY DEF IInv
<1> QED BY <1>1, Invariance, PTL

\* No schedule runs twice for a target in a minute, nor outside its minute,
\* however the clock is set and whenever the runtime is replaced, and none again
\* after a restart in that minute or later; a restart with the clock set back
\* before the minute begins it anew (Queue::observe, Queue::take_due).
THEOREM RunsOnce == Spec => OncePerMinute
<1> DEFINE Once == \A k \in Names \X Targets, m \in Minutes :
        runs'[k][m] > runs[k][m] => runs[k][m] = 0 /\ m = Minute(now)
<1>1. IInv /\ [Next]_vars => [Once]_vars
  <2> SUFFICES ASSUME IInv, Next PROVE Once
    BY DEF vars
  <2>1. \A k \in Names \X Targets, m \in Minutes : runs[k][m] \in Nat
    BY DEF IInv, TypeInv
  <2>2. CASE runs' = runs
    BY <2>1, <2>2
  <2>3. CASE Restart
    <3>1. \A k \in Names \X Targets, m \in Minutes :
              runs'[k][m] <= runs[k][m] /\ runs'[k][m] \in Nat
      BY <2>3, RestartStep DEF IInv, TypeInv
    <3> QED BY <2>1, <3>1
  <2>4. CASE runs' # runs /\ ~Restart
    <3>1. PICK j \in Front(Unexpired) :
            now >= j.due /\ runs' = [runs EXCEPT ![<<j.name, j.target>>][j.minute] = @ + 1]
      BY <2>4 DEF Next, Tick, RunDue, Command, Reload, Clock
    <3>2. j \in jobs /\ Minute(now) = j.minute
      BY <3>1, TakenInMinute
    <3>3. /\ runs \in [Names \X Targets -> [Minutes -> Nat]]
          /\ <<j.name, j.target>> \in Names \X Targets /\ j.minute \in Minutes
          /\ runs[<<j.name, j.target>>][j.minute] = 0
      BY <3>2 DEF IInv, TypeInv, Jobs, DueInMinute, NotRunYet
    <3>4. ASSUME NEW k \in Names \X Targets, NEW m \in Minutes,
                 k # <<j.name, j.target>> \/ m # j.minute
          PROVE ~(runs'[k][m] > runs[k][m])
      <4>1. runs'[k][m] = runs[k][m]
        BY <3>1, <3>3, <3>4
      <4> QED BY <2>1, <4>1
    <3> QED BY <3>2, <3>3, <3>4
  <2> QED BY <2>2, <2>3, <2>4
<1>2. [][Once]_vars <=> OncePerMinute
  BY DEF OncePerMinute
<1> QED BY <1>1, <1>2, Invariance, PTL DEF Spec
=============================================================================
