-------------------------- MODULE SimulationClock --------------------------
(***************************************************************************)
(* Simulation time and the countdowns that are stored as deadlines on it.   *)
(*                                                                          *)
(* Every heartbeat advances the simulation second and the turn phase and    *)
(* counts the running timers down.  Timers are stored as the second at      *)
(* which they end, so a timer that runs in step with the clock leaves its   *)
(* row alone; the clock row is written with any other change, and alone     *)
(* only when it has fallen an interval behind.  A start subtracts the       *)
(* stored second from every deadline and refuses one that is out of range.  *)
(*                                                                          *)
(* A handler and its commit are one step here: WorldCommit has the          *)
(* interleavings.  The failures a commit can end in are kept.               *)
(***************************************************************************)
EXTENDS Integers

CONSTANTS
    Timers,       \* countdowns of the world
    Maximum,      \* the longest countdown, as the loader knows it
    Interval,     \* database.clock_save_interval; zero never stores it alone
    StartSeconds, \* simulation seconds a database may begin with
    StartOffsets, \* phase offsets a database may begin with
    NoBaseline,   \* durable = None
    MaxSeconds    \* bound on the simulation seconds that pass

\* Length of one turn, in seconds.
Turn == 30

Null == 0   \* no deadline; a real one is at least second 1

World == [seconds : Nat, phase : 0 .. Turn - 1, timers : [Timers -> 0 .. Maximum], row : Nat]

ASSUME ConstantsAssumption ==
    /\ Maximum \in Nat \ {0} /\ Interval \in Nat /\ MaxSeconds \in Nat
    /\ StartSeconds \subseteq Nat /\ StartOffsets \subseteq 0 .. Turn - 1

ASSUME BaselineAssumption == NoBaseline \notin World

VARIABLES
    world,    \* the live world: clock, timers and one row that stands for the rest
    stored,   \* the rows of the database
    durable,  \* Server::durable, the baseline of the next diff
    doubt     \* history: a failed write may be in the database after all

vars == <<world, stored, durable, doubt>>

-----------------------------------------------------------------------------
(* What is stored for a world, and what a start makes of it. *)

\* Mutant: the phase itself is stored.
PhaseAlone(w) == w.phase

\* phase_offset
PhaseOffset(w) == (w.phase - w.seconds) % Turn

\* Mutant: the countdown itself is stored.
Remaining(w, t) == w.timers[t]

\* Clock::optional_deadline
Deadline(w, t) == IF w.timers[t] = 0 THEN Null ELSE w.seconds + w.timers[t]

Deadlines(w) == [t \in Timers |-> Deadline(w, t)]

\* Clock::optional_remaining refuses a deadline outside its window.
Accepts(s) ==
    \A t \in Timers : s.deadlines[t] # Null => s.deadlines[t] - s.seconds \in 1 .. Maximum

\* load::read
Load(s) ==
    [seconds |-> s.seconds,
     phase |-> (s.seconds + s.offset) % Turn,
     timers |-> [t \in Timers |-> IF s.deadlines[t] = Null THEN 0
                                                           ELSE s.deadlines[t] - s.seconds],
     row |-> s.row]

-----------------------------------------------------------------------------
(* Saving world w over the stored rows s, as a diff against base. *)

\* Mutant: the clock row waits for its interval, whatever else is written.
ClockWaits(base, w, s, interval) ==
    \/ s.offset # PhaseOffset(w)
    \/ interval > 0 /\ w.seconds - s.seconds >= interval

\* Mutant: one second late.
ClockLate(base, w, s, interval) ==
    \/ Deadlines(w) # Deadlines(base) \/ w.row # base.row
    \/ s.offset # PhaseOffset(w)
    \/ interval > 0 /\ w.seconds - s.seconds > interval

\* btech_turn_clock::save: whether the clock row is written.
ClockWritten(base, w, s, interval) ==
    \/ Deadlines(w) # Deadlines(base) \/ w.row # base.row
    \/ s.offset # PhaseOffset(w)
    \/ interval > 0 /\ w.seconds - s.seconds >= interval

\* write::apply_changes
Saved(base, w, s, interval) ==
    [deadlines |-> [t \in Timers |-> IF Deadline(w, t) # Deadline(base, t)
                                       THEN Deadline(w, t) ELSE s.deadlines[t]],
     row |-> IF w.row # base.row THEN w.row ELSE s.row,
     seconds |-> IF ClockWritten(base, w, s, interval) THEN w.seconds ELSE s.seconds,
     offset |-> IF ClockWritten(base, w, s, interval) THEN PhaseOffset(w) ELSE s.offset]

\* The baseline of a diff; maintenance and snapshots read the database back.
Base(trusted) == IF trusted /\ durable # NoBaseline THEN durable ELSE Load(stored)

-----------------------------------------------------------------------------
Init ==
    /\ \E second \in StartSeconds, offset \in StartOffsets :
          stored = [seconds |-> second, offset |-> offset,
                    deadlines |-> [t \in Timers |-> Null], row |-> 0]
    /\ world = Load(stored)
    /\ durable = NoBaseline
    /\ doubt = FALSE

\* Server::commit of a handler that leaves the world w.  A write that fails may
\* have been kept; the handler's caller then restores the world all the same.
Commit(w, trusted, interval) ==
    \/ /\ stored' = Saved(Base(trusted), w, stored, interval)
       /\ world' = w
       /\ durable' = IF trusted THEN w ELSE NoBaseline
       /\ doubt' = FALSE
    \/ /\ stored' \in {stored, Saved(Base(trusted), w, stored, interval)}
       /\ durable' = NoBaseline
       /\ doubt' = (doubt \/ stored' # stored)
       /\ UNCHANGED world

\* Mutant: the phase runs past the end of the turn.
BeatPastTurn(w, held, started, length) ==
    [w EXCEPT
        !.seconds = @ + 1,
        !.phase = @ + 1,
        !.timers = [t \in Timers |-> IF t \in started THEN length
                                     ELSE IF t \in held \/ @[t] = 0 THEN @[t] ELSE @[t] - 1]]

\* One second of the simulation: the timers in held are paused, the timers in
\* started are set by an event of this second, the others count down.
Beat(w, held, started, length) ==
    [w EXCEPT
        !.seconds = @ + 1,
        !.phase = (@ + 1) % Turn,
        !.timers = [t \in Timers |-> IF t \in started THEN length
                                     ELSE IF t \in held \/ @[t] = 0 THEN @[t] ELSE @[t] - 1]]

Heartbeat ==
    /\ world.seconds < MaxSeconds
    /\ \E held, started \in SUBSET Timers, length \in 1 .. Maximum :
          Commit(Beat(world, held, started, length), TRUE, Interval)

\* A command or callback sets or ends a timer, or changes anything else.
\* A handler that changes nothing does not save.
SetTimer(t, length) ==
    /\ world.timers[t] # length
    /\ Commit([world EXCEPT !.timers[t] = length], TRUE, Interval)

SetRow(value, trusted) ==
    /\ world.row # value
    /\ Commit([world EXCEPT !.row = value], trusted, IF trusted THEN Interval ELSE 1)

\* A shutdown or an explicit save stores a whole snapshot, clock included.
SaveSnapshot == Commit(world, FALSE, 1)

\* The process stops, or dies, and starts again; offline time does not count.
Restart ==
    /\ Accepts(stored)
    /\ world' = Load(stored)
    /\ durable' = NoBaseline
    /\ doubt' = FALSE
    /\ UNCHANGED stored

Next ==
    \/ Heartbeat
    \/ \E t \in Timers, length \in 0 .. Maximum : SetTimer(t, length)
    \/ \E value \in {0, 1}, trusted \in BOOLEAN : SetRow(value, trusted)
    \/ SaveSnapshot
    \/ Restart

Spec == Init /\ [][Next]_vars

-----------------------------------------------------------------------------
(* Properties. *)

\* Worlds have timers within their maximum and a phase within a turn.
TypeOK ==
    /\ world \in World
    /\ durable \in World \cup {NoBaseline}
    /\ stored \in [seconds : Nat, offset : 0 .. Turn - 1, deadlines : [Timers -> Nat], row : Nat]
    /\ doubt \in BOOLEAN

\* A start never refuses the stored deadlines, although the clock row may be
\* many seconds older than the world and deadlines are diffed against a
\* baseline with another clock.
LoadAccepts == Accepts(stored)

\* What a start would restore is the live world as of the stored second: the
\* clock is behind by some idle seconds, running timers by the same seconds,
\* and nothing else differs.  The stored clock may be one second ahead when a
\* heartbeat's failed write was kept and no row has changed since.
RestoresStoredSecond ==
    ~doubt =>
        LET lag == world.seconds - stored.seconds
        IN /\ lag >= -1
           /\ Load(stored).phase = (world.phase - lag) % Turn
           /\ \A t \in Timers : Load(stored).timers[t] =
                  IF world.timers[t] = 0 THEN 0 ELSE world.timers[t] + lag
           /\ stored.row = world.row

\* "A crash restores the world exactly as of the last stored second, losing at
\* most that much idle time": less than the save interval.
IdleLossBounded == Interval > 0 => world.seconds - stored.seconds < Interval

\* "While a timer counts down in step with the clock its deadline is constant
\* and its row is left alone": a heartbeat in which every running timer just
\* runs on writes nothing before the interval is over.
QuietBeatsDoNotWrite ==
    [][/\ ~doubt
       /\ world'.seconds = world.seconds + 1 /\ world'.row = world.row
       /\ \A t \in Timers : IF world.timers[t] = 0 THEN world'.timers[t] = 0
                            ELSE world'.timers[t] > 0 /\ world'.timers[t] = world.timers[t] - 1
       /\ Interval > 0 => world'.seconds - stored.seconds < Interval
       => stored' = stored]_vars
=============================================================================
