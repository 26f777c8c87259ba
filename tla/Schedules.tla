------------------------------ MODULE Schedules ------------------------------
(***************************************************************************)
(* Cron schedules of Lua modules (lua/schedules/mod.rs) as the owner's main  *)
(* loop runs them (server/runtime.rs, server/maintenance.rs).  Once per      *)
(* minute of the wall clock the loop collects the jobs of that minute; each  *)
(* runs in a turn of its own between its due second and the end of the       *)
(* minute.  Between the two the clock may be set, objects may be destroyed,  *)
(* the Lua runtime may be replaced and the process may restart.              *)
(*                                                                           *)
(* A cron expression is the set of minutes it matches; the jitter is left    *)
(* open, as is the order of jobs due in the same second.  Object numbers are *)
(* never given out twice (World::create) and jobs are collected between      *)
(* transactions, so the code's generation check never differs from the       *)
(* check of the object.                                                      *)
(***************************************************************************)
EXTENDS Naturals

CONSTANTS
    Objects,        \* object numbers
    Nobody,         \* the target of a global schedule
    Globals,        \* names of schedules of global modules
    Attached,       \* names of schedules of the object module
    Cron,           \* the minutes in which each name matches
    MinuteSeconds,  \* 60
    JitterSeconds,  \* 55
    MaxTime,        \* last second of the wall clock
    MaxRuntimes     \* Lua runtimes, one per start and successful reload

Names == Globals \cup Attached
Minute(t) == t \div MinuteSeconds
Minutes == 0 .. Minute(MaxTime)

ASSUME SchedulesAssumption ==
    /\ Nobody \notin Objects
    /\ Globals \cap Attached = {}
    /\ MinuteSeconds \in Nat \ {0}
    /\ JitterSeconds \in 1 .. MinuteSeconds
    /\ {MaxTime, MaxRuntimes} \subseteq Nat
    /\ Cron \in [Names -> SUBSET Minutes]

VARIABLES
    now,         \* the wall clock, in seconds
    runtime,     \* Server::scripts, by its number
    catalog,     \* names the runtime declares: Scripts::schedules
    world,       \* each object: its state, and whether it has the module as parent
    highWater,   \* Queue::high_water
    jobs,        \* Queue::jobs
    runs         \* history: how often each job ran in each minute, since the last
                 \* start of the process at which that minute lay ahead

vars == <<now, runtime, catalog, world, highWater, jobs, runs>>

Targets == Objects \cup {Nobody}

Expires(job) == (job.minute + 1) * MinuteSeconds

-----------------------------------------------------------------------------
(* The queue.                                                               *)

\* The name and target of every schedule that matches in a minute: the global
\* ones, and the object module's for each live object that has it as parent.
Matching(minute) ==
    LET active == {n \in catalog : minute \in Cron[n]}
        live   == {o \in Objects : world[o].state = "live" /\ world[o].attached}
    IN  ((active \cap Globals) \X {Nobody}) \cup ((active \cap Attached) \X live)

\* The jobs of a minute, each with its jitter.
Collected(minute, jitter) ==
    {[name |-> m[1], target |-> m[2], minute |-> minute,
      due |-> minute * MinuteSeconds + jitter[m], runtime |-> runtime]
        : m \in Matching(minute)}

\* Mutant: the minute observed last is collected again.
ObserveAgain ==
    LET kept   == {j \in jobs : now < Expires(j)}
        minute == Minute(now)
    IN  /\ highWater' = IF minute > highWater THEN minute ELSE highWater
        /\ IF minute < highWater
           THEN jobs' = kept
           ELSE \E jitter \in [Matching(minute) -> 0 .. JitterSeconds - 1] :
                    jobs' = kept \cup Collected(minute, jitter)

\* Queue::observe: drop what expired, and collect jobs for a minute later than
\* every one before.
Observe ==
    LET kept   == {j \in jobs : now < Expires(j)}
        minute == Minute(now)
    IN  /\ highWater' = IF minute > highWater THEN minute ELSE highWater
        /\ IF minute <= highWater
           THEN jobs' = kept
           ELSE \E jitter \in [Matching(minute) -> 0 .. JitterSeconds - 1] :
                    jobs' = kept \cup Collected(minute, jitter)

\* Queue::take_due first drops expired jobs from the front of the queue, which
\* is in the order of the due seconds.
Unexpired == {j \in jobs : \E k \in jobs : k.due <= j.due /\ now < Expires(k)}
Front(queue) == {j \in queue : \A k \in queue : j.due <= k.due}

\* Scripts::run_schedule skips a job whose object is gone.
Runnable(job) == IF job.target = Nobody THEN TRUE ELSE world[job.target].state = "live"

-----------------------------------------------------------------------------
(* Arms of the main loop.                                                   *)

\* What a command or a callback may commit: nothing, or a change of an object.
Edit ==
    \/ UNCHANGED world
    \/ \E o \in Objects :
        \/ /\ world[o].state = "none"
           /\ world' = [world EXCEPT ![o].state = "live"]
        \/ /\ world[o].state = "live"
           /\ \E s \in {"live", "going"}, a \in BOOLEAN :
                world' = [world EXCEPT ![o] = [state |-> s, attached |-> a]]
        \/ /\ world[o].state = "going"
           /\ \E s \in {"live", "garbage"} : world' = [world EXCEPT ![o].state = s]

\* The tick arm observes the clock.
Tick ==
    /\ Observe
    /\ UNCHANGED <<now, runtime, catalog, world, runs>>

\* The arm of due jobs was enabled by an earlier reading of the clock; take_due
\* reads it again.  The job leaves the queue before it runs, whatever its end.
RunDue ==
    /\ jobs # {}
    /\ \/ /\ \A j \in Front(Unexpired) : now < j.due
          /\ jobs' = Unexpired
          /\ UNCHANGED <<world, runs>>
       \/ \E j \in Front(Unexpired) :
            /\ now >= j.due
            /\ jobs' = Unexpired \ {j}
            /\ \/ /\ Runnable(j)
                  /\ runs' = [runs EXCEPT ![<<j.name, j.target>>][j.minute] = @ + 1]
                  /\ Edit
               \/ /\ ~Runnable(j)
                  /\ UNCHANGED <<world, runs>>
    /\ UNCHANGED <<now, runtime, catalog, highWater>>

\* Any other arm may run commands that change objects.
Command ==
    /\ Edit
    /\ UNCHANGED <<now, runtime, catalog, highWater, jobs, runs>>

\* Mutant: the queue survives the runtime.
ReloadKeepsJobs ==
    /\ runtime < MaxRuntimes
    /\ runtime' = runtime + 1
    /\ catalog' \in SUBSET Names
    /\ Edit
    /\ UNCHANGED <<now, highWater, jobs, runs>>

\* A successful @lua/reload replaces the runtime inside a turn; the end of the
\* turn sees other sources and clears the queue, whose jobs own functions of
\* the old runtime, but keeps the high-water mark.
Reload ==
    /\ runtime < MaxRuntimes
    /\ runtime' = runtime + 1
    /\ catalog' \in SUBSET Names
    /\ Edit
    /\ jobs' = {}
    /\ UNCHANGED <<now, highWater, runs>>

\* The process ends and starts again: the queue is new and has observed the
\* current minute only.  Nothing of the queue is stored, so minutes that lie
\* ahead of the clock are new to the process, seen before or not.
Restart ==
    /\ runtime < MaxRuntimes
    /\ runtime' = runtime + 1
    /\ catalog' \in SUBSET Names
    /\ jobs' = {}
    /\ highWater' = Minute(now)
    /\ runs' = [k \in Names \X Targets |->
                  [m \in Minutes |-> IF m <= Minute(now) THEN runs[k][m] ELSE 0]]
    /\ UNCHANGED <<now, world>>

\* The wall clock advances, or is set, forwards or back.
Clock ==
    /\ now' \in 0 .. MaxTime
    /\ UNCHANGED <<runtime, catalog, world, highWater, jobs, runs>>

-----------------------------------------------------------------------------
\* The loop starts after Queue::default and a first observe, which only notes
\* the minute.
Init ==
    /\ now = 0
    /\ runtime = 1
    /\ catalog \in SUBSET Names
    /\ world \in [Objects -> [state : {"none"}, attached : {FALSE}]
                             \cup [state : {"live"}, attached : BOOLEAN]]
    /\ highWater = Minute(now)
    /\ jobs = {}
    /\ runs = [k \in Names \X Targets |-> [m \in Minutes |-> 0]]

Next == Tick \/ RunDue \/ Command \/ Reload \/ Restart \/ Clock

Spec == Init /\ [][Next]_vars

-----------------------------------------------------------------------------
(* Properties                                                               *)

\* Between two turns every queued job belongs to the running Lua runtime and to
\* the last minute observed, so no reload leaves a function of a runtime that is
\* gone (the comment at the end of the main loop) and one deadline holds for all.
JobsAreCurrent ==
    \A j \in jobs : j.runtime = runtime /\ j.minute = highWater

\* A schedule runs at most once per target in a minute, and only in that
\* minute: while the process lives no setting of the clock and no reload runs it
\* again, nor does a restart in that minute or later.  A restart with the clock
\* set back before a minute begins that minute anew, since the mark of the last
\* minute is kept in memory only.  A missed minute is not replayed
\* (Queue::observe and docs/content/docs/scripting/scheduled-events.md).
OncePerMinute ==
    [][\A k \in Names \X Targets, m \in Minutes :
        runs'[k][m] > runs[k][m] => runs[k][m] = 0 /\ m = Minute(now)]_vars
=============================================================================
