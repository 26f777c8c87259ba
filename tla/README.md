# Formal model of the stompymux server

TLA+ models, model-checking runs and machine-checked proofs for the server in
`src/src/`: a multi-user game (MUX) with a BattleTech simulation, written in
Rust on tokio, with its world in SQLite and its game logic in Lua.

Paths below are relative to the repository's `src/` directory unless they start
with `crates/`.

## 1. Inventory

One tokio task, the *world owner* (`server/runtime.rs`), owns the whole world.
Socket tasks, hash workers, the log worker and signal handlers only send it
events; it handles one event at a time, so two handlers never overlap. What is
hard is therefore not locking, but everything that lives longer than a handler
(the batch of staged effects, the baseline of the next write, the flow table,
the queue's running totals, results of work that was started earlier), the
failure of a database write after the world has already been changed, and the
process dying at one of a handler's await points.

| Component | State it keeps | Operations | Interacts with | Hard behaviour |
|---|---|---|---|---|
| World owner and transaction boundary (`server/transaction.rs`, `runtime/transaction.rs`, `server/execution.rs`, `server/maintenance.rs`) | live world, baseline `durable`, effect batch, flows and their durable copy | command, queued command, schedule, flow line, hook, login, database check; `commit`, `flush`, `rollback` | all others | failed writes, crash between write and publication, effects left over from an earlier handler |
| Shutdown and start (`server/shutdown.rs`, `server/startup.rs`) | `shutdown`, `shutdown_failed` | request by player or signal, disconnect everyone, final save, start | world owner, persistence | saves and hooks fail during the shutdown |
| Command queue (`commands/queue.rs`, `server/queue.rs`) | entries, rotation, byte total, sequence; the loop's credit | add, halt, take, reconcile, tick, timer | world owner, database check | fairness, limits on running totals, destroyed executors, credit |
| Simulation clock and countdowns (`persistence/btech_turn_clock.rs`, `persistence/btech_deadlines.rs`) | second, phase, deadlines | heartbeat, set timer, save, load | persistence | clock row older than the deadlines next to it |
| Relational persistence (`persistence/`) | tables | load, save whole, save difference, maintain | world owner | difference against a baseline that may be wrong |
| Connections and sessions (`server/connection.rs`, `sessions.rs`, `crates/telnet/src/transport.rs`) | session table, event and output channels, counters, compression, quotas | connect, read, write, report, timeout, disconnect, drain | world owner, authentication | owner and tasks wait for each other over bounded channels; peers that stop reading |
| Authentication and account administration (`server/authentication.rs`, `server/administration.rs`) | running hash jobs, throttles, pending resets | login, create, result, reset | connections, persistence | results that come after the facts they were computed from changed |
| Lua runtime, flows, schedules (`lua/`) | interpreter, flow instances, schedule queue | call, savepoint, schedule, reload | world owner | nested rollback, work of a replaced runtime |
| Database check, destruction, containment (`dbck.rs`, `destruction.rs`, `lua/maintenance.rs`) | repair plan | check, destroy, purge | world owner, queue, sessions | callbacks inside the database transaction |
| Log worker (`logging/worker.rs`) | bounded channel, lost counter | submit, awaited write, expire, stop | world owner | full channel, deadlines racing a worker that may hang, stop with requests in the channel |
| Telnet (`crates/telnet`) | option states of both sides | request, receive, subnegotiate | connections | crossing negotiations, reversals |
| Communication (`communication/`) | channels, macros, pages | sequential edits | world owner | none beyond the transaction |
| BattleTech simulation (`btech/`, `server/btech.rs`) | units, maps, sensors, autopilots | heartbeat and commands | world owner | its clock and its transaction; autopilot orders that scripts, directors, players and the heartbeat manage from snapshots of different age |
| Commands, access, search, help | registries | lookups | world owner | none |
| Configuration, site policy, controls | settings | parse, enable, disable | all | none |
| Offline tools (`crates/map`, `mapgen`, `mappy`, ...) | files | pure computation | none | none |

`PROJECT.json` lists the same components with what is modelled of each, and the
hazards at the lines where they bite.

## 2. Modules

| Module | Role |
|---|---|
| `WorldCommit` | the world owner, its transactions, shutdown, crash and restart |
| `DurableWorld` | abstract specification: atomic, durable transactions and their output |
| `WorldCommitProofs` | invariants and refinement of `WorldCommit`, proved |
| `Authentication` | login flows, password jobs, account administration and admission |
| `AuthenticationProofs` | its invariants, and what logins and resets may never do, proved |
| `CommandQueue` | the runtime command queue and the credit of the event loop |
| `CommandQueueProofs` | its accounting, fairness and order, proved |
| `SimulationClock` | the simulation clock, stored deadlines, restarts |
| `SimulationClockProofs` | its five properties, proved |
| `Connection` | the owner and the socket tasks over their bounded channels, and the end of the tasks |
| `TelnetOption` | one Telnet option at both ends of a connection |
| `ConnectionProofs` | the exactness of the counters of `Connection`; and of `TelnetOption`, that both ends agree, and only on what is wanted, proved |
| `LogWorker` | the logfile worker, its channel, deadlines and stop |
| `LogWorkerProofs` | the accounting of requests, proved |
| `Schedules` | cron schedules across clock changes, reloads and restarts |
| `SchedulesProofs` | its two properties, proved |
| `Autopilot` | the order controller of a BattleTech unit |
| `AutopilotProofs` | its three properties, proved |
| `MC...` | instances for TLC, one per module |

### WorldCommit

A handler is three steps, split at its await points so that a crash can come
between them: *execute* (`Command`, `FlowInput`, `Login`, `Attach`,
`Disconnect`, `Dbck`; state "executed"), *commit* (`CommitSkips`,
`CommitSaves`, `CommitFails`; state "committed") and *publish* (`Flush`,
`ReplyOnly`). `ExecuteFails` is a callback or a command body that fails.

- A world is a function from rows to the number of the transaction that wrote
  the row last. Rows of a rejected transaction are then visible wherever they
  survive, which is what the properties look for.
- All publishable effects of one transaction (notifications, private output,
  audit records, traces, logfile appends, map files) are one element of
  `pending`, since one flush drains all of them. `EntryLimit` counts
  transactions' effects.
- `CommitFails(kept)`: validation, the connection or the write fails. SQLite
  can report an error for a commit whose log record survives, so a failed write
  may be kept; `doubt` records that until the next successful save.
- A login commits the account and does not flush; its notice waits for the next
  flush. The notices of a login are not counted as diagnostics in `owed`.
- Any callback may check the database and so stage a maintenance plan
  (`lua/maintenance.rs`), with players to detach when it changes rows; the
  batch merges plans. `txn.plan` remembers whom the running handler itself
  destroyed, so that a plan left over from another handler shows.
- A handler that flushes is "continue" whoever asked for it: the destination
  only decides who is told, and a queued `CommitReply` flushes like the rest. An
  interactive `CommitReply` is "commit_reply".
- The Lua startup hook runs as a background handler.
- The replies that report a failed save or an outcome of the queue are sent
  directly, not through the batch, and are not modelled.

### DurableWorld

States what the boundary promises: a transaction either happens entirely, in
memory and on disk, or not at all; a crash returns to the disk; only output of
committed transactions appears. `WorldCommit` implements it with the mapping
`live` = the snapshot of the running handler until its commit, the live world
afterwards.

### Authentication

`Authenticate`, `RequestCreate` and `RequestReset` start a job that remembers
what the owner saw; `Result` meets the outcome of any running job, at any later
time and in any order, with everything else in between (`Rename`, `SetFlags`,
`Purge`, `Disconnect`, other jobs). `LoginOutcome`, `RegisterOutcome` and
`AdminHashed` follow the early returns of the code in their order.

- A stored hash is the number of the job that made it (hashes are salted, so
  no two are equal); zero is the hash a player starts with.
- A login flow is "name", "password", "create" (the confirmation and the two
  password prompts of a registration), "pending", "play" or "gone". Session
  numbers are never reused.
- The rate buckets depend on the clock and answer either way; so does the
  password policy, which may be edited while a job runs. The number of running
  jobs is exact: its limit can only be changed by a restart.
- A player has one name; aliases and `#number` are further names for the same
  lookup. Edits of `max_players` and login histories are left out.
- After an accepted shutdown the event loop ends, so no result is met.

### CommandQueue

`Add` and `Halt` are `Server::queue_request`: they prepare a copy of the queue
and publish it only if the world change that belongs to it (a runaway executor
is halted) is saved. `Take` is one turn of the loop's queue arm: reconcile,
enrol newly ready executors, serve the first. `MaintenanceTick`, `Advance` and
`Arrives` grant credit. A command list is the number of commands it holds, and
taking one command is `split_command`. Object numbers are never reused
(`World::create`), so the generation check of the code cannot differ from the
check of the kind.

The loops over the entries are written as what they compute. `Text` is the set
of all bytes of all lists, and the running total of `recount` its cardinality;
`Keeping` is `VecDeque::retain`; `Newcomers` are the executors that the loop over
the sorted lists appends to the rotation, in the order of their first lists.

### SimulationClock

`Saved` is the row difference, `ClockWritten` the decision whether the clock
row goes with it, `Load` what a start reads. All tables with countdowns are one
kind of timer; `row` stands for every other row. Handler and commit are one
step, since `WorldCommit` has the interleavings.

One detail the model makes visible: after a heartbeat whose write failed but
was kept, the stored clock is one second ahead of the live world. It stays so
until a row changes, because the save compares only whether the clock has
fallen behind (`persistence/btech_turn_clock.rs:57`). `RestoresStoredSecond`
allows for it (`lag >= -1`). `ClockWritten` compares the phase offset too, as the
code does, although the heartbeat only ever advances the clock and never sets
the offset (`server/btech.rs:51`).

### Connection

The runtime has one thread, so a step runs from one await to the next. A socket
task is in its `select!` ("select"), waits for room in the event channel
("sending"), writes ("writing", "starting", "finishing"), or has left its loop
("leaving", "ended"). The owner is in its loop, waits for room in an output
channel while it delivers a report (`Session::deliver_spans`), or is shutting
down. `Install` is every change of the owner to sessions, with `disconnect` for
those that leave. Whether the event channel is closed is asked only on entry to
`select!`, so `Read` and `ReadEnds` do not ask it: a read may end after the owner
has dropped the receiver. Reads and writes succeed or fail as the peer pleases. A
message is one unit of the counters; whether it exceeds the message limit is
open (`fits`). What handlers do to the world is in the other modules, so a line
of input either is heard by everybody, is a report, or ends the session.

### TelnetOption

`Request` and `Receive` are the tables of `q.rs`; both ends run them over two
ordered streams. The server's policy (which options it accepts unasked, which it
may ask for) is `Accepts` and `MayRequest`; the client's is open. Options and
directions do not influence each other, so one pair of automata is enough.
CHARSET adds an exchange of its own to the option. A client that breaks the
protocol is not modelled: it may exchange verbs for ever. The specification is
`TelnetSpec`, so that `ConnectionProofs` can extend both modules about a
connection.

### LogWorker

The owner queues (`Submit`), waits for room and for an answer (`Write`,
`Shutdown`) until a deadline, and the worker takes requests in order. The worker
may hang in a write for ever. Opening, caching and expiring file handles is
inside the write, which succeeds or fails. Requests and the times of deadlines
are bounded by `MaxRequests` and `MaxTime`.

### Schedules

`Observe` is `Queue::observe`, `RunDue` is `take_due` with the callback's own
transaction, `Reload` the end of a turn in which the Lua runtime was replaced. A
cron expression is the set of minutes it matches. The wall clock may be set to
anything at any time (`Clock`), also before a restart. A restart keeps nothing
of the queue: its first observation takes the minute the clock shows and
collects no job (`Restart`). `runs` counts the runs of a minute since the last
start of the process at which that minute lay ahead, so a restart forgets the
runs of later minutes; see Observations.

### Autopilot

Each operation of `AutopilotController` is an operator from a controller to the
next; the actions are the Lua calls, the tactical director's observe and submit,
a player's takeover and the heartbeat. What the navigator finds is open: the
active order goes on, succeeds or fails. Sightings, the route plan and the
configuration's contents are left out; detaching stands for the three ways a
controller is removed (by script, with a wreck, with its object).

## 3. Runs

| Run | Configuration | Shows |
|---|---|---|
| `world_commit` | two rows, one session, three transactions, at most two transactions' effects in the batch | invariants, publication order, whom a maintenance plan may detach, refinement of `DurableWorld`, and that an accepted shutdown ends although hooks and saves fail |
| `world_commit_audit` (violation) | as above with two transactions and the limit of one | see Finding |
| `authentication` | three connections, three players (one yet to be created), two names, three jobs of which two at a time, one place | stale results, destroyed players, exact accounting of jobs, limits, unique names |
| `authentication_live` | two connections, two jobs | every waiting connection is answered |
| `command_queue` | two executors, limit two, three lists, one second | accounting, rotation, fairness, order |
| `command_queue_live` | as above with two lists | ready lists are used up by ticks alone |
| `simulation_clock` | two timers of up to three seconds, interval three, starts at the beginning and the end of a turn | loading, exact restoration, bounded loss, quiet heartbeats |
| `telnet_option` | four requests at each end, every policy | the exchange ends, both ends agree, the last request decides |
| `connection` | two connections, event channel of one, output channels of two, reports of two chunks, two reads | exact counters, the owner returns from a report, broken connections go away |
| `log_worker` | channel of two, four requests, timeouts of one, time up to four | every request is accounted for, the owner is released |
| `schedules` | two objects, a global and an object schedule, minutes of three seconds with a jitter below two, three minutes, three runtimes | once per minute, in the minute, in the runtime that declared it |
| `autopilot` | queue of two, history of three, three orders and five revisions per controller, two controllers | the controller validates, ends are reported, submissions are guarded |

Bounds. Three transactions are one that leaves effects in the batch, one that
fails or succeeds over them, and one that flushes what is left; two rows are
what a partly written difference needs. The wrong baseline, the lost rollback
and the unordered drain each already show with two transactions. `EntryLimit`
two is reached by effects left over from two handlers, so that validation
refuses the third. In the queue, limit two with three lists reaches the runaway
halt; lists of two commands are interrupted by others; a list longer than
`LineLimit` and a negative delay are tried. The clock runs from second 28 over
the end of a turn to second 32, longer than an interval and longer than a timer.
Three jobs are a login, a reset and a registration that overlap in any
way; two names make renaming, purging and creation collide; with one place,
three connections reach the limit, the registration at the limit and the
refusal after it. An event channel of one is full
whenever one task has sent, so that another waits while the owner waits for it.
A report of two chunks after the negotiation fills an output channel of two, so
it waits, times out and leaves no room for the close. Four requests at an option
are two reversals at each end. The log channel of two is full with requests to
come, and time runs past every deadline. A clock of three short minutes can be
set back to a minute already run and forward over one. A history of three loses
records in every replacement of two orders by one. Connections, executors and
objects are symmetric; symmetry is used in the safety runs `authentication`,
`command_queue` and `schedules` only. Deadlock is not checked where the system
may stop: a silent wire, a stopped logger, a server that has ended, an autopilot
at its bounds.

Fairness. `world_commit` assumes, for `ShutdownCompletes` only, weak fairness of commit, publication and
of the shutdown loop: these are consecutive steps of one async function which
tokio polls until it returns; that a database call returns, with a result or
an error, is the assumption. Nothing
obliges players, callbacks or the operating system to act. The liveness of
handlers ends with a crash ("down"), which the property allows.
`authentication_live` assumes that every worker ends and that its event is met:
hashing is a terminating computation on the blocking pool, its task sends one
event whatever happens, and the loop receives until shutdown.
`connection` assumes weak fairness of the arms of a `select!` that stay ready, of
the reaping tick, and of every wait with a timeout (writes, finishing, a slot for
a report); room in the event channel goes to the waiters in their order. It
assumes nothing of peers, new connections, requests and the abort of tasks.
`telnet_option` assumes that both ends read what arrives. `log_worker` assumes
that the owner's waits are polled and that time passes, and nothing of the
worker. `command_queue_live` assumes weak fairness of the queue arm and of the
maintenance interval, arms of the loop's `select!` that stay ready until they
are taken; it gives the timer and incoming events no fairness at all, so the tick alone must
be enough. It uses an idle chunk of one: with a chunk of zero the loop would
never run a list on an idle server.

## 4. Finding

`DiagnosticsSurvivePersistence` is violated. The test comment at
`server/queue.rs:303` says "Semantic diagnostics survive successful persistence
and disappear on a rejected write." An interactive command that ends in
`Action::CommitReply` commits and replies, but `flush_for`
(`server/execution.rs:409`) flushes for queued destinations only. Its audit
record stays in the batch. If the next handler fails, its rollback empties the
batch and the record of the durable command is lost. `edit_skill_threshold`
(`btech/operator_settings.rs:11`) stages such a record, and its command
`skill-threshold` returns `CommitReply` (`btech/commands.rs:188-212`). The property excludes crashes and shutdown, which
drop the batch by design.

### Observations

Not disagreements with a promise of the code, but limits of what the properties
say:

- A controller that is detached and attached again starts with revision 0 and
  sequence 1 (`btech/autopilot/mod.rs:306`). A snapshot a director took of an
  earlier controller of the same unit may therefore match the new one's revision,
  and its cursor may lie beyond the new history. `GuardedSubmission` is stated
  for the controller that was observed; without that condition TLC finds the
  mix-up.
- `feedback_since` without a cursor never reports a gap
  (`btech/autopilot/mod.rs:649`); `OutcomesReported` is about cursors.
- The high-water mark of the schedule queue is not stored. A restart with the
  wall clock set back before a minute that was already run does run that minute
  again. The model's `Restart` allows it, and `OncePerMinute` states the
  condition: once per minute since the last start at which that minute lay
  ahead.

## 5. Proofs

Proved by TLAPS, for every value of the constants that the named assumptions
allow:

| Module | Theorems |
|---|---|
| `WorldCommitProofs` | `TypeCorrect`, `BaselineCorrect`, `WorldSaved`, `RollbackComplete`, `OutputCommitted`, `OutputOrdered`, `OwnDetachments`, `FlowsFollowSessions`, `CleanExit`, and `Refinement` of `DurableWorld` |
| `SimulationClockProofs` | `TypeCorrect`, `StoredDeadlinesLoad`, `RestoredExactly`, `IdleLoss`, `QuietBeats` |
| `AuthenticationProofs` | `TypeCorrect`, `AccountedJobs`, `NamesUnique`, `CapacityKept`, `FreshLogins`, `OnlyTheLivingPlay`, `AuthorizedResets` |
| `CommandQueueProofs` | `TypeCorrect`, `Consistency`, `Fairness`, `InOrderExecution` |
| `ConnectionProofs` | `StatsAreExact`; `QuietAgreement`, `EnabledIfWanted` (of `TelnetSpec`) |
| `LogWorkerProofs` | `AccountedRecords` |
| `SchedulesProofs` | `JobsCurrent`, `RunsOnce` |
| `AutopilotProofs` | `ControllerValid`, `EndsReported`, `RevisionGuards` |

Assumptions. Markers for "none" (`NoBaseline`, `NoPlayer`, `Nobody`,
`NoSnapshot`, `Background`) are not values of the kind they stand in for; limits
are natural numbers, and those the code requires to be positive are positive (a
channel, a history, an order queue, a minute); the jitter of a schedule stays
within its minute; God exists, and the players of a new database have different
names; the executors of the command queue are finitely many, since objects are.
Nothing else is assumed to be finite, and nothing is assumed about how many
rows, sessions, jobs, requests or orders there are. The bounds on counters
(`MaxJobs`, `MaxRequests`, ...) are constants too, so they take nothing away.

### The arguments

`WorldCommit`. `IInv` is the conjunction of the type
invariant and four parts that the properties alone lack:
`SavedInv` (baseline, stored and live world agree between handlers, and while a
handler runs they agree with its snapshot unless in doubt), `OutputInv` (the
batch holds committed transactions and at most the running one, none of which
is published), `NumberInv` (every number anywhere was given out; the running
one is the latest and is neither committed nor rejected, which is why a later
flush publishes later numbers only), and `HandlerInv` (what the running handler
may be in each state), together with `RejectedLeavesNoTrace`, which is
inductive only with them. Each action preserves each part in a step of its own.
The refinement uses the invariant: a commit that skips the database maps to a
stutter or an empty transaction only because the world equals the snapshot.
`OwnDetachments` has an invariant of its own, `PlanInv`: a staged plan is the
running handler's, and there is none once it has failed or committed.

`SimulationClock`. `ClockInv` says that stored rows are a world one can
load, that the baseline, if there is one, has the deadlines and the row that
are stored, that its second is at least the stored one, and that the live world
agrees with them unless in doubt; the difference written relative to the newer
clock is then the difference to the stored rows as well.

`Authentication`. The three accounts of the running jobs (the counter, the marks
of pending resets, the sessions that wait) are each exact, and `JobInv` keeps
the numbers of jobs below the next one. A result of a job removes it from all
three accounts on every early return, which is shown once for each kind of job.
Unique names need that a name is free at the moment it is given, not when the
job was started. The two action properties follow from one step: a session
enters the game, or a hash is replaced, only in the step that meets a result,
and the guards of that step compare with the state of the moment. The same step
brings in living players only (`AliveStep`), and the one step that destroys a
player closes its sessions.

`CommandQueue`. The lemmas at the start are about orders: a finite set under a
strict total order is listed by `InOrder`, each element once, behind those
before it; so `Keeping` loses nobody who is kept and puts nobody further back.
The invariant has four parts. `Counted`: the byte total is the number of bytes
and the rotation names owners only. `LiveOnly`: no list of a purged object.
`Ordered` and `Past`: no list that waits comes before the one its executor ran
last, and nothing that ran is later than now or than the last number given out,
so that a new list comes after it even with a negative delay. `Turns`: whoever
was passed over stands in the rotation, and the times it was passed over and
its place add up to no more than the number of executors. Service moves
everybody up one place and passes everybody over once, so the sum stays; a
newcomer joins at the end of a line of different executors. Every change of the
queue by a handler is a candidate that is reconciled with the world;
`CandidateSucceeds` and `BecomeStep` show once for all that this is sound.
No part of the invariant and no step of the proof mentions `Limit`: an
administrator may change `command_queue_limit` while lists wait, which the model
does not do, and then an executor may hold more lists than the new limit. That
is why no property bounds the number of lists per executor.

`Connection`. The counters are exact only together with where the owner and the
tasks are, so `IInv` adds to the property how they go together: a task that has
left its loop has closed its channel, so nothing is queued behind the count of
what was left in it; a task is aborted only when the owner has ended; no session
is open once the owner leaves its loop, so the input that is dropped with the
receiver is nobody's; a connection that was not accepted yet has left no trace,
no event included. An operation of the owner on a session is described by what
it leaves alone: `Owed` (pending and not in the channel) and `Lent` (offered and
not pending yet), the unread input and the marker. `Raw`, `Close`, `Tell` and
`Reported` leave all of them alone, whether or not there was room; a chunk that
starts to wait or stops waiting moves `Lent` by one, an event moves the input by
one, and `StartCompression` moves the marker and the mark together, only while
the channel is open. `OwnerStep` shows once that such changes, followed by any
disconnects, preserve the invariant; `TaskStep`, `LoopStep` and `LeaveStep` do
so for the tasks. The lemmas at the start say how `Append` and `Tail` change the
number of times a message occurs in a channel.

`TelnetOption`. Neither end's state says what is on its way, so the invariant is
over both states and both streams at once: `Configuration` lists what may be in
the two streams for each pair of states (at most three messages each way), with
the question and the answer of CHARSET. Agreement in silence is the case where
both streams are empty. `EnabledIfWanted` has a small invariant of its own: an
end that accepts nothing unasked is in a state that leads to the option only
after a request of its own. The proof that each message leads from one
configuration to another is one case per configuration.

`LogWorker`. The parts are `OwnerInv` (what the owner waits for was requested, and
the stop is in the channel only after the owner has decided to stop), `WorkerInv`
(a worker that never started or has ended has nothing left), `OutcomeInv` (the
requests without an outcome are those in the channel and the one being written,
and whoever was told "logged" was told the truth) and `CountInv` (the omitted
requests are the lost counter and what was reported). Together they say that no
request is in two places and none is in no place.

`Schedules`. Besides `JobsAreCurrent`: a queued job is due in the minute it was
queued for, has not run in it, is alone for its schedule and object
(`NotRunYet`), and minutes after the high-water mark have no runs. Setting the
clock back cannot queue a job again because the mark does not go back while the
process lives; at a restart it does, and the runs of the minutes after it are
forgotten with it.

`Autopilot`. `Sound` says of the controller that its feedback is a run of
consecutive numbers up to the latest (`History`), that its pending orders are
distinct and older than the next number (`Orders`), that its state fits its
orders (`Modes`), and that the orders that are not pending have ended exactly
once (`Ends`); `History` also finds the end of an order at its place unless the
history has dropped it. `Observed`
relates the director's snapshot to the controller: as long as the revision is
the same, nothing is pending that the snapshot does not have. Every operation is
shown to lead from a sound controller to a sound one, and to raise the revision
whenever it adds an order.

Only model-checked: the liveness properties `ShutdownCompletes`,
`PendingResolved`, `ReadyListsFinish`, `NegotiationEnds`, `OwnerReturns`,
`ConnectionsEnd` and `OwnerReleased`, since liveness under fairness is outside
the prover. Every invariant and every action property that a run checks is also
a theorem. The type invariants of `WorldCommit` and `Authentication` are theorems
that the others rest on and no property of a run.

## 6. Not modelled

- The column mappings of the tables, migrations and configuration parsing.
- The Lua interpreter, and nested savepoints of callbacks inside one handler.
- The repair plan of the database check, beyond its transaction and the
  reconciliation of sessions and queue.
- The game rules of `btech/`: hundreds of files of sequential arithmetic (combat,
  movement, sensors, construction) that change rows inside one transaction. They
  are most of the repository's lines, and have neither concurrency nor state
  that outlives a handler other than the rows themselves.
- Telnet framing, text styling, help, search, communication and access control:
  sequential work within a handler.
- Rate limits that depend only on the clock (command quota, login buckets).
- Offline tools and libraries: map files, generators, converters, graphics.

## 7. Plan

In order:

1. `Effects`: nested savepoints of Lua callbacks inside a handler, checked
   against "as if the callback never ran".
2. `Dbck`: the repair plan for containment (no cycles, nothing lost), as
   operators over small worlds.
3. The handle cache of the log worker; wrecks, tows and turn order of BattleTech
   where several handlers share them.
