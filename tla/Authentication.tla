--------------------------- MODULE Authentication ---------------------------
(***************************************************************************)
(* Login admission, password jobs and account administration.               *)
(*                                                                          *)
(* A password is hashed or verified by a worker outside the world owner.    *)
(* The owner counts the jobs, remembers in each job what it saw when it     *)
(* started it, and meets the result as an event, any time later and in any  *)
(* order: the connection may have closed, the account may have a new        *)
(* password, a new name or be gone, the wizard who asked may have lost the  *)
(* right to, and others may have taken the last place or the same name.     *)
(*                                                                          *)
(* Data.  A stored hash is the number of the job that made it, since no two *)
(* hashes are equal; a submitted password is right or wrong for the hash it *)
(* is compared with.  The time-driven rate buckets and the password policy,   *)
(* which may be edited while a job runs, answer either way.  A result and    *)
(* its commit are one step (WorldCommit has the interleavings), which may    *)
(* fail.                                                                     *)
(***************************************************************************)
EXTENDS Integers, FiniteSets

CONSTANTS
    Sessions,         \* connections, numbered once and for ever
    Players,          \* objects that are or may become players
    God,              \* ObjectId(1)
    Names,            \* player names
    NoPlayer,         \* None
    FirstName,        \* the names of the players of a new database
    HashConcurrency,  \* config.security.login_hash_concurrency
    MaxPlayers,       \* config.mux.max_players
    RetryLimit,       \* config.mux.retry_limit
    MaxJobs           \* bound on password jobs

ASSUME AuthenticationAssumption ==
    /\ God \in Players /\ NoPlayer \notin Players
    /\ God \in DOMAIN FirstName /\ DOMAIN FirstName \subseteq Players
    /\ FirstName \in [DOMAIN FirstName -> Names]
    /\ \A p, q \in DOMAIN FirstName : FirstName[p] = FirstName[q] => p = q
    /\ HashConcurrency \in Nat /\ MaxPlayers \in Nat /\ RetryLimit \in Int /\ MaxJobs \in Nat

VARIABLES
    session,     \* Server::sessions: login flow with the name in it, player, retries
                 \* left while logging in, and (history) what admitted the player
    player,      \* players and their accounts
    jobs,        \* password jobs whose result the owner has not met
    inflight,    \* authentication.inflight
    resets,      \* authentication.pending_resets
    logins,      \* Control::Logins
    lastJob      \* the number of the latest job

accountVars == <<resets, logins>>
vars == <<session, player, jobs, inflight, resets, logins, lastJob>>

Flows == {"new", "name", "password", "create", "pending", "play", "gone"}
AnyName == CHOOSE n \in Names : TRUE

Blank(flow) == [flow |-> flow, name |-> AnyName, player |-> NoPlayer,
                retry |-> RetryLimit, by |-> "none"]

Init ==
    /\ session = [s \in Sessions |-> Blank("new")]
    /\ player = [p \in Players |->
           [kind |-> IF p \in DOMAIN FirstName THEN "player" ELSE "free",
            name |-> IF p \in DOMAIN FirstName THEN FirstName[p] ELSE AnyName,
            hash |-> 0, wizard |-> FALSE, going |-> FALSE]]
    /\ jobs = {} /\ inflight = 0 /\ resets = {} /\ lastJob = 0
    /\ logins = TRUE

-----------------------------------------------------------------------------
(* The world and the session table. *)

\* World::find_player; an alias is another name, a number another still.
FindPlayer(n) ==
    IF \E p \in Players : player[p].kind = "player" /\ player[p].name = n
      THEN CHOOSE p \in Players : player[p].kind = "player" /\ player[p].name = n
      ELSE NoPlayer

IsWizard(p) == p = God \/ player[p].wizard

Playing == {s \in Sessions : session[s].flow = "play"}

\* Mutant: a login is permitted at the limit too.
AdmittedAtLimit(privileged) == privileged \/ (logins /\ Cardinality(Playing) <= MaxPlayers)

\* Controls::admission
Admitted(privileged) == privileged \/ (logins /\ Cardinality(Playing) < MaxPlayers)

\* Controls::registration: one registration is permitted at the limit.
RegistrationAdmitted == logins /\ Cardinality(Playing) <= MaxPlayers

\* Server::prompt, or Server::disconnect for the flow "gone".
Ask(s, flow) ==
    session' = [session EXCEPT ![s] = IF "gone" \in {@.flow, flow} THEN Blank("gone")
                                      ELSE [@ EXCEPT !.flow = flow, !.name = AnyName]]

-----------------------------------------------------------------------------
(* Connections and login lines. *)

Accept(s) ==
    /\ session[s].flow = "new"
    /\ Ask(s, "name")
    /\ UNCHANGED <<player, jobs, inflight, accountVars, lastJob>>

\* A name: an existing player is asked for a password, a new one may be made.
GiveName(s, n) ==
    /\ session[s].flow = "name"
    /\ session' = [session EXCEPT ![s].name = n,
                                  ![s].flow = IF FindPlayer(n) = NoPlayer THEN "create"
                                                                          ELSE "password"]
    /\ UNCHANGED <<player, jobs, inflight, accountVars, lastJob>>

\* The question whether to create the player is answered with no.  Other
\* answers and passwords that do not match repeat a question.
Decline(s) ==
    /\ session[s].flow = "create"
    /\ Ask(s, "name")
    /\ UNCHANGED <<player, jobs, inflight, accountVars, lastJob>>

Capacity == inflight < HashConcurrency

\* Start a job; its number will be the number of the hash it makes.
Start(job) ==
    /\ lastJob < MaxJobs
    /\ lastJob' = lastJob + 1
    /\ jobs' = jobs \cup {job}
    /\ inflight' = inflight + 1

Job(kind, s, n, p, target, hash, right) ==
    [id |-> lastJob + 1, kind |-> kind, session |-> s, name |-> n, player |-> p,
     target |-> target, hash |-> hash, right |-> right]

\* Server::authenticate.  The answer is "full" (no room for another address),
\* "empty" (the address or the server used up its tokens), "unfit" (a new
\* password against the policy) or "granted".
Authenticate(s, answer, right) ==
    LET create == session[s].flow = "create"
        name == session[s].name
        identity == FindPlayer(name)
        refused == create /\ ~RegistrationAdmitted
        throttled == answer = "empty" \/ (answer # "full" /\ ~Capacity)
    IN /\ session[s].flow \in {"password", "create"}
       /\ answer = "unfit" => create
       /\ right => create \/ identity # NoPlayer
       /\ IF refused \/ throttled THEN Ask(s, "gone")
          ELSE IF answer \in {"full", "unfit"} THEN Ask(s, "name")
          ELSE Ask(s, "pending")
       /\ IF refused \/ throttled \/ answer # "granted"
            THEN UNCHANGED <<jobs, inflight, lastJob>>
            ELSE Start(Job(IF create THEN "register" ELSE "login", s, name, identity, NoPlayer,
                           IF identity = NoPlayer THEN 0 ELSE player[identity].hash, right))
       /\ UNCHANGED <<player, accountVars>>

\* The peer closes the connection, a timeout or an administrator does.
Disconnect(s) ==
    /\ session[s].flow \notin {"new", "gone"}
    /\ Ask(s, "gone")
    /\ UNCHANGED <<player, jobs, inflight, accountVars, lastJob>>

-----------------------------------------------------------------------------
(* Results of logins and registrations. *)

\* The job is over, whatever becomes of its result.
Finish(j) ==
    /\ jobs' = jobs \ {j}
    /\ inflight' = IF inflight = 0 THEN 0 ELSE inflight - 1

\* Mutant: the hash is not compared again.
StaleIdentity(j) == FindPlayer(j.name) # j.player

\* authentication_result: the name leads elsewhere or the hash has changed.
Stale(j) ==
    \/ FindPlayer(j.name) # j.player
    \/ j.hash # IF j.player = NoPlayer THEN 0 ELSE player[j.player].hash

\* Session::failed_login
FailedLogin(s) == session[s].retry - 1 <= 0

\* The session carries player p; its connect hook runs.
Enter(s, p, by) ==
    session' = [session EXCEPT ![s] = [Blank("play") EXCEPT !.player = p, !.by = by]]

\* The session is asked again, or closed; nothing else changes.
Refuse(s, flow) == Ask(s, flow) /\ UNCHANGED player

\* Mutant: the session is not asked again.
RejectedStays(s) ==
    /\ session' = [session EXCEPT ![s] = IF FailedLogin(s) THEN Blank("gone")
                                         ELSE [@ EXCEPT !.retry = @ - 1]]
    /\ UNCHANGED player

\* A wrong password costs a retry; the last one closes the session.
Rejected(s) ==
    /\ session' = [session EXCEPT ![s] = IF FailedLogin(s) THEN Blank("gone")
                                         ELSE [Blank("name") EXCEPT !.retry = session[s].retry - 1]]
    /\ UNCHANGED player

Ignore == UNCHANGED <<session, player>>

\* Mutant: the session stays where it is.
LoginStays(j, outcome) ==
    LET s == j.session IN
    IF Stale(j) THEN Ignore
    ELSE IF session[s].flow # "pending" THEN Ignore
    ELSE IF outcome = "failed" THEN Refuse(s, "name")
    ELSE IF ~j.right THEN Rejected(s)
    ELSE IF ~Admitted(IsWizard(j.player)) THEN Refuse(s, "gone")
    ELSE IF outcome = "unsaved" THEN Refuse(s, "name")
    ELSE /\ Enter(s, j.player, IF IsWizard(j.player) THEN "wizard" ELSE "login")
         /\ UNCHANGED player

\* authentication_result and authenticated, for an existing player.
LoginOutcome(j, outcome) ==
    LET s == j.session IN
    IF Stale(j) THEN Refuse(s, "name")
    ELSE IF session[s].flow # "pending" THEN Ignore
    ELSE IF outcome = "failed" THEN Refuse(s, "name")
    ELSE IF ~j.right THEN Rejected(s)
    ELSE IF ~Admitted(IsWizard(j.player)) THEN Refuse(s, "gone")
    ELSE IF outcome = "unsaved" THEN Refuse(s, "name")
    ELSE /\ Enter(s, j.player, IF IsWizard(j.player) THEN "wizard" ELSE "login")
         /\ UNCHANGED player

Room == \E p \in Players : player[p].kind = "free"

\* Mutant: the name is not looked up again.
NameUnchecked(n) == Room

\* create_account: nobody has taken the name since, and there is room for
\* another object.
NameFree(n) == FindPlayer(n) = NoPlayer /\ Room

\* World::create_with numbers a new object.
Created(p, n, hash) ==
    /\ player[p].kind = "free"
    /\ player' = [player EXCEPT ![p].kind = "player", ![p].name = n, ![p].hash = hash]

RegisterOutcome(j, outcome) ==
    LET s == j.session IN
    IF session[s].flow # "pending" THEN Ignore
    ELSE IF outcome = "failed" THEN Refuse(s, "name")
    ELSE IF ~RegistrationAdmitted THEN Refuse(s, "gone")
    ELSE IF ~NameFree(j.name) \/ outcome = "unsaved" THEN Refuse(s, "name")
    ELSE \E p \in Players : Created(p, j.name, j.id) /\ Enter(s, p, "register")

Authenticated(j, outcome) ==
    /\ j \in jobs /\ j.kind \in {"login", "register"}
    /\ Finish(j)
    /\ IF j.kind = "login" THEN LoginOutcome(j, outcome)
                           ELSE RegisterOutcome(j, outcome)
    /\ UNCHANGED <<accountVars, lastJob>>

-----------------------------------------------------------------------------
(* Account administration by wizards. *)

ResetAllowed(t) == t \notin resets

\* @pcreate
RequestCreate(s, n) ==
    /\ s \in Playing /\ IsWizard(session[s].player)
    /\ FindPlayer(n) = NoPlayer /\ Capacity
    /\ Start(Job("create", s, n, session[s].player, NoPlayer, 0, TRUE))
    /\ UNCHANGED <<session, player, accountVars>>

\* @newpassword
RequestReset(s, t) ==
    /\ s \in Playing /\ IsWizard(session[s].player)
    /\ player[t].kind = "player" /\ ~player[t].going /\ t # God
    /\ ResetAllowed(t) /\ Capacity
    /\ resets' = resets \cup {t}
    /\ Start(Job("reset", s, AnyName, session[s].player, t, 0, TRUE))
    /\ UNCHANGED <<session, player, logins>>

\* Mutant: the right to change accounts is not looked at again.
StillSession(j) == session[j.session].flow = "play" /\ session[j.session].player = j.player

\* The wizard who asked is still there and still a wizard.
StillAuthorized(j) ==
    /\ session[j.session].flow = "play" /\ session[j.session].player = j.player
    /\ IsWizard(j.player) /\ ~player[j.player].going

AdminHashed(j, outcome) ==
    /\ j \in jobs /\ j.kind \in {"create", "reset"}
    /\ Finish(j)
    /\ resets' = resets \ {j.target}
    /\ LET fit == StillAuthorized(j) /\ outcome = "done"
       IN CASE fit /\ j.kind = "create" /\ NameFree(j.name) ->
                   \E p \in Players : Created(p, j.name, j.id)
            [] fit /\ j.kind = "reset" /\ player[j.target].kind = "player"
                   /\ ~player[j.target].going ->
                   player' = [player EXCEPT ![j.target].hash = j.id]
            [] OTHER -> UNCHANGED player
    /\ UNCHANGED <<session, logins, lastJob>>

-----------------------------------------------------------------------------
(* The rest of the world owner, as far as it concerns accounts. *)

Rename(p, n) ==
    /\ player[p].kind = "player" /\ FindPlayer(n) \in {NoPlayer, p}
    /\ player' = [player EXCEPT ![p].name = n]
    /\ UNCHANGED <<session, jobs, inflight, accountVars, lastJob>>

SetFlags(p, wizard, going) ==
    /\ player[p].kind = "player" /\ p # God
    /\ player' = [player EXCEPT ![p].wizard = wizard, ![p].going = going]
    /\ UNCHANGED <<session, jobs, inflight, accountVars, lastJob>>

\* Mutant: the sessions of the destroyed player stay.
PurgeKeepsSessions(p) ==
    /\ player[p].kind = "player" /\ player[p].going
    /\ player' = [player EXCEPT ![p] = [kind |-> "garbage", name |-> AnyName, hash |-> 0,
                                        wizard |-> FALSE, going |-> TRUE]]
    /\ UNCHANGED <<session, jobs, inflight, accountVars, lastJob>>

\* The database check removes a destroyed player and closes its sessions.
Purge(p) ==
    /\ player[p].kind = "player" /\ player[p].going
    /\ player' = [player EXCEPT ![p] = [kind |-> "garbage", name |-> AnyName, hash |-> 0,
                                        wizard |-> FALSE, going |-> TRUE]]
    /\ session' = [s \in Sessions |-> IF s \in Playing /\ session[s].player = p
                                        THEN Blank("gone") ELSE session[s]]
    /\ UNCHANGED <<jobs, inflight, accountVars, lastJob>>

\* @enable logins and @disable logins.
GlobalControl ==
    /\ logins' = ~logins
    /\ UNCHANGED <<session, player, jobs, inflight, resets, lastJob>>

\* The worker of job number id ends and the event loop meets its result.  The
\* outcome is "failed" when the worker failed or a new password no longer fits
\* the policy, "unsaved" when the commit fails.
Result(id) ==
    \E j \in jobs, outcome \in {"done", "failed", "unsaved"} :
        j.id = id /\ (Authenticated(j, outcome) \/ AdminHashed(j, outcome))

Next ==
    \/ \E s \in Sessions :
          \/ Accept(s) \/ Decline(s) \/ Disconnect(s)
          \/ \E n \in Names : GiveName(s, n)
          \/ \E answer \in {"granted", "full", "empty", "unfit"}, right \in BOOLEAN :
                Authenticate(s, answer, right)
          \/ \E n \in Names : RequestCreate(s, n)
          \/ \E t \in Players : RequestReset(s, t)
    \/ \E id \in 1 .. lastJob : Result(id)
    \/ \E p \in Players :
          \/ \E n \in Names : Rename(p, n)
          \/ \E wizard, going \in BOOLEAN : SetFlags(p, wizard, going)
          \/ Purge(p)
    \/ GlobalControl

Spec == Init /\ [][Next]_vars

\* Every worker ends, and the event loop meets every event.
FairSpec == Spec /\ \A id \in 1 .. MaxJobs : WF_vars(Result(id))

-----------------------------------------------------------------------------
(* Properties. *)

JobType == [id : Nat, kind : {"login", "register", "create", "reset"}, session : Sessions,
            name : Names, player : Players \cup {NoPlayer}, target : Players \cup {NoPlayer},
            hash : Nat, right : BOOLEAN]

\* Sessions, accounts and jobs are well-formed, and the counter of running
\* jobs never falls below zero (it is an unsigned number).
TypeOK ==
    /\ session \in [Sessions -> [flow : Flows, name : Names, player : Players \cup {NoPlayer},
                                 retry : Int,
                                 by : {"none", "login", "register", "wizard"}]]
    /\ player \in [Players -> [kind : {"free", "player", "garbage"}, name : Names, hash : Nat,
                               wizard : BOOLEAN, going : BOOLEAN]]
    /\ jobs \subseteq JobType
    /\ inflight \in Nat /\ resets \subseteq Players /\ lastJob \in Nat
    /\ logins \in BOOLEAN

\* The counter that limits hashing is the number of jobs really running, on
\* every path a result can take, and never exceeds the limit.
InflightExact == inflight = Cardinality(jobs) /\ inflight <= HashConcurrency

\* A player's reset is marked pending exactly while one reset job runs, so a
\* failed or refused result never locks the player out of later resets.
ResetsExact ==
    /\ resets = {j.target : j \in {k \in jobs : k.kind = "reset"}}
    /\ \A j, k \in jobs : j.kind = "reset" /\ k.kind = "reset" /\ j.target = k.target => j = k

\* A session that waits for its password waits for exactly one job, and an
\* open session that does not wait has none.
PendingHasJob ==
    \A s \in Sessions :
        LET own == {j \in jobs : j.session = s /\ j.kind \in {"login", "register"}}
        IN CASE session[s].flow = "pending" -> \E j \in own : own = {j}
             [] session[s].flow = "gone" -> TRUE
             [] OTHER -> own = {}

\* Jobs, their counter, the marks of pending resets and the waiting sessions
\* agree on every path a result can take (authentication_result, admin_hashed):
\* one that forgets a mark locks logins, a player or a session out for ever.
JobsAccounted == InflightExact /\ ResetsExact /\ PendingHasJob

\* World::validate_accounts never has to refuse an account change: the checks
\* made when a result arrives keep names unique, whoever took one meanwhile.
UniqueNames ==
    \A p, q \in Players : player[p].kind = "player" /\ player[q].kind = "player"
                          /\ player[p].name = player[q].name => p = q

\* Every session in the game carries a living player, although players are
\* destroyed while they play and while their passwords are being checked:
\* finish_maintenance closes the sessions of a destroyed player and a result
\* that arrives afterwards finds its name gone.  Commands and account jobs
\* take the player of a session without asking its kind again.
PlayersAlive ==
    \A s \in Playing : \E p \in Players : session[s].player = p /\ player[p].kind = "player"

\* Players who are no wizards never exceed the limit by logging in, and by more
\* than the one registration that is permitted at it ("C permits one
\* registration at the configured count and rejects only overflow").
CapacityHolds ==
    LET admittedBy(ways) == {s \in Playing : session[s].by \in ways}
    IN /\ Cardinality(admittedBy({"login"})) <= MaxPlayers
       /\ Cardinality(admittedBy({"login", "register"})) <= MaxPlayers + 1

\* "Hash jobs retain their original identity": a session enters the game as a
\* player only if the name it gave still is that player's and the hash its
\* password was checked against still is the stored one.
NoStaleLogin ==
    [][\A s \in Sessions :
        session[s].flow # "play" /\ session'[s].flow = "play" =>
            \E j \in jobs \ jobs' :
                LET p == player'[session'[s].player]
                IN /\ j.session = s /\ p.kind = "player" /\ p.name = j.name
                   /\ p.hash = IF j.kind = "login" THEN j.hash ELSE j.id]_vars

\* A stored hash is replaced only on behalf of a wizard who is one at that
\* moment and still on the session that asked, and never for a player that
\* is being destroyed.
ResetsAuthorized ==
    [][\A p \in Players :
        player[p].kind = "player" /\ player'[p].kind = "player" /\ player'[p].hash # player[p].hash =>
            \E s \in Playing : /\ IsWizard(session[s].player) /\ ~player[session[s].player].going
                               /\ ~player[p].going
                               /\ \E j \in jobs \ jobs' : j.session = s /\ j.target = p]_vars

\* Every session that waits is answered or closed in the end.
PendingResolved == \A s \in Sessions : session[s].flow = "pending" ~> session[s].flow # "pending"
=============================================================================
