------------------------ MODULE AuthenticationProofs ------------------------
(***************************************************************************)
(* Proofs about logins, password jobs and account administration, for any   *)
(* connections, players and names, and any limits.                          *)
(***************************************************************************)
EXTENDS Authentication, FiniteSetTheorems, TLAPS

SessionType == [flow : Flows, name : Names, player : Players \cup {NoPlayer},
                retry : Int, by : {"none", "login", "register", "wizard"}]
PlayerType == [kind : {"free", "player", "garbage"}, name : Names, hash : Nat,
               wizard : BOOLEAN, going : BOOLEAN]

\* There is a name.
LEMMA SomeName == AnyName \in Names
<1>1. FirstName[God] \in Names
  BY AuthenticationAssumption
<1> QED BY <1>1 DEF AnyName

\* A session at the start of a flow.
LEMMA BlankType ==
    ASSUME NEW f \in Flows
    PROVE /\ Blank(f) \in SessionType
          /\ Blank(f).flow = f /\ Blank(f).by = "none" /\ Blank(f).player = NoPlayer
BY SomeName, AuthenticationAssumption DEF Blank, SessionType

\* World::find_player finds a player of the name, if there is one.
LEMMA FindPlayerFacts ==
    ASSUME NEW n
    PROVE \/ /\ FindPlayer(n) = NoPlayer
             /\ \A p \in Players : ~(player[p].kind = "player" /\ player[p].name = n)
          \/ /\ FindPlayer(n) \in Players /\ FindPlayer(n) # NoPlayer
             /\ player[FindPlayer(n)].kind = "player" /\ player[FindPlayer(n)].name = n
<1> DEFINE P(p) == player[p].kind = "player" /\ player[p].name = n
<1>1. CASE \E p \in Players : P(p)
  <2>1. FindPlayer(n) = CHOOSE p \in Players : P(p)
    BY <1>1 DEF FindPlayer
  <2>2. (CHOOSE p \in Players : P(p)) \in Players /\ P(CHOOSE p \in Players : P(p))
    BY <1>1
  <2> QED BY <2>1, <2>2, AuthenticationAssumption
<1>2. CASE ~ \E p \in Players : P(p)
  BY <1>2 DEF FindPlayer
<1> QED BY <1>1, <1>2

-----------------------------------------------------------------------------
(* Steps of sessions.                                                       *)

\* Only session s changes, to flow f and without a player.
Moves(s, f) ==
    /\ session' \in [Sessions -> SessionType]
    /\ \A t \in Sessions \ {s} : session'[t] = session[t]
    /\ session'[s].flow = f

\* Server::prompt and Server::disconnect move one session; a closed one stays closed.
LEMMA AskMoves ==
    ASSUME session \in [Sessions -> SessionType], NEW s \in Sessions, NEW f \in Flows, Ask(s, f)
    PROVE Moves(s, IF session[s].flow = "gone" THEN "gone" ELSE f)
<1> DEFINE new == IF "gone" \in {session[s].flow, f} THEN Blank("gone")
                  ELSE [session[s] EXCEPT !.flow = f, !.name = AnyName]
<1>1. session' = [session EXCEPT ![s] = new]
  BY DEF Ask
<1>2. session[s] \in SessionType /\ "gone" \in Flows
  BY DEF Flows
<1>3. new \in SessionType /\ new.flow = IF session[s].flow = "gone" THEN "gone" ELSE f
  <2>1. CASE "gone" \in {session[s].flow, f}
    BY <1>2, <2>1, BlankType
  <2>2. CASE "gone" \notin {session[s].flow, f}
    BY <1>2, <2>2, SomeName DEF SessionType
  <2> QED BY <2>1, <2>2
<1> HIDE DEF new
<1> QED BY <1>1, <1>3 DEF Moves

\* A name line moves one session to the next question.
LEMMA NameMoves ==
    ASSUME session \in [Sessions -> SessionType], NEW s \in Sessions, NEW n \in Names,
           GiveName(s, n)
    PROVE Moves(s, "create") \/ Moves(s, "password")
<1> DEFINE f == IF FindPlayer(n) = NoPlayer THEN "create" ELSE "password"
           new == [session[s] EXCEPT !.name = n, !.flow = f]
<1>1. f \in {"create", "password"}
  OBVIOUS
<1>2. session' = [session EXCEPT ![s] = new]
  BY DEF GiveName
<1>3. f \in Flows
  BY <1>1 DEF Flows
<1> HIDE DEF f
<1>4. new \in SessionType /\ new.flow = f
  BY <1>3 DEF SessionType
<1> HIDE DEF new
<1>5. Moves(s, f)
  BY <1>2, <1>4 DEF Moves
<1> QED BY <1>1, <1>5

\* A wrong password closes the session or asks for the name again.
LEMMA RejectedMoves ==
    ASSUME session \in [Sessions -> SessionType], NEW s \in Sessions, Rejected(s)
    PROVE Moves(s, "gone") \/ Moves(s, "name")
<1> DEFINE new == IF FailedLogin(s) THEN Blank("gone")
                  ELSE [Blank("name") EXCEPT !.retry = session[s].retry - 1]
<1>1. session' = [session EXCEPT ![s] = new]
  BY DEF Rejected
<1>2. "name" \in Flows /\ "gone" \in Flows /\ session[s].retry \in Int
  BY DEF Flows, SessionType
<1>3. new \in SessionType /\ new.flow \in {"gone", "name"}
  BY <1>2, BlankType DEF SessionType
<1> HIDE DEF new
<1> QED BY <1>1, <1>3 DEF Moves

\* Only session s changes: it carries player p from now on.
Enters(s, p, by) ==
    /\ session' \in [Sessions -> SessionType]
    /\ \A t \in Sessions \ {s} : session'[t] = session[t]
    /\ session'[s].flow = "play" /\ session'[s].player = p /\ session'[s].by = by

\* A session that enters the game carries the player and how it was admitted.
LEMMA EnterEnters ==
    ASSUME session \in [Sessions -> SessionType], NEW s \in Sessions,
           NEW p \in Players \cup {NoPlayer}, NEW by \in {"login", "register", "wizard"},
           Enter(s, p, by)
    PROVE Enters(s, p, by)
<1> DEFINE new == [Blank("play") EXCEPT !.player = p, !.by = by]
<1>1. session' = [session EXCEPT ![s] = new]
  BY DEF Enter
<1>2. "play" \in Flows
  BY DEF Flows
<1>3. PICK b \in SessionType : b = Blank("play")
  BY <1>2, BlankType
<1>4. by \in {"none", "login", "register", "wizard"}
  OBVIOUS
<1>5. new \in SessionType /\ new.flow = "play" /\ new.player = p /\ new.by = by
  <2>1. b.flow = "play"
    BY <1>2, <1>3, BlankType
  <2>2. new = [b EXCEPT !.player = p, !.by = by]
    BY <1>3
  <2> HIDE DEF new
  <2> QED BY <1>4, <2>1, <2>2 DEF SessionType
<1> HIDE DEF new
<1> QED BY <1>1, <1>5 DEF Enters

-----------------------------------------------------------------------------
(***************************************************************************)
(* The inductive invariant adds to the properties what a job remembers, and *)
(* that jobs and playing sessions are finitely many.                        *)
(***************************************************************************)

\* A job has a number given out, only a reset has a target, and a right password
\* belongs to a player.
JobInv ==
    \A j \in jobs : /\ j.id <= lastJob
                    /\ j.kind = "create" => j.target = NoPlayer
                    /\ j.kind = "login" /\ j.right => j.player \in Players

IInv ==
    /\ TypeOK
    /\ IsFiniteSet(jobs) /\ IsFiniteSet(Playing)
    /\ JobInv
    /\ InflightExact /\ ResetsExact /\ PendingHasJob
    /\ UniqueNames
    /\ CapacityHolds

\* The jobs a session waits for, and what PendingHasJob says of them.
Own(s) == {j \in jobs : j.session = s /\ j.kind \in {"login", "register"}}
Waits(s) ==
    /\ session[s].flow = "pending" => \E j \in Own(s) : Own(s) = {j}
    /\ session[s].flow \notin {"pending", "gone"} => Own(s) = {}

\* PendingHasJob, session by session.
LEMMA PendingIsWaits == PendingHasJob <=> \A s \in Sessions : Waits(s)
<1>1. ASSUME NEW s \in Sessions
      PROVE Waits(s) <=>
              LET own == {j \in jobs : j.session = s /\ j.kind \in {"login", "register"}}
              IN CASE session[s].flow = "pending" -> \E j \in own : own = {j}
                   [] session[s].flow = "gone" -> TRUE
                   [] OTHER -> own = {}
  <2>1. CASE session[s].flow = "pending"
    BY <2>1 DEF Waits, Own
  <2>2. CASE session[s].flow = "gone"
    BY <2>2 DEF Waits, Own
  <2>3. CASE session[s].flow \notin {"pending", "gone"}
    BY <2>3 DEF Waits, Own
  <2> QED BY <2>1, <2>2, <2>3
<1> QED BY <1>1 DEF PendingHasJob

\* Parts of the invariant that the parts of a step preserve.
JobPart == /\ jobs \subseteq JobType /\ inflight \in Nat /\ lastJob \in Nat
           /\ IsFiniteSet(jobs) /\ JobInv /\ InflightExact

\* A job starts.
LEMMA StartJob ==
    ASSUME IInv, NEW job \in JobType, job.id = lastJob + 1,
           job.kind = "create" => job.target = NoPlayer,
           job.kind = "login" /\ job.right => job.player \in Players,
           Capacity, Start(job)
    PROVE JobPart' /\ job \notin jobs /\ jobs' = jobs \cup {job}
<1>1. /\ jobs' = jobs \cup {job} /\ inflight' = inflight + 1 /\ lastJob' = lastJob + 1
      /\ lastJob \in Nat /\ inflight \in Nat /\ jobs \subseteq JobType /\ IsFiniteSet(jobs)
  BY DEF Start, IInv, TypeOK
<1>2. job \notin jobs
  BY <1>1 DEF IInv, JobInv
<1>3. IsFiniteSet(jobs') /\ Cardinality(jobs') = Cardinality(jobs) + 1
  BY <1>1, <1>2, FS_AddElement
<1>4. InflightExact'
  BY <1>1, <1>3, AuthenticationAssumption DEF IInv, InflightExact, Capacity
<1>5. JobInv'
  <2> SUFFICES ASSUME NEW j \in jobs'
               PROVE /\ j.id <= lastJob'
                     /\ j.kind = "create" => j.target = NoPlayer
                     /\ j.kind = "login" /\ j.right => j.player \in Players
    BY DEF JobInv
  <2>1. CASE j = job
    BY <1>1, <2>1
  <2>2. CASE j \in jobs
    <3>1. j.id \in Nat /\ j.id <= lastJob
      BY <1>1, <2>2 DEF JobType, IInv, JobInv
    <3> QED BY <1>1, <2>2, <3>1 DEF IInv, JobInv
  <2> QED BY <1>1, <2>1, <2>2
<1> QED BY <1>1, <1>2, <1>3, <1>4, <1>5 DEF JobPart

\* A job ends.
LEMMA FinishJob ==
    ASSUME IInv, NEW j \in jobs, Finish(j), lastJob' = lastJob
    PROVE JobPart' /\ jobs' = jobs \ {j}
<1>1. /\ jobs' = jobs \ {j} /\ inflight' = IF inflight = 0 THEN 0 ELSE inflight - 1
      /\ lastJob \in Nat /\ inflight \in Nat /\ jobs \subseteq JobType /\ IsFiniteSet(jobs)
      /\ inflight = Cardinality(jobs) /\ inflight <= HashConcurrency
  BY DEF Finish, IInv, TypeOK, InflightExact
<1>2. IsFiniteSet(jobs') /\ Cardinality(jobs') = Cardinality(jobs) - 1
  BY <1>1, FS_RemoveElement
<1>3. inflight # 0
  BY <1>1, FS_EmptySet
<1>4. InflightExact' /\ inflight' \in Nat
  BY <1>1, <1>2, <1>3, AuthenticationAssumption DEF InflightExact
<1>5. JobInv'
  BY <1>1 DEF IInv, JobInv
<1> QED BY <1>1, <1>2, <1>4, <1>5 DEF JobPart

\* A step that starts and ends no job keeps what is said of jobs.
LEMMA SameJobs ==
    ASSUME IInv, UNCHANGED <<jobs, inflight, lastJob>>
    PROVE JobPart'
BY DEF IInv, TypeOK, JobPart, JobInv, InflightExact

\* Who plays.
PlayPart == IsFiniteSet(Playing) /\ CapacityHolds
AdmittedBy(ways) == {s \in Playing : session[s].by \in ways}

\* No session begins to play.
LEMMA NobodyEnters ==
    ASSUME IInv,
           \A t \in Sessions : session'[t].flow = "play" =>
                session[t].flow = "play" /\ session'[t].by = session[t].by
    PROVE PlayPart'
<1>1. Playing' \subseteq Playing /\ IsFiniteSet(Playing)
  BY DEF Playing, IInv
<1>2. IsFiniteSet(Playing')
  BY <1>1, FS_Subset
<1>3. ASSUME NEW ways
      PROVE /\ Cardinality(AdmittedBy(ways)') <= Cardinality(AdmittedBy(ways))
            /\ Cardinality(AdmittedBy(ways)') \in Nat /\ Cardinality(AdmittedBy(ways)) \in Nat
  <2>1. AdmittedBy(ways)' \subseteq AdmittedBy(ways) /\ AdmittedBy(ways) \subseteq Playing
    BY DEF AdmittedBy, Playing
  <2>2. IsFiniteSet(AdmittedBy(ways))
    BY <1>1, <2>1, FS_Subset
  <2>3. IsFiniteSet(AdmittedBy(ways)')
    BY <2>1, <2>2, FS_Subset
  <2> QED BY <2>1, <2>2, <2>3, FS_Subset, FS_CardinalityType
<1>4. /\ Cardinality(AdmittedBy({"login"})) <= MaxPlayers
      /\ Cardinality(AdmittedBy({"login", "register"})) <= MaxPlayers + 1
  BY DEF IInv, CapacityHolds, AdmittedBy
<1>5. /\ Cardinality(AdmittedBy({"login"})') <= MaxPlayers
      /\ Cardinality(AdmittedBy({"login", "register"})') <= MaxPlayers + 1
  BY <1>3, <1>4, AuthenticationAssumption
<1> QED BY <1>2, <1>5 DEF PlayPart, CapacityHolds, AdmittedBy

\* Session s begins to play: by login below the limit, by registration at most
\* at it, or as a wizard.
LEMMA OneEnters ==
    ASSUME IInv, NEW s \in Sessions, session[s].flow # "play", NEW p, NEW by, Enters(s, p, by),
           by = "login" => Cardinality(Playing) < MaxPlayers,
           by = "register" => Cardinality(Playing) <= MaxPlayers
    PROVE PlayPart'
<1>1. IsFiniteSet(Playing) /\ Playing' = Playing \cup {s} /\ s \notin Playing
  BY DEF IInv, Playing, Enters
<1>2. /\ IsFiniteSet(Playing') /\ Cardinality(Playing') = Cardinality(Playing) + 1
      /\ Cardinality(Playing) \in Nat
  BY <1>1, FS_AddElement, FS_CardinalityType
<1>3. ASSUME NEW ways
      PROVE /\ AdmittedBy(ways)' \subseteq Playing'
            /\ by \notin ways => AdmittedBy(ways)' = AdmittedBy(ways)
            /\ Cardinality(AdmittedBy(ways)') <= Cardinality(Playing')
            /\ Cardinality(AdmittedBy(ways)') \in Nat
  <2>1. AdmittedBy(ways)' \subseteq Playing'
    BY DEF AdmittedBy
  <2>2. by \notin ways => AdmittedBy(ways)' = AdmittedBy(ways)
    BY <1>1 DEF AdmittedBy, Enters, Playing
  <2> QED BY <1>2, <2>1, <2>2, FS_Subset, FS_CardinalityType
<1>4. /\ Cardinality(AdmittedBy({"login"})) <= MaxPlayers
      /\ Cardinality(AdmittedBy({"login", "register"})) <= MaxPlayers + 1
  BY DEF IInv, CapacityHolds, AdmittedBy
<1>5. Cardinality(AdmittedBy({"login"})') <= MaxPlayers
  <2>1. CASE by = "login"
    BY <1>2, <1>3, <2>1, AuthenticationAssumption
  <2>2. CASE by # "login"
    <3>1. AdmittedBy({"login"})' = AdmittedBy({"login"})
      BY <1>3, <2>2
    <3> QED BY <1>4, <3>1
  <2> QED BY <2>1, <2>2
<1>6. Cardinality(AdmittedBy({"login", "register"})') <= MaxPlayers + 1
  <2>1. CASE by \in {"login", "register"}
    BY <1>2, <1>3, <2>1, AuthenticationAssumption
  <2>2. CASE by \notin {"login", "register"}
    <3>1. AdmittedBy({"login", "register"})' = AdmittedBy({"login", "register"})
      BY <1>3, <2>2
    <3> QED BY <1>4, <3>1
  <2> QED BY <2>1, <2>2
<1> QED BY <1>2, <1>5, <1>6 DEF PlayPart, CapacityHolds, AdmittedBy

\* The same of the next state.
LEMMA PendingIsWaitsNext == PendingHasJob' <=> (\A s \in Sessions : Waits(s))'
BY PendingIsWaits, PTL

\* The parts make up the invariant.
LEMMA Parts ==
    ASSUME JobPart', PlayPart', session' \in [Sessions -> SessionType],
           player' \in [Players -> PlayerType], resets' \subseteq Players, logins' \in BOOLEAN,
           ResetsExact', \A s \in Sessions : Waits(s)', UniqueNames'
    PROVE IInv'
<1>1. TypeOK'
  BY DEF JobPart, TypeOK, SessionType, PlayerType
<1>2. PendingHasJob'
  BY PendingIsWaitsNext
<1> QED BY <1>1, <1>2 DEF IInv, JobPart, PlayPart

\* What the invariant says of types.
LEMMA Types ==
    ASSUME IInv
    PROVE /\ session \in [Sessions -> SessionType] /\ player \in [Players -> PlayerType]
          /\ jobs \subseteq JobType /\ resets \subseteq Players /\ logins \in BOOLEAN
          /\ lastJob \in Nat /\ inflight \in Nat
          /\ \A s \in Sessions : Waits(s)
BY PendingIsWaits DEF IInv, TypeOK, SessionType, PlayerType

\* Who waits for what, when the jobs of logins and registrations stay the same.
LEMMA SameWaits ==
    ASSUME IInv, NEW t \in Sessions, Own(t)' = Own(t), session'[t].flow = session[t].flow
    PROVE Waits(t)'
BY Types DEF Waits

-----------------------------------------------------------------------------
(* The steps.                                                               *)

\* One session moves on, outside a wait or to its end; nothing else changes.
LEMMA MoveStep ==
    ASSUME IInv, NEW s \in Sessions, NEW f \in Flows \ {"play", "pending"}, Moves(s, f),
           f = "gone" \/ session[s].flow \notin {"pending", "gone"},
           UNCHANGED <<player, jobs, inflight, accountVars, lastJob>>
    PROVE IInv'
<1>1. JobPart'
  BY SameJobs
<1>2. PlayPart'
  BY NobodyEnters DEF Moves
<1>3. \A t \in Sessions : Waits(t)'
  <2> SUFFICES ASSUME NEW t \in Sessions PROVE Waits(t)'
    OBVIOUS
  <2>1. Own(t)' = Own(t)
    BY DEF Own
  <2>2. CASE t # s
    BY <2>1, <2>2, SameWaits DEF Moves
  <2>3. CASE t = s
    BY <2>1, <2>3, Types DEF Moves, Waits
  <2> QED BY <2>2, <2>3
<1>4. ResetsExact' /\ UniqueNames'
  BY DEF accountVars, IInv, ResetsExact, UniqueNames
<1> QED BY <1>1, <1>2, <1>3, <1>4, Parts, Types DEF Moves, accountVars

\* Server::authenticate keeps the invariant: refused, asked again or a job started.
LEMMA AuthenticateStep ==
    ASSUME IInv, NEW s \in Sessions, NEW answer \in {"granted", "full", "empty", "unfit"},
           NEW right \in BOOLEAN, Authenticate(s, answer, right)
    PROVE IInv'
<1> DEFINE create == session[s].flow = "create"
           name == session[s].name
           identity == FindPlayer(name)
           refused == create /\ ~RegistrationAdmitted
           throttled == answer = "empty" \/ (answer # "full" /\ ~Capacity)
           job == Job(IF create THEN "register" ELSE "login", s, name, identity, NoPlayer,
                      IF identity = NoPlayer THEN 0 ELSE player[identity].hash, right)
<1>1. /\ session[s].flow \in {"password", "create"}
      /\ right => create \/ identity # NoPlayer
      /\ UNCHANGED <<player, accountVars>>
  BY DEF Authenticate
<1>2. CASE refused \/ throttled \/ answer # "granted"
  <2>1. UNCHANGED <<jobs, inflight, lastJob>> /\ (Ask(s, "gone") \/ Ask(s, "name"))
    BY <1>2 DEF Authenticate
  <2>2. "gone" \in Flows /\ "name" \in Flows /\ session[s].flow # "gone"
    BY <1>1 DEF Flows
  <2>3. Moves(s, "gone") \/ Moves(s, "name")
    BY <2>1, <2>2, AskMoves, Types
  <2> QED BY <1>1, <2>1, <2>2, <2>3, MoveStep
<1>3. CASE ~(refused \/ throttled \/ answer # "granted")
  <2>1. Start(job) /\ Ask(s, "pending") /\ Capacity
    BY <1>3 DEF Authenticate
  <2>2. "pending" \in Flows /\ session[s].flow # "gone"
    BY <1>1 DEF Flows
  <2>3. Moves(s, "pending")
    BY <2>1, <2>2, AskMoves, Types
  <2>4. /\ job.id = lastJob + 1 /\ job.session = s /\ job.kind \in {"login", "register"}
        /\ job.kind = "login" /\ job.right => job.player \in Players
        /\ job \in JobType
    <3>1. identity \in Players \cup {NoPlayer} /\ (identity # NoPlayer => identity \in Players)
      BY FindPlayerFacts
    <3>2. name \in Names
      BY Types DEF SessionType
    <3>3. (IF identity = NoPlayer THEN 0 ELSE player[identity].hash) \in Nat
      BY <3>1, Types DEF PlayerType
    <3>4. job.kind = "login" <=> ~create
      BY DEF Job
    <3> HIDE DEF identity, name, create
    <3> QED BY <1>1, <3>1, <3>2, <3>3, <3>4, Types DEF Job, JobType
  <2> HIDE DEF job
  <2>5. JobPart' /\ job \notin jobs /\ jobs' = jobs \cup {job}
    BY <2>1, <2>4, StartJob
  <2>6. PlayPart'
    BY <2>3, NobodyEnters DEF Moves
  <2>7. \A t \in Sessions : Waits(t)'
    <3> SUFFICES ASSUME NEW t \in Sessions PROVE Waits(t)'
      OBVIOUS
    <3>1. CASE t # s
      <4>1. Own(t)' = Own(t)
        BY <2>4, <2>5, <3>1 DEF Own
      <4> QED BY <2>3, <3>1, <4>1, SameWaits DEF Moves
    <3>2. CASE t = s
      <4>1. Own(s) = {}
        BY <1>1, Types DEF Waits
      <4>2. Own(s)' = {job}
        BY <2>4, <2>5, <4>1 DEF Own
      <4> QED BY <2>3, <3>2, <4>2 DEF Waits, Moves
    <3> QED BY <3>1, <3>2
  <2>8. ResetsExact'
    <3>1. {k \in jobs' : k.kind = "reset"} = {k \in jobs : k.kind = "reset"}
      BY <2>4, <2>5
    <3> QED BY <1>1, <3>1 DEF IInv, ResetsExact, accountVars
  <2>9. UniqueNames'
    BY <1>1 DEF IInv, UniqueNames
  <2> QED BY <1>1, <2>3, <2>5, <2>6, <2>7, <2>8, <2>9, Parts, Types DEF Moves, accountVars
<1> QED BY <1>2, <1>3

\* A job of an administrator starts; no session changes.
LEMMA AdminStart ==
    ASSUME IInv, NEW job \in JobType, job.id = lastJob + 1, job.kind \in {"create", "reset"},
           job.kind = "create" => job.target = NoPlayer, Capacity, Start(job),
           ResetsExact', resets' \subseteq Players, UNCHANGED <<session, player, logins>>
    PROVE IInv'
<1>1. JobPart' /\ jobs' = jobs \cup {job}
  BY StartJob
<1>2. PlayPart'
  BY NobodyEnters
<1>3. \A t \in Sessions : Waits(t)'
  <2> SUFFICES ASSUME NEW t \in Sessions PROVE Waits(t)'
    OBVIOUS
  <2>1. Own(t)' = Own(t)
    BY <1>1 DEF Own
  <2> QED BY <2>1, SameWaits
<1>4. UniqueNames'
  BY DEF IInv, UniqueNames
<1> QED BY <1>1, <1>2, <1>3, <1>4, Parts, Types

\* @pcreate keeps the invariant.
LEMMA RequestCreateStep ==
    ASSUME IInv, NEW s \in Sessions, NEW n \in Names, RequestCreate(s, n)
    PROVE IInv'
<1> DEFINE job == Job("create", s, n, session[s].player, NoPlayer, 0, TRUE)
<1>1. Start(job) /\ Capacity /\ UNCHANGED <<session, player, accountVars>>
  BY DEF RequestCreate
<1>2. job \in JobType /\ job.id = lastJob + 1 /\ job.kind = "create" /\ job.target = NoPlayer
  BY Types DEF Job, JobType, SessionType
<1> HIDE DEF job
<1>3. {k \in jobs' : k.kind = "reset"} = {k \in jobs : k.kind = "reset"}
  BY <1>1, <1>2 DEF Start
<1>4. ResetsExact' /\ resets' \subseteq Players /\ logins' = logins
  BY <1>1, <1>3, Types DEF IInv, ResetsExact, accountVars
<1> QED BY <1>1, <1>2, <1>4, AdminStart

\* @newpassword keeps the invariant: the mark and the job begin together.
LEMMA RequestResetStep ==
    ASSUME IInv, NEW s \in Sessions, NEW p \in Players, RequestReset(s, p)
    PROVE IInv'
<1> DEFINE job == Job("reset", s, AnyName, session[s].player, p, 0, TRUE)
<1>1. /\ Start(job) /\ Capacity /\ UNCHANGED <<session, player, logins>>
      /\ resets' = resets \cup {p} /\ p \notin resets
  BY DEF RequestReset, ResetAllowed
<1>2. job \in JobType /\ job.id = lastJob + 1 /\ job.kind = "reset" /\ job.target = p
  BY Types, SomeName DEF Job, JobType, SessionType
<1> HIDE DEF job
<1>3. {k \in jobs' : k.kind = "reset"} = {k \in jobs : k.kind = "reset"} \cup {job}
  BY <1>1, <1>2 DEF Start
<1>4. ResetsExact'
  <2>1. resets = {j.target : j \in {k \in jobs : k.kind = "reset"}}
    BY DEF IInv, ResetsExact
  <2>2. resets' = {j.target : j \in {k \in jobs' : k.kind = "reset"}}
    BY <1>1, <1>2, <1>3, <2>1
  <2>3. \A j \in jobs : j.kind = "reset" => j.target # p
    BY <1>1, <2>1
  <2>4. \A j, k \in jobs' : j.kind = "reset" /\ k.kind = "reset" /\ j.target = k.target => j = k
    BY <1>1, <1>2, <2>3 DEF IInv, ResetsExact, Start
  <2> QED BY <2>2, <2>4 DEF ResetsExact
<1> QED BY <1>1, <1>2, <1>4, AdminStart, Types

\* A new player: a free object takes a name nobody has.
LEMMA CreatedFacts ==
    ASSUME IInv, NEW p \in Players, NEW n \in Names, NEW h \in Nat, Created(p, n, h),
           FindPlayer(n) = NoPlayer
    PROVE /\ player' \in [Players -> PlayerType] /\ UniqueNames'
          /\ player'[p].kind = "player" /\ player'[p].name = n /\ player'[p].hash = h
          /\ \A q \in Players : player[q].kind = "player" => player'[q] = player[q]
<1>1. PICK old \in PlayerType : old = player[p]
  BY Types
<1> DEFINE new == [old EXCEPT !.kind = "player", !.name = n, !.hash = h]
<1>2. player' = [player EXCEPT ![p] = new] /\ player[p].kind = "free"
  BY <1>1 DEF Created
<1>3. new \in PlayerType /\ new.kind = "player" /\ new.name = n /\ new.hash = h
  BY DEF PlayerType
<1> HIDE DEF new
<1>4. /\ player' \in [Players -> PlayerType] /\ player'[p] = new
      /\ \A q \in Players \ {p} : player'[q] = player[q]
  BY <1>2, <1>3, Types
<1>5. \A q \in Players : ~(player[q].kind = "player" /\ player[q].name = n)
  BY FindPlayerFacts
<1>6. UniqueNames'
  BY <1>3, <1>4, <1>5 DEF IInv, UniqueNames
<1> QED BY <1>2, <1>3, <1>4, <1>6

\* What the result of a login or a registration does to its session: the session
\* is closed already and stays so, is asked again or closed, or it enters the
\* game as a player whose name and hash are those the job was about.
Answer(j) ==
    LET s == j.session
    IN \/ session[s].flow = "gone" /\ UNCHANGED <<session, player>>
       \/ UNCHANGED player /\ (Moves(s, "gone") \/ (session[s].flow = "pending" /\ Moves(s, "name")))
       \/ /\ session[s].flow = "pending"
          /\ \E p \in Players, by \in {"login", "register", "wizard"} :
                /\ Enters(s, p, by)
                /\ by = "login" => Cardinality(Playing) < MaxPlayers
                /\ by = "register" => Cardinality(Playing) <= MaxPlayers
                /\ player'[p].kind = "player" /\ player'[p].name = j.name
                /\ player'[p].hash = IF j.kind = "login" THEN j.hash ELSE j.id
          /\ player' \in [Players -> PlayerType] /\ UniqueNames'
          /\ \A q \in Players : player[q].kind = "player" => player'[q] = player[q]

\* A session whose result is due waits for it alone or is closed.
LEMMA DueSession ==
    ASSUME IInv, NEW j \in jobs, j.kind \in {"login", "register"}
    PROVE /\ j \in JobType /\ j.session \in Sessions /\ j.name \in Names
          /\ j.hash \in Nat /\ j.id \in Nat
          /\ session[j.session].flow \in {"pending", "gone"}
          /\ session[j.session].flow = "pending" => Own(j.session) = {j}
<1>1. /\ j \in JobType /\ j.session \in Sessions /\ j.name \in Names
      /\ j.hash \in Nat /\ j.id \in Nat
  BY Types DEF JobType
<1>2. j \in Own(j.session)
  BY DEF Own
<1>3. Waits(j.session)
  BY <1>1, Types
<1> QED BY <1>1, <1>2, <1>3 DEF Waits

\* A session is asked again or closed.
LEMMA RefuseAnswers ==
    ASSUME IInv, NEW j \in jobs, j.kind \in {"login", "register"},
           NEW f \in {"name", "gone"}, Refuse(j.session, f)
    PROVE Answer(j)
<1>1. f \in Flows
  BY DEF Flows
<1>2. Moves(j.session, IF session[j.session].flow = "gone" THEN "gone" ELSE f) /\ UNCHANGED player
  BY <1>1, DueSession, AskMoves, Types DEF Refuse
<1>3. CASE session[j.session].flow = "gone"
  BY <1>2, <1>3 DEF Answer
<1>4. CASE session[j.session].flow = "pending"
  BY <1>2, <1>4 DEF Answer
<1> QED BY <1>3, <1>4, DueSession

\* authentication_result of an existing player answers in one of these ways.
LEMMA LoginAnswers ==
    ASSUME IInv, NEW j \in jobs, j.kind = "login", NEW outcome, LoginOutcome(j, outcome)
    PROVE Answer(j)
<1> DEFINE s == j.session
<1>1. CASE Refuse(s, "name") \/ Refuse(s, "gone")
  BY <1>1, RefuseAnswers
<1>2. CASE session[s].flow # "pending" /\ Ignore
  BY <1>2, DueSession DEF Answer, Ignore
<1>3. CASE session[s].flow = "pending" /\ Rejected(s)
  <2>1. UNCHANGED player
    BY <1>3 DEF Rejected
  <2>2. Moves(s, "gone") \/ Moves(s, "name")
    BY <1>3, RejectedMoves, DueSession, Types
  <2> QED BY <1>3, <2>1, <2>2 DEF Answer
<1>4. CASE /\ ~Stale(j) /\ session[s].flow = "pending" /\ j.right
           /\ Admitted(IsWizard(j.player))
           /\ Enter(s, j.player, IF IsWizard(j.player) THEN "wizard" ELSE "login")
           /\ UNCHANGED player
  <2> DEFINE by == IF IsWizard(j.player) THEN "wizard" ELSE "login"
  <2>1. j.player \in Players
    BY <1>4 DEF IInv, JobInv
  <2>2. /\ player[j.player].kind = "player" /\ player[j.player].name = j.name
        /\ player[j.player].hash = j.hash
    BY <1>4, <2>1, FindPlayerFacts, AuthenticationAssumption DEF Stale
  <2>3. by \in {"login", "register", "wizard"} /\ (by = "login" => Cardinality(Playing) < MaxPlayers)
        /\ by # "register"
    BY <1>4 DEF Admitted
  <2>4. Enter(s, j.player, by)
    BY <1>4
  <2> HIDE DEF by
  <2>5. Enters(s, j.player, by)
    BY <2>1, <2>3, <2>4, EnterEnters, DueSession, Types
  <2>6. player' \in [Players -> PlayerType] /\ UniqueNames'
    BY <1>4, Types DEF IInv, UniqueNames
  <2> QED BY <1>4, <2>1, <2>2, <2>3, <2>5, <2>6 DEF Answer
<1> QED BY <1>1, <1>2, <1>3, <1>4 DEF LoginOutcome

\* The result of a registration answers in one of these ways.
LEMMA RegisterAnswers ==
    ASSUME IInv, NEW j \in jobs, j.kind = "register", NEW outcome, RegisterOutcome(j, outcome)
    PROVE Answer(j)
<1> DEFINE s == j.session
<1>1. CASE Refuse(s, "name") \/ Refuse(s, "gone")
  BY <1>1, RefuseAnswers
<1>2. CASE session[s].flow # "pending" /\ Ignore
  BY <1>2, DueSession DEF Answer, Ignore
<1>3. CASE /\ session[s].flow = "pending" /\ RegistrationAdmitted /\ NameFree(j.name)
           /\ \E p \in Players : Created(p, j.name, j.id) /\ Enter(s, p, "register")
  <2>1. PICK p \in Players : Created(p, j.name, j.id) /\ Enter(s, p, "register")
    BY <1>3
  <2>2. Enters(s, p, "register")
    BY <2>1, EnterEnters, DueSession, Types
  <2>3. /\ player' \in [Players -> PlayerType] /\ UniqueNames'
        /\ player'[p].kind = "player" /\ player'[p].name = j.name /\ player'[p].hash = j.id
        /\ \A q \in Players : player[q].kind = "player" => player'[q] = player[q]
    BY <1>3, <2>1, CreatedFacts, DueSession DEF NameFree
  <2>4. Cardinality(Playing) <= MaxPlayers
    BY <1>3 DEF RegistrationAdmitted
  <2> QED BY <1>3, <2>2, <2>3, <2>4 DEF Answer
<1> QED BY <1>1, <1>2, <1>3 DEF RegisterOutcome

\* So does every result of a login or a registration.
LEMMA AuthenticatedAnswers ==
    ASSUME IInv, NEW j, NEW outcome, Authenticated(j, outcome)
    PROVE Answer(j)
BY LoginAnswers, RegisterAnswers DEF Authenticated

\* The result of a login or a registration is met.
LEMMA AuthenticatedStep ==
    ASSUME IInv, NEW j, NEW outcome, Authenticated(j, outcome)
    PROVE IInv'
<1> DEFINE s == j.session
<1>1. /\ j \in jobs /\ j.kind \in {"login", "register"} /\ Finish(j)
      /\ UNCHANGED <<resets, logins, lastJob>>
  BY DEF Authenticated, accountVars
<1>2. s \in Sessions /\ (session[s].flow = "pending" => Own(s) = {j})
  BY <1>1, DueSession
<1>3. JobPart' /\ jobs' = jobs \ {j}
  BY <1>1, FinishJob
<1>4. ResetsExact'
  <2>1. {k \in jobs' : k.kind = "reset"} = {k \in jobs : k.kind = "reset"}
    BY <1>1, <1>3
  <2> QED BY <1>1, <2>1 DEF IInv, ResetsExact
<1>5. ASSUME NEW t \in Sessions \ {s}, session'[t] = session[t]
      PROVE Waits(t)'
  <2>1. Own(t)' = Own(t)
    BY <1>3, <1>5 DEF Own
  <2> QED BY <1>5, <2>1, SameWaits
<1>6. session'[s].flow = "gone" => Waits(s)'
  BY DEF Waits
<1>7. session[s].flow = "pending" /\ session'[s].flow # "pending" => Waits(s)'
  <2>1. session[s].flow = "pending" => Own(s)' = {}
    BY <1>2, <1>3 DEF Own
  <2> QED BY <2>1 DEF Waits
<1>8. CASE session[s].flow = "gone" /\ UNCHANGED <<session, player>>
  <2>1. PlayPart'
    BY <1>8, NobodyEnters
  <2>2. \A t \in Sessions : Waits(t)'
    BY <1>5, <1>6, <1>8
  <2>3. UniqueNames'
    BY <1>8 DEF IInv, UniqueNames
  <2> QED BY <1>1, <1>3, <1>4, <1>8, <2>1, <2>2, <2>3, Parts, Types
<1>9. CASE /\ UNCHANGED player
           /\ Moves(s, "gone") \/ (session[s].flow = "pending" /\ Moves(s, "name"))
  <2>1. PlayPart'
    BY <1>2, <1>9, NobodyEnters DEF Moves
  <2>2. \A t \in Sessions : Waits(t)'
    BY <1>5, <1>6, <1>7, <1>9 DEF Moves
  <2>3. UniqueNames'
    BY <1>9 DEF IInv, UniqueNames
  <2>4. session' \in [Sessions -> SessionType]
    BY <1>9 DEF Moves
  <2> QED BY <1>1, <1>3, <1>4, <1>9, <2>1, <2>2, <2>3, <2>4, Parts, Types
<1>10. ASSUME session[s].flow = "pending", NEW p \in Players,
              NEW by \in {"login", "register", "wizard"}, Enters(s, p, by),
              by = "login" => Cardinality(Playing) < MaxPlayers,
              by = "register" => Cardinality(Playing) <= MaxPlayers,
              player' \in [Players -> PlayerType], UniqueNames'
       PROVE IInv'
  <2>1. PlayPart'
    BY <1>2, <1>10, OneEnters
  <2>2. \A t \in Sessions : Waits(t)'
    BY <1>5, <1>7, <1>10 DEF Enters
  <2>3. session' \in [Sessions -> SessionType]
    BY <1>10 DEF Enters
  <2> QED BY <1>1, <1>3, <1>4, <1>10, <2>1, <2>2, <2>3, Parts, Types
<1>11. Answer(j)
  BY AuthenticatedAnswers
<1> QED BY <1>8, <1>9, <1>10, <1>11 DEF Answer

\* What the result of an administrator's job does to the players: nothing, or a
\* new player, or a new hash for the target while the wizard may still do so.
LEMMA AdminEffect ==
    ASSUME IInv, NEW j, NEW outcome, AdminHashed(j, outcome)
    PROVE /\ player' \in [Players -> PlayerType] /\ UniqueNames'
          /\ \A q \in Players :
                player[q].kind = "player" /\ player'[q].hash # player[q].hash =>
                    StillAuthorized(j) /\ j.target = q /\ ~player[q].going
          /\ \A q \in Players : player[q].kind = "player" => player'[q].kind = "player"
<1>1. j \in jobs /\ j \in JobType /\ j.name \in Names /\ j.id \in Nat
  BY Types DEF AdminHashed, JobType
<1>2. CASE UNCHANGED player
  BY <1>2, Types DEF IInv, UniqueNames
<1>3. CASE NameFree(j.name) /\ \E p \in Players : Created(p, j.name, j.id)
  BY <1>1, <1>3, CreatedFacts DEF NameFree
<1>4. CASE /\ StillAuthorized(j) /\ player[j.target].kind = "player" /\ ~player[j.target].going
           /\ j.target \in Players
           /\ player' = [player EXCEPT ![j.target].hash = j.id]
  <2>1. PICK old \in PlayerType : old = player[j.target]
    BY <1>4, Types
  <2> DEFINE new == [old EXCEPT !.hash = j.id]
  <2>2. player' = [player EXCEPT ![j.target] = new]
    BY <1>4, <2>1
  <2>3. new \in PlayerType /\ new.kind = old.kind /\ new.name = old.name
    BY <1>1 DEF PlayerType
  <2> HIDE DEF new
  <2>4. /\ player' \in [Players -> PlayerType] /\ player'[j.target] = new
        /\ \A q \in Players \ {j.target} : player'[q] = player[q]
    BY <1>4, <2>2, <2>3, Types
  <2>5. UniqueNames'
    BY <2>1, <2>3, <2>4 DEF IInv, UniqueNames
  <2> QED BY <1>4, <2>1, <2>3, <2>4, <2>5
<1>5. j.kind = "reset" => j.target \in Players
  BY <1>1 DEF IInv, ResetsExact, TypeOK
<1> QED BY <1>1, <1>2, <1>3, <1>4, <1>5 DEF AdminHashed

\* admin_hashed keeps the invariant: the mark and the job end together.
LEMMA AdminHashedStep ==
    ASSUME IInv, NEW j, NEW outcome, AdminHashed(j, outcome)
    PROVE IInv'
<1>1. /\ j \in jobs /\ j.kind \in {"create", "reset"} /\ Finish(j)
      /\ resets' = resets \ {j.target} /\ UNCHANGED <<session, logins, lastJob>>
  BY DEF AdminHashed
<1>2. JobPart' /\ jobs' = jobs \ {j}
  BY <1>1, FinishJob
<1>3. PlayPart'
  BY <1>1, NobodyEnters
<1>4. ResetsExact'
  <2>1. /\ resets = {k.target : k \in {l \in jobs : l.kind = "reset"}}
        /\ \A k, l \in jobs : k.kind = "reset" /\ l.kind = "reset" /\ k.target = l.target => k = l
    BY DEF IInv, ResetsExact
  <2>2. resets' = {k.target : k \in {l \in jobs' : l.kind = "reset"}}
    <3>1. CASE j.kind = "reset"
      BY <1>1, <1>2, <2>1, <3>1
    <3>2. CASE j.kind = "create"
      <4>1. j.target \notin resets
        BY <1>1, <3>2, Types, AuthenticationAssumption DEF IInv, JobInv
      <4> QED BY <1>1, <1>2, <2>1, <3>2, <4>1
    <3> QED BY <1>1, <3>1, <3>2
  <2> QED BY <1>2, <2>1, <2>2 DEF ResetsExact
<1>5. \A t \in Sessions : Waits(t)'
  <2> SUFFICES ASSUME NEW t \in Sessions PROVE Waits(t)'
    OBVIOUS
  <2>1. Own(t)' = Own(t)
    BY <1>1, <1>2 DEF Own
  <2> QED BY <1>1, <2>1, SameWaits
<1> QED BY <1>1, <1>2, <1>3, <1>4, <1>5, AdminEffect, Parts, Types

\* A step that changes players alone keeps the rest.
LEMMA PlayerStep ==
    ASSUME IInv, player' \in [Players -> PlayerType], UniqueNames',
           session' \in [Sessions -> SessionType],
           \A t \in Sessions : \/ session'[t] = session[t]
                               \/ session[t].flow = "play" /\ session'[t].flow = "gone",
           UNCHANGED <<jobs, inflight, accountVars, lastJob>>
    PROVE IInv'
<1>1. JobPart'
  BY SameJobs
<1>2. PlayPart'
  BY NobodyEnters
<1>3. \A t \in Sessions : Waits(t)'
  <2> SUFFICES ASSUME NEW t \in Sessions PROVE Waits(t)'
    OBVIOUS
  <2>1. Own(t)' = Own(t)
    BY DEF Own
  <2>2. CASE session'[t] = session[t]
    BY <2>1, <2>2, SameWaits
  <2>3. CASE session'[t].flow = "gone"
    BY <2>3 DEF Waits
  <2> QED BY <2>2, <2>3
<1>4. ResetsExact' /\ resets' \subseteq Players /\ logins' \in BOOLEAN
  BY Types DEF accountVars, IInv, ResetsExact
<1> QED BY <1>1, <1>2, <1>3, <1>4, Parts

\* A new name keeps the invariant, every hash and every kind.
LEMMA RenameStep ==
    ASSUME IInv, NEW p \in Players, NEW n \in Names, Rename(p, n)
    PROVE IInv' /\ \A q \in Players : /\ player'[q].hash = player[q].hash
                                      /\ player'[q].kind = player[q].kind
<1>1. PICK old \in PlayerType : old = player[p]
  BY Types
<1> DEFINE new == [old EXCEPT !.name = n]
<1>2. /\ player' = [player EXCEPT ![p] = new] /\ FindPlayer(n) \in {NoPlayer, p}
      /\ UNCHANGED <<session, jobs, inflight, accountVars, lastJob>>
  BY <1>1 DEF Rename
<1>3. new \in PlayerType /\ new.kind = old.kind /\ new.name = n /\ new.hash = old.hash
  BY DEF PlayerType
<1> HIDE DEF new
<1>4. /\ player' \in [Players -> PlayerType] /\ player'[p] = new
      /\ \A q \in Players \ {p} : player'[q] = player[q]
  BY <1>2, <1>3, Types
<1>5. \A q \in Players \ {p} : ~(player[q].kind = "player" /\ player[q].name = n)
  BY <1>2, FindPlayerFacts DEF IInv, UniqueNames
<1>6. UniqueNames'
  BY <1>3, <1>4, <1>5 DEF IInv, UniqueNames
<1> QED BY <1>1, <1>2, <1>3, <1>4, <1>6, PlayerStep, Types

\* New flags keep the invariant, every hash and every kind.
LEMMA SetFlagsStep ==
    ASSUME IInv, NEW p \in Players, NEW wizard \in BOOLEAN, NEW going \in BOOLEAN,
           SetFlags(p, wizard, going)
    PROVE IInv' /\ \A q \in Players : /\ player'[q].hash = player[q].hash
                                      /\ player'[q].kind = player[q].kind
<1>1. PICK old \in PlayerType : old = player[p]
  BY Types
<1> DEFINE new == [old EXCEPT !.wizard = wizard, !.going = going]
<1>2. /\ player' = [player EXCEPT ![p] = new]
      /\ UNCHANGED <<session, jobs, inflight, accountVars, lastJob>>
  BY <1>1 DEF SetFlags
<1>3. new \in PlayerType /\ new.kind = old.kind /\ new.name = old.name /\ new.hash = old.hash
  BY DEF PlayerType
<1> HIDE DEF new
<1>4. /\ player' \in [Players -> PlayerType] /\ player'[p] = new
      /\ \A q \in Players \ {p} : player'[q] = player[q]
  BY <1>2, <1>3, Types
<1>5. UniqueNames'
  BY <1>1, <1>3, <1>4 DEF IInv, UniqueNames
<1> QED BY <1>1, <1>2, <1>3, <1>4, <1>5, PlayerStep, Types

\* Removing a destroyed player keeps the invariant and lets nobody in.
LEMMA PurgeStep ==
    ASSUME IInv, NEW p \in Players, Purge(p)
    PROVE /\ IInv'
          /\ \A q \in Players : player'[q].kind = "player" => player'[q].hash = player[q].hash
          /\ \A t \in Sessions : session'[t].flow = "play" => session[t].flow = "play"
<1> DEFINE new == [kind |-> "garbage", name |-> AnyName, hash |-> 0, wizard |-> FALSE, going |-> TRUE]
<1>1. /\ player' = [player EXCEPT ![p] = new]
      /\ session' = [s \in Sessions |-> IF s \in Playing /\ session[s].player = p
                                          THEN Blank("gone") ELSE session[s]]
      /\ UNCHANGED <<jobs, inflight, accountVars, lastJob>>
  BY DEF Purge
<1>2. new \in PlayerType /\ new.kind = "garbage"
  BY SomeName DEF PlayerType
<1> HIDE DEF new
<1>3. /\ player' \in [Players -> PlayerType] /\ player'[p] = new
      /\ \A q \in Players \ {p} : player'[q] = player[q]
  BY <1>1, <1>2, Types
<1>4. UniqueNames'
  BY <1>2, <1>3 DEF IInv, UniqueNames
<1>5. Blank("gone") \in SessionType /\ Blank("gone").flow = "gone"
  BY BlankType DEF Flows
<1>6. /\ session' \in [Sessions -> SessionType]
      /\ \A t \in Sessions : \/ session'[t] = session[t]
                             \/ session[t].flow = "play" /\ session'[t].flow = "gone"
  BY <1>1, <1>5, Types DEF Playing
<1> QED BY <1>1, <1>2, <1>3, <1>4, <1>6, PlayerStep

\* @enable logins and @disable logins keep the invariant.
LEMMA GlobalControlStep ==
    ASSUME IInv, GlobalControl
    PROVE IInv'
<1>1. JobPart'
  BY SameJobs DEF GlobalControl
<1>2. PlayPart'
  BY NobodyEnters DEF GlobalControl
<1>3. \A t \in Sessions : Waits(t)'
  BY SameWaits DEF GlobalControl, Own
<1>4. ResetsExact' /\ UniqueNames' /\ logins' \in BOOLEAN
  BY DEF GlobalControl, IInv, ResetsExact, UniqueNames
<1> QED BY <1>1, <1>2, <1>3, <1>4, Parts, Types DEF GlobalControl

\* So does a step that changes nothing.
LEMMA StutterStep ==
    ASSUME IInv, UNCHANGED vars
    PROVE IInv'
BY PlayerStep, Types DEF vars, accountVars, IInv, UniqueNames

\* The steps of logging in that only move one session.
LEMMA SessionStep ==
    ASSUME IInv, NEW s \in Sessions,
           Accept(s) \/ Decline(s) \/ Disconnect(s) \/ \E n \in Names : GiveName(s, n)
    PROVE IInv'
<1>1. "gone" \in Flows /\ "name" \in Flows /\ "create" \in Flows /\ "password" \in Flows
  BY DEF Flows
<1>2. CASE Accept(s) \/ Decline(s)
  <2>1. Moves(s, "name") /\ session[s].flow \notin {"pending", "gone"}
    BY <1>1, <1>2, AskMoves, Types DEF Accept, Decline
  <2> QED BY <1>1, <1>2, <2>1, MoveStep DEF Accept, Decline
<1>3. CASE Disconnect(s)
  <2>1. Moves(s, "gone")
    BY <1>1, <1>3, AskMoves, Types DEF Disconnect
  <2> QED BY <1>1, <1>3, <2>1, MoveStep DEF Disconnect
<1>4. ASSUME NEW n \in Names, GiveName(s, n) PROVE IInv'
  <2>1. Moves(s, "create") \/ Moves(s, "password")
    BY <1>4, NameMoves, Types
  <2> QED BY <1>1, <1>4, <2>1, MoveStep DEF GiveName
<1> QED BY <1>2, <1>3, <1>4

\* The invariant holds of a new database,
LEMMA InitHolds == Init => IInv
<1> SUFFICES ASSUME Init PROVE IInv
  OBVIOUS
<1>1. /\ session = [s \in Sessions |-> Blank("new")]
      /\ jobs = {} /\ inflight = 0 /\ resets = {} /\ lastJob = 0 /\ logins = TRUE
  BY DEF Init
<1>2. Blank("new") \in SessionType /\ Blank("new").flow = "new"
  BY BlankType DEF Flows
<1>3. player \in [Players -> PlayerType]
  <2>1. \A p \in DOMAIN FirstName : FirstName[p] \in Names
    BY AuthenticationAssumption
  <2> QED BY <2>1, SomeName DEF Init, PlayerType
<1>4. TypeOK
  BY <1>1, <1>2, <1>3 DEF TypeOK, SessionType, PlayerType
<1>5. Playing = {}
  BY <1>1, <1>2 DEF Playing
<1>6. IsFiniteSet({}) /\ Cardinality({}) = 0
  BY FS_EmptySet
<1>7. IsFiniteSet(jobs) /\ IsFiniteSet(Playing) /\ InflightExact
  BY <1>1, <1>5, <1>6, AuthenticationAssumption DEF InflightExact
<1>8. JobInv /\ ResetsExact
  BY <1>1 DEF JobInv, ResetsExact
<1>9. PendingHasJob
  <2>1. \A s \in Sessions : Waits(s)
    BY <1>1, <1>2 DEF Waits, Own
  <2> QED BY <2>1, PendingIsWaits
<1>10. UniqueNames
  <2>1. \A p \in Players : player[p].kind = "player" =>
            p \in DOMAIN FirstName /\ player[p].name = FirstName[p]
    BY DEF Init
  <2> QED BY <2>1, AuthenticationAssumption DEF UniqueNames
<1>11. CapacityHolds
  <2>1. AdmittedBy({"login"}) = {} /\ AdmittedBy({"login", "register"}) = {}
    BY <1>5 DEF AdmittedBy
  <2>2. /\ Cardinality(AdmittedBy({"login"})) <= MaxPlayers
        /\ Cardinality(AdmittedBy({"login", "register"})) <= MaxPlayers + 1
    <3>1. MaxPlayers \in Nat
      BY AuthenticationAssumption
    <3>2. 0 <= MaxPlayers /\ 0 <= MaxPlayers + 1
      BY <3>1
    <3> QED BY <1>6, <2>1, <3>2, Zenon
  <2> QED BY <2>2 DEF CapacityHolds, AdmittedBy
<1> QED BY <1>4, <1>7, <1>8, <1>9, <1>10, <1>11 DEF IInv

\* every step keeps it, action by action,
LEMMA StepHolds == IInv /\ [Next]_vars => IInv'
<1> SUFFICES ASSUME IInv, [Next]_vars PROVE IInv'
  OBVIOUS
<1>1. ASSUME NEW s \in Sessions,
             Accept(s) \/ Decline(s) \/ Disconnect(s) \/ \E n \in Names : GiveName(s, n)
      PROVE IInv'
  BY <1>1, SessionStep
<1>2. ASSUME NEW s \in Sessions, NEW answer \in {"granted", "full", "empty", "unfit"},
             NEW right \in BOOLEAN, Authenticate(s, answer, right)
      PROVE IInv'
  BY <1>2, AuthenticateStep
<1>3. ASSUME NEW s \in Sessions, NEW n \in Names, RequestCreate(s, n) PROVE IInv'
  BY <1>3, RequestCreateStep
<1>4. ASSUME NEW s \in Sessions, NEW p \in Players, RequestReset(s, p) PROVE IInv'
  BY <1>4, RequestResetStep
<1>5. ASSUME NEW id \in 1 .. lastJob, Result(id) PROVE IInv'
  BY <1>5, AuthenticatedStep, AdminHashedStep DEF Result
<1>6. ASSUME NEW p \in Players, NEW n \in Names, Rename(p, n) PROVE IInv'
  BY <1>6, RenameStep
<1>7. ASSUME NEW p \in Players, NEW wizard \in BOOLEAN, NEW going \in BOOLEAN,
             SetFlags(p, wizard, going)
      PROVE IInv'
  BY <1>7, SetFlagsStep
<1>8. ASSUME NEW p \in Players, Purge(p) PROVE IInv'
  BY <1>8, PurgeStep
<1>9. CASE GlobalControl
  BY <1>9, GlobalControlStep
<1>10. CASE UNCHANGED vars
  BY <1>10, StutterStep
<1> QED BY <1>1, <1>2, <1>3, <1>4, <1>5, <1>6, <1>7, <1>8, <1>9, <1>10 DEF Next

\* and so it always holds.
LEMMA Invariance == Spec => []IInv
BY InitHolds, StepHolds, PTL DEF Spec

-----------------------------------------------------------------------------
(* The theorems.                                                            *)

\* Sessions, accounts and jobs stay well-formed and the unsigned counter of
\* running jobs (authentication.inflight) never falls below zero.
THEOREM TypeCorrect == Spec => []TypeOK
<1>1. IInv => TypeOK
  BY DEF IInv
<1> QED BY <1>1, Invariance, PTL

\* On every path of authentication_result and admin_hashed the counter is the
\* number of jobs, a reset is marked exactly while it runs, and a session waits
\* for exactly one job.
THEOREM AccountedJobs == Spec => []JobsAccounted
<1>1. IInv => JobsAccounted
  BY DEF IInv, JobsAccounted
<1> QED BY <1>1, Invariance, PTL

\* No two players share a name, whatever results, creations and renames arrive
\* in whatever order.
THEOREM NamesUnique == Spec => []UniqueNames
<1>1. IInv => UniqueNames
  BY DEF IInv
<1> QED BY <1>1, Invariance, PTL

\* Controls::admission and Controls::registration, asked when a result arrives,
\* keep the number of admitted players within the limit.
THEOREM CapacityKept == Spec => []CapacityHolds
<1>1. IInv => CapacityHolds
  BY DEF IInv
<1> QED BY <1>1, Invariance, PTL

\* The body of NoStaleLogin.
FreshEntry ==
    \A s \in Sessions :
        session[s].flow # "play" /\ session'[s].flow = "play" =>
            \E j \in jobs \ jobs' :
                LET p == player'[session'[s].player]
                IN /\ j.session = s /\ p.kind = "player" /\ p.name = j.name
                   /\ p.hash = IF j.kind = "login" THEN j.hash ELSE j.id

\* Only a result brings a session into the game, and only its own session.
LEMMA EntryStep == IInv /\ [Next]_vars => FreshEntry
<1> SUFFICES ASSUME IInv, [Next]_vars, NEW s \in Sessions,
                    session[s].flow # "play", session'[s].flow = "play"
             PROVE \E j \in jobs \ jobs' :
                      LET p == player'[session'[s].player]
                      IN /\ j.session = s /\ p.kind = "player" /\ p.name = j.name
                         /\ p.hash = IF j.kind = "login" THEN j.hash ELSE j.id
  BY DEF FreshEntry
<1>1. ASSUME NEW t \in Sessions, NEW f, Moves(t, f), f # "play" PROVE FALSE
  BY <1>1 DEF Moves
<1>2. ASSUME NEW t \in Sessions, NEW f \in Flows \ {"play"}, Ask(t, f) PROVE FALSE
  BY <1>1, <1>2, AskMoves, Types
<1>3. "name" \in Flows /\ "gone" \in Flows /\ "pending" \in Flows
  BY DEF Flows
<1>4. ASSUME NEW t \in Sessions, Accept(t) \/ Decline(t) \/ Disconnect(t) PROVE FALSE
  BY <1>2, <1>3, <1>4 DEF Accept, Decline, Disconnect
<1>5. ASSUME NEW t \in Sessions, NEW n \in Names, GiveName(t, n) PROVE FALSE
  BY <1>1, <1>5, NameMoves, Types
<1>6. ASSUME NEW t \in Sessions, NEW answer, NEW right, Authenticate(t, answer, right) PROVE FALSE
  <2>1. Ask(t, "gone") \/ Ask(t, "name") \/ Ask(t, "pending")
    BY <1>6 DEF Authenticate
  <2> QED BY <1>2, <1>3, <1>6, <2>1
<1>7. ASSUME session' = session PROVE FALSE
  BY <1>7
<1>8. ASSUME NEW p \in Players, Purge(p) PROVE FALSE
  BY <1>8, PurgeStep
<1>9. ASSUME NEW j, NEW outcome, Authenticated(j, outcome)
      PROVE j \in jobs \ jobs' /\
            LET p == player'[session'[s].player]
            IN /\ j.session = s /\ p.kind = "player" /\ p.name = j.name
               /\ p.hash = IF j.kind = "login" THEN j.hash ELSE j.id
  <2>1. j \in jobs \ jobs' /\ j.session \in Sessions
    BY <1>9, Types DEF Authenticated, Finish, JobType
  <2>2. Answer(j)
    BY <1>9, AuthenticatedAnswers
  <2>3. CASE UNCHANGED <<session, player>>
    BY <2>3
  <2>4. CASE Moves(j.session, "gone") \/ Moves(j.session, "name")
    BY <1>1, <2>1, <2>4
  <2>5. ASSUME NEW p \in Players, NEW by, Enters(j.session, p, by),
               player'[p].kind = "player", player'[p].name = j.name,
               player'[p].hash = IF j.kind = "login" THEN j.hash ELSE j.id
        PROVE LET q == player'[session'[s].player]
              IN /\ j.session = s /\ q.kind = "player" /\ q.name = j.name
                 /\ q.hash = IF j.kind = "login" THEN j.hash ELSE j.id
    BY <2>1, <2>5 DEF Enters
  <2> QED BY <2>1, <2>2, <2>3, <2>4, <2>5 DEF Answer
<1>10. session' = session \/ \E j \in jobs : \E outcome : Authenticated(j, outcome)
  BY <1>4, <1>5, <1>6, <1>8
     DEF Next, vars, RequestCreate, RequestReset, Result, AdminHashed, Rename, SetFlags, GlobalControl
<1> QED BY <1>7, <1>9, <1>10

\* A result that arrives late never lets a session in: the name still leads to the
\* player and the hash compared still is the stored one (authentication_result).
THEOREM FreshLogins == Spec => NoStaleLogin
<1>1. IInv /\ [Next]_vars => [FreshEntry]_vars
  BY EntryStep
<1>2. Spec => [][FreshEntry]_vars
  BY <1>1, Invariance, PTL DEF Spec
<1> QED BY <1>2 DEF NoStaleLogin, FreshEntry

\* A session that goes on playing keeps its player, and living players live on.
LEMMA StillAlive ==
    ASSUME PlayersAlive,
           \A t \in Sessions : session'[t].flow = "play" =>
                session[t].flow = "play" /\ session'[t].player = session[t].player,
           \A q \in Players : player[q].kind = "player" => player'[q].kind = "player"
    PROVE PlayersAlive'
BY DEF PlayersAlive, Playing

\* Every step leaves only living players in the game.
LEMMA AliveStep == IInv /\ PlayersAlive /\ [Next]_vars => PlayersAlive'
<1> SUFFICES ASSUME IInv, PlayersAlive, [Next]_vars PROVE PlayersAlive'
  OBVIOUS
<1>1. ASSUME NEW t \in Sessions, NEW f, f # "play", Moves(t, f), player' = player
      PROVE PlayersAlive'
  BY <1>1, StillAlive DEF Moves
<1>2. "name" \in Flows /\ "gone" \in Flows /\ "pending" \in Flows
  BY DEF Flows
<1>3. ASSUME NEW t \in Sessions, NEW f \in {"name", "gone", "pending"}, Ask(t, f),
             player' = player
      PROVE PlayersAlive'
  BY <1>1, <1>2, <1>3, AskMoves, Types
<1>4. ASSUME NEW t \in Sessions, Accept(t) \/ Decline(t) \/ Disconnect(t) PROVE PlayersAlive'
  BY <1>3, <1>4 DEF Accept, Decline, Disconnect
<1>5. ASSUME NEW t \in Sessions, NEW n \in Names, GiveName(t, n) PROVE PlayersAlive'
  BY <1>1, <1>5, NameMoves, Types DEF GiveName
<1>6. ASSUME NEW t \in Sessions, NEW answer, NEW right, Authenticate(t, answer, right)
      PROVE PlayersAlive'
  <2>1. player' = player /\ (Ask(t, "gone") \/ Ask(t, "name") \/ Ask(t, "pending"))
    BY <1>6 DEF Authenticate
  <2> QED BY <1>3, <1>6, <2>1
<1>7. ASSUME session' = session,
             \A q \in Players : player[q].kind = "player" => player'[q].kind = "player"
      PROVE PlayersAlive'
  BY <1>7, StillAlive
<1>8. ASSUME NEW q \in Players, \/ \E n \in Names : Rename(q, n)
                                \/ \E wizard, going \in BOOLEAN : SetFlags(q, wizard, going)
      PROVE PlayersAlive'
  BY <1>7, <1>8, RenameStep, SetFlagsStep DEF Rename, SetFlags
<1>9. ASSUME NEW p \in Players, Purge(p) PROVE PlayersAlive'
  <2>1. /\ \A q \in Players \ {p} : player'[q] = player[q]
        /\ \A t \in Sessions : session'[t] = IF t \in Playing /\ session[t].player = p
                                               THEN Blank("gone") ELSE session[t]
    BY <1>9, Types DEF Purge
  <2>2. Blank("gone").flow = "gone"
    BY <1>2, BlankType
  <2>3. \A t \in Sessions : session'[t].flow = "play" =>
            t \in Playing /\ session'[t] = session[t] /\ session[t].player # p
    BY <2>1, <2>2 DEF Playing
  <2> QED BY <2>1, <2>3 DEF PlayersAlive, Playing
<1>10. ASSUME NEW j, NEW outcome, Authenticated(j, outcome) PROVE PlayersAlive'
  <2>1. j.session \in Sessions
    BY <1>10, Types DEF Authenticated, JobType
  <2>2. Answer(j)
    BY <1>10, AuthenticatedAnswers
  <2>3. CASE UNCHANGED <<session, player>>
    BY <1>7, <2>3
  <2>4. CASE player' = player /\ (Moves(j.session, "gone") \/ Moves(j.session, "name"))
    BY <1>1, <2>1, <2>4
  <2>5. ASSUME NEW p \in Players, NEW by, Enters(j.session, p, by), player'[p].kind = "player",
               \A q \in Players : player[q].kind = "player" => player'[q] = player[q]
        PROVE PlayersAlive'
    BY <2>1, <2>5 DEF Enters, PlayersAlive, Playing
  <2> QED BY <2>2, <2>3, <2>4, <2>5 DEF Answer
<1>11. ASSUME NEW j, NEW outcome, AdminHashed(j, outcome) PROVE PlayersAlive'
  BY <1>7, <1>11, AdminEffect DEF AdminHashed
<1>12. \/ UNCHANGED <<session, player>>
       \/ \E j \in jobs : \E outcome : Authenticated(j, outcome) \/ AdminHashed(j, outcome)
       \/ PlayersAlive'
  BY <1>4, <1>5, <1>6, <1>8, <1>9
     DEF Next, vars, RequestCreate, RequestReset, Result, GlobalControl
<1> QED BY <1>7, <1>10, <1>11, <1>12

\* No session carries a destroyed player, whenever players are destroyed and
\* results of their logins arrive (finish_maintenance, authentication_result).
THEOREM OnlyTheLivingPlay == Spec => []PlayersAlive
<1>1. Init => PlayersAlive
  <2>1. Blank("new").flow = "new"
    BY BlankType DEF Flows
  <2> QED BY <2>1 DEF Init, PlayersAlive, Playing
<1> QED BY <1>1, AliveStep, Invariance, PTL DEF Spec

\* The body of ResetsAuthorized.
AuthorizedChange ==
    \A p \in Players :
        player[p].kind = "player" /\ player'[p].kind = "player" /\ player'[p].hash # player[p].hash =>
            \E s \in Playing : /\ IsWizard(session[s].player) /\ ~player[session[s].player].going
                               /\ ~player[p].going
                               /\ \E j \in jobs \ jobs' : j.session = s /\ j.target = p

\* Only the result of an administrator's job replaces the hash of a player.
LEMMA HashStep == IInv /\ [Next]_vars => AuthorizedChange
<1> SUFFICES ASSUME IInv, [Next]_vars, NEW p \in Players, player[p].kind = "player",
                    player'[p].kind = "player", player'[p].hash # player[p].hash
             PROVE \E s \in Playing :
                       /\ IsWizard(session[s].player) /\ ~player[session[s].player].going
                       /\ ~player[p].going
                       /\ \E j \in jobs \ jobs' : j.session = s /\ j.target = p
  BY DEF AuthorizedChange
<1>1. ASSUME player' = player PROVE FALSE
  BY <1>1
<1>2. ASSUME NEW q \in Players, \/ \E n \in Names : Rename(q, n)
                                \/ \E wizard, going \in BOOLEAN : SetFlags(q, wizard, going)
                                \/ Purge(q)
      PROVE FALSE
  BY <1>2, RenameStep, SetFlagsStep, PurgeStep
<1>3. ASSUME NEW j, NEW outcome, Authenticated(j, outcome) PROVE FALSE
  BY <1>1, <1>3, AuthenticatedAnswers DEF Answer
<1>4. ASSUME NEW j, NEW outcome, AdminHashed(j, outcome)
      PROVE \E s \in Playing :
                /\ IsWizard(session[s].player) /\ ~player[session[s].player].going
                /\ ~player[p].going
                /\ \E k \in jobs \ jobs' : k.session = s /\ k.target = p
  <2>1. StillAuthorized(j) /\ j.target = p /\ ~player[p].going
    BY <1>4, AdminEffect
  <2>2. j \in jobs \ jobs' /\ j.session \in Sessions
    BY <1>4, Types DEF AdminHashed, Finish, JobType
  <2>3. j.session \in Playing
    BY <2>1, <2>2 DEF StillAuthorized, Playing
  <2> QED BY <2>1, <2>2, <2>3 DEF StillAuthorized
<1>5. \/ player' = player
      \/ \E j \in jobs : \E outcome : Authenticated(j, outcome) \/ AdminHashed(j, outcome)
  BY <1>2 DEF Next, vars, Accept, Decline, Disconnect, GiveName, Authenticate, RequestCreate,
              RequestReset, Result, GlobalControl
<1> QED BY <1>1, <1>3, <1>4, <1>5

\* A stored hash is replaced only for a wizard who still is one and still on the
\* session that asked (admin_hashed checks again when the result arrives).
THEOREM AuthorizedResets == Spec => ResetsAuthorized
<1>1. IInv /\ [Next]_vars => [AuthorizedChange]_vars
  BY HashStep
<1>2. Spec => [][AuthorizedChange]_vars
  BY <1>1, Invariance, PTL DEF Spec
<1> QED BY <1>2 DEF ResetsAuthorized, AuthorizedChange
=============================================================================
