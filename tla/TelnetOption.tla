---------------------------- MODULE TelnetOption ----------------------------
(***************************************************************************)
(* Negotiation of one Telnet option between the server and a client, each   *)
(* with the option automaton of crates/telnet/src/q.rs (RFC 1143), over the *)
(* two ordered byte streams of a connection.  The automaton of one option   *)
(* and one direction is independent of all others, so one pair of automata  *)
(* stands for every option; `option` says how the server treats it.         *)
(*                                                                          *)
(* On top of the automaton is the one option whose effect is an exchange of *)
(* its own: CHARSET, where an enabled option sends a request and waits for  *)
(* the answer.                                                              *)
(***************************************************************************)
EXTENDS Naturals, Sequences

CONSTANT
    MaxRequests   \* how many changes each end's application asks for

ASSUME MaxRequestsAssumption == MaxRequests \in Nat

VARIABLES
    option,       \* "charset", "echo" or "unknown": how the server treats it
    accepts,      \* whether the client accepts unsolicited enablement
    q,            \* state of the option at each end
    wire,         \* messages on their way to each end
    pending,      \* charset_pending of the server's decoder
    requests,     \* changes asked for so far at each end
    wish          \* history: the last change asked for at each end

telnetVars == <<option, accepts, q, wire, pending, requests, wish>>

Ends == {"server", "client"}
Other(e) == IF e = "server" THEN "client" ELSE "server"

\* The stable states, and the pending ones with their queued opposite request.
No == <<"No", FALSE>>
Yes == <<"Yes", FALSE>>
WantNo(opposite) == <<"WantNo", opposite>>
WantYes(opposite) == <<"WantYes", opposite>>

\* "on" is WILL or DO, "off" is WONT or DONT; "ask" and "answer" are the
\* subnegotiations of CHARSET.
Verb(enable) == IF enable THEN "on" ELSE "off"

\* QState::enabled
Enabled(s) == s = Yes

-----------------------------------------------------------------------------
(* The automaton: a new state and what to send.                             *)

\* A step of the automaton that sends nothing, and one that sends a verb.
Silent(s) == [state |-> s, send |-> <<>>]
Sends(s, enable) == [state |-> s, send |-> <<Verb(enable)>>]

\* Mutant: a request is not reversed while the first answer is awaited.
RequestIgnored(s, enable) ==
    CASE s = No /\ enable       -> Sends(WantYes(FALSE), TRUE)
      [] s = Yes /\ ~enable     -> Sends(WantNo(FALSE), FALSE)
      [] OTHER                  -> Silent(s)

\* QState::request: the application asks for a change.
Request(s, enable) ==
    CASE s = No /\ enable       -> Sends(WantYes(FALSE), TRUE)
      [] s = Yes /\ ~enable     -> Sends(WantNo(FALSE), FALSE)
      [] s[1] = "WantNo"        -> Silent(WantNo(enable))
      [] s[1] = "WantYes"       -> Silent(WantYes(~enable))
      [] OTHER                  -> Silent(s)

\* Mutant: the queued opposite request is applied without telling the peer.
ReceiveQuietly(s, positive, accept) ==
    CASE s = No /\ positive               -> Sends(IF accept THEN Yes ELSE No, accept)
      [] s = Yes /\ ~positive             -> Sends(No, FALSE)
      [] s[1] = "WantNo"                  -> Silent(IF s = WantNo(TRUE) THEN Yes ELSE No)
      [] s[1] = "WantYes"                 -> Silent(IF s = WantYes(FALSE) /\ positive THEN Yes ELSE No)
      [] OTHER                            -> Silent(s)

\* Mutant: every verb is acknowledged, also an answer.
ReceiveEchoes(s, positive, accept) ==
    CASE s = No /\ positive     -> Sends(IF accept THEN Yes ELSE No, accept)
      [] OTHER                  -> Sends(IF positive THEN Yes ELSE No, positive)

\* QState::receive: the peer answers, or asks on its own.
Receive(s, positive, accept) ==
    CASE s = No /\ positive               -> Sends(IF accept THEN Yes ELSE No, accept)
      [] s = Yes /\ ~positive             -> Sends(No, FALSE)
      [] s = WantNo(FALSE)                -> Silent(No)
      [] s = WantNo(TRUE) /\ positive     -> Silent(Yes)
      [] s = WantNo(TRUE) /\ ~positive    -> Sends(WantYes(FALSE), TRUE)
      [] s = WantYes(FALSE) /\ positive   -> Silent(Yes)
      [] s = WantYes(TRUE) /\ positive    -> Sends(WantNo(FALSE), FALSE)
      [] s[1] = "WantYes" /\ ~positive    -> Silent(No)
      [] OTHER                            -> Silent(s)

-----------------------------------------------------------------------------
(* The decoder around it.                                                   *)

\* OPTIONS: what an end accepts when its peer enables the option unasked.
Accepts(e) == IF e = "server" THEN option = "charset" ELSE accepts

\* Decoder::negotiate: the server asks only for what it supports; ECHO it may
\* ask for and does not accept.
MayRequest(e, enable) == e = "client" \/ ~enable \/ option # "unknown"

\* What enabling the option makes the server send after the verb.
Announcement(e, after) ==
    IF e = "server" /\ option = "charset" /\ Enabled(after) /\ ~Enabled(q[e])
    THEN <<"ask">> ELSE <<>>

\* Negotiator::apply and Decoder::effects: install the state, then the verb and
\* what follows it go on the wire; a real change starts or forgets the exchange.
Apply(e, step, incoming) ==
    /\ q' = [q EXCEPT ![e] = step.state]
    /\ wire' = [wire EXCEPT ![e] = incoming,
                            ![Other(e)] = @ \o step.send \o Announcement(e, step.state)]
    /\ pending' = IF e = "server" /\ option = "charset" /\ step.state # q[e]
                  THEN Enabled(step.state)
                  ELSE pending

\* An application asks for a change: a prompt for a password, a user's wish.
AppRequests(e, enable) ==
    /\ requests[e] < MaxRequests
    /\ MayRequest(e, enable)
    /\ Apply(e, Request(q[e], enable), wire[e])
    /\ requests' = [requests EXCEPT ![e] = @ + 1]
    /\ wish' = [wish EXCEPT ![e] = enable]
    /\ UNCHANGED <<option, accepts>>

\* A verb arrives.
VerbArrives(e) ==
    /\ wire[e] # <<>>
    /\ Head(wire[e]) \in {"on", "off"}
    /\ Apply(e, Receive(q[e], Head(wire[e]) = "on", Accepts(e)), Tail(wire[e]))
    /\ UNCHANGED <<option, accepts, requests, wish>>

\* The client answers a request of an option that is enabled for it, and
\* ignores others.
AskArrives ==
    /\ wire["client"] # <<>>
    /\ Head(wire["client"]) = "ask"
    /\ wire' = [wire EXCEPT !["client"] = Tail(@),
                            !["server"] = IF Enabled(q["client"])
                                          THEN Append(@, "answer") ELSE @]
    /\ UNCHANGED <<option, accepts, q, pending, requests, wish>>

\* Decoder::sub: an acceptance or a rejection counts while the option is enabled.
AnswerArrives ==
    /\ wire["server"] # <<>>
    /\ Head(wire["server"]) = "answer"
    /\ wire' = [wire EXCEPT !["server"] = Tail(@)]
    /\ pending' = (pending /\ ~Enabled(q["server"]))
    /\ UNCHANGED <<option, accepts, q, requests, wish>>

TelnetInit ==
    /\ option \in {"charset", "echo", "unknown"}
    /\ accepts \in BOOLEAN
    /\ q = [e \in Ends |-> No]
    /\ wire = [e \in Ends |-> <<>>]
    /\ pending = FALSE
    /\ requests = [e \in Ends |-> 0]
    /\ wish = [e \in Ends |-> FALSE]

TelnetNext ==
    \/ \E e \in Ends, enable \in BOOLEAN : AppRequests(e, enable)
    \/ \E e \in Ends : VerbArrives(e)
    \/ AskArrives
    \/ AnswerArrives

TelnetSpec == TelnetInit /\ [][TelnetNext]_telnetVars

\* TCP delivers what was sent, in order, and both ends read it.
TelnetFairSpec ==
    /\ TelnetSpec
    /\ \A e \in Ends : WF_telnetVars(VerbArrives(e))
    /\ WF_telnetVars(AskArrives)
    /\ WF_telnetVars(AnswerArrives)

-----------------------------------------------------------------------------
(* Properties                                                               *)

Quiet == \A e \in Ends : wire[e] = <<>>

\* However requests of both ends cross and are reversed, once nothing is under
\* way both ends have settled on the same state and no CHARSET request is
\* left unanswered (q.rs `receive`, lib.rs `effects`).
QuietMeansAgreed ==
    Quiet => /\ q["server"] = q["client"]
             /\ q["server"] \in {No, Yes}
             /\ ~pending

\* An end that does not accept the option unasked has it enabled only if its
\* own last request was for it: a client is not left without echo after the
\* password prompt (lib.rs `echo`, q.rs `request`).
EnabledOnlyIfWanted ==
    \A e \in Ends : Enabled(q[e]) /\ ~Accepts(e) => wish[e]

\* An exchange ends: when the applications stop asking, the wire falls silent.
NegotiationEnds == <>[]Quiet
=============================================================================
