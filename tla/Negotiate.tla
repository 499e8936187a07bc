------------------------------ MODULE Negotiate ------------------------------
(***************************************************************************)
(* ircneg.Negotiate (ircneg/ircneg.go) with its SASL engine                *)
(* (ircsasl/ircsasl.go), registering on a server over two FIFO channels.   *)
(*                                                                         *)
(* The client is one goroutine: an iteration of its loop is one action.    *)
(* The server is external: it holds registration while capabilities are    *)
(* being negotiated, acknowledges or refuses what it is asked, or answers  *)
(* with something malformed.  It never lists, in a 908, a method whose     *)
(* credentials it has refused.  Capabilities and SASL methods are names    *)
(* in small sets; nicknames are the index generateNick is called with.     *)
(***************************************************************************)
EXTENDS Naturals, Sequences, SequencesExt, FiniteSets

CONSTANTS
  Caps,          \* capabilities a server may offer, "sasl" among them
  ReqMax,        \* how many names fit in one CAP REQ (maxLen, line 244)
  MaxRefusals,   \* bound: nicknames the server refuses
  RejectStyles   \* how the server refuses a SASL method: 904, 908, both or 902

ASSUME CapsAssumption == "sasl" \in Caps /\ IsFiniteSet(Caps)
ASSUME BoundsAssumption == ReqMax \in Nat \ {0} /\ MaxRefusals \in Nat
ASSUME StylesAssumption == RejectStyles \subseteq {"904", "908", "both", "902"}

VARIABLES
  cfg,          \* Config: inhibitCap, desired, sasl (credentials are given)
  phase,        \* negState, and where Negotiate is before and after its loop
  chosenNick,   \* chosenNick and nickAttempt, which agree
  desiredCaps,  \* desiredCaps: the status of each capability of interest
  supported,    \* serverSupportedCapsList
  capValue,     \* capValues["sasl"], or NoValue
  engine,       \* saslEngine: methods and curMethodIdx, or NoEngine
  allReadMsgs,  \* allReadMsgs
  c2s,          \* commands on their way to the server
  sent,         \* all the server has sent; what follows allReadMsgs is on its way
  lost,         \* the connection is lost
  srv           \* the server: see SrvInit

clientVars == <<phase, chosenNick, desiredCaps, supported, capValue, engine, allReadMsgs>>
vars == <<cfg, clientVars, c2s, sent, lost, srv>>

Methods == {"EXTERNAL", "PLAIN"}
Statuses == {"desired", "requested", "granted", "denied"}
NoValue == <<"no value">>

\* MethodLists of methods, as a server sends them: in whatever order.
MethodLists ==
  {<<>>, <<"EXTERNAL">>, <<"PLAIN">>, <<"EXTERNAL", "PLAIN">>, <<"PLAIN", "EXTERNAL">>}

NoEngine == [methods |-> <<>>, idx |-> 0, made |-> FALSE]
Phases == {"Start", "WaitCapList", "WaitCapAck", "StartSasl", "WaitSasl", "EndCap",
           "Wait001", "draining", "done", "failed"}
Over == {"draining", "done", "failed"}

\* The names in desiredCaps: the configured ones, and sasl with credentials.
Wanted(c) == c.desired \cup (IF c.sasl THEN {"sasl"} ELSE {})

SrvInit == [cap |-> "none",       \* "none", "active" (holds 001) or "ended"
            user |-> FALSE,       \* USER was received
            named |-> FALSE,      \* it accepted a nickname
            nick |-> 0,           \* and this one
            refusals |-> 0,
            enabled |-> {},       \* capabilities it acknowledged
            mech |-> "none",      \* the SASL method it challenged the client in
            refused |-> {},       \* SASL methods it refused
            auth |-> FALSE,       \* SASL succeeded
            welcomed |-> FALSE]

Init ==
  /\ cfg \in [inhibitCap : BOOLEAN, desired : SUBSET (Caps \ {"sasl"}), sasl : BOOLEAN,
              mechs : MethodLists]         \* mechs: what the server supports
  /\ phase = "Start"
  /\ chosenNick = 0
  /\ desiredCaps = [c \in Wanted(cfg) |-> "desired"]
  /\ supported = {}
  /\ capValue = NoValue
  /\ engine = NoEngine
  /\ allReadMsgs = <<>>
  /\ c2s = <<>>
  /\ sent = <<>>
  /\ lost = FALSE
  /\ srv = SrvInit

-----------------------------------------------------------------------------
(* The SASL engine.                                                        *)

\* methodPref: EXTERNAL before PLAIN; no other method is supported.
Preference == <<"EXTERNAL", "PLAIN">>

\* What remains of methodPref where the methods are ms.
InOrder(ms) ==
  LET one(m) == IF m \in ms THEN <<m>> ELSE <<>>
  IN  one(Preference[1]) \o one(Preference[2])

\* Fault: a new list of methods does not start the engine over.
SetMethodsKeepIdx(list) == [methods |-> InOrder(ToSet(list)), idx |-> engine.idx, made |-> TRUE]

\* Fault: the methods are tried in the server's order.
SetMethodsUnsorted(list) == [methods |-> list, idx |-> 0, made |-> TRUE]

\* SetMethods: unsupported methods are stripped, the rest put in order of
\* preference, and the engine starts over.
SetMethods(list) == [methods |-> InOrder(ToSet(list)), idx |-> 0, made |-> TRUE]

Exhausted(e) == e.idx >= Len(e.methods)

CurMethod(e) == e.methods[e.idx]

\* Fault: the engine answers for the first method of the list.
StimulusOfFirst(e) == [cmd |-> "RESPONSE", method |-> e.methods[1]]

\* Stimulus: the answer is the one for the current method.
Stimulus(e) == [cmd |-> "RESPONSE", method |-> CurMethod(e)]

-----------------------------------------------------------------------------
(* Reading and writing.                                                    *)

InFlight == Len(allReadMsgs) < Len(sent)
Msg == sent[Len(allReadMsgs) + 1]

\* readMsg
Read == InFlight /\ allReadMsgs' = Append(allReadMsgs, Msg)

\* Commands are written and the loop goes on in the next phase; on a lost
\* connection the write may fail, and Negotiate drains what it can still read.
Write(ms, next) ==
  \/ c2s' = c2s \o ms /\ phase' = next
  \/ lost /\ phase' = "draining" /\ UNCHANGED c2s

\* CAP LS, USER and NICK go out before anything is read.
Start ==
  /\ phase = "Start"
  /\ Write((IF cfg.inhibitCap THEN <<>> ELSE << [cmd |-> "CAP LS"] >>)
             \o << [cmd |-> "USER"], [cmd |-> "NICK", nick |-> chosenNick] >>,
           IF cfg.inhibitCap THEN "Wait001" ELSE "WaitCapList")
  /\ UNCHANGED <<cfg, chosenNick, desiredCaps, supported, capValue, engine,
                 allReadMsgs, sent, lost, srv>>

-----------------------------------------------------------------------------
(* One iteration of the loop for a message read.                           *)

Loop == {"WaitCapList", "WaitCapAck", "WaitSasl", "Wait001"}

\* 001 ends negotiation whatever the state.
OnWelcome ==
  /\ phase \in Loop
  /\ Read
  /\ Msg.cmd = "001"
  /\ phase' = "done"
  /\ UNCHANGED <<cfg, chosenNick, desiredCaps, supported, capValue, engine,
                 c2s, sent, lost, srv>>

\* Fault: the nickname sent is not the one kept.
NickNotKept == chosenNick

\* nickAttempt++ and generateNick
NextNick == chosenNick + 1

\* 432, 433 and 437 are handled whatever the state, so that nickname conflicts
\* are resolved while capabilities and SASL are negotiated.
OnNickRefused ==
  /\ phase \in Loop
  /\ Read
  /\ Msg.cmd = "433"
  /\ chosenNick' = NextNick
  /\ Write(<< [cmd |-> "NICK", nick |-> chosenNick + 1] >>, phase)
  /\ UNCHANGED <<cfg, desiredCaps, supported, capValue, engine, sent, lost, srv>>

\* The names to request, ReqMax in a CAP REQ.
Requests(caps) ==
  LET s == SetToSeq(caps)
      n == (Len(s) + ReqMax - 1) \div ReqMax
      last(i) == IF i * ReqMax < Len(s) THEN i * ReqMax ELSE Len(s)
  IN  [i \in 1..n |->
         [cmd |-> "CAP REQ", caps |-> ToSet(SubSeq(s, (i - 1) * ReqMax + 1, last(i)))]]

\* A line of the capability list; after the last one every supported and
\* desired capability is requested.
OnCapList ==
  /\ phase = "WaitCapList"
  /\ Read
  /\ Msg.cmd = "CAP LS"
  /\ supported' = supported \cup Msg.caps
  /\ capValue' = IF Msg.value # NoValue THEN Msg.value ELSE capValue
  /\ IF Msg.more
     THEN UNCHANGED <<phase, desiredCaps, c2s>>
     ELSE LET req == {c \in supported' \cap DOMAIN desiredCaps :
                        desiredCaps[c] = "desired"}
          IN  /\ desiredCaps' = [c \in DOMAIN desiredCaps |->
                                   IF c \in req THEN "requested" ELSE desiredCaps[c]]
              /\ Write(Requests(req), "WaitCapAck")
  /\ UNCHANGED <<cfg, chosenNick, engine, sent, lost, srv>>

\* Fault: a denied capability counts as pending.
DeniedIsPending(d) == \E c \in DOMAIN d : d[c] \in {"requested", "denied"}

\* anyPending
AnyPending(d) == \E c \in DOMAIN d : d[c] = "requested"

\* Fault: a NAK is read as an ACK.
DeniedIsGranted(m) == "granted"

\* What an ACK or a NAK makes of the capabilities it names.
Verdict(m) == IF m.cmd = "CAP ACK" THEN "granted" ELSE "denied"

SaslGranted(d) == "sasl" \in DOMAIN d /\ d["sasl"] = "granted"

\* An ACK or NAK.  When no requested capability is pending any more, SASL
\* begins, or capability negotiation ends.
OnCapAck ==
  /\ phase = "WaitCapAck"
  /\ Read
  /\ Msg.cmd \in {"CAP ACK", "CAP NAK"}
  /\ IF ~(Msg.caps \subseteq DOMAIN desiredCaps)
     THEN phase' = "draining" /\ UNCHANGED <<desiredCaps, engine>>
     ELSE /\ desiredCaps' = [c \in DOMAIN desiredCaps |->
                               IF c \in Msg.caps THEN Verdict(Msg) ELSE desiredCaps[c]]
          /\ IF AnyPending(desiredCaps')
             THEN UNCHANGED <<phase, engine>>
             ELSE IF SaslGranted(desiredCaps')
             THEN /\ phase' = "StartSasl"
                  /\ engine' = IF engine.made THEN engine
                               ELSE SetMethods(IF capValue = NoValue THEN <<"EXTERNAL", "PLAIN">>
                                               ELSE capValue)
             ELSE phase' = "EndCap" /\ UNCHANGED engine
  /\ UNCHANGED <<cfg, chosenNick, supported, capValue, c2s, sent, lost, srv>>

\* The server's stimulus: the engine answers for its current method.
OnAuthenticate ==
  /\ phase = "WaitSasl"
  /\ Read
  /\ Msg.cmd = "AUTHENTICATE"
  /\ Write(<< Stimulus(engine) >>, "WaitSasl")
  /\ UNCHANGED <<cfg, chosenNick, desiredCaps, supported, capValue, engine, sent, lost, srv>>

\* 903: authenticated.
OnSaslSuccess ==
  /\ phase = "WaitSasl"
  /\ Read
  /\ Msg.cmd = "903"
  /\ phase' = "EndCap"
  /\ UNCHANGED <<cfg, chosenNick, desiredCaps, supported, capValue, engine,
                 c2s, sent, lost, srv>>

\* Fault: a refused method ends capability negotiation.
AfterRefusalEnd == "EndCap"
AfterRefusal == "StartSasl"

\* 904: refused.  908: refused too, with the methods the server does support.
OnSaslRefused ==
  /\ phase = "WaitSasl"
  /\ Read
  /\ Msg.cmd \in {"904", "908"}
  /\ engine' = IF Msg.cmd = "908" THEN SetMethods(Msg.methods) ELSE engine
  /\ phase' = AfterRefusal
  /\ UNCHANGED <<cfg, chosenNick, desiredCaps, supported, capValue, c2s, sent, lost, srv>>

\* An ACK or NAK that gives a capability a value; an AUTHENTICATE or a 908
\* without its argument.
Malformed ==
  \/ phase = "WaitCapAck" /\ Msg.cmd = "CAP malformed"
  \/ phase = "WaitSasl" /\ Msg.cmd = "SASL malformed"

OnMalformed ==
  /\ phase \in Loop
  /\ Read
  /\ Malformed
  /\ phase' = "draining"
  /\ UNCHANGED <<cfg, chosenNick, desiredCaps, supported, capValue, engine,
                 c2s, sent, lost, srv>>

\* Any other message of the phase is only recorded.
Handled ==
  \/ Malformed
  \/ Msg.cmd \in {"001", "433"}
  \/ phase = "WaitCapList" /\ Msg.cmd = "CAP LS"
  \/ phase = "WaitCapAck" /\ Msg.cmd \in {"CAP ACK", "CAP NAK"}
  \/ phase = "WaitSasl" /\ Msg.cmd \in {"AUTHENTICATE", "903", "904", "908"}

OnOther ==
  /\ phase \in Loop
  /\ Read
  /\ ~Handled
  /\ UNCHANGED <<cfg, phase, chosenNick, desiredCaps, supported, capValue, engine,
                 c2s, sent, lost, srv>>

-----------------------------------------------------------------------------
(* Iterations that read nothing: msg is still the last message read, and   *)
(* its Command is cleared, in place.                                       *)

ClearCommand ==
  allReadMsgs' = [allReadMsgs EXCEPT ![Len(allReadMsgs)].cmd = ""]

StartSasl ==
  /\ phase = "StartSasl"
  /\ ClearCommand
  /\ IF Exhausted(engine)
     THEN phase' = "draining" /\ UNCHANGED <<engine, c2s>>
     ELSE /\ engine' = [engine EXCEPT !.idx = @ + 1]
          /\ Write(<< [cmd |-> "AUTHENTICATE", method |-> CurMethod(engine')] >>, "WaitSasl")
  /\ UNCHANGED <<cfg, chosenNick, desiredCaps, supported, capValue, sent, lost, srv>>

EndCap ==
  /\ phase = "EndCap"
  /\ ClearCommand
  /\ Write(<< [cmd |-> "CAP END"] >>, "Wait001")
  /\ UNCHANGED <<cfg, chosenNick, desiredCaps, supported, capValue, engine, sent, lost, srv>>

\* The connection is at its end: the read fails, and then so does the drain.
ReadFails ==
  /\ phase \in Loop \cup {"draining"}
  /\ lost /\ ~InFlight
  /\ phase' = IF phase = "draining" THEN "failed" ELSE "draining"
  /\ UNCHANGED <<cfg, chosenNick, desiredCaps, supported, capValue, engine, allReadMsgs,
                 c2s, sent, lost, srv>>

\* The deferred drain reads on, so that OnRead sees what the server said.
Drain ==
  /\ phase = "draining"
  /\ Read
  /\ UNCHANGED <<cfg, phase, chosenNick, desiredCaps, supported, capValue, engine,
                 c2s, sent, lost, srv>>

-----------------------------------------------------------------------------
(* The server (external).                                                  *)

Receive(cmd) == ~lost /\ c2s # <<>> /\ Head(c2s).cmd = cmd /\ c2s' = Tail(c2s)

Reply(ms) == sent' = sent \o ms

UnchangedClient == UNCHANGED <<cfg, clientVars, lost>>

\* A server with capabilities lists them, on one line or two, with or without
\* the methods as the value of sasl, and holds the registration.
SrvCapLS ==
  /\ Receive("CAP LS")
  /\ \E one, two \in SUBSET Caps, value \in {cfg.mechs, NoValue} :
       /\ one \cap two = {}
       /\ LET line(cs, more) == [cmd |-> "CAP LS", caps |-> cs, more |-> more,
                                 value |-> IF "sasl" \in cs THEN value ELSE NoValue]
          IN  Reply((IF two = {} THEN <<>> ELSE << line(two, TRUE) >>)
                      \o << line(one, FALSE) >>)
  /\ srv' = [srv EXCEPT !.cap = "active"]
  /\ UnchangedClient

\* A server without them does not know the command.
SrvNoCap ==
  /\ Receive("CAP LS")
  /\ Reply(<< [cmd |-> "421"] >>)
  /\ UNCHANGED srv
  /\ UnchangedClient

SrvUser ==
  /\ Receive("USER")
  /\ srv' = [srv EXCEPT !.user = TRUE]
  /\ UNCHANGED sent
  /\ UnchangedClient

SrvNick ==
  /\ Receive("NICK")
  /\ \/ /\ srv' = [srv EXCEPT !.named = TRUE, !.nick = Head(c2s).nick]
        /\ UNCHANGED sent
     \/ /\ srv.refusals < MaxRefusals
        /\ srv' = [srv EXCEPT !.refusals = @ + 1]
        /\ Reply(<< [cmd |-> "433"] >>)
  /\ UnchangedClient

\* A request is acknowledged or refused as a whole, or the answer is malformed.
SrvCapReq ==
  /\ Receive("CAP REQ")
  /\ \/ /\ Reply(<< [cmd |-> "CAP ACK", caps |-> Head(c2s).caps] >>)
        /\ srv' = [srv EXCEPT !.enabled = @ \cup Head(c2s).caps]
     \/ /\ Reply(<< [cmd |-> "CAP NAK", caps |-> Head(c2s).caps] >>)
        /\ UNCHANGED srv
     \/ /\ Reply(<< [cmd |-> "CAP malformed", caps |-> Head(c2s).caps] >>)
        /\ UNCHANGED srv
  /\ UnchangedClient

\* A method the server supports is challenged; another is refused, in the
\* style of the server: 902 stands for the numerics the client does not look
\* for (902 and 905 to 907).  The answer to either may be malformed.
SrvAuthenticate ==
  /\ Receive("AUTHENTICATE")
  /\ LET m == Head(c2s).method
         fail == [cmd |-> "904"]
         list == [cmd |-> "908", methods |-> cfg.mechs]
     IN  IF m \in ToSet(cfg.mechs)
         THEN /\ srv' = [srv EXCEPT !.mech = m]
              /\ \/ Reply(<< [cmd |-> "AUTHENTICATE"] >>)
                 \/ Reply(<< [cmd |-> "SASL malformed"] >>)
         ELSE /\ srv' = [srv EXCEPT !.refused = @ \cup {m}]
              /\ \/ "904" \in RejectStyles /\ Reply(<< fail >>)
                 \/ "908" \in RejectStyles /\ Reply(<< list >>)
                 \/ "both" \in RejectStyles /\ Reply(<< list, fail >>)
                 \/ "902" \in RejectStyles /\ Reply(<< [cmd |-> "902"] >>)
                 \/ Reply(<< [cmd |-> "SASL malformed"] >>)
  /\ UnchangedClient

SrvResponse ==
  /\ Receive("RESPONSE")
  /\ \/ /\ Reply(<< [cmd |-> "903"] >>)
        /\ srv' = [srv EXCEPT !.auth = TRUE, !.mech = "none"]
     \/ /\ \/ Reply(<< [cmd |-> "904"] >>)
           \/ "902" \in RejectStyles /\ Reply(<< [cmd |-> "902"] >>)
        /\ srv' = [srv EXCEPT !.refused = @ \cup {srv.mech}, !.mech = "none"]
  /\ UnchangedClient

SrvCapEnd ==
  /\ Receive("CAP END")
  /\ srv' = [srv EXCEPT !.cap = "ended"]
  /\ UNCHANGED sent
  /\ UnchangedClient

SrvWelcome ==
  /\ ~lost
  /\ srv.user /\ srv.named /\ srv.cap # "active" /\ ~srv.welcomed
  /\ srv' = [srv EXCEPT !.welcomed = TRUE]
  /\ Reply(<< [cmd |-> "001"] >>)
  /\ UNCHANGED c2s
  /\ UnchangedClient

\* The network, the server or the client's canceller ends the connection.
Lose ==
  /\ ~lost
  /\ phase \notin {"done", "failed"}
  /\ lost' = TRUE
  /\ UNCHANGED <<cfg, clientVars, c2s, sent, srv>>

-----------------------------------------------------------------------------
ClientStep ==
  \/ Start \/ OnWelcome \/ OnNickRefused \/ OnCapList \/ OnCapAck \/ OnAuthenticate
  \/ OnSaslSuccess \/ OnSaslRefused \/ OnMalformed \/ OnOther \/ StartSasl \/ EndCap
  \/ ReadFails \/ Drain

ServerStep ==
  \/ SrvCapLS \/ SrvNoCap \/ SrvUser \/ SrvNick \/ SrvCapReq \/ SrvAuthenticate
  \/ SrvResponse \/ SrvCapEnd \/ SrvWelcome

Next == ClientStep \/ ServerStep \/ Lose

\* The client runs, and the server answers what it receives.  Losing the
\* connection is never relied on.
Spec == Init /\ [][Next]_vars /\ WF_vars(ClientStep) /\ WF_vars(ServerStep)

TypeOK ==
  /\ phase \in Phases
  /\ chosenNick \in 0..MaxRefusals
  /\ desiredCaps \in [Wanted(cfg) -> Statuses]
  /\ supported \subseteq Caps
  /\ engine.idx \in 0..Len(engine.methods)
  /\ engine.methods \in MethodLists
  /\ phase \in {"StartSasl", "WaitSasl"} => engine.made
  /\ Len(allReadMsgs) <= Len(sent)
  /\ lost \in BOOLEAN

-----------------------------------------------------------------------------
\* The nickname reported to the program is the one the server knows us by,
\* however its refusals interleave with capabilities and SASL.
NickAgrees == phase = "done" => srv.named /\ chosenNick = srv.nick

\* CapsEnabled (line 428) is what the server enabled of what was configured.
CapsEnabled == {c \in cfg.desired : desiredCaps[c] = "granted"}

CapsAgree == phase = "done" => CapsEnabled = srv.enabled \cap cfg.desired

\* A server that granted sasl never sees the end of capability negotiation,
\* and so never welcomes us, before authentication succeeded: a client with
\* credentials is not let in without them.
AuthenticatedIfGranted ==
  srv.welcomed /\ "sasl" \in srv.enabled => srv.auth

\* The engine's answer reaches the server while it waits for just that
\* method's answer: no password is sent to a challenge of another method.
AnswersItsChallenge ==
  c2s # <<>> /\ Head(c2s).cmd = "RESPONSE" => Head(c2s).method = srv.mech

\* The password is offered only where EXTERNAL is not listed or was refused,
\* in whatever order the server lists its methods.
PasswordLast ==
  \A i \in DOMAIN c2s :
    c2s[i].cmd = "AUTHENTICATE" /\ c2s[i].method = "PLAIN" =>
      "EXTERNAL" \in srv.refused \/ "EXTERNAL" \notin ToSet(engine.methods)

Requested == {c \in DOMAIN desiredCaps : desiredCaps[c] = "requested"}

\* Once a capability has been requested, or there is nothing to negotiate,
\* negotiation ends, for better or worse, without the connection being lost;
\* unless the server refused in a way the client does not look for.
Ignored == \E n \in DOMAIN sent : sent[n].cmd = "902"
RequestedFinishes ==
  \/ phase = "WaitCapAck" /\ Requested # {}
  \/ phase = "Wait001"
  ~> phase \in Over \/ Ignored

(* What comments in the source say of it.                                  *)

\* ircneg.go:321: "No caps are still pending, we can continue": with nothing
\* pending, negotiation does not stay in nsWaitCapAck for ever.
NothingPendingContinues ==
  phase = "WaitCapAck" /\ Requested = {} ~> phase \in Over
=============================================================================
