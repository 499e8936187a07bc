-------------------------------- MODULE Nick --------------------------------
(***************************************************************************)
(* The nickname handler (egobot/hdlnick), the CTCP handler                 *)
(* (egobot/hdlctcp), and the bot's main loop (egobot/egobot.go) that hands *)
(* messages, completed negotiations and disconnections to them along the   *)
(* chains of the registry.                                                 *)
(*                                                                         *)
(* The main loop's goroutine looks at each event in OnMsgRx and hands what *)
(* matters to the handler's own loop, svrLoop, over unbuffered channels,   *)
(* and nicknames in use over one with a buffered slot.  It does not wait   *)
(* until the loop has dealt with what it took.                             *)
(*                                                                         *)
(* The client is reduced to what ReconnectingClient promises.  A password  *)
(* is configured and nicknames have one spelling.  How the bot stops is in *)
(* Autojoin.                                                               *)
(***************************************************************************)
EXTENDS Registry

CONSTANTS
  Nicks,     \* nicknames
  Pref,      \* PreferredNick
  Fallback,  \* what negotiation chooses in its place
  MaxConn,   \* bound: connections made
  MaxActs,   \* bound: acts of the server that are not answers
  MaxInbox   \* bound: messages on their way to the bot

ASSUME NicksAssumption == {Pref, Fallback} \subseteq Nicks
ASSUME BoundsAssumption == {MaxConn, MaxActs, MaxInbox} \subseteq Nat

VARIABLES
  conn,        \* the client's connection, or Nil
  made,        \* how many there have been
  net,         \* the transport of each
  chosen,      \* per connection, ChosenNick of its negotiation
  inbox,       \* per connection, what the server sent and nobody read
  c2s,         \* per connection, requests the server has yet to see
  snick,       \* per connection, the nickname the server has for the bot
  rushed,      \* a change of it was looked at before an earlier one was applied,
               \* since the last negotiation was handed out
  acts,        \* acts of the server so far
  main,        \* where the main loop is
  negot,       \* negot: the connection whose negotiation it last saw
  held,        \* the connection its ReadMsg reads from
  event,       \* what it is handing out
  at,          \* the handler it is in
  curNick,     \* curNick
  svr,         \* where svrLoop is
  arg,         \* the nickname it received
  inUse,       \* nickInUseChan holds an element
  authFailure, \* authFailure
  running,     \* the timer is set
  tick         \* the timer's channel holds an element

clientVars == <<conn, made, net, chosen>>
serverVars == <<inbox, c2s, snick, acts>>
mainVars == <<main, negot, held, event, at, rushed>>
timerVars == <<running, tick>>
svrVars == <<svr, arg, inUse, authFailure, timerVars>>
vars == <<clientVars, serverVars, mainVars, curNick, svrVars>>

Nil == 0
Conns == 1..MaxConn
Unknown == "" \* curNick before the first negotiation

NickChanges == [kind : {"NICK"}, old : Nicks, nick : Nicks]
Messages == [kind : {"001", "433"}]
              \cup [kind : {"NOTICE", "VERSION"}, nick : Nicks] \cup NickChanges
NoEvent == [kind |-> "none"]
Events == Messages \cup {NoEvent, [kind |-> "eof"]} \cup [kind : {"negotiated"}, nick : Nicks]

\* Bot.Start registers the handlers in this order (the HN handler provides no
\* service).
Services == {"tx", "rx", "getnick", "negotiation-complete", "disconnected", "on-channel"}
Handlers ==
  << [port |-> "txfinal", services |-> [s \in {"tx"} |-> 999999000]],
     [port |-> "nick", services |-> [s \in Services \ {"tx", "on-channel"} |-> 0]],
     [port |-> "ctcp", services |-> [s \in {"rx"} |-> 0]],
     [port |-> "autojoin", services |-> [s \in Services \ {"tx", "getnick"} |-> 0]] >>
Table == TableOf(Services, Handlers)
Ports == {h.port : h \in {Handlers[n] : n \in DOMAIN Handlers}}

\* The chains that come of it.  No CONSTANT is involved: evaluating this settles it.
ASSUME ChainsAssumption ==
  /\ \A s \in {"rx", "negotiation-complete", "disconnected"} :
       GetFirstHandler(Table, s) = "nick" /\ GetNextHandler(Table, "autojoin", s) = NoHandler
  /\ GetNextHandler(Table, "nick", "rx") = "ctcp"
  /\ GetNextHandler(Table, "ctcp", "rx") = "autojoin"
  /\ \A s \in {"negotiation-complete", "disconnected"} :
       GetNextHandler(Table, "nick", s) = "autojoin"

TypeOK ==
  /\ net \in [Conns -> {"none", "open", "broken", "closed"}]
  /\ conn \in {i \in Conns : net[i] \in {"open", "broken"}} \cup {Nil}
  /\ made \in 0..MaxConn
  /\ chosen \in [Conns -> Nicks] /\ snick \in [Conns -> Nicks]
  /\ inbox \in [Conns -> Seq(Messages)]
  /\ c2s \in [Conns -> SUBSET {"NICK", "REGAIN"}]
  /\ acts \in 0..MaxActs
  /\ main \in {"top", "wait", "reading", "chain", "send"}
  /\ {negot, held} \subseteq Conns \cup {Nil}
  /\ event \in Events
  /\ at \in Ports \cup {NoHandler}
  /\ curNick \in Nicks \cup {Unknown} /\ arg \in Nicks
  /\ svr \in {"select", "negotiated", "changed"}
  /\ {rushed, inUse, authFailure, running, tick} \subseteq BOOLEAN

Init ==
  /\ conn = Nil /\ made = 0
  /\ net = [i \in Conns |-> "none"]
  /\ chosen = [i \in Conns |-> Pref] /\ snick = chosen
  /\ inbox = [i \in Conns |-> <<>>] /\ c2s = [i \in Conns |-> {}]
  /\ rushed = FALSE /\ acts = 0
  /\ main = "top" /\ negot = Nil /\ held = Nil /\ event = NoEvent /\ at = NoHandler
  /\ curNick = Unknown
  /\ svr = "select" /\ arg = Pref
  /\ inUse = FALSE /\ authFailure = FALSE
  /\ running = TRUE /\ tick = FALSE

-----------------------------------------------------------------------------
(* The client and its transport.                                           *)

\* What negotiation read comes first: a refusal if another nickname than the
\* preferred one had to be chosen, and the welcome.
Welcome(nick) ==
  IF nick = Pref THEN << [kind |-> "001"] >> ELSE << [kind |-> "433"], [kind |-> "001"] >>

\* What only a connection that was given up knew is forgotten.
Connect(nick) ==
  /\ conn = Nil
  /\ made < MaxConn
  /\ made' = made + 1
  /\ conn' = made'
  /\ net' = [net EXCEPT ![made'] = "open"]
  /\ chosen' = [i \in Conns |-> IF i = made' THEN nick ELSE Pref]
  /\ snick' = chosen'
  /\ inbox' = [i \in Conns |-> CASE i = made' -> Welcome(nick)
                                [] i = held -> inbox[i]
                                [] OTHER -> <<>>]
  /\ c2s' = [i \in Conns |-> {}]
  /\ UNCHANGED <<acts, mainVars, curNick, svrVars>>

\* Fault: the connection given up stays current.
ClosedButCurrent ==
  UNCHANGED conn /\ net' = [i \in Conns |-> IF i = conn THEN "closed" ELSE net[i]]

\* A failure was reported to the client: whatever connection is current is given
\* up.
CloseCurrent ==
  conn' = Nil /\ net' = [i \in Conns |-> IF i = conn THEN "closed" ELSE net[i]]

NetFails(i) ==
  /\ net[i] = "open"
  /\ net' = [net EXCEPT ![i] = "broken"]
  /\ UNCHANGED <<conn, made, chosen, serverVars, mainVars, curNick, svrVars>>

-----------------------------------------------------------------------------
(* The server and its services (external).                                 *)

Talks(i) == net[i] = "open" /\ Len(inbox[i]) < MaxInbox
Says(i, msg) == inbox' = [inbox EXCEPT ![i] = Append(@, msg)]

ChangeNick(i, nick) ==
  /\ snick' = [snick EXCEPT ![i] = nick]
  /\ Says(i, [kind |-> "NICK", old |-> snick[i], nick |-> nick])

\* NICK is obeyed or refused; REGAIN gives the bot the nickname, or not.
SrvRequest(i, req) ==
  /\ Talks(i)
  /\ req \in c2s[i]
  /\ c2s' = [c2s EXCEPT ![i] = @ \ {req}]
  /\ \/ snick[i] # Pref /\ ChangeNick(i, Pref)
     \/ req = "NICK" /\ snick[i] # Pref /\ Says(i, [kind |-> "433"]) /\ UNCHANGED snick
     \/ (req = "REGAIN" \/ snick[i] = Pref) /\ UNCHANGED <<inbox, snick>>
  /\ UNCHANGED <<acts, clientVars, mainVars, curNick, svrVars>>

\* The nickname is changed by an operator or by services, which may have asked
\* for the password before; somebody asks for the bot's version.
SrvActs(i) ==
  /\ Talks(i)
  /\ acts < MaxActs
  /\ acts' = acts + 1
  /\ \/ \E nick \in Nicks \ {snick[i]} : ChangeNick(i, nick)
     \/ \E kind \in {"NOTICE", "VERSION"} :
          Says(i, [kind |-> kind, nick |-> snick[i]]) /\ UNCHANGED snick
  /\ UNCHANGED <<c2s, clientVars, mainVars, curNick, svrVars>>

-----------------------------------------------------------------------------
(* The main loop.                                                          *)

Inject(service, ev) ==
  /\ main' = "chain" /\ event' = ev
  /\ at' = GetFirstHandler(Table, service)

\* The negotiation result is looked at before every read.
MainTop ==
  /\ main = "top"
  /\ IF conn # negot
     THEN /\ negot' = conn
          /\ IF conn # Nil
             THEN Inject("negotiation-complete", [kind |-> "negotiated", nick |-> chosen[conn]])
             ELSE main' = "wait" /\ UNCHANGED <<event, at>>
          /\ rushed' = FALSE
     ELSE main' = "wait" /\ UNCHANGED <<negot, event, at, rushed>>
  /\ UNCHANGED <<held, clientVars, serverVars, curNick, svrVars>>

\* Client.ReadMsg waits for a connection, maybe a newer one.
MainWait ==
  /\ main = "wait" /\ conn # Nil
  /\ main' = "reading" /\ held' = conn
  /\ UNCHANGED <<negot, event, at, rushed, clientVars, serverVars, curNick, svrVars>>

ReadMsg ==
  /\ main = "reading" /\ inbox[held] # <<>>
  /\ inbox' = [inbox EXCEPT ![held] = Tail(@)]
  /\ Inject("rx", Head(inbox[held]))
  /\ held' = Nil
  /\ UNCHANGED <<negot, rushed, c2s, snick, acts, clientVars, curNick, svrVars>>

\* The handlers are told of io.EOF, which comes after the last message, and of no
\* other error.
ReadFails ==
  /\ main = "reading"
  /\ \/ /\ net[held] = "broken" /\ inbox[held] = <<>>
        /\ Inject("disconnected", [kind |-> "eof"])
     \/ main' = "top" /\ UNCHANGED <<event, at>>
  /\ held' = Nil
  /\ CloseCurrent
  /\ UNCHANGED <<negot, rushed, made, chosen, serverVars, curNick, svrVars>>

Service ==
  CASE event.kind = "negotiated" -> "negotiation-complete"
    [] event.kind = "eof" -> "disconnected"
    [] OTHER -> "rx"

\* The handler is done with the event: NextMsgRx and its likes, or the end of the
\* chain, after which a completed negotiation is followed by the read.
Leave(next) ==
  IF next = NoHandler
  THEN /\ main' = IF event.kind = "negotiated" THEN "wait" ELSE "top"
       /\ event' = NoEvent /\ at' = NoHandler
       /\ UNCHANGED <<negot, held>>
  ELSE main' = "chain" /\ at' = next /\ UNCHANGED <<negot, held, event>>

PassOn == Leave(GetNextHandler(Table, at, Service))

-----------------------------------------------------------------------------
(* The handlers, in the main loop's goroutine.                             *)

\* Fault: a change of nickname is compared with the preferred one.
ConcernsPreferred(msg) == msg.old = Pref
ConcernsUs(msg) == msg.old = curNick

Concerned ==
  CASE event.kind = "NICK" -> ConcernsUs(event)
    [] event.kind = "NOTICE" -> event.nick = curNick
    [] OTHER -> event.kind \in {"433", "eof", "negotiated"}

\* The first part of OnMsgRx, OnNegotiationComplete and OnDisconnected: the
\* current nickname is set, or what the message says is compared with it.
NickLooks ==
  /\ main = "chain" /\ at = "nick"
  /\ curNick' = IF event.kind = "negotiated" THEN event.nick ELSE curNick
  /\ IF Concerned THEN main' = "send" /\ UNCHANGED <<negot, held, event, at>> ELSE PassOn
  /\ rushed' = (rushed \/ (event.kind = "NICK" /\ svr # "select"))
  /\ UNCHANGED <<clientVars, serverVars, svrVars>>

\* nickInUseChan has room for one.
NickSendsInUse ==
  /\ main = "send" /\ event.kind = "433"
  /\ ~inUse
  /\ inUse' = TRUE
  /\ PassOn
  /\ UNCHANGED <<rushed, clientVars, serverVars, curNick, svr, arg, authFailure, timerVars>>

\* A command is written, or dropped for want of a connection, or a write that
\* began on this or on an earlier connection fails, and the current one is given
\* up; nobody looks at the result.
Send(reqs) ==
  \/ conn = Nil /\ UNCHANGED <<conn, net, c2s>>
  \/ conn # Nil /\ c2s' = [c2s EXCEPT ![conn] = @ \cup reqs] /\ UNCHANGED <<conn, net>>
  \/ conn # Nil /\ CloseCurrent /\ UNCHANGED c2s

SendOnly(reqs) == Send(reqs) /\ UNCHANGED <<made, chosen, inbox, snick, acts>>

\* A request for the version of the bot, by the name it goes by, is answered and
\* goes no further.  Autojoin's part is in the module of that name.
OtherHandles ==
  /\ main = "chain" /\ at \in {"ctcp", "autojoin"}
  /\ IF at = "ctcp" /\ event.kind = "VERSION" /\ event.nick = curNick
     THEN SendOnly({}) /\ Leave(NoHandler)
     ELSE PassOn /\ UNCHANGED <<clientVars, serverVars>>
  /\ UNCHANGED <<rushed, curNick, svrVars>>

-----------------------------------------------------------------------------
(* The nickname handler's loop: svrLoop.                                   *)

\* An element that the timer has put into its channel survives Stop and Reset
\* with the timers of Go before 1.23, and does not with later ones.
TimerReset == running' = TRUE /\ tick' \in {tick, FALSE}
TimerStop == running' = FALSE /\ tick' \in {tick, FALSE}

\* The rendezvous in which the loop takes a nickname, to deal with it later.
SvrTakesNick ==
  /\ svr = "select"
  /\ main = "send" /\ event.kind \in {"negotiated", "NICK"}
  /\ svr' = IF event.kind = "NICK" THEN "changed" ELSE "negotiated"
  /\ arg' = event.nick
  /\ PassOn
  /\ UNCHANGED <<rushed, inUse, authFailure, timerVars, curNick, clientVars, serverVars>>

SvrNegotiated ==
  /\ svr = "negotiated"
  /\ svr' = "select" /\ arg' = Pref
  /\ authFailure' = FALSE
  /\ curNick' = arg
  /\ IF curNick' # Pref THEN TimerReset ELSE TimerStop
  /\ UNCHANGED <<inUse, clientVars, serverVars, mainVars>>

\* Fault: the loop waits until it has room for its own message.
TellSelfAndWait == ~inUse /\ inUse' = TRUE
TellSelf == inUse' = TRUE

\* The timer's period is a day if somebody seems to have taken the preferred
\* nickname from us, and a second otherwise.
SvrChanged ==
  /\ svr = "changed"
  /\ svr' = "select" /\ arg' = Pref
  /\ curNick' = arg
  /\ IF arg = Pref
     THEN authFailure' = FALSE /\ TimerStop /\ UNCHANGED inUse
     ELSE /\ authFailure' = (authFailure \/ curNick = Pref)
          /\ TimerReset
          /\ IF authFailure' THEN TellSelf ELSE UNCHANGED inUse
  /\ UNCHANGED <<clientVars, serverVars, mainVars>>

\* Fault: the timer is not set again once the nickname was asked for.
NoRetry == UNCHANGED running /\ tick' = FALSE
Retry == running' = TRUE /\ tick' = FALSE

SvrTick ==
  /\ svr = "select" /\ tick
  /\ IF curNick = Pref
     THEN tick' = FALSE /\ UNCHANGED <<running, clientVars, serverVars>>
     ELSE Retry /\ SendOnly({"NICK"})
  /\ UNCHANGED <<svr, arg, inUse, authFailure, curNick, mainVars>>

SvrInUse ==
  /\ svr = "select" /\ inUse
  /\ inUse' = FALSE
  /\ SendOnly({"REGAIN"})
  /\ UNCHANGED <<svr, arg, authFailure, timerVars, curNick, mainVars>>

\* Services want the password: it is sent, unless it was less than five minutes
\* ago.
SvrAuthDemand ==
  /\ svr = "select"
  /\ main = "send" /\ event.kind = "NOTICE"
  /\ SendOnly({}) \/ UNCHANGED <<clientVars, serverVars>>
  /\ PassOn
  /\ UNCHANGED <<rushed, svr, arg, inUse, authFailure, timerVars, curNick>>

SvrDisconnected ==
  /\ svr = "select"
  /\ main = "send" /\ event.kind = "eof"
  /\ TimerStop
  /\ PassOn
  /\ UNCHANGED <<rushed, svr, arg, inUse, authFailure, curNick, clientVars, serverVars>>

TimerFires ==
  /\ running
  /\ running' = FALSE /\ tick' = TRUE
  /\ UNCHANGED <<svr, arg, inUse, authFailure, curNick, clientVars, serverVars, mainVars>>

-----------------------------------------------------------------------------
MainSteps == MainTop \/ MainWait \/ ReadMsg \/ NickLooks \/ NickSendsInUse \/ OtherHandles
SvrSteps ==
  \/ SvrTakesNick \/ SvrNegotiated \/ SvrChanged \/ SvrTick \/ SvrInUse
  \/ SvrAuthDemand \/ SvrDisconnected

Next ==
  \/ MainSteps \/ ReadFails \/ SvrSteps \/ TimerFires
  \/ \E nick \in {Pref, Fallback} : Connect(nick)
  \/ \E i \in Conns : NetFails(i) \/ SrvActs(i) \/ \E req \in c2s[i] : SrvRequest(i, req)

\* Both goroutines run, the timer fires, and select takes every channel that
\* stays ready.  Nothing is assumed of the server.
Fairness ==
  /\ WF_vars(MainSteps \/ (main = "reading" /\ net[held] # "open" /\ ReadFails))
  /\ WF_vars(SvrNegotiated \/ SvrChanged) /\ WF_vars(SvrInUse) /\ WF_vars(SvrTick)
  /\ WF_vars(SvrTakesNick \/ SvrAuthDemand \/ SvrDisconnected) /\ WF_vars(TimerFires)

Spec == Init /\ [][Next]_vars /\ Fairness

-----------------------------------------------------------------------------
\* The main loop reads from the current connection, having handed out its
\* negotiation, and nothing it handed out is still being dealt with.
Settled == main = "reading" /\ held = negot /\ held = conn /\ svr = "select"

\* The nickname known is the server's once everything it sent has been dealt
\* with, on every connection, whatever became of earlier ones: unless a change of
\* it was looked at while svrLoop had yet to apply the nickname it had taken.
NickKnown ==
  Settled /\ net[held] = "open" /\ inbox[held] = <<>> /\ ~rushed
    => curNick = snick[held]

\* On a connection it was told of, the handler is never without a timer while it
\* knows a nickname other than the preferred one: the retries go on, whatever
\* disconnections it was told of late or never.
KeepsTrying == Settled /\ curNick # Pref => running \/ tick

\* The main loop never hangs in a handler: svrLoop takes everything, though it
\* also sends to itself.
DeliveryEnds == main \in {"chain", "send"} ~> main \notin {"chain", "send"}

(* What a comment in the source says of it.                                *)

\* txrx.go:281: CurNickName "Returns the current nickname using the "getnick"
\* service."
NickAlwaysKnown ==
  Settled /\ net[held] = "open" /\ inbox[held] = <<>> => curNick = snick[held]
=============================================================================
