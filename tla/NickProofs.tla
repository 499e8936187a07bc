----------------------------- MODULE NickProofs -----------------------------
(***************************************************************************)
(* Proofs about Nick: whatever nicknames there are, and however often      *)
(* services and operators impose one, on every connection the handler      *)
(* knows its nickname but for the one race, and goes on asking for the     *)
(* preferred one.                                                          *)
(***************************************************************************)
EXTENDS Nick, TLAPS

\* Where the main loop is, and what it has in its hands there; what it reads is from
\* a connection there has been, which is the newest unless that was given up since.
LoopInv ==
  /\ main \in {"top", "wait", "reading"} => event = NoEvent /\ at = NoHandler
  /\ main \in {"chain", "send"} => event # NoEvent /\ at \in {"nick", "ctcp", "autojoin"}
  /\ at = "ctcp" => Service = "rx"
  /\ main = "send" => at = "nick"
  /\ main = "reading" <=> held # Nil
  /\ conn \in {Nil, made} /\ negot <= made /\ held <= made

\* The nickname handler has been told of the current connection.
Told == conn # Nil /\ negot = conn

\* A new nickname the main loop has in its hands and the handler's loop has not.
Bringing == at = "nick" /\ event.kind \in {"negotiated", "NICK"}

\* What the handler has, once its loop has applied what it took.
Taken == IF svr = "select" THEN curNick ELSE arg

\* The messages of s lead from one nickname to the other, change by change.
Leads(from, s, to) ==
  \E h \in [0..Len(s) -> Nicks] :
    /\ h[0] = from /\ h[Len(s)] = to
    /\ \A k \in 1..Len(s) :
         IF s[k].kind = "NICK" THEN s[k].old = h[k - 1] /\ s[k].nick = h[k]
                               ELSE h[k] = h[k - 1]

\* What it has when it will have applied what it is being brought, too.
Known == IF Bringing THEN event.nick ELSE Taken

\* A change of nickname in the main loop's hands is compared with the nickname it
\* changes, and the handler's loop is ready for it.
Timely ==
  at = "nick" /\ event.kind = "NICK" => IF main = "chain" THEN event.old = Taken ELSE svr = "select"

\* What the server has sent leads to the nickname it has: from the one chosen in
\* negotiation as long as the handler was not told of it, and then from the one
\* known.
Reached == IF Told THEN Known ELSE chosen[conn]
NameInv ==
  conn # Nil /\ (Told => ~rushed) =>
    /\ Leads(Reached, inbox[conn], snick[conn])
    /\ Told => Timely /\ (main = "reading" => held = conn)

\* The first message of a connection is no change of nickname, and it is read
\* before the handler is told of the connection at most.
Unread == inbox[conn] # <<>> /\ inbox[conn][1].kind \in {"001", "433"}
ReadInv ==
  /\ conn # Nil /\ negot # conn
  /\ main \in {"wait", "reading"} \/ event.kind = "negotiated"
  => Unread

\* A handler that has been told keeps a timer, or is about to set one.
TimerInv ==
  /\ Told => \/ at = "nick" /\ event.kind = "negotiated"
             \/ svr # "select" \/ curNick = Pref \/ running \/ tick
  /\ event.kind = "eof" => ~Told

\* The inductive invariant.
NickInv == TypeOK /\ LoopInv /\ NameInv /\ ReadInv /\ TimerInv

-----------------------------------------------------------------------------
(* Types.                                                                  *)

Requests == SUBSET {"NICK", "REGAIN"}

\* The type invariant, by what the variables belong to.
ClientOK ==
  /\ net \in [Conns -> {"none", "open", "broken", "closed"}]
  /\ conn \in {i \in Conns : net[i] \in {"open", "broken"}} \cup {Nil}
  /\ made \in 0..MaxConn
  /\ chosen \in [Conns -> Nicks]
ServerOK ==
  /\ snick \in [Conns -> Nicks]
  /\ inbox \in [Conns -> Seq(Messages)]
  /\ c2s \in [Conns -> Requests]
  /\ acts \in 0..MaxActs
MainOK ==
  /\ main \in {"top", "wait", "reading", "chain", "send"}
  /\ negot \in Conns \cup {Nil} /\ held \in Conns \cup {Nil}
  /\ event \in Events
  /\ at \in {"txfinal", "nick", "ctcp", "autojoin"} \cup {NoHandler}
  /\ rushed \in BOOLEAN
SvrOK ==
  /\ arg \in Nicks
  /\ svr \in {"select", "negotiated", "changed"}
  /\ inUse \in BOOLEAN /\ authFailure \in BOOLEAN /\ running \in BOOLEAN /\ tick \in BOOLEAN
NameOK == curNick \in Nicks \cup {Unknown}

\* The ports of the handlers.
LEMMA PortsAre == Ports = {"txfinal", "nick", "ctcp", "autojoin"}
<1>1. DOMAIN Handlers = 1..4
  BY DEF Handlers
<1>2. /\ Handlers[1].port = "txfinal" /\ Handlers[2].port = "nick"
      /\ Handlers[3].port = "ctcp" /\ Handlers[4].port = "autojoin"
  BY DEF Handlers
<1> HIDE DEF Handlers
<1>3. {Handlers[n] : n \in DOMAIN Handlers}
        = {Handlers[1], Handlers[2], Handlers[3], Handlers[4]}
  BY <1>1
<1>4. QED
  BY <1>2, <1>3 DEF Ports

\* The parts make up the type invariant.
LEMMA TypesAre ==
  /\ TypeOK <=> ClientOK /\ ServerOK /\ MainOK /\ SvrOK /\ NameOK
  /\ TypeOK' <=> ClientOK' /\ ServerOK' /\ MainOK' /\ SvrOK' /\ NameOK'
<1>1. TypeOK <=> ClientOK /\ ServerOK /\ MainOK /\ SvrOK /\ NameOK
  BY PortsAre DEF TypeOK, ClientOK, ServerOK, MainOK, SvrOK, NameOK, Requests
<1>2. TypeOK' <=> ClientOK' /\ ServerOK' /\ MainOK' /\ SvrOK' /\ NameOK'
  BY PortsAre DEF TypeOK, ClientOK, ServerOK, MainOK, SvrOK, NameOK, Requests
<1>3. QED
  BY <1>1, <1>2

\* The parts an action leaves alone keep their types.
LEMMA Frames ==
  /\ ClientOK /\ UNCHANGED clientVars => ClientOK'
  /\ ServerOK /\ UNCHANGED serverVars => ServerOK'
  /\ MainOK /\ UNCHANGED mainVars => MainOK'
  /\ SvrOK /\ UNCHANGED svrVars => SvrOK'
  /\ NameOK /\ UNCHANGED curNick => NameOK'
<1>1. ClientOK /\ UNCHANGED clientVars => ClientOK'
  BY DEF ClientOK, clientVars
<1>2. ServerOK /\ UNCHANGED serverVars => ServerOK'
  BY DEF ServerOK, serverVars
<1>3. MainOK /\ UNCHANGED mainVars => MainOK'
  BY DEF MainOK, mainVars
<1>4. SvrOK /\ UNCHANGED svrVars => SvrOK'
  BY DEF SvrOK, svrVars, timerVars
<1>5. NameOK /\ UNCHANGED curNick => NameOK'
  BY DEF NameOK
<1>6. QED
  BY <1>1, <1>2, <1>3, <1>4, <1>5

\* A connection is given up, or nothing happens to it.
LEMMA Closes ==
  ASSUME ClientOK, CloseCurrent, UNCHANGED <<made, chosen>>
  PROVE  ClientOK' /\ conn' = Nil
BY DEF ClientOK, CloseCurrent

\* What is sent goes to the current connection, or fails with it.
LEMMA Sends ==
  ASSUME ClientOK, ServerOK, NEW reqs \in Requests, SendOnly(reqs)
  PROVE  /\ ClientOK' /\ ServerOK'
         /\ UNCHANGED <<made, chosen, inbox, snick, acts>>
         /\ conn' = conn \/ conn' = Nil
<1>1. UNCHANGED <<made, chosen, inbox, snick, acts>> /\ Send(reqs)
  BY DEF SendOnly
<1>2. CASE conn = Nil /\ UNCHANGED <<conn, net, c2s>>
  BY <1>1, <1>2 DEF ClientOK, ServerOK
<1>3. CASE conn # Nil /\ c2s' = [c2s EXCEPT ![conn] = @ \cup reqs] /\ UNCHANGED <<conn, net>>
  <2>1. ClientOK'
    BY <1>1, <1>3 DEF ClientOK
  <2>2. c2s' \in [Conns -> Requests]
    BY <1>3 DEF ClientOK, ServerOK, Requests
  <2>3. QED
    BY <1>1, <1>3, <2>1, <2>2 DEF ServerOK
<1>4. CASE conn # Nil /\ CloseCurrent /\ UNCHANGED c2s
  <2>1. ClientOK' /\ conn' = Nil
    BY <1>1, <1>4, Closes
  <2>2. QED
    BY <1>1, <1>4, <2>1 DEF ServerOK
<1>5. QED
  BY <1>1, <1>2, <1>3, <1>4 DEF Send

\* What the chain of a service does with an event: it goes to the handlers that
\* come after the nickname handler, or has been through all of them.
LEMMA Passes ==
  ASSUME LoopInv, main \in {"chain", "send"}, PassOn
  PROVE  /\ UNCHANGED <<negot, held>>
         /\ \/ at' \in {"ctcp", "autojoin"} /\ event' = event /\ main' = "chain"
            \/ /\ at' = NoHandler /\ event' = NoEvent
               /\ main' = IF event.kind = "negotiated" THEN "wait" ELSE "top"
         /\ at' = "ctcp" => Service = "rx"
<1>1. at \in {"nick", "ctcp", "autojoin"} /\ (at = "ctcp" => Service = "rx")
  BY DEF LoopInv
<1>2. Service \in {"rx", "negotiation-complete", "disconnected"}
  BY DEF Service
<1> DEFINE next == GetNextHandler(Table, at, Service)
<1>3. next \in {"ctcp", "autojoin", NoHandler} /\ (next = "ctcp" => Service = "rx")
  <2>1. CASE at = "autojoin"
    BY <1>2, <2>1, ChainsAssumption DEF NoHandler
  <2>2. CASE at = "ctcp"
    BY <1>1, <2>2, ChainsAssumption
  <2>3. CASE at = "nick" /\ Service = "rx"
    BY <2>3, ChainsAssumption
  <2>4. CASE at = "nick" /\ Service # "rx"
    BY <1>2, <2>4, ChainsAssumption
  <2>5. QED
    BY <1>1, <2>1, <2>2, <2>3, <2>4
<1>4. Leave(next)
  BY DEF PassOn
<1> HIDE DEF next
<1>5. CASE next = NoHandler
  BY <1>3, <1>4, <1>5 DEF Leave, NoHandler
<1>6. CASE next # NoHandler
  BY <1>3, <1>4, <1>6 DEF Leave
<1>7. QED
  BY <1>5, <1>6

\* Passing an event on keeps the types and the main loop's invariant.
LEMMA PassesOK ==
  ASSUME MainOK, LoopInv, main \in {"chain", "send"}, PassOn, UNCHANGED made, rushed' \in BOOLEAN,
         conn' \in {conn, Nil}
  PROVE  MainOK' /\ LoopInv'
<1>1. /\ UNCHANGED <<negot, held>>
      /\ \/ at' \in {"ctcp", "autojoin"} /\ event' = event /\ main' = "chain"
         \/ /\ at' = NoHandler /\ event' = NoEvent
            /\ main' = IF event.kind = "negotiated" THEN "wait" ELSE "top"
      /\ at' = "ctcp" => Service = "rx"
  BY Passes
<1>2. held = Nil /\ event # NoEvent /\ conn' \in {Nil, made'} /\ negot' <= made' /\ held' <= made'
  BY <1>1 DEF LoopInv
<1>3. at' = "ctcp" => Service' = "rx"
  BY <1>1 DEF Service, NoHandler
<1>4. MainOK'
  BY <1>1 DEF MainOK, Events
<1>5. CASE main' = "chain"
  BY <1>1, <1>2, <1>3, <1>4, <1>5 DEF LoopInv, NoHandler
<1>6. CASE main' # "chain"
  BY <1>1, <1>2, <1>4, <1>6 DEF LoopInv, NoHandler
<1>7. QED
  BY <1>4, <1>5, <1>6

\* Where the main loop stays where it is, so does its invariant.
LEMMA Rests ==
  ASSUME LoopInv, UNCHANGED <<main, negot, held, event, at, made>>, conn' \in {conn, Nil}
  PROVE  LoopInv'
<1>1. Service' = Service
  BY DEF Service
<1> HIDE DEF Service
<1>2. QED
  BY <1>1 DEF LoopInv

\* An event is handed out.
LEMMA Injects ==
  ASSUME LoopInv, NEW s \in {"rx", "negotiation-complete", "disconnected"}, NEW ev,
         Inject(s, ev), ev # NoEvent, held' = Nil, negot' \in {negot, made'},
         made' = made, made \in Nat, conn' \in {conn, Nil}
  PROVE  /\ LoopInv' /\ main' = "chain" /\ event' = ev /\ at' = "nick"
<1>1. main' = "chain" /\ event' = ev /\ at' = "nick"
  BY ChainsAssumption DEF Inject
<1>2. QED
  BY <1>1 DEF LoopInv, NoHandler, Nil

\* What an event is.
LEMMA Kinds ==
  /\ Messages \subseteq Events /\ NoEvent \notin Messages
  /\ \A m \in Messages : m.kind \in {"001", "433", "NOTICE", "VERSION", "NICK"}
  /\ \A m \in NickChanges : m.kind = "NICK" /\ m.old \in Nicks /\ m.nick \in Nicks
  /\ \A m \in Messages : m.kind = "NICK" => m \in NickChanges
  /\ \A e \in Events : e.kind \in {"negotiated", "NICK"} => e.nick \in Nicks
<1>1. Messages \subseteq Events
  BY DEF Events
<1>2. NoEvent \notin Messages
  BY DEF NoEvent, Messages, NickChanges
<1>3. \A m \in Messages : m.kind \in {"001", "433", "NOTICE", "VERSION", "NICK"}
  BY DEF Messages, NickChanges
<1>4. \A m \in NickChanges : m.kind = "NICK" /\ m.old \in Nicks /\ m.nick \in Nicks
  BY DEF NickChanges
<1>5. \A m \in Messages : m.kind = "NICK" => m \in NickChanges
  BY DEF Messages, NickChanges
<1>6. \A e \in Events : e.kind \in {"negotiated", "NICK"} => e.nick \in Nicks
  BY DEF Events, Messages, NickChanges, NoEvent
<1>7. QED
  BY <1>1, <1>2, <1>3, <1>4, <1>5, <1>6

\* The message read is the first of the connection's.
LEMMA Reads ==
  ASSUME ClientOK, ServerOK, MainOK, LoopInv, ReadMsg
  PROVE  /\ held \in Conns /\ inbox[held] \in Seq(Messages) /\ inbox[held] # <<>>
         /\ event' = Head(inbox[held]) /\ event' \in Messages
         /\ inbox' = [inbox EXCEPT ![held] = Tail(inbox[held])]
         /\ ServerOK' /\ MainOK' /\ LoopInv' /\ main' = "chain" /\ at' = "nick"
         /\ UNCHANGED <<negot, rushed, snick, clientVars, curNick, svrVars>>
<1>1. /\ main = "reading" /\ inbox[held] # <<>> /\ held' = Nil
      /\ inbox' = [inbox EXCEPT ![held] = Tail(inbox[held])]
      /\ Inject("rx", Head(inbox[held]))
      /\ UNCHANGED <<negot, rushed, c2s, snick, acts, clientVars, curNick, svrVars>>
  BY DEF ReadMsg
<1>2. held \in Conns /\ inbox[held] \in Seq(Messages)
  BY <1>1 DEF LoopInv, MainOK, ServerOK
<1>3. Head(inbox[held]) \in Messages /\ Tail(inbox[held]) \in Seq(Messages)
  BY <1>1, <1>2
<1>4. Head(inbox[held]) \in Events /\ Head(inbox[held]) # NoEvent
  BY <1>3, Kinds
<1>5. UNCHANGED <<made, conn>>
  BY <1>1 DEF clientVars
<1>6. LoopInv' /\ main' = "chain" /\ event' = Head(inbox[held]) /\ at' = "nick"
  <2> DEFINE ev == Head(inbox[held])
  <2>1. Inject("rx", ev) /\ ev # NoEvent
    BY <1>1, <1>4
  <2> HIDE DEF ev
  <2>2. made \in Nat
    BY DEF ClientOK
  <2>3. LoopInv' /\ main' = "chain" /\ event' = ev /\ at' = "nick"
    BY <1>1, <1>5, <2>1, <2>2, Injects
  <2>4. QED
    BY <2>3 DEF ev
<1>7. ServerOK'
  BY <1>1, <1>2, <1>3 DEF ServerOK
<1>8. MainOK'
  BY <1>1, <1>4, <1>6 DEF MainOK
<1>9. QED
  BY <1>1, <1>2, <1>3, <1>6, <1>7, <1>8

\* The main loop looks whether there was a negotiation.
LEMMA MainTopTyped ==
  ASSUME TypeOK, LoopInv, MainTop
  PROVE  TypeOK' /\ LoopInv'
<1>1. ClientOK /\ ServerOK /\ MainOK /\ SvrOK /\ NameOK
  BY TypesAre
<1>2. /\ main = "top" /\ event = NoEvent /\ at = NoHandler /\ held = Nil /\ held' = Nil
      /\ UNCHANGED <<clientVars, serverVars, curNick, svrVars>>
  BY DEF MainTop, LoopInv
<1>3. ClientOK' /\ ServerOK' /\ SvrOK' /\ NameOK'
  BY <1>1, <1>2, Frames
<1>4. UNCHANGED <<conn, made, chosen>> /\ made \in Nat /\ conn \in {Nil, made}
  BY <1>1, <1>2 DEF clientVars, ClientOK, LoopInv
<1>5. CASE conn # negot /\ conn # Nil
  <2> DEFINE ev == [kind |-> "negotiated", nick |-> chosen[conn]]
  <2>1. Inject("negotiation-complete", ev) /\ negot' = conn /\ rushed' = FALSE
    BY <1>5 DEF MainTop
  <2>2. ev \in Events /\ ev # NoEvent /\ conn \in Conns
    BY <1>1, <1>5 DEF ClientOK, Events, NoEvent
  <2> HIDE DEF ev
  <2>3. LoopInv' /\ main' = "chain" /\ event' = ev /\ at' = "nick"
    BY <1>2, <1>4, <1>5, <2>1, <2>2, Injects
  <2>4. MainOK'
    BY <1>2, <2>1, <2>2, <2>3 DEF MainOK
  <2>5. QED
    BY <1>3, <2>3, <2>4, TypesAre
<1>6. CASE conn = negot \/ conn = Nil
  <2>1. /\ main' = "wait" /\ event' = NoEvent /\ at' = NoHandler
        /\ negot' = conn /\ rushed' \in BOOLEAN
    BY <1>1, <1>2, <1>6 DEF MainTop, MainOK
  <2>2. MainOK'
    BY <1>1, <1>2, <2>1 DEF MainOK, ClientOK, Events
  <2>3. LoopInv'
    BY <1>2, <1>4, <2>1 DEF LoopInv, NoHandler, Nil
  <2>4. QED
    BY <1>3, <2>2, <2>3, TypesAre
<1>7. QED
  BY <1>5, <1>6

\* It waits for a connection to read from, reads a message, or fails to.
LEMMA MainReadTyped ==
  ASSUME TypeOK, LoopInv, MainWait \/ ReadMsg \/ ReadFails
  PROVE  TypeOK' /\ LoopInv'
<1>1. ClientOK /\ ServerOK /\ MainOK /\ SvrOK /\ NameOK
  BY TypesAre
<1>2. made \in Nat /\ conn \in {Nil, made}
  BY <1>1 DEF ClientOK, LoopInv
<1>3. CASE MainWait
  <2>1. /\ main = "wait" /\ event = NoEvent /\ at = NoHandler /\ conn # Nil
        /\ main' = "reading" /\ held' = conn
        /\ UNCHANGED <<negot, event, at, rushed, clientVars, serverVars, curNick, svrVars>>
    BY <1>3 DEF MainWait, LoopInv
  <2>2. ClientOK' /\ ServerOK' /\ SvrOK' /\ NameOK'
    BY <1>1, <2>1, Frames
  <2>3. MainOK'
    BY <1>1, <2>1 DEF MainOK, ClientOK
  <2>4. LoopInv'
    BY <1>2, <2>1 DEF LoopInv, NoHandler, Nil, clientVars
  <2>5. QED
    BY <2>2, <2>3, <2>4, TypesAre
<1>4. CASE ReadMsg
  <2>1. /\ ServerOK' /\ MainOK' /\ LoopInv'
        /\ UNCHANGED <<clientVars, curNick, svrVars>>
    BY <1>1, <1>4, Reads
  <2>2. ClientOK' /\ SvrOK' /\ NameOK'
    BY <1>1, <2>1, Frames
  <2>3. QED
    BY <2>1, <2>2, TypesAre
<1>5. CASE ReadFails
  <2>1. /\ main = "reading" /\ event = NoEvent /\ at = NoHandler /\ held' = Nil /\ CloseCurrent
        /\ UNCHANGED <<negot, rushed, made, chosen, serverVars, curNick, svrVars>>
    BY <1>5 DEF ReadFails, LoopInv
  <2>2. ClientOK' /\ conn' = Nil
    BY <1>1, <2>1, Closes
  <2>3. ServerOK' /\ SvrOK' /\ NameOK'
    BY <1>1, <2>1, Frames
  <2>4. CASE main' = "top" /\ UNCHANGED <<event, at>>
    <3>1. MainOK'
      BY <1>1, <2>1, <2>4 DEF MainOK
    <3>2. LoopInv'
      BY <1>2, <2>1, <2>2, <2>4 DEF LoopInv, NoHandler, Nil
    <3>3. QED
      BY <2>2, <2>3, <3>1, <3>2, TypesAre
  <2>5. CASE Inject("disconnected", [kind |-> "eof"])
    <3> DEFINE ev == [kind |-> "eof"]
    <3>1. Inject("disconnected", ev) /\ ev # NoEvent /\ ev \in Events
      BY <2>5 DEF NoEvent, Events
    <3> HIDE DEF ev
    <3>2. LoopInv' /\ main' = "chain" /\ event' = ev /\ at' = "nick"
      BY <1>2, <2>1, <2>2, <3>1, Injects
    <3>3. MainOK'
      BY <1>1, <2>1, <3>1, <3>2 DEF MainOK
    <3>4. QED
      BY <2>2, <2>3, <3>2, <3>3, TypesAre
  <2>6. QED
    BY <1>5, <2>4, <2>5 DEF ReadFails
<1>6. QED
  BY <1>3, <1>4, <1>5

\* The nickname handler looks at an event, and the main loop hands it over or on.
LEMMA MainChainTyped ==
  ASSUME TypeOK, LoopInv, NickLooks \/ NickSendsInUse \/ OtherHandles
  PROVE  TypeOK' /\ LoopInv'
<1>1. ClientOK /\ ServerOK /\ MainOK /\ SvrOK /\ NameOK
  BY TypesAre
<1>2. made \in Nat /\ conn \in {Nil, made} /\ rushed \in BOOLEAN
  BY <1>1 DEF ClientOK, LoopInv, MainOK
<1>3. CASE NickLooks
  <2>1. /\ main = "chain" /\ at = "nick" /\ UNCHANGED <<clientVars, serverVars, svrVars>>
        /\ rushed' \in BOOLEAN
        /\ curNick' = IF event.kind = "negotiated" THEN event.nick ELSE curNick
    BY <1>2, <1>3 DEF NickLooks
  <2>2. ClientOK' /\ ServerOK' /\ SvrOK'
    BY <1>1, <2>1, Frames
  <2>3. NameOK'
    BY <1>1, <2>1, Kinds DEF NameOK, MainOK
  <2>4. UNCHANGED <<conn, made>>
    BY <2>1 DEF clientVars
  <2>5. CASE main' = "send" /\ UNCHANGED <<negot, held, event, at>>
    <3>1. MainOK'
      BY <1>1, <2>1, <2>5 DEF MainOK
    <3>2. LoopInv'
      BY <2>1, <2>4, <2>5 DEF LoopInv, NoHandler
    <3>3. QED
      BY <2>2, <2>3, <3>1, <3>2, TypesAre
  <2>6. CASE PassOn
    <3>1. MainOK' /\ LoopInv'
      BY <1>1, <2>1, <2>4, <2>6, PassesOK
    <3>2. QED
      BY <2>2, <2>3, <3>1, TypesAre
  <2>7. QED
    BY <1>3, <2>5, <2>6 DEF NickLooks
<1>4. CASE NickSendsInUse
  <2>1. /\ main = "send" /\ inUse' = TRUE /\ PassOn
        /\ UNCHANGED <<rushed, clientVars, serverVars, curNick, svr, arg, authFailure, timerVars>>
    BY <1>4 DEF NickSendsInUse
  <2>2. ClientOK' /\ ServerOK' /\ NameOK'
    BY <1>1, <2>1, Frames
  <2>3. SvrOK'
    BY <1>1, <2>1 DEF SvrOK, timerVars
  <2>4. UNCHANGED <<conn, made>>
    BY <2>1 DEF clientVars
  <2>5. MainOK' /\ LoopInv'
    BY <1>1, <1>2, <2>1, <2>4, PassesOK
  <2>6. QED
    BY <2>2, <2>3, <2>5, TypesAre
<1>5. CASE OtherHandles
  <2>1. main = "chain" /\ at \in {"ctcp", "autojoin"} /\ UNCHANGED <<rushed, curNick, svrVars>>
    BY <1>5 DEF OtherHandles
  <2>2. SvrOK' /\ NameOK'
    BY <1>1, <2>1, Frames
  <2>3. CASE PassOn /\ UNCHANGED <<clientVars, serverVars>>
    <3>1. ClientOK' /\ ServerOK' /\ UNCHANGED <<conn, made>>
      BY <1>1, <2>3, Frames DEF clientVars
    <3>2. MainOK' /\ LoopInv'
      BY <1>1, <1>2, <2>1, <2>3, <3>1, PassesOK
    <3>3. QED
      BY <2>2, <3>1, <3>2, TypesAre
  <2>4. CASE SendOnly({}) /\ Leave(NoHandler)
    <3>1. ClientOK' /\ ServerOK' /\ UNCHANGED made /\ (conn' = conn \/ conn' = Nil)
      BY <1>1, <2>4, Sends DEF Requests
    <3>2. /\ main' = IF event.kind = "negotiated" THEN "wait" ELSE "top"
          /\ event' = NoEvent /\ at' = NoHandler /\ UNCHANGED <<negot, held>>
      BY <2>4 DEF Leave
    <3>3. MainOK'
      BY <1>1, <2>1, <3>2 DEF MainOK, Events
    <3>4. LoopInv'
      BY <1>2, <2>1, <3>1, <3>2 DEF LoopInv, NoHandler
    <3>5. QED
      BY <2>2, <3>1, <3>3, <3>4, TypesAre
  <2>5. QED
    BY <1>5, <2>3, <2>4 DEF OtherHandles
<1>6. QED
  BY <1>3, <1>4, <1>5

\* The handler's loop takes what it is handed.
LEMMA SvrTakesTyped ==
  ASSUME TypeOK, LoopInv, SvrTakesNick \/ SvrAuthDemand \/ SvrDisconnected
  PROVE  TypeOK' /\ LoopInv'
<1>1. ClientOK /\ ServerOK /\ MainOK /\ SvrOK /\ NameOK
  BY TypesAre
<1>2. main = "send" /\ PassOn /\ UNCHANGED <<rushed, curNick>>
  BY DEF SvrTakesNick, SvrAuthDemand, SvrDisconnected
<1>3. SvrOK'
  <2>1. CASE SvrTakesNick
    <3>1. event.nick \in Nicks
      BY <1>1, <2>1, Kinds DEF SvrTakesNick, MainOK
    <3>2. QED
      BY <1>1, <2>1, <3>1 DEF SvrTakesNick, SvrOK, timerVars
  <2>2. CASE SvrAuthDemand
    BY <1>1, <2>2 DEF SvrAuthDemand, SvrOK, timerVars
  <2>3. CASE SvrDisconnected
    BY <1>1, <2>3 DEF SvrDisconnected, SvrOK, TimerStop
  <2>4. QED
    BY <2>1, <2>2, <2>3
<1>4. ClientOK' /\ ServerOK' /\ UNCHANGED made /\ (conn' = conn \/ conn' = Nil)
  <2>1. SendOnly({}) \/ UNCHANGED <<clientVars, serverVars>>
    BY DEF SvrTakesNick, SvrAuthDemand, SvrDisconnected
  <2>2. CASE SendOnly({})
    BY <1>1, <2>2, Sends DEF Requests
  <2>3. CASE UNCHANGED <<clientVars, serverVars>>
    BY <1>1, <2>3, Frames DEF clientVars
  <2>4. QED
    BY <2>1, <2>2, <2>3
<1>5. MainOK' /\ LoopInv'
  BY <1>1, <1>2, <1>4, PassesOK DEF MainOK
<1>6. NameOK'
  BY <1>1, <1>2, Frames
<1>7. QED
  BY <1>3, <1>4, <1>5, <1>6, TypesAre

\* The handler's loop applies what it took, or takes something of its own.
LEMMA SvrOwnTyped ==
  ASSUME TypeOK, LoopInv, SvrNegotiated \/ SvrChanged \/ SvrTick \/ SvrInUse \/ TimerFires
  PROVE  TypeOK' /\ LoopInv'
<1>1. ClientOK /\ ServerOK /\ MainOK /\ SvrOK /\ NameOK
  BY TypesAre
<1>2. UNCHANGED mainVars
  BY DEF SvrNegotiated, SvrChanged, SvrTick, SvrInUse, TimerFires
<1>3. MainOK'
  BY <1>1, <1>2, Frames
<1>4. ClientOK' /\ ServerOK' /\ UNCHANGED made /\ (conn' = conn \/ conn' = Nil)
  <2>1. SendOnly({"NICK"}) \/ SendOnly({"REGAIN"}) \/ UNCHANGED <<clientVars, serverVars>>
    BY DEF SvrNegotiated, SvrChanged, SvrTick, SvrInUse, TimerFires
  <2>2. CASE SendOnly({"NICK"})
    BY <1>1, <2>2, Sends DEF Requests
  <2>3. CASE SendOnly({"REGAIN"})
    BY <1>1, <2>3, Sends DEF Requests
  <2>4. CASE UNCHANGED <<clientVars, serverVars>>
    BY <1>1, <2>4, Frames DEF clientVars
  <2>5. QED
    BY <2>1, <2>2, <2>3, <2>4
<1>5. LoopInv'
  BY <1>2, <1>4, Rests DEF mainVars
<1>6. SvrOK' /\ NameOK'
  <2>1. CASE SvrNegotiated
    BY <1>1, <2>1, NicksAssumption
       DEF SvrNegotiated, SvrOK, NameOK, TimerReset, TimerStop
  <2>2. CASE SvrChanged
    BY <1>1, <2>2, NicksAssumption
       DEF SvrChanged, SvrOK, NameOK, TimerReset, TimerStop, TellSelf
  <2>3. CASE SvrTick
    BY <1>1, <2>3 DEF SvrTick, SvrOK, NameOK, Retry
  <2>4. CASE SvrInUse
    BY <1>1, <2>4 DEF SvrInUse, SvrOK, NameOK, timerVars
  <2>5. CASE TimerFires
    BY <1>1, <2>5 DEF TimerFires, SvrOK, NameOK
  <2>6. QED
    BY <2>1, <2>2, <2>3, <2>4, <2>5
<1>7. QED
  BY <1>3, <1>4, <1>5, <1>6, TypesAre

\* What the server says is of the types.
LEMMA ChangesTyped ==
  ASSUME ServerOK, NEW i \in Conns, NEW nick \in Nicks, ChangeNick(i, nick)
  PROVE  /\ snick' \in [Conns -> Nicks] /\ inbox' \in [Conns -> Seq(Messages)]
         /\ snick' = [snick EXCEPT ![i] = nick]
<1> DEFINE m == [kind |-> "NICK", old |-> snick[i], nick |-> nick]
<1>1. m \in Messages
  BY DEF ServerOK, Messages, NickChanges
<1>2. inbox' = [inbox EXCEPT ![i] = Append(@, m)] /\ snick' = [snick EXCEPT ![i] = nick]
  BY DEF ChangeNick, Says
<1> HIDE DEF m
<1>3. QED
  BY <1>1, <1>2 DEF ServerOK

\* So is what it says of something else.
LEMMA SaysTyped ==
  ASSUME ServerOK, NEW i \in Conns, NEW m \in Messages, Says(i, m)
  PROVE  inbox' \in [Conns -> Seq(Messages)]
BY DEF ServerOK, Says

\* The server's steps, and the transport's.
LEMMA ServerTyped ==
  ASSUME TypeOK, LoopInv, NEW i \in Conns,
         NetFails(i) \/ SrvActs(i) \/ \E req \in c2s[i] : SrvRequest(i, req)
  PROVE  TypeOK' /\ LoopInv'
<1>1. ClientOK /\ ServerOK /\ MainOK /\ SvrOK /\ NameOK
  BY TypesAre
<1>2. UNCHANGED <<mainVars, curNick, svrVars, conn, made>>
  BY DEF NetFails, SrvActs, SrvRequest, clientVars
<1>3. MainOK' /\ SvrOK' /\ NameOK'
  BY <1>1, <1>2, Frames
<1>4. LoopInv'
  BY <1>2, Rests DEF mainVars
<1>5. ClientOK'
  <2>1. CASE NetFails(i)
    BY <1>1, <2>1 DEF NetFails, ClientOK
  <2>2. CASE ~NetFails(i)
    <3>1. UNCHANGED clientVars
      BY <2>2 DEF SrvActs, SrvRequest
    <3>2. QED
      BY <1>1, <3>1, Frames
  <2>3. QED
    BY <2>1, <2>2
<1>6. ServerOK'
  <2>1. CASE NetFails(i)
    BY <1>1, <2>1, Frames DEF NetFails
  <2>2. CASE SrvActs(i)
    <3>1. acts' \in 0..MaxActs /\ c2s' = c2s
      BY <1>1, <2>2, BoundsAssumption DEF SrvActs, ServerOK
    <3>2. snick' \in [Conns -> Nicks] /\ inbox' \in [Conns -> Seq(Messages)]
      <4>1. CASE \E nick \in Nicks \ {snick[i]} : ChangeNick(i, nick)
        BY <1>1, <4>1, ChangesTyped
      <4>2. ASSUME NEW kind \in {"NOTICE", "VERSION"},
                   Says(i, [kind |-> kind, nick |-> snick[i]]), UNCHANGED snick
            PROVE  snick' \in [Conns -> Nicks] /\ inbox' \in [Conns -> Seq(Messages)]
        <5>1. [kind |-> kind, nick |-> snick[i]] \in Messages
          BY <1>1 DEF ServerOK, Messages
        <5>2. inbox' \in [Conns -> Seq(Messages)]
          BY <1>1, <4>2, <5>1, SaysTyped
        <5>3. QED
          BY <1>1, <4>2, <5>2 DEF ServerOK
      <4>3. QED
        BY <2>2, <4>1, <4>2 DEF SrvActs
    <3>3. QED
      BY <1>1, <3>1, <3>2 DEF ServerOK
  <2>3. ASSUME NEW req \in c2s[i], SrvRequest(i, req) PROVE ServerOK'
    <3>1. c2s' \in [Conns -> Requests] /\ acts' = acts
      BY <1>1, <2>3 DEF SrvRequest, ServerOK, Requests
    <3>2. snick' \in [Conns -> Nicks] /\ inbox' \in [Conns -> Seq(Messages)]
      <4>1. CASE ChangeNick(i, Pref)
        BY <1>1, <4>1, ChangesTyped, NicksAssumption
      <4>2. CASE Says(i, [kind |-> "433"]) /\ UNCHANGED snick
        <5>1. [kind |-> "433"] \in Messages
          BY DEF Messages
        <5>2. inbox' \in [Conns -> Seq(Messages)]
          BY <1>1, <4>2, <5>1, SaysTyped
        <5>3. QED
          BY <1>1, <4>2, <5>2 DEF ServerOK
      <4>3. CASE UNCHANGED <<inbox, snick>>
        BY <1>1, <4>3 DEF ServerOK
      <4>4. QED
        BY <2>3, <4>1, <4>2, <4>3 DEF SrvRequest
    <3>3. QED
      BY <1>1, <3>1, <3>2 DEF ServerOK
  <2>4. QED
    BY <2>1, <2>2, <2>3
<1>7. QED
  BY <1>3, <1>4, <1>5, <1>6, TypesAre

\* A connection is made, with the preferred nickname or another.
LEMMA ConnectTyped ==
  ASSUME TypeOK, LoopInv, NEW nick \in {Pref, Fallback}, Connect(nick)
  PROVE  TypeOK' /\ LoopInv'
<1>1. ClientOK /\ ServerOK /\ MainOK /\ SvrOK /\ NameOK
  BY TypesAre
<1>2. /\ conn = Nil /\ made < MaxConn /\ made' = made + 1 /\ conn' = made'
      /\ net' = [net EXCEPT ![made'] = "open"]
      /\ UNCHANGED <<acts, mainVars, curNick, svrVars>>
  BY DEF Connect
<1>3. MainOK' /\ SvrOK' /\ NameOK'
  BY <1>1, <1>2, Frames
<1>4. made \in Nat /\ made' \in Nat /\ made' \in Conns /\ made' \in 0..MaxConn
  BY <1>1, <1>2, BoundsAssumption DEF ClientOK, Conns
<1>5. nick \in Nicks /\ Pref \in Nicks
  BY NicksAssumption
<1>6. chosen' = [j \in Conns |-> IF j = made' THEN nick ELSE Pref] /\ snick' = chosen'
  BY DEF Connect
<1>7. chosen' \in [Conns -> Nicks]
  BY <1>5, <1>6
<1>8. ClientOK'
  BY <1>1, <1>2, <1>4, <1>7 DEF ClientOK
<1>9. inbox' \in [Conns -> Seq(Messages)]
  <2>1. Welcome(nick) \in Seq(Messages)
    <3>1. [kind |-> "001"] \in Messages /\ [kind |-> "433"] \in Messages
      BY DEF Messages
    <3>2. QED
      BY <3>1 DEF Welcome
  <2>2. inbox' = [j \in Conns |-> CASE j = made' -> Welcome(nick)
                                   [] j = held -> inbox[j]
                                   [] OTHER -> <<>>]
    BY DEF Connect
  <2>3. ASSUME NEW j \in Conns PROVE inbox'[j] \in Seq(Messages)
    <3>1. CASE j = made'
      <4>1. j # held
        BY <1>1, <1>2, <1>4, <3>1 DEF LoopInv, MainOK, Conns, Nil
      <4>2. inbox'[j] = Welcome(nick)
        BY <2>2, <3>1, <4>1
      <4>3. QED
        BY <2>1, <4>2
    <3>2. CASE j # made' /\ j = held
      BY <1>1, <2>2, <3>2 DEF ServerOK
    <3>3. CASE j # made' /\ j # held
      BY <2>2, <3>3
    <3>4. QED
      BY <3>1, <3>2, <3>3
  <2>4. QED
    BY <2>2, <2>3
<1>10. c2s' \in [Conns -> Requests]
  BY DEF Connect, Requests
<1>11. ServerOK'
  BY <1>1, <1>2, <1>6, <1>7, <1>9, <1>10 DEF ServerOK
<1>12. LoopInv'
  <2>1. UNCHANGED <<main, negot, held, event, at>>
    BY <1>2 DEF mainVars
  <2>2. Service' = Service
    BY <2>1 DEF Service
  <2>3. negot <= made' /\ held <= made'
    <3>1. negot <= made /\ held <= made /\ negot \in Nat /\ held \in Nat
      BY <1>1 DEF LoopInv, MainOK, Conns, Nil
    <3>2. QED
      BY <1>2, <1>4, <3>1
  <2> HIDE DEF Service
  <2>4. QED
    BY <1>2, <2>1, <2>2, <2>3 DEF LoopInv
<1>13. QED
  BY <1>3, <1>8, <1>11, <1>12, TypesAre

\* Every step keeps the types and the main loop's invariant.
LEMMA TypedStep ==
  ASSUME TypeOK, LoopInv, [Next]_vars
  PROVE  TypeOK' /\ LoopInv'
<1>1. CASE UNCHANGED vars
  <2>1. TypeOK'
    BY <1>1, TypesAre, Frames DEF vars
  <2>2. LoopInv'
    BY <1>1, Rests DEF vars, clientVars, mainVars
  <2>3. QED
    BY <2>1, <2>2
<1>2. CASE Next
  BY <1>2, MainTopTyped, MainReadTyped, MainChainTyped, SvrTakesTyped, SvrOwnTyped,
     ServerTyped, ConnectTyped DEF Next, MainSteps, SvrSteps
<1>3. QED
  BY <1>1, <1>2

-----------------------------------------------------------------------------
(* Changes of nickname, one after the other.                               *)

\* No message changes nothing.
LEMMA LeadsNowhere ==
  ASSUME NEW a, NEW b, Leads(a, <<>>, b)
  PROVE  a = b
BY DEF Leads

\* One message more changes the nickname once more, or leaves it.
LEMMA LeadsOn ==
  ASSUME NEW s \in Seq(Messages), NEW a, NEW b, Leads(a, s, b),
         NEW m \in Messages, NEW c \in Nicks,
         IF m.kind = "NICK" THEN m.old = b /\ m.nick = c ELSE c = b
  PROVE  Leads(a, Append(s, m), c)
<1> DEFINE t == Append(s, m)
           L == Len(s)
<1>1. L \in Nat /\ Len(t) = L + 1 /\ t[L + 1] = m /\ \A k \in 1..L : t[k] = s[k]
  OBVIOUS
<1>2. PICK h \in [0..L -> Nicks] :
         /\ h[0] = a /\ h[L] = b
         /\ \A k \in 1..L :
              IF s[k].kind = "NICK" THEN s[k].old = h[k - 1] /\ s[k].nick = h[k]
                                    ELSE h[k] = h[k - 1]
  BY DEF Leads
<1> HIDE DEF t, L
<1> DEFINE g == [k \in 0..L + 1 |-> IF k = L + 1 THEN c ELSE h[k]]
<1>3. g \in [0..Len(t) -> Nicks]
  BY <1>1, <1>2
<1>4. g[0] = a /\ g[Len(t)] = c
  BY <1>1, <1>2
<1>5. ASSUME NEW k \in 1..Len(t)
      PROVE  IF t[k].kind = "NICK" THEN t[k].old = g[k - 1] /\ t[k].nick = g[k]
                                   ELSE g[k] = g[k - 1]
  <2>1. CASE k = L + 1
    <3>1. g[k] = c /\ g[k - 1] = b /\ t[k] = m
      BY <1>1, <1>2, <2>1
    <3>2. QED
      BY <3>1
  <2>2. CASE k # L + 1
    <3>1. k \in 1..L
      BY <1>1, <2>2
    <3>2. g[k] = h[k] /\ g[k - 1] = h[k - 1] /\ t[k] = s[k]
      BY <1>1, <3>1
    <3> HIDE DEF g
    <3>3. QED
      BY <1>2, <3>1, <3>2
  <2>3. QED
    BY <2>1, <2>2
<1> HIDE DEF g
<1>6. Leads(a, t, c)
  BY <1>3, <1>4, <1>5 DEF Leads
<1>7. QED
  BY <1>6 DEF t

\* Places in the rest of a sequence.
LEMMA Tails ==
  ASSUME NEW S, NEW s \in Seq(S), s # <<>>
  PROVE  /\ Len(s) \in Nat /\ Len(s) > 0 /\ Head(s) = s[1] /\ s[1] \in S
         /\ Tail(s) \in Seq(S) /\ Len(Tail(s)) = Len(s) - 1
         /\ \A k \in 1..Len(s) - 1 : Tail(s)[k] = s[k + 1]
OBVIOUS

\* The first message is a change of the nickname everything starts from, or no change.
LEMMA LeadsFrom ==
  ASSUME NEW s \in Seq(Messages), s # <<>>, NEW a, NEW b, Leads(a, s, b)
  PROVE  IF Head(s).kind = "NICK" THEN Head(s).old = a /\ Leads(Head(s).nick, Tail(s), b)
                                  ELSE Leads(a, Tail(s), b)
<1> DEFINE t == Tail(s)
           L == Len(s)
<1>1. /\ L \in Nat /\ L > 0 /\ Head(s) = s[1] /\ t \in Seq(Messages) /\ Len(t) = L - 1
      /\ \A k \in 1..L - 1 : t[k] = s[k + 1]
  BY Tails
<1>2. PICK h \in [0..L -> Nicks] :
         /\ h[0] = a /\ h[L] = b
         /\ \A k \in 1..L :
              IF s[k].kind = "NICK" THEN s[k].old = h[k - 1] /\ s[k].nick = h[k]
                                    ELSE h[k] = h[k - 1]
  BY DEF Leads
<1> HIDE DEF t, L
<1>3. IF s[1].kind = "NICK" THEN s[1].old = a /\ s[1].nick = h[1] ELSE h[1] = a
  <2>1. 1 \in 1..L /\ 1 - 1 = 0
    BY <1>1
  <2>2. QED
    BY <1>2, <2>1
<1> DEFINE g == [k \in 0..L - 1 |-> h[k + 1]]
<1>4. g \in [0..Len(t) -> Nicks] /\ g[0] = h[1] /\ g[Len(t)] = b
  BY <1>1, <1>2
<1>5. ASSUME NEW k \in 1..Len(t)
      PROVE  IF t[k].kind = "NICK" THEN t[k].old = g[k - 1] /\ t[k].nick = g[k]
                                   ELSE g[k] = g[k - 1]
  <2>1. /\ k + 1 \in 1..L /\ k + 1 - 1 = k /\ t[k] = s[k + 1]
        /\ g[k] = h[k + 1] /\ g[k - 1] = h[k]
    BY <1>1
  <2> HIDE DEF g
  <2>2. QED
    BY <1>2, <2>1
<1> HIDE DEF g
<1>6. Leads(h[1], t, b)
  BY <1>4, <1>5 DEF Leads
<1>7. QED
  BY <1>1, <1>3, <1>6 DEF t

\* Negotiation's messages change nothing, and the first is none of the others.
LEMMA LeadsWelcome ==
  ASSUME NEW nick \in Nicks
  PROVE  /\ Leads(nick, Welcome(nick), nick) /\ Welcome(nick) # <<>>
         /\ Welcome(nick)[1].kind \in {"001", "433"}
<1>1. \/ Welcome(nick) = << [kind |-> "001"] >>
      \/ Welcome(nick) = << [kind |-> "433"], [kind |-> "001"] >>
  BY DEF Welcome
<1>2. Welcome(nick) # <<>> /\ Welcome(nick)[1].kind \in {"001", "433"}
  BY <1>1
<1>3. Len(Welcome(nick)) \in Nat /\ \A k \in 1..Len(Welcome(nick)) : Welcome(nick)[k].kind # "NICK"
  BY <1>1
<1> DEFINE w == Welcome(nick)
           h == [k \in 0..Len(w) |-> nick]
<1>4. h \in [0..Len(w) -> Nicks] /\ h[0] = nick /\ h[Len(w)] = nick
  BY <1>3
<1>5. \A k \in 1..Len(w) : h[k] = h[k - 1] /\ w[k].kind # "NICK"
  BY <1>3
<1> HIDE DEF w, h
<1>6. Leads(nick, w, nick)
  BY <1>4, <1>5 DEF Leads
<1>7. QED
  BY <1>2, <1>6 DEF w

-----------------------------------------------------------------------------
(* The timer, and the first message.                                       *)

\* What is sent without looking at the result.
LEMMA SendsLittle ==
  ASSUME NEW reqs, SendOnly(reqs)
  PROVE  UNCHANGED <<made, chosen, inbox, snick>> /\ (conn' = conn \/ conn' = Nil)
BY DEF SendOnly, Send, CloseCurrent

\* The event passed on is not brought to the handler's loop.
LEMMA PassedOn ==
  ASSUME LoopInv, main \in {"chain", "send"}, PassOn \/ Leave(NoHandler)
  PROVE  /\ UNCHANGED <<negot, held>> /\ at' # "nick" /\ event' \in {event, NoEvent}
         /\ (main' = "wait" /\ event.kind = "negotiated") \/ main' \in {"chain", "top"}
<1>1. CASE PassOn
  BY <1>1, Passes DEF NoHandler
<1>2. CASE Leave(NoHandler)
  BY <1>2 DEF Leave, NoHandler
<1>3. QED
  BY <1>1, <1>2

\* The steps that pass an event on.
Passing == NickSendsInUse \/ OtherHandles \/ SvrTakesNick \/ SvrAuthDemand \/ SvrDisconnected

\* What they have in common: the event is passed on, and the connection stays or goes.
LEMMA PassingDoes ==
  ASSUME LoopInv, Passing
  PROVE  /\ main \in {"chain", "send"}
         /\ UNCHANGED <<negot, held, rushed, curNick, made, chosen, inbox, snick>>
         /\ at' # "nick" /\ event' \in {event, NoEvent}
         /\ (main' = "wait" /\ event.kind = "negotiated") \/ main' \in {"chain", "top"}
         /\ conn' = conn \/ conn' = Nil
<1>1. /\ main \in {"chain", "send"} /\ (PassOn \/ Leave(NoHandler)) /\ UNCHANGED <<rushed, curNick>>
  BY DEF Passing, NickSendsInUse, OtherHandles, SvrTakesNick, SvrAuthDemand, SvrDisconnected
<1>2. SendOnly({}) \/ UNCHANGED <<clientVars, serverVars>>
  BY DEF Passing, NickSendsInUse, OtherHandles, SvrTakesNick, SvrAuthDemand, SvrDisconnected
<1>3. UNCHANGED <<made, chosen, inbox, snick>> /\ (conn' = conn \/ conn' = Nil)
  BY <1>2, SendsLittle DEF clientVars, serverVars
<1>4. QED
  BY <1>1, <1>3, PassedOn

\* The steps of the handler's own, and those of the server and the transport, which
\* leave the main loop where it is.
Apart ==
  \/ SvrNegotiated \/ SvrChanged \/ SvrTick \/ SvrInUse \/ TimerFires
  \/ \E i \in Conns : NetFails(i) \/ SrvActs(i) \/ \E req \in c2s[i] : SrvRequest(i, req)

\* What they have in common.
LEMMA ApartDoes ==
  ASSUME Apart
  PROVE  UNCHANGED <<mainVars, made, chosen>> /\ (conn' = conn \/ conn' = Nil)
<1>1. CASE SvrNegotiated \/ SvrChanged \/ TimerFires
  BY <1>1 DEF SvrNegotiated, SvrChanged, TimerFires, clientVars
<1>2. CASE SvrTick \/ SvrInUse
  <2>1. UNCHANGED mainVars
    BY <1>2 DEF SvrTick, SvrInUse
  <2>2. UNCHANGED clientVars \/ SendOnly({"NICK"}) \/ SendOnly({"REGAIN"})
    BY <1>2 DEF SvrTick, SvrInUse
  <2>3. QED
    BY <2>1, <2>2, SendsLittle DEF clientVars
<1>3. ASSUME NEW i \in Conns,
             NetFails(i) \/ SrvActs(i) \/ \E req \in c2s[i] : SrvRequest(i, req)
      PROVE  UNCHANGED <<mainVars, made, chosen>> /\ (conn' = conn \/ conn' = Nil)
  BY <1>3 DEF NetFails, SrvActs, SrvRequest, clientVars
<1>4. QED
  BY <1>1, <1>2, <1>3 DEF Apart

\* A new connection is one nobody was told of.
LEMMA ConnectDoes ==
  ASSUME TypeOK, LoopInv, NEW nick, Connect(nick)
  PROVE  conn' \in Conns /\ ~Told' /\ held # conn' /\ UNCHANGED <<main, event, at>>
<1>1. ClientOK /\ MainOK
  BY TypesAre
<1>2. conn' = made + 1 /\ made < MaxConn /\ UNCHANGED <<negot, held, main, event, at>>
  BY DEF Connect, mainVars
<1>3. made \in Nat /\ negot \in Nat /\ negot <= made /\ held \in Nat /\ held <= made
  BY <1>1 DEF ClientOK, MainOK, LoopInv, Conns, Nil
<1>4. conn' \in Conns /\ negot' # conn'
  BY <1>2, <1>3, BoundsAssumption DEF Conns
<1>5. QED
  BY <1>2, <1>3, <1>4 DEF Told

\* A step is one of these.
LEMMA StepsAre ==
  ASSUME [Next]_vars
  PROVE  \/ UNCHANGED vars \/ MainTop \/ MainWait \/ ReadMsg \/ ReadFails \/ NickLooks
         \/ Passing \/ Apart \/ (\E nick \in {Pref, Fallback} : Connect(nick))
BY DEF Next, MainSteps, SvrSteps, Passing, Apart

\* A handler that was told keeps its timer.
LEMMA TimerStep ==
  ASSUME TypeOK, LoopInv, TimerInv, [Next]_vars
  PROVE  TimerInv'
<1> DEFINE Brought == at = "nick" /\ event.kind = "negotiated"
           Timed == svr # "select" \/ curNick = Pref \/ running \/ tick
<1>1. Told => Brought \/ Timed
  BY DEF TimerInv
<1>2. event.kind = "eof" => ~Told
  BY DEF TimerInv
<1>3. SUFFICES ASSUME Told' PROVE (Brought' \/ Timed') /\ event'.kind # "eof"
  BY DEF TimerInv
<1>4. ServerOK /\ MainOK /\ ClientOK
  BY TypesAre
<1>5. CASE UNCHANGED vars
  BY <1>1, <1>2, <1>3, <1>5
     DEF Told, vars, clientVars, mainVars, svrVars, timerVars
<1>6. CASE MainTop
  <2>1. event = NoEvent /\ at = NoHandler
    BY <1>6 DEF MainTop, LoopInv
  <2>2. UNCHANGED <<conn, curNick, svr, running, tick>>
    BY <1>6 DEF MainTop, clientVars, svrVars, timerVars
  <2>3. CASE conn # negot
    <3>1. Inject("negotiation-complete", [kind |-> "negotiated", nick |-> chosen[conn]])
      BY <1>3, <1>6, <2>2, <2>3 DEF MainTop, Told
    <3>2. QED
      BY <3>1, ChainsAssumption DEF Inject
  <2>4. CASE conn = negot
    BY <1>1, <1>3, <1>6, <2>1, <2>2, <2>4 DEF MainTop, Told, NoEvent, NoHandler
  <2>5. QED
    BY <2>3, <2>4
<1>7. CASE MainWait
  BY <1>1, <1>2, <1>3, <1>7 DEF MainWait, Told, clientVars, svrVars, timerVars
<1>8. CASE ReadMsg
  <2>1. /\ event' \in Messages /\ UNCHANGED <<negot, clientVars, curNick, svrVars>>
        /\ at = NoHandler
    BY <1>4, <1>8, Reads DEF LoopInv, ReadMsg
  <2>2. event'.kind # "eof"
    BY <2>1, Kinds
  <2>3. Told /\ Timed
    BY <1>1, <1>3, <2>1 DEF Told, clientVars, NoHandler
  <2>4. QED
    BY <2>1, <2>2, <2>3 DEF svrVars, timerVars
<1>9. CASE ReadFails
  BY <1>3, <1>9 DEF ReadFails, CloseCurrent, Told
<1>10. CASE NickLooks
  <2>1. /\ main = "chain" /\ at = "nick" /\ UNCHANGED <<conn, svr, running, tick>>
        /\ event.kind # "negotiated" => curNick' = curNick
    BY <1>10 DEF NickLooks, clientVars, svrVars, timerVars
  <2>2. UNCHANGED <<negot, event, at>> \/ (PassOn /\ event.kind # "negotiated")
    BY <1>10 DEF NickLooks, Concerned
  <2>3. CASE UNCHANGED <<negot, event, at>>
    BY <1>1, <1>2, <1>3, <2>1, <2>3 DEF Told
  <2>4. CASE PassOn /\ event.kind # "negotiated"
    <3>1. negot' = negot /\ event' \in {event, NoEvent}
      BY <2>1, <2>4, PassedOn
    <3>2. Told
      BY <1>3, <2>1, <3>1 DEF Told
    <3>3. QED
      BY <1>1, <1>2, <2>1, <2>4, <3>1, <3>2 DEF NoEvent
  <2>5. QED
    BY <2>2, <2>3, <2>4
<1>11. CASE Passing
  <2>1. /\ negot' = negot /\ curNick' = curNick /\ event' \in {event, NoEvent}
        /\ conn' = conn \/ conn' = Nil
    BY <1>11, PassingDoes
  <2>2. Told
    BY <1>3, <2>1 DEF Told
  <2>3. event'.kind # "eof"
    BY <1>2, <2>1, <2>2 DEF NoEvent
  <2>4. CASE SvrTakesNick
    BY <2>3, <2>4 DEF SvrTakesNick
  <2>5. ~SvrDisconnected
    BY <1>2, <2>2 DEF SvrDisconnected
  <2>6. CASE NickSendsInUse \/ OtherHandles \/ SvrAuthDemand
    <3>1. ~Brought /\ UNCHANGED <<svr, running, tick>>
      BY <2>6 DEF NickSendsInUse, OtherHandles, SvrAuthDemand, svrVars, timerVars
    <3>2. QED
      BY <1>1, <2>1, <2>2, <2>3, <3>1
  <2>7. QED
    BY <1>11, <2>4, <2>5, <2>6 DEF Passing
<1>12. CASE Apart
  <2>1. /\ UNCHANGED <<negot, event, at>> /\ (conn' = conn \/ conn' = Nil)
    BY <1>12, ApartDoes DEF mainVars
  <2>2. Told
    BY <1>3, <2>1 DEF Told
  <2>3. CASE SvrNegotiated
    BY <1>2, <2>1, <2>2, <2>3 DEF SvrNegotiated, TimerReset
  <2>4. CASE SvrChanged
    BY <1>2, <2>1, <2>2, <2>4 DEF SvrChanged, TimerReset
  <2>5. CASE SvrTick
    BY <1>2, <2>1, <2>2, <2>5 DEF SvrTick, Retry
  <2>6. CASE TimerFires
    BY <1>2, <2>1, <2>2, <2>6 DEF TimerFires
  <2>7. CASE UNCHANGED <<curNick, svr, running, tick>>
    BY <1>1, <1>2, <2>1, <2>2, <2>7
  <2>8. QED
    BY <1>12, <2>3, <2>4, <2>5, <2>6, <2>7
       DEF Apart, SvrInUse, NetFails, SrvActs, SrvRequest, svrVars, timerVars
<1>13. ASSUME NEW nick \in {Pref, Fallback}, Connect(nick) PROVE FALSE
  BY <1>3, <1>13, ConnectDoes
<1>14. QED
  BY <1>5, <1>6, <1>7, <1>8, <1>9, <1>10, <1>11, <1>12, <1>13, StepsAre

\* What the server adds comes after what it has said.
LEMMA SpokenAfter ==
  ASSUME ServerOK, NEW i \in Conns, SrvActs(i) \/ \E req \in c2s[i] : SrvRequest(i, req)
  PROVE  \/ UNCHANGED <<inbox, snick>>
         \/ \E m \in Messages :
              /\ inbox' = [inbox EXCEPT ![i] = Append(inbox[i], m)]
              /\ IF m.kind = "NICK"
                 THEN m.old = snick[i] /\ m.nick \in Nicks /\ snick' = [snick EXCEPT ![i] = m.nick]
                 ELSE snick' = snick
<1> DEFINE Spoken(m) ==
      /\ inbox' = [inbox EXCEPT ![i] = Append(inbox[i], m)]
      /\ IF m.kind = "NICK"
         THEN m.old = snick[i] /\ m.nick \in Nicks /\ snick' = [snick EXCEPT ![i] = m.nick]
         ELSE snick' = snick
<1>1. snick[i] \in Nicks
  BY DEF ServerOK
<1>2. ASSUME NEW nick \in Nicks, ChangeNick(i, nick) PROVE \E m \in Messages : Spoken(m)
  <2> DEFINE m == [kind |-> "NICK", old |-> snick[i], nick |-> nick]
  <2>1. m \in Messages
    BY <1>1 DEF Messages, NickChanges
  <2>2. Spoken(m)
    BY <1>2 DEF ChangeNick, Says
  <2> HIDE DEF m, Spoken
  <2>3. QED
    BY <2>1, <2>2
<1>3. ASSUME NEW m \in Messages, m.kind # "NICK", Says(i, m), UNCHANGED snick
      PROVE  \E k \in Messages : Spoken(k)
  <2>1. Spoken(m)
    BY <1>3 DEF Says
  <2> HIDE DEF Spoken
  <2>2. QED
    BY <2>1
<1>4. CASE SrvActs(i)
  <2>1. ASSUME \E nick \in Nicks \ {snick[i]} : ChangeNick(i, nick)
        PROVE  \E m \in Messages : Spoken(m)
    BY <1>2, <2>1
  <2>2. ASSUME NEW kind \in {"NOTICE", "VERSION"},
               Says(i, [kind |-> kind, nick |-> snick[i]]), UNCHANGED snick
        PROVE  \E m \in Messages : Spoken(m)
    <3> DEFINE m == [kind |-> kind, nick |-> snick[i]]
    <3>1. m \in Messages /\ m.kind # "NICK"
      BY <1>1 DEF Messages
    <3>2. Says(i, m)
      BY <2>2
    <3> HIDE DEF m, Spoken
    <3>3. QED
      BY <1>3, <2>2, <3>1, <3>2
  <2>3. ASSUME \E kind \in {"NOTICE", "VERSION"} :
                 Says(i, [kind |-> kind, nick |-> snick[i]]) /\ UNCHANGED snick
        PROVE  \E m \in Messages : Spoken(m)
    <3> HIDE DEF Spoken
    <3>1. PICK kind \in {"NOTICE", "VERSION"} :
            Says(i, [kind |-> kind, nick |-> snick[i]]) /\ UNCHANGED snick
      BY <2>3
    <3>2. QED
      BY <2>2, <3>1
  <2>4. \E m \in Messages : Spoken(m)
    <3> HIDE DEF Spoken
    <3>1. \/ \E nick \in Nicks \ {snick[i]} : ChangeNick(i, nick)
          \/ \E kind \in {"NOTICE", "VERSION"} :
               Says(i, [kind |-> kind, nick |-> snick[i]]) /\ UNCHANGED snick
      BY <1>4, Zenon DEF SrvActs
    <3>2. QED
      BY <2>1, <2>3, <3>1
  <2>5. QED
    BY <2>4
<1>5. ASSUME NEW req \in c2s[i], SrvRequest(i, req)
      PROVE  UNCHANGED <<inbox, snick>> \/ \E m \in Messages : Spoken(m)
  <2>1. CASE ChangeNick(i, Pref)
    BY <1>2, <2>1, NicksAssumption
  <2>2. CASE Says(i, [kind |-> "433"]) /\ UNCHANGED snick
    <3> DEFINE m == [kind |-> "433"]
    <3>1. m \in Messages /\ m.kind # "NICK" /\ Says(i, m)
      BY <2>2 DEF Messages
    <3> HIDE DEF m, Spoken
    <3>2. QED
      BY <1>3, <2>2, <3>1
  <2>3. QED
    BY <1>5, <2>1, <2>2 DEF SrvRequest
<1>6. QED
  BY <1>4, <1>5

\* The first message of a connection stays the first.
LEMMA ReadStep ==
  ASSUME TypeOK, LoopInv, ReadInv, [Next]_vars
  PROVE  ReadInv'
<1> DEFINE Ahead == main \in {"wait", "reading"} \/ event.kind = "negotiated"
<1>1. conn # Nil /\ negot # conn /\ Ahead => Unread
  BY DEF ReadInv
<1>2. SUFFICES ASSUME conn' # Nil, negot' # conn', Ahead' PROVE Unread'
  BY DEF ReadInv
<1>3. ServerOK /\ MainOK /\ ClientOK
  BY TypesAre
<1>4. CASE UNCHANGED vars
  BY <1>1, <1>2, <1>4 DEF vars, clientVars, mainVars, serverVars, Unread
<1>5. CASE MainTop
  BY <1>2, <1>5 DEF MainTop, clientVars
<1>6. CASE MainWait
  BY <1>1, <1>2, <1>6 DEF MainWait, clientVars, serverVars, Unread
<1>7. CASE ReadMsg
  <2>1. event' \in Messages /\ main' = "chain"
    BY <1>3, <1>7, Reads
  <2>2. event'.kind # "negotiated"
    BY <2>1, Kinds
  <2>3. QED
    BY <1>2, <2>1, <2>2
<1>8. CASE ReadFails
  BY <1>2, <1>8 DEF ReadFails, CloseCurrent
<1>9. CASE NickLooks
  <2>1. main = "chain" /\ UNCHANGED <<conn, inbox>>
    BY <1>9 DEF NickLooks, clientVars, serverVars
  <2>2. CASE main' = "send" /\ UNCHANGED <<negot, event>>
    BY <1>1, <1>2, <2>1, <2>2 DEF Unread
  <2>3. CASE PassOn
    <3>1. /\ UNCHANGED negot /\ event' \in {event, NoEvent}
          /\ (main' = "wait" /\ event.kind = "negotiated") \/ main' \in {"chain", "top"}
      BY <2>1, <2>3, PassedOn
    <3>2. Ahead
      BY <1>2, <3>1 DEF NoEvent
    <3>3. QED
      BY <1>1, <1>2, <2>1, <3>1, <3>2 DEF Unread
  <2>4. QED
    BY <1>9, <2>2, <2>3 DEF NickLooks
<1>10. CASE Passing
  <2>1. /\ UNCHANGED <<negot, inbox>> /\ event' \in {event, NoEvent}
        /\ (main' = "wait" /\ event.kind = "negotiated") \/ main' \in {"chain", "top"}
        /\ conn' = conn \/ conn' = Nil
    BY <1>10, PassingDoes
  <2>2. Ahead
    BY <1>2, <2>1 DEF NoEvent
  <2>3. QED
    BY <1>1, <1>2, <2>1, <2>2 DEF Unread
<1>11. CASE Apart
  <2>1. /\ UNCHANGED <<negot, main, event>> /\ (conn' = conn \/ conn' = Nil)
    BY <1>11, ApartDoes DEF mainVars
  <2>2. Unread /\ conn' = conn /\ conn \in Conns
    BY <1>1, <1>2, <1>3, <2>1 DEF ClientOK
  <2>3. CASE inbox' = inbox
    BY <2>2, <2>3 DEF Unread
  <2>4. ASSUME NEW i \in Conns, SrvActs(i) \/ \E req \in c2s[i] : SrvRequest(i, req)
        PROVE  Unread'
    <3>1. inbox' = inbox \/ \E m \in Messages : inbox' = [inbox EXCEPT ![i] = Append(inbox[i], m)]
      BY <1>3, <2>4, SpokenAfter
    <3>2. ASSUME NEW m \in Messages, inbox' = [inbox EXCEPT ![i] = Append(inbox[i], m)]
          PROVE  Unread'
      <4>1. inbox[conn] \in Seq(Messages) /\ inbox[conn] # <<>>
        BY <1>3, <2>2 DEF ServerOK, Unread
      <4>2. inbox'[conn] = inbox[conn] \/ inbox'[conn] = Append(inbox[conn], m)
        BY <1>3, <2>2, <3>2 DEF ServerOK
      <4>3. inbox'[conn] # <<>> /\ inbox'[conn][1] = inbox[conn][1]
        BY <4>1, <4>2
      <4>4. QED
        BY <2>2, <4>3 DEF Unread
    <3>3. QED
      BY <2>3, <3>1, <3>2
  <2>5. QED
    BY <1>11, <2>3, <2>4
       DEF Apart, SvrNegotiated, SvrChanged, SvrTick, SvrInUse, TimerFires, NetFails,
           SendOnly, serverVars
<1>12. ASSUME NEW nick \in {Pref, Fallback}, Connect(nick) PROVE Unread'
  <2>1. conn' \in Conns
    BY <1>12, ConnectDoes
  <2>2. inbox'[conn'] = Welcome(nick)
    BY <1>12, <2>1, ConnectDoes DEF Connect
  <2>3. QED
    BY <2>2, LeadsWelcome, NicksAssumption DEF Unread
<1>13. QED
  BY <1>4, <1>5, <1>6, <1>7, <1>8, <1>9, <1>10, <1>11, <1>12, StepsAre

-----------------------------------------------------------------------------
(* The nickname.                                                           *)

\* The messages stay, and what is known with them.
LEMMA NameKeeps ==
  ASSUME NameInv, conn # Nil, UNCHANGED <<conn, negot>>, rushed' = rushed \/ rushed',
         chosen'[conn] = chosen[conn], inbox'[conn] = inbox[conn], snick'[conn] = snick[conn],
         Told /\ ~rushed /\ ~rushed' /\ Timely =>
           Known' = Known /\ Timely' /\ (main' = "reading" => held' = conn)
  PROVE  NameInv'
<1>1. (Told => ~rushed) => /\ Leads(Reached, inbox[conn], snick[conn])
                           /\ Told => Timely /\ (main = "reading" => held = conn)
  BY DEF NameInv
<1>2. Told' <=> Told
  BY DEF Told
<1>3. SUFFICES ASSUME Told' => ~rushed'
      PROVE  /\ Leads(Reached, inbox[conn], snick[conn])'
             /\ Told' => Timely' /\ (main' = "reading" => held' = conn')
  BY DEF NameInv
<1> HIDE DEF Told, Known, Timely
<1>4. CASE Told
  <2>1. ~rushed /\ ~rushed' /\ Timely /\ Known' = Known /\ Timely'
        /\ (main' = "reading" => held' = conn)
    BY <1>1, <1>2, <1>3, <1>4
  <2>2. Reached' = Reached
    BY <1>2, <1>4, <2>1 DEF Reached
  <2>3. QED
    BY <1>1, <2>1, <2>2 DEF Leads
<1>5. CASE ~Told
  <2>1. Reached' = Reached
    BY <1>2, <1>5 DEF Reached
  <2>2. QED
    BY <1>1, <1>2, <1>5, <2>1 DEF Leads
<1>6. QED
  BY <1>4, <1>5

\* A completed negotiation is handed out: the nickname chosen is being brought.
LEMMA ToldName ==
  ASSUME TypeOK, LoopInv, NameInv, MainTop, conn' # Nil
  PROVE  NameInv'
<1>1. /\ main = "top" /\ event = NoEvent /\ at = NoHandler
      /\ UNCHANGED <<conn, chosen, inbox, snick, curNick, svr, arg>>
  BY DEF MainTop, LoopInv, clientVars, serverVars, svrVars
<1>2. CASE conn = negot
  <2>1. UNCHANGED <<negot, rushed, event, at>> /\ main' = "wait"
    BY <1>2 DEF MainTop
  <2>2. Known' = Known /\ Timely'
    BY <1>1, <2>1 DEF Known, Bringing, Taken, Timely, NoHandler
  <2> HIDE DEF Known, Timely, Told
  <2>3. QED
    BY <1>1, <2>1, <2>2, NameKeeps
<1>3. CASE conn # negot
  <2>1. /\ negot' = conn /\ rushed' = FALSE /\ main' = "chain" /\ at' = "nick"
        /\ event' = [kind |-> "negotiated", nick |-> chosen[conn]]
    BY <1>1, <1>3, ChainsAssumption DEF MainTop, Inject
  <2>2. Leads(chosen[conn], inbox[conn], snick[conn])
    BY <1>1, <1>3 DEF NameInv, Told, Reached
  <2>3. Reached' = chosen[conn]
    BY <1>1, <2>1 DEF Reached, Told, Known, Bringing
  <2>4. Timely'
    BY <2>1 DEF Timely
  <2>5. QED
    BY <1>1, <2>1, <2>2, <2>3, <2>4 DEF NameInv, Leads
<1>4. QED
  BY <1>2, <1>3

\* A message is read: a change of nickname changes the one known.
LEMMA ReadsName ==
  ASSUME TypeOK, LoopInv, NameInv, ReadInv, ReadMsg, conn' # Nil
  PROVE  NameInv'
<1>1. ClientOK /\ ServerOK /\ MainOK
  BY TypesAre
<1> DEFINE s == inbox[held]
           m == Head(s)
<1>2. /\ held \in Conns /\ s \in Seq(Messages) /\ s # <<>>
      /\ event' = m /\ m \in Messages
      /\ inbox' = [inbox EXCEPT ![held] = Tail(s)]
      /\ main' = "chain" /\ at' = "nick"
      /\ UNCHANGED <<negot, rushed, snick, clientVars, curNick, svrVars>>
  BY <1>1, Reads
<1>3. main = "reading" /\ event = NoEvent /\ at = NoHandler
  BY DEF ReadMsg, LoopInv
<1>4. UNCHANGED <<conn, chosen, svr, arg>> /\ (Told' <=> Told) /\ Taken' = Taken
  BY <1>2 DEF clientVars, svrVars, Told, Taken
<1>5. conn \in Conns
  BY <1>1, <1>4 DEF ClientOK
<1> HIDE DEF s, m
<1>6. SUFFICES ASSUME Told => ~rushed
      PROVE  Leads(Reached, inbox[conn], snick[conn])' /\ (Told => Timely')
  BY <1>2, <1>4 DEF NameInv
<1>7. Leads(Reached, inbox[conn], snick[conn]) /\ (Told => held = conn)
  BY <1>3, <1>4, <1>6 DEF NameInv
<1>8. CASE held = conn
  <2>1. inbox[conn] = s /\ inbox'[conn] = Tail(s)
    BY <1>1, <1>2, <1>5, <1>8 DEF s, ServerOK
  <2>2. IF m.kind = "NICK" THEN m.old = Reached /\ Leads(m.nick, Tail(s), snick[conn])
                           ELSE Leads(Reached, Tail(s), snick[conn])
    BY <1>2, <1>7, <2>1, LeadsFrom DEF m
  <2>3. CASE Told
    <3>1. Reached = Taken
      BY <1>3, <2>3 DEF Reached, Known, Bringing, NoHandler
    <3>2. m.kind = "NICK" => Reached' = m.nick
      BY <1>2, <1>4, <2>3 DEF Reached, Known, Bringing
    <3>3. m.kind # "NICK" => Reached' = Taken
      <4>1. m.kind # "negotiated"
        BY <1>2, Kinds
      <4>2. QED
        BY <1>2, <1>4, <2>3, <4>1 DEF Reached, Known, Bringing
    <3>4. Timely'
      BY <1>2, <1>4, <2>2, <3>1 DEF Timely
    <3>5. Leads(Reached', inbox'[conn], snick[conn])
      BY <2>1, <2>2, <3>1, <3>2, <3>3
    <3>6. Leads(Reached', inbox'[conn'], snick'[conn'])
      BY <1>2, <1>4, <3>5
    <3>7. QED
      BY <3>4, <3>6
  <2>4. CASE ~Told
    <3>1. m.kind \in {"001", "433"}
      <4>1. Unread
        BY <1>3, <1>4, <2>4 DEF ReadInv, Told
      <4>2. QED
        BY <1>2, <2>1, <4>1, Tails DEF Unread, m
    <3>2. Reached' = Reached
      BY <1>4, <2>4 DEF Reached
    <3>3. Leads(Reached', inbox'[conn], snick[conn])
      BY <2>1, <2>2, <3>1, <3>2
    <3>4. Leads(Reached', inbox'[conn'], snick'[conn'])
      BY <1>2, <1>4, <3>3
    <3>5. QED
      BY <2>4, <3>4
  <2>5. QED
    BY <2>3, <2>4
<1>9. CASE held # conn
  <2>1. inbox'[conn] = inbox[conn] /\ ~Told
    BY <1>1, <1>2, <1>5, <1>7, <1>9 DEF ServerOK
  <2>2. Reached' = Reached
    BY <1>4, <2>1 DEF Reached
  <2>3. Leads(Reached', inbox'[conn'], snick'[conn'])
    BY <1>2, <1>4, <1>7, <2>1, <2>2
  <2>4. QED
    BY <2>1, <2>3
<1>10. QED
  BY <1>8, <1>9

\* The handler looks at an event: a change it is in time for concerns it.
LEMMA LooksName ==
  ASSUME TypeOK, LoopInv, NameInv, NickLooks, conn # Nil
  PROVE  NameInv'
<1>1. /\ main = "chain" /\ at = "nick"
      /\ UNCHANGED <<conn, chosen, inbox, snick, svr, arg>>
      /\ curNick' = IF event.kind = "negotiated" THEN event.nick ELSE curNick
      /\ rushed' = (rushed \/ (event.kind = "NICK" /\ svr # "select"))
  BY DEF NickLooks, clientVars, serverVars, svrVars
<1>2. \/ Concerned /\ main' = "send" /\ UNCHANGED <<negot, held, event, at>>
      \/ ~Concerned /\ PassOn
  BY DEF NickLooks
<1>3. CASE Concerned /\ main' = "send" /\ UNCHANGED <<negot, held, event, at>>
  <2>1. ASSUME ~rushed'
        PROVE  Known' = Known /\ Timely'
    <3>1. event.kind = "NICK" => svr = "select"
      BY <1>1, <2>1
    <3>2. Timely'
      BY <1>1, <1>3, <3>1 DEF Timely
    <3>3. CASE Bringing
      BY <1>3, <3>2, <3>3 DEF Known, Bringing
    <3>4. CASE ~Bringing
      BY <1>1, <1>3, <3>2, <3>4 DEF Known, Bringing, Taken
    <3>5. QED
      BY <3>2, <3>3, <3>4
  <2>2. rushed' = rushed \/ rushed'
    BY <1>1, TypesAre DEF MainOK
  <2> HIDE DEF Known, Timely, Told
  <2>3. QED
    BY <1>1, <1>3, <2>1, <2>2, NameKeeps
<1>4. CASE ~Concerned /\ PassOn
  <2>1. UNCHANGED <<negot, held>> /\ at' # "nick" /\ main' # "reading" /\ event.kind # "negotiated"
    BY <1>1, <1>4, PassedOn DEF Concerned
  <2>2. ASSUME ~rushed', Timely
        PROVE  Known' = Known /\ Timely'
    <3>1. event.kind # "NICK"
      <4>1. event.kind = "NICK" => svr = "select" /\ event.old = curNick
        BY <1>1, <2>2 DEF Timely, Taken
      <4>2. QED
        BY <1>4, <4>1 DEF Concerned, ConcernsUs
    <3>2. Timely'
      BY <2>1 DEF Timely
    <3>3. Known' = Known
      BY <1>1, <2>1, <3>1 DEF Known, Bringing, Taken
    <3>4. QED
      BY <3>2, <3>3
  <2>3. rushed' = rushed \/ rushed'
    BY <1>1, TypesAre DEF MainOK
  <2> HIDE DEF Known, Timely, Told
  <2>4. QED
    BY <1>1, <2>1, <2>2, <2>3, NameKeeps
<1>5. QED
  BY <1>2, <1>3, <1>4

\* An event is handed over or on: what is brought is taken.
LEMMA PassesName ==
  ASSUME TypeOK, LoopInv, NameInv, Passing, conn' # Nil
  PROVE  NameInv'
<1>1. /\ main \in {"chain", "send"}
      /\ UNCHANGED <<negot, held, rushed, curNick, made, chosen, inbox, snick>>
      /\ at' # "nick" /\ main' # "reading" /\ conn' = conn
  BY PassingDoes
<1>2. Timely'
  BY <1>1 DEF Timely
<1>3. Known' = Known
  <2>1. CASE SvrTakesNick
    <3>1. /\ event.kind \in {"negotiated", "NICK"} /\ svr' # "select" /\ arg' = event.nick
          /\ at = "nick"
      BY <2>1 DEF SvrTakesNick, LoopInv
    <3>2. QED
      BY <1>1, <3>1 DEF Known, Bringing, Taken
  <2>2. CASE ~SvrTakesNick
    <3>1. ~Bringing /\ UNCHANGED <<svr, arg>>
      BY <2>2 DEF Passing, NickSendsInUse, OtherHandles, SvrAuthDemand, SvrDisconnected,
                  Bringing, svrVars
    <3>2. QED
      BY <1>1, <3>1 DEF Known, Bringing, Taken
  <2>3. QED
    BY <2>1, <2>2
<1> HIDE DEF Known, Timely, Told, Passing
<1>4. QED
  BY <1>1, <1>2, <1>3, NameKeeps

\* The handler's loop applies what it took: it had it before.
LEMMA OwnName ==
  ASSUME TypeOK, NameInv, conn' # Nil,
         SvrNegotiated \/ SvrChanged \/ SvrTick \/ SvrInUse \/ TimerFires
         \/ \E i \in Conns : NetFails(i)
  PROVE  NameInv'
<1>1. Apart
  BY DEF Apart
<1>2. UNCHANGED <<main, negot, held, event, at, rushed, chosen, conn>>
  BY <1>1, ApartDoes DEF mainVars
<1>3. UNCHANGED <<inbox, snick>>
  BY DEF SvrNegotiated, SvrChanged, SvrTick, SvrInUse, TimerFires, NetFails, SendOnly, serverVars
<1>4. Taken' = Taken
  <2>1. CASE SvrNegotiated
    BY <2>1 DEF SvrNegotiated, Taken
  <2>2. CASE SvrChanged
    BY <2>2 DEF SvrChanged, Taken
  <2>3. CASE ~SvrNegotiated /\ ~SvrChanged
    BY <2>3 DEF SvrTick, SvrInUse, TimerFires, NetFails, Taken, svrVars
  <2>4. QED
    BY <2>1, <2>2, <2>3
<1>5. svr = "select" => svr' = "select"
  BY DEF SvrNegotiated, SvrChanged, SvrTick, SvrInUse, TimerFires, NetFails, svrVars
<1> HIDE DEF Taken
<1>6. Known' = Known
  BY <1>2, <1>4 DEF Known, Bringing
<1>7. Timely => Timely'
  BY <1>2, <1>4, <1>5 DEF Timely
<1>8. Told /\ (Told => ~rushed) /\ main = "reading" => held = conn
  BY <1>2 DEF NameInv
<1> HIDE DEF Known, Timely, Told
<1>9. QED
  BY <1>2, <1>3, <1>6, <1>7, <1>8, NameKeeps

\* The server says something: a change of nickname changes the one it has.
LEMMA SaysName ==
  ASSUME TypeOK, NameInv, conn # Nil, NEW i \in Conns,
         SrvActs(i) \/ \E req \in c2s[i] : SrvRequest(i, req)
  PROVE  NameInv'
<1>1. ClientOK /\ ServerOK
  BY TypesAre
<1>2. UNCHANGED <<clientVars, mainVars, curNick, svrVars>>
  BY DEF SrvActs, SrvRequest
<1>3. /\ UNCHANGED <<conn, negot, rushed, chosen, main, held>> /\ (Told' <=> Told)
      /\ Known' = Known /\ (Timely' <=> Timely)
  BY <1>2 DEF clientVars, mainVars, svrVars, Told, Known, Bringing, Taken, Timely
<1>4. conn \in Conns /\ snick[conn] \in Nicks /\ inbox[conn] \in Seq(Messages)
  BY <1>1 DEF ClientOK, ServerOK
<1> HIDE DEF Told, Known, Timely
<1>5. CASE inbox'[conn] = inbox[conn] /\ snick'[conn] = snick[conn]
  <2>1. Told /\ ~rushed /\ main = "reading" => held = conn
    BY DEF NameInv
  <2>2. QED
    BY <1>3, <1>5, <2>1, NameKeeps
<1>6. ASSUME NEW m \in Messages, i = conn,
             inbox' = [inbox EXCEPT ![i] = Append(inbox[i], m)],
             IF m.kind = "NICK"
             THEN m.old = snick[i] /\ m.nick \in Nicks /\ snick' = [snick EXCEPT ![i] = m.nick]
             ELSE snick' = snick
      PROVE  NameInv'
  <2>1. inbox'[conn] = Append(inbox[conn], m)
    BY <1>1, <1>4, <1>6 DEF ServerOK
  <2>2. /\ snick'[conn] \in Nicks
        /\ IF m.kind = "NICK" THEN m.old = snick[conn] /\ m.nick = snick'[conn]
                              ELSE snick'[conn] = snick[conn]
    <3>1. CASE m.kind = "NICK"
      BY <1>1, <1>4, <1>6, <3>1 DEF ServerOK
    <3>2. CASE m.kind # "NICK"
      BY <1>4, <1>6, <3>2
    <3>3. QED
      BY <3>1, <3>2
  <2>3. SUFFICES ASSUME Told => ~rushed
        PROVE  /\ Leads(Reached, inbox[conn], snick[conn])'
               /\ Told => Timely' /\ (main = "reading" => held = conn)
    BY <1>3 DEF NameInv
  <2>4. /\ Leads(Reached, inbox[conn], snick[conn])
        /\ Told => Timely' /\ (main = "reading" => held = conn)
    BY <1>3, <2>3 DEF NameInv
  <2>5. Leads(Reached, inbox'[conn], snick'[conn])
    BY <1>4, <2>1, <2>2, <2>4, LeadsOn
  <2>6. Reached' = Reached
    BY <1>3 DEF Reached
  <2>7. Leads(Reached', inbox'[conn'], snick'[conn'])
    BY <1>3, <2>5, <2>6
  <2>8. QED
    BY <2>4, <2>7
<1>7. \/ UNCHANGED <<inbox, snick>>
      \/ \E m \in Messages :
           /\ inbox' = [inbox EXCEPT ![i] = Append(inbox[i], m)]
           /\ IF m.kind = "NICK"
              THEN m.old = snick[i] /\ m.nick \in Nicks /\ snick' = [snick EXCEPT ![i] = m.nick]
              ELSE snick' = snick
  BY <1>1, SpokenAfter
<1>8. CASE UNCHANGED <<inbox, snick>>
  BY <1>5, <1>8
<1>9. ASSUME NEW m \in Messages,
             inbox' = [inbox EXCEPT ![i] = Append(inbox[i], m)],
             IF m.kind = "NICK"
             THEN m.old = snick[i] /\ m.nick \in Nicks /\ snick' = [snick EXCEPT ![i] = m.nick]
             ELSE snick' = snick
      PROVE  NameInv'
  <2>1. CASE i = conn
    BY <1>6, <1>9, <2>1
  <2>2. CASE i # conn
    <3>1. inbox'[conn] = inbox[conn]
      BY <1>1, <1>4, <1>9, <2>2 DEF ServerOK
    <3>2. snick'[conn] = snick[conn]
      BY <1>1, <1>4, <1>9, <2>2 DEF ServerOK
    <3>3. QED
      BY <1>5, <3>1, <3>2
  <2>3. QED
    BY <2>1, <2>2
<1>10. QED
  BY <1>7, <1>8, <1>9

\* What is known of the nickname is not lost in any step.
LEMMA NameStep ==
  ASSUME TypeOK, LoopInv, NameInv, ReadInv, [Next]_vars
  PROVE  NameInv'
<1>1. SUFFICES ASSUME conn' # Nil PROVE NameInv'
  BY DEF NameInv
<1>2. CASE UNCHANGED vars
  <2>1. Known' = Known /\ (Timely' <=> Timely)
    BY <1>2 DEF vars, mainVars, svrVars, Known, Bringing, Taken, Timely
  <2>2. UNCHANGED <<conn, negot, rushed, chosen, inbox, snick, main, held>>
    BY <1>2 DEF vars, clientVars, serverVars, mainVars
  <2>3. Told /\ ~rushed /\ main = "reading" => held = conn
    BY <1>1, <2>2 DEF NameInv
  <2> HIDE DEF Told, Known, Timely
  <2>4. QED
    BY <1>1, <2>1, <2>2, <2>3, NameKeeps
<1>3. CASE MainTop
  BY <1>1, <1>3, ToldName
<1>4. CASE MainWait
  <2>1. /\ at = NoHandler /\ main' = "reading" /\ held' = conn
        /\ UNCHANGED <<conn, negot, rushed, chosen, inbox, snick, curNick, svr, arg, event, at>>
    BY <1>4 DEF MainWait, LoopInv, clientVars, serverVars, svrVars
  <2>2. Known' = Known /\ Timely'
    BY <2>1 DEF Known, Bringing, Taken, Timely, NoHandler
  <2> HIDE DEF Told, Known, Timely
  <2>3. QED
    BY <1>1, <2>1, <2>2, NameKeeps
<1>5. CASE ReadMsg
  BY <1>1, <1>5, ReadsName
<1>6. CASE ReadFails
  BY <1>1, <1>6 DEF ReadFails, CloseCurrent
<1>7. CASE NickLooks
  BY <1>1, <1>7, LooksName DEF NickLooks, clientVars
<1>8. CASE Passing
  BY <1>1, <1>8, PassesName
<1>9. CASE Apart
  <2>1. ASSUME NEW i \in Conns, SrvActs(i) \/ \E req \in c2s[i] : SrvRequest(i, req)
        PROVE  NameInv'
    BY <1>1, <2>1, SaysName DEF SrvActs, SrvRequest, clientVars
  <2>2. QED
    BY <1>1, <1>9, <2>1, OwnName DEF Apart
<1>10. ASSUME NEW nick \in {Pref, Fallback}, Connect(nick) PROVE NameInv'
  <2>1. conn' \in Conns /\ ~Told' /\ nick \in Nicks
    BY <1>10, ConnectDoes, NicksAssumption
  <2>2. conn' = made'
    BY <1>10 DEF Connect
  <2>3. inbox'[conn'] = Welcome(nick)
    BY <1>10, <2>1, <2>2, ConnectDoes DEF Connect
  <2>4. chosen'[conn'] = nick /\ snick'[conn'] = nick
    BY <1>10, <2>1, <2>2 DEF Connect
  <2>5. Leads(nick, inbox'[conn'], nick)
    BY <2>1, <2>3, LeadsWelcome
  <2>6. Reached' = nick
    BY <2>1, <2>4 DEF Reached
  <2>7. Leads(Reached', inbox'[conn'], snick'[conn'])
    BY <2>4, <2>5, <2>6
  <2> HIDE DEF Told
  <2>8. QED
    BY <2>1, <2>7 DEF NameInv
<1>11. QED
  BY <1>2, <1>3, <1>4, <1>5, <1>6, <1>7, <1>8, <1>9, <1>10, StepsAre

-----------------------------------------------------------------------------
\* A bot that has just been made knows no nickname and has no connection.
LEMMA InitInv == Init => NickInv
<1> SUFFICES ASSUME Init PROVE NickInv
  OBVIOUS
<1>1. Pref \in Nicks
  BY NicksAssumption
<1>2. ClientOK /\ ServerOK
  <2>1. inbox \in [Conns -> Seq(Messages)] /\ c2s \in [Conns -> Requests]
    BY DEF Init, Requests
  <2>2. QED
    BY <1>1, <2>1, BoundsAssumption DEF Init, ClientOK, ServerOK, Nil
<1>3. MainOK /\ SvrOK /\ NameOK
  BY <1>1 DEF Init, MainOK, SvrOK, NameOK, Events, Nil
<1>4. TypeOK
  BY <1>2, <1>3, TypesAre
<1>5. LoopInv
  BY DEF Init, LoopInv, NoHandler, Nil
<1>6. NameInv /\ ReadInv
  BY DEF Init, NameInv, ReadInv
<1>7. TimerInv
  BY DEF Init, TimerInv, Told, NoEvent
<1>8. QED
  BY <1>4, <1>5, <1>6, <1>7 DEF NickInv

\* The inductive invariant: what the server has sent leads from the nickname the
\* handler has, or is being brought, to the one the server has.
THEOREM Invariance == Spec => []NickInv
<1>1. Init => NickInv
  BY InitInv
<1>2. NickInv /\ [Next]_vars => NickInv'
  BY TypedStep, NameStep, ReadStep, TimerStep DEF NickInv
<1>3. QED
  BY <1>1, <1>2, PTL DEF Spec

\* Every variable keeps its type: the connection that is current is open or broken,
\* and events are in the hands of handlers of their chain.
THEOREM TypeCorrect == Spec => []TypeOK
<1>1. NickInv => TypeOK
  BY DEF NickInv
<1>2. QED
  BY <1>1, Invariance, PTL

\* Once everything the server sent has been dealt with, CurNick returns the nickname
\* it has for the bot, unless a change was looked at too soon.
THEOREM ServersNickKnown == Spec => []NickKnown
<1>1. NickInv => NickKnown
  <2> SUFFICES ASSUME NickInv, Settled, inbox[held] = <<>>, ~rushed
               PROVE  curNick = snick[held]
    BY DEF NickKnown
  <2>1. /\ main = "reading" /\ held = negot /\ held = conn /\ svr = "select"
        /\ held # Nil /\ at = NoHandler
    BY DEF Settled, NickInv, LoopInv
  <2>2. Told /\ conn # Nil
    BY <2>1 DEF Told
  <2>3. Leads(Reached, inbox[conn], snick[conn])
    BY <2>2 DEF NickInv, NameInv
  <2>4. Reached = curNick
    BY <2>1, <2>2 DEF Reached, Known, Bringing, Taken, NoHandler
  <2>5. Leads(curNick, <<>>, snick[conn])
    BY <2>1, <2>3, <2>4
  <2>6. QED
    BY <2>1, <2>5, LeadsNowhere
<1>2. QED
  BY <1>1, Invariance, PTL

\* On a connection it was told of, the handler goes on asking for the nickname it
\* prefers: its timer is set, or has fired.
THEOREM RetriesGoOn == Spec => []KeepsTrying
<1>1. NickInv => KeepsTrying
  <2> SUFFICES ASSUME NickInv, Settled, curNick # Pref
               PROVE  running \/ tick
    BY DEF KeepsTrying
  <2>1. /\ main = "reading" /\ held = negot /\ held = conn /\ svr = "select"
        /\ held # Nil /\ at = NoHandler
    BY DEF Settled, NickInv, LoopInv
  <2>2. Told
    BY <2>1 DEF Told
  <2>3. QED
    BY <2>1, <2>2 DEF NickInv, TimerInv, NoHandler
<1>2. QED
  BY <1>1, Invariance, PTL
=============================================================================
