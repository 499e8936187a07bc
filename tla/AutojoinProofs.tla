--------------------------- MODULE AutojoinProofs ---------------------------
(***************************************************************************)
(* Proofs about Autojoin: whatever channels are configured, and however    *)
(* often the server kicks and invites, the handler knows on the bot's      *)
(* first connection which of them the bot is in.                           *)
(***************************************************************************)
EXTENDS Autojoin, TLAPS

\* What the server sends.
FromServer == ChanEvents \cup {[kind |-> "001"]}
Typed ==
  /\ TypeOK /\ inbox \in [Conns -> Seq(FromServer)]
  /\ main = "reading" => held \in Conns

\* A bot without a connection has done nothing yet.
UnbornInv ==
  made = 0 =>
    /\ net = [i \in Conns |-> "none"]
    /\ ~stopping =>
         /\ main = "read" /\ ~recon /\ ~disc /\ ~connected /\ joined = {}
         /\ \A i \in Conns : c2s[i] = {} /\ members[i] = {}

\* The first connection, and where its 001 is: in the inbox, ahead of everything
\* else, being delivered, or in the handler's channel.
First == made = 1 /\ net[1] = "open"
Sent001 == inbox[1] # <<>> /\ inbox[1][1].kind = "001"
Handed001 == main = "deliver" /\ event.kind = "001"
Fresh == Sent001 \/ Handed001 \/ recon

LoopInv ==
  /\ conn = 1 /\ ~disc
  /\ main = "reading" => held = 1
  /\ main = "deliver" => event \in FromServer
  /\ \A k \in DOMAIN inbox[1] : inbox[1][k].kind = "001" => k = 1
  /\ Sent001 => main # "deliver" /\ ~recon
  /\ Handed001 => ~recon

\* Until the handler's loop has heard of the connection, nothing was joined.
FreshInv ==
  Fresh =>
    /\ members[1] = {} /\ c2s[1] = {} /\ joined = {} /\ ~connected
    /\ \A k \in DOMAIN inbox[1] : inbox[1][k].kind # "JOIN"
    /\ main = "deliver" => event.kind # "JOIN"

\* The last of the events on their way about a channel says whether the server has
\* the bot in it; when there is none, the handler's loop knows.
About(e, c) == e.kind \in {"JOIN", "KICK", "INVITE"} /\ e.chan = c
OnWay(c) == {k \in DOMAIN inbox[1] : About(inbox[1][k], c)}
AtHand(c) == main = "deliver" /\ About(event, c)
View(c) ==
  /\ \A k \in OnWay(c) :
       (\A j \in OnWay(c) : j <= k) => (inbox[1][k].kind = "JOIN" <=> c \in members[1])
  /\ OnWay(c) = {} =>
       IF AtHand(c) THEN event.kind = "JOIN" <=> c \in members[1]
                    ELSE c \in joined <=> c \in members[1]

FirstInv == First => LoopInv /\ FreshInv /\ \A c \in Chans : View(c)

\* The inductive invariant.
JoinInv == Typed /\ UnbornInv /\ FirstInv

-----------------------------------------------------------------------------
(* Types.                                                                  *)

\* A connection is given up, or nothing happens to it.
LEMMA Closes ==
  ASSUME Typed, CloseCurrent
  PROVE  /\ net' \in [Conns -> {"none", "open", "broken", "closed"}]
         /\ conn' \in {i \in Conns : net'[i] \in {"open", "broken"}} \cup {Nil}
BY DEF Typed, TypeOK, CloseCurrent

\* What the handler's loop sends goes to the current connection, or fails with it.
LEMMA Sends ==
  ASSUME Typed, NEW names \in SUBSET Chans, Send(names)
  PROVE  /\ net' \in [Conns -> {"none", "open", "broken", "closed"}]
         /\ conn' \in {i \in Conns : net'[i] \in {"open", "broken"}} \cup {Nil}
         /\ c2s' \in [Conns -> SUBSET Chans]
<1>1. CASE UNCHANGED <<conn, net, c2s>>
  BY <1>1 DEF Typed, TypeOK
<1>2. CASE conn # Nil /\ c2s' = [c2s EXCEPT ![conn] = @ \cup names] /\ UNCHANGED <<conn, net>>
  BY <1>2 DEF Typed, TypeOK
<1>3. CASE CloseCurrent /\ UNCHANGED c2s
  BY <1>3, Closes DEF Typed, TypeOK
<1>4. QED
  BY <1>1, <1>2, <1>3 DEF Send, WriteFails

\* The channels it asks to join are remembered as tried.
LEMMA Joins ==
  ASSUME Typed, NEW up, NEW in, NEW last \in [Chans -> {"never", "recent", "old"}],
         JoinChannels(up, in, last)
  PROVE  /\ net' \in [Conns -> {"none", "open", "broken", "closed"}]
         /\ conn' \in {i \in Conns : net'[i] \in {"open", "broken"}} \cup {Nil}
         /\ c2s' \in [Conns -> SUBSET Chans]
         /\ tried' \in [Chans -> {"never", "recent", "old"}]
         /\ UNCHANGED <<made, stopping, inbox, members, acts>>
<1> DEFINE names == IF up THEN {c \in Chans \ in : last[c] # "old"} ELSE {}
<1>1. names \in SUBSET Chans
  OBVIOUS
<1>2. /\ tried' = [c \in Chans |-> IF c \in names THEN "recent" ELSE last[c]]
      /\ Send(names) /\ UNCHANGED <<made, stopping, inbox, members, acts>>
  BY DEF JoinChannels
<1> HIDE DEF names
<1>3. QED
  BY <1>1, <1>2, Sends

\* The server lets the bot into one more channel.
LEMMA Enters ==
  ASSUME NEW S, NEW T, NEW m \in [S -> SUBSET T], NEW i \in S, NEW c \in T
  PROVE  [m EXCEPT ![i] = @ \cup {c}] \in [S -> SUBSET T]
OBVIOUS

\* Every step keeps the types.
LEMMA TypedStep ==
  ASSUME Typed, [Next]_vars
  PROVE  Typed'
<1> USE BoundsAssumption
<1> USE DEF Typed, TypeOK, FromServer, Events, ChanEvents, NoEvent
<1>1. CASE Connect
  BY <1>1 DEF Connect, mainVars, monVars, timerVars, Conns, Nil
<1>2. CASE Stop
  BY <1>2, Closes DEF Stop, serverVars, mainVars, monVars, timerVars
<1>3. ASSUME NEW i \in Conns, NetFails(i) PROVE Typed'
  BY <1>3 DEF NetFails, serverVars, mainVars, monVars, timerVars
<1>4. ASSUME NEW i \in Conns, NEW c \in Chans, SrvJoin(i, c) PROVE Typed'
  <2>1. /\ c2s' = [c2s EXCEPT ![i] = @ \ {c}]
        /\ UNCHANGED <<conn, made, net, stopping, main, held, event, recon, disc, connected,
                       joined, tried, running, tick>>
    BY <1>4 DEF SrvJoin, clientVars, mainVars, monVars, timerVars
  <2>2. /\ members' \in [Conns -> SUBSET Chans] /\ acts' \in 0..MaxActs
    <3>1. \/ members' = members
          \/ members' = [members EXCEPT ![i] = @ \cup {c}]
      BY <1>4 DEF SrvJoin
    <3>2. acts' = acts \/ (acts < MaxActs /\ acts' = acts + 1)
      BY <1>4 DEF SrvJoin
    <3>3. members' \in [Conns -> SUBSET Chans]
      <4>1. members \in [Conns -> SUBSET Chans]
        OBVIOUS
      <4>2. [members EXCEPT ![i] = @ \cup {c}] \in [Conns -> SUBSET Chans]
        BY <4>1, Enters
      <4>3. QED
        BY <3>1, <4>1, <4>2
    <3>4. acts' \in 0..MaxActs
      BY <3>2
    <3>5. QED
      BY <3>3, <3>4
  <2>3. inbox' \in [Conns -> Seq(FromServer)]
    <3>1. ASSUME NEW e \in FromServer, inbox' = [inbox EXCEPT ![i] = Append(@, e)]
          PROVE  inbox' \in [Conns -> Seq(FromServer)]
      BY <3>1
    <3>2. inbox' = inbox \/ \E e \in FromServer : inbox' = [inbox EXCEPT ![i] = Append(@, e)]
      BY <1>4 DEF SrvJoin
    <3>3. QED
      BY <3>1, <3>2
  <2>4. inbox' \in [Conns -> Seq(Events)]
    BY <2>3
  <2>5. QED
    BY <2>1, <2>2, <2>3, <2>4
<1>5. ASSUME NEW i \in Conns, NEW c \in Chans, SrvActs(i, c) PROVE Typed'
  BY <1>5 DEF SrvActs, clientVars, mainVars, monVars, timerVars
<1>6. CASE MainRead
  BY <1>6 DEF MainRead, MainOnly, clientVars, serverVars, monVars, timerVars
<1>7. CASE ReadMsg
  BY <1>7 DEF ReadMsg, clientVars, monVars, timerVars
<1>8. CASE ReadFails
  BY <1>8, Closes DEF ReadFails, serverVars, monVars, timerVars
<1>9. CASE DeliverReconnected
  BY <1>9 DEF DeliverReconnected, Delivered, AfterDelivery, clientVars, serverVars, timerVars
<1>10. CASE DeliverDisconnected
  BY <1>10 DEF DeliverDisconnected, Delivered, AfterDelivery, clientVars, serverVars, timerVars
<1>11. CASE MonReconnected
  BY <1>11, Joins DEF MonReconnected, NeverTried, timerVars, mainVars
<1>12. CASE MonDisconnected
  BY <1>12 DEF MonDisconnected, NeverTried, TimerStop, mainVars, clientVars, serverVars
<1>13. CASE MonChanEvent
  <2>1. /\ net' \in [Conns -> {"none", "open", "broken", "closed"}]
        /\ conn' \in {i \in Conns : net'[i] \in {"open", "broken"}} \cup {Nil}
    BY <1>13, Closes DEF MonChanEvent, Knock, WriteFails
  <2>2. /\ main' = "read" /\ event' = NoEvent /\ event.chan \in Chans
        /\ UNCHANGED <<held, recon, disc, connected, made, stopping, inbox, c2s, members, acts>>
    BY <1>13 DEF MonChanEvent, Delivered, serverVars
  <2>3. {running', tick'} \subseteq BOOLEAN
    BY <1>13 DEF MonChanEvent, TimerReset, timerVars
  <2>4. joined' \subseteq Chans /\ tried' \in [Chans -> {"never", "recent", "old"}]
    BY <1>13, <2>2 DEF MonChanEvent, AfterKick, ForgetTry
  <2>5. QED
    BY <2>1, <2>2, <2>3, <2>4
<1>14. CASE MonTick
  BY <1>14, Joins DEF MonTick, mainVars
<1>15. CASE TimerFires
  BY <1>15 DEF TimerFires, mainVars, clientVars, serverVars
<1>16. CASE TimePasses
  BY <1>16 DEF TimePasses, timerVars, mainVars, clientVars, serverVars
<1>17. CASE UNCHANGED vars
  BY <1>17 DEF vars, clientVars, serverVars, mainVars, monVars, timerVars
<1>18. QED
  BY <1>1, <1>2, <1>3, <1>4, <1>5, <1>6, <1>7, <1>8, <1>9, <1>10, <1>11, <1>12, <1>13,
     <1>14, <1>15, <1>16, <1>17 DEF Next, MainSteps, MonSteps, ServerSteps

-----------------------------------------------------------------------------
(* Before the first connection.                                            *)

\* A bot that has no connection and is not stopping goes on doing nothing.
LEMMA UnbornStep ==
  ASSUME Typed, UnbornInv, [Next]_vars
  PROVE  UnbornInv'
<1>1. SUFFICES ASSUME made' = 0 PROVE UnbornInv'
  BY DEF UnbornInv
<1>2. made = 0 /\ ~Connect /\ net = [i \in Conns |-> "none"] /\ conn = Nil
  <2>1. made \in Nat /\ Conns = 1..MaxConn /\ MaxConn \in Nat
    BY BoundsAssumption DEF Typed, TypeOK, Conns
  <2>2. ~Connect
    BY <1>1, <2>1 DEF Connect
  <2>3. made' = made
    BY <2>2 DEF Next, MainSteps, MonSteps, ServerSteps, Stop, NetFails, SrvJoin, SrvActs,
       MainRead, ReadMsg, ReadFails, DeliverReconnected, DeliverDisconnected, MonReconnected,
       MonDisconnected, MonChanEvent, MonTick, TimerFires, TimePasses, JoinChannels, MainOnly,
       vars, clientVars, serverVars
  <2>4. net = [i \in Conns |-> "none"]
    BY <1>1, <2>3 DEF UnbornInv
  <2>5. conn = Nil
    BY <2>4 DEF Typed, TypeOK
  <2>6. QED
    BY <1>1, <2>2, <2>3, <2>4, <2>5
<1>3. net' = net
  <2>1. CloseCurrent => net' = net
    <3>1. 0 \notin Conns
      BY DEF Conns
    <3>2. QED
      BY <1>2, <3>1 DEF CloseCurrent, Nil
  <2>2. /\ \A names : Send(names) => net' = net
        /\ Knock => net' = net
    BY <1>2 DEF Send, Knock, WriteFails
  <2>3. QED
    BY <1>2, <2>1, <2>2 DEF Next, MainSteps, MonSteps, ServerSteps, Stop, NetFails, SrvJoin,
       SrvActs, MainRead, ReadMsg, ReadFails, DeliverReconnected, DeliverDisconnected,
       MonReconnected, MonDisconnected, MonChanEvent, MonTick, TimerFires, TimePasses,
       JoinChannels, MainOnly, vars, clientVars, serverVars
<1>4. ASSUME ~stopping'
      PROVE  /\ main' = "read" /\ ~recon' /\ ~disc' /\ ~connected' /\ joined' = {}
             /\ \A i \in Conns : c2s'[i] = {} /\ members'[i] = {}
  <2>1. ~stopping
    BY <1>4 DEF Next, MainSteps, MonSteps, ServerSteps, Stop, NetFails, SrvJoin, SrvActs,
       MainRead, ReadMsg, ReadFails, DeliverReconnected, DeliverDisconnected, MonReconnected,
       MonDisconnected, MonChanEvent, MonTick, TimerFires, TimePasses, JoinChannels, MainOnly,
       Connect, vars, clientVars, serverVars
  <2>2. /\ main = "read" /\ ~recon /\ ~disc /\ ~connected /\ joined = {}
        /\ \A i \in Conns : c2s[i] = {} /\ members[i] = {}
    BY <1>2, <2>1 DEF UnbornInv
  <2>3. \A i \in Conns, c \in Chans : ~SrvJoin(i, c) /\ ~SrvActs(i, c)
    BY <1>2 DEF SrvJoin, SrvActs
  <2>4. /\ ~ReadMsg /\ ~ReadFails /\ ~DeliverReconnected /\ ~DeliverDisconnected
        /\ ~MonReconnected /\ ~MonDisconnected /\ ~MonChanEvent
    BY <2>2 DEF ReadMsg, ReadFails, DeliverReconnected, DeliverDisconnected, MonReconnected,
       MonDisconnected, MonChanEvent
  <2>5. ~MainRead /\ ~Stop
    BY <1>2, <1>4, <2>1 DEF MainRead, Stop
  <2>6. UNCHANGED <<main, recon, disc, connected, joined, c2s, members>>
    <3>1. \A names : Send(names) => c2s' = c2s
      BY <1>2 DEF Send
    <3>2. MonTick => UNCHANGED <<main, recon, disc, connected, joined, c2s, members>>
      BY <3>1 DEF MonTick, JoinChannels, mainVars
    <3>3. QED
      BY <1>2, <2>3, <2>4, <2>5, <3>2 DEF Next, MainSteps, MonSteps, ServerSteps, NetFails,
         TimerFires, TimePasses, vars, clientVars, serverVars, mainVars, monVars, timerVars
  <2>7. QED
    BY <2>2, <2>6
<1>5. QED
  BY <1>2, <1>3, <1>4 DEF UnbornInv

-----------------------------------------------------------------------------
(* On the first connection.                                                *)

\* Nothing of it has to do with what is said, read or delivered: JOINs may be sent
\* or answered, but not before the handler's loop has heard of the connection.
LEMMA StillFirst ==
  ASSUME FirstInv, First, UNCHANGED <<conn, disc, main, held, event, recon, joined>>,
         inbox'[1] = inbox[1], members'[1] = members[1],
         Fresh => c2s'[1] = {} /\ ~connected'
  PROVE  FirstInv'
<1>1. LoopInv /\ FreshInv /\ \A c \in Chans : View(c)
  BY DEF FirstInv
<1>2. LoopInv'
  BY <1>1 DEF LoopInv, Sent001, Handed001
<1>3. Fresh' <=> Fresh
  BY DEF Fresh, Sent001, Handed001
<1>4. FreshInv'
  <2> HIDE DEF Fresh
  <2>1. QED
    BY <1>1, <1>3 DEF FreshInv
<1>5. ASSUME NEW c \in Chans PROVE View(c)'
  <2>1. OnWay(c)' = OnWay(c) /\ (AtHand(c)' <=> AtHand(c))
    BY DEF OnWay, AtHand, About
  <2>2. View(c)
    BY <1>1, <1>5
  <2> HIDE DEF OnWay, AtHand
  <2>3. QED
    BY <2>1, <2>2 DEF View
<1>6. QED
  BY <1>2, <1>4, <1>5 DEF FirstInv

\* The server says something about a channel: it is the last word on that one.
LEMMA SaysFirst ==
  ASSUME Typed, FirstInv, First, UNCHANGED <<conn, disc, main, held, event, recon, joined, connected>>,
         NEW e \in ChanEvents, inbox'[1] = Append(inbox[1], e),
         \A c \in Chans : IF About(e, c) THEN e.kind = "JOIN" <=> c \in members'[1]
                                         ELSE c \in members'[1] <=> c \in members[1],
         Fresh => members'[1] = {} /\ c2s'[1] = {} /\ e.kind # "JOIN"
  PROVE  FirstInv'
<1> DEFINE L == Len(inbox[1])
<1>1. LoopInv /\ FreshInv /\ \A c \in Chans : View(c)
  BY DEF FirstInv
<1>2. inbox[1] \in Seq(FromServer) /\ e \in FromServer /\ e.kind # "001"
  <2>1. 1 \in Conns
    BY BoundsAssumption DEF Typed, TypeOK, First, Conns
  <2>2. QED
    BY <2>1 DEF Typed, FromServer, ChanEvents
<1>3. /\ L \in Nat /\ DOMAIN inbox[1] = 1..L /\ DOMAIN inbox'[1] = 1..L + 1
      /\ \A k \in 1..L : inbox'[1][k] = inbox[1][k]
      /\ inbox'[1][L + 1] = e
  BY <1>2
<1>4. \A k \in DOMAIN inbox'[1] : k \in DOMAIN inbox[1] \/ k = L + 1
  BY <1>3
<1>5. Sent001' <=> Sent001
  <2>1. CASE L = 0
    <3>1. inbox[1] = <<>> /\ inbox'[1][1] = e
      BY <1>2, <1>3, <2>1
    <3>2. QED
      BY <1>2, <3>1 DEF Sent001
  <2>2. CASE L > 0
    <3>1. 1 \in 1..L /\ inbox[1] # <<>> /\ inbox'[1] # <<>>
      BY <1>2, <1>3, <2>2
    <3>2. QED
      BY <1>3, <3>1 DEF Sent001
  <2>3. QED
    BY <1>3, <2>1, <2>2
<1> HIDE DEF L
<1>6. (Handed001' <=> Handed001) /\ (Fresh' <=> Fresh)
  BY <1>5 DEF Fresh, Handed001
<1>7. LoopInv'
  <2>1. \A k \in DOMAIN inbox'[1] : inbox'[1][k].kind = "001" => k = 1
    BY <1>1, <1>2, <1>3, <1>4 DEF LoopInv
  <2> HIDE DEF Sent001, Handed001
  <2>2. QED
    BY <1>1, <1>5, <1>6, <2>1 DEF LoopInv
<1>8. FreshInv'
  <2> HIDE DEF Fresh
  <2>1. Fresh => \A k \in DOMAIN inbox'[1] : inbox'[1][k].kind # "JOIN"
    BY <1>1, <1>3, <1>4 DEF FreshInv
  <2>2. QED
    BY <1>1, <1>6, <2>1 DEF FreshInv
<1>9. ASSUME NEW c \in Chans PROVE View(c)'
  <2>1. AtHand(c)' <=> AtHand(c)
    BY DEF AtHand, About
  <2>2. View(c)
    BY <1>1, <1>9
  <2>3. CASE About(e, c)
    <3>1. L + 1 \in OnWay(c)' /\ \A k \in OnWay(c)' : k \in 1..L + 1
      BY <1>3, <2>3 DEF OnWay, About
    <3>2. ASSUME NEW k \in OnWay(c)', \A j \in OnWay(c)' : j <= k
          PROVE  inbox'[1][k].kind = "JOIN" <=> c \in members'[1]
      <4>1. k = L + 1
        BY <1>3, <3>1, <3>2
      <4>2. QED
        BY <1>3, <2>3, <4>1
    <3> HIDE DEF OnWay, AtHand
    <3>3. QED
      BY <3>1, <3>2 DEF View
  <2>4. CASE ~About(e, c)
    <3>1. \A k \in OnWay(c)' : k \in OnWay(c) /\ inbox'[1][k] = inbox[1][k]
      <4>1. ASSUME NEW k \in DOMAIN inbox'[1], About(inbox'[1][k], c)
            PROVE  k \in DOMAIN inbox[1] /\ inbox'[1][k] = inbox[1][k]
        BY <1>3, <1>4, <2>4, <4>1
      <4>2. QED
        BY <4>1 DEF OnWay
    <3>2. \A k \in OnWay(c) : k \in OnWay(c)'
      <4>1. ASSUME NEW k \in DOMAIN inbox[1]
            PROVE  k \in DOMAIN inbox'[1] /\ inbox'[1][k] = inbox[1][k]
        BY <1>3
      <4>2. QED
        BY <4>1 DEF OnWay
    <3>3. c \in members'[1] <=> c \in members[1]
      BY <2>4
    <3> HIDE DEF OnWay, AtHand
    <3>4. OnWay(c)' = OnWay(c)
      BY <3>1, <3>2
    <3>5. \A k \in OnWay(c)' :
            (\A j \in OnWay(c)' : j <= k) => (inbox'[1][k].kind = "JOIN" <=> c \in members'[1])
      BY <2>2, <3>1, <3>3, <3>4 DEF View
    <3>6. QED
      BY <2>1, <2>2, <3>3, <3>4, <3>5 DEF View
  <2>5. QED
    BY <2>3, <2>4
<1>10. QED
  BY <1>7, <1>8, <1>9 DEF FirstInv

\* A sequence without its head.
LEMMA Tails ==
  ASSUME NEW S, NEW s \in Seq(S), s # <<>>
  PROVE  /\ Len(s) \in Nat /\ Len(s) > 0 /\ DOMAIN s = 1..Len(s)
         /\ DOMAIN Tail(s) = 1..Len(s) - 1
         /\ \A k \in 1..Len(s) - 1 : Tail(s)[k] = s[k + 1]
         /\ Head(s) = s[1] /\ s[1] \in S
OBVIOUS

\* The next message is read: what it says of a channel is at hand.
LEMMA ReadFirst ==
  ASSUME Typed, FirstInv, First, ReadMsg
  PROVE  FirstInv'
<1> DEFINE L == Len(inbox[1])
<1>1. LoopInv /\ FreshInv /\ \A c \in Chans : View(c)
  BY DEF FirstInv
<1>2. /\ main = "reading" /\ held = 1 /\ inbox[1] # <<>> /\ main' = "deliver"
      /\ event' = Head(inbox[1]) /\ inbox' = [inbox EXCEPT ![1] = Tail(@)]
      /\ UNCHANGED <<conn, made, net, stopping, c2s, members, acts, recon, disc, connected,
                     joined, tried, running, tick>>
  BY <1>1 DEF ReadMsg, LoopInv, clientVars, monVars, timerVars
<1>3. inbox[1] \in Seq(FromServer) /\ inbox'[1] = Tail(inbox[1])
  <2>1. 1 \in Conns /\ inbox \in [Conns -> Seq(FromServer)]
    BY BoundsAssumption DEF Typed, TypeOK, First, Conns
  <2>2. QED
    BY <1>2, <2>1
<1>4. /\ L \in Nat /\ L > 0 /\ DOMAIN inbox[1] = 1..L /\ DOMAIN inbox'[1] = 1..L - 1
      /\ \A k \in 1..L - 1 : inbox'[1][k] = inbox[1][k + 1]
      /\ event' = inbox[1][1] /\ inbox[1][1] \in FromServer
  <2>1. inbox[1] # <<>> /\ event' = Head(inbox[1])
    BY <1>2
  <2>2. QED
    BY <1>3, <2>1, Tails, Zenon
<1> HIDE DEF L
<1>5. \A k \in DOMAIN inbox'[1] : /\ k \in Nat /\ k >= 1 /\ k + 1 # 1 /\ k + 1 \in DOMAIN inbox[1]
                                  /\ inbox'[1][k] = inbox[1][k + 1]
  BY <1>4
<1>6. \A k \in DOMAIN inbox[1] : k = 1 \/ (k \in Nat /\ k - 1 \in DOMAIN inbox'[1] /\ (k - 1) + 1 = k)
  BY <1>4
<1>7. /\ \A k \in DOMAIN inbox'[1] : inbox'[1][k].kind # "001"
      /\ 1 \in DOMAIN inbox[1]
  BY <1>1, <1>4, <1>5 DEF LoopInv
<1>8. ~Sent001'
  <2>1. ASSUME inbox'[1] # <<>> PROVE 1 \in DOMAIN inbox'[1]
    <3>1. inbox'[1] \in Seq(FromServer)
      BY <1>2, <1>3
    <3>2. QED
      BY <2>1, <3>1
  <2>2. QED
    BY <1>7, <2>1 DEF Sent001
<1>9. Handed001' => Sent001
  BY <1>2, <1>4 DEF Handed001, Sent001
<1>10. LoopInv'
  <2> HIDE DEF Sent001, Handed001
  <2>1. QED
    BY <1>1, <1>2, <1>4, <1>7, <1>8, <1>9 DEF LoopInv
<1>11. Fresh' => Fresh
  BY <1>2, <1>8, <1>9 DEF Fresh
<1>12. FreshInv'
  <2> HIDE DEF Fresh
  <2>1. Fresh => \A k \in DOMAIN inbox'[1] : inbox'[1][k].kind # "JOIN"
    BY <1>1, <1>5 DEF FreshInv
  <2>2. Fresh => event'.kind # "JOIN"
    BY <1>1, <1>4, <1>7 DEF FreshInv
  <2>3. QED
    BY <1>1, <1>2, <1>11, <2>1, <2>2 DEF FreshInv
<1>13. ASSUME NEW c \in Chans PROVE View(c)'
  <2>1. View(c) /\ ~AtHand(c)
    BY <1>1, <1>2, <1>13 DEF AtHand
  <2>2. \A k \in OnWay(c)' : /\ k \in Nat /\ k + 1 # 1 /\ k + 1 \in OnWay(c)
                             /\ inbox'[1][k] = inbox[1][k + 1]
    <3>1. ASSUME NEW k \in DOMAIN inbox'[1], About(inbox'[1][k], c)
          PROVE  /\ k \in Nat /\ k + 1 # 1 /\ k + 1 \in DOMAIN inbox[1]
                 /\ About(inbox[1][k + 1], c) /\ inbox'[1][k] = inbox[1][k + 1]
      BY <1>5, <3>1
    <3>2. QED
      BY <3>1 DEF OnWay
  <2>3. \A k \in OnWay(c) : k = 1 \/ (k \in Nat /\ k - 1 \in OnWay(c)' /\ (k - 1) + 1 = k)
    <3>1. ASSUME NEW k \in DOMAIN inbox[1], About(inbox[1][k], c), k # 1
          PROVE  /\ k \in Nat /\ k - 1 \in DOMAIN inbox'[1] /\ (k - 1) + 1 = k
                 /\ About(inbox'[1][k - 1], c)
      <4>1. k \in Nat /\ k - 1 \in DOMAIN inbox'[1] /\ (k - 1) + 1 = k
        BY <1>6, <3>1
      <4>2. inbox'[1][k - 1] = inbox[1][k]
        BY <1>5, <4>1
      <4>3. QED
        BY <3>1, <4>1, <4>2
    <3>2. QED
      BY <3>1 DEF OnWay
  <2>4. (AtHand(c)' <=> 1 \in OnWay(c)) /\ event' = inbox[1][1]
    BY <1>2, <1>4, <1>7 DEF AtHand, OnWay
  <2>5. UNCHANGED <<joined, members>>
    BY <1>2
  <2> HIDE DEF OnWay, AtHand
  <2>6. ASSUME NEW k \in OnWay(c)', \A j \in OnWay(c)' : j <= k
        PROVE  inbox'[1][k].kind = "JOIN" <=> c \in members'[1]
    <3>1. k \in Nat /\ k + 1 \in OnWay(c)
      BY <2>2, <2>6
    <3>2. ASSUME NEW j \in OnWay(c) PROVE j <= k + 1
      <4>1. CASE j = 1
        BY <3>1, <4>1
      <4>2. CASE j # 1
        <5>1. j \in Nat /\ j - 1 \in OnWay(c)'
          BY <2>3, <3>2, <4>2
        <5>2. j - 1 <= k
          BY <2>6, <5>1
        <5>3. QED
          BY <3>1, <5>1, <5>2
      <4>3. QED
        BY <4>1, <4>2
    <3>3. inbox[1][k + 1].kind = "JOIN" <=> c \in members[1]
      BY <2>1, <3>1, <3>2 DEF View
    <3>4. QED
      BY <2>2, <2>5, <2>6, <3>3
  <2>7. ASSUME OnWay(c)' = {}, AtHand(c)' PROVE event'.kind = "JOIN" <=> c \in members'[1]
    <3>1. 1 \in OnWay(c) /\ \A j \in OnWay(c) : j = 1
      BY <2>3, <2>4, <2>7
    <3>2. \A j \in OnWay(c) : j <= 1
      BY <3>1
    <3>3. QED
      BY <2>1, <2>4, <2>5, <3>1, <3>2 DEF View
  <2>8. ASSUME OnWay(c)' = {}, ~AtHand(c)' PROVE c \in joined' <=> c \in members'[1]
    <3>1. OnWay(c) = {}
      BY <2>3, <2>4, <2>8
    <3>2. QED
      BY <2>1, <2>5, <3>1 DEF View
  <2>9. QED
    BY <2>6, <2>7, <2>8 DEF View
<1>14. QED
  BY <1>10, <1>12, <1>13 DEF FirstInv

\* Nothing in the inbox changes, and what is at hand is about no channel.
LEMMA SameOnWay ==
  ASSUME inbox'[1] = inbox[1], NEW c
  PROVE  OnWay(c)' = OnWay(c)
BY DEF OnWay, About

\* 001 goes into the handler's channel.
LEMMA GreetFirst ==
  ASSUME Typed, FirstInv, First, DeliverReconnected
  PROVE  FirstInv'
<1>1. LoopInv /\ FreshInv /\ \A c \in Chans : View(c)
  BY DEF FirstInv
<1>2. /\ main = "deliver" /\ event.kind = "001" /\ recon' = TRUE /\ main' = "read"
      /\ UNCHANGED <<held, disc, connected, joined, tried, timerVars, clientVars, serverVars>>
  BY DEF DeliverReconnected, Delivered, AfterDelivery
<1>3. UNCHANGED <<conn, inbox, c2s, members, joined, connected, disc>>
  BY <1>2 DEF clientVars, serverVars
<1>4. Handed001 /\ Fresh /\ ~Sent001
  BY <1>1, <1>2 DEF Handed001, Fresh, LoopInv
<1>5. ~Sent001' /\ ~Handed001'
  BY <1>2, <1>3, <1>4 DEF Sent001, Handed001
<1>6. LoopInv'
  <2> HIDE DEF Sent001, Handed001
  <2>1. QED
    BY <1>1, <1>2, <1>3, <1>5 DEF LoopInv
<1>7. FreshInv'
  <2> HIDE DEF Fresh
  <2>1. QED
    BY <1>1, <1>2, <1>3, <1>4 DEF FreshInv
<1>8. ASSUME NEW c \in Chans PROVE View(c)'
  <2>1. OnWay(c)' = OnWay(c) /\ ~AtHand(c) /\ ~AtHand(c)'
    BY <1>2, <1>3, SameOnWay DEF AtHand, About
  <2>2. View(c)
    BY <1>1, <1>8
  <2> HIDE DEF OnWay, AtHand
  <2>3. QED
    BY <1>3, <2>1, <2>2 DEF View
<1>9. QED
  BY <1>6, <1>7, <1>8 DEF FirstInv

\* The handler's loop hears of the connection: it is on no channel, and asks to be.
LEMMA HearsFirst ==
  ASSUME Typed, FirstInv, First, First', MonReconnected
  PROVE  FirstInv'
<1>1. LoopInv /\ FreshInv /\ \A c \in Chans : View(c)
  BY DEF FirstInv
<1>2. /\ recon /\ recon' = FALSE /\ joined' = {}
      /\ JoinChannels(TRUE, {}, NeverTried)
      /\ UNCHANGED <<disc, timerVars, mainVars>>
  BY DEF MonReconnected
<1>3. UNCHANGED <<main, held, event, disc, inbox, members>>
  BY <1>2 DEF JoinChannels, mainVars
<1>4. conn' = conn
  <2>1. conn = 1 /\ net[1] = "open"
    BY <1>1 DEF First, LoopInv
  <2>2. \A names : Send(names) => conn' = conn
    BY <2>1 DEF Send, WriteFails
  <2>3. QED
    BY <1>2, <2>2 DEF JoinChannels
<1>5. Fresh /\ ~Sent001 /\ ~Handed001
  BY <1>1, <1>2 DEF Fresh, LoopInv
<1>6. ~Sent001' /\ ~Handed001' /\ ~Fresh'
  BY <1>2, <1>3, <1>5 DEF Sent001, Handed001, Fresh
<1>7. LoopInv'
  <2> HIDE DEF Sent001, Handed001
  <2>1. QED
    BY <1>1, <1>3, <1>4, <1>6 DEF LoopInv
<1>8. FreshInv'
  <2> HIDE DEF Fresh
  <2>1. QED
    BY <1>6 DEF FreshInv
<1>9. ASSUME NEW c \in Chans PROVE View(c)'
  <2>1. OnWay(c)' = OnWay(c) /\ (AtHand(c)' <=> AtHand(c))
    BY <1>3, SameOnWay DEF AtHand, About
  <2>2. View(c) /\ joined = {} /\ members[1] = {}
    BY <1>1, <1>5, <1>9 DEF FreshInv
  <2> HIDE DEF OnWay, AtHand
  <2>3. QED
    BY <1>2, <1>3, <2>1, <2>2 DEF View
<1>10. QED
  BY <1>7, <1>8, <1>9 DEF FirstInv

\* The handler's loop takes what is at hand about a channel.
LEMMA TakesFirst ==
  ASSUME Typed, FirstInv, First, MonChanEvent
  PROVE  FirstInv'
<1>1. LoopInv /\ FreshInv /\ \A c \in Chans : View(c)
  BY DEF FirstInv
<1>2. /\ main = "deliver" /\ event \in ChanEvents /\ main' = "read"
      /\ UNCHANGED <<held, recon, disc, connected, conn, inbox, c2s, members>>
  <2>1. conn = 1 /\ net[1] = "open"
    BY <1>1 DEF First, LoopInv
  <2>2. Knock => conn' = conn
    BY <2>1 DEF Knock, WriteFails
  <2>3. QED
    BY <2>2 DEF MonChanEvent, Delivered, serverVars
<1>3. event.kind \in {"JOIN", "KICK", "INVITE", "473"} /\ event.chan \in Chans
  BY <1>2 DEF ChanEvents
<1>4. /\ event.kind = "JOIN" => joined' = joined \cup {event.chan}
      /\ event.kind \in {"KICK", "INVITE"} => joined' = joined \ {event.chan}
      /\ event.kind = "473" => joined' = joined
  <2>1. CASE event.kind = "JOIN"
    BY <2>1 DEF MonChanEvent
  <2>2. CASE event.kind = "KICK"
    BY <2>2 DEF MonChanEvent, AfterKick
  <2>3. CASE event.kind = "INVITE"
    BY <2>3 DEF MonChanEvent
  <2>4. CASE event.kind = "473"
    BY <2>4 DEF MonChanEvent
  <2>5. QED
    BY <1>3, <2>1, <2>2, <2>3, <2>4
<1>5. (Sent001' <=> Sent001) /\ ~Handed001 /\ ~Handed001' /\ (Fresh' <=> Fresh)
  BY <1>2, <1>3 DEF Sent001, Handed001, Fresh
<1>6. LoopInv'
  <2> HIDE DEF Sent001, Handed001
  <2>1. QED
    BY <1>1, <1>2, <1>5 DEF LoopInv
<1>7. FreshInv'
  <2> HIDE DEF Fresh
  <2>1. Fresh => event.kind # "JOIN"
    BY <1>1, <1>2 DEF FreshInv
  <2>2. Fresh => joined' = {}
    <3>1. Fresh => joined = {}
      BY <1>1 DEF FreshInv
    <3>2. event.kind # "JOIN" => joined' \subseteq joined
      BY <1>3, <1>4
    <3>3. QED
      BY <2>1, <3>1, <3>2
  <2>3. QED
    BY <1>1, <1>2, <1>5, <2>2 DEF FreshInv
<1>8. ASSUME NEW c \in Chans PROVE View(c)'
  <2>1. OnWay(c)' = OnWay(c) /\ ~AtHand(c)'
    BY <1>2, SameOnWay DEF AtHand
  <2>2. View(c)
    BY <1>1, <1>8
  <2>3. AtHand(c) => (c \in joined' <=> event.kind = "JOIN")
    <3>1. AtHand(c) => event.kind \in {"JOIN", "KICK", "INVITE"} /\ event.chan = c
      BY DEF AtHand, About
    <3>2. QED
      BY <1>4, <3>1
  <2>4. ~AtHand(c) => (c \in joined' <=> c \in joined)
    <3>1. ~AtHand(c) => event.kind = "473" \/ event.chan # c
      BY <1>2, <1>3 DEF AtHand, About
    <3>2. QED
      BY <1>3, <1>4, <3>1
  <2> HIDE DEF OnWay, AtHand
  <2>5. QED
    BY <1>2, <2>1, <2>2, <2>3, <2>4 DEF View
<1>9. QED
  BY <1>6, <1>7, <1>8 DEF FirstInv

\* The first connection is made.
LEMMA MadeFirst ==
  ASSUME Typed, UnbornInv, Connect
  PROVE  FirstInv'
<1>1. SUFFICES ASSUME made' = 1 PROVE FirstInv'
  BY DEF FirstInv, First
<1>2. made = 0 /\ 1 \in Conns /\ conn' = 1
  BY <1>1, BoundsAssumption DEF Connect, Typed, TypeOK, Conns
<1>3. /\ main = "read" /\ ~recon /\ ~disc /\ ~connected /\ joined = {}
      /\ c2s[1] = {} /\ members[1] = {}
  BY <1>2 DEF Connect, UnbornInv
<1>4. UNCHANGED <<main, recon, disc, connected, joined, c2s, members>>
  BY DEF Connect, mainVars, monVars
<1>5. inbox'[1] = << [kind |-> "001"] >>
  BY <1>2 DEF Connect, Typed, Conns
<1>6. /\ inbox'[1] # <<>> /\ \A k \in DOMAIN inbox'[1] : k = 1 /\ inbox'[1][k].kind = "001"
  BY <1>5
<1>7. LoopInv'
  BY <1>2, <1>3, <1>4, <1>6 DEF LoopInv, Handed001
<1>8. FreshInv'
  BY <1>3, <1>4, <1>6 DEF FreshInv
<1>9. ASSUME NEW c \in Chans PROVE View(c)'
  <2>1. OnWay(c)' = {} /\ ~AtHand(c)'
    BY <1>3, <1>4, <1>6 DEF OnWay, AtHand, About
  <2> HIDE DEF OnWay, AtHand
  <2>2. QED
    BY <1>3, <1>4, <2>1 DEF View
<1>10. QED
  BY <1>7, <1>8, <1>9 DEF FirstInv

\* The main loop's next read is of the first connection.
LEMMA StartsFirst ==
  ASSUME FirstInv, First, MainRead
  PROVE  FirstInv'
<1>1. LoopInv /\ FreshInv /\ \A c \in Chans : View(c)
  BY DEF FirstInv
<1>2. /\ main = "read" /\ main' = "reading" /\ held' = 1 /\ UNCHANGED event
      /\ UNCHANGED <<conn, inbox, c2s, members, recon, disc, connected, joined>>
  BY <1>1 DEF MainRead, MainOnly, LoopInv, Nil, clientVars, serverVars, monVars
<1>3. (Sent001' <=> Sent001) /\ ~Handed001 /\ ~Handed001' /\ (Fresh' <=> Fresh)
  BY <1>2 DEF Sent001, Handed001, Fresh
<1>4. LoopInv'
  <2> HIDE DEF Sent001, Handed001
  <2>1. QED
    BY <1>1, <1>2, <1>3 DEF LoopInv
<1>5. FreshInv'
  <2> HIDE DEF Fresh
  <2>1. QED
    BY <1>1, <1>2, <1>3 DEF FreshInv
<1>6. ASSUME NEW c \in Chans PROVE View(c)'
  <2>1. OnWay(c)' = OnWay(c) /\ ~AtHand(c) /\ ~AtHand(c)'
    BY <1>2, SameOnWay DEF AtHand
  <2>2. View(c)
    BY <1>1, <1>6
  <2> HIDE DEF OnWay, AtHand
  <2>3. QED
    BY <1>2, <2>1, <2>2 DEF View
<1>7. QED
  BY <1>4, <1>5, <1>6 DEF FirstInv

\* The server takes a JOIN.
LEMMA ServedFirst ==
  ASSUME Typed, FirstInv, First, NEW i \in Conns, NEW x \in Chans, SrvJoin(i, x)
  PROVE  FirstInv'
<1>1. LoopInv /\ FreshInv
  BY DEF FirstInv
<1>2. /\ UNCHANGED <<conn, disc, main, held, event, recon, joined, connected>>
      /\ x \in c2s[i] /\ c2s' = [c2s EXCEPT ![i] = @ \ {x}]
  BY DEF SrvJoin, clientVars, mainVars, monVars
<1>3. 1 \in Conns /\ c2s \in [Conns -> SUBSET Chans] /\ members \in [Conns -> SUBSET Chans]
      /\ inbox \in [Conns -> Seq(FromServer)]
  BY BoundsAssumption DEF Typed, TypeOK, First, Conns
<1>4. Fresh => c2s[1] = {} /\ c2s'[1] = {} /\ ~connected
  BY <1>1, <1>2, <1>3 DEF FreshInv
<1>5. CASE inbox'[1] = inbox[1] /\ members'[1] = members[1]
  <2> HIDE DEF Fresh
  <2>1. QED
    BY <1>2, <1>4, <1>5, StillFirst
<1>6. CASE i = 1
  <2>1. ~Fresh
    BY <1>2, <1>4, <1>6
  <2>2. CASE inbox' = inbox /\ members' = members
    BY <1>5, <2>2
  <2>3. CASE /\ members' = [members EXCEPT ![1] = @ \cup {x}]
             /\ inbox' = [inbox EXCEPT ![1] = Append(@, [kind |-> "JOIN", chan |-> x])]
    <3> DEFINE e == [kind |-> "JOIN", chan |-> x]
    <3>1. e \in ChanEvents /\ inbox'[1] = Append(inbox[1], e)
      BY <1>3, <2>3 DEF ChanEvents
    <3>2. \A c \in Chans : IF About(e, c) THEN e.kind = "JOIN" <=> c \in members'[1]
                                          ELSE c \in members'[1] <=> c \in members[1]
      BY <1>3, <2>3 DEF About
    <3> HIDE DEF e, Fresh
    <3>3. QED
      BY <1>2, <2>1, <3>1, <3>2, SaysFirst
  <2>4. CASE /\ inbox' = [inbox EXCEPT ![1] = Append(@, [kind |-> "473", chan |-> x])]
             /\ members' = members
    <3> DEFINE e == [kind |-> "473", chan |-> x]
    <3>1. e \in ChanEvents /\ inbox'[1] = Append(inbox[1], e)
      BY <1>3, <2>4 DEF ChanEvents
    <3>2. \A c \in Chans : IF About(e, c) THEN e.kind = "JOIN" <=> c \in members'[1]
                                          ELSE c \in members'[1] <=> c \in members[1]
      BY <1>3, <2>4 DEF About
    <3> HIDE DEF e, Fresh
    <3>3. QED
      BY <1>2, <2>1, <3>1, <3>2, SaysFirst
  <2>5. QED
    BY <1>6, <2>2, <2>3, <2>4 DEF SrvJoin
<1>7. CASE i # 1
  <2>1. inbox'[1] = inbox[1] /\ members'[1] = members[1]
    BY <1>3, <1>7 DEF SrvJoin
  <2>2. QED
    BY <1>5, <2>1
<1>8. QED
  BY <1>6, <1>7

\* The server kicks the bot out, or invites it.
LEMMA ActedFirst ==
  ASSUME Typed, FirstInv, First, NEW i \in Conns, NEW x \in Chans, SrvActs(i, x)
  PROVE  FirstInv'
<1>1. LoopInv /\ FreshInv
  BY DEF FirstInv
<1> DEFINE e == [kind |-> IF x \in members[i] THEN "KICK" ELSE "INVITE", chan |-> x]
<1>2. /\ UNCHANGED <<conn, disc, main, held, event, recon, joined, connected, c2s>>
      /\ inbox' = [inbox EXCEPT ![i] = Append(@, e)]
      /\ members' = [members EXCEPT ![i] = @ \ {x}]
  BY DEF SrvActs, clientVars, mainVars, monVars
<1>3. 1 \in Conns /\ members \in [Conns -> SUBSET Chans]
      /\ inbox \in [Conns -> Seq(FromServer)]
  BY BoundsAssumption DEF Typed, TypeOK, First, Conns
<1>4. Fresh => c2s[1] = {} /\ members[1] = {} /\ ~connected
  BY <1>1 DEF FreshInv
<1>5. e \in ChanEvents /\ e.kind \in {"KICK", "INVITE"} /\ e.chan = x
  BY DEF ChanEvents
<1> HIDE DEF e
<1>6. CASE i = 1
  <2>1. inbox'[1] = Append(inbox[1], e) /\ members'[1] = members[1] \ {x}
    BY <1>2, <1>3, <1>6
  <2>2. \A c \in Chans : IF About(e, c) THEN e.kind = "JOIN" <=> c \in members'[1]
                                        ELSE c \in members'[1] <=> c \in members[1]
    BY <1>5, <2>1 DEF About
  <2> HIDE DEF Fresh
  <2>3. Fresh => members'[1] = {} /\ c2s'[1] = {} /\ e.kind # "JOIN"
    BY <1>2, <1>4, <1>5, <2>1
  <2>4. QED
    BY <1>2, <1>5, <2>1, <2>2, <2>3, SaysFirst
<1>7. CASE i # 1
  <2>1. inbox'[1] = inbox[1] /\ members'[1] = members[1]
    BY <1>2, <1>3, <1>7
  <2> HIDE DEF Fresh
  <2>2. QED
    BY <1>2, <1>4, <2>1, StillFirst
<1>8. QED
  BY <1>6, <1>7

\* On a tick the handler's loop asks for the channels it is not on.
LEMMA TicksFirst ==
  ASSUME FirstInv, First, MonTick
  PROVE  FirstInv'
<1>1. LoopInv /\ FreshInv
  BY DEF FirstInv
<1>2. /\ UNCHANGED <<recon, disc, connected, joined, mainVars, inbox, members>>
      /\ JoinChannels(connected, joined, tried)
  BY DEF MonTick, JoinChannels
<1>3. conn' = conn
  <2>1. conn = 1 /\ net[1] = "open"
    BY <1>1 DEF First, LoopInv
  <2>2. \A names : Send(names) => conn' = conn
    BY <2>1 DEF Send, WriteFails
  <2>3. QED
    BY <1>2, <2>2 DEF JoinChannels
<1>4. Fresh => c2s' = c2s
  <2>1. Fresh => ~connected
    BY <1>1 DEF FreshInv
  <2>2. ~connected => Send({})
    BY <1>2 DEF JoinChannels
  <2>3. Send({}) => c2s' = c2s
    BY DEF Send
  <2>4. QED
    BY <2>1, <2>2, <2>3
<1>5. Fresh => c2s'[1] = {} /\ ~connected'
  BY <1>1, <1>2, <1>4 DEF FreshInv
<1> HIDE DEF Fresh
<1>6. QED
  BY <1>2, <1>3, <1>5, StillFirst DEF mainVars

\* Every step keeps what is said of the first connection.
LEMMA FirstStep ==
  ASSUME Typed, UnbornInv, FirstInv, [Next]_vars
  PROVE  FirstInv'
<1>1. SUFFICES ASSUME First' PROVE FirstInv'
  BY DEF FirstInv
<1>2. CASE Connect
  BY <1>2, MadeFirst
<1>3. ASSUME ~Connect PROVE First
  <2>1. made' = made
    BY <1>3 DEF Next, vars, clientVars, MainSteps, MonSteps, ServerSteps, MainRead, MainOnly,
                ReadMsg, ReadFails, DeliverReconnected, DeliverDisconnected, MonReconnected,
                MonDisconnected, MonChanEvent, MonTick, TimerFires, TimePasses, SrvJoin,
                SrvActs, Stop, NetFails, JoinChannels, Knock
  <2>2. net' = net \/ CloseCurrent \/ \E i \in Conns : net' = [net EXCEPT ![i] = "broken"]
    BY <1>3 DEF Next, vars, clientVars, MainSteps, MonSteps, ServerSteps, MainRead, MainOnly,
                ReadMsg, ReadFails, DeliverReconnected, DeliverDisconnected, MonReconnected,
                MonDisconnected, MonChanEvent, MonTick, TimerFires, TimePasses, SrvJoin,
                SrvActs, Stop, NetFails, JoinChannels, Send, Knock, WriteFails
  <2>3. 1 \in Conns /\ net \in [Conns -> {"none", "open", "broken", "closed"}]
    BY <1>1, <2>1, BoundsAssumption DEF First, Typed, TypeOK, Conns
  <2>4. net'[1] = "open" => net[1] = "open"
    BY <2>2, <2>3 DEF CloseCurrent
  <2>5. QED
    BY <1>1, <2>1, <2>4 DEF First
<1>4. ASSUME First PROVE conn = 1 /\ net[1] = "open" /\ ~disc /\ (main = "deliver" => event \in FromServer)
  BY <1>4 DEF FirstInv, LoopInv, First
<1>5. ASSUME First PROVE ~CloseCurrent
  <2>1. 1 \in Conns
    BY <1>5, BoundsAssumption DEF First, Typed, TypeOK, Conns
  <2>2. CloseCurrent => net'[1] = "closed"
    BY <1>4, <1>5, <2>1 DEF CloseCurrent
  <2>3. QED
    BY <1>1, <2>2 DEF First
<1>6. ASSUME First PROVE Fresh => c2s[1] = {} /\ ~connected
  BY <1>6 DEF FirstInv, FreshInv
<1>7. ASSUME ~Connect, inbox' = inbox, members' = members, c2s' = c2s,
             UNCHANGED <<conn, disc, main, held, event, recon, joined, connected>>
      PROVE  FirstInv'
  <2> HIDE DEF Fresh
  <2>1. QED
    BY <1>3, <1>6, <1>7, StillFirst
<1>8. CASE UNCHANGED vars
  <2>1. ~Connect
    BY <1>8 DEF Connect, vars, clientVars, Typed, TypeOK
  <2>2. QED
    BY <1>7, <1>8, <2>1 DEF vars, clientVars, serverVars, mainVars, monVars
<1>9. CASE ~Connect /\ Next
  <2>1. First
    BY <1>3, <1>9
  <2>2. CASE MainSteps
    <3>1. ~ReadFails
      BY <1>5, <2>1 DEF ReadFails
    <3>2. ~DeliverDisconnected
      BY <1>4, <2>1 DEF DeliverDisconnected, FromServer, ChanEvents
    <3>3. QED
      BY <2>1, <2>2, <3>1, <3>2, StartsFirst, ReadFirst, GreetFirst DEF MainSteps
  <2>3. CASE MonSteps
    <3>1. ~MonDisconnected
      BY <1>4, <2>1 DEF MonDisconnected
    <3>2. CASE TimerFires
      BY <1>7, <1>9, <3>2 DEF TimerFires, clientVars, serverVars, mainVars
    <3>3. QED
      BY <1>1, <2>1, <2>3, <3>1, <3>2, HearsFirst, TakesFirst, TicksFirst DEF MonSteps
  <2>4. CASE ServerSteps
    BY <2>1, <2>4, ServedFirst, ActedFirst DEF ServerSteps
  <2>5. CASE TimePasses
    BY <1>7, <1>9, <2>5 DEF TimePasses, clientVars, serverVars, mainVars
  <2>6. ~Stop
    BY <1>5, <2>1 DEF Stop
  <2>7. ASSUME NEW i \in Conns, NetFails(i) PROVE FirstInv'
    BY <1>7, <1>9, <2>7 DEF NetFails, serverVars, mainVars, monVars
  <2>8. QED
    BY <1>9, <2>2, <2>3, <2>4, <2>5, <2>6, <2>7 DEF Next
<1>10. QED
  BY <1>2, <1>8, <1>9

\* A bot that has just been made has no connection.
LEMMA InitInv == Init => JoinInv
<1> SUFFICES ASSUME Init PROVE JoinInv
  OBVIOUS
<1>1. Typed
  <2>1. 0..MaxConn # {} /\ 0 \in 0..MaxConn /\ 0 \in 0..MaxActs
    BY BoundsAssumption
  <2>2. inbox \in [Conns -> Seq(FromServer)] /\ inbox \in [Conns -> Seq(Events)]
    BY DEF Init
  <2>3. event \in Events
    BY DEF Init, Events
  <2>4. QED
    BY <2>1, <2>2, <2>3 DEF Init, Typed, TypeOK, Nil, NeverTried
<1>2. UnbornInv
  BY DEF Init, UnbornInv
<1>3. FirstInv
  BY DEF Init, FirstInv, First
<1>4. QED
  BY <1>1, <1>2, <1>3 DEF JoinInv

\* The inductive invariant: what the server has sent about a channel and nobody
\* handled yet, the last of it first, and else the handler's own record, is what
\* the server has.
THEOREM Invariance == Spec => []JoinInv
<1>1. Init => JoinInv
  BY InitInv
<1>2. JoinInv /\ [Next]_vars => JoinInv'
  BY TypedStep, UnbornStep, FirstStep DEF JoinInv
<1>3. QED
  BY <1>1, <1>2, PTL DEF Spec

\* Every variable keeps its type: the connection that is current is one that is
\* open or broken, and the handler is on configured channels only.
THEOREM TypeCorrect == Spec => []TypeOK
<1>1. JoinInv => TypeOK
  BY DEF JoinInv, Typed
<1>2. QED
  BY <1>1, Invariance, PTL

\* What the server has of the first connection is of the configured channels.
LEMMA OfChans == ASSUME Typed, made = 1 PROVE joined \subseteq Chans /\ members[1] \subseteq Chans
<1>1. 1 \in Conns
  BY BoundsAssumption DEF Typed, TypeOK, Conns
<1>2. QED
  BY <1>1 DEF Typed, TypeOK

\* On the bot's first connection, IsOnChannel answers what the server holds once
\* everything the server sent has been handled.
THEOREM FirstConnectionView == Spec => []ViewAgrees
<1>1. JoinInv => ViewAgrees
  <2> SUFFICES ASSUME JoinInv, made = 1, net[1] = "open", Quiet(1) PROVE joined = members[1]
    BY DEF ViewAgrees
  <2>1. inbox[1] = <<>> /\ main # "deliver"
    BY DEF Quiet
  <2>2. joined \subseteq Chans /\ members[1] \subseteq Chans
    BY OfChans DEF JoinInv
  <2>3. ASSUME NEW c \in Chans PROVE c \in joined <=> c \in members[1]
    <3>1. View(c)
      BY DEF JoinInv, FirstInv, First
    <3>2. OnWay(c) = {} /\ ~AtHand(c)
      BY <2>1 DEF OnWay, AtHand
    <3> HIDE DEF OnWay, AtHand
    <3>3. QED
      BY <3>1, <3>2 DEF View
  <2>4. QED
    BY <2>2, <2>3
<1>2. QED
  BY <1>1, Invariance, PTL
=============================================================================
