------------------------------ MODULE Autojoin ------------------------------
(***************************************************************************)
(* The autojoin handler (egobot/hdlautojoin) and what feeds it: the bot's  *)
(* main loop (egobot/egobot.go), which is the only reader of the client,   *)
(* and through it the server.                                              *)
(*                                                                         *)
(* The main loop hands events to the handler's own loop over channels: one *)
(* buffered slot each for reconnected and disconnected, and a rendezvous   *)
(* for what happens to a channel.  select takes any channel that is ready. *)
(*                                                                         *)
(* The client is reduced to what ReconnectingClient promises.  Our own     *)
(* nickname is known, and writing does not block.                          *)
(***************************************************************************)
EXTENDS Naturals, Sequences

CONSTANTS
  Chans,     \* the configured channels
  MaxConn,   \* bound: connections made
  MaxActs    \* bound: kicks, invitations and refusals by the server

ASSUME BoundsAssumption == MaxConn \in Nat /\ MaxActs \in Nat

VARIABLES
  conn,        \* the client's connection, or Nil
  made,        \* how many there have been
  net,         \* the transport of each
  stopping,    \* the bot was told to stop
  inbox,       \* per connection, what the server sent and nobody read
  c2s,         \* per connection, channels with a JOIN the server has yet to see
  members,     \* per connection, the channels the server has the bot in
  acts,        \* kicks, invitations and refusals so far
  main,        \* where the main loop is
  held,        \* the connection its ReadMsg reads from
  event,       \* what it is delivering
  recon, disc, \* reconnectedChan and disconnectedChan hold an element
  connected,   \* monState.Connected
  joined,      \* channels with Joined set, which joinedChannels repeats
  tried,       \* LastTriedToJoin: "never" (zero), "recent" or "old" (30 s ago)
  running,     \* the timer is set
  tick         \* the timer's channel holds an element

clientVars == <<conn, made, net, stopping>>
serverVars == <<inbox, c2s, members, acts>>
mainVars == <<main, held, event>>
timerVars == <<running, tick>>
monVars == <<recon, disc, connected, joined, tried, timerVars>>
vars == <<clientVars, serverVars, mainVars, monVars>>

Nil == 0
Conns == 1..MaxConn
ChanEvents == [kind : {"JOIN", "KICK", "INVITE", "473"}, chan : Chans]
NoEvent == [kind |-> "none"]
Events == ChanEvents \cup [kind : {"001", "eof", "exit"}] \cup {NoEvent}

TypeOK ==
  /\ net \in [Conns -> {"none", "open", "broken", "closed"}]
  /\ conn \in {i \in Conns : net[i] \in {"open", "broken"}} \cup {Nil}
  /\ made \in 0..MaxConn
  /\ inbox \in [Conns -> Seq(Events)]
  /\ c2s \in [Conns -> SUBSET Chans]
  /\ members \in [Conns -> SUBSET Chans]
  /\ acts \in 0..MaxActs
  /\ main \in {"read", "reading", "deliver", "done"}
  /\ held \in Conns \cup {Nil}
  /\ event \in Events
  /\ {stopping, recon, disc, connected, running, tick} \subseteq BOOLEAN
  /\ joined \subseteq Chans
  /\ tried \in [Chans -> {"never", "recent", "old"}]

NeverTried == [c \in Chans |-> "never"]

\* The handler has been instantiated, its channels added: the last of them set
\* the timer.
Init ==
  /\ conn = Nil /\ made = 0 /\ stopping = FALSE
  /\ net = [i \in Conns |-> "none"]
  /\ inbox = [i \in Conns |-> <<>>] /\ c2s = [i \in Conns |-> {}]
  /\ members = [i \in Conns |-> {}]
  /\ acts = 0
  /\ main = "read" /\ held = Nil /\ event = NoEvent
  /\ recon = FALSE /\ disc = FALSE
  /\ connected = FALSE
  /\ joined = {}
  /\ tried = NeverTried
  /\ running = TRUE /\ tick = FALSE

-----------------------------------------------------------------------------
(* The client and its transport.                                           *)

Connect ==
  /\ conn = Nil
  /\ ~stopping
  /\ made < MaxConn
  /\ made' = made + 1
  /\ conn' = made'
  /\ net' = [net EXCEPT ![made'] = "open"]
  /\ inbox' = [inbox EXCEPT ![made'] = << [kind |-> "001"] >>]
  /\ UNCHANGED <<stopping, c2s, members, acts, mainVars, monVars>>

\* Fault: the connection given up stays current.
ClosedButCurrent ==
  UNCHANGED conn /\ net' = [i \in Conns |-> IF i = conn THEN "closed" ELSE net[i]]

\* A failure was reported to the client, or it was closed: whatever connection
\* is current is given up.
CloseCurrent ==
  conn' = Nil /\ net' = [i \in Conns |-> IF i = conn THEN "closed" ELSE net[i]]

\* Bot.Stop: destroying the handlers does nothing, then the client is closed.
Stop ==
  /\ ~stopping
  /\ stopping' = TRUE
  /\ CloseCurrent
  /\ UNCHANGED <<made, serverVars, mainVars, monVars>>

NetFails(i) ==
  /\ net[i] = "open"
  /\ net' = [net EXCEPT ![i] = "broken"]
  /\ UNCHANGED <<conn, made, stopping, serverVars, mainVars, monVars>>

-----------------------------------------------------------------------------
(* The server (external).                                                  *)

\* A JOIN: the channel lets the bot in, or is invite-only; one the bot is in
\* already is passed over.
SrvJoin(i, c) ==
  /\ net[i] = "open"
  /\ c \in c2s[i]
  /\ c2s' = [c2s EXCEPT ![i] = @ \ {c}]
  /\ \/ c \in members[i] /\ UNCHANGED <<inbox, members, acts>>
     \/ /\ c \notin members[i]
        /\ members' = [members EXCEPT ![i] = @ \cup {c}]
        /\ inbox' = [inbox EXCEPT ![i] = Append(@, [kind |-> "JOIN", chan |-> c])]
        /\ UNCHANGED acts
     \/ /\ c \notin members[i]
        /\ acts < MaxActs
        /\ acts' = acts + 1
        /\ inbox' = [inbox EXCEPT ![i] = Append(@, [kind |-> "473", chan |-> c])]
        /\ UNCHANGED members
  /\ UNCHANGED <<clientVars, mainVars, monVars>>

\* Kicked (or parted), or invited.
SrvActs(i, c) ==
  /\ net[i] = "open"
  /\ acts < MaxActs
  /\ acts' = acts + 1
  /\ inbox' = [inbox EXCEPT ![i] =
                 Append(@, [kind |-> IF c \in members[i] THEN "KICK" ELSE "INVITE", chan |-> c])]
  /\ members' = [members EXCEPT ![i] = @ \ {c}]
  /\ UNCHANGED <<c2s, clientVars, mainVars, monVars>>

-----------------------------------------------------------------------------
(* The main loop.                                                          *)

MainOnly == UNCHANGED <<clientVars, serverVars, monVars>>

\* Client.ReadMsg waits for a connection; a terminated client returns
\* ErrDisconnected.
MainRead ==
  /\ main = "read"
  /\ \/ conn # Nil /\ main' = "reading" /\ held' = conn /\ UNCHANGED event
     \/ /\ conn = Nil /\ stopping
        /\ main' = "deliver" /\ event' = [kind |-> "exit"] /\ UNCHANGED held
  /\ MainOnly

ReadMsg ==
  /\ main = "reading"
  /\ inbox[held] # <<>>
  /\ inbox' = [inbox EXCEPT ![held] = Tail(@)]
  /\ event' = Head(inbox[held])
  /\ main' = "deliver"
  /\ held' = Nil
  /\ UNCHANGED <<c2s, members, acts, clientVars, monVars>>

\* After the last message of a connection the peer closed comes io.EOF, which
\* the handlers are told of.  They are not told of any other error: a reset, a
\* connection closed under the read, a message that does not parse.
ReadFails ==
  /\ main = "reading"
  /\ \/ /\ net[held] = "broken" /\ inbox[held] = <<>>
        /\ main' = "deliver" /\ event' = [kind |-> "eof"]
     \/ main' = "read" /\ UNCHANGED event
  /\ held' = Nil
  /\ CloseCurrent
  /\ UNCHANGED <<made, stopping, serverVars, monVars>>

\* Fault: the main loop does not end.
NeverDone == "read"
AfterDelivery == IF event.kind = "exit" THEN "done" ELSE "read"

Delivered(next) == main' = next /\ event' = NoEvent /\ UNCHANGED held

\* 001 and the disconnections go into a buffered channel.
DeliverReconnected ==
  /\ main = "deliver" /\ event.kind = "001"
  /\ ~recon
  /\ recon' = TRUE
  /\ Delivered(AfterDelivery)
  /\ UNCHANGED <<disc, connected, joined, tried, timerVars, clientVars, serverVars>>

DeliverDisconnected ==
  /\ main = "deliver" /\ event.kind \in {"eof", "exit"}
  /\ ~disc
  /\ disc' = TRUE
  /\ Delivered(AfterDelivery)
  /\ UNCHANGED <<recon, connected, joined, tried, timerVars, clientVars, serverVars>>

-----------------------------------------------------------------------------
(* The handler's loop: monLoop.                                            *)

\* An element that the timer has put into its channel survives Stop and Reset
\* with the timers of Go before 1.23, and does not with later ones.
TimerReset == running' = TRUE /\ tick' \in {tick, FALSE}
TimerStop == running' = FALSE /\ tick' \in {tick, FALSE}

\* The client reports a failed write to itself.
WriteFails == conn # Nil /\ net[conn] = "broken" /\ CloseCurrent

\* TxCommaSeparated, whose result is not looked at: the client has no connection
\* and drops the command, or writes it, or fails to and gives up the connection.
Send(names) ==
  IF names = {} \/ conn = Nil
  THEN UNCHANGED <<conn, net, c2s>>
  ELSE \/ c2s' = [c2s EXCEPT ![conn] = @ \cup names] /\ UNCHANGED <<conn, net>>
       \/ WriteFails /\ UNCHANGED c2s

\* monJoinChannels: a channel tried 30 seconds ago or more is passed over.
JoinChannels(up, in, last) ==
  LET names == IF up THEN {c \in Chans \ in : last[c] # "old"} ELSE {}
  IN  /\ tried' = [c \in Chans |-> IF c \in names THEN "recent" ELSE last[c]]
      /\ Send(names)
      /\ UNCHANGED <<made, stopping, inbox, members, acts>>

MonReconnected ==
  /\ recon
  /\ recon' = FALSE
  /\ connected' = TRUE
  /\ joined' = {}
  /\ JoinChannels(TRUE, {}, NeverTried)
  /\ UNCHANGED <<disc, timerVars, mainVars>>

MonDisconnected ==
  /\ disc
  /\ disc' = FALSE
  /\ connected' = FALSE
  /\ joined' = {}
  /\ tried' = NeverTried
  /\ TimerStop
  /\ UNCHANGED <<recon, mainVars, clientVars, serverVars>>

\* Fault: what happens to channels is heard while disconnected only.
DeafWhenConnected == ~connected
Listening == TRUE

\* Fault: the time of the last try is left as it is.
TriedStays(c) == UNCHANGED tried
ForgetTry(c) == tried' = [tried EXCEPT ![c] = "never"]

\* Fault: a kick is not noticed.
AfterKickStill(c) == UNCHANGED joined
AfterKick(c) == joined' = joined \ {c}

\* The result of TxCmd is not looked at either.  The server's reply to a KNOCK, if
\* any, is an invitation, which it may send at any time.
Knock == WriteFails \/ UNCHANGED <<conn, net>>

\* The rendezvous with the main loop.
MonChanEvent ==
  /\ Listening
  /\ main = "deliver" /\ event \in ChanEvents
  /\ Delivered("read")
  /\ CASE event.kind = "JOIN" ->
            joined' = joined \cup {event.chan} /\ UNCHANGED <<tried, timerVars>>
       [] event.kind = "KICK" ->
            AfterKick(event.chan) /\ TimerReset /\ UNCHANGED tried
       [] event.kind = "INVITE" ->
            joined' = joined \ {event.chan} /\ ForgetTry(event.chan) /\ TimerReset
       [] event.kind = "473" ->
            UNCHANGED <<joined, tried, timerVars>>
  /\ IF event.kind = "473" THEN Knock ELSE UNCHANGED <<conn, net>>
  /\ UNCHANGED <<recon, disc, connected, made, stopping, serverVars>>

MonTick ==
  /\ tick
  /\ tick' = FALSE
  /\ running' = TRUE
  /\ JoinChannels(connected, joined, tried)
  /\ UNCHANGED <<recon, disc, connected, joined, mainVars>>

TimerFires ==
  /\ running
  /\ running' = FALSE
  /\ tick' = TRUE
  /\ UNCHANGED <<recon, disc, connected, joined, tried, mainVars, clientVars, serverVars>>

\* Thirty seconds go by.
TimePasses ==
  /\ \E c \in Chans : tried[c] = "recent"
  /\ tried' = [c \in Chans |-> IF tried[c] = "recent" THEN "old" ELSE tried[c]]
  /\ UNCHANGED <<recon, disc, connected, joined, timerVars, mainVars, clientVars, serverVars>>

-----------------------------------------------------------------------------
MainSteps == MainRead \/ ReadMsg \/ ReadFails \/ DeliverReconnected \/ DeliverDisconnected
MonSteps == MonReconnected \/ MonDisconnected \/ MonChanEvent \/ MonTick \/ TimerFires
ServerSteps == \E i \in Conns, c \in Chans : SrvJoin(i, c) \/ SrvActs(i, c)

Next ==
  \/ MainSteps \/ MonSteps \/ ServerSteps \/ TimePasses
  \/ Connect \/ Stop \/ \E i \in Conns : NetFails(i)

\* The main loop runs, and its read returns when there is a message or the
\* connection is gone; the timer fires; select takes every channel that stays
\* ready.  Nothing is assumed of the server or the program.
Fairness ==
  /\ WF_vars(MainRead \/ ReadMsg \/ DeliverReconnected \/ DeliverDisconnected
               \/ (main = "reading" /\ net[held] # "open" /\ ReadFails))
  /\ WF_vars(MonReconnected) /\ WF_vars(MonDisconnected)
  /\ WF_vars(MonChanEvent) /\ WF_vars(MonTick) /\ WF_vars(TimerFires)

Spec == Init /\ [][Next]_vars /\ Fairness

-----------------------------------------------------------------------------
\* Nothing is on its way from the server to the handler's loop.
Quiet(i) == inbox[i] = <<>> /\ main # "deliver" /\ ~recon /\ ~disc

\* What IsOnChannel answers is what the server holds, once everything the server
\* sent has been handled, on the bot's first connection: with no disconnection
\* that could be handled late, no interleaving of the timer, the reconnection
\* and the channels' events leaves the handler wrong.
ViewAgrees == made = 1 /\ net[1] = "open" /\ Quiet(1) => joined = members[1]

Asked(c) == \E i \in Conns : c \in c2s[i]

\* An invitation on the first connection is followed by a JOIN, whatever was
\* tried before, while the connection lasts.
InviteAnswered ==
  \A c \in Chans :
    /\ main = "deliver" /\ event = [kind |-> "INVITE", chan |-> c]
    /\ made = 1 /\ net[1] = "open"
    ~> Asked(c) \/ c \in members[1] \/ net[1] # "open"

\* The main loop never hangs on a delivery: the handler takes every event,
\* also while others are pending.
DeliveryEnds == main = "deliver" ~> main # "deliver"

\* A bot told to stop gets its main loop to its end.
StopEnds == stopping ~> main = "done"

(* What a comment in the source says of it.                                *)

\* hdlautojoin.go:156: the handler "uses the given Config to maintain channel
\* joins": after being kicked from a channel the bot asks to join it again, while
\* the connection lasts.
MaintainsJoins ==
  \A c \in Chans :
    /\ main = "deliver" /\ event = [kind |-> "KICK", chan |-> c]
    /\ made = 1 /\ net[1] = "open"
    ~> Asked(c) \/ c \in members[1] \/ net[1] # "open"
=============================================================================
