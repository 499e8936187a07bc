# Verification of ircproto

TLA+ modules, TLC configurations and TLAPS proofs for `ircproto`, an IRC client
library in Go with an auto-reconnecting client, and for `egobot`, the bot built
on it. Paths below are relative to the root of the repository.

## 1. The system

| Component | Source | State | Operations | What is hard |
|---|---|---|---|---|
| reconnecting client | `ircproto.go` | state, current connection, its negotiation result and message source, stopping, spawner flag | `ReadMsg`, `WriteMsg`, `Close`, `Deprecate`, `NegotiateResult`; spawner goroutine; one canceller goroutine per attempt | the mutex is released for every I/O; three kinds of goroutine; stopping at any moment |
| negotiation | `ircneg/ircneg.go` | state of the loop, nickname, status of each capability, list and values offered, messages read | `Negotiate` | the server's answers in any legal order; several requests in flight |
| SASL engine | `ircsasl/ircsasl.go` | methods, index of the current one | `SetMethods`, `BeginMethod`, `Stimulus` | lists replaced half-way |
| connection | `ircconn/ircconn.go` | transport, two mutexes, the rest of a command cut short, teardown flag | `ReadMsg`, `ReadRaw`, `WriteMsg`, `Close` | partial writes, deadlines, calls queued behind a blocked one |
| prepended source | `ircconn/abs.go` | messages left, done flag, mutex | `ReadMsg` | the moment it runs dry |
| parser | `ircparse/` | none | `Parse`, `Msg.String`, name matching | input shapes |
| configuration | `config.go` | none | constructors | - |
| bot main loop | `egobot/egobot.go` | last negotiation result seen | read, dispatch, stop | order and completeness of events; blocking on handlers |
| registry | `egobot/ircregistry/` | handlers by service | `GetFirstHandler`, `GetNextHandler`, `Next*`, `Tx*` | services nobody registered, list splitting |
| autojoin | `egobot/hdlautojoin/` | channels, joined, connected, timer | five inputs of one loop | order between channels, retries |
| nickname | `egobot/hdlnick/` | current nickname, timer, doubts about authentication | six inputs of one loop, three calls of the main loop | the nickname set from two goroutines and compared with in one; a channel the loop sends to itself |
| CTCP, transmit | `egobot/hdlctcp/`, `egobot/hdltxbase/` | none | answer, transmit | - |
| HN tail, notifier | `egobot/hntail/`, `egobot/hdlhn/` | items seen, last item, watched items, saved position | two tail loops, save loop, clean loop | restarts, coalesced saves |
| HN API, event stream | `egobot/hnapi/` | stream, closer | open, session, close | close racing open |

How they interact. `Client` dials a `Conn`, passes it to `Negotiate`, puts a
prepended source with the messages negotiation read in front of it and hands it
to callers under its mutex; a caller's failed I/O comes back as
`notifyFailure`. The canceller goroutine shares only the `Conn` (it closes it),
the context and `completedChan` with the spawner. The bot's main loop is the
client's only reader; handlers write to it through the registry.

What makes each component correct:

- client: one spawner while and only while it is connecting; what it hands out
  is nobody else's to close; every waiter and every blocked call is released when it
  stops; every transport opened is closed; a stopped client makes no new session;
- negotiation: agrees with the server on nickname and capabilities, does not
  register unauthenticated once SASL was granted, answers each challenge with its
  own method, offers the password last, and ends;
- connection: commands are never mixed, lost or repeated, lines are whole and
  in order, PINGs are answered, `Close` releases everybody;
- prepended source: its messages first, once, in order;
- bot, registry, handlers: every handler sees each connection's begin and
  end in order; channels that should be joined are; the nickname known is the
  server's; no item is skipped over a restart.

`PROJECT.json` lists the hazards, each at its line, with the properties that
watch it.

## 2. Plan

Done: the library's core, the bot with its handlers, the tailing of Hacker News, and
the safety properties the runs check, proved for every module (sections 3 to 6).
What could follow:

| Stage | Module | Contents |
|---|---|---|
| 5 | `ConnQueue` | a queue of whole commands, of which `Conn`'s partial writes are an implementation |

Abstract specifications: `ReconnectingClient` (done); for the connection, a
queue of whole commands, of which `Conn`'s partial writes are an implementation;
for the HN position, a counter that never passes an unprocessed item.

## 3. Modules

| Module | Models |
|---|---|
| `ReconnectingClient` | what the client promises: connecting, active with a session, terminated |
| `Client` | `ircproto.go`, every method and goroutine |
| `ClientProofs` | theorems about `Client` |
| `Negotiate` | `ircneg.go` with `ircsasl.go`, and an external server |
| `NegotiateProofs` | theorems about `Negotiate` |
| `Conn` | `ircconn.go` and `abs.go` |
| `ConnProofs` | theorems about `Conn` |
| `Autojoin` | `egobot.go`'s main loop with `hdlautojoin.go`, a client reduced to its promise, and an external server |
| `AutojoinProofs` | theorems about `Autojoin` |
| `Registry` | `ircregistry.go`: registration by priority and the chains, as operators |
| `Nick` | `hdlnick.go`, `hdlctcp.go`, `hdltxbase.go` and `egobot.go`'s main loop along the chains of `Registry`, a client reduced to its promise, and an external server with its services |
| `NickProofs` | theorems about `Nick` |
| `HNTail` | `hdlhn.go` with the tailer of new items in `hntail.go`, its stream in `sse.go`, and crashes |
| `HNTailProofs` | theorems about `HNTail` |
| `MCClient`, `MCNegotiate`, `MCConn`, `MCAutojoin`, `MCNick`, `MCHNTail` | instances for TLC |

### Client

The client's mutex covers its fields, so a critical section is one action, and
whatever runs with the mutex released is a program counter. A spawner is at
`start` (head of `snrLoop`), `connect`, `negotiate`, `handoff` (the select on
`completedChan`), `emit` (`snrEmitNewConn`), `failed`, `backoff` or `panicked`.
Reaching `snrTerminate` and leaving the loop is one action because both happen
under the mutex, with the deferred reset of `snrRunning`. `Spawners` has room for two, so
that "never two" is a result and not a shape. A canceller is `spawned` (the
goroutine exists but is not in its select), in its `select`, `closing`, `done`
or `retired`; the distinction between `spawned` and `select` decides whether
the non-blocking hand-over succeeds. A caller is `waiting` on the condition
variable, `woken`, `reading` or `writing` with the connection it captured, or
`failed`, about to report. `conn`, `negRes` and `prepend` hold the identity of
the connection they belong to. Dialling and the three configuration functions
are one step with two outcomes.

Messages are not modelled here: a read of the prepended messages succeeds
whatever became of the connection, and a write succeeds until the connection is
closed locally.

### Negotiate

Each iteration of the loop is one action, chosen by the message read or, for
the two states that read nothing, by the state. The two directions of the
connection are FIFO; `sent` is everything the server sent and the part beyond
`allReadMsgs` is in flight. `ClearCommand` is the assignment to `msg.Command`
that goes through the pointer into `allReadMsgs`. The server answers `CAP LS` on one or two
lines, with or without the SASL methods, or not at all; acknowledges or refuses
each request; accepts or refuses nicknames; refuses SASL methods with 904, 908,
both, or 902, which stands for the numerics the client does not look for (902 and
905 to 907); lists its methods in whatever order; and welcomes the client when it
has USER and a nickname and capabilities are not being negotiated. To a request or
an AUTHENTICATE it may also answer something malformed, on which the client gives
up. It never lists, in a 908, a method whose credentials it has refused: the client
would offer them for ever. The connection may be lost at any time.
Nicknames are the index they are generated from, `ReqMax` stands for the length
limit of a request, and both Go's unordered iteration and the lengths of names
are abstracted by it.

### Conn

A command is `Size` units and a call of the transport takes some number of
them. `WriteMsg` is the look at the teardown flag; then follow the mutex with the
deadline check, the rest of an earlier command, and the command itself. A
reader goes through the prepended source (holding its mutex into the read of the
connection when the source has just run dry, as the code does), the read mutex, the line,
and for a PING the PONG, written without a deadline. A line that does not parse
(`BAD`) is consumed, and the call fails. A failed read drops what was read of a line:
what is left of a line that lost its beginning is returned, or fails to parse; that
it could happen to parse as a PING is left out. `torn`, a history variable, holds the
lines in whose middle a read failed. `Close` is two steps: the flag, then the
transport.

### Autojoin

The main loop is at `read` (waiting for the client to have a connection),
`reading` from the connection it found, `deliver` or `done`. `recon` and `disc`
are the buffered channels of one slot; a channel's event is a rendezvous between
the main loop and the handler's loop. Only `io.EOF` and the end of the client are
told as disconnections, as in the code. A failure the main loop reports gives up
whatever connection is current, as in `Client`. The timer is a flag and the element in its
channel, which `Stop` and `Reset` may or may not drain, depending on the version
of Go; the time of the last try is never, less than 30 seconds ago, or more. The
dispatch of completed negotiations is left out: this handler does nothing
with it. Commands in flight are a set per connection, two JOINs for the same
channel being one; the KNOCK that answers a 473 can only fail, and give up the
connection, or bring an invitation, which the server may send anyway. Writing returns: that
a server which does not read would block the handler's loop, and the main loop
behind it, is outside the model.
The server makes the bot join only what it asked to.

### Registry and Nick

`Registry` builds the table of services from the sequence of handlers
`Bot.Start` instantiates, and `Nick` walks it: an event of the main loop (a message,
a completed negotiation, a disconnection) is at one handler after the other, as
`Next*` passes it on. The nickname handler runs in two goroutines. In the main
loop's, `NickLooks` sets the current nickname or compares a message with it, and
the main loop is then at `send` until `svrLoop` takes what it has for it. In its
own, `svrLoop` is at its `select`, or has taken a nickname (`negotiated`,
`changed`) that it has not applied yet: between the two the current nickname is
out of date, which is what the module is about. Nicknames in use go over a
buffered slot (`inUse`), which `svrLoop` also fills itself. The periods of the
timer (a second, ten seconds, a day) are one: it fires in the end. Whether the
password was sent less than five minutes ago is a choice. A message names the
nickname the server had for the bot when it sent it. `rushed` is a history
variable: a change of nickname was looked at while `svrLoop` had one to apply.

A write gives up whatever connection is current when it fails, on the current or on
an earlier connection, as in `Client`.

### HNTail

Items are numbered as at Hacker News and come into being one or several at a
time. The stream is the list of events under way; it begins with the newest
item, each event is delivered twice (the data line and the blank line), and it
fails at any point with all that was not read. An event that is not a "put" is
the number 0, as `UnmarshalMaxEvent` has it. An item is taken up, found missing
or announced, and marked in two actions, as the position has a mutex of its
own; `AuditItem` includes the watch list and the formatting of the
announcement. `saveLoop` takes the signal, reads the position, saves, with or
without success, and sleeps. A crash leaves the database alone; the end of the
bot by `Stop` is a crash too, for `Destroy` does nothing. `first`, `handled`,
`audits` and `announced` are history variables.

What the model shows of the code without a property of its own: while nothing
has been saved the tailing begins with the newest item, so that items which
arrive while the bot is down before its first save are passed over; ignored
items do not move the position; the watch list does not survive a restart, so
that a descendant of an announced item is not announced after one
(hdlhn.go:267 promises it).

## 4. Runs

| Run | Instance | Shows |
|---|---|---|
| `client` | 2 callers, 2 spawner slots, 2 connections | all invariants, liveness and the refinement of `ReconnectingClient` |
| `client_own_failure` | same | finding: a late failure report tears down a newer connection |
| `negotiate` | 3 capabilities, 2 names per request, 2 refused nicknames, every list of methods, every refusal style, malformed answers | agreement, authentication, order of methods, termination |
| `negotiate_hang` | same | finding: nothing to request, negotiation never ends |
| `conn` | 1 writer, 2 readers, a PING, a line that does not parse and another line, 3 commands of 2 units, 1 prepended message | framing, no loss, order, what a failed read costs, PINGs |
| `conn_close` | 1 writer, 2 readers, one PING, 2 commands | `Close` releases every call |
| `autojoin` | 1 channel, 2 connections, 2 kicks, invitations or refusals | agreement with the server on the first connection, answers to invitations, deliveries end, `Stop` ends |
| `autojoin_kicked` | same | finding: no JOIN after a kick |
| `nick` | 3 nicknames, 2 connections, 1 act of the server besides its answers, 2 messages on their way | the nickname known is the server's but for one race, the retries go on, the main loop never hangs in a handler |
| `nick_stale` | 1 connection, 2 acts | finding: the second of two changes of nickname is lost |
| `hntail` | 3 items, 2 crashes, 2 lost streams, with and without a configured first position | no item skipped, none repeated that was saved, every position saved, catching up |
| `hntail_user` | same, no pattern, a comment by the configured user | finding: the bot ends in a panic, again after every restart |

Bounds. Two connections are the least for a failure on an old one to meet a
new one; two callers the least for one to be late, or asleep while the other
acts. Three capabilities with two per request make two requests whose answers
differ. Two refusals let a conflict arrive during capability negotiation and
another during SASL. Commands of two units can be cut in the middle, and three
of them let one be cut, completed by the next, and followed by a third. One PING gives
one PONG: the writer and the reader that got it meet at the write mutex, while the
other reader is at the source, the read mutex or the next line. When
`MaxConn` is reached every dial fails, which a real network may do as well.
`MaxMsgs` keeps room for the PONGs, so that it never stops a reader. One channel is enough for the
autojoin handler, which treats each without regard to the others; two acts of
the server let a kick or a refusal be followed by an invitation. In `nick` the second connection may be made
before anything of the first one's end was noticed, and one act of the server
besides the answers to NICK and REGAIN is enough for two changes in a row; the
same invariants also hold with two acts (4.9 million states, without the
liveness property). Three items let one be looked at while a later one is
already there and an earlier one is being saved, and with two crashes the second
one meets a position that the first restart saved or did not. Deadlock is
checked except in `negotiate`, where negotiation ends, in `autojoin`, where the bot
stops, in `nick`, where a bot that has its nickname and a silent server may rest
(`DeliveryEnds` finds what hangs), and in their variants.

Divergences between comments and code that have no run of their own: the
hand-over that finds no receiver is not always late, as `ircproto.go:294` has it,
for the canceller may not have reached its `select` (the connection is closed
all the same, `NothingLeaks`); the messages recorded by a negotiation lose
their command (`ircneg.go:192`, the action `ClearCommand`); a server that
answers one refusal with 908 and 904 makes the SASL engine pass over a method;
`monLoop` may take a disconnection after the reconnection that followed it, or a
reconnection after the JOINs of its connection (`hdlautojoin.go:207`), and then
forgets the channels the bot is in, and in the first case holds itself disconnected;
a failed read does not close the connection (`ircconn.go:194` says it does).

Fairness. A goroutine that can run runs. Dials, sleeps and the canceller's
timer end. I/O returns once its connection has failed or was closed locally
(Go's `net.Conn` guarantees it). In `Conn` a mutex that is free again and again
is had in the end (`sync.Mutex` hands over to a waiter that starves), hence
strong fairness for the lock steps. Nothing is assumed of the peer in `Client`
and `Conn`, nor that the program calls anything; in `Negotiate` the server
answers what it receives, since a silent one is dealt with by the client's
canceller, modelled in `Client`. So is one that refuses SASL with a numeric the
client does not look for, which `RequestedFinishes` excepts. In `Autojoin` every channel that stays ready is
taken in the end (`select` chooses at random) and the timer fires; the same in
`Nick`, where nothing is assumed of the server. In `HNTail` the tailer and the
saver run, fetching and sending end, and a stream can be opened again in the
end; nothing is assumed of when the bot is started, of whether items can be
fetched, or of whether saving succeeds.

## 5. Proofs

`ClientProofs` proves, for any set of callers, any set of spawner slots and any
number of connections (`MaxConnAssumption`, `SpawnersAssumption`):

- `TypeCorrect`, `PanicFree`, `OneSpawner`, `ConnOwned`, `WakeupsKept`,
  `IOHasConn`: the invariants the `client` run checks;
- `PromiseKept`: every behaviour satisfies the safety part of
  `ReconnectingClient` under the refinement mapping of `Client`.

None of the invariants is inductive by itself. `ClientInv` (theorem
`Invariance`) joins them with what they lean on. `DialOrder`: connections come
into being in the order they are dialled, each with its canceller, so that a
new one is fresh. `AttemptInv`: a spawner has a connection exactly while it
works on one; only that connection's canceller can have closed it, and is done
then; and it has been told to let go when the connection is about to be published. The proof has one step per action;
the effects of `NotifyFailure` and `Broadcast`, which several actions share, are
lemmas (`NotifyFailureKeeps`, `BroadcastWakes`), as are the steps of a caller and of
a spawner that change nothing else.

`ConnProofs` proves, for any goroutines that write and any finite set of those that
read, messages of any size, any incoming lines and any number of prepended
messages (`SizeAssumption`, `ProcsAssumption`, `IncomingAssumption`), every
invariant the `conn` run checks and its action property:

- `TypeCorrect`, `CommandsWhole` (`Framed`), `SentOnce` (`AcceptedOnce`) and
  `StreamKept` (`NothingTakenBack`) about writing;
- `SourceFirst` (`PrependedFirst`) and `LinesInOrder` (`LinesWhole`) about reading;
- `PingsGetPongs` (`PingsAnswered`), which connects the two.

`MaxMsgs` bounds the messages of a behaviour; the theorems hold for each of its
values, and the assumption that it leaves room for as many PONGs as there are
PINGs is what lets a reader always answer. `ConnInv` (theorem `Invariance`) has four
parts. `WriteInv`: a goroutine is past the write mutex exactly while it holds it,
sends its own message only once the rest of the last one is gone, and that
message is its own with no unit of it on its way (`TxInv`): without it a second
copy of a message could start. `ReadInv`: nobody is at the connection before the
source is dry, no line returned ends after what was consumed, and while the next
unit to be read is in the middle of a line, that line is torn (`RxInv`): this is why
a failed read costs one line and no other. `PingInv`: the
PINGs returned and those still to come are no more than there is room for
(`RoomInv`), which counts sets of messages by their cardinality. `PongInv`: a PONG,
which has no deadline, fails only on a connection that is closed or has failed. The
proof has a lemma for each group of steps (`WriteMsgStep`, `TxLockStep`, `TxFlushStep`,
`TxSendStep`, `ReadCallStep`, `TakePrependedStep`, `ReadLineStep`, `ReadFailsStep`),
and lemmas about whole messages in a stream of units (`WholeGrows`, `Quotient`).

`NegotiateProofs` proves, for any finite set of capabilities with `sasl` in it, any
bounds on the sizes of requests and on refusals, and any ways to refuse a SASL
method (`CapsAssumption`, which is how the configuration's map comes out once
`Negotiate` has added `sasl`; `BoundsAssumption`, `StylesAssumption`):

- `TypeCorrect`, `NicknameReported` (`NickAgrees`), `CapsEnabledAgree` (`CapsAgree`),
  `NotLetInUnauthenticated` (`AuthenticatedIfGranted`), `NoCrossedAnswer`
  (`AnswersItsChallenge`) and `ExternalFirst` (`PasswordLast`, whatever the server's
  order of methods): the invariants the `negotiate` run checks.

Each of them compares what one side holds at the end with what the other did long
before, so `NegInv` (theorem `Invariance`) says where the difference is meanwhile:
in the client, in the server, or in one of the two streams between them. `NickInv`:
a nickname is waiting, refused or accepted, one at a time. `RegInv`: the server
leaves the capabilities only after the client has, and welcomes a client it has
answered in everything. `CapInv`: a capability is requested once, and its request or
its answer is on its way or counted (`CapStatus`). `SaslInv`: the server has what the
client wants of the method the client is in (`InTurn`), except after the client gave
the method up (`GivesUp`) and where a server that says 908 and then 904 has the second
refusal overtake the client's next attempt (`OneMore`, `Silent`). The proof has a
lemma for each action, and `*Keeps` lemmas for the steps that do not concern a part.

`AutojoinProofs` proves, for any configured channels and any number of connections and
of kicks, invitations and refusals (`BoundsAssumption`):

- `TypeCorrect` and `FirstConnectionView` (`ViewAgrees`): the invariants the `autojoin`
  run checks.

`ViewAgrees` speaks of moments when nothing is on its way, which a step leaves at
once. `JoinInv` (theorem `Invariance`) extends it to all others, on the first
connection while it is open: the last event about a channel that is not handled yet,
in the inbox or at hand, says what the server has, and without one the handler's
record does (`View`). `FreshInv` is what makes the reset on a reconnection harmless:
until the handler's loop has heard of the connection no JOIN was sent, so it has
nothing to forget. `LoopInv` keeps everything else away from the handler that could
make it forget: a second 001, and a disconnection. `UnbornInv` is the same for a bot
with no connection yet. On later connections `ViewAgrees` says nothing, as the
reconnection and the disconnection before it may then be handled in another order, or
late (section 4).

`NickProofs` proves, for any set of nicknames with the preferred one and its
replacement in it, any number of connections and of acts of the server, and any bound
on what is on its way (`NicksAssumption`, `BoundsAssumption`):

- `TypeCorrect`, `ServersNickKnown` (`NickKnown`) and `RetriesGoOn` (`KeepsTrying`):
  the invariants the `nick` run checks.

`NickInv` (theorem `Invariance`) again extends an agreement to the moments when
something is on its way. `NameInv`: the messages of a connection lead from one
nickname to another, change by change (`Leads`), and what the server has sent and
nobody read leads from the nickname known to the one it has. Known is what the main
loop is bringing to the handler's loop, else what that loop took and has yet to apply,
else `curNick` (`Known`); before the handler is told of a connection it is the one
chosen in negotiation. The invariant holds unless `rushed`: that a change is compared
with the right name (`Timely`) needs the loop to be ready for it. `ReadInv`: the main
loop may read the first message of a connection before it hands out the negotiation,
and no more, which is why no change is lost there. `TimerInv`: what stops the timer is
either followed by what sets it, or belongs to a connection that is gone. `LoopInv` is
the main loop's control. The order of the chains is `ChainsAssumption` of `Nick`: a fact
about the concrete handlers, in which no constant occurs, so that its evaluation by
TLC on the `nick` runs settles it; the provers cannot evaluate the fold that sorts
the handlers. The proof has lemmas for what an event passed on (`Passes`), a message read
(`Reads`) and a message said (`SpokenAfter`) do, and for `Leads` (`LeadsOn`,
`LeadsFrom`).

`HNTailProofs` proves, for any number of items, crashes and lost streams
(`BoundsAssumption`, `ItemsAssumption`):

- `TypeCorrect` and `NothingSkipped`: the invariants the `hntail` run checks;
- `RepeatsOnlyUnsaved`: its action property `OnlyUnsavedRepeated`;
- `PanicFree`: `NoPanic`, assuming that a pattern is configured. With only users
  configured it is false: that is the finding of the run `hntail_user`.

`NoneSkipped` speaks of the position in the database, and what is saved is what
the saver read some time before; so `TailInv` (theorem `Invariance`) follows a
position on its way. `OrderInv`: what the saver read is not beyond what was
processed, nor that beyond the tailer. `DoneInv`: everything up to a position that
may still be saved is done. `AuditInv`: nothing ahead of the tailer was looked at in
this life of the bot, which is what makes a repetition the work of a crash.
`LifeInv`: what is left when the process ends. The proof has a lemma for each
group of steps (`StreamStep`, `ReceiveStep`, `LoopStep`, `AuditStep`, `MarkStep`,
`SaverStep`, `CrashStep`, `StartStep`); that the end of the process keeps the
invariant, by a crash or a panic, is `EndsKeep`.

Only model-checked: liveness (`StopReleasesWaiters`, `NothingLeaks`,
`TerminatedCallsReturn`, `RequestedFinishes`, `CloseReleases`, `InviteAnswered`,
`DeliveryEnds`, `StopEnds`, `PositionSaved`, `CatchesUp`), the fairness part of
the refinement.

## 6. Not modelled

- `Dial`'s choice among URLs and TLS, logging callbacks, the truncation of long
  commands, base64, PASS and the other texts.
- The parser (`ircparse/`): a pure function on characters, which the models
  abstract from. That names match in one spelling is part of that.
- `config.go`: constructors without state.
- The registry: where `TxCommaSeparated` cuts a list, `InhibitDelivery`, which
  nothing sets, and services nobody provides, which the bot does not have.
- The announcements of the top list (`monLoop`, `onNewTopItem`) and its stream,
  which share no state with the tailing of new items.
- `SSEListener.Close` and the first response of `NewSSEListener`, which `loop`
  drops unread (its `res` is shadowed) and nobody closes: nothing calls the one, and
  the other changes nothing that is modelled.
- `Bot.Stop` in `Nick` and `HNTail`: it is in `Autojoin`.
