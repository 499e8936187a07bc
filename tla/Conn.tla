-------------------------------- MODULE Conn --------------------------------
(***************************************************************************)
(* ircconn.Conn (ircconn/ircconn.go) and the message source in front of it *)
(* (prependSource, ircconn/abs.go): several goroutines write messages and  *)
(* several read them, PINGs are answered by whoever reads them, and the    *)
(* connection is closed at any time.                                       *)
(*                                                                         *)
(* A message is Size units on the wire, the last of which ends the line.   *)
(* A unit is <<message, index>>.  A call of the transport is one action;   *)
(* it may move fewer units than asked for, and then fails.                 *)
(***************************************************************************)
EXTENDS Naturals, Sequences, SequencesExt, FiniteSets

CONSTANTS
  Writers,    \* goroutines that call WriteMsg
  Readers,    \* goroutines that call ReadMsg
  MaxMsgs,    \* bound: messages written, as many PONGs as PINGs among them
  Size,       \* units of a message
  Incoming,   \* the lines the server sends: "PING", "MSG", or "BAD", which does
              \* not parse
  Prepended   \* how many messages the source yields before the connection's

ASSUME SizeAssumption == Size \in Nat \ {0} /\ MaxMsgs \in Nat /\ Prepended \in Nat

VARIABLES
  teardown,    \* Conn.teardown
  net,         \* the transport: "open", "broken" or "closed"
  writeMutex, readMutex, pMutex,  \* who holds each, or Nobody
  residual,    \* Conn.bresidual
  wire,        \* what the transport has taken so far
  tx,          \* where each goroutine is in txMsg
  txMsg,       \* the message it is writing
  owner,       \* who wrote each message passed to WriteMsg so far
  outcome,     \* what WriteMsg returned for each
  rx,          \* where each reader is in ReadMsg
  msgs,        \* prependSource.msgs: how many are left
  doneMsgs,    \* prependSource.doneMsgs
  arrived,     \* units received from the server
  consumed,    \* units taken out of the buffered reader
  got,         \* the spans <<first, last>> of units returned as lines, and 0 for
               \* a prepended message
  torn         \* history: lines in whose middle a read failed

txVars == <<writeMutex, residual, wire, tx, txMsg, owner, outcome>>
rxVars == <<readMutex, pMutex, rx, msgs, doneMsgs, consumed, got, torn>>
netVars == <<teardown, net, arrived>>
vars == <<txVars, rxVars, netVars>>

Procs == Writers \cup Readers
Nobody == "nobody"
Msgs == 1..MaxMsgs
Units(m) == [i \in 1..Size |-> <<m, i>>]
Total == Size * Len(Incoming)

\* Room is kept for the PONGs, so that the bound never stops a reader.
Pings == Cardinality({i \in DOMAIN Incoming : Incoming[i] = "PING"})

ASSUME ProcsAssumption ==
  Writers \cap Readers = {} /\ IsFiniteSet(Readers) /\ Nobody \notin Procs
ASSUME IncomingAssumption == Incoming \in Seq({"PING", "MSG", "BAD"}) /\ Pings <= MaxMsgs

TypeOK ==
  /\ teardown \in BOOLEAN
  /\ net \in {"open", "broken", "closed"}
  /\ writeMutex \in Procs \cup {Nobody}
  /\ readMutex \in Readers \cup {Nobody}
  /\ pMutex \in Readers \cup {Nobody}
  /\ residual \in Seq(Msgs \X (1..Size)) /\ Len(residual) < Size
  /\ wire \in Seq(Msgs \X (1..Size))
  /\ tx \in [Procs -> {"idle", "lock", "flush", "send"}]
  /\ txMsg \in [Procs -> 0..MaxMsgs]
  /\ owner \in Seq(Procs) /\ Len(owner) <= MaxMsgs
  /\ outcome \in [Msgs -> {"none", "ok", "error"}]
  /\ rx \in [Readers -> {"idle", "plock", "prepended", "rlock", "reading", "ping", "pong"}]
  /\ msgs \in 0..Prepended
  /\ doneMsgs \in BOOLEAN
  /\ arrived \in 0..Total /\ consumed \in 0..arrived
  /\ torn \subseteq DOMAIN Incoming

Init ==
  /\ teardown = FALSE
  /\ net = "open"
  /\ writeMutex = Nobody /\ readMutex = Nobody /\ pMutex = Nobody
  /\ residual = <<>> /\ wire = <<>>
  /\ tx = [p \in Procs |-> "idle"]
  /\ txMsg = [p \in Procs |-> 0]
  /\ owner = <<>>
  /\ outcome = [m \in Msgs |-> "none"]
  /\ rx = [r \in Readers |-> "idle"]
  /\ msgs = Prepended
  /\ doneMsgs = FALSE
  /\ arrived = 0 /\ consumed = 0
  /\ got = <<>>
  /\ torn = {}

-----------------------------------------------------------------------------
(* Writing: WriteMsg and txMsg.                                            *)

\* Fault: a PONG has the reader's deadline.
AllHaveDeadlines(p) == TRUE

\* Only a PONG is written without a deadline.
HasDeadline(p) == p \in Writers

\* A transport call may come up short on a deadline or a dead transport.
MayFail(p) == HasDeadline(p) \/ net # "open"

\* Fault: an early return keeps the mutex.
UnlockForgotten(p) == UNCHANGED writeMutex
Unlock(p) == writeMutex' = IF writeMutex = p THEN Nobody ELSE writeMutex

\* txMsg returns to its caller.
Return(p, result) ==
  /\ tx' = [tx EXCEPT ![p] = "idle"]
  /\ outcome' = [outcome EXCEPT ![txMsg[p]] = result]
  /\ Unlock(p)

\* WriteMsg serialises a message (a PONG for a reader) and calls txMsg, which
\* looks at teardown before it takes the mutex.
WriteMsg(p) ==
  /\ tx[p] = "idle"
  /\ IF p \in Readers THEN rx[p] = "ping" ELSE Len(owner) + Pings < MaxMsgs
  /\ owner' = Append(owner, p)
  /\ txMsg' = [txMsg EXCEPT ![p] = Len(owner')]
  /\ IF teardown
     THEN outcome' = [outcome EXCEPT ![Len(owner')] = "error"] /\ UNCHANGED tx
     ELSE tx' = [tx EXCEPT ![p] = "lock"] /\ UNCHANGED outcome
  /\ rx' = IF p \in Readers THEN [rx EXCEPT ![p] = "pong"] ELSE rx
  /\ UNCHANGED <<writeMutex, residual, wire, netVars, readMutex, pMutex, msgs,
                 doneMsgs, consumed, got, torn>>

\* Fault: the rest of an earlier message is overtaken.
SkipFlush == "send"
FlushFirst == IF residual = <<>> THEN "send" ELSE "flush"

\* Under the mutex, updateWriteDeadline fails when the context has expired.
TxLock(p) ==
  /\ tx[p] = "lock"
  /\ writeMutex = Nobody
  /\ \/ HasDeadline(p) /\ Return(p, "error")
     \/ /\ writeMutex' = p
        /\ tx' = [tx EXCEPT ![p] = FlushFirst]
        /\ UNCHANGED outcome
  /\ UNCHANGED <<residual, wire, txMsg, owner, rxVars, netVars>>

\* A transport call with the units of s takes the first n of them; fewer than
\* all come with an error, all of them may come with one.
Takes(p, s, n, err) ==
  /\ n < Len(s) => err
  /\ n > 0 => net # "closed"
  /\ err => MayFail(p)
  /\ wire' = wire \o SubSeq(s, 1, n)

\* Faults: the rest is dropped; all of it is kept, what was taken included.
DropRest(s, n) == <<>>
KeepAll(s, n) == s
RestOf(s, n) == SubSeq(s, n + 1, Len(s))

\* The rest of an earlier message goes first.
TxFlush(p) ==
  /\ tx[p] = "flush"
  /\ \E n \in 0..Len(residual), err \in BOOLEAN :
       /\ Takes(p, residual, n, err)
       /\ residual' = RestOf(residual, n)
       /\ IF err
          THEN Return(p, "error")
          ELSE tx' = [tx EXCEPT ![p] = "send"] /\ UNCHANGED <<writeMutex, outcome>>
  /\ UNCHANGED <<txMsg, owner, rxVars, netVars>>

\* A message cut short is reported as written, and its rest kept.
TxSend(p) ==
  /\ tx[p] = "send"
  /\ \E n \in 0..Size, err \in BOOLEAN :
       /\ Takes(p, Units(txMsg[p]), n, err)
       /\ residual' = IF n > 0 THEN RestOf(Units(txMsg[p]), n) ELSE residual
       /\ Return(p, IF err /\ n \in {0, Size} THEN "error" ELSE "ok")
  /\ UNCHANGED <<txMsg, owner, rxVars, netVars>>

-----------------------------------------------------------------------------
(* Reading: prependSource.ReadMsg, rxMsg and rxMsgActualInner.             *)

RxGoto(r, pc) == rx' = [rx EXCEPT ![r] = pc]

\* ReadMsg returns; the source's mutex is released if held.
RxReturn(r) ==
  /\ RxGoto(r, "idle")
  /\ pMutex' = IF pMutex = r THEN Nobody ELSE pMutex

\* The source goes straight to the connection once its messages are done.
ReadMsg(r) ==
  /\ rx[r] = "idle"
  /\ RxGoto(r, IF doneMsgs THEN "rlock" ELSE "plock")
  /\ UNCHANGED <<txVars, netVars, readMutex, pMutex, msgs, doneMsgs, consumed, got, torn>>

PLock(r) ==
  /\ rx[r] = "plock"
  /\ pMutex = Nobody
  /\ pMutex' = r
  /\ RxGoto(r, "prepended")
  /\ UNCHANGED <<txVars, netVars, readMutex, msgs, doneMsgs, consumed, got, torn>>

\* Fault: the source gives up with one message left.
OneLeft == msgs <= 1
SourceEmpty == msgs = 0

\* Under the mutex: the next message, or with none left the connection, while
\* the mutex is held.
TakePrepended(r) ==
  /\ rx[r] = "prepended"
  /\ IF SourceEmpty
     THEN /\ doneMsgs' = TRUE
          /\ RxGoto(r, "rlock")
          /\ UNCHANGED <<msgs, got, pMutex>>
     ELSE /\ msgs' = msgs - 1
          /\ got' = Append(got, <<0, Prepended - msgs>>)
          /\ RxReturn(r)
          /\ UNCHANGED doneMsgs
  /\ UNCHANGED <<txVars, netVars, readMutex, consumed, torn>>

\* The read mutex, and a look at the context.
RLock(r) ==
  /\ rx[r] = "rlock"
  /\ readMutex = Nobody
  /\ \/ readMutex' = r /\ RxGoto(r, "reading") /\ UNCHANGED pMutex
     \/ RxReturn(r) /\ UNCHANGED readMutex
  /\ UNCHANGED <<txVars, netVars, msgs, doneMsgs, consumed, got, torn>>

\* The line that starts, or goes on, after what was consumed.
Line == (consumed \div Size) + 1
LineEnd == Line * Size
WholeLine == consumed % Size = 0

\* Parse yields a message.  What is left of a line that lost its beginning may
\* parse or not.
MayParse == IF WholeLine THEN {Incoming[Line] # "BAD"} ELSE BOOLEAN

\* Fault: a PING is left to the caller.
NoAnswer == FALSE
IsPing == WholeLine /\ Incoming[Line] = "PING"

\* ReadString has a line.  One that does not parse is an error to the caller; a
\* PING is answered before it is returned.
ReadLine(r) ==
  /\ rx[r] = "reading"
  /\ LineEnd <= arrived
  /\ consumed' = LineEnd
  /\ \E parsed \in MayParse :
       got' = IF parsed THEN Append(got, <<consumed + 1, LineEnd>>) ELSE got
  /\ readMutex' = Nobody
  /\ IF IsPing
     THEN RxGoto(r, "ping") /\ UNCHANGED pMutex
     ELSE RxReturn(r)
  /\ UNCHANGED <<txVars, netVars, msgs, doneMsgs, torn>>

\* Fault: the reader is replaced, with all that it has buffered.
AllArrived == {arrived}

\* Where a read that fails leaves off: what the buffered reader has of the line by
\* then is returned with the error, and dropped.
MidLine == {c \in consumed..arrived : c < LineEnd}

\* The deadline passed, or the transport failed.
ReadFails(r) ==
  /\ rx[r] = "reading"
  /\ consumed' \in MidLine
  /\ torn' = IF consumed' % Size = 0 THEN torn ELSE torn \cup {Line}
  /\ readMutex' = Nobody
  /\ RxReturn(r)
  /\ UNCHANGED <<txVars, netVars, msgs, doneMsgs, got>>

\* The PONG has been written, or could not be, and ReadMsg returns the error.
PongDone(r) ==
  /\ rx[r] = "pong"
  /\ tx[r] = "idle"
  /\ RxReturn(r)
  /\ UNCHANGED <<txVars, netVars, readMutex, msgs, doneMsgs, consumed, got, torn>>

-----------------------------------------------------------------------------
(* Closing, and the network.                                               *)

\* Close wins the compare-and-swap ...
CloseFlag ==
  /\ ~teardown
  /\ teardown' = TRUE
  /\ UNCHANGED <<net, arrived, txVars, rxVars>>

\* ... and then closes the transport.
CloseTransport ==
  /\ teardown
  /\ net # "closed"
  /\ net' = "closed"
  /\ UNCHANGED <<teardown, arrived, txVars, rxVars>>

NetFails ==
  /\ net = "open"
  /\ net' = "broken"
  /\ UNCHANGED <<teardown, arrived, txVars, rxVars>>

Arrive ==
  /\ net = "open"
  /\ arrived < Total
  /\ arrived' = arrived + 1
  /\ UNCHANGED <<teardown, net, txVars, rxVars>>

-----------------------------------------------------------------------------
TxStep(p) == TxLock(p) \/ TxFlush(p) \/ TxSend(p)

RxStep(r) ==
  \/ PLock(r) \/ TakePrepended(r) \/ RLock(r) \/ ReadLine(r) \/ PongDone(r)
  \/ ReadFails(r)

Next ==
  \/ \E p \in Procs : WriteMsg(p) \/ TxStep(p)
  \/ \E r \in Readers : ReadMsg(r) \/ RxStep(r)
  \/ CloseFlag \/ CloseTransport \/ NetFails \/ Arrive

\* A goroutine that can run runs, a Close that has begun ends, and a call of a
\* dead transport returns.  A mutex that is free again and again is had in the
\* end (sync.Mutex does not starve).  The peer owes us nothing, and nobody has
\* to call.
Fairness ==
  /\ \A p \in Procs :
       /\ WF_vars((net # "open" \/ tx[p] = "lock") /\ TxStep(p))
       /\ SF_vars(TxLock(p))
  /\ \A r \in Readers :
       /\ WF_vars(WriteMsg(r) \/ ((net # "open" \/ rx[r] # "reading") /\ RxStep(r)))
       /\ SF_vars(PLock(r) \/ RLock(r))
  /\ WF_vars(CloseTransport)

Spec == Init /\ [][Next]_vars /\ Fairness

-----------------------------------------------------------------------------
\* What the transport has taken, and what is left to complete.
Stream == wire \o residual
Blocks == Len(Stream) \div Size
Block(i) == Stream[i * Size][1]

\* Every message on the wire is whole, uninterrupted by another, once the rest
\* kept back has followed: partial writes never mix two commands.
Framed ==
  /\ Len(Stream) % Size = 0
  /\ \A i \in 1..Blocks : SubSeq(Stream, (i - 1) * Size + 1, i * Size) = Units(Block(i))

\* A message reported as written is on its way exactly once, and none is there
\* twice, not even one reported as failed.
AcceptedOnce ==
  /\ \A m \in Msgs : outcome[m] = "ok" => \E i \in 1..Blocks : Block(i) = m
  /\ \A i, j \in 1..Blocks : Block(i) = Block(j) => i = j

\* What is on its way stays on its way: no write overtakes the rest of an
\* earlier message or discards it.
NothingTakenBack == [][IsPrefix(Stream, Stream')]_vars

\* The messages of the source come first, each once and in order, before any
\* reader gets one from the connection.
PrependedFirst ==
  \A i \in DOMAIN got : IF i <= Prepended THEN got[i] = <<0, i - 1>> ELSE got[i][1] > 0

\* The lines returned that came from the connection, and the span of the nth.
FromConn == {i \in DOMAIN got : got[i][1] > 0}
Span(n) == <<(n - 1) * Size + 1, n * Size>>

\* Readers get the server's lines each once and in order, and a read that fails
\* costs at most the line it failed in: what is returned is a whole line or the
\* rest of that one, and every other line that parses is returned.
LinesWhole ==
  /\ \A i, j \in FromConn : i < j => got[i][2] < got[j][1]
  /\ \A i \in FromConn : \E n \in DOMAIN Incoming :
       got[i] = Span(n) \/ (n \in torn /\ got[i][2] = n * Size /\ got[i][1] > (n - 1) * Size + 1)
  /\ \A n \in 1..consumed \div Size :
       n \in torn \/ Incoming[n] = "BAD" \/ \E i \in FromConn : got[i] = Span(n)

\* As many PONGs were passed to WriteMsg, or are about to be, as PINGs returned.
EachAnswered ==
  Cardinality({i \in DOMAIN got : got[i][1] > 0 /\ got[i][1] % Size = 1 % Size
                                  /\ Incoming[got[i][2] \div Size] = "PING"})
    = Cardinality({i \in DOMAIN owner : owner[i] \in Readers})
      + Cardinality({r \in Readers : rx[r] = "ping"})

PongsGoOut ==
  \A m \in DOMAIN owner :
    owner[m] \in Readers /\ outcome[m] = "error" => teardown \/ net # "open"

\* Every PING returned, and no other line, has been or is being answered, and the
\* answer fails only on a connection that is closed or has failed.
PingsAnswered == EachAnswered /\ PongsGoOut

\* After Close every call returns, also those queued behind the mutexes of a
\* call that was blocked in the transport.
CloseReleases ==
  /\ \A p \in Procs : teardown /\ tx[p] # "idle" ~> tx[p] = "idle"
  /\ \A r \in Readers : teardown /\ rx[r] # "idle" ~> rx[r] = "idle"
=============================================================================
