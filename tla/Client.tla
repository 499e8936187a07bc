------------------------------- MODULE Client -------------------------------
(***************************************************************************)
(* ircproto.Client (ircproto.go): the auto-reconnecting IRC client.        *)
(*                                                                         *)
(* One mutex covers the client's fields, so a critical section is one      *)
(* action; what runs outside the mutex (dialling, negotiating, reading and *)
(* writing, the canceller goroutines) is a process with a program counter: *)
(*                                                                         *)
(*   spawners    goroutines in snrLoop; ensureSpawner starts them.  There  *)
(*               is room for several, so that "only one runs" is a result. *)
(*   cancellers  the goroutine snrAttemptConnect starts for a connection.  *)
(*   callers     goroutines of the program that call ReadMsg and WriteMsg. *)
(*                                                                         *)
(* The network may fail a connection at any time.  MaxConn bounds the      *)
(* connections dialled; when it is reached every dial fails.               *)
(***************************************************************************)
EXTENDS Naturals

CONSTANTS Callers,    \* goroutines that use the client
          Spawners,   \* goroutine slots for snrLoop
          MaxConn     \* bound: connections that can be dialled

ASSUME MaxConnAssumption == MaxConn \in Nat
ASSUME SpawnersAssumption == Spawners # {}

VARIABLES
  state,       \* Client.state
  conn,        \* Client.conn, Nil when there is none
  negRes,      \* Client.negRes: the connection whose result it is
  prepend,     \* Client.prepend: the connection it reads from
  stopping,    \* Client.stopping
  snrRunning,  \* Client.snrRunning
  snrCtxDone,  \* Client.snrCtx has been cancelled
  snr,         \* where each spawner is in snrLoop
  attempt,     \* the connection a spawner is working on
  canceller,   \* where each connection's canceller goroutine is
  net,         \* each connection's transport
  dialled,     \* how many connections have been dialled
  caller,      \* where each caller is in ReadMsg or WriteMsg
  held         \* the connection a caller captured under the mutex

clientVars == <<state, conn, negRes, prepend, stopping>>
spawnVars == <<snrRunning, snrCtxDone, snr, attempt>>
netVars == <<canceller, net, dialled>>
callVars == <<caller, held>>
vars == <<clientVars, spawnVars, netVars, callVars>>

Nil == 0
Conns == 1..MaxConn

States == {"Connecting", "Active", "Terminated"}

SnrPCs == {"none", "start", "connect", "negotiate", "handoff", "emit",
           "failed", "backoff", "panicked"}

\* "spawned": not yet at its select.  "select": parked in it.  "closing": it
\* took the timeout or the cancellation and is about to close.  "retired": the
\* spawner told it that negotiation completed.
CancellerPCs == {"none", "spawned", "select", "closing", "done", "retired"}

\* "broken": the peer or the network failed it, but it is not closed locally.
NetStates == {"none", "open", "broken", "closed"}

CallerPCs == {"idle", "waiting", "woken", "reading", "writing", "failed"}

TypeOK ==
  /\ state \in States
  /\ conn \in Conns \cup {Nil}
  /\ negRes \in Conns \cup {Nil}
  /\ prepend \in Conns \cup {Nil}
  /\ stopping \in BOOLEAN
  /\ snrRunning \in BOOLEAN
  /\ snrCtxDone \in BOOLEAN
  /\ snr \in [Spawners -> SnrPCs]
  /\ attempt \in [Spawners -> Conns \cup {Nil}]
  /\ canceller \in [Conns -> CancellerPCs]
  /\ net \in [Conns -> NetStates]
  /\ dialled \in 0..MaxConn
  /\ caller \in [Callers -> CallerPCs]
  /\ held \in [Callers -> Conns \cup {Nil}]

\* New: the client starts out connecting, with its spawner started.
Init ==
  /\ state = "Connecting"
  /\ conn = Nil /\ negRes = Nil /\ prepend = Nil
  /\ stopping = FALSE
  /\ snrRunning = TRUE
  /\ snrCtxDone = FALSE
  /\ \E s \in Spawners :
       snr = [t \in Spawners |-> IF t = s THEN "start" ELSE "none"]
  /\ attempt = [s \in Spawners |-> Nil]
  /\ canceller = [c \in Conns |-> "none"]
  /\ net = [c \in Conns |-> "none"]
  /\ dialled = 0
  /\ caller = [p \in Callers |-> "idle"]
  /\ held = [p \in Callers |-> Nil]

-----------------------------------------------------------------------------
(* Helpers that run under the mutex.                                       *)

\* ensureSpawner: the compare-and-swap lets a spawner start while none runs.
EnsureSpawner ==
  IF snrRunning
  THEN UNCHANGED <<snr, snrRunning>>
  ELSE \E s \in Spawners : /\ snr[s] = "none"
                           /\ snr' = [snr EXCEPT ![s] = "start"]
                           /\ snrRunning' = TRUE

\* Fault: a client told to stop reconnects all the same.
AlwaysReconnect == "Connecting"

\* Fault: the client is left in a state nothing else knows.
LeftInLimbo == "Disconnected"

\* stopping' is the value close has just stored, or the unchanged one.
AfterFailure == IF stopping' THEN "Terminated" ELSE "Connecting"

\* Fault: a failure is acted upon whatever the state.
AnyState == TRUE
HaveConn == state = "Active"

\* Fault: the current connection is not closed.
ForgetConn == UNCHANGED net
CloseConn == net' = [c \in Conns |-> IF c = conn THEN "closed" ELSE net[c]]

\* notifyFailure: whatever connection is current is torn down.
NotifyFailure ==
  IF HaveConn
  THEN /\ CloseConn
       /\ conn' = Nil /\ negRes' = Nil /\ prepend' = Nil
       /\ state' = AfterFailure
       /\ IF state' = "Connecting" THEN EnsureSpawner
                                   ELSE UNCHANGED <<snr, snrRunning>>
  ELSE UNCHANGED <<state, conn, negRes, prepend, net, snr, snrRunning>>

\* Fault: nobody is woken.
NoBroadcast == UNCHANGED caller

\* cond.Broadcast
Broadcast ==
  caller' = [p \in Callers |->
               IF caller[p] = "waiting" THEN "woken" ELSE caller[p]]

\* Fault: waiters are not woken.
SnrTerminateSilently == stopping /\ state' = "Terminated" /\ UNCHANGED caller

\* snrTerminate, when it returns true.
SnrTerminate == stopping /\ state' = "Terminated" /\ Broadcast

-----------------------------------------------------------------------------
(* The program's calls.                                                    *)

\* cancel() closes the context's channel: every canceller parked in its
\* select takes that case; one that gets there later takes it at once.
CancelCtx ==
  /\ snrCtxDone' = TRUE
  /\ canceller' = [c \in Conns |->
                     IF canceller[c] = "select" THEN "closing"
                     ELSE canceller[c]]

\* Close (immediate) and Deprecate.
Close(immediate) ==
  /\ stopping' = TRUE
  /\ CancelCtx
  /\ IF immediate
     THEN NotifyFailure
     ELSE UNCHANGED <<state, conn, negRes, prepend, net, snr, snrRunning>>
  /\ UNCHANGED <<attempt, dialled, callVars>>

\* A caller moves and nothing else does.
CallerGoto(p, pc, c) ==
  /\ caller' = [caller EXCEPT ![p] = pc]
  /\ held' = [held EXCEPT ![p] = c]
  /\ UNCHANGED <<clientVars, spawnVars, netVars>>

\* Fault: an "if" for the "for": a woken caller does not look again.
WaitActiveOnce(p) ==
  \/ state = "Connecting" /\ caller[p] = "idle" /\ CallerGoto(p, "waiting", Nil)
  \/ state # "Terminated" /\ caller[p] = "woken" /\ CallerGoto(p, "reading", prepend)
  \/ state = "Terminated" /\ CallerGoto(p, "idle", Nil)

\* One turn of waitActive's loop, and ReadMsg's capture of prepend.  A
\* terminated client returns ErrDisconnected.
WaitActive(p) ==
  \/ state = "Connecting" /\ CallerGoto(p, "waiting", Nil)
  \/ state = "Active" /\ CallerGoto(p, "reading", prepend)
  \/ state = "Terminated" /\ CallerGoto(p, "idle", Nil)

ReadMsg(p) == caller[p] = "idle" /\ WaitActive(p)

\* A waiter that was broadcast to has the mutex again and loops.
Rewait(p) == caller[p] = "woken" /\ WaitActive(p)

\* WriteMsg does not wait: with no connection it returns ErrDisconnected,
\* which changes nothing.
WriteMsg(p) ==
  /\ caller[p] = "idle"
  /\ state = "Active"
  /\ CallerGoto(p, "writing", conn)

\* The I/O, outside the mutex.  Messages read during negotiation or buffered
\* are delivered whatever became of the connection; a write succeeds until
\* the connection is closed locally.
IOSucceeds(p) ==
  /\ \/ caller[p] = "reading"
     \/ caller[p] = "writing" /\ net[held[p]] # "closed"
  /\ CallerGoto(p, "idle", Nil)

\* The connection has failed or was closed, a message did not parse, or the
\* call's context expired.
IOFails(p) ==
  /\ caller[p] \in {"reading", "writing"}
  /\ CallerGoto(p, "failed", held[p])

\* Back under the mutex, ReadMsg or WriteMsg reports the failure.
ReportFailure(p) ==
  /\ caller[p] = "failed"
  /\ caller' = [caller EXCEPT ![p] = "idle"]
  /\ held' = [held EXCEPT ![p] = Nil]
  /\ UNCHANGED stopping
  /\ NotifyFailure
  /\ UNCHANGED <<snrCtxDone, attempt, canceller, dialled>>

-----------------------------------------------------------------------------
(* The spawner: snrLoop, snrAttemptConnect and snrEmitNewConn.             *)

SnrGoto(s, pc) == snr' = [snr EXCEPT ![s] = pc]

\* A spawner moves and nothing else does.
SnrOnly(s, pc) ==
  /\ SnrGoto(s, pc)
  /\ UNCHANGED <<clientVars, snrRunning, snrCtxDone, attempt, netVars, callVars>>

\* Fault: snrRunning is not cleared.
SnrReturnStillRunning(s) == SnrGoto(s, "none") /\ UNCHANGED snrRunning

\* The spawner returns; its deferred store clears snrRunning before the
\* deferred Unlock releases the mutex.
SnrReturn(s) == SnrGoto(s, "none") /\ snrRunning' = FALSE

\* The head of the loop, under the mutex.
SnrStart(s) ==
  /\ snr[s] = "start"
  /\ SnrOnly(s, IF state = "Connecting" THEN "connect" ELSE "panicked")

\* A configuration function failed, no URL could be dialled, or the context
\* is cancelled.
SnrDialFails(s) == snr[s] = "connect" /\ SnrOnly(s, "failed")

CanDial == dialled < MaxConn

SnrDialSucceeds(s) ==
  /\ snr[s] = "connect"
  /\ ~snrCtxDone
  /\ CanDial
  /\ dialled' = dialled + 1
  /\ attempt' = [attempt EXCEPT ![s] = dialled']
  /\ net' = [net EXCEPT ![dialled'] = "open"]
  /\ canceller' = [canceller EXCEPT ![dialled'] = "spawned"]
  /\ SnrGoto(s, "negotiate")
  /\ UNCHANGED <<clientVars, snrRunning, snrCtxDone, callVars>>

\* Negotiate read 001: the connection was not closed under it until then.
SnrNegotiated(s) ==
  /\ snr[s] = "negotiate"
  /\ net[attempt[s]] # "closed"
  /\ SnrOnly(s, "handoff")

\* Negotiate returned an error, after its draining reads met one too: the
\* connection failed, its reads found the context cancelled, or the server's
\* messages did not parse.  The canceller is left to its timeout.
SnrNegotiationFails(s) ==
  /\ snr[s] = "negotiate"
  /\ net' = [net EXCEPT ![attempt[s]] = "closed"]
  /\ attempt' = [attempt EXCEPT ![s] = Nil]
  /\ SnrGoto(s, "failed")
  /\ UNCHANGED <<clientVars, snrRunning, snrCtxDone, canceller, dialled, callVars>>

\* Fault: the canceller is not told, and its timeout goes on.
NeverTold(c) == UNCHANGED canceller

\* The canceller received from completedChan and returns.
Retire(c) == canceller' = [canceller EXCEPT ![c] = "retired"]

\* The send on completedChan does not block: it succeeds when the canceller is
\* parked in its select and has taken no other case.
SnrHandoff(s) ==
  /\ snr[s] = "handoff"
  /\ IF canceller[attempt[s]] = "select"
     THEN /\ SnrGoto(s, "emit")
          /\ Retire(attempt[s])
          /\ UNCHANGED attempt
     ELSE /\ SnrGoto(s, "failed")                   \* "late cancellation"
          /\ attempt' = [attempt EXCEPT ![s] = Nil]
          /\ UNCHANGED canceller
  /\ UNCHANGED <<clientVars, snrRunning, snrCtxDone, net, dialled, callVars>>

\* snrEmitNewConn, under the mutex, and the loop's exit.
SnrEmit(s) ==
  /\ snr[s] = "emit"
  /\ IF state # "Connecting" \/ conn # Nil
     THEN SnrOnly(s, "panicked")
     ELSE /\ SnrReturn(s)
          /\ attempt' = [attempt EXCEPT ![s] = Nil]
          /\ \/ /\ SnrTerminate      \* late termination
                /\ net' = [net EXCEPT ![attempt[s]] = "closed"]
                /\ UNCHANGED <<conn, negRes, prepend>>
             \/ /\ ~stopping
                /\ state' = "Active"
                /\ conn' = attempt[s]
                /\ negRes' = attempt[s]
                /\ prepend' = attempt[s]
                /\ Broadcast
                /\ UNCHANGED net
          /\ UNCHANGED <<stopping, snrCtxDone, canceller, dialled, held>>

\* After a failed attempt, under the mutex: terminate or back off.
SnrFailed(s) ==
  /\ snr[s] = "failed"
  /\ \/ /\ SnrTerminate
        /\ SnrReturn(s)
        /\ UNCHANGED <<conn, negRes, prepend, stopping, snrCtxDone, attempt, netVars, held>>
     \/ ~stopping /\ SnrOnly(s, "backoff")

\* The sleep ends by itself only: no cancellation cuts it short.
SnrBackoffEnds(s) == snr[s] = "backoff" /\ SnrOnly(s, "start")

-----------------------------------------------------------------------------
(* The canceller goroutine of connection c, and the network.               *)

CancellerGoto(c, pc) ==
  /\ canceller' = [canceller EXCEPT ![c] = pc]
  /\ UNCHANGED <<clientVars, spawnVars, dialled, callVars>>

CancellerSelects(c) ==
  /\ canceller[c] = "spawned"
  /\ CancellerGoto(c, IF snrCtxDone THEN "closing" ELSE "select")
  /\ UNCHANGED net

\* Three minutes have passed.
CancellerTimesOut(c) ==
  /\ canceller[c] = "select"
  /\ CancellerGoto(c, "closing")
  /\ UNCHANGED net

\* Fault: the canceller does not close the connection.
CancellerForgets(c) ==
  canceller[c] = "closing" /\ CancellerGoto(c, "done") /\ UNCHANGED net

CancellerCloses(c) ==
  /\ canceller[c] = "closing"
  /\ CancellerGoto(c, "done")
  /\ net' = [net EXCEPT ![c] = "closed"]

NetFails(c) ==
  /\ net[c] = "open"
  /\ net' = [net EXCEPT ![c] = "broken"]
  /\ UNCHANGED <<clientVars, spawnVars, canceller, dialled, callVars>>

-----------------------------------------------------------------------------
Calls ==
  \/ \E immediate \in BOOLEAN : Close(immediate)
  \/ \E p \in Callers : \/ ReadMsg(p) \/ Rewait(p) \/ WriteMsg(p)
                        \/ IOSucceeds(p) \/ IOFails(p) \/ ReportFailure(p)

SpawnerSteps ==
  \E s \in Spawners :
     \/ SnrStart(s) \/ SnrDialFails(s) \/ SnrDialSucceeds(s)
     \/ SnrNegotiated(s) \/ SnrNegotiationFails(s) \/ SnrHandoff(s)
     \/ SnrEmit(s) \/ SnrFailed(s) \/ SnrBackoffEnds(s)

NetSteps ==
  \E c \in Conns : \/ CancellerSelects(c) \/ CancellerTimesOut(c)
                   \/ CancellerCloses(c) \/ NetFails(c)

Next == Calls \/ SpawnerSteps \/ NetSteps

\* What the Go scheduler and the timers guarantee: a goroutine that can run
\* runs, a dial and a sleep end, the canceller's timer fires, and I/O on a
\* connection that has failed or was closed returns.  Nothing is assumed of
\* the peer, nor that the program calls anything.
Doomed(c) == c # Nil /\ (net[c] # "open" \/ snrCtxDone)

SpawnerProgress(s) ==
  \/ SnrStart(s) \/ SnrDialFails(s) \/ SnrDialSucceeds(s) \/ SnrHandoff(s)
  \/ SnrEmit(s) \/ SnrFailed(s) \/ SnrBackoffEnds(s)
  \/ Doomed(attempt[s]) /\ SnrNegotiationFails(s)

CancellerProgress(c) ==
  CancellerSelects(c) \/ CancellerTimesOut(c) \/ CancellerCloses(c)

CallerProgress(p) ==
  \/ Rewait(p) \/ ReportFailure(p)
  \/ held[p] # Nil /\ net[held[p]] # "open" /\ IOFails(p)

Fairness ==
  /\ \A s \in Spawners : WF_vars(SpawnerProgress(s))
  /\ \A c \in Conns : WF_vars(CancellerProgress(c))
  /\ \A p \in Callers : WF_vars(CallerProgress(p))

Spec == Init /\ [][Next]_vars /\ Fairness

-----------------------------------------------------------------------------
(* Safety.                                                                 *)

\* Neither of the spawner's two panics ("not in connecting state", "should
\* not be an existing conn") is reachable, however calls, failures and
\* reconnections interleave.
NoPanic == \A s \in Spawners : snr[s] # "panicked"

\* The client is connecting exactly while one spawner works on it: there is
\* never a connecting client nobody connects, nor two spawners for one client.
SpawnerIffConnecting ==
  /\ (state = "Connecting") <=> snrRunning
  /\ snrRunning => \E s \in Spawners : snr[s] # "none"
  /\ \A s \in Spawners : snr[s] # "none" =>
       snrRunning /\ \A t \in Spawners \ {s} : snr[t] = "none"

\* The connection the client hands out belongs to it alone: it was negotiated,
\* nothing on our side has closed it, and the canceller of its attempt can no
\* longer do so.  Its negotiation result and message source are its own.
CurrentConnOwned ==
  /\ (state = "Active") <=> (conn # Nil)
  /\ negRes = conn /\ prepend = conn
  /\ conn # Nil => net[conn] \in {"open", "broken"} /\ canceller[conn] = "retired"

\* A caller is parked on the condition variable only while there is something
\* to wait for: no change of state leaves a sleeper behind.
NoLostWakeup ==
  \A p \in Callers : caller[p] = "waiting" => state = "Connecting"

\* A caller whose I/O runs outside the mutex holds a connection that was made,
\* whatever happened to the client since: woken waiters look again.
NoNilIO ==
  \A p \in Callers :
    caller[p] \in {"reading", "writing", "failed"} =>
      held[p] # Nil /\ net[held[p]] # "none"

(* Liveness.                                                               *)

\* Once the program has asked the client to stop, no reader sleeps on forever
\* waiting for a connection that will not be made.
StopReleasesWaiters ==
  \A p \in Callers :
    stopping /\ caller[p] = "waiting" ~> caller[p] # "waiting"

\* Every transport that was opened and is not in service is closed in the end,
\* also when its attempt was given up as "late cancellation".
NothingLeaks ==
  \A c \in Conns :
    net[c] \in {"open", "broken"} ~> net[c] = "closed" \/ conn = c

\* A terminated client lets every call return.
TerminatedCallsReturn ==
  \A p \in Callers : state = "Terminated" /\ caller[p] # "idle" ~> caller[p] = "idle"

\* The client implements the promise made to the program.
RC == INSTANCE ReconnectingClient WITH
        Sessions <- Conns, NoSession <- Nil,
        phase <- state, session <- conn, stop <- stopping

KeepsPromise == RC!ASpec

\* Its part without fairness.
PromiseSafety == RC!AInit /\ [][RC!ANext]_(RC!avars)

(* What comments in the source say of it.                                  *)

\* ircproto.go:169: notifyFailure is called when the "Current connection has
\* failed": a caller that reports a failure tears down only the connection its
\* own I/O failed on.
OwnFailureOnly ==
  [][\A p \in Callers :
       caller[p] = "failed" /\ caller'[p] = "idle" /\ conn # Nil /\ conn' = Nil
         => held[p] = conn]_vars
=============================================================================
