---------------------------- MODULE ClientProofs ----------------------------
(* Proofs about Client, for every number of callers, spawner slots and     *)
(* connections.                                                            *)
EXTENDS Client, TLAPS

\* Connections come into being in the order they are dialled, each with its
\* canceller.
DialOrder ==
  \A c \in Conns : /\ (net[c] = "none") <=> (c > dialled)
                   /\ (net[c] = "none") <=> (canceller[c] = "none")

\* A spawner has a connection exactly while it works on one; only the canceller
\* can have closed it, and has let go of it when it is about to be published.
AttemptInv ==
  \A s \in Spawners :
    /\ snr[s] \in {"negotiate", "handoff", "emit"} <=> attempt[s] # Nil
    /\ attempt[s] # Nil => /\ net[attempt[s]] # "none"
                           /\ net[attempt[s]] = "closed" => canceller[attempt[s]] = "done"
    /\ snr[s] = "emit" => canceller[attempt[s]] = "retired"

\* The inductive invariant.
ClientInv ==
  /\ TypeOK
  /\ SpawnerIffConnecting
  /\ CurrentConnOwned
  /\ NoLostWakeup
  /\ NoNilIO
  /\ NoPanic
  /\ DialOrder
  /\ AttemptInv

\* The types hold initially.
LEMMA TypeInit == Init => TypeOK
<1> SUFFICES ASSUME Init
             PROVE  TypeOK
  OBVIOUS
<1>1. snr \in [Spawners -> SnrPCs]
  <2>1. PICK s \in Spawners :
          snr = [t \in Spawners |-> IF t = s THEN "start" ELSE "none"]
    BY DEF Init
  <2>2. QED
    BY <2>1 DEF SnrPCs
<1>2. /\ canceller \in [Conns -> CancellerPCs]
      /\ net \in [Conns -> NetStates]
      /\ caller \in [Callers -> CallerPCs]
  BY DEF Init, CancellerPCs, NetStates, CallerPCs
<1>3. /\ attempt \in [Spawners -> Conns \cup {Nil}]
      /\ held \in [Callers -> Conns \cup {Nil}]
      /\ 0 \in 0..MaxConn
  BY MaxConnAssumption DEF Init
<1>4. QED
  BY <1>1, <1>2, <1>3, Zenon DEF Init, TypeOK, States

\* Every step of the program, the spawner, the cancellers and the network keeps
\* the types.
LEMMA TypeStep == TypeOK /\ [Next]_vars => TypeOK'
<1> SUFFICES ASSUME TypeOK, [Next]_vars
             PROVE  TypeOK'
  OBVIOUS
<1> USE MaxConnAssumption
    DEF TypeOK, Conns, Nil, States, SnrPCs, CancellerPCs, NetStates, CallerPCs
<1>1. ASSUME NEW immediate \in BOOLEAN, Close(immediate)
      PROVE  TypeOK'
  BY <1>1 DEF Close, CancelCtx, NotifyFailure, HaveConn, CloseConn,
              AfterFailure, EnsureSpawner, callVars
<1>2. ASSUME NEW p \in Callers,
             ReadMsg(p) \/ Rewait(p) \/ WriteMsg(p) \/ IOSucceeds(p) \/ IOFails(p)
      PROVE  TypeOK'
  <2>1. CASE ReadMsg(p)
    BY <2>1 DEF ReadMsg, WaitActive, CallerGoto, clientVars, spawnVars, netVars
  <2>2. CASE Rewait(p)
    BY <2>2 DEF Rewait, WaitActive, CallerGoto, clientVars, spawnVars, netVars
  <2>3. CASE WriteMsg(p)
    BY <2>3 DEF WriteMsg, CallerGoto, clientVars, spawnVars, netVars
  <2>4. CASE IOSucceeds(p)
    BY <2>4 DEF IOSucceeds, CallerGoto, clientVars, spawnVars, netVars
  <2>5. CASE IOFails(p)
    BY <2>5 DEF IOFails, CallerGoto, clientVars, spawnVars, netVars
  <2>6. QED
    BY <1>2, <2>1, <2>2, <2>3, <2>4, <2>5
<1>3. ASSUME NEW p \in Callers, ReportFailure(p)
      PROVE  TypeOK'
  <2>1. caller' \in [Callers -> CallerPCs] /\ held' \in [Callers -> Conns \cup {Nil}]
    BY <1>3 DEF ReportFailure
  <2>2. /\ state' \in States /\ net' \in [Conns -> NetStates]
        /\ {conn', negRes', prepend'} \subseteq Conns \cup {Nil}
    BY <1>3 DEF ReportFailure, NotifyFailure, HaveConn, CloseConn, AfterFailure
  <2>3. snr' \in [Spawners -> SnrPCs] /\ snrRunning' \in BOOLEAN
    BY <1>3 DEF ReportFailure, NotifyFailure, EnsureSpawner
  <2>4. UNCHANGED <<stopping, snrCtxDone, attempt, canceller, dialled>>
    BY <1>3 DEF ReportFailure
  <2>5. QED
    BY <2>1, <2>2, <2>3, <2>4
<1>4. ASSUME NEW s \in Spawners,
             SnrStart(s) \/ SnrDialFails(s) \/ SnrNegotiated(s) \/ SnrBackoffEnds(s)
      PROVE  TypeOK'
  BY <1>4 DEF SnrStart, SnrDialFails, SnrNegotiated, SnrBackoffEnds, SnrOnly,
              SnrGoto, clientVars, netVars, callVars
<1>5. ASSUME NEW s \in Spawners,
             SnrDialSucceeds(s) \/ SnrNegotiationFails(s) \/ SnrHandoff(s)
      PROVE  TypeOK'
  <2>1. CASE SnrDialSucceeds(s)
    <3>1. dialled' = dialled + 1 /\ dialled' \in Conns
      BY <2>1 DEF SnrDialSucceeds, CanDial
    <3>2. QED
      BY <2>1, <3>1 DEF SnrDialSucceeds, SnrGoto, clientVars, callVars
  <2>2. CASE SnrNegotiationFails(s)
    BY <2>2 DEF SnrNegotiationFails, SnrGoto, clientVars, callVars
  <2>3. CASE SnrHandoff(s)
    BY <2>3 DEF SnrHandoff, Retire, SnrGoto, clientVars, callVars
  <2>4. QED
    BY <1>5, <2>1, <2>2, <2>3
<1>6. ASSUME NEW s \in Spawners, SnrEmit(s) \/ SnrFailed(s)
      PROVE  TypeOK'
  <2> DEFINE CallerOK == caller' \in [Callers -> CallerPCs]
  <2>a. Broadcast => CallerOK
    BY DEF Broadcast
  <2> HIDE DEF CallerOK
  <2>1. CASE SnrEmit(s)
    <3>1. CASE state # "Connecting" \/ conn # Nil
      BY <2>1, <3>1 DEF SnrEmit, SnrOnly, SnrGoto, clientVars, netVars, callVars
    <3>2. CASE ~(state # "Connecting" \/ conn # Nil)
      <4>1. /\ snr' = [snr EXCEPT ![s] = "none"]
            /\ snrRunning' = FALSE
            /\ attempt' = [attempt EXCEPT ![s] = Nil]
            /\ UNCHANGED <<stopping, snrCtxDone, canceller, dialled, held>>
            /\ Broadcast
        BY <2>1, <3>2 DEF SnrEmit, SnrReturn, SnrGoto, SnrTerminate
      <4>2. /\ state' \in States
            /\ conn' \in Conns \cup {Nil}
            /\ negRes' \in Conns \cup {Nil}
            /\ prepend' \in Conns \cup {Nil}
            /\ net' \in [Conns -> NetStates]
        BY <2>1, <3>2 DEF SnrEmit, SnrTerminate
      <4>3. QED
        BY <4>1, <4>2, <2>a DEF CallerOK
    <3>3. QED
      BY <3>1, <3>2
  <2>2. CASE SnrFailed(s)
    BY <2>2, <2>a DEF SnrFailed, SnrTerminate, SnrReturn, SnrOnly,
                SnrGoto, clientVars, netVars, callVars, CallerOK
  <2>3. QED
    BY <1>6, <2>1, <2>2
<1>7. ASSUME NEW c \in Conns,
             \/ CancellerSelects(c) \/ CancellerTimesOut(c)
             \/ CancellerCloses(c) \/ NetFails(c)
      PROVE  TypeOK'
  <2>1. CASE CancellerSelects(c)
    BY <2>1 DEF CancellerSelects, CancellerGoto, clientVars, spawnVars, callVars
  <2>2. CASE CancellerTimesOut(c)
    BY <2>2 DEF CancellerTimesOut, CancellerGoto, clientVars, spawnVars, callVars
  <2>3. CASE CancellerCloses(c)
    BY <2>3 DEF CancellerCloses, CancellerGoto, clientVars, spawnVars, callVars
  <2>4. CASE NetFails(c)
    BY <2>4 DEF NetFails, clientVars, spawnVars, callVars
  <2>5. QED
    BY <1>7, <2>1, <2>2, <2>3, <2>4
<1>8. CASE UNCHANGED vars
  BY <1>8 DEF vars, clientVars, spawnVars, netVars, callVars
<1>9. QED
  BY <1>1, <1>2, <1>3, <1>4, <1>5, <1>6, <1>7, <1>8
  DEF Next, Calls, SpawnerSteps, NetSteps

\* The fields of Client, and the positions of its goroutines, keep their types
\* in every behaviour.
THEOREM TypeCorrect == Spec => []TypeOK
BY TypeInit, TypeStep, PTL DEF Spec

\* The invariant holds initially.
LEMMA InvInit == Init => ClientInv
<1> SUFFICES ASSUME Init
             PROVE  ClientInv
  OBVIOUS
<1> USE DEF Nil
<1>1. TypeOK
  BY TypeInit
<1>2. PICK s \in Spawners :
        snr = [t \in Spawners |-> IF t = s THEN "start" ELSE "none"]
  BY DEF Init
<1>3. SpawnerIffConnecting /\ NoPanic
  BY <1>2 DEF Init, SpawnerIffConnecting, NoPanic
<1>4. CurrentConnOwned /\ NoLostWakeup /\ NoNilIO
  BY DEF Init, CurrentConnOwned, NoLostWakeup, NoNilIO
<1>5. DialOrder
  BY MaxConnAssumption DEF Init, DialOrder, Conns
<1>6. AttemptInv
  BY <1>2 DEF Init, AttemptInv
<1>7. QED
  BY <1>1, <1>3, <1>4, <1>5, <1>6 DEF ClientInv

\* Tearing down the current connection keeps what is said of the client's own
\* fields, and starts a spawner only when none runs.
LEMMA NotifyFailureKeeps ==
  ASSUME ClientInv, NotifyFailure, UNCHANGED <<attempt, dialled>>,
         \A c \in Conns : \/ canceller'[c] = canceller[c]
                          \/ canceller[c] = "select" /\ canceller'[c] = "closing"
  PROVE  /\ SpawnerIffConnecting'
         /\ CurrentConnOwned'
         /\ NoPanic'
         /\ DialOrder'
         /\ AttemptInv'
         /\ \A c \in Conns : net[c] # "none" <=> net'[c] # "none"
         /\ state = "Connecting" => state' = "Connecting"
<1> USE DEF Nil
<1>1. CASE ~HaveConn
  <2>1. UNCHANGED <<state, conn, negRes, prepend, net, snr, snrRunning>>
    BY <1>1 DEF NotifyFailure
  <2>2. SpawnerIffConnecting' /\ NoPanic' /\ DialOrder'
    BY <2>1 DEF ClientInv, SpawnerIffConnecting, NoPanic, DialOrder
  <2>3. CurrentConnOwned'
    BY <2>1 DEF ClientInv, CurrentConnOwned, TypeOK
  <2>4. AttemptInv'
    BY <2>1 DEF ClientInv, AttemptInv, TypeOK
  <2>5. QED
    BY <2>1, <2>2, <2>3, <2>4
<1>2. CASE HaveConn
  <2> USE <1>2 DEF HaveConn
  <2>1. /\ conn' = Nil /\ negRes' = Nil /\ prepend' = Nil
        /\ state' = AfterFailure
        /\ net' = [c \in Conns |-> IF c = conn THEN "closed" ELSE net[c]]
        /\ conn \in Conns
        /\ net[conn] # "none"
    BY DEF NotifyFailure, CloseConn, ClientInv, CurrentConnOwned, TypeOK
  <2>2. ~snrRunning /\ \A s \in Spawners : snr[s] = "none" /\ attempt[s] = Nil
    BY DEF ClientInv, SpawnerIffConnecting, AttemptInv
  <2>3. SpawnerIffConnecting' /\ NoPanic' /\ AttemptInv'
    <3>1. CASE state' = "Connecting"
      <4>1. PICK s \in Spawners :
              snr' = [snr EXCEPT ![s] = "start"] /\ snrRunning' = TRUE
        BY <2>2, <3>1 DEF NotifyFailure, EnsureSpawner
      <4>2. \A t \in Spawners : snr'[t] = IF t = s THEN "start" ELSE "none"
        BY <4>1, <2>2 DEF ClientInv, TypeOK
      <4>3. QED
        BY <4>1, <4>2, <3>1, <2>2
        DEF SpawnerIffConnecting, NoPanic, AttemptInv
    <3>2. CASE state' # "Connecting"
      <4>1. UNCHANGED <<snr, snrRunning>>
        BY <3>2 DEF NotifyFailure
      <4>2. QED
        BY <4>1, <3>2, <2>2 DEF SpawnerIffConnecting, NoPanic, AttemptInv
    <3>3. QED
      BY <3>1, <3>2
  <2>4. CurrentConnOwned'
    BY <2>1 DEF CurrentConnOwned, AfterFailure
  <2>5. DialOrder' /\ \A c \in Conns : net[c] # "none" <=> net'[c] # "none"
    BY <2>1 DEF ClientInv, DialOrder
  <2>6. QED
    BY <2>3, <2>4, <2>5
<1>3. QED
  BY <1>1, <1>2

\* Waking every waiter leaves none asleep and moves nobody into I/O.
LEMMA BroadcastWakes ==
  ASSUME TypeOK, Broadcast
  PROVE  \A p \in Callers :
           /\ caller'[p] # "waiting"
           /\ caller'[p] \in {"reading", "writing", "failed"} => caller'[p] = caller[p]
BY DEF Broadcast

\* A call that moves one caller and nothing else keeps the invariant.
LEMMA CallerStepKeeps ==
  ASSUME ClientInv, NEW p \in Callers,
         ReadMsg(p) \/ Rewait(p) \/ WriteMsg(p) \/ IOSucceeds(p) \/ IOFails(p)
  PROVE  /\ SpawnerIffConnecting' /\ CurrentConnOwned' /\ NoPanic'
         /\ DialOrder' /\ AttemptInv' /\ NoLostWakeup' /\ NoNilIO'
<1> USE DEF Nil
<1>1. UNCHANGED <<clientVars, spawnVars, netVars>>
  BY DEF ReadMsg, Rewait, WriteMsg, IOSucceeds, IOFails, WaitActive, CallerGoto
<1>2. /\ SpawnerIffConnecting' /\ CurrentConnOwned' /\ NoPanic'
      /\ DialOrder' /\ AttemptInv'
  BY <1>1 DEF clientVars, spawnVars, netVars, ClientInv, SpawnerIffConnecting,
              CurrentConnOwned, NoPanic, DialOrder, AttemptInv
<1>3. NoLostWakeup'
  BY <1>1 DEF clientVars, ClientInv, NoLostWakeup, TypeOK, ReadMsg, Rewait, WriteMsg,
              IOSucceeds, IOFails, WaitActive, CallerGoto
<1>4. NoNilIO'
  BY <1>1 DEF netVars, ClientInv, NoNilIO, CurrentConnOwned, TypeOK, ReadMsg, Rewait,
              WriteMsg, IOSucceeds, IOFails, WaitActive, CallerGoto
<1>5. QED
  BY <1>2, <1>3, <1>4

\* A spawner that goes on to its next position within the loop, and nothing
\* else, keeps what is said of spawners.
LEMMA SpawnerMoveKeeps ==
  ASSUME ClientInv, NEW s \in Spawners, NEW pc \in SnrPCs,
         snr[s] # "none", pc # "none", pc # "panicked",
         snr' = [snr EXCEPT ![s] = pc],
         UNCHANGED <<state, snrRunning>>
  PROVE  SpawnerIffConnecting' /\ NoPanic'
<1>1. \A t \in Spawners : snr'[t] = IF t = s THEN pc ELSE snr[t]
  BY DEF ClientInv, TypeOK
<1>2. QED
  BY <1>1 DEF ClientInv, SpawnerIffConnecting, NoPanic

\* A spawner that returns leaves none running, and the client not connecting.
LEMMA SpawnerReturnKeeps ==
  ASSUME ClientInv, NEW s \in Spawners, snr[s] # "none",
         SnrReturn(s), state' # "Connecting"
  PROVE  /\ SpawnerIffConnecting' /\ NoPanic'
         /\ \A t \in Spawners : snr'[t] = "none"
<1>1. \A t \in Spawners : snr'[t] = IF t = s THEN "none" ELSE snr[t]
  BY DEF ClientInv, TypeOK, SnrReturn, SnrGoto
<1>2. \A t \in Spawners \ {s} : snr[t] = "none"
  BY DEF ClientInv, SpawnerIffConnecting
<1>3. snrRunning' = FALSE
  BY DEF SnrReturn
<1>4. QED
  BY <1>1, <1>2, <1>3 DEF SpawnerIffConnecting, NoPanic

\* A client that is connecting has no connection.
LEMMA ConnectingHasNone ==
  ASSUME ClientInv, NEW s \in Spawners, snr[s] # "none"
  PROVE  /\ state = "Connecting" /\ conn = Nil
         /\ \A t \in Spawners \ {s} : snr[t] = "none" /\ attempt[t] = Nil
BY DEF ClientInv, SpawnerIffConnecting, CurrentConnOwned, AttemptInv

\* The part of the invariant that TypeCorrect does not cover.
Rest == /\ SpawnerIffConnecting /\ CurrentConnOwned /\ NoPanic
        /\ DialOrder /\ AttemptInv /\ NoLostWakeup /\ NoNilIO

\* Every step keeps the invariant.
LEMMA InvStep == ClientInv /\ [Next]_vars => ClientInv'
<1> SUFFICES ASSUME ClientInv, [Next]_vars
             PROVE  ClientInv'
  OBVIOUS
<1> USE DEF Nil
<1>0. TypeOK /\ TypeOK'
  BY TypeStep DEF ClientInv
<1>1. ASSUME NEW immediate \in BOOLEAN, Close(immediate)
      PROVE  Rest'
  <2>1. /\ UNCHANGED <<attempt, dialled, caller, held>>
        /\ \A c \in Conns : \/ canceller'[c] = canceller[c]
                            \/ canceller[c] = "select" /\ canceller'[c] = "closing"
    BY <1>0, <1>1 DEF Close, CancelCtx, callVars, TypeOK
  <2>2. CASE immediate
    <3>1. NotifyFailure
      BY <1>1, <2>2 DEF Close
    <3>2. NoLostWakeup' /\ NoNilIO'
      BY <1>0, <2>1, <3>1, NotifyFailureKeeps
      DEF ClientInv, NoLostWakeup, NoNilIO, TypeOK
    <3>3. QED
      BY <2>1, <3>1, <3>2, NotifyFailureKeeps DEF Rest
  <2>3. CASE ~immediate
    <3>1. UNCHANGED <<state, conn, negRes, prepend, net, snr, snrRunning>>
      BY <1>1, <2>3 DEF Close
    <3>2. SpawnerIffConnecting' /\ NoPanic' /\ DialOrder' /\ NoLostWakeup' /\ NoNilIO'
      BY <2>1, <3>1 DEF ClientInv, SpawnerIffConnecting, NoPanic, DialOrder,
                        NoLostWakeup, NoNilIO
    <3>3. CurrentConnOwned'
      BY <1>0, <2>1, <3>1 DEF ClientInv, CurrentConnOwned, TypeOK
    <3>4. AttemptInv'
      BY <1>0, <2>1, <3>1 DEF ClientInv, AttemptInv, TypeOK
    <3>5. QED
      BY <3>2, <3>3, <3>4 DEF Rest
  <2>4. QED
    BY <2>2, <2>3
<1>2. ASSUME NEW p \in Callers,
             ReadMsg(p) \/ Rewait(p) \/ WriteMsg(p) \/ IOSucceeds(p) \/ IOFails(p)
      PROVE  Rest'
  BY <1>2, CallerStepKeeps DEF Rest
<1>3. ASSUME NEW p \in Callers, ReportFailure(p)
      PROVE  Rest'
  <2>1. /\ NotifyFailure /\ UNCHANGED <<attempt, dialled>>
        /\ \A c \in Conns : \/ canceller'[c] = canceller[c]
                            \/ canceller[c] = "select" /\ canceller'[c] = "closing"
    BY <1>3 DEF ReportFailure
  <2>2. NoLostWakeup'
    BY <1>0, <1>3, <2>1, NotifyFailureKeeps
    DEF ReportFailure, ClientInv, NoLostWakeup, TypeOK
  <2>3. NoNilIO'
    BY <1>0, <1>3, <2>1, NotifyFailureKeeps
    DEF ReportFailure, ClientInv, NoNilIO, TypeOK
  <2>4. QED
    BY <2>1, <2>2, <2>3, NotifyFailureKeeps DEF Rest
<1>4. ASSUME NEW s \in Spawners, NEW pc \in SnrPCs \ {"none"}, snr[s] # "none",
             SnrOnly(s, pc), pc # "panicked",
             pc \in {"negotiate", "handoff", "emit"} <=> attempt[s] # Nil,
             pc # "emit"
      PROVE  Rest'
  <2>1. SpawnerIffConnecting' /\ NoPanic'
    BY <1>4, SpawnerMoveKeeps DEF SnrOnly, SnrGoto, clientVars
  <2>2. AttemptInv'
    BY <1>0, <1>4 DEF SnrOnly, SnrGoto, netVars, ClientInv, AttemptInv, TypeOK
  <2>3. CurrentConnOwned' /\ DialOrder' /\ NoLostWakeup' /\ NoNilIO'
    BY <1>4 DEF SnrOnly, clientVars, netVars, callVars, ClientInv, CurrentConnOwned,
                DialOrder, NoLostWakeup, NoNilIO
  <2>4. QED
    BY <2>1, <2>2, <2>3 DEF Rest
<1>5. ASSUME NEW s \in Spawners,
             SnrStart(s) \/ SnrDialFails(s) \/ SnrNegotiated(s) \/ SnrBackoffEnds(s)
      PROVE  Rest'
  <2>1. snr[s] # "none" /\ state = "Connecting"
    BY <1>5, ConnectingHasNone DEF SnrStart, SnrDialFails, SnrNegotiated, SnrBackoffEnds
  <2>2. PICK pc \in {"connect", "failed", "handoff", "start"} :
          SnrOnly(s, pc) /\ (pc = "handoff" <=> snr[s] = "negotiate")
                         /\ snr[s] \notin {"handoff", "emit"}
    BY <1>5, <2>1 DEF SnrStart, SnrDialFails, SnrNegotiated, SnrBackoffEnds
  <2>3. pc \in {"negotiate", "handoff", "emit"} <=> attempt[s] # Nil
    BY <2>2 DEF ClientInv, AttemptInv
  <2>4. QED
    BY <1>4, <2>1, <2>2, <2>3 DEF SnrPCs
<1>6. ASSUME NEW s \in Spawners, SnrDialSucceeds(s)
      PROVE  Rest'
  <2>1. /\ snr[s] = "connect" /\ state = "Connecting" /\ conn = Nil
        /\ \A t \in Spawners \ {s} : snr[t] = "none" /\ attempt[t] = Nil
    BY <1>6, ConnectingHasNone DEF SnrDialSucceeds
  <2>2. dialled' = dialled + 1 /\ dialled' \in Conns
    BY <1>0, <1>6, MaxConnAssumption DEF SnrDialSucceeds, CanDial, TypeOK, Conns
  <2>3. /\ UNCHANGED <<clientVars, snrRunning, callVars>>
        /\ snr' = [snr EXCEPT ![s] = "negotiate"]
    BY <1>6 DEF SnrDialSucceeds, SnrGoto
  <2>4. \A c \in Conns : net'[c] = IF c = dialled' THEN "open" ELSE net[c]
    BY <1>0, <1>6, <2>2 DEF SnrDialSucceeds, TypeOK
  <2>5. SpawnerIffConnecting' /\ NoPanic'
    BY <2>1, <2>3, SpawnerMoveKeeps DEF SnrPCs, clientVars
  <2>6. CurrentConnOwned' /\ NoLostWakeup'
    BY <2>1, <2>3 DEF clientVars, callVars, ClientInv, CurrentConnOwned, NoLostWakeup
  <2>7. DialOrder'
    <3>1. \A c \in Conns :
            canceller'[c] = IF c = dialled' THEN "spawned" ELSE canceller[c]
      BY <1>0, <1>6, <2>2 DEF SnrDialSucceeds, TypeOK
    <3>2. dialled \in Nat /\ \A c \in Conns : c \in Nat
      BY <1>0, MaxConnAssumption DEF TypeOK, Conns
    <3>3. \A c \in Conns : (c > dialled') <=> (c > dialled /\ c # dialled')
      BY <2>2, <3>2
    <3>4. QED
      BY <2>4, <3>1, <3>3 DEF ClientInv, DialOrder
  <2>8. NoNilIO'
    BY <1>0, <2>3, <2>4 DEF callVars, ClientInv, NoNilIO, TypeOK
  <2>9. AttemptInv'
    <3>1. \A t \in Spawners : /\ attempt'[t] = IF t = s THEN dialled' ELSE attempt[t]
                              /\ snr'[t] = IF t = s THEN "negotiate" ELSE snr[t]
      BY <1>0, <1>6, <2>3 DEF SnrDialSucceeds, TypeOK
    <3>2. QED
      BY <2>1, <2>2, <2>4, <3>1 DEF AttemptInv, Conns
  <2>10. QED
    BY <2>5, <2>6, <2>7, <2>8, <2>9 DEF Rest
<1>7. ASSUME NEW s \in Spawners, SnrNegotiationFails(s)
      PROVE  Rest'
  <2>1. /\ snr[s] = "negotiate" /\ state = "Connecting" /\ conn = Nil
        /\ \A t \in Spawners \ {s} : snr[t] = "none" /\ attempt[t] = Nil
    BY <1>7, ConnectingHasNone DEF SnrNegotiationFails
  <2>2. /\ UNCHANGED <<clientVars, snrRunning, canceller, dialled, callVars>>
        /\ snr' = [snr EXCEPT ![s] = "failed"]
    BY <1>7 DEF SnrNegotiationFails, SnrGoto
  <2>3. \A c \in Conns : net[c] = "none" <=> net'[c] = "none"
    BY <1>0, <1>7, <2>1 DEF SnrNegotiationFails, TypeOK, ClientInv, AttemptInv
  <2>4. SpawnerIffConnecting' /\ NoPanic'
    BY <2>1, <2>2, SpawnerMoveKeeps DEF SnrPCs, clientVars
  <2>5. CurrentConnOwned' /\ NoLostWakeup' /\ DialOrder' /\ NoNilIO'
    BY <1>0, <2>1, <2>2, <2>3 DEF clientVars, callVars, ClientInv, CurrentConnOwned,
                                  NoLostWakeup, DialOrder, NoNilIO, TypeOK
  <2>6. AttemptInv'
    <3>1. \A t \in Spawners : /\ attempt'[t] = IF t = s THEN Nil ELSE attempt[t]
                              /\ snr'[t] = IF t = s THEN "failed" ELSE snr[t]
      BY <1>0, <1>7, <2>2 DEF SnrNegotiationFails, TypeOK
    <3>2. QED
      BY <2>1, <3>1 DEF AttemptInv
  <2>7. QED
    BY <2>4, <2>5, <2>6 DEF Rest
<1>8. ASSUME NEW s \in Spawners, SnrHandoff(s)
      PROVE  Rest'
  <2>1. /\ snr[s] = "handoff" /\ state = "Connecting" /\ conn = Nil
        /\ \A t \in Spawners \ {s} : snr[t] = "none" /\ attempt[t] = Nil
        /\ attempt[s] \in Conns /\ net[attempt[s]] # "none"
        /\ net[attempt[s]] = "closed" => canceller[attempt[s]] = "done"
    BY <1>0, <1>8, ConnectingHasNone DEF SnrHandoff, ClientInv, AttemptInv, TypeOK
  <2>2. UNCHANGED <<clientVars, snrRunning, net, dialled, callVars>>
    BY <1>8 DEF SnrHandoff
  <2>3. CurrentConnOwned' /\ NoLostWakeup' /\ NoNilIO'
    BY <2>1, <2>2 DEF clientVars, callVars, ClientInv, CurrentConnOwned,
                      NoLostWakeup, NoNilIO
  <2>4. CASE canceller[attempt[s]] = "select"
    <3>1. /\ snr' = [snr EXCEPT ![s] = "emit"]
          /\ canceller' = [canceller EXCEPT ![attempt[s]] = "retired"]
          /\ UNCHANGED attempt
      BY <1>8, <2>4 DEF SnrHandoff, Retire, SnrGoto
    <3>2. SpawnerIffConnecting' /\ NoPanic'
      BY <2>1, <2>2, <3>1, SpawnerMoveKeeps DEF SnrPCs, clientVars
    <3>3. AttemptInv' /\ DialOrder'
      BY <1>0, <2>1, <2>2, <2>4, <3>1 DEF ClientInv, AttemptInv, DialOrder, TypeOK
    <3>4. QED
      BY <2>3, <3>2, <3>3 DEF Rest
  <2>5. CASE canceller[attempt[s]] # "select"
    <3>1. /\ snr' = [snr EXCEPT ![s] = "failed"]
          /\ attempt' = [attempt EXCEPT ![s] = Nil]
          /\ UNCHANGED canceller
      BY <1>8, <2>5 DEF SnrHandoff, SnrGoto
    <3>2. SpawnerIffConnecting' /\ NoPanic'
      BY <2>1, <2>2, <3>1, SpawnerMoveKeeps DEF SnrPCs, clientVars
    <3>3. AttemptInv' /\ DialOrder'
      BY <1>0, <2>1, <2>2, <3>1 DEF ClientInv, AttemptInv, DialOrder, TypeOK
    <3>4. QED
      BY <2>3, <3>2, <3>3 DEF Rest
  <2>6. QED
    BY <2>4, <2>5
<1>9. ASSUME NEW s \in Spawners, SnrEmit(s)
      PROVE  Rest'
  <2>1. /\ snr[s] = "emit" /\ state = "Connecting" /\ conn = Nil
        /\ \A t \in Spawners \ {s} : snr[t] = "none" /\ attempt[t] = Nil
        /\ attempt[s] \in Conns /\ net[attempt[s]] \in {"open", "broken"}
        /\ canceller[attempt[s]] = "retired"
    BY <1>0, <1>9, ConnectingHasNone
    DEF SnrEmit, ClientInv, AttemptInv, TypeOK, NetStates
  <2>2. /\ SnrReturn(s) /\ Broadcast
        /\ attempt' = [attempt EXCEPT ![s] = Nil]
        /\ UNCHANGED <<canceller, dialled, held>>
        /\ state' \in {"Active", "Terminated"}
        /\ \A c \in Conns : net[c] = "none" <=> net'[c] = "none"
    BY <1>0, <1>9, <2>1 DEF SnrEmit, SnrTerminate, TypeOK
  <2>3. SpawnerIffConnecting' /\ NoPanic' /\ \A t \in Spawners : snr'[t] = "none"
    BY <2>1, <2>2, SpawnerReturnKeeps
  <2>4. CurrentConnOwned'
    <3>1. negRes = Nil /\ prepend = Nil
      BY <2>1 DEF ClientInv, CurrentConnOwned
    <3>2. \/ state' = "Terminated" /\ UNCHANGED <<conn, negRes, prepend>>
          \/ /\ state' = "Active" /\ UNCHANGED net
             /\ conn' = attempt[s] /\ negRes' = attempt[s] /\ prepend' = attempt[s]
      BY <1>9, <2>1 DEF SnrEmit, SnrTerminate
    <3>3. QED
      BY <2>1, <2>2, <3>1, <3>2 DEF CurrentConnOwned, Conns
  <2>5. DialOrder' /\ NoLostWakeup' /\ NoNilIO'
    BY <1>0, <2>2, BroadcastWakes DEF ClientInv, DialOrder, NoLostWakeup, NoNilIO, TypeOK
  <2>6. AttemptInv'
    BY <1>0, <2>1, <2>2, <2>3 DEF AttemptInv, TypeOK
  <2>7. QED
    BY <2>3, <2>4, <2>5, <2>6 DEF Rest
<1>10. ASSUME NEW s \in Spawners, SnrFailed(s)
       PROVE  Rest'
  <2>1. /\ snr[s] = "failed" /\ state = "Connecting" /\ conn = Nil /\ attempt[s] = Nil
        /\ \A t \in Spawners \ {s} : snr[t] = "none" /\ attempt[t] = Nil
    BY <1>10, ConnectingHasNone DEF SnrFailed, ClientInv, AttemptInv
  <2>2. CASE stopping
    <3>1. /\ SnrReturn(s) /\ Broadcast /\ state' = "Terminated"
          /\ UNCHANGED <<conn, negRes, prepend, attempt, netVars, held>>
      BY <1>10, <2>2 DEF SnrFailed, SnrTerminate
    <3>2. SpawnerIffConnecting' /\ NoPanic' /\ \A t \in Spawners : snr'[t] = "none"
      BY <2>1, <3>1, SpawnerReturnKeeps
    <3>3. CurrentConnOwned' /\ DialOrder' /\ NoLostWakeup' /\ NoNilIO'
      BY <1>0, <2>1, <3>1, BroadcastWakes
      DEF netVars, ClientInv, CurrentConnOwned, DialOrder, NoLostWakeup, NoNilIO
    <3>4. AttemptInv'
      BY <2>1, <3>1, <3>2 DEF AttemptInv
    <3>5. QED
      BY <3>2, <3>3, <3>4 DEF Rest
  <2>3. CASE ~stopping
    <3>1. SnrOnly(s, "backoff")
      BY <1>10, <2>3 DEF SnrFailed, SnrTerminate
    <3>2. QED
      BY <1>4, <2>1, <3>1 DEF SnrPCs
  <2>4. QED
    BY <2>2, <2>3
<1>11. ASSUME NEW c \in Conns,
              CancellerSelects(c) \/ CancellerTimesOut(c) \/ CancellerCloses(c)
       PROVE  Rest'
  <2>1. UNCHANGED <<clientVars, spawnVars, dialled, callVars>>
    BY <1>11 DEF CancellerSelects, CancellerTimesOut, CancellerCloses, CancellerGoto
  <2>2. canceller[c] \in {"spawned", "select", "closing"}
    BY <1>11 DEF CancellerSelects, CancellerTimesOut, CancellerCloses
  <2>3. \A d \in Conns \ {c} : canceller'[d] = canceller[d] /\ net'[d] = net[d]
    BY <1>0, <1>11 DEF CancellerSelects, CancellerTimesOut, CancellerCloses,
                       CancellerGoto, TypeOK
  <2>4. \/ net'[c] = net[c] /\ canceller[c] # "done"
        \/ net'[c] = "closed" /\ canceller'[c] = "done"
    BY <1>0, <1>11 DEF CancellerSelects, CancellerTimesOut, CancellerCloses,
                       CancellerGoto, TypeOK
  <2>5. SpawnerIffConnecting' /\ NoPanic' /\ NoLostWakeup'
    BY <2>1 DEF clientVars, spawnVars, callVars, ClientInv, SpawnerIffConnecting,
                NoPanic, NoLostWakeup
  <2>6. conn # c /\ \A s \in Spawners : snr[s] = "emit" => attempt[s] # c
    BY <2>2 DEF ClientInv, CurrentConnOwned, AttemptInv, Conns
  <2>7. CurrentConnOwned'
    BY <2>1, <2>3, <2>6 DEF clientVars, ClientInv, CurrentConnOwned, TypeOK
  <2>8. \A d \in Conns : /\ net[d] = "none" <=> net'[d] = "none"
                         /\ canceller[d] = "none" <=> canceller'[d] = "none"
    <3>1. net[c] # "none"
      BY <2>2 DEF ClientInv, DialOrder
    <3>2. canceller'[c] # "none"
      BY <1>0, <1>11 DEF CancellerSelects, CancellerTimesOut, CancellerCloses,
                         CancellerGoto, TypeOK
    <3>3. QED
      BY <2>2, <2>3, <2>4, <3>1, <3>2
  <2>9. DialOrder' /\ NoNilIO'
    <3>1. UNCHANGED <<dialled, caller, held>>
      BY <2>1 DEF callVars
    <3>2. DialOrder'
      BY <2>8, <3>1 DEF ClientInv, DialOrder
    <3>3. NoNilIO'
      BY <1>0, <2>8, <3>1 DEF ClientInv, NoNilIO, TypeOK
    <3>4. QED
      BY <3>2, <3>3
  <2>10. AttemptInv'
    <3> SUFFICES ASSUME NEW s \in Spawners, attempt[s] # Nil
                 PROVE  AttemptInv!(s)'
      BY <2>1 DEF spawnVars, ClientInv, AttemptInv
    <3>1. QED
      BY <1>0, <2>1, <2>3, <2>4, <2>6, <2>8
      DEF spawnVars, ClientInv, AttemptInv, TypeOK
  <2>11. QED
    BY <2>5, <2>7, <2>9, <2>10 DEF Rest
<1>12. ASSUME NEW c \in Conns, NetFails(c)
       PROVE  Rest'
  <2>1. /\ UNCHANGED <<clientVars, spawnVars, canceller, dialled, callVars>>
        /\ net[c] = "open"
        /\ \A d \in Conns : net'[d] = IF d = c THEN "broken" ELSE net[d]
    BY <1>0, <1>12 DEF NetFails, TypeOK
  <2>2. SpawnerIffConnecting' /\ NoPanic' /\ NoLostWakeup' /\ DialOrder'
    BY <2>1 DEF clientVars, spawnVars, callVars, ClientInv, SpawnerIffConnecting,
                NoPanic, NoLostWakeup, DialOrder
  <2>3. CurrentConnOwned' /\ NoNilIO' /\ AttemptInv'
    BY <1>0, <2>1 DEF clientVars, spawnVars, callVars, ClientInv, CurrentConnOwned,
                      NoNilIO, AttemptInv, TypeOK
  <2>4. QED
    BY <2>2, <2>3 DEF Rest
<1>13. ASSUME UNCHANGED vars
       PROVE  Rest'
  <2>1. UNCHANGED <<clientVars, spawnVars, netVars, callVars>>
    BY <1>13 DEF vars
  <2>2. SpawnerIffConnecting' /\ CurrentConnOwned' /\ NoPanic'
    BY <2>1 DEF clientVars, spawnVars, netVars, ClientInv, SpawnerIffConnecting,
                CurrentConnOwned, NoPanic
  <2>3. DialOrder' /\ AttemptInv'
    BY <2>1 DEF spawnVars, netVars, ClientInv, DialOrder, AttemptInv
  <2>4. NoLostWakeup' /\ NoNilIO'
    BY <2>1 DEF clientVars, netVars, callVars, ClientInv, NoLostWakeup, NoNilIO
  <2>5. QED
    BY <2>2, <2>3, <2>4 DEF Rest
<1>14. Rest'
  <2>1. CASE Calls
    BY <1>1, <1>2, <1>3, <2>1, Zenon DEF Calls
  <2>2. CASE SpawnerSteps
    BY <1>5, <1>6, <1>7, <1>8, <1>9, <1>10, <2>2, Zenon DEF SpawnerSteps
  <2>3. CASE NetSteps
    BY <1>11, <1>12, <2>3, Zenon DEF NetSteps
  <2>4. QED
    BY <1>13, <2>1, <2>2, <2>3 DEF Next
<1>15. QED
  BY <1>0, <1>14 DEF ClientInv, Rest

\* The inductive invariant holds in every reachable state.
THEOREM Invariance == Spec => []ClientInv
BY InvInit, InvStep, PTL DEF Spec

\* Neither of snrLoop's and snrEmitNewConn's panics is ever reached.
THEOREM PanicFree == Spec => []NoPanic
<1>1. ClientInv => NoPanic
  BY DEF ClientInv
<1>2. QED
  BY <1>1, Invariance, PTL

\* However many callers report failures and however often it reconnects, a
\* connecting client has exactly one spawner, and any other client has none.
THEOREM OneSpawner == Spec => []SpawnerIffConnecting
<1>1. ClientInv => SpawnerIffConnecting
  BY DEF ClientInv
<1>2. QED
  BY <1>1, Invariance, PTL

\* No canceller can close the connection in service, and result, message
\* source and connection always belong together.
THEOREM ConnOwned == Spec => []CurrentConnOwned
<1>1. ClientInv => CurrentConnOwned
  BY DEF ClientInv
<1>2. QED
  BY <1>1, Invariance, PTL

\* No reader is left asleep on the condition variable once the client is no
\* longer connecting.
THEOREM WakeupsKept == Spec => []NoLostWakeup
<1>1. ClientInv => NoLostWakeup
  BY DEF ClientInv
<1>2. QED
  BY <1>1, Invariance, PTL

\* No caller reads from or writes to a connection that does not exist.
THEOREM IOHasConn == Spec => []NoNilIO
<1>1. ClientInv => NoNilIO
  BY DEF ClientInv
<1>2. QED
  BY <1>1, Invariance, PTL

-----------------------------------------------------------------------------
(* Refinement.                                                             *)

\* A freshly made client is one that looks for its first connection.
LEMMA PromiseInit == Init => RC!AInit
BY DEF Init, RC!AInit

\* A failure that tears down a connection is the loss of it.
LEMMA NotifyFailureLoses ==
  ASSUME TypeOK, NotifyFailure
  PROVE  \/ UNCHANGED <<state, conn>>
         \/ RC!Lose
BY DEF NotifyFailure, HaveConn, AfterFailure, RC!Lose

\* Every step of the client is a step of the promise, or invisible to it.
LEMMA PromiseStep == ClientInv /\ [Next]_vars => [RC!ANext]_(RC!avars)
<1> SUFFICES ASSUME ClientInv, [Next]_vars
             PROVE  RC!ANext \/ UNCHANGED <<state, conn, stopping>>
  BY DEF RC!avars
<1>0. TypeOK
  BY DEF ClientInv
<1>1. ASSUME NEW immediate \in BOOLEAN, Close(immediate)
      PROVE  RC!ANext
  <2>1. stopping' = TRUE
    BY <1>1 DEF Close
  <2>2. UNCHANGED <<state, conn>> \/ RC!Lose
    BY <1>0, <1>1, NotifyFailureLoses DEF Close
  <2>3. QED
    BY <2>1, <2>2 DEF RC!ANext, RC!CloseNow, RC!AskToStop
<1>2. ASSUME NEW p \in Callers,
             ReadMsg(p) \/ Rewait(p) \/ WriteMsg(p) \/ IOSucceeds(p) \/ IOFails(p)
      PROVE  UNCHANGED <<state, conn, stopping>>
  BY <1>2 DEF ReadMsg, Rewait, WriteMsg, IOSucceeds, IOFails, WaitActive, CallerGoto,
              clientVars
<1>3. ASSUME NEW p \in Callers, ReportFailure(p)
      PROVE  RC!ANext \/ UNCHANGED <<state, conn, stopping>>
  <2>1. UNCHANGED stopping /\ NotifyFailure
    BY <1>3 DEF ReportFailure
  <2>2. QED
    BY <1>0, <2>1, NotifyFailureLoses DEF RC!ANext, RC!LoseInService
<1>4. ASSUME NEW s \in Spawners,
             \/ SnrStart(s) \/ SnrDialFails(s) \/ SnrDialSucceeds(s) \/ SnrNegotiated(s)
             \/ SnrNegotiationFails(s) \/ SnrHandoff(s) \/ SnrBackoffEnds(s)
      PROVE  UNCHANGED <<state, conn, stopping>>
  BY <1>4 DEF SnrStart, SnrDialFails, SnrDialSucceeds, SnrNegotiated,
              SnrNegotiationFails, SnrHandoff, SnrBackoffEnds, SnrOnly, clientVars
<1>5. ASSUME NEW s \in Spawners, SnrEmit(s)
      PROVE  RC!ANext
  <2>1. /\ snr[s] = "emit" /\ state = "Connecting" /\ conn = Nil
        /\ attempt[s] \in Conns
    BY <1>0, <1>5, ConnectingHasNone DEF SnrEmit, ClientInv, AttemptInv, TypeOK
  <2>2. \/ stopping /\ state' = "Terminated" /\ UNCHANGED <<conn, stopping>>
        \/ ~stopping /\ state' = "Active" /\ conn' = attempt[s] /\ UNCHANGED stopping
    BY <1>5, <2>1 DEF SnrEmit, SnrTerminate
  <2>3. QED
    BY <2>1, <2>2 DEF RC!ANext, RC!Establish, RC!GiveUp
<1>6. ASSUME NEW s \in Spawners, SnrFailed(s)
      PROVE  RC!ANext \/ UNCHANGED <<state, conn, stopping>>
  <2>1. state = "Connecting"
    BY <1>6, ConnectingHasNone DEF SnrFailed
  <2>2. \/ stopping /\ state' = "Terminated" /\ UNCHANGED <<conn, stopping>>
        \/ UNCHANGED <<state, conn, stopping>>
    BY <1>6 DEF SnrFailed, SnrTerminate, SnrOnly, clientVars
  <2>3. QED
    BY <2>1, <2>2 DEF RC!ANext, RC!GiveUp
<1>7. ASSUME NEW c \in Conns,
             \/ CancellerSelects(c) \/ CancellerTimesOut(c)
             \/ CancellerCloses(c) \/ NetFails(c)
      PROVE  UNCHANGED <<state, conn, stopping>>
  BY <1>7 DEF CancellerSelects, CancellerTimesOut, CancellerCloses, NetFails,
              CancellerGoto, clientVars
<1>8. ASSUME UNCHANGED vars
      PROVE  UNCHANGED <<state, conn, stopping>>
  BY <1>8 DEF vars, clientVars
<1>9. CASE Calls
  BY <1>1, <1>2, <1>3, <1>9 DEF Calls
<1>10. CASE SpawnerSteps
  BY <1>4, <1>5, <1>6, <1>10 DEF SpawnerSteps
<1>11. CASE NetSteps
  BY <1>7, <1>11 DEF NetSteps
<1>12. QED
  BY <1>8, <1>9, <1>10, <1>11 DEF Next

\* The client implements the promise made to the program: after Close or
\* Deprecate no further connection is ever handed out, and a lost connection
\* leads to Connecting or, once stopped, to Terminated and nowhere else.
THEOREM PromiseKept == Spec => PromiseSafety
<1>1. ClientInv /\ [Next]_vars => [RC!ANext]_(RC!avars)
  BY PromiseStep
<1>2. QED
  BY <1>1, PromiseInit, Invariance, PTL DEF Spec, PromiseSafety
=============================================================================
