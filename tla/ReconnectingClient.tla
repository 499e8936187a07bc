------------------------- MODULE ReconnectingClient -------------------------
(***************************************************************************)
(* What ircproto.Client promises to the program that uses it, without its  *)
(* spawner, its cancellers and its locks: a client is looking for a        *)
(* connection, has one, or is finished.  A program that asked it to stop   *)
(* never sees another connection, and a client that was asked to stop      *)
(* while it had no connection finishes.                                    *)
(***************************************************************************)

CONSTANTS Sessions,   \* identities of the connections a client may hold
          NoSession   \* holding none

VARIABLES phase,      \* "Connecting", "Active" or "Terminated"
          session,    \* the connection the program's reads and writes go to
          stop        \* the program called Close or Deprecate

avars == <<phase, session, stop>>

AInit ==
  /\ phase = "Connecting"
  /\ session = NoSession
  /\ stop = FALSE

Establish ==
  /\ phase = "Connecting"
  /\ ~stop
  /\ phase' = "Active"
  /\ session' \in Sessions
  /\ UNCHANGED stop

\* The connection is lost, or given up on: with no stop asked for the client
\* looks for another one, otherwise it is finished.
Lose ==
  /\ phase = "Active"
  /\ phase' = IF stop' THEN "Terminated" ELSE "Connecting"
  /\ session' = NoSession

LoseInService == Lose /\ UNCHANGED stop

\* Close: stop and lose the connection in one step.
CloseNow == Lose /\ stop' = TRUE

\* Close without a connection, or Deprecate: the current connection, if any,
\* stays in service until it fails.
AskToStop ==
  /\ stop' = TRUE
  /\ UNCHANGED <<phase, session>>

GiveUp ==
  /\ phase = "Connecting"
  /\ stop
  /\ phase' = "Terminated"
  /\ UNCHANGED <<session, stop>>

ANext == Establish \/ LoseInService \/ CloseNow \/ AskToStop \/ GiveUp

\* Giving up is the client's own step, so it happens if it stays possible;
\* whether a connection is found or lost is up to the network.
ASpec == AInit /\ [][ANext]_avars /\ WF_avars(GiveUp)
=============================================================================
