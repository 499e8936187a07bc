------------------------------- MODULE MCConn -------------------------------
(* The instances of Conn for TLC: messages of two units, so that one can be *)
(* cut in the middle.                                                       *)
EXTENDS Conn

CONSTANTS w1, r1, r2

MCWriters == {w1}
MCReaders == {r1, r2}
MCIncoming == <<"PING", "BAD", "MSG">>
MCPing == <<"PING">>
=============================================================================
