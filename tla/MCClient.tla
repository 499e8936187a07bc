------------------------------ MODULE MCClient ------------------------------
(* A small instance of Client for TLC.                                     *)
EXTENDS Client

CONSTANTS p1, p2, s1, s2

MCCallers == {p1, p2}
MCSpawners == {s1, s2}
=============================================================================
