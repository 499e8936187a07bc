----------------------------- MODULE MCAutojoin -----------------------------
(* The instance of Autojoin for TLC: one channel, since the handler treats  *)
(* each without regard to the others.                                       *)
EXTENDS Autojoin

CONSTANT c1

MCChans == {c1}
=============================================================================
