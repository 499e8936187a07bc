------------------------------- MODULE MCNick -------------------------------
(* The instance of Nick for TLC: the preferred nickname, the one chosen in  *)
(* its place, and one that services impose.                                 *)
EXTENDS Nick

MCNicks == {"egobot", "egobot_", "Guest"}
=============================================================================
