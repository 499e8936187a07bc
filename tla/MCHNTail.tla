------------------------------ MODULE MCHNTail ------------------------------
(* The instances of HNTail for TLC: item 1 is a story with a URL, item 2 a  *)
(* comment on it.  The pattern matches the story in the first instance; the *)
(* second has none, and a user who wrote the comment.                       *)
EXTENDS HNTail

MCInitials == {0, 1}
MCStory == {1}
MCComment == {2}
MCNone == {}
MCParent == [i \in Items |-> IF i = 2 THEN 1 ELSE 0]
=============================================================================
