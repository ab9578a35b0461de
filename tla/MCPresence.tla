---------------------------- MODULE MCPresence ------------------------------
(* Instances of Presence for TLC. *)
EXTENDS Presence

CONSTANTS c1, c2, root, guest, e1, e2

TwoConns   == {c1, c2}
Edited     == {root}
TheLoginOf == [c \in Conns |-> IF c = c1 THEN root ELSE guest]
TheAdmins  == {c1}
TheAskers  == {c1}
OneChoice  == {{"refusePChat"}}
TwoEditors == {e1, e2}
=============================================================================
