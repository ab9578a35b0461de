----------------------------- MODULE MCSessions -----------------------------
(* Instances of Sessions for TLC. *)
EXTENDS Sessions, TLC

CONSTANTS c1, c2, root, guest, neo, p1

TwoConns   == {c1, c2}
OneIP      == {p1}
TheIPOf    == [c \in Conns |-> p1]
TheLogins  == {root, guest}
TheNicks   == {neo}
TheName    == [l \in Logins |-> neo]
JustRoot   == {root}
JustGuest  == {guest}
TheEmpty   == {}

Req(op, u, n, p) == [op |-> op, user |-> u, nick |-> n, ip |-> p]
AddressRequests == {Req("ban", NoName, neo, NoName), Req("ban", NoName, NoName, p1)}
UserRequests    == {Req("ban", guest, NoName, NoName)}
ConnSymmetry == Permutations(Conns)
AllRequests == AddressRequests \cup UserRequests \cup
               {Req("unban", guest, neo, p1)}
=============================================================================
