------------------------------- MODULE BanMgr -------------------------------
(***************************************************************************)
(* What a ban manager promises its callers (the BanMgr interface of        *)
(* hotline/ban.go).  A ban comes only by a call that asks for it and goes  *)
(* only by one, or when its time is over, as long as the store can be      *)
(* trusted.  A call that returns no error has had its effect.  One that    *)
(* returns an error had none, unless the store is on the other side of a   *)
(* network: then it may have been carried out, and an UnbanIP, which is    *)
(* several steps there, in part.                                           *)
(***************************************************************************)
EXTENDS Integers

CONSTANTS IPs, Users, Nicks,
          Perm,    \* the end of a ban without an end
          Remote   \* the store is reached over a network

VARIABLES bans,    \* the bans in force
          now,     \* the clock
          trusted, \* the store is known to hold them
          lifting, \* addresses whose UnbanIP is under way
          before,  \* of the bans there when it began, those that are left
          answer   \* what the last step returned to its caller, if it did

vars == <<bans, now, trusted, lifting, before, answer>>

\* When a ban ends.
Until == {Perm} \cup Nat

Bans == [ips: [IPs -> SUBSET Until], users: SUBSET Users, nicks: SUBSET Nicks]
NoBans == [ips |-> [p \in IPs |-> {}], users |-> {}, nicks |-> {}]

Calls == [op: {"Add", "UnbanIP"}, on: IPs, until: Until]
         \cup [op: {"BanUsername", "UnbanUsername"}, on: Users, until: {Perm}]
         \cup [op: {"BanNickname", "UnbanNickname"}, on: Nicks, until: {Perm}]

Init ==
    /\ bans \in Bans
    /\ now \in Nat
    /\ trusted = TRUE
    /\ lifting = {}
    /\ before = [p \in IPs |-> {}]
    /\ answer = {}

-----------------------------------------------------------------------------
\* Nothing changes but the bans at one address.
OnlyAt(p) == bans' = [bans EXCEPT !.ips[p] = bans'.ips[p]]

\* The new ban may take the place of others; one that is over need not be kept.
Ban(p, until) ==
    /\ OnlyAt(p)
    /\ \/ until \in bans'.ips[p] /\ bans'.ips[p] \subseteq bans.ips[p] \cup {until}
       \/ until # Perm /\ until <= now /\ UNCHANGED bans

\* Some of the bans at an address go, or all.
Ease(p) == OnlyAt(p) /\ bans'.ips[p] \subseteq bans.ips[p]

Effect(c) ==
    CASE c.op = "Add"           -> Ban(c.on, c.until)
      [] c.op = "UnbanIP"       -> bans' = [bans EXCEPT !.ips[c.on] = {}]
      [] c.op = "BanUsername"   -> bans' = [bans EXCEPT !.users = @ \cup {c.on}]
      [] c.op = "UnbanUsername" -> bans' = [bans EXCEPT !.users = @ \ {c.on}]
      [] c.op = "BanNickname"   -> bans' = [bans EXCEPT !.nicks = @ \cup {c.on}]
      [] c.op = "UnbanNickname" -> bans' = [bans EXCEPT !.nicks = @ \ {c.on}]

Still == [p \in IPs |-> before[p] \cap bans'.ips[p]]

\* The step returns from call c.
Returns(c, ok) ==
    /\ c \in Calls
    /\ answer' = {[call |-> c, ok |-> ok]}

Succeed(c) ==
    /\ Returns(c, TRUE)
    /\ Effect(c)
    /\ trusted' = TRUE
    /\ before' = Still
    /\ UNCHANGED <<now, lifting>>

\* A call that fails changes no ban, but may harm the store.
Fail(c) ==
    /\ Returns(c, FALSE)
    /\ trusted' \in {trusted, FALSE}
    /\ UNCHANGED <<bans, now, lifting, before>>

\* The answer of a remote store is lost.
Doubt(c) ==
    /\ Remote
    /\ Returns(c, FALSE)
    /\ Effect(c)
    /\ before' = Still
    /\ UNCHANGED <<now, trusted, lifting>>

\* An UnbanIP of several steps begins.
BeginUnban(p) ==
    /\ Remote /\ p \notin lifting
    /\ Ease(p)
    /\ lifting' = lifting \cup {p}
    /\ before' = [Still EXCEPT ![p] = bans'.ips[p]]
    /\ answer' = {}
    /\ UNCHANGED <<now, trusted>>

\* It returns: without an error only if every ban is gone that it found.
EndUnban(c, ok) ==
    /\ c.op = "UnbanIP" /\ c.on \in lifting
    /\ Returns(c, ok)
    /\ Ease(c.on)
    /\ ok => bans'.ips[c.on] \cap before[c.on] = {}
    /\ lifting' = lifting \ {c.on}
    /\ before' = [Still EXCEPT ![c.on] = {}]
    /\ UNCHANGED <<now, trusted>>

\* Nothing happens to the bans, but something may happen to the store.
Quiet ==
    /\ answer' = {}
    /\ trusted' \in {trusted, FALSE}
    /\ UNCHANGED <<bans, now, lifting, before>>

\* A store that cannot be read leaves no bans.
Unreadable ==
    /\ bans' = NoBans /\ trusted' = FALSE /\ answer' = {}
    /\ before' = Still
    /\ UNCHANGED <<now, lifting>>

\* Reading an untrusted store may yield anything; reading a trusted one
\* changes nothing, which is Quiet.
Reread ==
    /\ ~trusted
    /\ bans' \in Bans /\ trusted' \in BOOLEAN /\ answer' = {}
    /\ before' = Still
    /\ UNCHANGED <<now, lifting>>

\* Time goes by, and temporary bans may go when it is over.
Tick ==
    /\ now' = now + 1
    /\ bans' = [bans EXCEPT !.ips = [p \in IPs |-> bans'.ips[p]]]
    /\ \A p \in IPs :
         /\ bans'.ips[p] \subseteq bans.ips[p]
         /\ \A until \in bans.ips[p] \ bans'.ips[p] : until # Perm /\ until <= now'
    /\ before' = Still
    /\ answer' = {}
    /\ UNCHANGED <<trusted, lifting>>

Next ==
    \/ \E a \in answer' : \/ Succeed(a.call) \/ Fail(a.call) \/ Doubt(a.call)
                          \/ \E ok \in BOOLEAN : EndUnban(a.call, ok)
    \/ \E p \in IPs : BeginUnban(p)
    \/ Quiet \/ Unreadable \/ Reread \/ Tick

Spec == Init /\ [][Next]_vars
=============================================================================
