------------------------------ MODULE RedisBan ------------------------------
(***************************************************************************)
(* The ban manager that keeps its bans in Redis                            *)
(* (internal/mobius/redis_ban.go): a set of addresses banned for good, a   *)
(* key with an expiration time for each address banned for a while, and    *)
(* sets of names.  Redis carries out one command at a time, but IsBanned   *)
(* is up to three commands and UnbanIP two, with those of other sessions   *)
(* in between.  Any command may fail, and the reply to one that was        *)
(* carried out may be lost: its caller is told of a failure all the same.  *)
(***************************************************************************)
EXTENDS Integers

CONSTANTS IPs, Users, Nicks,
          None, Perm,   \* no ban on an address, a ban without an end
          BanDuration,  \* length of a temporary ban
          MaxTime       \* bound on the clock

VARIABLES
    perm,    \* RedisKeyBannedIPs
    temp,    \* when the key of each address expires, or None
    users,   \* RedisKeyBannedUsers
    nicks,   \* RedisKeyBannedNicknames
    time,    \* the clock
    lifting, \* addresses whose UnbanIP has sent only its first command
    before,  \* history: of the bans there were then, those that are left
    reply,   \* what the last change returned to its caller, if it did
    check    \* a connection in IsBanned

vars == <<perm, temp, users, nicks, time, lifting, before, reply, check>>

NoCheck == [at |-> "none", ip |-> None, kinds |-> {}, reason |-> FALSE]

Init ==
    /\ perm = {} /\ users = {} /\ nicks = {}
    /\ temp = [p \in IPs |-> None]
    /\ time = 0
    /\ lifting = {}
    /\ before = [p \in IPs |-> {}]
    /\ reply = {}
    /\ check = NoCheck

Kinds(P, T, p) == (IF p \in P THEN {"perm"} ELSE {})
                  \cup (IF T[p] # None THEN {"temp"} ELSE {})

\* History: the kinds of ban that have been in force since the check began, and
\* whether one has been in force at any time.
Witness ==
    LET now == Kinds(perm', temp', check.ip)
    IN check' = IF check.at = "none" THEN check
                ELSE [check EXCEPT !.kinds = @ \cap now, !.reason = @ \/ now # {}]

\* The bans at address p.
Terms(P, T, p) == (IF p \in P THEN {Perm} ELSE {}) \cup ({T[p]} \ {None})

\* History: what is left at each address of the bans its UnbanIP found.
Still == [p \in IPs |-> before[p] \cap Terms(perm', temp', p)]

-----------------------------------------------------------------------------
(* Changes *)

Call(op, on, until) == [op |-> op, on |-> on, until |-> until]

Returns(c, ok) == reply' = {[call |-> c, ok |-> ok]}

\* A command is carried out, and its caller learns of it or is told of an error.
\* (A command that is not carried out changes nothing and is no step here.)
Done(c) == \E ok \in BOOLEAN : Returns(c, ok)

Permanent(p) ==
    /\ perm' = perm \cup {p}
    /\ Done(Call("Add", p, Perm))
    /\ UNCHANGED <<temp, users, nicks, time, lifting>>
    /\ before' = Still
    /\ Witness

\* SET with an expiration time.
Temporary(p, until) ==
    /\ until > time
    /\ temp' = [temp EXCEPT ![p] = until]
    /\ Done(Call("Add", p, until))
    /\ UNCHANGED <<perm, users, nicks, time, lifting>>
    /\ before' = Still
    /\ Witness

\* A ban that is over already is not written, which is no failure.
Past(p, until) ==
    /\ until <= time
    /\ Returns(Call("Add", p, until), TRUE)
    /\ UNCHANGED <<perm, temp, users, nicks, time, lifting, before, check>>

Add(p, until) ==
    \/ until = Perm /\ Permanent(p)
    \/ until # Perm /\ (Temporary(p, until) \/ Past(p, until))

\* The first command of the pipeline is carried out.
UnbanIP(p) ==
    /\ p \notin lifting
    /\ perm' = perm \ {p}
    /\ lifting' = lifting \cup {p}
    /\ reply' = {}
    /\ UNCHANGED <<temp, users, nicks, time>>
    /\ before' = [Still EXCEPT ![p] = Terms(perm', temp', p)]
    /\ Witness

\* Mutant: only the error of the first command is looked at.
UnbanHalfChecked(p) ==
    /\ p \in lifting
    /\ lifting' = lifting \ {p}
    /\ temp' \in {temp, [temp EXCEPT ![p] = None]}
    /\ Done(Call("UnbanIP", p, Perm))
    /\ UNCHANGED <<perm, users, nicks, time>>
    /\ before' = [Still EXCEPT ![p] = {}]
    /\ Witness

\* The second command is carried out, or the connection is lost; what Exec
\* returns is no error only if both were and their replies arrived.
UnbanEnds(p) ==
    /\ p \in lifting
    /\ lifting' = lifting \ {p}
    /\ \/ temp' = [temp EXCEPT ![p] = None] /\ Done(Call("UnbanIP", p, Perm))
       \/ temp' = temp /\ Returns(Call("UnbanIP", p, Perm), FALSE)
    /\ UNCHANGED <<perm, users, nicks, time>>
    /\ before' = [Still EXCEPT ![p] = {}]
    /\ Witness

ChangeNames(c, us, ns) ==
    /\ users' = us /\ nicks' = ns
    /\ Done(c)
    /\ UNCHANGED <<perm, temp, time, lifting, before, check>>

BanUsername(u) == ChangeNames(Call("BanUsername", u, Perm), users \cup {u}, nicks)
UnbanUsername(u) == ChangeNames(Call("UnbanUsername", u, Perm), users \ {u}, nicks)
BanNickname(n) == ChangeNames(Call("BanNickname", n, Perm), users, nicks \cup {n})
UnbanNickname(n) == ChangeNames(Call("UnbanNickname", n, Perm), users, nicks \ {n})

\* Keys go when their time comes.
Tick ==
    /\ time < MaxTime
    /\ time' = time + 1
    /\ temp' = [p \in IPs |-> IF temp[p] = time + 1 THEN None ELSE temp[p]]
    /\ reply' = {}
    /\ UNCHANGED <<perm, users, nicks, lifting>>
    /\ before' = Still
    /\ Witness

-----------------------------------------------------------------------------
(* IsBanned *)

AskIfBanned(p) ==
    /\ check.at = "none"
    /\ check' = [at |-> "member", ip |-> p, kinds |-> Kinds(perm, temp, p),
                 reason |-> Kinds(perm, temp, p) # {}]
    /\ UNCHANGED <<perm, temp, users, nicks, time, lifting, before, reply>>

Goto(step) ==
    /\ check' = [check EXCEPT !.at = step]
    /\ UNCHANGED <<perm, temp, users, nicks, time, lifting, before, reply>>

IsMember ==
    /\ check.at = "member"
    /\ Goto(IF check.ip \in perm THEN "yes" ELSE "exists")

Exists ==
    /\ check.at = "exists"
    /\ Goto(IF temp[check.ip] # None THEN "ttl" ELSE "no")

\* A key whose remaining time rounds to no second at all counts as expired, which
\* is Tick and then TTL.
TTL ==
    /\ check.at = "ttl"
    /\ Goto(IF temp[check.ip] # None THEN "yes" ELSE "no")

\* Mutant: a command that failed counts as a negative answer.
FailOpen ==
    /\ check.at \in {"member", "exists", "ttl"}
    /\ Goto("no")

\* Whatever command fails, access is denied.
CommandFails ==
    /\ check.at \in {"member", "exists", "ttl"}
    /\ check' = [check EXCEPT !.at = "yes", !.reason = TRUE]
    /\ UNCHANGED <<perm, temp, users, nicks, time, lifting, before, reply>>

Answered ==
    /\ check.at \in {"yes", "no"}
    /\ check' = NoCheck
    /\ UNCHANGED <<perm, temp, users, nicks, time, lifting, before, reply>>

-----------------------------------------------------------------------------
Next ==
    \/ \E p \in IPs : \/ Add(p, Perm) \/ Add(p, time + BanDuration) \/ Add(p, time)
                      \/ UnbanIP(p) \/ UnbanEnds(p)
                      \/ AskIfBanned(p)
    \/ \E u \in Users : BanUsername(u) \/ UnbanUsername(u)
    \/ \E n \in Nicks : BanNickname(n) \/ UnbanNickname(n)
    \/ Tick \/ IsMember \/ Exists \/ TTL \/ CommandFails \/ Answered

Spec == Init /\ [][Next]_vars

\* The bans in force: an address may have one of each kind.
InForce ==
    [ips |-> [p \in IPs |-> Terms(perm, temp, p)], users |-> users, nicks |-> nicks]

Manager == INSTANCE BanMgr WITH bans <- InForce, now <- time, trusted <- TRUE,
                                answer <- reply, Remote <- TRUE
=============================================================================
