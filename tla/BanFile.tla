------------------------------- MODULE BanFile ------------------------------
(***************************************************************************)
(* The file-backed ban manager (internal/mobius/ban.go): three maps in     *)
(* memory and Banlist.yaml, which every change rewrites in place.  Writes  *)
(* may fail before or after the file was truncated, the process may crash  *)
(* at any time, the operator may edit the file and ask for a reload.       *)
(***************************************************************************)
EXTENDS Integers

CONSTANTS IPs, Users, Nicks,
          None, Perm,   \* no ban on an address, a ban without an end
          BanDuration,  \* length of a temporary ban
          MaxTime       \* bound on the clock

ASSUME UntilAssumption == None # Perm /\ {None, Perm} \cap Nat = {}
ASSUME TimeAssumption == BanDuration \in Nat /\ MaxTime \in Nat

VARIABLES
    bans,      \* banList, bannedUsers, bannedNicks
    nilList,   \* banList is a nil map
    file,      \* the content of Banlist.yaml
    up,        \* the server runs
    now,       \* the clock
    trusted,   \* history: the file was last written, or read, with success
    answer     \* what the last step returned to its caller, if it did

vars == <<bans, nilList, file, up, now, trusted, answer>>

Until == {None, Perm} \cup Nat
Bans  == [ips: [IPs -> Until], users: SUBSET Users, nicks: SUBSET Nicks]
NoBans == [ips |-> [p \in IPs |-> None], users |-> {}, nicks |-> {}]

\* new: the current format; legacy: a bare map of addresses; empty: no bytes;
\* bad: not decodable.
Kinds == {"absent", "new", "legacy", "empty", "bad"}
Files == [kind: Kinds, bans: Bans]

TypeOK ==
    /\ bans \in Bans
    /\ nilList \in BOOLEAN
    /\ file \in Files
    /\ up \in BOOLEAN
    /\ now \in Nat
    /\ trusted \in BOOLEAN

\* What Load makes of the content of a file.
Decode(f) ==
    CASE f.kind = "new"    -> f.bans
      [] f.kind = "legacy" -> [NoBans EXCEPT !.ips = f.bans.ips]
      [] OTHER             -> NoBans

Written(b) == [kind |-> "new", bans |-> b]

\* What an interrupted write of b leaves: nothing, something that cannot be
\* decoded, or the maps up to some entry, in the order they are written.
Prefixes(b) ==
    {[ips |-> [p \in IPs |-> IF p \in S THEN b.ips[p] ELSE None],
      users |-> {}, nicks |-> {}] : S \in SUBSET IPs}
    \cup {[b EXCEPT !.users = U, !.nicks = {}] : U \in SUBSET b.users}
    \cup {[b EXCEPT !.nicks = N] : N \in SUBSET b.nicks}

Torn(b) == {[kind |-> k, bans |-> NoBans] : k \in {"empty", "bad"}}
           \cup {Written(q) : q \in Prefixes(b)}

\* The server is about to start on what an earlier version, or nobody, left.
Init ==
    /\ \/ file = [kind |-> "absent", bans |-> NoBans]
       \/ \E S \in SUBSET IPs :
            file = [kind |-> "legacy", bans |-> [NoBans EXCEPT !.ips =
                       [p \in IPs |-> IF p \in S THEN Perm ELSE None]]]
    /\ bans = Decode(file)
    /\ nilList = FALSE
    /\ up = FALSE
    /\ now = 0
    /\ trusted = TRUE
    /\ answer = {}

-----------------------------------------------------------------------------
(* Every change: update the map, save, and undo the update if that failed *)

Call(op, on, until) == [op |-> op, on |-> on, until |-> until]

Returns(c, ok) == answer' = {[call |-> c, ok |-> ok]}

Saved(c, b) ==
    /\ file' = Written(b)
    /\ bans' = b
    /\ trusted' = TRUE
    /\ Returns(c, TRUE)
    /\ UNCHANGED <<nilList, up, now>>

\* Mutant: the map keeps a change that could not be saved.
NotRolledBack(c, b) ==
    /\ bans' = b
    /\ Returns(c, FALSE)
    /\ UNCHANGED <<nilList, file, up, now, trusted>>

\* os.WriteFile fails before it truncates the file, or after.
NotSaved(c, b) ==
    /\ \/ UNCHANGED <<file, trusted>>
       \/ file' \in Torn(b) /\ trusted' = FALSE
    /\ Returns(c, FALSE)
    /\ UNCHANGED <<bans, nilList, up, now>>

\* The process dies while the file is written.  What it had in memory is kept
\* in bans, although nobody can read it any more.
DiesSaving(b) ==
    /\ file' \in Torn(b)
    /\ up' = FALSE
    /\ trusted' = FALSE
    /\ answer' = {}
    /\ UNCHANGED <<bans, nilList, now>>

Change(c, b) ==
    /\ up
    /\ Saved(c, b) \/ NotSaved(c, b) \/ DiesSaving(b)

\* Assigning to a nil map panics before anything else happens.
Add(p, until) ==
    /\ ~nilList
    /\ Change(Call("Add", p, until), [bans EXCEPT !.ips[p] = until])

UnbanIP(p) == Change(Call("UnbanIP", p, Perm), [bans EXCEPT !.ips[p] = None])

BanUsername(u) ==
    Change(Call("BanUsername", u, Perm), [bans EXCEPT !.users = @ \cup {u}])

UnbanUsername(u) ==
    Change(Call("UnbanUsername", u, Perm), [bans EXCEPT !.users = @ \ {u}])

BanNickname(n) ==
    Change(Call("BanNickname", n, Perm), [bans EXCEPT !.nicks = @ \cup {n}])

UnbanNickname(n) ==
    Change(Call("UnbanNickname", n, Perm), [bans EXCEPT !.nicks = @ \ {n}])

-----------------------------------------------------------------------------
\* Mutant: a file in the legacy format is taken for an empty one.
LoadNewOnly ==
    /\ bans' = IF file.kind = "legacy" THEN NoBans ELSE Decode(file)
    /\ nilList' = (file.kind = "empty")
    /\ trusted' = (file.kind # "bad")

\* Load with a file that could be read, or that is not there.
Load ==
    /\ bans' = Decode(file)
    /\ nilList' = (file.kind = "empty")
    /\ trusted' = (file.kind # "bad")

\* NewBanFile: the server refuses to start on a file it cannot decode.
Start ==
    /\ ~up
    /\ file.kind # "bad"
    /\ Load
    /\ up' = TRUE
    /\ answer' = {}
    /\ UNCHANGED <<file, now>>

\* The reload request; a decoding error is only logged.
Reload ==
    /\ up
    /\ Load
    /\ answer' = {}
    /\ UNCHANGED <<file, up, now>>

\* The maps are emptied before the file is opened.
ReloadUnreadable ==
    /\ up
    /\ bans' = NoBans
    /\ nilList' = FALSE
    /\ trusted' = FALSE
    /\ answer' = {}
    /\ UNCHANGED <<file, up, now>>

\* The process ends between two changes.
Crash ==
    /\ up
    /\ up' = FALSE
    /\ answer' = {}
    /\ UNCHANGED <<bans, nilList, file, now, trusted>>

\* The operator replaces the file.
EditFile ==
    /\ \E p \in IPs : file' = Written([NoBans EXCEPT !.ips[p] = Perm])
    /\ trusted' = FALSE
    /\ answer' = {}
    /\ UNCHANGED <<bans, nilList, up, now>>

Tick ==
    /\ now < MaxTime
    /\ now' = now + 1
    /\ answer' = {}
    /\ UNCHANGED <<bans, nilList, file, up, trusted>>

Next ==
    \/ \E p \in IPs : Add(p, Perm) \/ Add(p, now + BanDuration) \/ UnbanIP(p)
    \/ \E u \in Users : BanUsername(u) \/ UnbanUsername(u)
    \/ \E n \in Nicks : BanNickname(n) \/ UnbanNickname(n)
    \/ Start \/ Reload \/ ReloadUnreadable \/ Crash \/ EditFile \/ Tick

Spec == Init /\ [][Next]_vars

-----------------------------------------------------------------------------
(* Properties *)

\* As long as no write or read has failed and nobody edited the file, a restart
\* or reload finds in Banlist.yaml exactly the bans the last acknowledged call
\* left in memory: neither a rolled back ban nor one less.
TrustedFileIsCurrent ==
    trusted => Decode(file) = bans /\ file.kind # "bad"

\* The bans in force: at most one at an address.
InForce == [bans EXCEPT !.ips = [p \in IPs |-> {bans.ips[p]} \ {None}]]

Manager == INSTANCE BanMgr WITH bans <- InForce, lifting <- {},
                                before <- [p \in IPs |-> {}], Remote <- FALSE

\* The ban file keeps the promise of a ban manager on a local store: bans come
\* and go only by the calls that ask for it, each done when it returns without
\* an error and undone when it returns one, through restarts and reloads of a
\* file that can be trusted.
ImplementsBanMgr == Manager!Spec
=============================================================================
