------------------------------ MODULE Accounts ------------------------------
(***************************************************************************)
(* The account manager (internal/mobius/account_manager.go), one YAML file *)
(* per login with a cache in memory, under the handlers that edit accounts *)
(* (internal/mobius/transaction_handlers.go).  A handler takes a copy of   *)
(* the account with Get, changes the copy and hands it to Update: two lock *)
(* sections, with other sessions in between.  A session keeps a copy of    *)
(* its account from login on, which HandleSetUser brings up to date in a   *)
(* loop over the client list that holds no lock.                           *)
(***************************************************************************)
EXTENDS Integers

CONSTANTS
    Conns,         \* client sessions
    Logins,        \* logins that requests name
    Junk,          \* a login nobody asked for, read from a damaged file
    Rights,        \* access bits; Create, Modify and Delete are three of them
    Create, Modify, Delete,
    Passwords,     \* password hashes
    NoPass,        \* a hash that matches no password
    Keep,          \* the password field of a request that does not change it
    Grants,        \* bound: the access bitmaps that requests carry
    MaxRequests,   \* bound: edits, creations and deletions begun
    MaxFaults,     \* bound: interrupted writes
    None, Bad      \* no account or file, a file that is not YAML

ASSUME NamesAssumption == Junk \notin Logins
ASSUME RightsAssumption ==
    {Create, Modify, Delete} \subseteq Rights /\ Grants \subseteq SUBSET Rights
ASSUME PasswordsAssumption == NoPass \notin Passwords /\ Keep \notin Passwords

ASSUME BoundsAssumption == MaxRequests \in Nat /\ MaxFaults \in Nat

Names    == Logins \cup {Junk}
Hashes   == Passwords \cup {NoPass}
Account  == [login: Names, access: SUBSET Rights, pass: Hashes]
Content  == [acct: Account, fmt: {"old", "new"}]

ASSUME NilAssumption ==
    /\ None \notin Conns
    /\ None \notin Account \cup Content
    /\ Bad \notin Content \cup {None}

VARIABLES
    up,       \* the server runs
    cache,    \* YAMLAccountManager.accounts
    files,    \* the account directory
    conn,     \* per session: its stage, login and copy of the account
    op,       \* per session: the handler between two steps
    damaged,  \* history: logins an interrupted operation was about
    initial,  \* history: the rights that some account had at first
    stale,    \* history: logins whose sessions may not know of a change
    requests, \* requests handled so far
    faults    \* interrupted writes so far

vars == <<up, cache, files, conn, op, damaged, initial, stale, requests, faults>>

Stages == {"out", "nil", "got", "in"}
Out    == [at |-> "out", login |-> Junk, acct |-> None]
Idle   == [kind |-> "none", acct |-> None, to |-> Junk, notify |-> FALSE, todo |-> {}]

TypeOK ==
    /\ up \in BOOLEAN
    /\ cache \in [Names -> Account \cup {None}]
    /\ files \in [Names -> Content \cup {None, Bad}]
    /\ conn \in [Conns -> [at: Stages, login: Names, acct: Account \cup {None}]]
    /\ op \in [Conns -> [kind: {"none", "update", "create", "notify", "tell"},
                         acct: Account \cup {None}, to: Names, notify: BOOLEAN,
                         todo: SUBSET (Conns \cup {None})]]
    /\ damaged \subseteq Names
    /\ initial \subseteq Rights
    /\ stale \subseteq Names
    /\ requests \in 0 .. MaxRequests
    /\ faults \in 0 .. MaxFaults
    /\ \A c \in Conns : conn[c].at \in {"got", "in"} => conn[c].acct \in Account
    /\ \A c \in Conns : op[c].kind # "none" => op[c].acct \in Account

Text(a) == [acct |-> a, fmt |-> "new"]

\* What an interrupted write of an account leaves: no login yet, a login but
\* no access, part of the access, or something that is not YAML.
Interrupted(a) ==
    {Bad, [acct |-> [login |-> Junk, access |-> {}, pass |-> NoPass], fmt |-> "old"],
          [acct |-> [a EXCEPT !.access = {}, !.pass = NoPass], fmt |-> "old"]}
    \cup {Text([a EXCEPT !.access = S]) : S \in SUBSET a.access}

Fault == faults < MaxFaults /\ faults' = faults + 1

\* Well-formed account files, all in the old or all in the new format.
Init ==
    /\ \E S \in (SUBSET Logins) \ {{}}, g \in [Logins -> Grants],
          p \in Passwords, f \in {"old", "new"} :
         /\ files = [n \in Names |->
              IF n \in S
              THEN [acct |-> [login |-> n, access |-> g[n], pass |-> p], fmt |-> f]
              ELSE None]
         /\ initial = UNION {g[n] : n \in S}
    /\ up = FALSE
    /\ cache = [n \in Names |-> None]
    /\ conn = [c \in Conns |-> Out]
    /\ op = [c \in Conns |-> Idle]
    /\ damaged = {Junk}
    /\ stale = {}
    /\ requests = 0
    /\ faults = 0

-----------------------------------------------------------------------------
(* Login: the session is listed before it has an Account *)

Login(c, l) ==
    /\ up /\ conn[c].at = "out" /\ cache[l] # None
    /\ conn' = [conn EXCEPT ![c] = [at |-> "nil", login |-> l, acct |-> None]]
    /\ UNCHANGED <<up, cache, files, op, damaged, initial, stale, requests, faults>>

\* Sessions S are left out of the rest of a loop that tells sessions.
Without(o, S) == IF o.kind = "tell" /\ o.todo \subseteq S THEN Idle
                 ELSE [o EXCEPT !.todo = @ \ S]

\* A loop that has yet to look at c will find an entry without an Account.
Forsaken(o, c) == IF c \in o.todo THEN [o EXCEPT !.todo = (@ \ {c}) \cup {None}] ELSE o

\* Mutant: the account is not looked at again.
GetAccountUnchecked(c) ==
    /\ conn[c].at = "nil"
    /\ conn' = [conn EXCEPT ![c].at = "got", ![c].acct = cache[conn[c].login]]
    /\ UNCHANGED <<up, cache, files, op, damaged, initial, stale, requests, faults>>

\* The account is fetched a second time, and may be gone by now.
GetAccount(c) ==
    /\ conn[c].at = "nil"
    /\ LET a == cache[conn[c].login]
       IN  IF a = None
           THEN /\ conn' = [conn EXCEPT ![c] = Out]
                /\ op' = [d \in Conns |-> Forsaken(op[d], c)]
           ELSE /\ conn' = [conn EXCEPT ![c].at = "got", ![c].acct = a]
                /\ UNCHANGED op
    /\ UNCHANGED <<up, cache, files, damaged, initial, stale, requests, faults>>

AssignAccount(c) ==
    /\ conn[c].at = "got"
    /\ conn' = [conn EXCEPT ![c].at = "in"]
    /\ UNCHANGED <<up, cache, files, op, damaged, initial, stale, requests, faults>>

Leave(c) ==
    /\ conn[c].at = "in" /\ op[c] = Idle
    /\ conn' = [conn EXCEPT ![c] = Out]
    /\ op' = [d \in Conns |-> Without(op[d], {c})]
    /\ UNCHANGED <<up, cache, files, damaged, initial, stale, requests, faults>>

-----------------------------------------------------------------------------
(* The first lock section of a handler *)

Authorized(c, right) ==
    conn[c].at = "in" /\ op[c] = Idle /\ right \in conn[c].acct.access

Handle(c, o) ==
    /\ requests < MaxRequests
    /\ requests' = requests + 1
    /\ op' = [op EXCEPT ![c] = o]
    /\ UNCHANGED <<up, cache, files, conn, damaged, initial, stale, faults>>

Edited(a, access, p) ==
    [a EXCEPT !.access = access, !.pass = IF p = Keep THEN @ ELSE p]

SetUser(c, l, access, p) ==
    /\ Authorized(c, Modify)
    /\ cache[l] # None
    /\ Handle(c, [Idle EXCEPT !.kind = "update", !.acct = Edited(cache[l], access, p),
                           !.to = l, !.notify = TRUE])

\* HandleUpdateUser on an existing account l, renamed to n when n # l.  The
\* request need not carry a new access bitmap.
UpdateUser(c, l, n, access, p) ==
    /\ Authorized(c, Modify)
    /\ cache[l] # None
    /\ \E g \in {access, cache[l].access} :
         Handle(c, [Idle EXCEPT !.kind = "update", !.acct = Edited(cache[l], g, p), !.to = n])

\* Mutant: the new account's rights are not compared with the creator's.
NewUserUnchecked(c, l, access, p) ==
    /\ Authorized(c, Create)
    /\ Handle(c, [Idle EXCEPT !.kind = "create", !.to = l,
                           !.acct = [login |-> l, access |-> access, pass |-> p]])

\* HandleNewUser, and HandleUpdateUser when the account it names does not
\* exist: nobody creates an account with more rights than its own.
NewUser(c, l, access, p) ==
    /\ Authorized(c, Create)
    /\ \E n \in Logins : cache[n] = None
    /\ access \subseteq conn[c].acct.access
    /\ Handle(c, [Idle EXCEPT !.kind = "create", !.to = l,
                           !.acct = [login |-> l, access |-> access, pass |-> p]])

-----------------------------------------------------------------------------
(* YAMLAccountManager.Create *)

Created(c) ==
    /\ up /\ op[c].kind = "create"
    /\ files[op[c].to] = None
    /\ files' = [files EXCEPT ![op[c].to] = Text(op[c].acct)]
    /\ cache' = [cache EXCEPT ![op[c].to] = op[c].acct]
    /\ stale' = stale \cup {op[c].to}
    /\ op' = [op EXCEPT ![c] = Idle]
    /\ UNCHANGED <<up, conn, damaged, initial, requests, faults>>

\* The file exists or cannot be made; or it is made and not filled.
CreateFails(c) ==
    /\ up /\ op[c].kind = "create"
    /\ \/ UNCHANGED <<files, damaged, faults>>
       \/ /\ Fault
          /\ files[op[c].to] = None
          /\ \E t \in Interrupted(op[c].acct) :
                files' = [files EXCEPT ![op[c].to] = t]
          /\ damaged' = damaged \cup {op[c].to}
    /\ op' = [op EXCEPT ![c] = Idle]
    /\ UNCHANGED <<up, cache, conn, initial, stale, requests>>

Halt ==
    /\ up' = FALSE
    /\ cache' = [n \in Names |-> None]
    /\ conn' = [d \in Conns |-> Out]
    /\ op' = [d \in Conns |-> Idle]

CrashCreating(c) ==
    /\ Fault
    /\ up /\ op[c].kind = "create"
    /\ files[op[c].to] = None
    /\ \E t \in Interrupted(op[c].acct) : files' = [files EXCEPT ![op[c].to] = t]
    /\ damaged' = damaged \cup {op[c].to}
    /\ Halt
    /\ UNCHANGED <<initial, stale, requests>>

-----------------------------------------------------------------------------
(* YAMLAccountManager.Update *)

\* The sessions that go through the client list to tell those of login l.
Tellers(l) == {c \in Conns : op[c].kind = "tell" /\ op[c].to = l}

Renaming(c) == op[c].acct.login # op[c].to

\* The account under its new login.
Renamed(c) == [op[c].acct EXCEPT !.login = op[c].to]

\* File and cache after the rename; an existing account of that login is
\* overwritten.
RenamedFiles(c) ==
    IF Renaming(c)
    THEN [files EXCEPT ![op[c].to] = files[op[c].acct.login],
                       ![op[c].acct.login] = None]
    ELSE files

RenamedCache(c) ==
    IF Renaming(c)
    THEN [cache EXCEPT ![op[c].to] = Renamed(c), ![op[c].acct.login] = None]
    ELSE cache

CanRename(c) == Renaming(c) => files[op[c].acct.login] # None

\* The account need not exist any more: then it does again.
Updated(c) ==
    /\ up /\ op[c].kind = "update" /\ CanRename(c)
    /\ files' = [RenamedFiles(c) EXCEPT ![op[c].to] = Text(Renamed(c))]
    /\ cache' = [RenamedCache(c) EXCEPT ![op[c].to] = Renamed(c)]
    /\ op' = [op EXCEPT ![c] = IF op[c].notify THEN [@ EXCEPT !.kind = "notify"]
                                               ELSE Idle]
    /\ stale' = IF op[c].notify /\ Tellers(op[c].to) = {} THEN stale
                ELSE stale \cup {op[c].acct.login, op[c].to}
    /\ UNCHANGED <<up, conn, damaged, initial, requests, faults>>

RenameFails(c) ==
    /\ up /\ op[c].kind = "update" /\ Renaming(c)
    /\ op' = [op EXCEPT ![c] = Idle]
    /\ UNCHANGED <<up, cache, files, conn, damaged, initial, stale, requests, faults>>

\* What a write that fails, or is cut off, leaves of the directory.
HalfUpdated(c) ==
    {RenamedFiles(c)} \cup
    {[RenamedFiles(c) EXCEPT ![op[c].to] = t] : t \in Interrupted(Renamed(c))}

Spoils(c) == IF UNCHANGED files THEN damaged
             ELSE damaged \cup {op[c].acct.login, op[c].to}

\* Mutant: a failed write is not reported until the cache has changed.
WriteFailsCached(c) ==
    /\ Fault
    /\ up /\ op[c].kind = "update" /\ CanRename(c)
    /\ files' \in HalfUpdated(c)
    /\ cache' = [RenamedCache(c) EXCEPT ![op[c].to] = Renamed(c)]
    /\ damaged' = Spoils(c)
    /\ op' = [op EXCEPT ![c] = Idle]
    /\ stale' = stale \cup {op[c].acct.login, op[c].to}
    /\ UNCHANGED <<up, conn, initial, requests>>

\* The cache keeps the new login, not the new access.
WriteFails(c) ==
    /\ Fault
    /\ up /\ op[c].kind = "update" /\ CanRename(c)
    /\ files' \in HalfUpdated(c)
    /\ cache' = RenamedCache(c)
    /\ damaged' = Spoils(c)
    /\ op' = [op EXCEPT ![c] = Idle]
    /\ stale' = IF Renaming(c) THEN stale \cup {op[c].acct.login, op[c].to}
                               ELSE stale
    /\ UNCHANGED <<up, conn, initial, requests>>

CrashUpdating(c) ==
    /\ Fault
    /\ up /\ op[c].kind = "update" /\ CanRename(c)
    /\ files' \in HalfUpdated(c)
    /\ damaged' = Spoils(c)
    /\ Halt
    /\ UNCHANGED <<initial, stale, requests>>

-----------------------------------------------------------------------------
(* HandleSetUser tells the sessions; deletion; start and stop *)

Listed == {d \in Conns : conn[d].at # "out"}
Nils   == {d \in Listed : conn[d].at # "in"}

\* The client list is copied.  The loop over it can be relied on to the end if
\* it tells what is in force now and no other loop tells the same sessions.
ListClients(c) ==
    /\ op[c].kind = "notify"
    /\ op' = [op EXCEPT ![c].kind = "tell", ![c].todo = Listed]
    /\ LET l == op[c].to
       IN  stale' = IF /\ Tellers(l) = {}
                       /\ cache[l] # None /\ cache[l].access = op[c].acct.access
                    THEN stale \ {l} ELSE stale \cup {l}
    /\ UNCHANGED <<up, cache, files, conn, damaged, initial, requests, faults>>

\* One client of the list: it is told if it is logged in as the user.
Tell(c, d) ==
    /\ op[c].kind = "tell" /\ d \in op[c].todo
    /\ conn[d].at = "in"
    /\ conn' = IF conn[d].acct.login # op[c].to THEN conn
               ELSE [conn EXCEPT ![d].acct.access = op[c].acct.access]
    /\ op' = [op EXCEPT ![c] = Without(@, {d})]
    /\ UNCHANGED <<up, cache, files, damaged, initial, stale, requests, faults>>

\* Mutant: clients that have no Account yet are skipped.
SkipsNil(c) ==
    /\ op[c].kind = "tell" /\ op[c].todo \cap (Nils \cup {None}) # {}
    /\ op' = [op EXCEPT ![c] = Without(@, Nils \cup {None})]
    /\ UNCHANGED <<up, cache, files, conn, damaged, initial, stale, requests, faults>>

\* A client without an Account, still listed or not, is a nil dereference: it
\* ends the handler and its session.
TellPanics(c) ==
    /\ op[c].kind = "tell" /\ op[c].todo \cap (Nils \cup {None}) # {}
    /\ conn' = [conn EXCEPT ![c] = Out]
    /\ op' = [d \in Conns |-> IF d = c THEN Idle ELSE Without(op[d], {c})]
    /\ stale' = stale \cup {op[c].to}
    /\ UNCHANGED <<up, cache, files, damaged, initial, requests, faults>>

\* HandleDeleteUser and the deletions of HandleUpdateUser; the eviction of the
\* sessions is in the module Sessions.
DeleteUser(c, l) ==
    /\ Authorized(c, Delete)
    /\ files[l] # None
    /\ requests < MaxRequests
    /\ requests' = requests + 1
    /\ files' = [files EXCEPT ![l] = None]
    /\ cache' = [cache EXCEPT ![l] = None]
    /\ UNCHANGED <<up, conn, op, damaged, initial, stale, faults>>

Crash ==
    /\ up
    /\ Halt
    /\ UNCHANGED <<files, damaged, initial, stale, requests, faults>>

\* The files whose content is an account of login n.
Claims(n) == {m \in Names : files[m] \in Content /\ files[m].acct.login = n}
OldClaims(n) == {m \in Claims(n) : files[m].fmt = "old"}

\* NewYAMLAccountManager: an account is cached under the login its file holds;
\* one in the old format is rewritten.
Start ==
    /\ ~up
    /\ \E n \in Names : files[n] # None
    /\ \A n \in Names : files[n] # Bad
    /\ \E cached, moved \in [Names -> Names] :
         /\ \A n \in Names : Claims(n) # {} => cached[n] \in Claims(n)
         /\ \A n \in Names : OldClaims(n) # {} => moved[n] \in OldClaims(n)
         /\ cache' = [n \in Names |-> IF Claims(n) = {} THEN None
                                      ELSE files[cached[n]].acct]
         /\ files' = [n \in Names |-> IF OldClaims(n) = {} THEN files[n]
                                      ELSE Text(files[moved[n]].acct)]
    /\ up' = TRUE
    /\ stale' = {}
    /\ UNCHANGED <<conn, op, damaged, initial, requests, faults>>

\* The rewriting of one account fails, and with it the start.
StartFails ==
    /\ Fault
    /\ ~up
    /\ \E n \in Names : \E m \in OldClaims(n) :
         /\ \E t \in Interrupted(files[m].acct) : files' = [files EXCEPT ![n] = t]
         /\ damaged' = damaged \cup {n}
    /\ UNCHANGED <<up, cache, conn, op, initial, stale, requests>>

Session(c) ==
    \/ \E l \in Logins : Login(c, l)
    \/ GetAccount(c) \/ AssignAccount(c) \/ Leave(c)
    \/ \E l \in Logins, g \in Grants, p \in Passwords \cup {Keep} :
         \/ SetUser(c, l, g, p)
         \/ \E n \in Logins : UpdateUser(c, l, n, g, p)
    \/ \E l \in Logins, g \in Grants, p \in Passwords : NewUser(c, l, g, p)
    \/ Created(c) \/ CreateFails(c) \/ CrashCreating(c)
    \/ Updated(c) \/ RenameFails(c) \/ WriteFails(c) \/ CrashUpdating(c)
    \/ ListClients(c) \/ (\E d \in Conns : Tell(c, d)) \/ TellPanics(c)
    \/ \E l \in Logins : DeleteUser(c, l)

Next == (\E c \in Conns : Session(c)) \/ Crash \/ Start \/ StartFails

Spec == Init /\ [][Next]_vars

-----------------------------------------------------------------------------
(* Properties *)

\* "It maintains an in-memory cache of accounts and synchronizes with YAML files
\* on disk": whatever sessions edit, rename and delete at the same time, and
\* however often writes fail or the server crashes, the cache and the file of
\* a login agree unless an interrupted operation was about that very login.
UndamagedInSync ==
    \A n \in Names \ damaged :
        /\ files[n] # None => files[n] # Bad /\ files[n].acct.login = n
        /\ up => cache[n] = IF files[n] = None THEN None ELSE files[n].acct

\* "Prevent account from creating new account with greater permission": on a
\* server where nobody may modify accounts, no chain of creations, logins,
\* deletions and crashes gives anybody a right that nobody had at first.
ConfinedRights ==
    Modify \notin initial =>
        /\ \A n \in Names : cache[n] # None => cache[n].access \subseteq initial
        /\ \A c \in Conns : conn[c].at \in {"got", "in"}
                               => conn[c].acct.access \subseteq initial

\* "Notify connected clients logged in as the user of the new access level": a
\* change made by HandleSetUser reaches every session of the account, also one
\* that was logging in meanwhile, unless its loop panicked, a later change
\* overtook it, or the loop of another edit of the same account ran at the
\* same time.  (Two such loops may leave a session with the older rights.)
SessionsAreTold ==
    \A d \in Conns :
        conn[d].at \in {"got", "in"} =>
            LET l == conn[d].acct.login
            IN  \/ l \in stale
                \/ cache[l] = None
                \/ \E c \in Conns : op[c].kind \in {"notify", "tell"} /\ op[c].to = l
                \/ conn[d].acct.access = cache[l].access
=============================================================================
