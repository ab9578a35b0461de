------------------------------ MODULE Sessions ------------------------------
(***************************************************************************)
(* The life of a client connection of the Hotline server: login, ban       *)
(* checks, registration with the client manager, service, and the several  *)
(* ways of being disconnected, as run by one goroutine per connection      *)
(* (hotline/server.go), by the delayed Disconnect goroutines that the user *)
(* handlers start (internal/mobius/transaction_handlers.go) and by the     *)
(* REST handlers for bans (internal/mobius/api.go).  Each action is the    *)
(* work between two points at which another goroutine may run: a lock of   *)
(* the client manager, the ban list, the accounts or the statistics.       *)
(***************************************************************************)
EXTENDS Integers, FiniteSets

CONSTANTS
    Conns,         \* accepted TCP connections
    IPs,           \* remote addresses
    IPOf,          \* the remote address of each connection
    Logins,        \* account logins
    Nicks,         \* display names
    AccountName,   \* the name stored in each account
    Admins,        \* accounts that may disconnect users and delete accounts
    Protected,     \* accounts with AccessCannotBeDiscon
    AnyName,       \* accounts with AccessAnyName
    BanRequests,   \* the ban and unban requests the REST API may receive
    IDSpace,       \* number of client IDs (2^16 in the code)
    MaxRequests,   \* bound: transactions served per connection
    MaxApi,        \* bound: REST requests handled
    NoConn, NoName \* nil connection, empty string

ASSUME ConnsAssumption == IsFiniteSet(Conns) /\ NoConn \notin Conns
ASSUME NamesAssumption ==
    /\ NoName \notin Logins \cup Nicks \cup IPs
    /\ IPOf \in [Conns -> IPs]
    /\ AccountName \in [Logins -> Nicks]
    /\ Admins \subseteq Logins
    /\ Protected \subseteq Logins
    /\ AnyName \subseteq Logins
ASSUME BoundsAssumption ==
    IDSpace \in Nat \ {0} /\ MaxRequests \in Nat /\ MaxApi \in Nat

Optional(S) == S \cup {NoName}

Request == [op: {"ban", "unban"},
            user: Optional(Logins), nick: Optional(Nicks), ip: Optional(IPs)]

ASSUME RequestsAssumption ==
    /\ BanRequests \subseteq Request
    /\ \A r \in BanRequests : {r.user, r.nick, r.ip} # {NoName}

VARIABLES
    pc,        \* what the goroutine of each connection does next
    open,      \* the connection still delivers input
    login,     \* the login name it sent
    account,   \* ClientConn.Account: a login, NoName while nil
    nick,      \* ClientConn.UserName
    id,        \* ClientConn.ID
    evict,     \* the account a DeleteUser handler is about to evict
    left,      \* transactions the peer may still send
    clients,   \* MemClientMgr.clients
    nextID,    \* MemClientMgr.nextClientID
    accounts,  \* logins the account manager holds
    ipBan,     \* BanFile.banList
    userBan,   \* BanFile.bannedUsers
    nickBan,   \* BanFile.bannedNicks
    sleeping,  \* delayed goroutines that have yet to call Disconnect
    closing,   \* delayed goroutines inside Disconnect, before Close
    connected, \* Stats[StatCurrentlyConnected]
    peak,      \* Stats[StatConnectionPeak]
    api,       \* the REST ban handler
    missed     \* history: accounts whose eviction loop panicked

who       == <<login, account, nick, id, evict, left>>
connVars  == <<pc, open, who>>
mgrVars   == <<clients, nextID>>
banVars   == <<ipBan, userBan, nickBan>>
kickVars  == <<sleeping, closing>>
statVars  == <<connected, peak>>
env       == <<mgrVars, accounts, banVars, kickVars, statVars, api, missed>>
vars == <<connVars, env>>

-----------------------------------------------------------------------------
IDs == 0 .. IDSpace - 1

Login_pcs   == {"username", "autoban", "ip", "register"}
Admitting   == {"auth", "account", "announce", "count"}
Counted     == {"peak", "setpeak", "serving", "evict", "nickban", "selfdelete",
                "selfclose", "uncount"}
PCs == {"new", "delete", "close", "gone"} \cup Login_pcs \cup Admitting \cup Counted

\* The connections between NewClientConn and their own deferred Disconnect.
Live == Admitting \cup Counted \cup {"delete"}

Registered == {clients[i] : i \in IDs} \ {NoConn}

\* ClientManager.List visits the registered clients by increasing ID.
FirstOf(S, c) == c \in S /\ \A d \in S : id[c] <= id[d]

BanKinds  == {"none", "temp", "perm"}
ApiPhases == {"idle", "username", "nickname", "ip", "list", "scan", "delete",
              "close", "done", "failed", "panicked"}

TypeOK ==
    /\ pc \in [Conns -> PCs]
    /\ open \in [Conns -> BOOLEAN]
    /\ login \in [Conns -> Optional(Logins)]
    /\ account \in [Conns -> Optional(Logins)]
    /\ nick \in [Conns -> Optional(Nicks)]
    /\ id \in [Conns -> IDs]
    /\ evict \in [Conns -> Optional(Logins)]
    /\ left \in [Conns -> 0 .. MaxRequests]
    /\ clients \in [IDs -> Conns \cup {NoConn}]
    /\ nextID \in Nat
    /\ accounts \subseteq Logins
    /\ ipBan \in [IPs -> BanKinds]
    /\ userBan \subseteq Logins
    /\ nickBan \subseteq Nicks
    /\ sleeping \in [Conns -> Nat]
    /\ closing \in [Conns -> Nat]
    /\ connected \in Nat
    /\ peak \in Nat
    /\ api \in [phase: ApiPhases, req: Request, todo: SUBSET Conns,
                online: SUBSET Conns, left: 0 .. MaxApi]
    /\ missed \subseteq Logins

NoRequest == [op |-> "unban", user |-> NoName, nick |-> NoName, ip |-> NoName]

Init ==
    /\ pc = [c \in Conns |-> "new"]
    /\ open = [c \in Conns |-> TRUE]
    /\ login = [c \in Conns |-> NoName]
    /\ account = [c \in Conns |-> NoName]
    /\ nick = [c \in Conns |-> NoName]
    /\ id = [c \in Conns |-> 0]
    /\ evict = [c \in Conns |-> NoName]
    /\ left = [c \in Conns |-> MaxRequests]
    /\ clients = [i \in IDs |-> NoConn]
    /\ nextID = 0
    /\ accounts = Logins
    /\ ipBan = [p \in IPs |-> "none"]
    /\ userBan = {}
    /\ nickBan = {}
    /\ sleeping = [c \in Conns |-> 0]
    /\ closing = [c \in Conns |-> 0]
    /\ connected = 0
    /\ peak = 0
    /\ api = [phase |-> "idle", req |-> NoRequest, todo |-> {}, online |-> {},
              left |-> MaxApi]
    /\ missed = {}

-----------------------------------------------------------------------------
(* Shared services *)

Step(c, from, to) == pc[c] = from /\ pc' = [pc EXCEPT ![c] = to]

\* MemClientMgr.Delete(cc.ID): by ID, whoever is registered under it.
Unregister(c) == clients' = [clients EXCEPT ![id[c]] = NoConn]

Close(c) == open' = [open EXCEPT ![c] = FALSE]

\* BanFile.Add: kept in memory only if the file could be saved.
AddBan(p, kind) ==
    \/ ipBan' = [ipBan EXCEPT ![p] = kind]
    \/ UNCHANGED ipBan

-----------------------------------------------------------------------------
(* handleNewConnection, up to the service loop *)

\* Handshake done and the login transaction read.
ReadLogin(c) ==
    /\ Step(c, "new", "username")
    /\ open[c]
    /\ \E l \in Logins : login' = [login EXCEPT ![c] = l]
    /\ UNCHANGED <<open, account, nick, id, evict, left, env>>

\* Handshake or login transaction could not be read: nothing to undo.
LoginFails(c) ==
    /\ Step(c, "new", "gone")
    /\ Close(c)
    /\ UNCHANGED <<who, env>>

CheckUsername(c) ==
    /\ Step(c, "username", IF login[c] \in userBan THEN "autoban" ELSE "ip")
    /\ UNCHANGED <<open, who, env>>

\* A banned user name bans the address it came from, for good.
AutoBan(c) ==
    /\ Step(c, "autoban", "gone")
    /\ AddBan(IPOf[c], "perm")
    /\ Close(c)
    /\ UNCHANGED <<who, mgrVars, accounts, userBan, nickBan, kickVars,
                   statVars, api, missed>>

CheckIP(c) ==
    /\ \/ Step(c, "ip", "register") /\ ipBan[IPOf[c]] = "none" /\ UNCHANGED open
       \/ Step(c, "ip", "gone") /\ ipBan[IPOf[c]] # "none" /\ Close(c)
    /\ UNCHANGED <<who, env>>

\* NewClientConn: enter c in the client manager under ID i.
AddAs(c, i) ==
    /\ Step(c, "register", "auth")
    /\ nextID' = nextID + 1
    /\ id' = [id EXCEPT ![c] = i]
    /\ clients' = [clients EXCEPT ![i] = c]
    /\ UNCHANGED <<open, login, account, nick, evict, left, accounts, banVars,
                   kickVars, statVars, api, missed>>

\* Mutant: the ID is computed from the number of clients, so it can be reused.
RegisterByCount(c) == AddAs(c, (Cardinality(Registered) + 1) % IDSpace)

\* The ID is the low part of a counter that is never checked against the IDs
\* in use.
Register(c) == AddAs(c, (nextID + 1) % IDSpace)

\* Mutant: a wrong password returns before the cleanup was deferred.
AuthenticateNoCleanup(c) ==
    /\ \/ Step(c, "auth", "account") /\ login[c] \in accounts
       \/ Step(c, "auth", "gone")
    /\ UNCHANGED <<open, who, env>>

\* The password is right only if the account exists.
Authenticate(c) ==
    /\ \/ Step(c, "auth", "account") /\ login[c] \in accounts
       \/ Step(c, "auth", "delete")
    /\ UNCHANGED <<open, who, env>>

\* The account is fetched a second time, and may be gone by now.
LoadAccount(c) ==
    /\ \/ /\ Step(c, "account", "announce")
          /\ login[c] \in accounts
          /\ account' = [account EXCEPT ![c] = login[c]]
       \/ /\ Step(c, "account", "delete")
          /\ login[c] \notin accounts
          /\ UNCHANGED account
    /\ UNCHANGED <<open, login, nick, id, evict, left, env>>

\* Mutant: the account's login in place of its name.
NamedByLogin(c, n) == IF account[c] \in AnyName THEN n ELSE account[c]

\* The name a client asks for, if its account lets it choose.
Named(c, n) == IF account[c] \in AnyName THEN n ELSE AccountName[account[c]]

\* A client of the 1.2.3 login flow sends its name with the login.
Announce(c) ==
    /\ Step(c, "announce", "count")
    /\ \/ UNCHANGED nick
       \/ \E n \in Nicks : nick' = [nick EXCEPT ![c] = Named(c, n)]
    /\ UNCHANGED <<open, login, account, id, evict, left, env>>

Count(c) ==
    /\ Step(c, "count", "peak")
    /\ connected' = connected + 1
    /\ UNCHANGED <<open, who, mgrVars, accounts, banVars, kickVars, peak,
                   api, missed>>

ComparePeak(c) ==
    /\ Step(c, "peak", IF Cardinality(Registered) > peak THEN "setpeak"
                                                         ELSE "serving")
    /\ UNCHANGED <<open, who, env>>

\* The list is taken anew: it may have shrunk since the comparison.
SetPeak(c) ==
    /\ Step(c, "setpeak", "serving")
    /\ peak' = Cardinality(Registered)
    /\ UNCHANGED <<open, who, mgrVars, accounts, banVars, kickVars,
                   connected, api, missed>>

-----------------------------------------------------------------------------
(* The service loop and its handlers *)

\* Input already buffered is still handled after the connection was closed.
Receive(c) ==
    /\ pc[c] = "serving"
    /\ left[c] > 0
    /\ left' = [left EXCEPT ![c] = @ - 1]

\* HandleTranAgreed: a banned name, sent now or with the login, ends the session;
\* so does a request without options, by a panic.
Agreed(c) ==
    /\ Receive(c)
    /\ \/ UNCHANGED nick
       \/ \E n \in Nicks : nick' = [nick EXCEPT ![c] = Named(c, n)]
    /\ \/ nick'[c] \in nickBan /\ Step(c, "serving", "nickban")
       \/ nick'[c] \notin nickBan /\ Step(c, "serving", "serving")
       \/ nick'[c] \notin nickBan /\ Step(c, "serving", "uncount")
    /\ UNCHANGED <<open, login, account, id, evict, env>>

\* HandleSetClientUserInfo looks at the name only if the account may choose it.
SetClientUserInfo(c) ==
    /\ Receive(c)
    /\ account[c] \in AnyName
    /\ \E n \in Nicks :
         /\ nick' = [nick EXCEPT ![c] = n]
         /\ Step(c, "serving", IF n \in nickBan THEN "nickban" ELSE "serving")
    /\ UNCHANGED <<open, login, account, id, evict, env>>

BanOwnIP(c) ==
    /\ Step(c, "nickban", "selfdelete")
    /\ AddBan(IPOf[c], "perm")
    /\ UNCHANGED <<open, who, mgrVars, accounts, userBan, nickBan, kickVars,
                   statVars, api, missed>>

SelfDelete(c) ==
    /\ Step(c, "selfdelete", "selfclose")
    /\ Unregister(c)
    /\ UNCHANGED <<open, who, nextID, accounts, banVars, kickVars, statVars,
                   api, missed>>

SelfClose(c) ==
    /\ Step(c, "selfclose", "serving")
    /\ Close(c)
    /\ UNCHANGED <<who, env>>

\* HandleDisconnectUser on the client with ID i.  An unknown ID is a nil
\* dereference: the panic ends the caller's own session.
DisconnectUser(c, i, kind) ==
    /\ Receive(c)
    /\ account[c] \in Admins
    /\ LET d == clients[i]
       IN  \/ /\ d = NoConn
              /\ Step(c, "serving", "uncount")
              /\ UNCHANGED <<ipBan, sleeping>>
           \/ /\ d # NoConn /\ account[d] \in Protected
              /\ Step(c, "serving", "serving")
              /\ UNCHANGED <<ipBan, sleeping>>
           \/ /\ d # NoConn /\ account[d] \notin Protected
              /\ Step(c, "serving", "serving")
              /\ IF kind = "none" THEN UNCHANGED ipBan ELSE AddBan(IPOf[d], kind)
              /\ sleeping' = [sleeping EXCEPT ![d] = @ + 1]
    /\ UNCHANGED <<open, login, account, nick, id, evict, mgrVars, accounts,
                   userBan, nickBan, closing, statVars, api, missed>>

\* HandleDeleteUser, and the deletion branch of HandleUpdateUser: first the
\* account goes (unless it cannot be deleted) ...
DeleteUser(c, l) ==
    /\ Receive(c)
    /\ account[c] \in Admins
    /\ l \in accounts
    /\ Step(c, "serving", "evict")
    /\ evict' = [evict EXCEPT ![c] = l]
    /\ accounts' = accounts \ {l}
    /\ UNCHANGED <<open, login, account, nick, id, mgrVars, banVars,
                   kickVars, statVars, api, missed>>

\* ... then every client logged in with it gets a delayed Disconnect.  A listed
\* client that has no Account yet is a nil dereference: the clients after it
\* are not visited and the panic ends the caller's session.
EvictLoop(c, spared, panic) ==
    LET nils    == {d \in Registered : account[d] = NoName}
        visited == {d \in Registered : \A n \in nils : id[d] < id[n]}
        hit     == {d \in visited \ spared : account[d] = evict[c]}
    IN  /\ Step(c, "evict", IF nils = {} THEN "serving" ELSE panic)
        /\ sleeping' = [d \in Conns |-> sleeping[d] + IF d \in hit THEN 1 ELSE 0]
        /\ missed' = IF nils = {} THEN missed ELSE missed \cup {evict[c]}
        /\ UNCHANGED <<open, who, mgrVars, accounts, banVars, closing, statVars,
                       api>>

\* Mutant: the administrator's own client is passed over.
EvictOthers(c) == EvictLoop(c, {c}, "uncount")

\* Mutant: a panic skips the decrement, as if it were not deferred.
EvictPanicUncounted(c) == EvictLoop(c, {}, "delete")

EvictUsers(c) == EvictLoop(c, {}, "uncount")

\* A malformed transaction ends the loop.
Malformed(c) ==
    /\ Receive(c)
    /\ Step(c, "serving", "uncount")
    /\ UNCHANGED <<open, login, account, nick, id, evict, env>>

EndOfInput(c) ==
    /\ ~open[c]
    /\ Step(c, "serving", "uncount")
    /\ UNCHANGED <<open, who, env>>

-----------------------------------------------------------------------------
(* The deferred calls of handleNewConnection, last one first *)

Uncount(c) ==
    /\ Step(c, "uncount", "delete")
    /\ connected' = IF connected > 0 THEN connected - 1 ELSE 0
    /\ UNCHANGED <<open, who, mgrVars, accounts, banVars, kickVars, peak,
                   api, missed>>

DisconnectDelete(c) ==
    /\ Step(c, "delete", "close")
    /\ Unregister(c)
    /\ UNCHANGED <<open, who, nextID, accounts, banVars, kickVars, statVars,
                   api, missed>>

DisconnectClose(c) ==
    /\ Step(c, "close", "gone")
    /\ Close(c)
    /\ UNCHANGED <<who, env>>

-----------------------------------------------------------------------------
(* The delayed Disconnect goroutines *)

KickDelete(c) ==
    /\ sleeping[c] > 0
    /\ sleeping' = [sleeping EXCEPT ![c] = @ - 1]
    /\ closing' = [closing EXCEPT ![c] = @ + 1]
    /\ Unregister(c)
    /\ UNCHANGED <<connVars, nextID, accounts, banVars, statVars, api, missed>>

\* Mutant: the client is unregistered but its connection left open.
KickNoClose(c) ==
    /\ closing[c] > 0
    /\ closing' = [closing EXCEPT ![c] = @ - 1]
    /\ UNCHANGED <<connVars, mgrVars, accounts, banVars, sleeping, statVars,
                   api, missed>>

KickClose(c) ==
    /\ closing[c] > 0
    /\ closing' = [closing EXCEPT ![c] = @ - 1]
    /\ Close(c)
    /\ UNCHANGED <<pc, who, mgrVars, accounts, banVars, sleeping, statVars,
                   api, missed>>

-----------------------------------------------------------------------------
(* BanHandler and UnbanHandler of the REST API, one request at a time *)

ApiRequest(r) ==
    /\ api.phase \in {"idle", "done", "failed", "panicked"}
    /\ api.left > 0
    /\ api' = [phase |-> "username", req |-> r, todo |-> {}, online |-> {},
               left |-> api.left - 1]
    /\ UNCHANGED <<connVars, mgrVars, accounts, banVars, kickVars, statVars,
                   missed>>

\* One of the three ban calls: skipped for an absent field; it fails, and ends
\* the request, when the ban list cannot be saved.
ApiCall(from, to, field, effect, unchanged) ==
    /\ api.phase = from
    /\ \/ field = NoName /\ unchanged /\ api' = [api EXCEPT !.phase = to]
       \/ field # NoName /\ effect /\ api' = [api EXCEPT !.phase = to]
       \/ field # NoName /\ unchanged /\ api' = [api EXCEPT !.phase = "failed"]
    /\ UNCHANGED <<connVars, mgrVars, accounts, kickVars, statVars, missed>>

Toggle(S, x) == IF api.req.op = "ban" THEN S \cup {x} ELSE S \ {x}

ApiUsername ==
    /\ ApiCall("username", "nickname", api.req.user,
               userBan' = Toggle(userBan, api.req.user), UNCHANGED userBan)
    /\ UNCHANGED <<ipBan, nickBan>>

ApiNickname ==
    /\ ApiCall("nickname", "ip", api.req.nick,
               nickBan' = Toggle(nickBan, api.req.nick), UNCHANGED nickBan)
    /\ UNCHANGED <<ipBan, userBan>>

ApiIP ==
    /\ ApiCall("ip", IF api.req.op = "ban" THEN "list" ELSE "done", api.req.ip,
               ipBan' = [ipBan EXCEPT ![api.req.ip] =
                            IF api.req.op = "ban" THEN "perm" ELSE "none"],
               UNCHANGED ipBan)
    /\ UNCHANGED <<userBan, nickBan>>

Matches(c) ==
    \/ api.req.user # NoName /\ account[c] = api.req.user
    \/ api.req.nick # NoName /\ nick[c] = api.req.nick
    \/ api.req.ip # NoName /\ IPOf[c] = api.req.ip

ApiList ==
    /\ api.phase = "list"
    /\ api' = [api EXCEPT !.phase = "scan", !.todo = Registered,
                          !.online = {c \in Registered : Matches(c)}]
    /\ UNCHANGED <<connVars, mgrVars, accounts, banVars, kickVars, statVars,
                   missed>>

\* The next listed client is compared with the request.  With a user name in
\* the request, a client that has no Account yet is a nil dereference.
ApiScan ==
    /\ api.phase = "scan"
    /\ \/ api.todo = {} /\ api' = [api EXCEPT !.phase = "done"]
       \/ \E c \in Conns :
            /\ FirstOf(api.todo, c)
            /\ \/ /\ api.req.user # NoName /\ account[c] = NoName
                  /\ api' = [api EXCEPT !.phase = "panicked"]
               \/ /\ api.req.user = NoName \/ account[c] # NoName
                  /\ Matches(c)
                  /\ api' = [api EXCEPT !.phase = "delete"]
               \/ /\ api.req.user = NoName \/ account[c] # NoName
                  /\ ~Matches(c)
                  /\ api' = [api EXCEPT !.todo = @ \ {c}]
    /\ UNCHANGED <<connVars, mgrVars, accounts, banVars, kickVars, statVars,
                   missed>>

ApiDelete ==
    /\ api.phase = "delete"
    /\ \E c \in Conns : FirstOf(api.todo, c) /\ Unregister(c)
    /\ api' = [api EXCEPT !.phase = "close"]
    /\ UNCHANGED <<connVars, nextID, accounts, banVars, kickVars, statVars,
                   missed>>

CloseMatch(next) ==
    /\ api.phase = "close"
    /\ \E c \in Conns :
         /\ FirstOf(api.todo, c)
         /\ Close(c)
         /\ api' = [api EXCEPT !.phase = next, !.todo = @ \ {c}]
    /\ UNCHANGED <<pc, who, mgrVars, accounts, banVars, kickVars, statVars,
                   missed>>

\* Mutant: the handler is content with the first match.
ApiCloseFirst == CloseMatch("done")

ApiClose == CloseMatch("scan")

-----------------------------------------------------------------------------
(* Environment *)

\* The end of a peer's input is only noticed by the service loop; before that,
\* see LoginFails.
PeerCloses(c) ==
    /\ open[c] /\ pc[c] = "serving"
    /\ Close(c)
    /\ UNCHANGED <<pc, who, env>>

\* The half hour of a temporary ban runs out.
BanExpires(p) ==
    /\ ipBan[p] = "temp"
    /\ ipBan' = [ipBan EXCEPT ![p] = "none"]
    /\ UNCHANGED <<connVars, mgrVars, accounts, userBan, nickBan, kickVars,
                   statVars, api, missed>>

-----------------------------------------------------------------------------
\* What a connection's goroutine does by itself once the login was read.
Progress(c) ==
    \/ CheckUsername(c) \/ AutoBan(c) \/ CheckIP(c) \/ Register(c)
    \/ Authenticate(c) \/ LoadAccount(c) \/ Announce(c) \/ Count(c)
    \/ ComparePeak(c) \/ SetPeak(c)
    \/ BanOwnIP(c) \/ SelfDelete(c) \/ SelfClose(c) \/ EvictUsers(c)
    \/ EndOfInput(c) \/ Uncount(c) \/ DisconnectDelete(c) \/ DisconnectClose(c)

Serve(c) ==
    \/ Agreed(c) \/ SetClientUserInfo(c)
    \/ \E i \in IDs, kind \in BanKinds : DisconnectUser(c, i, kind)
    \/ \E l \in Logins : DeleteUser(c, l)
    \/ Malformed(c)

Kick(c) == KickDelete(c) \/ KickClose(c)

ApiHandler ==
    \/ ApiUsername \/ ApiNickname \/ ApiIP \/ ApiList \/ ApiScan
    \/ ApiDelete \/ ApiClose

Next ==
    \/ \E c \in Conns : \/ ReadLogin(c) \/ LoginFails(c) \/ PeerCloses(c)
                        \/ Progress(c) \/ Serve(c) \/ Kick(c)
    \/ \E r \in BanRequests : ApiRequest(r)
    \/ ApiHandler
    \/ \E p \in IPs : BanExpires(p)

Spec == Init /\ [][Next]_vars

\* Goroutines that are able to run are run; peers, administrators and clocks
\* promise nothing.
FairSpec ==
    /\ Spec
    /\ \A c \in Conns : WF_vars(Progress(c)) /\ WF_vars(Kick(c))
    /\ WF_vars(ApiHandler)

-----------------------------------------------------------------------------
(* Properties *)

\* No session leaves its entry behind: once the goroutine of a connection has
\* ended, by whatever path (rejected password, vanished account, panic, kick,
\* API ban), the client manager no longer lists it.
NoGhostClient == \A c \in Conns : pc[c] = "gone" => c \notin Registered

\* The statistic CurrentlyConnected is the number of sessions being served,
\* whatever the order of increments, clamped decrements and panics.
CountMatchesSessions ==
    connected = Cardinality({c \in Conns : pc[c] \in Counted})

\* Until the 16-bit client IDs wrap around, a connection past NewClientConn is
\* found in the client manager under its ID unless some Disconnect of this
\* very connection has run: nobody else's removes it.
ServedIsListed ==
    nextID < IDSpace =>
        \A c \in Conns :
            pc[c] \in Live /\ open[c] /\ closing[c] = 0 /\ pc[c] # "selfclose"
            /\ ~(api.phase = "close" /\ FirstOf(api.todo, c))
                => clients[id[c]] = c

\* Deleting an account evicts everybody logged in with it, also those whose
\* login overlaps the deletion, unless the eviction loop panicked.
DeletedAccountEvicted ==
    \A c \in Conns :
        account[c] \notin accounts \cup missed \cup {NoName} =>
            \/ \E d \in Conns : pc[d] = "evict" /\ evict[d] = account[c]
            \/ sleeping[c] > 0
            \/ c \notin Registered

\* BanHandler: "The user will be disconnected if currently online and added to
\* the ban list."  When the request is answered, no client that was listed and
\* matched by user name or by address is still connected.  (The handler may
\* instead panic at a client that is logging in, and answer nothing.)
BanDisconnects ==
    api.phase = "done" /\ api.req.op = "ban" =>
        \A c \in api.online :
            account[c] = api.req.user \/ IPOf[c] = api.req.ip => ~open[c]

\* Whoever is being evicted, by a delayed Disconnect or for a banned nickname,
\* is gone in the end, and so is its entry.
EvictedLeaves ==
    \A c \in Conns :
        (pc[c] \notin {"new", "gone"} /\ sleeping[c] > 0) \/ pc[c] = "nickban"
            ~> pc[c] = "gone"
=============================================================================
