--------------------------- MODULE SessionsProofs ---------------------------
(***************************************************************************)
(* Proofs about Sessions, for any number of connections, names and client  *)
(* IDs: no ended session is listed, the statistic of connected clients is  *)
(* exact, a served session stays listed, whoever loses his account and     *)
(* whoever a ban request matches is disconnected.                          *)
(*                                                                         *)
(* Each theorem takes the parts of the invariant it needs: who has an      *)
(* account (LoggedIn, Unloaded), who is listed and under which ID (Listed, *)
(* FreshIDs), and how far the ban handler has come (Scanned).              *)
(***************************************************************************)
EXTENDS Sessions, FiniteSetTheorems, TLAPS

\* A session that has been announced has an account, and an eviction has a
\* target.
LoggedIn ==
    \A c \in Conns :
        /\ pc[c] \in Counted \cup {"announce", "count"} => account[c] \in Logins
        /\ pc[c] = "evict" => evict[c] \in Logins

\* Whoever is listed is listed under its own ID and is between NewClientConn
\* and its own deferred Disconnect.
Listed ==
    \A i \in IDs : \A c \in Conns :
        clients[i] = c => id[c] = i /\ pc[c] \in Live

\* Connections that have not been given their account yet.
Entering == {"new", "auth", "account"} \cup Login_pcs

\* A client gets an account once, when LoadAccount finds it, and a name only
\* after that.
Unloaded ==
    \A c \in Conns :
        /\ pc[c] \in Entering => account[c] = NoName
        /\ nick[c] # NoName => account[c] # NoName

\* The ban handler's scan: the listed clients that match and were visited are
\* closed, and those not visited are still to do.  A match by user name or
\* address stays one, because account and address do not change.
Scanned ==
    api.phase \in {"scan", "delete", "close", "done"} /\ api.req.op = "ban" =>
        /\ \A c \in api.online :
            /\ IPOf[c] = api.req.ip \/ account[c] # NoName
            /\ account[c] = api.req.user \/ IPOf[c] = api.req.ip
                 => c \in api.todo \/ ~open[c]
        /\ api.phase = "done" => api.todo = {}

\* Before the counter wraps, every connection that a Disconnect can be called
\* on has an ID of its own; ID 0 is nobody's.
FreshIDs ==
    nextID < IDSpace =>
        /\ \A c \in Conns :
             /\ id[c] <= nextID
             /\ pc[c] \in {"new"} \cup Login_pcs => id[c] = 0
             /\ pc[c] \in Live \/ sleeping[c] > 0 \/ c \in api.todo => id[c] # 0
        /\ \A c, d \in Conns : id[c] = id[d] /\ id[c] # 0 => c = d

USE DEF who, connVars, env, mgrVars, banVars, kickVars, statVars
USE ConnsAssumption, NamesAssumption, BoundsAssumption, RequestsAssumption

-----------------------------------------------------------------------------
\* The registered clients are finitely many connections.
LEMMA RegisteredFinite ==
    TypeOK => /\ Registered \subseteq Conns
              /\ Cardinality(Registered) \in Nat
<1> SUFFICES ASSUME TypeOK PROVE Registered \subseteq Conns
                               /\ Cardinality(Registered) \in Nat
  OBVIOUS
<1>1. Registered \subseteq Conns
  BY DEF TypeOK, Registered
<1>2. IsFiniteSet(Registered)
  BY <1>1, FS_Subset
<1>. QED
  BY <1>1, <1>2, FS_CardinalityType

\* The name given to a client of a known account is a name.
LEMMA NamedType ==
    ASSUME NEW c \in Conns, account[c] \in Logins, NEW n \in Nicks
    PROVE  Named(c, n) \in Nicks
  BY DEF Named

\* Every step preserves the types.
LEMMA TypeStep == TypeOK /\ LoggedIn /\ [Next]_vars => TypeOK'
<1> SUFFICES ASSUME TypeOK, LoggedIn, [Next]_vars
             PROVE  TypeOK'
  OBVIOUS
<1> USE DEF Step, Optional, PCs, Login_pcs, Admitting, Counted, Close
<1>1. ASSUME NEW c \in Conns, ReadLogin(c)
      PROVE  TypeOK'
  BY <1>1 DEF TypeOK, ReadLogin
<1>2. ASSUME NEW c \in Conns, LoginFails(c)
      PROVE  TypeOK'
  BY <1>2 DEF TypeOK, LoginFails
<1>3. ASSUME NEW c \in Conns, CheckUsername(c)
      PROVE  TypeOK'
  BY <1>3 DEF TypeOK, CheckUsername
<1>4. ASSUME NEW c \in Conns, AutoBan(c)
      PROVE  TypeOK'
  BY <1>4 DEF TypeOK, AutoBan, AddBan, BanKinds
<1>5. ASSUME NEW c \in Conns, CheckIP(c)
      PROVE  TypeOK'
  BY <1>5 DEF TypeOK, CheckIP
<1>6. ASSUME NEW c \in Conns, Register(c)
      PROVE  TypeOK'
  BY <1>6 DEF TypeOK, Register, AddAs, IDs
<1>7. ASSUME NEW c \in Conns, Authenticate(c)
      PROVE  TypeOK'
  BY <1>7 DEF TypeOK, Authenticate
<1>8. ASSUME NEW c \in Conns, LoadAccount(c)
      PROVE  TypeOK'
  BY <1>8 DEF TypeOK, LoadAccount
<1>9. ASSUME NEW c \in Conns, Announce(c)
      PROVE  TypeOK'
  BY <1>9, NamedType DEF TypeOK, LoggedIn, Announce
<1>10. ASSUME NEW c \in Conns, Count(c)
      PROVE  TypeOK'
  BY <1>10 DEF TypeOK, Count
<1>11. ASSUME NEW c \in Conns, ComparePeak(c)
      PROVE  TypeOK'
  BY <1>11 DEF TypeOK, ComparePeak
<1>12. ASSUME NEW c \in Conns, SetPeak(c)
      PROVE  TypeOK'
  BY <1>12, RegisteredFinite DEF TypeOK, SetPeak
<1>13. ASSUME NEW c \in Conns, Agreed(c)
      PROVE  TypeOK'
  BY <1>13, NamedType DEF TypeOK, LoggedIn, Agreed, Receive
<1>14. ASSUME NEW c \in Conns, SetClientUserInfo(c)
      PROVE  TypeOK'
  BY <1>14 DEF TypeOK, SetClientUserInfo, Receive
<1>15. ASSUME NEW c \in Conns, BanOwnIP(c)
      PROVE  TypeOK'
  BY <1>15 DEF TypeOK, BanOwnIP, AddBan, BanKinds
<1>16. ASSUME NEW c \in Conns, SelfDelete(c)
      PROVE  TypeOK'
  BY <1>16 DEF TypeOK, SelfDelete, Unregister, IDs
<1>17. ASSUME NEW c \in Conns, SelfClose(c)
      PROVE  TypeOK'
  BY <1>17 DEF TypeOK, SelfClose
<1>18. ASSUME NEW c \in Conns, NEW i \in IDs, NEW k \in BanKinds, DisconnectUser(c, i, k)
      PROVE  TypeOK'
  BY <1>18 DEF TypeOK, DisconnectUser, Receive, AddBan, BanKinds
<1>19. ASSUME NEW c \in Conns, NEW l \in Logins, DeleteUser(c, l)
      PROVE  TypeOK'
  BY <1>19 DEF TypeOK, DeleteUser, Receive
<1>20. ASSUME NEW c \in Conns, EvictUsers(c)
      PROVE  TypeOK'
  <2>1. sleeping' \in [Conns -> Nat]
    BY <1>20 DEF TypeOK, EvictUsers, EvictLoop
  <2>2. missed' \subseteq Logins
    BY <1>20 DEF TypeOK, EvictUsers, EvictLoop, LoggedIn
  <2>. QED
    BY <1>20, <2>1, <2>2 DEF TypeOK, EvictUsers, EvictLoop
<1>21. ASSUME NEW c \in Conns, Malformed(c)
      PROVE  TypeOK'
  BY <1>21 DEF TypeOK, Malformed, Receive
<1>22. ASSUME NEW c \in Conns, EndOfInput(c)
      PROVE  TypeOK'
  BY <1>22 DEF TypeOK, EndOfInput
<1>23. ASSUME NEW c \in Conns, Uncount(c)
      PROVE  TypeOK'
  BY <1>23 DEF TypeOK, Uncount
<1>24. ASSUME NEW c \in Conns, DisconnectDelete(c)
      PROVE  TypeOK'
  BY <1>24 DEF TypeOK, DisconnectDelete, Unregister, IDs
<1>25. ASSUME NEW c \in Conns, DisconnectClose(c)
      PROVE  TypeOK'
  BY <1>25 DEF TypeOK, DisconnectClose
<1>26. ASSUME NEW c \in Conns, KickDelete(c)
      PROVE  TypeOK'
  BY <1>26 DEF TypeOK, KickDelete, Unregister, IDs
<1>27. ASSUME NEW c \in Conns, KickClose(c)
      PROVE  TypeOK'
  BY <1>27 DEF TypeOK, KickClose
<1>28. ASSUME NEW c \in Conns, PeerCloses(c)
      PROVE  TypeOK'
  BY <1>28 DEF TypeOK, PeerCloses
<1>29. ASSUME NEW r \in BanRequests, ApiRequest(r)
      PROVE  TypeOK'
  BY <1>29 DEF TypeOK, ApiRequest, ApiPhases
<1>30. ASSUME ApiUsername
      PROVE  TypeOK'
  BY <1>30 DEF TypeOK, ApiUsername, ApiCall, Toggle, ApiPhases, Request
<1>31. ASSUME ApiNickname
      PROVE  TypeOK'
  BY <1>31 DEF TypeOK, ApiNickname, ApiCall, Toggle, ApiPhases, Request
<1>32. ASSUME ApiIP
      PROVE  TypeOK'
  BY <1>32 DEF TypeOK, ApiIP, ApiCall, ApiPhases, BanKinds, Request
<1>33. ASSUME ApiList
      PROVE  TypeOK'
  BY <1>33, RegisteredFinite DEF TypeOK, ApiList, ApiPhases
<1>34. ASSUME ApiScan
      PROVE  TypeOK'
  BY <1>34 DEF TypeOK, ApiScan, FirstOf, ApiPhases
<1>35. ASSUME ApiDelete
      PROVE  TypeOK'
  BY <1>35 DEF TypeOK, ApiDelete, Unregister, IDs, FirstOf, ApiPhases
<1>36. ASSUME ApiClose
      PROVE  TypeOK'
  <2>1. open' \in [Conns -> BOOLEAN]
    BY <1>36 DEF TypeOK, ApiClose, CloseMatch
  <2>2. PICK c \in Conns : api' = [api EXCEPT !.phase = "scan", !.todo = @ \ {c}]
    BY <1>36 DEF ApiClose, CloseMatch
  <2>3. api' \in [phase: ApiPhases, req: Request, todo: SUBSET Conns,
                  online: SUBSET Conns, left: 0 .. MaxApi]
    BY <2>2 DEF TypeOK, ApiPhases
  <2>. QED
    BY <1>36, <2>1, <2>3 DEF TypeOK, ApiClose, CloseMatch
<1>37. ASSUME NEW p \in IPs, BanExpires(p)
      PROVE  TypeOK'
  BY <1>37 DEF TypeOK, BanExpires, BanKinds
<1>38. CASE UNCHANGED vars
  BY <1>38 DEF vars, TypeOK
<1>. QED
  BY <1>1, <1>2, <1>3, <1>4, <1>5, <1>6, <1>7, <1>8, <1>9, <1>10,
     <1>11, <1>12, <1>13, <1>14, <1>15, <1>16, <1>17, <1>18, <1>19,
     <1>20, <1>21, <1>22, <1>23, <1>24, <1>25, <1>26, <1>27, <1>28,
     <1>29, <1>30, <1>31, <1>32, <1>33, <1>34, <1>35, <1>36, <1>37,
     <1>38
  DEF Next, Progress, Serve, Kick, ApiHandler

\* Every step preserves LoggedIn.
LEMMA LoggedInStep == TypeOK /\ LoggedIn /\ [Next]_vars => LoggedIn'
<1> SUFFICES ASSUME TypeOK, LoggedIn, [Next]_vars
             PROVE  LoggedIn'
  OBVIOUS
<1> USE DEF Step, Optional, Counted, LoggedIn
<1>1. ASSUME NEW c \in Conns, ReadLogin(c)
      PROVE  LoggedIn'
  BY <1>1 DEF TypeOK, ReadLogin
<1>2. ASSUME NEW c \in Conns, LoginFails(c)
      PROVE  LoggedIn'
  BY <1>2 DEF TypeOK, LoginFails
<1>3. ASSUME NEW c \in Conns, CheckUsername(c)
      PROVE  LoggedIn'
  BY <1>3 DEF TypeOK, CheckUsername
<1>4. ASSUME NEW c \in Conns, AutoBan(c)
      PROVE  LoggedIn'
  BY <1>4 DEF TypeOK, AutoBan
<1>5. ASSUME NEW c \in Conns, CheckIP(c)
      PROVE  LoggedIn'
  BY <1>5 DEF TypeOK, CheckIP
<1>6. ASSUME NEW c \in Conns, Register(c)
      PROVE  LoggedIn'
  BY <1>6 DEF TypeOK, Register, AddAs
<1>7. ASSUME NEW c \in Conns, Authenticate(c)
      PROVE  LoggedIn'
  BY <1>7 DEF TypeOK, Authenticate
<1>8. ASSUME NEW c \in Conns, LoadAccount(c)
      PROVE  LoggedIn'
  BY <1>8 DEF TypeOK, LoadAccount
<1>9. ASSUME NEW c \in Conns, Announce(c)
      PROVE  LoggedIn'
  BY <1>9 DEF TypeOK, Announce
<1>10. ASSUME NEW c \in Conns, Count(c)
      PROVE  LoggedIn'
  BY <1>10 DEF TypeOK, Count
<1>11. ASSUME NEW c \in Conns, ComparePeak(c)
      PROVE  LoggedIn'
  BY <1>11 DEF TypeOK, ComparePeak
<1>12. ASSUME NEW c \in Conns, SetPeak(c)
      PROVE  LoggedIn'
  BY <1>12 DEF TypeOK, SetPeak
<1>13. ASSUME NEW c \in Conns, Agreed(c)
      PROVE  LoggedIn'
  BY <1>13 DEF TypeOK, Agreed, Receive
<1>14. ASSUME NEW c \in Conns, SetClientUserInfo(c)
      PROVE  LoggedIn'
  BY <1>14 DEF TypeOK, SetClientUserInfo, Receive
<1>15. ASSUME NEW c \in Conns, BanOwnIP(c)
      PROVE  LoggedIn'
  BY <1>15 DEF TypeOK, BanOwnIP
<1>16. ASSUME NEW c \in Conns, SelfDelete(c)
      PROVE  LoggedIn'
  BY <1>16 DEF TypeOK, SelfDelete
<1>17. ASSUME NEW c \in Conns, SelfClose(c)
      PROVE  LoggedIn'
  BY <1>17 DEF TypeOK, SelfClose
<1>18. ASSUME NEW c \in Conns, NEW i \in IDs, NEW k \in BanKinds, DisconnectUser(c, i, k)
      PROVE  LoggedIn'
  BY <1>18 DEF TypeOK, DisconnectUser, Receive
<1>19. ASSUME NEW c \in Conns, NEW l \in Logins, DeleteUser(c, l)
      PROVE  LoggedIn'
  BY <1>19 DEF TypeOK, DeleteUser, Receive
<1>20. ASSUME NEW c \in Conns, EvictUsers(c)
      PROVE  LoggedIn'
  BY <1>20 DEF TypeOK, EvictUsers, EvictLoop
<1>21. ASSUME NEW c \in Conns, Malformed(c)
      PROVE  LoggedIn'
  BY <1>21 DEF TypeOK, Malformed, Receive
<1>22. ASSUME NEW c \in Conns, EndOfInput(c)
      PROVE  LoggedIn'
  BY <1>22 DEF TypeOK, EndOfInput
<1>23. ASSUME NEW c \in Conns, Uncount(c)
      PROVE  LoggedIn'
  BY <1>23 DEF TypeOK, Uncount
<1>24. ASSUME NEW c \in Conns, DisconnectDelete(c)
      PROVE  LoggedIn'
  BY <1>24 DEF TypeOK, DisconnectDelete
<1>25. ASSUME NEW c \in Conns, DisconnectClose(c)
      PROVE  LoggedIn'
  BY <1>25 DEF TypeOK, DisconnectClose
<1>26. ASSUME NEW c \in Conns, KickDelete(c)
      PROVE  LoggedIn'
  BY <1>26 DEF TypeOK, KickDelete
<1>27. ASSUME NEW c \in Conns, KickClose(c)
      PROVE  LoggedIn'
  BY <1>27 DEF TypeOK, KickClose
<1>28. ASSUME NEW c \in Conns, PeerCloses(c)
      PROVE  LoggedIn'
  BY <1>28 DEF TypeOK, PeerCloses
<1>29. ASSUME NEW r \in BanRequests, ApiRequest(r)
      PROVE  LoggedIn'
  BY <1>29 DEF TypeOK, ApiRequest
<1>30. ASSUME ApiUsername
      PROVE  LoggedIn'
  BY <1>30 DEF TypeOK, ApiUsername, ApiCall
<1>31. ASSUME ApiNickname
      PROVE  LoggedIn'
  BY <1>31 DEF TypeOK, ApiNickname, ApiCall
<1>32. ASSUME ApiIP
      PROVE  LoggedIn'
  BY <1>32 DEF TypeOK, ApiIP, ApiCall
<1>33. ASSUME ApiList
      PROVE  LoggedIn'
  BY <1>33 DEF TypeOK, ApiList
<1>34. ASSUME ApiScan
      PROVE  LoggedIn'
  BY <1>34 DEF TypeOK, ApiScan
<1>35. ASSUME ApiDelete
      PROVE  LoggedIn'
  BY <1>35 DEF TypeOK, ApiDelete
<1>36. ASSUME ApiClose
      PROVE  LoggedIn'
  BY <1>36 DEF TypeOK, ApiClose, CloseMatch
<1>37. ASSUME NEW p \in IPs, BanExpires(p)
      PROVE  LoggedIn'
  BY <1>37 DEF TypeOK, BanExpires
<1>38. CASE UNCHANGED vars
  BY <1>38 DEF vars, TypeOK
<1>. QED
  BY <1>1, <1>2, <1>3, <1>4, <1>5, <1>6, <1>7, <1>8, <1>9, <1>10,
     <1>11, <1>12, <1>13, <1>14, <1>15, <1>16, <1>17, <1>18, <1>19,
     <1>20, <1>21, <1>22, <1>23, <1>24, <1>25, <1>26, <1>27, <1>28,
     <1>29, <1>30, <1>31, <1>32, <1>33, <1>34, <1>35, <1>36, <1>37,
     <1>38
  DEF Next, Progress, Serve, Kick, ApiHandler

\* Every step preserves Listed.
LEMMA ListedStep == TypeOK /\ Listed /\ [Next]_vars => Listed'
<1> SUFFICES ASSUME TypeOK, Listed, [Next]_vars
             PROVE  Listed'
  OBVIOUS
<1> USE DEF Step, Live, Admitting, Counted, Listed
<1>1. ASSUME NEW c \in Conns, ReadLogin(c)
      PROVE  Listed'
  BY <1>1 DEF TypeOK, ReadLogin
<1>2. ASSUME NEW c \in Conns, LoginFails(c)
      PROVE  Listed'
  BY <1>2 DEF TypeOK, LoginFails
<1>3. ASSUME NEW c \in Conns, CheckUsername(c)
      PROVE  Listed'
  BY <1>3 DEF TypeOK, CheckUsername
<1>4. ASSUME NEW c \in Conns, AutoBan(c)
      PROVE  Listed'
  BY <1>4 DEF TypeOK, AutoBan
<1>5. ASSUME NEW c \in Conns, CheckIP(c)
      PROVE  Listed'
  BY <1>5 DEF TypeOK, CheckIP
<1>6. ASSUME NEW c \in Conns, Register(c)
      PROVE  Listed'
  BY <1>6 DEF TypeOK, Register, AddAs, IDs
<1>7. ASSUME NEW c \in Conns, Authenticate(c)
      PROVE  Listed'
  BY <1>7 DEF TypeOK, Authenticate
<1>8. ASSUME NEW c \in Conns, LoadAccount(c)
      PROVE  Listed'
  BY <1>8 DEF TypeOK, LoadAccount
<1>9. ASSUME NEW c \in Conns, Announce(c)
      PROVE  Listed'
  BY <1>9 DEF TypeOK, Announce
<1>10. ASSUME NEW c \in Conns, Count(c)
      PROVE  Listed'
  BY <1>10 DEF TypeOK, Count
<1>11. ASSUME NEW c \in Conns, ComparePeak(c)
      PROVE  Listed'
  BY <1>11 DEF TypeOK, ComparePeak
<1>12. ASSUME NEW c \in Conns, SetPeak(c)
      PROVE  Listed'
  BY <1>12 DEF TypeOK, SetPeak
<1>13. ASSUME NEW c \in Conns, Agreed(c)
      PROVE  Listed'
  BY <1>13 DEF TypeOK, Agreed, Receive
<1>14. ASSUME NEW c \in Conns, SetClientUserInfo(c)
      PROVE  Listed'
  BY <1>14 DEF TypeOK, SetClientUserInfo, Receive
<1>15. ASSUME NEW c \in Conns, BanOwnIP(c)
      PROVE  Listed'
  BY <1>15 DEF TypeOK, BanOwnIP
<1>16. ASSUME NEW c \in Conns, SelfDelete(c)
      PROVE  Listed'
  BY <1>16 DEF TypeOK, SelfDelete, Unregister
<1>17. ASSUME NEW c \in Conns, SelfClose(c)
      PROVE  Listed'
  BY <1>17 DEF TypeOK, SelfClose
<1>18. ASSUME NEW c \in Conns, NEW i \in IDs, NEW k \in BanKinds, DisconnectUser(c, i, k)
      PROVE  Listed'
  BY <1>18 DEF TypeOK, DisconnectUser, Receive
<1>19. ASSUME NEW c \in Conns, NEW l \in Logins, DeleteUser(c, l)
      PROVE  Listed'
  BY <1>19 DEF TypeOK, DeleteUser, Receive
<1>20. ASSUME NEW c \in Conns, EvictUsers(c)
      PROVE  Listed'
  BY <1>20 DEF TypeOK, EvictUsers, EvictLoop
<1>21. ASSUME NEW c \in Conns, Malformed(c)
      PROVE  Listed'
  BY <1>21 DEF TypeOK, Malformed, Receive
<1>22. ASSUME NEW c \in Conns, EndOfInput(c)
      PROVE  Listed'
  BY <1>22 DEF TypeOK, EndOfInput
<1>23. ASSUME NEW c \in Conns, Uncount(c)
      PROVE  Listed'
  BY <1>23 DEF TypeOK, Uncount
<1>24. ASSUME NEW c \in Conns, DisconnectDelete(c)
      PROVE  Listed'
  BY <1>24 DEF TypeOK, DisconnectDelete, Unregister
<1>25. ASSUME NEW c \in Conns, DisconnectClose(c)
      PROVE  Listed'
  BY <1>25 DEF TypeOK, DisconnectClose
<1>26. ASSUME NEW c \in Conns, KickDelete(c)
      PROVE  Listed'
  BY <1>26 DEF TypeOK, KickDelete, Unregister
<1>27. ASSUME NEW c \in Conns, KickClose(c)
      PROVE  Listed'
  BY <1>27 DEF TypeOK, KickClose
<1>28. ASSUME NEW c \in Conns, PeerCloses(c)
      PROVE  Listed'
  BY <1>28 DEF TypeOK, PeerCloses
<1>29. ASSUME NEW r \in BanRequests, ApiRequest(r)
      PROVE  Listed'
  BY <1>29 DEF TypeOK, ApiRequest
<1>30. ASSUME ApiUsername
      PROVE  Listed'
  BY <1>30 DEF TypeOK, ApiUsername, ApiCall
<1>31. ASSUME ApiNickname
      PROVE  Listed'
  BY <1>31 DEF TypeOK, ApiNickname, ApiCall
<1>32. ASSUME ApiIP
      PROVE  Listed'
  BY <1>32 DEF TypeOK, ApiIP, ApiCall
<1>33. ASSUME ApiList
      PROVE  Listed'
  BY <1>33 DEF TypeOK, ApiList
<1>34. ASSUME ApiScan
      PROVE  Listed'
  BY <1>34 DEF TypeOK, ApiScan
<1>35. ASSUME ApiDelete
      PROVE  Listed'
  BY <1>35 DEF TypeOK, ApiDelete, Unregister
<1>36. ASSUME ApiClose
      PROVE  Listed'
  BY <1>36 DEF TypeOK, ApiClose, CloseMatch
<1>37. ASSUME NEW p \in IPs, BanExpires(p)
      PROVE  Listed'
  BY <1>37 DEF TypeOK, BanExpires
<1>38. CASE UNCHANGED vars
  BY <1>38 DEF vars, TypeOK
<1>. QED
  BY <1>1, <1>2, <1>3, <1>4, <1>5, <1>6, <1>7, <1>8, <1>9, <1>10,
     <1>11, <1>12, <1>13, <1>14, <1>15, <1>16, <1>17, <1>18, <1>19,
     <1>20, <1>21, <1>22, <1>23, <1>24, <1>25, <1>26, <1>27, <1>28,
     <1>29, <1>30, <1>31, <1>32, <1>33, <1>34, <1>35, <1>36, <1>37,
     <1>38
  DEF Next, Progress, Serve, Kick, ApiHandler

\* The sessions being counted.
Serving == {c \in Conns : pc[c] \in Counted}

\* Every step preserves the connection count: only Count and Uncount change
\* the set of counted sessions, by one element each.
LEMMA CountStep ==
    TypeOK /\ CountMatchesSessions /\ [Next]_vars => CountMatchesSessions'
<1> SUFFICES ASSUME TypeOK, connected = Cardinality(Serving), [Next]_vars
             PROVE  connected' = Cardinality(Serving')
  BY DEF CountMatchesSessions, Serving
<1> IsFiniteSet(Serving)
  BY FS_Subset DEF Serving
<1> USE DEF Step, Counted
<1>1. ASSUME NEW c \in Conns, ReadLogin(c)
      PROVE  connected' = Cardinality(Serving')
  <2>1. Serving' = Serving /\ connected' = connected
    BY <1>1 DEF Serving, TypeOK, ReadLogin
  <2>. QED
    BY <2>1
<1>2. ASSUME NEW c \in Conns, LoginFails(c)
      PROVE  connected' = Cardinality(Serving')
  <2>1. Serving' = Serving /\ connected' = connected
    BY <1>2 DEF Serving, TypeOK, LoginFails
  <2>. QED
    BY <2>1
<1>3. ASSUME NEW c \in Conns, CheckUsername(c)
      PROVE  connected' = Cardinality(Serving')
  <2>1. Serving' = Serving /\ connected' = connected
    BY <1>3 DEF Serving, TypeOK, CheckUsername
  <2>. QED
    BY <2>1
<1>4. ASSUME NEW c \in Conns, AutoBan(c)
      PROVE  connected' = Cardinality(Serving')
  <2>1. Serving' = Serving /\ connected' = connected
    BY <1>4 DEF Serving, TypeOK, AutoBan
  <2>. QED
    BY <2>1
<1>5. ASSUME NEW c \in Conns, CheckIP(c)
      PROVE  connected' = Cardinality(Serving')
  <2>1. Serving' = Serving /\ connected' = connected
    BY <1>5 DEF Serving, TypeOK, CheckIP
  <2>. QED
    BY <2>1
<1>6. ASSUME NEW c \in Conns, Register(c)
      PROVE  connected' = Cardinality(Serving')
  <2>1. Serving' = Serving /\ connected' = connected
    BY <1>6 DEF Serving, TypeOK, Register, AddAs
  <2>. QED
    BY <2>1
<1>7. ASSUME NEW c \in Conns, Authenticate(c)
      PROVE  connected' = Cardinality(Serving')
  <2>1. Serving' = Serving /\ connected' = connected
    BY <1>7 DEF Serving, TypeOK, Authenticate
  <2>. QED
    BY <2>1
<1>8. ASSUME NEW c \in Conns, LoadAccount(c)
      PROVE  connected' = Cardinality(Serving')
  <2>1. Serving' = Serving /\ connected' = connected
    BY <1>8 DEF Serving, TypeOK, LoadAccount
  <2>. QED
    BY <2>1
<1>9. ASSUME NEW c \in Conns, Announce(c)
      PROVE  connected' = Cardinality(Serving')
  <2>1. Serving' = Serving /\ connected' = connected
    BY <1>9 DEF Serving, TypeOK, Announce
  <2>. QED
    BY <2>1
<1>10. ASSUME NEW c \in Conns, Count(c)
      PROVE  connected' = Cardinality(Serving')
  <2>1. c \notin Serving /\ Serving' = Serving \cup {c}
    BY <1>10 DEF Serving, Count, TypeOK
  <2>. QED
    BY <1>10, <2>1, FS_AddElement DEF Count
<1>11. ASSUME NEW c \in Conns, ComparePeak(c)
      PROVE  connected' = Cardinality(Serving')
  <2>1. Serving' = Serving /\ connected' = connected
    BY <1>11 DEF Serving, TypeOK, ComparePeak
  <2>. QED
    BY <2>1
<1>12. ASSUME NEW c \in Conns, SetPeak(c)
      PROVE  connected' = Cardinality(Serving')
  <2>1. Serving' = Serving /\ connected' = connected
    BY <1>12 DEF Serving, TypeOK, SetPeak
  <2>. QED
    BY <2>1
<1>13. ASSUME NEW c \in Conns, Agreed(c)
      PROVE  connected' = Cardinality(Serving')
  <2>1. Serving' = Serving /\ connected' = connected
    BY <1>13 DEF Serving, TypeOK, Agreed, Receive
  <2>. QED
    BY <2>1
<1>14. ASSUME NEW c \in Conns, SetClientUserInfo(c)
      PROVE  connected' = Cardinality(Serving')
  <2>1. Serving' = Serving /\ connected' = connected
    BY <1>14 DEF Serving, TypeOK, SetClientUserInfo, Receive
  <2>. QED
    BY <2>1
<1>15. ASSUME NEW c \in Conns, BanOwnIP(c)
      PROVE  connected' = Cardinality(Serving')
  <2>1. Serving' = Serving /\ connected' = connected
    BY <1>15 DEF Serving, TypeOK, BanOwnIP
  <2>. QED
    BY <2>1
<1>16. ASSUME NEW c \in Conns, SelfDelete(c)
      PROVE  connected' = Cardinality(Serving')
  <2>1. Serving' = Serving /\ connected' = connected
    BY <1>16 DEF Serving, TypeOK, SelfDelete
  <2>. QED
    BY <2>1
<1>17. ASSUME NEW c \in Conns, SelfClose(c)
      PROVE  connected' = Cardinality(Serving')
  <2>1. Serving' = Serving /\ connected' = connected
    BY <1>17 DEF Serving, TypeOK, SelfClose
  <2>. QED
    BY <2>1
<1>18. ASSUME NEW c \in Conns, NEW i \in IDs, NEW k \in BanKinds, DisconnectUser(c, i, k)
      PROVE  connected' = Cardinality(Serving')
  <2>1. Serving' = Serving /\ connected' = connected
    BY <1>18 DEF Serving, TypeOK, DisconnectUser, Receive
  <2>. QED
    BY <2>1
<1>19. ASSUME NEW c \in Conns, NEW l \in Logins, DeleteUser(c, l)
      PROVE  connected' = Cardinality(Serving')
  <2>1. Serving' = Serving /\ connected' = connected
    BY <1>19 DEF Serving, TypeOK, DeleteUser, Receive
  <2>. QED
    BY <2>1
<1>20. ASSUME NEW c \in Conns, EvictUsers(c)
      PROVE  connected' = Cardinality(Serving')
  <2>1. Serving' = Serving /\ connected' = connected
    BY <1>20 DEF Serving, TypeOK, EvictUsers, EvictLoop
  <2>. QED
    BY <2>1
<1>21. ASSUME NEW c \in Conns, Malformed(c)
      PROVE  connected' = Cardinality(Serving')
  <2>1. Serving' = Serving /\ connected' = connected
    BY <1>21 DEF Serving, TypeOK, Malformed, Receive
  <2>. QED
    BY <2>1
<1>22. ASSUME NEW c \in Conns, EndOfInput(c)
      PROVE  connected' = Cardinality(Serving')
  <2>1. Serving' = Serving /\ connected' = connected
    BY <1>22 DEF Serving, TypeOK, EndOfInput
  <2>. QED
    BY <2>1
<1>23. ASSUME NEW c \in Conns, Uncount(c)
      PROVE  connected' = Cardinality(Serving')
  <2>1. c \in Serving /\ Serving' = Serving \ {c}
    BY <1>23 DEF Serving, Uncount, TypeOK
  <2>2. Cardinality(Serving) > 0
    BY <2>1, FS_EmptySet, FS_CardinalityType
  <2>. QED
    BY <1>23, <2>1, <2>2, FS_RemoveElement, FS_CardinalityType DEF Uncount
<1>24. ASSUME NEW c \in Conns, DisconnectDelete(c)
      PROVE  connected' = Cardinality(Serving')
  <2>1. Serving' = Serving /\ connected' = connected
    BY <1>24 DEF Serving, TypeOK, DisconnectDelete
  <2>. QED
    BY <2>1
<1>25. ASSUME NEW c \in Conns, DisconnectClose(c)
      PROVE  connected' = Cardinality(Serving')
  <2>1. Serving' = Serving /\ connected' = connected
    BY <1>25 DEF Serving, TypeOK, DisconnectClose
  <2>. QED
    BY <2>1
<1>26. ASSUME NEW c \in Conns, KickDelete(c)
      PROVE  connected' = Cardinality(Serving')
  <2>1. Serving' = Serving /\ connected' = connected
    BY <1>26 DEF Serving, TypeOK, KickDelete
  <2>. QED
    BY <2>1
<1>27. ASSUME NEW c \in Conns, KickClose(c)
      PROVE  connected' = Cardinality(Serving')
  <2>1. Serving' = Serving /\ connected' = connected
    BY <1>27 DEF Serving, TypeOK, KickClose
  <2>. QED
    BY <2>1
<1>28. ASSUME NEW c \in Conns, PeerCloses(c)
      PROVE  connected' = Cardinality(Serving')
  <2>1. Serving' = Serving /\ connected' = connected
    BY <1>28 DEF Serving, TypeOK, PeerCloses
  <2>. QED
    BY <2>1
<1>29. ASSUME NEW r \in BanRequests, ApiRequest(r)
      PROVE  connected' = Cardinality(Serving')
  <2>1. Serving' = Serving /\ connected' = connected
    BY <1>29 DEF Serving, TypeOK, ApiRequest
  <2>. QED
    BY <2>1
<1>30. ASSUME ApiUsername
      PROVE  connected' = Cardinality(Serving')
  <2>1. Serving' = Serving /\ connected' = connected
    BY <1>30 DEF Serving, TypeOK, ApiUsername, ApiCall
  <2>. QED
    BY <2>1
<1>31. ASSUME ApiNickname
      PROVE  connected' = Cardinality(Serving')
  <2>1. Serving' = Serving /\ connected' = connected
    BY <1>31 DEF Serving, TypeOK, ApiNickname, ApiCall
  <2>. QED
    BY <2>1
<1>32. ASSUME ApiIP
      PROVE  connected' = Cardinality(Serving')
  <2>1. Serving' = Serving /\ connected' = connected
    BY <1>32 DEF Serving, TypeOK, ApiIP, ApiCall
  <2>. QED
    BY <2>1
<1>33. ASSUME ApiList
      PROVE  connected' = Cardinality(Serving')
  <2>1. Serving' = Serving /\ connected' = connected
    BY <1>33 DEF Serving, TypeOK, ApiList
  <2>. QED
    BY <2>1
<1>34. ASSUME ApiScan
      PROVE  connected' = Cardinality(Serving')
  <2>1. Serving' = Serving /\ connected' = connected
    BY <1>34 DEF Serving, TypeOK, ApiScan
  <2>. QED
    BY <2>1
<1>35. ASSUME ApiDelete
      PROVE  connected' = Cardinality(Serving')
  <2>1. Serving' = Serving /\ connected' = connected
    BY <1>35 DEF Serving, TypeOK, ApiDelete
  <2>. QED
    BY <2>1
<1>36. ASSUME ApiClose
      PROVE  connected' = Cardinality(Serving')
  <2>1. Serving' = Serving /\ connected' = connected
    BY <1>36 DEF Serving, TypeOK, ApiClose, CloseMatch
  <2>. QED
    BY <2>1
<1>37. ASSUME NEW p \in IPs, BanExpires(p)
      PROVE  connected' = Cardinality(Serving')
  <2>1. Serving' = Serving /\ connected' = connected
    BY <1>37 DEF Serving, TypeOK, BanExpires
  <2>. QED
    BY <2>1
<1>38. CASE UNCHANGED vars
  BY <1>38 DEF vars, Serving
<1>. QED
  BY <1>1, <1>2, <1>3, <1>4, <1>5, <1>6, <1>7, <1>8, <1>9, <1>10,
     <1>11, <1>12, <1>13, <1>14, <1>15, <1>16, <1>17, <1>18, <1>19,
     <1>20, <1>21, <1>22, <1>23, <1>24, <1>25, <1>26, <1>27, <1>28,
     <1>29, <1>30, <1>31, <1>32, <1>33, <1>34, <1>35, <1>36, <1>37,
     <1>38
  DEF Next, Progress, Serve, Kick, ApiHandler

\* Below the size of the ID space, the next client ID is the counter itself.
LEMMA NextClientID ==
    ASSUME nextID \in Nat, nextID + 1 < IDSpace
    PROVE  (nextID + 1) % IDSpace = nextID + 1 /\ nextID + 1 \in IDs
  BY DEF IDs

\* Every step preserves Unloaded.
LEMMA UnloadedStep == TypeOK /\ LoggedIn /\ Unloaded /\ [Next]_vars => Unloaded'
<1> SUFFICES ASSUME TypeOK, LoggedIn, Unloaded, [Next]_vars
             PROVE  Unloaded'
  OBVIOUS
<1> USE DEF TypeOK, Unloaded, LoggedIn, Entering, Step, Login_pcs, Counted, Optional
<1>1. ASSUME NEW c \in Conns, ReadLogin(c)
      PROVE  Unloaded'
  BY <1>1 DEF ReadLogin
<1>2. ASSUME NEW c \in Conns, LoginFails(c)
      PROVE  Unloaded'
  BY <1>2 DEF LoginFails
<1>3. ASSUME NEW c \in Conns, CheckUsername(c)
      PROVE  Unloaded'
  BY <1>3 DEF CheckUsername
<1>4. ASSUME NEW c \in Conns, AutoBan(c)
      PROVE  Unloaded'
  BY <1>4 DEF AutoBan
<1>5. ASSUME NEW c \in Conns, CheckIP(c)
      PROVE  Unloaded'
  BY <1>5 DEF CheckIP
<1>6. ASSUME NEW c \in Conns, Register(c)
      PROVE  Unloaded'
  BY <1>6 DEF Register, AddAs
<1>7. ASSUME NEW c \in Conns, Authenticate(c)
      PROVE  Unloaded'
  BY <1>7 DEF Authenticate
<1>8. ASSUME NEW c \in Conns, LoadAccount(c)
      PROVE  Unloaded'
  BY <1>8 DEF LoadAccount
<1>9. ASSUME NEW c \in Conns, Announce(c)
      PROVE  Unloaded'
  BY <1>9, NamedType DEF Announce
<1>10. ASSUME NEW c \in Conns, Count(c)
      PROVE  Unloaded'
  BY <1>10 DEF Count
<1>11. ASSUME NEW c \in Conns, ComparePeak(c)
      PROVE  Unloaded'
  BY <1>11 DEF ComparePeak
<1>12. ASSUME NEW c \in Conns, SetPeak(c)
      PROVE  Unloaded'
  BY <1>12 DEF SetPeak
<1>13. ASSUME NEW c \in Conns, Agreed(c)
      PROVE  Unloaded'
  BY <1>13, NamedType DEF Agreed, Receive
<1>14. ASSUME NEW c \in Conns, SetClientUserInfo(c)
      PROVE  Unloaded'
  BY <1>14 DEF SetClientUserInfo, Receive
<1>15. ASSUME NEW c \in Conns, BanOwnIP(c)
      PROVE  Unloaded'
  BY <1>15 DEF BanOwnIP
<1>16. ASSUME NEW c \in Conns, SelfDelete(c)
      PROVE  Unloaded'
  BY <1>16 DEF SelfDelete, Unregister
<1>17. ASSUME NEW c \in Conns, SelfClose(c)
      PROVE  Unloaded'
  BY <1>17 DEF SelfClose
<1>18. ASSUME NEW c \in Conns, NEW i \in IDs, NEW k \in BanKinds, DisconnectUser(c, i, k)
      PROVE  Unloaded'
  BY <1>18 DEF DisconnectUser, Receive
<1>19. ASSUME NEW c \in Conns, NEW l \in Logins, DeleteUser(c, l)
      PROVE  Unloaded'
  BY <1>19 DEF DeleteUser, Receive
<1>20. ASSUME NEW c \in Conns, EvictUsers(c)
      PROVE  Unloaded'
  BY <1>20 DEF EvictUsers, EvictLoop
<1>21. ASSUME NEW c \in Conns, Malformed(c)
      PROVE  Unloaded'
  BY <1>21 DEF Malformed, Receive
<1>22. ASSUME NEW c \in Conns, EndOfInput(c)
      PROVE  Unloaded'
  BY <1>22 DEF EndOfInput
<1>23. ASSUME NEW c \in Conns, Uncount(c)
      PROVE  Unloaded'
  BY <1>23 DEF Uncount
<1>24. ASSUME NEW c \in Conns, DisconnectDelete(c)
      PROVE  Unloaded'
  BY <1>24 DEF DisconnectDelete, Unregister
<1>25. ASSUME NEW c \in Conns, DisconnectClose(c)
      PROVE  Unloaded'
  BY <1>25 DEF DisconnectClose
<1>26. ASSUME NEW c \in Conns, KickDelete(c)
      PROVE  Unloaded'
  BY <1>26 DEF KickDelete, Unregister
<1>27. ASSUME NEW c \in Conns, KickClose(c)
      PROVE  Unloaded'
  BY <1>27 DEF KickClose
<1>28. ASSUME NEW c \in Conns, PeerCloses(c)
      PROVE  Unloaded'
  BY <1>28 DEF PeerCloses
<1>29. ASSUME NEW r \in BanRequests, ApiRequest(r)
      PROVE  Unloaded'
  BY <1>29 DEF ApiRequest
<1>30. ASSUME ApiUsername
      PROVE  Unloaded'
  BY <1>30 DEF ApiUsername, ApiCall
<1>31. ASSUME ApiNickname
      PROVE  Unloaded'
  BY <1>31 DEF ApiNickname, ApiCall
<1>32. ASSUME ApiIP
      PROVE  Unloaded'
  BY <1>32 DEF ApiIP, ApiCall
<1>33. ASSUME ApiList
      PROVE  Unloaded'
  BY <1>33 DEF ApiList
<1>34. ASSUME ApiScan
      PROVE  Unloaded'
  BY <1>34 DEF ApiScan
<1>35. ASSUME ApiDelete
      PROVE  Unloaded'
  BY <1>35 DEF ApiDelete, Unregister
<1>36. ASSUME ApiClose
      PROVE  Unloaded'
  BY <1>36 DEF ApiClose, CloseMatch
<1>37. ASSUME NEW p \in IPs, BanExpires(p)
      PROVE  Unloaded'
  BY <1>37 DEF BanExpires
<1>38. CASE UNCHANGED vars
  BY <1>38 DEF vars
<1>. QED
  BY <1>1, <1>2, <1>3, <1>4, <1>5, <1>6, <1>7, <1>8, <1>9, <1>10, <1>11,
     <1>12, <1>13, <1>14, <1>15, <1>16, <1>17, <1>18, <1>19, <1>20, <1>21,
     <1>22, <1>23, <1>24, <1>25, <1>26, <1>27, <1>28, <1>29, <1>30, <1>31,
     <1>32, <1>33, <1>34, <1>35, <1>36, <1>37, <1>38
  DEF Next, Progress, Serve, Kick, ApiHandler

\* Every step preserves DeletedAccountEvicted.
LEMMA EvictedStep == TypeOK /\ LoggedIn /\ Unloaded /\ Listed /\ DeletedAccountEvicted /\ [Next]_vars => DeletedAccountEvicted'
<1> SUFFICES ASSUME TypeOK, LoggedIn, Unloaded, Listed, DeletedAccountEvicted, [Next]_vars
             PROVE  DeletedAccountEvicted'
  OBVIOUS
<1> USE DEF TypeOK, DeletedAccountEvicted, Registered, Step, Optional
<1>1. ASSUME NEW c \in Conns, ReadLogin(c)
      PROVE  DeletedAccountEvicted'
  BY <1>1 DEF ReadLogin
<1>2. ASSUME NEW c \in Conns, LoginFails(c)
      PROVE  DeletedAccountEvicted'
  BY <1>2 DEF LoginFails
<1>3. ASSUME NEW c \in Conns, CheckUsername(c)
      PROVE  DeletedAccountEvicted'
  BY <1>3 DEF CheckUsername
<1>4. ASSUME NEW c \in Conns, AutoBan(c)
      PROVE  DeletedAccountEvicted'
  BY <1>4 DEF AutoBan
<1>5. ASSUME NEW c \in Conns, CheckIP(c)
      PROVE  DeletedAccountEvicted'
  BY <1>5 DEF CheckIP
<1>6. ASSUME NEW c \in Conns, Register(c)
      PROVE  DeletedAccountEvicted'
  BY <1>6 DEF Register, AddAs, Unloaded, Entering, Login_pcs
<1>7. ASSUME NEW c \in Conns, Authenticate(c)
      PROVE  DeletedAccountEvicted'
  BY <1>7 DEF Authenticate
<1>8. ASSUME NEW c \in Conns, LoadAccount(c)
      PROVE  DeletedAccountEvicted'
  BY <1>8 DEF LoadAccount, Unloaded, Entering
<1>9. ASSUME NEW c \in Conns, Announce(c)
      PROVE  DeletedAccountEvicted'
  BY <1>9 DEF Announce
<1>10. ASSUME NEW c \in Conns, Count(c)
      PROVE  DeletedAccountEvicted'
  BY <1>10 DEF Count
<1>11. ASSUME NEW c \in Conns, ComparePeak(c)
      PROVE  DeletedAccountEvicted'
  BY <1>11 DEF ComparePeak
<1>12. ASSUME NEW c \in Conns, SetPeak(c)
      PROVE  DeletedAccountEvicted'
  BY <1>12 DEF SetPeak
<1>13. ASSUME NEW c \in Conns, Agreed(c)
      PROVE  DeletedAccountEvicted'
  BY <1>13 DEF Agreed, Receive
<1>14. ASSUME NEW c \in Conns, SetClientUserInfo(c)
      PROVE  DeletedAccountEvicted'
  BY <1>14 DEF SetClientUserInfo, Receive
<1>15. ASSUME NEW c \in Conns, BanOwnIP(c)
      PROVE  DeletedAccountEvicted'
  BY <1>15 DEF BanOwnIP
<1>16. ASSUME NEW c \in Conns, SelfDelete(c)
      PROVE  DeletedAccountEvicted'
  BY <1>16 DEF SelfDelete, Unregister
<1>17. ASSUME NEW c \in Conns, SelfClose(c)
      PROVE  DeletedAccountEvicted'
  BY <1>17 DEF SelfClose
<1>18. ASSUME NEW c \in Conns, NEW i \in IDs, NEW k \in BanKinds, DisconnectUser(c, i, k)
      PROVE  DeletedAccountEvicted'
  BY <1>18 DEF DisconnectUser, Receive
<1>19. ASSUME NEW c \in Conns, NEW l \in Logins, DeleteUser(c, l)
      PROVE  DeletedAccountEvicted'
  BY <1>19 DEF DeleteUser, Receive
<1>20. ASSUME NEW c \in Conns, EvictUsers(c)
      PROVE  DeletedAccountEvicted'
  BY <1>20 DEF EvictUsers, EvictLoop, LoggedIn
<1>21. ASSUME NEW c \in Conns, Malformed(c)
      PROVE  DeletedAccountEvicted'
  BY <1>21 DEF Malformed, Receive
<1>22. ASSUME NEW c \in Conns, EndOfInput(c)
      PROVE  DeletedAccountEvicted'
  BY <1>22 DEF EndOfInput
<1>23. ASSUME NEW c \in Conns, Uncount(c)
      PROVE  DeletedAccountEvicted'
  BY <1>23 DEF Uncount
<1>24. ASSUME NEW c \in Conns, DisconnectDelete(c)
      PROVE  DeletedAccountEvicted'
  BY <1>24 DEF DisconnectDelete, Unregister
<1>25. ASSUME NEW c \in Conns, DisconnectClose(c)
      PROVE  DeletedAccountEvicted'
  BY <1>25 DEF DisconnectClose
<1>26. ASSUME NEW c \in Conns, KickDelete(c)
      PROVE  DeletedAccountEvicted'
  BY <1>26 DEF KickDelete, Unregister, Listed
<1>27. ASSUME NEW c \in Conns, KickClose(c)
      PROVE  DeletedAccountEvicted'
  BY <1>27 DEF KickClose
<1>28. ASSUME NEW c \in Conns, PeerCloses(c)
      PROVE  DeletedAccountEvicted'
  BY <1>28 DEF PeerCloses
<1>29. ASSUME NEW r \in BanRequests, ApiRequest(r)
      PROVE  DeletedAccountEvicted'
  BY <1>29 DEF ApiRequest
<1>30. ASSUME ApiUsername
      PROVE  DeletedAccountEvicted'
  BY <1>30 DEF ApiUsername, ApiCall
<1>31. ASSUME ApiNickname
      PROVE  DeletedAccountEvicted'
  BY <1>31 DEF ApiNickname, ApiCall
<1>32. ASSUME ApiIP
      PROVE  DeletedAccountEvicted'
  BY <1>32 DEF ApiIP, ApiCall
<1>33. ASSUME ApiList
      PROVE  DeletedAccountEvicted'
  BY <1>33 DEF ApiList
<1>34. ASSUME ApiScan
      PROVE  DeletedAccountEvicted'
  BY <1>34 DEF ApiScan
<1>35. ASSUME ApiDelete
      PROVE  DeletedAccountEvicted'
  BY <1>35 DEF ApiDelete, Unregister
<1>36. ASSUME ApiClose
      PROVE  DeletedAccountEvicted'
  BY <1>36 DEF ApiClose, CloseMatch
<1>37. ASSUME NEW p \in IPs, BanExpires(p)
      PROVE  DeletedAccountEvicted'
  BY <1>37 DEF BanExpires
<1>38. CASE UNCHANGED vars
  BY <1>38 DEF vars
<1>. QED
  BY <1>1, <1>2, <1>3, <1>4, <1>5, <1>6, <1>7, <1>8, <1>9, <1>10, <1>11,
     <1>12, <1>13, <1>14, <1>15, <1>16, <1>17, <1>18, <1>19, <1>20, <1>21,
     <1>22, <1>23, <1>24, <1>25, <1>26, <1>27, <1>28, <1>29, <1>30, <1>31,
     <1>32, <1>33, <1>34, <1>35, <1>36, <1>37, <1>38
  DEF Next, Progress, Serve, Kick, ApiHandler

\* Every step preserves Scanned.
LEMMA ScannedStep == TypeOK /\ LoggedIn /\ Unloaded /\ Scanned /\ [Next]_vars => Scanned'
<1> SUFFICES ASSUME TypeOK, LoggedIn, Unloaded, Scanned, [Next]_vars
             PROVE  Scanned'
  OBVIOUS
<1> USE DEF TypeOK, Scanned, Step, Close, Optional
<1>1. ASSUME NEW c \in Conns, ReadLogin(c)
      PROVE  Scanned'
  BY <1>1 DEF ReadLogin
<1>2. ASSUME NEW c \in Conns, LoginFails(c)
      PROVE  Scanned'
  BY <1>2 DEF LoginFails
<1>3. ASSUME NEW c \in Conns, CheckUsername(c)
      PROVE  Scanned'
  BY <1>3 DEF CheckUsername
<1>4. ASSUME NEW c \in Conns, AutoBan(c)
      PROVE  Scanned'
  BY <1>4 DEF AutoBan
<1>5. ASSUME NEW c \in Conns, CheckIP(c)
      PROVE  Scanned'
  BY <1>5 DEF CheckIP
<1>6. ASSUME NEW c \in Conns, Register(c)
      PROVE  Scanned'
  BY <1>6 DEF Register, AddAs
<1>7. ASSUME NEW c \in Conns, Authenticate(c)
      PROVE  Scanned'
  BY <1>7 DEF Authenticate
<1>8. ASSUME NEW c \in Conns, LoadAccount(c)
      PROVE  Scanned'
  BY <1>8 DEF LoadAccount, Unloaded, Entering
<1>9. ASSUME NEW c \in Conns, Announce(c)
      PROVE  Scanned'
  BY <1>9 DEF Announce
<1>10. ASSUME NEW c \in Conns, Count(c)
      PROVE  Scanned'
  BY <1>10 DEF Count
<1>11. ASSUME NEW c \in Conns, ComparePeak(c)
      PROVE  Scanned'
  BY <1>11 DEF ComparePeak
<1>12. ASSUME NEW c \in Conns, SetPeak(c)
      PROVE  Scanned'
  BY <1>12 DEF SetPeak
<1>13. ASSUME NEW c \in Conns, Agreed(c)
      PROVE  Scanned'
  BY <1>13 DEF Agreed, Receive
<1>14. ASSUME NEW c \in Conns, SetClientUserInfo(c)
      PROVE  Scanned'
  BY <1>14 DEF SetClientUserInfo, Receive
<1>15. ASSUME NEW c \in Conns, BanOwnIP(c)
      PROVE  Scanned'
  BY <1>15 DEF BanOwnIP
<1>16. ASSUME NEW c \in Conns, SelfDelete(c)
      PROVE  Scanned'
  BY <1>16 DEF SelfDelete, Unregister
<1>17. ASSUME NEW c \in Conns, SelfClose(c)
      PROVE  Scanned'
  BY <1>17 DEF SelfClose
<1>18. ASSUME NEW c \in Conns, NEW i \in IDs, NEW k \in BanKinds, DisconnectUser(c, i, k)
      PROVE  Scanned'
  BY <1>18 DEF DisconnectUser, Receive
<1>19. ASSUME NEW c \in Conns, NEW l \in Logins, DeleteUser(c, l)
      PROVE  Scanned'
  BY <1>19 DEF DeleteUser, Receive
<1>20. ASSUME NEW c \in Conns, EvictUsers(c)
      PROVE  Scanned'
  BY <1>20 DEF EvictUsers, EvictLoop
<1>21. ASSUME NEW c \in Conns, Malformed(c)
      PROVE  Scanned'
  BY <1>21 DEF Malformed, Receive
<1>22. ASSUME NEW c \in Conns, EndOfInput(c)
      PROVE  Scanned'
  BY <1>22 DEF EndOfInput
<1>23. ASSUME NEW c \in Conns, Uncount(c)
      PROVE  Scanned'
  BY <1>23 DEF Uncount
<1>24. ASSUME NEW c \in Conns, DisconnectDelete(c)
      PROVE  Scanned'
  BY <1>24 DEF DisconnectDelete, Unregister
<1>25. ASSUME NEW c \in Conns, DisconnectClose(c)
      PROVE  Scanned'
  BY <1>25 DEF DisconnectClose
<1>26. ASSUME NEW c \in Conns, KickDelete(c)
      PROVE  Scanned'
  BY <1>26 DEF KickDelete, Unregister
<1>27. ASSUME NEW c \in Conns, KickClose(c)
      PROVE  Scanned'
  BY <1>27 DEF KickClose
<1>28. ASSUME NEW c \in Conns, PeerCloses(c)
      PROVE  Scanned'
  BY <1>28 DEF PeerCloses
<1>29. ASSUME NEW r \in BanRequests, ApiRequest(r)
      PROVE  Scanned'
  BY <1>29 DEF ApiRequest
<1>30. ASSUME ApiUsername
      PROVE  Scanned'
  BY <1>30 DEF ApiUsername, ApiCall
<1>31. ASSUME ApiNickname
      PROVE  Scanned'
  BY <1>31 DEF ApiNickname, ApiCall
<1>32. ASSUME ApiIP
      PROVE  Scanned'
  BY <1>32 DEF ApiIP, ApiCall
<1>33. ASSUME ApiList
      PROVE  Scanned'
  BY <1>33 DEF ApiList, Matches, Unloaded, Registered
<1>34. ASSUME ApiScan
      PROVE  Scanned'
  BY <1>34 DEF ApiScan, FirstOf, Matches
<1>35. ASSUME ApiDelete
      PROVE  Scanned'
  BY <1>35 DEF ApiDelete, Unregister
<1>36. ASSUME ApiClose
      PROVE  Scanned'
  BY <1>36 DEF ApiClose, CloseMatch, FirstOf
<1>37. ASSUME NEW p \in IPs, BanExpires(p)
      PROVE  Scanned'
  BY <1>37 DEF BanExpires
<1>38. CASE UNCHANGED vars
  BY <1>38 DEF vars
<1>. QED
  BY <1>1, <1>2, <1>3, <1>4, <1>5, <1>6, <1>7, <1>8, <1>9, <1>10, <1>11,
     <1>12, <1>13, <1>14, <1>15, <1>16, <1>17, <1>18, <1>19, <1>20, <1>21,
     <1>22, <1>23, <1>24, <1>25, <1>26, <1>27, <1>28, <1>29, <1>30, <1>31,
     <1>32, <1>33, <1>34, <1>35, <1>36, <1>37, <1>38
  DEF Next, Progress, Serve, Kick, ApiHandler

\* Every step preserves FreshIDs.
LEMMA FreshStep == TypeOK /\ Listed /\ FreshIDs /\ [Next]_vars => FreshIDs'
<1> SUFFICES ASSUME TypeOK, Listed, FreshIDs, [Next]_vars
             PROVE  FreshIDs'
  OBVIOUS
<1> USE DEF TypeOK, FreshIDs, Step, Live, Admitting, Counted, Login_pcs
<1>1. ASSUME NEW c \in Conns, ReadLogin(c)
      PROVE  FreshIDs'
  BY <1>1 DEF ReadLogin
<1>2. ASSUME NEW c \in Conns, LoginFails(c)
      PROVE  FreshIDs'
  BY <1>2 DEF LoginFails
<1>3. ASSUME NEW c \in Conns, CheckUsername(c)
      PROVE  FreshIDs'
  BY <1>3 DEF CheckUsername
<1>4. ASSUME NEW c \in Conns, AutoBan(c)
      PROVE  FreshIDs'
  BY <1>4 DEF AutoBan
<1>5. ASSUME NEW c \in Conns, CheckIP(c)
      PROVE  FreshIDs'
  BY <1>5 DEF CheckIP
<1>6. ASSUME NEW c \in Conns, Register(c)
      PROVE  FreshIDs'
  <2> SUFFICES ASSUME nextID + 1 < IDSpace PROVE FreshIDs'
    BY <1>6 DEF Register, AddAs
  <2>1. (nextID + 1) % IDSpace = nextID + 1 /\ nextID + 1 \in IDs
    BY NextClientID
  <2>2. /\ nextID' = nextID + 1
        /\ id' = [id EXCEPT ![c] = nextID + 1]
        /\ pc[c] = "register"
        /\ pc' = [pc EXCEPT ![c] = "auth"]
        /\ UNCHANGED <<sleeping, api>>
    BY <1>6, <2>1 DEF Register, AddAs
  <2>3. \A d \in Conns : d # c => id'[d] = id[d] /\ id[d] # nextID + 1
    BY <2>2
  <2>4. id'[c] = nextID + 1 /\ nextID + 1 # 0
    BY <2>2
  <2>. QED
    BY <2>2, <2>3, <2>4 DEF IDs
<1>7. ASSUME NEW c \in Conns, Authenticate(c)
      PROVE  FreshIDs'
  BY <1>7 DEF Authenticate
<1>8. ASSUME NEW c \in Conns, LoadAccount(c)
      PROVE  FreshIDs'
  BY <1>8 DEF LoadAccount
<1>9. ASSUME NEW c \in Conns, Announce(c)
      PROVE  FreshIDs'
  BY <1>9 DEF Announce
<1>10. ASSUME NEW c \in Conns, Count(c)
      PROVE  FreshIDs'
  BY <1>10 DEF Count
<1>11. ASSUME NEW c \in Conns, ComparePeak(c)
      PROVE  FreshIDs'
  BY <1>11 DEF ComparePeak
<1>12. ASSUME NEW c \in Conns, SetPeak(c)
      PROVE  FreshIDs'
  BY <1>12 DEF SetPeak
<1>13. ASSUME NEW c \in Conns, Agreed(c)
      PROVE  FreshIDs'
  BY <1>13 DEF Agreed, Receive
<1>14. ASSUME NEW c \in Conns, SetClientUserInfo(c)
      PROVE  FreshIDs'
  BY <1>14 DEF SetClientUserInfo, Receive
<1>15. ASSUME NEW c \in Conns, BanOwnIP(c)
      PROVE  FreshIDs'
  BY <1>15 DEF BanOwnIP
<1>16. ASSUME NEW c \in Conns, SelfDelete(c)
      PROVE  FreshIDs'
  BY <1>16 DEF SelfDelete, Unregister
<1>17. ASSUME NEW c \in Conns, SelfClose(c)
      PROVE  FreshIDs'
  BY <1>17 DEF SelfClose
<1>18. ASSUME NEW c \in Conns, NEW i \in IDs, NEW k \in BanKinds, DisconnectUser(c, i, k)
      PROVE  FreshIDs'
  <2>1. \A d \in Conns : sleeping'[d] > 0 => sleeping[d] > 0 \/ d = clients[i]
    BY <1>18 DEF DisconnectUser
  <2>2. clients[i] # NoConn => pc[clients[i]] \in Live
    BY DEF Listed
  <2>3. /\ UNCHANGED <<nextID, id, api>>
        /\ pc[c] = "serving" /\ pc'[c] \in {"serving", "uncount"}
        /\ \A d \in Conns \ {c} : pc'[d] = pc[d]
    BY <1>18 DEF DisconnectUser, Receive
  <2>. QED
    BY <2>1, <2>2, <2>3
<1>19. ASSUME NEW c \in Conns, NEW l \in Logins, DeleteUser(c, l)
      PROVE  FreshIDs'
  BY <1>19 DEF DeleteUser, Receive
<1>20. ASSUME NEW c \in Conns, EvictUsers(c)
      PROVE  FreshIDs'
  BY <1>20 DEF EvictUsers, EvictLoop, Listed, Registered
<1>21. ASSUME NEW c \in Conns, Malformed(c)
      PROVE  FreshIDs'
  BY <1>21 DEF Malformed, Receive
<1>22. ASSUME NEW c \in Conns, EndOfInput(c)
      PROVE  FreshIDs'
  BY <1>22 DEF EndOfInput
<1>23. ASSUME NEW c \in Conns, Uncount(c)
      PROVE  FreshIDs'
  BY <1>23 DEF Uncount
<1>24. ASSUME NEW c \in Conns, DisconnectDelete(c)
      PROVE  FreshIDs'
  BY <1>24 DEF DisconnectDelete, Unregister
<1>25. ASSUME NEW c \in Conns, DisconnectClose(c)
      PROVE  FreshIDs'
  BY <1>25 DEF DisconnectClose
<1>26. ASSUME NEW c \in Conns, KickDelete(c)
      PROVE  FreshIDs'
  BY <1>26 DEF KickDelete, Unregister
<1>27. ASSUME NEW c \in Conns, KickClose(c)
      PROVE  FreshIDs'
  BY <1>27 DEF KickClose
<1>28. ASSUME NEW c \in Conns, PeerCloses(c)
      PROVE  FreshIDs'
  BY <1>28 DEF PeerCloses
<1>29. ASSUME NEW r \in BanRequests, ApiRequest(r)
      PROVE  FreshIDs'
  BY <1>29 DEF ApiRequest
<1>30. ASSUME ApiUsername
      PROVE  FreshIDs'
  BY <1>30 DEF ApiUsername, ApiCall
<1>31. ASSUME ApiNickname
      PROVE  FreshIDs'
  BY <1>31 DEF ApiNickname, ApiCall
<1>32. ASSUME ApiIP
      PROVE  FreshIDs'
  BY <1>32 DEF ApiIP, ApiCall
<1>33. ASSUME ApiList
      PROVE  FreshIDs'
  BY <1>33 DEF ApiList, Listed, Registered
<1>34. ASSUME ApiScan
      PROVE  FreshIDs'
  BY <1>34 DEF ApiScan
<1>35. ASSUME ApiDelete
      PROVE  FreshIDs'
  BY <1>35 DEF ApiDelete, Unregister
<1>36. ASSUME ApiClose
      PROVE  FreshIDs'
  BY <1>36 DEF ApiClose, CloseMatch
<1>37. ASSUME NEW p \in IPs, BanExpires(p)
      PROVE  FreshIDs'
  BY <1>37 DEF BanExpires
<1>38. CASE UNCHANGED vars
  BY <1>38 DEF vars
<1>. QED
  BY <1>1, <1>2, <1>3, <1>4, <1>5, <1>6, <1>7, <1>8, <1>9, <1>10, <1>11,
     <1>12, <1>13, <1>14, <1>15, <1>16, <1>17, <1>18, <1>19, <1>20, <1>21,
     <1>22, <1>23, <1>24, <1>25, <1>26, <1>27, <1>28, <1>29, <1>30, <1>31,
     <1>32, <1>33, <1>34, <1>35, <1>36, <1>37, <1>38
  DEF Next, Progress, Serve, Kick, ApiHandler

\* Every step preserves ServedIsListed.
LEMMA ServedStep == TypeOK /\ Listed /\ FreshIDs /\ ServedIsListed /\ [Next]_vars => ServedIsListed'
<1> SUFFICES ASSUME TypeOK, Listed, FreshIDs, ServedIsListed, [Next]_vars
             PROVE  ServedIsListed'
  OBVIOUS
<1> USE DEF TypeOK, ServedIsListed, FirstOf, Step, Close, Live, Admitting, Counted, FreshIDs
<1>1. ASSUME NEW c \in Conns, ReadLogin(c)
      PROVE  ServedIsListed'
  BY <1>1 DEF ReadLogin
<1>2. ASSUME NEW c \in Conns, LoginFails(c)
      PROVE  ServedIsListed'
  BY <1>2 DEF LoginFails
<1>3. ASSUME NEW c \in Conns, CheckUsername(c)
      PROVE  ServedIsListed'
  BY <1>3 DEF CheckUsername
<1>4. ASSUME NEW c \in Conns, AutoBan(c)
      PROVE  ServedIsListed'
  BY <1>4 DEF AutoBan
<1>5. ASSUME NEW c \in Conns, CheckIP(c)
      PROVE  ServedIsListed'
  BY <1>5 DEF CheckIP
<1>6. ASSUME NEW c \in Conns, Register(c)
      PROVE  ServedIsListed'
  <2> SUFFICES ASSUME nextID + 1 < IDSpace PROVE ServedIsListed'
    BY <1>6 DEF Register, AddAs
  <2>1. (nextID + 1) % IDSpace = nextID + 1 /\ nextID + 1 \in IDs
    BY NextClientID
  <2>2. /\ id' = [id EXCEPT ![c] = nextID + 1]
        /\ clients' = [clients EXCEPT ![nextID + 1] = c]
        /\ pc[c] = "register"
        /\ pc' = [pc EXCEPT ![c] = "auth"]
        /\ UNCHANGED <<open, closing, api>>
    BY <1>6, <2>1 DEF Register, AddAs
  <2>3. c \notin api.todo
    BY <2>2 DEF Login_pcs
  <2>4. \A d \in Conns : d # c => id'[d] = id[d] /\ id[d] # nextID + 1
    BY <2>2
  <2>5. clients'[id'[c]] = c
    BY <2>1, <2>2
  <2>6. \A d \in Conns : FirstOf(api.todo, d) => FirstOf(api.todo, d)'
    BY <2>2, <2>3, <2>4
  <2>7. \A d \in Conns : d # c => clients'[id'[d]] = clients[id[d]]
    BY <2>2, <2>4
  <2> HIDE DEF FirstOf
  <2>. QED
    BY <2>2, <2>5, <2>6, <2>7
<1>7. ASSUME NEW c \in Conns, Authenticate(c)
      PROVE  ServedIsListed'
  BY <1>7 DEF Authenticate
<1>8. ASSUME NEW c \in Conns, LoadAccount(c)
      PROVE  ServedIsListed'
  BY <1>8 DEF LoadAccount
<1>9. ASSUME NEW c \in Conns, Announce(c)
      PROVE  ServedIsListed'
  BY <1>9 DEF Announce
<1>10. ASSUME NEW c \in Conns, Count(c)
      PROVE  ServedIsListed'
  BY <1>10 DEF Count
<1>11. ASSUME NEW c \in Conns, ComparePeak(c)
      PROVE  ServedIsListed'
  BY <1>11 DEF ComparePeak
<1>12. ASSUME NEW c \in Conns, SetPeak(c)
      PROVE  ServedIsListed'
  BY <1>12 DEF SetPeak
<1>13. ASSUME NEW c \in Conns, Agreed(c)
      PROVE  ServedIsListed'
  BY <1>13 DEF Agreed, Receive
<1>14. ASSUME NEW c \in Conns, SetClientUserInfo(c)
      PROVE  ServedIsListed'
  BY <1>14 DEF SetClientUserInfo, Receive
<1>15. ASSUME NEW c \in Conns, BanOwnIP(c)
      PROVE  ServedIsListed'
  BY <1>15 DEF BanOwnIP
<1>16. ASSUME NEW c \in Conns, SelfDelete(c)
      PROVE  ServedIsListed'
  BY <1>16 DEF SelfDelete, Unregister
<1>17. ASSUME NEW c \in Conns, SelfClose(c)
      PROVE  ServedIsListed'
  BY <1>17 DEF SelfClose
<1>18. ASSUME NEW c \in Conns, NEW i \in IDs, NEW k \in BanKinds, DisconnectUser(c, i, k)
      PROVE  ServedIsListed'
  BY <1>18 DEF DisconnectUser, Receive
<1>19. ASSUME NEW c \in Conns, NEW l \in Logins, DeleteUser(c, l)
      PROVE  ServedIsListed'
  BY <1>19 DEF DeleteUser, Receive
<1>20. ASSUME NEW c \in Conns, EvictUsers(c)
      PROVE  ServedIsListed'
  BY <1>20 DEF EvictUsers, EvictLoop
<1>21. ASSUME NEW c \in Conns, Malformed(c)
      PROVE  ServedIsListed'
  BY <1>21 DEF Malformed, Receive
<1>22. ASSUME NEW c \in Conns, EndOfInput(c)
      PROVE  ServedIsListed'
  BY <1>22 DEF EndOfInput
<1>23. ASSUME NEW c \in Conns, Uncount(c)
      PROVE  ServedIsListed'
  BY <1>23 DEF Uncount
<1>24. ASSUME NEW c \in Conns, DisconnectDelete(c)
      PROVE  ServedIsListed'
  BY <1>24 DEF DisconnectDelete, Unregister
<1>25. ASSUME NEW c \in Conns, DisconnectClose(c)
      PROVE  ServedIsListed'
  BY <1>25 DEF DisconnectClose
<1>26. ASSUME NEW c \in Conns, KickDelete(c)
      PROVE  ServedIsListed'
  BY <1>26 DEF KickDelete, Unregister
<1>27. ASSUME NEW c \in Conns, KickClose(c)
      PROVE  ServedIsListed'
  BY <1>27 DEF KickClose
<1>28. ASSUME NEW c \in Conns, PeerCloses(c)
      PROVE  ServedIsListed'
  BY <1>28 DEF PeerCloses
<1>29. ASSUME NEW r \in BanRequests, ApiRequest(r)
      PROVE  ServedIsListed'
  BY <1>29 DEF ApiRequest
<1>30. ASSUME ApiUsername
      PROVE  ServedIsListed'
  BY <1>30 DEF ApiUsername, ApiCall
<1>31. ASSUME ApiNickname
      PROVE  ServedIsListed'
  BY <1>31 DEF ApiNickname, ApiCall
<1>32. ASSUME ApiIP
      PROVE  ServedIsListed'
  BY <1>32 DEF ApiIP, ApiCall
<1>33. ASSUME ApiList
      PROVE  ServedIsListed'
  BY <1>33 DEF ApiList
<1>34. ASSUME ApiScan
      PROVE  ServedIsListed'
  BY <1>34 DEF ApiScan
<1>35. ASSUME ApiDelete
      PROVE  ServedIsListed'
  BY <1>35 DEF ApiDelete, Unregister
<1>36. ASSUME ApiClose
      PROVE  ServedIsListed'
  <2>1. PICK d \in Conns : /\ FirstOf(api.todo, d)
                            /\ open' = [open EXCEPT ![d] = FALSE]
                            /\ api' = [api EXCEPT !.phase = "scan", !.todo = @ \ {d}]
    BY <1>36 DEF ApiClose, CloseMatch
  <2>2. nextID < IDSpace => \A e \in Conns : FirstOf(api.todo, e) => e = d
    BY <2>1 DEF IDs
  <2>. QED
    BY <1>36, <2>1, <2>2 DEF ApiClose, CloseMatch
<1>37. ASSUME NEW p \in IPs, BanExpires(p)
      PROVE  ServedIsListed'
  BY <1>37 DEF BanExpires
<1>38. CASE UNCHANGED vars
  BY <1>38 DEF vars
<1>. QED
  BY <1>1, <1>2, <1>3, <1>4, <1>5, <1>6, <1>7, <1>8, <1>9, <1>10, <1>11,
     <1>12, <1>13, <1>14, <1>15, <1>16, <1>17, <1>18, <1>19, <1>20, <1>21,
     <1>22, <1>23, <1>24, <1>25, <1>26, <1>27, <1>28, <1>29, <1>30, <1>31,
     <1>32, <1>33, <1>34, <1>35, <1>36, <1>37, <1>38
  DEF Next, Progress, Serve, Kick, ApiHandler

-----------------------------------------------------------------------------
\* Type correctness: every handler leaves every piece of state in its type,
\* the client IDs inside the ID space included.
THEOREM TypeCorrect == Spec => [](TypeOK /\ LoggedIn)
<1>1. Init => TypeOK /\ LoggedIn
  BY DEF Init, TypeOK, LoggedIn, NoRequest, Request, Optional, IDs, BanKinds,
         ApiPhases, PCs, Counted
<1>. QED
  BY <1>1, TypeStep, LoggedInStep, PTL DEF Spec

\* A session that has ended is not listed by the client manager, for any number
\* of client IDs: also after they have wrapped around and been reused.
THEOREM NoGhosts == Spec => []NoGhostClient
<1>1. Init => Listed
  BY DEF Init, Listed
<1>2. TypeOK /\ Listed => NoGhostClient
  BY DEF TypeOK, Listed, NoGhostClient, Registered, Live, Admitting, Counted
<1>. QED
  BY <1>1, <1>2, TypeCorrect, ListedStep, PTL DEF Spec

\* CurrentlyConnected counts the sessions being served, however many there are.
THEOREM CountCorrect == Spec => []CountMatchesSessions
<1>1. Init => CountMatchesSessions
  <2> SUFFICES ASSUME Init PROVE CountMatchesSessions
    OBVIOUS
  <2>1. {c \in Conns : pc[c] \in Counted} = {}
    BY DEF Init, Counted
  <2>. QED
    BY <2>1, FS_EmptySet DEF Init, CountMatchesSessions
<1>. QED
  BY <1>1, TypeCorrect, CountStep, PTL DEF Spec

\* Until the client IDs wrap around, a served connection is found in the client
\* manager under its own ID unless a Disconnect of that very connection has run,
\* for any number of connections and any interleaving of the five places that
\* call Disconnect.
THEOREM ServedStaysListed == Spec => []ServedIsListed
<1>1. Init => Listed /\ FreshIDs /\ ServedIsListed
  BY DEF Init, Listed, FreshIDs, ServedIsListed, Live, Admitting, Counted
<1>. QED
  BY <1>1, TypeCorrect, ListedStep, FreshStep, ServedStep, PTL DEF Spec

\* Whoever is logged in with a deleted account is about to be disconnected or
\* no longer listed, also when the login overlaps the deletion, unless the
\* eviction loop panicked.
THEOREM DeletedIsEvicted == Spec => []DeletedAccountEvicted
<1>1. Init => Unloaded /\ Listed /\ DeletedAccountEvicted
  BY DEF Init, Unloaded, Listed, DeletedAccountEvicted
<1>. QED
  BY <1>1, TypeCorrect, UnloadedStep, ListedStep, EvictedStep, PTL DEF Spec

\* When a ban request is answered, every client that was listed and matched by
\* user name or address is disconnected, whatever happened during the scan.
THEOREM BannedAreDisconnected == Spec => []BanDisconnects
<1>1. Init => Unloaded /\ Scanned
  BY DEF Init, Unloaded, Scanned, NoRequest
<1>2. Scanned => BanDisconnects
  BY DEF Scanned, BanDisconnects
<1>. QED
  BY <1>1, <1>2, TypeCorrect, UnloadedStep, ScannedStep, PTL DEF Spec
=============================================================================
