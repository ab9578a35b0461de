--------------------------- MODULE AccountsProofs ---------------------------
(***************************************************************************)
(* Proofs about Accounts, for any sessions, logins, rights and passwords:  *)
(* the state has its types, cache and files agree on every login that no   *)
(* interrupted operation was about, no chain of creations makes a right    *)
(* that nobody had, and a change by HandleSetUser reaches the sessions.    *)
(*                                                                         *)
(* The invariant adds which login each cached account carries, where a     *)
(* file can carry another login than its name says (only one of a damaged  *)
(* login), what a handler between two lock sections holds, and how far a   *)
(* loop that tells sessions has got.                                       *)
(***************************************************************************)
EXTENDS Accounts, TLAPS

\* An account is cached under its own login.
CacheLogin == \A n \in Names : cache[n] # None => cache[n].login = n

\* What a handler holds between its two lock sections.
Jobs == \A c \in Conns : op[c].kind = "create" => op[c].acct.login = op[c].to

\* Nobody is connected while the server is down.
Down == ~up => \A c \in Conns : conn[c].at = "out" /\ op[c].kind = "none"

\* A file that carries another login than its own carries a damaged one.
Claimed ==
    /\ Junk \in damaged
    /\ \A m \in Names :
          files[m] \in Content => files[m].acct.login = m \/ files[m].acct.login \in damaged

\* Where nobody may modify accounts, files and handlers hold no right that
\* nobody had at first.
Confined ==
    Modify \notin initial =>
        /\ \A n \in Names : files[n] \in Content => files[n].acct.access \subseteq initial
        /\ \A c \in Conns : op[c].kind \in {"none", "create"}
        /\ \A c \in Conns : op[c].kind = "create" => op[c].acct.access \subseteq initial

\* A loop that can be relied on is the only one for its login and tells what
\* is in force; whoever it need not look at any more, or never need look at,
\* has that already.
Relied(c, a, k) == op[c].kind = "tell" /\ op[c].to = k /\ k \notin stale /\ op[c].acct = a

Sound(c, a, k) ==
    /\ \A e \in Conns \ {c} : ~(op[e].kind = "tell" /\ op[e].to = k)
    /\ cache[k] # None =>
          /\ cache[k].access = a.access
          /\ \A d \in Conns \ op[c].todo :
                conn[d].at \in {"got", "in"} /\ conn[d].acct.login = k
                    => conn[d].acct.access = a.access

Telling == \A c \in Conns, a \in Account, k \in Names : Relied(c, a, k) => Sound(c, a, k)

Inv ==
    /\ TypeOK
    /\ CacheLogin
    /\ Jobs
    /\ Down
    /\ Claimed
    /\ UndamagedInSync
    /\ Confined
    /\ ConfinedRights
    /\ Telling
    /\ SessionsAreTold

-----------------------------------------------------------------------------
(* Accounts and what is written of them *)

\* What Text writes of an account is read back as that account.
LEMMA TextOf ==
    ASSUME NEW a \in Account
    PROVE  Text(a) \in Content /\ Text(a).acct = a
BY DEF Text, Content

\* A file content holds an account, and is neither missing nor Bad.
LEMMA ContentOf ==
    ASSUME NEW t \in Content
    PROVE  t.acct \in Account /\ t # None /\ t # Bad
BY NilAssumption DEF Content

\* An account has a login and rights, and is not None.
LEMMA AccountOf ==
    ASSUME NEW a \in Account
    PROVE  a.login \in Names /\ a.access \subseteq Rights /\ a # None
BY NilAssumption DEF Account

\* A renamed account differs in its login only.
LEMMA RenamedOf ==
    ASSUME NEW a \in Account, NEW n \in Names
    PROVE  /\ [a EXCEPT !.login = n] \in Account
           /\ [a EXCEPT !.login = n].login = n
           /\ [a EXCEPT !.login = n].access = a.access
BY DEF Account

\* An account with other rights differs in its access only.
LEMMA AccessOf ==
    ASSUME NEW a \in Account, NEW S \in SUBSET Rights
    PROVE  /\ [a EXCEPT !.access = S] \in Account
           /\ [a EXCEPT !.access = S].login = a.login
           /\ [a EXCEPT !.access = S].access = S
BY DEF Account

\* An edited account keeps its login and gets the access of the request.
LEMMA EditedOf ==
    ASSUME NEW a \in Account, NEW g \in SUBSET Rights, NEW p \in Passwords \cup {Keep}
    PROVE  /\ Edited(a, g, p) \in Account
           /\ Edited(a, g, p).login = a.login
           /\ Edited(a, g, p).access = g
BY DEF Account, Edited, Hashes

\* What an interrupted write leaves is not YAML, or an account with no more
\* rights, of the same login or of none that anybody asked for.
LEMMA InterruptedOf ==
    ASSUME NEW a \in Account, NEW t \in Interrupted(a)
    PROVE  \/ t = Bad
           \/ /\ t \in Content
              /\ t.acct.login \in {Junk, a.login}
              /\ t.acct.access \subseteq a.access
<1>1. CASE t = [acct |-> [login |-> Junk, access |-> {}, pass |-> NoPass], fmt |-> "old"]
  BY <1>1 DEF Content, Account, Names, Hashes
<1>2. CASE t = [acct |-> [a EXCEPT !.access = {}, !.pass = NoPass], fmt |-> "old"]
  BY <1>2 DEF Content, Account, Hashes
<1>3. ASSUME NEW S \in SUBSET a.access, t = Text([a EXCEPT !.access = S])
      PROVE  t \in Content /\ t.acct.login = a.login /\ t.acct.access \subseteq a.access
  BY <1>3 DEF Content, Account, Text
<1> QED BY <1>1, <1>2, <1>3 DEF Interrupted

-----------------------------------------------------------------------------
(* What a handler holds *)

OpSet == [kind: {"none", "update", "create", "notify", "tell"},
          acct: Account \cup {None}, to: Names, notify: BOOLEAN,
          todo: SUBSET (Conns \cup {None})]

\* A handler that holds nothing.
LEMMA IdleOf == Idle \in OpSet /\ Idle.kind = "none"
BY DEF Idle, OpSet, Names

\* A handler that is about to change an account.
LEMMA UpdateOf ==
    ASSUME NEW a \in Account, NEW n \in Names
    PROVE  LET o == [Idle EXCEPT !.kind = "update", !.acct = a, !.to = n, !.notify = TRUE]
               p == [Idle EXCEPT !.kind = "update", !.acct = a, !.to = n]
           IN  /\ o \in OpSet /\ o.kind = "update" /\ o.acct = a
               /\ p \in OpSet /\ p.kind = "update" /\ p.acct = a
<1>1. PICK r \in OpSet : r = Idle
  BY IdleOf
<1>2. LET o == [r EXCEPT !.kind = "update", !.acct = a, !.to = n, !.notify = TRUE]
      IN  o \in OpSet /\ o.kind = "update" /\ o.acct = a
  BY DEF OpSet
<1>3. LET o == [r EXCEPT !.kind = "update", !.acct = a, !.to = n]
      IN  o \in OpSet /\ o.kind = "update" /\ o.acct = a
  BY DEF OpSet
<1> QED BY <1>1, <1>2, <1>3, Zenon

\* Leaving sessions S out of a loop ends it or takes at most S from it.
LEMMA WithoutOf ==
    ASSUME NEW o \in OpSet, NEW S
    PROVE  /\ Without(o, S) \in OpSet
           /\ \/ o.kind = "tell" /\ o.todo \subseteq S /\ Without(o, S) = Idle
              \/ /\ Without(o, S).kind = o.kind /\ Without(o, S).acct = o.acct
                 /\ Without(o, S).to = o.to /\ Without(o, S).todo = o.todo \ S
<1>1. CASE o.kind = "tell" /\ o.todo \subseteq S
  BY <1>1, IdleOf DEF Without
<1>2. CASE ~(o.kind = "tell" /\ o.todo \subseteq S)
  <2>1. Without(o, S) = [o EXCEPT !.todo = o.todo \ S]
    BY <1>2 DEF Without
  <2>2. o.todo \ S \in SUBSET (Conns \cup {None})
    BY DEF OpSet
  <2> QED BY <2>1, <2>2 DEF OpSet
<1> QED BY <1>1, <1>2

\* A forsaken loop is the same but for the session that left.
LEMMA ForsakenOf ==
    ASSUME NEW o \in OpSet, NEW c \in Conns
    PROVE  /\ Forsaken(o, c) \in OpSet
           /\ Forsaken(o, c).kind = o.kind /\ Forsaken(o, c).acct = o.acct
           /\ Forsaken(o, c).to = o.to /\ o.todo \ {c} \subseteq Forsaken(o, c).todo
<1>1. CASE c \in o.todo
  <2> DEFINE T == (o.todo \ {c}) \cup {None}
  <2>1. T \in SUBSET (Conns \cup {None}) /\ o.todo \ {c} \subseteq T
    BY DEF OpSet
  <2>2. Forsaken(o, c) = [o EXCEPT !.todo = T]
    BY <1>1 DEF Forsaken
  <2> HIDE DEF T
  <2> QED BY <2>1, <2>2 DEF OpSet
<1>2. CASE c \notin o.todo
  BY <1>2 DEF Forsaken
<1> QED BY <1>1, <1>2

-----------------------------------------------------------------------------
(* What the steps change *)

\* f is changed at one name only.
Puts(f, n, v) == f'[n] = v /\ \A m \in Names \ {n} : f'[m] = f[m]

\* The handler of session c is done.
Freed(c) ==
    /\ op'[c].kind = "none"
    /\ \A d \in Conns \ {c} : op'[d] = op[d]

\* The handler of session c goes on.  When it is a loop it may have left S out
\* of the sessions it has still to look at, and be done with that.
Goes(c, S) ==
    \/ /\ op'[c].kind = op[c].kind
       /\ op'[c].acct = op[c].acct
       /\ op'[c].to = op[c].to
       /\ op[c].todo \ S \subseteq op'[c].todo
    \/ op[c].kind = "tell" /\ op[c].todo \subseteq S /\ op'[c].kind = "none"

\* The handler of session c holds account a for login n.
Job(c, k, a, n) ==
    /\ op[c].kind = k
    /\ op[c].acct = a
    /\ op[c].to = n

\* Nobody is connected any more.
Halted ==
    /\ up' = FALSE
    /\ \A n \in Names : cache'[n] = None
    /\ \A d \in Conns : conn'[d].at = "out" /\ op'[d].kind = "none"

Nothing == UNCHANGED <<up, cache, files, conn, op, damaged, initial, stale>>

\* Session c has no account: it begins to log in, finds none or leaves.
Absent(c) ==
    /\ up
    /\ conn'[c].at \in {"out", "nil"}
    /\ \A d \in Conns \ {c} : conn'[d] = conn[d]
    /\ \A d \in Conns : Goes(d, {c})
    /\ UNCHANGED <<up, cache, files, damaged, initial, stale>>

Got(c, l) ==
    /\ up
    /\ cache[l] # None
    /\ conn'[c].acct = cache[l]
    /\ \A d \in Conns \ {c} : conn'[d] = conn[d]
    /\ UNCHANGED <<up, cache, files, op, damaged, initial, stale>>

Assigned(c) ==
    /\ conn[c].at = "got"
    /\ conn'[c].at = "in"
    /\ conn'[c].acct = conn[c].acct
    /\ \A d \in Conns \ {c} : conn'[d] = conn[d]
    /\ UNCHANGED <<up, cache, files, op, damaged, initial, stale>>

Begun(c) ==
    /\ conn[c].at = "in"
    /\ op[c].kind = "none"
    /\ \/ op'[c].kind = "update" /\ Modify \in conn[c].acct.access
       \/ /\ op'[c].kind = "create"
          /\ op'[c].acct.login = op'[c].to
          /\ op'[c].acct.access \subseteq conn[c].acct.access
    /\ \A d \in Conns \ {c} : op'[d] = op[d]
    /\ UNCHANGED <<up, cache, files, conn, damaged, initial, stale>>

Refused(c) ==
    /\ op[c].kind \in {"create", "update"}
    /\ Freed(c)
    /\ UNCHANGED <<up, cache, files, conn, damaged, initial, stale>>

Made(c, a, n) ==
    /\ Job(c, "create", a, n)
    /\ Puts(files, n, Text(a))
    /\ Puts(cache, n, a)
    /\ stale' = stale \cup {n}
    /\ Freed(c)
    /\ UNCHANGED <<up, conn, damaged, initial>>

HalfMade(c, a, n) ==
    /\ Job(c, "create", a, n)
    /\ \E t \in Interrupted(a) : Puts(files, n, t)
    /\ damaged' = damaged \cup {n}
    /\ \/ Freed(c) /\ UNCHANGED <<up, cache, conn>>
       \/ Halted
    /\ UNCHANGED <<initial, stale>>

Changed(c, a, n) ==
    /\ Job(c, "update", a, n)
    /\ files'[n] = Text([a EXCEPT !.login = n])
    /\ cache'[n] = [a EXCEPT !.login = n]
    /\ a.login # n => files'[a.login] = None /\ cache'[a.login] = None
    /\ \A m \in Names \ {n, a.login} : files'[m] = files[m] /\ cache'[m] = cache[m]
    /\ \/ op'[c].kind = "notify" /\ op'[c].to = n /\ Tellers(n) = {} /\ stale' = stale
       \/ op'[c].kind \in {"notify", "none"} /\ stale' = stale \cup {a.login, n}
    /\ \A d \in Conns \ {c} : op'[d] = op[d]
    /\ UNCHANGED <<up, conn, damaged, initial>>

HalfChanged(c, a, n) ==
    /\ Job(c, "update", a, n)
    /\ \/ a.login = n /\ UNCHANGED <<files, damaged>>
       \/ /\ damaged' = damaged \cup {a.login, n}
          /\ \A m \in Names \ {n, a.login} : files'[m] = files[m]
          /\ a.login # n => files'[a.login] = None
          /\ \/ files'[n] \in {files[n], files[a.login]}
             \/ files'[n] \in Interrupted([a EXCEPT !.login = n])
    /\ \/ /\ Freed(c)
          /\ \/ a.login = n /\ UNCHANGED <<cache, stale>>
             \/ /\ cache'[n] = [a EXCEPT !.login = n]
                /\ cache'[a.login] = None
                /\ \A m \in Names \ {n, a.login} : cache'[m] = cache[m]
                /\ stale' = stale \cup {a.login, n}
                /\ a.login # n
          /\ UNCHANGED <<up, conn>>
       \/ Halted /\ UNCHANGED stale
    /\ UNCHANGED initial

\* Session c begins to tell the sessions of login n of account a.
Lists(c, a, n) ==
    /\ Job(c, "notify", a, n)
    /\ op'[c].kind = "tell"
    /\ op'[c].acct = a
    /\ op'[c].to = n
    /\ op'[c].todo = Listed
    /\ \A d \in Conns \ {c} : op'[d] = op[d]
    /\ \/ stale' = stale \cup {n}
       \/ /\ stale' = stale \ {n}
          /\ Tellers(n) = {}
          /\ cache[n] # None => cache[n].access = a.access
    /\ UNCHANGED <<up, cache, files, conn, damaged, initial>>

\* Session c looks at session d, and tells it if it is one of login n.
Tells(c, d, a, n) ==
    /\ Job(c, "tell", a, n)
    /\ conn[d].at = "in"
    /\ conn'[d].at = "in"
    /\ conn'[d].acct.login = conn[d].acct.login
    /\ conn'[d].acct.access = IF conn[d].acct.login = n THEN a.access ELSE conn[d].acct.access
    /\ \A e \in Conns \ {d} : conn'[e] = conn[e]
    /\ Goes(c, {d})
    /\ \A e \in Conns \ {c} : op'[e] = op[e]
    /\ UNCHANGED <<up, cache, files, damaged, initial, stale>>

\* Session c ends amid its loop.
Panics(c) ==
    /\ op[c].kind = "tell"
    /\ conn'[c].at = "out"
    /\ \A d \in Conns \ {c} : conn'[d] = conn[d]
    /\ op'[c].kind = "none"
    /\ \A d \in Conns \ {c} : Goes(d, {c})
    /\ stale' = stale \cup {op[c].to}
    /\ UNCHANGED <<up, cache, files, damaged, initial>>

Deleted(l) ==
    /\ up
    /\ Puts(files, l, None)
    /\ Puts(cache, l, None)
    /\ UNCHANGED <<up, conn, op, damaged, initial, stale>>

Crashed == Halted /\ UNCHANGED <<files, damaged, initial, stale>>

Started ==
    /\ ~up
    /\ \A n \in Names : files[n] # Bad
    /\ \A n \in Names :
          IF Claims(n) = {} THEN cache'[n] = None
          ELSE \E m \in Claims(n) : cache'[n] = files[m].acct
    /\ \A n \in Names :
          files'[n] = files[n] \/ \E m \in Claims(n) : files'[n] = Text(files[m].acct)
    /\ UNCHANGED <<conn, op, damaged, initial>>

HalfStarted(n) ==
    /\ ~up
    /\ \E m \in Claims(n) : \E t \in Interrupted(files[m].acct) : Puts(files, n, t)
    /\ damaged' = damaged \cup {n}
    /\ UNCHANGED <<up, cache, conn, op, initial, stale>>

Effect ==
    \/ Nothing \/ Crashed \/ Started
    \/ \E c \in Conns : Absent(c) \/ Assigned(c) \/ Begun(c) \/ Refused(c) \/ Panics(c)
    \/ \E c \in Conns, l \in Names : Got(c, l)
    \/ \E c \in Conns, a \in Account, n \in Names :
          \/ Made(c, a, n) \/ HalfMade(c, a, n) \/ Changed(c, a, n) \/ HalfChanged(c, a, n)
          \/ Lists(c, a, n) \/ \E d \in Conns : Tells(c, d, a, n)
    \/ \E n \in Names : Deleted(n) \/ HalfStarted(n)

-----------------------------------------------------------------------------
(* Each step has one of these effects *)

\* A session that logs in or out keeps the types and has one of the effects.
LEMMA LoginCases ==
    ASSUME TypeOK, Down, NEW c \in Conns,
           \/ \E l \in Logins : Login(c, l)
           \/ GetAccount(c) \/ AssignAccount(c) \/ Leave(c)
    PROVE  TypeOK' /\ Effect
<1> DEFINE ConnSet == [at: Stages, login: Names, acct: Account \cup {None}]
<1>0. /\ Out \in ConnSet /\ Out.at = "out"
      /\ conn \in [Conns -> ConnSet]
      /\ conn[c].at # "out" => up
      /\ Logins \subseteq Names
      /\ op \in [Conns -> OpSet]
  BY DEF TypeOK, Out, Stages, Names, Down, OpSet
<1> DEFINE Follow == \A d \in Conns : Goes(d, {c})
<1>1. ASSUME conn' \in [Conns -> ConnSet],
             \A d \in Conns \ {c} : conn'[d] = conn[d],
             conn'[c].at \in {"got", "in"} => conn'[c].acct \in Account,
             op' \in [Conns -> OpSet],
             \A d \in Conns : op'[d].kind # "none" => op'[d].acct \in Account,
             UNCHANGED <<up, cache, files, damaged, initial, stale, requests, faults>>
      PROVE  TypeOK'
  BY <1>1 DEF TypeOK, OpSet
<1>6. ASSUME op' = op PROVE op' \in [Conns -> OpSet] /\ Follow
  BY <1>0, <1>6 DEF Goes
<1>7. \A d \in Conns : op[d].kind # "none" => op[d].acct \in Account
  BY DEF TypeOK
<1>8. ASSUME op' = [d \in Conns |-> Forsaken(op[d], c)]
      PROVE  /\ op' \in [Conns -> OpSet] /\ Follow
             /\ \A d \in Conns : op'[d].kind # "none" => op'[d].acct \in Account
  <2>1. ASSUME NEW d \in Conns
        PROVE  /\ op'[d] \in OpSet /\ Goes(d, {c})
               /\ op'[d].kind # "none" => op'[d].acct \in Account
    <3>1. PICK o \in OpSet : o = op[d]
      BY <1>0
    <3> QED BY <1>7, <1>8, <3>1, ForsakenOf DEF Goes
  <2> QED BY <1>8, <2>1
<1>9. ASSUME op' = [d \in Conns |-> Without(op[d], {c})]
      PROVE  /\ op' \in [Conns -> OpSet] /\ Follow
             /\ \A d \in Conns : op'[d].kind # "none" => op'[d].acct \in Account
  <2>1. ASSUME NEW d \in Conns
        PROVE  /\ op'[d] \in OpSet /\ Goes(d, {c})
               /\ op'[d].kind # "none" => op'[d].acct \in Account
    <3>1. PICK o \in OpSet : o = op[d]
      BY <1>0
    <3> QED BY <1>7, <1>9, <3>1, WithoutOf, IdleOf DEF Goes
  <2> QED BY <1>9, <2>1
<1>2. ASSUME NEW l \in Logins, Login(c, l)
      PROVE  TypeOK' /\ Effect
  <2> DEFINE new == [at |-> "nil", login |-> l, acct |-> None]
  <2>1. new \in ConnSet /\ new.at = "nil"
    BY <1>0 DEF Stages
  <2>2. conn' = [conn EXCEPT ![c] = new] /\ up
        /\ UNCHANGED <<up, cache, files, op, damaged, initial, stale, requests, faults>>
    BY <1>2 DEF Login
  <2> HIDE DEF new
  <2>3. conn' \in [Conns -> ConnSet] /\ conn'[c].at = "nil" /\ \A d \in Conns \ {c} : conn'[d] = conn[d]
    BY <1>0, <2>1, <2>2
  <2> QED BY <1>1, <1>6, <1>7, <2>2, <2>3 DEF Effect, Absent
<1>3. CASE GetAccount(c)
  <2>1. PICK l \in Names : l = conn[c].login
    BY <1>0
  <2>2. CASE cache[l] = None
    <3>1. conn' = [conn EXCEPT ![c] = Out]
      BY <1>3, <2>1, <2>2 DEF GetAccount
    <3>2. conn' \in [Conns -> ConnSet] /\ conn'[c].at = "out" /\ \A d \in Conns \ {c} : conn'[d] = conn[d]
      BY <1>0, <3>1
    <3>3. /\ op' = [d \in Conns |-> Forsaken(op[d], c)] /\ up
          /\ UNCHANGED <<up, cache, files, damaged, initial, stale, requests, faults>>
      BY <1>0, <1>3, <2>1, <2>2 DEF GetAccount
    <3> QED BY <1>1, <1>8, <3>2, <3>3 DEF Effect, Absent
  <2>3. CASE cache[l] # None
    <3> DEFINE new == [conn[c] EXCEPT !.at = "got", !.acct = cache[l]]
    <3>1. conn' = [conn EXCEPT ![c] = new]
      BY <1>3, <2>1, <2>3 DEF GetAccount
    <3>2. cache[l] \in Account
      BY <2>3 DEF TypeOK
    <3>3. new \in ConnSet /\ new.acct = cache[l]
      BY <1>0, <3>2 DEF Stages
    <3> HIDE DEF new
    <3>4. /\ conn' \in [Conns -> ConnSet] /\ conn'[c].acct = cache[l]
          /\ \A d \in Conns \ {c} : conn'[d] = conn[d]
      BY <1>0, <3>1, <3>3
    <3>5. UNCHANGED <<up, cache, files, op, damaged, initial, stale, requests, faults>> /\ up
      BY <1>0, <1>3, <2>1, <2>3 DEF GetAccount
    <3>6. TypeOK'
      BY <1>0, <1>1, <1>7, <3>2, <3>4, <3>5
    <3>7. Got(c, l)
      BY <2>3, <3>4, <3>5 DEF Got
    <3> QED BY <3>6, <3>7 DEF Effect
  <2> QED BY <2>2, <2>3
<1>4. CASE AssignAccount(c)
  <2>1. /\ conn[c].at = "got" /\ conn' = [conn EXCEPT ![c].at = "in"]
        /\ UNCHANGED <<up, cache, files, op, damaged, initial, stale, requests, faults>>
    BY <1>4 DEF AssignAccount
  <2>2. /\ conn' \in [Conns -> ConnSet] /\ conn'[c].at = "in" /\ conn'[c].acct = conn[c].acct
        /\ \A d \in Conns \ {c} : conn'[d] = conn[d]
    BY <1>0, <2>1 DEF Stages
  <2>3. conn[c].acct \in Account
    BY <2>1 DEF TypeOK
  <2>4. TypeOK'
    BY <1>0, <1>1, <1>7, <2>1, <2>2, <2>3
  <2>5. Assigned(c)
    BY <2>1, <2>2 DEF Assigned
  <2> QED BY <2>4, <2>5 DEF Effect
<1>5. CASE Leave(c)
  <2>1. conn' \in [Conns -> ConnSet] /\ conn'[c].at = "out" /\ \A d \in Conns \ {c} : conn'[d] = conn[d]
    BY <1>0, <1>5 DEF Leave
  <2>2. /\ op' = [d \in Conns |-> Without(op[d], {c})] /\ up
        /\ UNCHANGED <<up, cache, files, damaged, initial, stale, requests, faults>>
    BY <1>0, <1>5 DEF Leave
  <2> QED BY <1>1, <1>9, <2>1, <2>2 DEF Effect, Absent
<1> QED BY <1>2, <1>3, <1>4, <1>5

\* The first lock section of a handler keeps the types and only begins a job.
LEMMA HandleCases ==
    ASSUME TypeOK, NEW c \in Conns,
           \/ \E l \in Logins, g \in Grants, p \in Passwords \cup {Keep} :
                \/ SetUser(c, l, g, p)
                \/ \E n \in Logins : UpdateUser(c, l, n, g, p)
           \/ \E l \in Logins, g \in Grants, p \in Passwords : NewUser(c, l, g, p)
    PROVE  TypeOK' /\ Effect
<1>0. Logins \subseteq Names /\ \A g \in Grants : g \in SUBSET Rights
  BY RightsAssumption DEF Names
<1>1. ASSUME NEW o \in OpSet, o.acct \in Account, Handle(c, o)
      PROVE  /\ TypeOK'
             /\ op'[c] = o
             /\ \A d \in Conns \ {c} : op'[d] = op[d]
             /\ UNCHANGED <<up, cache, files, conn, damaged, initial, stale>>
  <2>1. requests' \in 0 .. MaxRequests
    BY <1>1, BoundsAssumption DEF Handle, TypeOK
  <2>2. op \in [Conns -> OpSet] /\ op' = [op EXCEPT ![c] = o]
    BY <1>1 DEF Handle, TypeOK, OpSet
  <2>3. op' \in [Conns -> OpSet] /\ op'[c] = o /\ \A d \in Conns \ {c} : op'[d] = op[d]
    BY <2>2
  <2>4. UNCHANGED <<up, cache, files, conn, damaged, initial, stale, faults>>
    BY <1>1 DEF Handle
  <2>5. \A d \in Conns : op'[d].kind # "none" => op'[d].acct \in Account
    BY <1>1, <2>3 DEF TypeOK
  <2> QED BY <2>1, <2>3, <2>4, <2>5 DEF TypeOK, OpSet
<1>2. /\ Idle = [kind |-> "none", acct |-> None, to |-> Junk, notify |-> FALSE, todo |-> {}]
      /\ Idle.kind = "none"
  BY DEF Idle
<1>3. ASSUME NEW o \in OpSet, o.kind = "update", o.acct \in Account,
             Authorized(c, Modify), Handle(c, o)
      PROVE  TypeOK' /\ Effect
  <2>1. TypeOK'
    BY <1>1, <1>3
  <2>2. Begun(c)
    BY <1>1, <1>2, <1>3 DEF Begun, Authorized
  <2> QED BY <2>1, <2>2 DEF Effect
<1>4. ASSUME NEW l \in Logins, NEW g \in Grants, NEW p \in Passwords, NewUser(c, l, g, p)
      PROVE  TypeOK' /\ Effect
  <2> DEFINE a == [login |-> l, access |-> g, pass |-> p]
             o == [Idle EXCEPT !.kind = "create", !.to = l, !.acct = a]
  <2>1. a \in Account /\ a.login = l /\ a.access = g
    BY <1>0 DEF Account, Hashes
  <2>2. Handle(c, o) /\ Authorized(c, Create) /\ g \subseteq conn[c].acct.access
    BY <1>4 DEF NewUser
  <2> HIDE DEF a
  <2>3. o \in OpSet /\ o.kind = "create" /\ o.acct = a /\ o.to = l
    BY <1>0, <2>1, IdleOf DEF OpSet
  <2> HIDE DEF o
  <2>4. TypeOK'
    BY <1>1, <2>1, <2>2, <2>3
  <2>5. Begun(c)
    BY <1>1, <1>2, <2>1, <2>2, <2>3 DEF Begun, Authorized
  <2> QED BY <2>4, <2>5 DEF Effect
<1>5. ASSUME NEW l \in Logins, NEW g \in Grants, NEW p \in Passwords \cup {Keep}, SetUser(c, l, g, p)
      PROVE  TypeOK' /\ Effect
  <2>1. cache[l] \in Account /\ g \in SUBSET Rights /\ l \in Names
    BY <1>0, <1>5 DEF SetUser, TypeOK
  <2>2. PICK a \in Account : a = Edited(cache[l], g, p)
    BY <2>1, EditedOf
  <2>3. /\ Authorized(c, Modify)
        /\ Handle(c, [Idle EXCEPT !.kind = "update", !.acct = a, !.to = l, !.notify = TRUE])
    BY <1>5, <2>2 DEF SetUser
  <2> QED BY <1>3, <2>1, <2>3, UpdateOf
<1>6. ASSUME NEW l \in Logins, NEW n \in Logins, NEW g \in Grants, NEW p \in Passwords \cup {Keep},
             UpdateUser(c, l, n, g, p)
      PROVE  TypeOK' /\ Effect
  <2>1. PICK h \in {g, cache[l].access} :
           Handle(c, [Idle EXCEPT !.kind = "update", !.acct = Edited(cache[l], h, p), !.to = n])
    BY <1>6 DEF UpdateUser
  <2>2. cache[l] \in Account /\ n \in Names /\ Authorized(c, Modify)
    BY <1>0, <1>6 DEF UpdateUser, TypeOK
  <2>3. h \in SUBSET Rights
    BY <1>0, <2>1, <2>2, AccountOf
  <2>4. PICK a \in Account : a = Edited(cache[l], h, p)
    BY <2>2, <2>3, EditedOf
  <2>5. Handle(c, [Idle EXCEPT !.kind = "update", !.acct = a, !.to = n])
    BY <2>1, <2>4
  <2> QED BY <1>3, <2>2, <2>5, UpdateOf
<1> QED BY <1>4, <1>5, <1>6

\* YAMLAccountManager.Create, done or not, keeps the types and has one of the
\* effects above.
LEMMA CreateCases ==
    ASSUME TypeOK, Jobs, NEW c \in Conns, Created(c) \/ CreateFails(c) \/ CrashCreating(c)
    PROVE  TypeOK' /\ Effect
<1>1. PICK a \in Account, n \in Names : Job(c, "create", a, n)
  BY DEF Created, CreateFails, CrashCreating, Job, TypeOK
<1>2. /\ Idle.kind = "none" /\ Idle.acct = None
      /\ Idle \in OpSet
      /\ Out \in [at: Stages, login: Names, acct: Account \cup {None}] /\ Out.at = "out"
  BY DEF Idle, Out, Stages, Names, OpSet
<1>3. ASSUME op' = [op EXCEPT ![c] = Idle]
      PROVE  /\ Freed(c)
             /\ op' \in [Conns -> OpSet]
             /\ \A d \in Conns : op'[d].kind # "none" => op'[d].acct \in Account
  BY <1>2, <1>3 DEF Freed, TypeOK, OpSet
<1>4. ASSUME Fault PROVE faults' \in 0 .. MaxFaults
  BY <1>4, BoundsAssumption DEF Fault, TypeOK
<1>5. ASSUME NEW t \in Content \cup {Bad}, files' = [files EXCEPT ![n] = t]
      PROVE  Puts(files, n, t) /\ files' \in [Names -> Content \cup {None, Bad}]
  BY <1>5 DEF Puts, TypeOK
<1>6. \A t \in Interrupted(a) : t \in Content \cup {Bad}
  BY InterruptedOf
<1>7. CASE Created(c)
  <2>1. /\ files' = [files EXCEPT ![n] = Text(a)]
        /\ cache' = [cache EXCEPT ![n] = a]
        /\ stale' = stale \cup {n}
        /\ op' = [op EXCEPT ![c] = Idle]
        /\ UNCHANGED <<up, conn, damaged, initial, requests, faults>>
    BY <1>1, <1>7 DEF Created, Job
  <2>2. Puts(cache, n, a) /\ cache' \in [Names -> Account \cup {None}]
    BY <2>1 DEF Puts, TypeOK
  <2>3. Puts(files, n, Text(a)) /\ files' \in [Names -> Content \cup {None, Bad}]
    BY <1>5, <2>1, TextOf
  <2>4. Made(c, a, n)
    BY <1>1, <1>3, <2>1, <2>2, <2>3 DEF Made
  <2>5. TypeOK'
    BY <1>3, <2>1, <2>2, <2>3 DEF TypeOK, OpSet
  <2> QED BY <2>4, <2>5 DEF Effect
<1>8. CASE CreateFails(c)
  <2>1. /\ op' = [op EXCEPT ![c] = Idle]
        /\ UNCHANGED <<up, cache, conn, initial, stale, requests>>
    BY <1>8 DEF CreateFails
  <2>2. CASE UNCHANGED <<files, damaged, faults>>
    <3>1. Refused(c)
      BY <1>1, <1>3, <2>1, <2>2 DEF Refused, Job
    <3>2. TypeOK'
      BY <1>3, <2>1, <2>2 DEF TypeOK, OpSet
    <3> QED BY <3>1, <3>2 DEF Effect
  <2>3. CASE ~UNCHANGED <<files, damaged, faults>>
    <3>1. PICK t \in Interrupted(a) : files' = [files EXCEPT ![n] = t]
      BY <1>1, <1>8, <2>3 DEF CreateFails, Job
    <3>2. Fault /\ damaged' = damaged \cup {n}
      BY <1>1, <1>8, <2>3 DEF CreateFails, Job
    <3>3. HalfMade(c, a, n)
      BY <1>1, <1>3, <1>5, <1>6, <2>1, <3>1, <3>2 DEF HalfMade
    <3>4. TypeOK'
      BY <1>3, <1>4, <1>5, <1>6, <2>1, <3>1, <3>2 DEF TypeOK, OpSet
    <3> QED BY <3>3, <3>4 DEF Effect
  <2> QED BY <2>2, <2>3
<1>9. CASE CrashCreating(c)
  <2>1. PICK t \in Interrupted(a) : files' = [files EXCEPT ![n] = t]
    BY <1>1, <1>9 DEF CrashCreating, Job
  <2>2. /\ Fault /\ damaged' = damaged \cup {n} /\ Halt
        /\ UNCHANGED <<initial, stale, requests>>
    BY <1>1, <1>9 DEF CrashCreating, Job
  <2>3. Halted
    BY <1>2, <2>2 DEF Halt, Halted
  <2>4. HalfMade(c, a, n)
    BY <1>1, <1>5, <1>6, <2>1, <2>2, <2>3 DEF HalfMade
  <2>5. /\ conn' \in [Conns -> [at: Stages, login: Names, acct: Account \cup {None}]]
        /\ op' \in [Conns -> OpSet]
        /\ cache' \in [Names -> Account \cup {None}]
        /\ up' \in BOOLEAN
    BY <1>2, <2>2 DEF Halt
  <2>6. TypeOK'
    BY <1>4, <1>5, <1>6, <2>1, <2>2, <2>3, <2>5 DEF TypeOK, Halted, OpSet
  <2> QED BY <2>4, <2>6 DEF Effect
<1> QED BY <1>7, <1>8, <1>9

\* A crash ends all sessions and leaves nothing in memory.
LEMMA HaltOf ==
    ASSUME Halt
    PROVE  /\ Halted
           /\ conn' \in [Conns -> [at: Stages, login: Names, acct: Account \cup {None}]]
           /\ op' \in [Conns -> OpSet]
           /\ cache' \in [Names -> Account \cup {None}]
           /\ up' \in BOOLEAN
<1>1. /\ Idle.kind = "none"
      /\ Idle \in OpSet
      /\ Out \in [at: Stages, login: Names, acct: Account \cup {None}] /\ Out.at = "out"
  BY DEF Idle, Out, Stages, Names, OpSet
<1> QED BY <1>1 DEF Halt, Halted

\* YAMLAccountManager.Update, done or not, keeps the types and has one of the
\* effects above.
LEMMA UpdateCases ==
    ASSUME TypeOK, NEW c \in Conns,
           Updated(c) \/ RenameFails(c) \/ WriteFails(c) \/ CrashUpdating(c)
    PROVE  TypeOK' /\ Effect
<1>1. PICK a \in Account, n \in Names : Job(c, "update", a, n)
  BY DEF Updated, RenameFails, WriteFails, CrashUpdating, Job, TypeOK
<1>2. Idle.kind = "none" /\ Idle \in OpSet /\ op \in [Conns -> OpSet] /\ op[c] \in OpSet
  BY IdleOf DEF OpSet, TypeOK
<1>3. ASSUME op' = [op EXCEPT ![c] = Idle]
      PROVE  /\ Freed(c)
             /\ op' \in [Conns -> OpSet]
             /\ \A d \in Conns : op'[d].kind # "none" => op'[d].acct \in Account
  BY <1>2, <1>3 DEF Freed, TypeOK, OpSet
<1>4. ASSUME Fault PROVE faults' \in 0 .. MaxFaults
  BY <1>4, BoundsAssumption DEF Fault, TypeOK
<1>5. PICK l \in Names : l = a.login
  BY AccountOf
<1>6. PICK b \in Account : b = [a EXCEPT !.login = n]
  BY RenamedOf
<1>7. PICK rf \in [Names -> Content \cup {None, Bad}] :
         /\ rf = RenamedFiles(c)
         /\ \A m \in Names \ {n, l} : rf[m] = files[m]
         /\ l # n => rf[l] = None
         /\ rf[n] = files[l]
         /\ l = n => rf = files
  <2>1. RenamedFiles(c) = IF l # n THEN [files EXCEPT ![n] = files[l], ![l] = None] ELSE files
    BY <1>1, <1>5 DEF RenamedFiles, Renaming, Job
  <2>2. files \in [Names -> Content \cup {None, Bad}]
    BY DEF TypeOK
  <2>3. CASE l = n
    BY <2>1, <2>2, <2>3
  <2>4. CASE l # n
    <3> DEFINE f == [files EXCEPT ![n] = files[l], ![l] = None]
    <3>1. f \in [Names -> Content \cup {None, Bad}] /\ f[l] = None /\ f[n] = files[l]
          /\ \A m \in Names \ {n, l} : f[m] = files[m]
      BY <2>2, <2>4
    <3>2. RenamedFiles(c) = f
      BY <2>1, <2>4
    <3> HIDE DEF f
    <3> QED BY <2>4, <3>1, <3>2
  <2> QED BY <2>3, <2>4
<1>8. PICK rc \in [Names -> Account \cup {None}] :
         /\ rc = RenamedCache(c)
         /\ \A m \in Names \ {n, l} : rc[m] = cache[m]
         /\ l # n => rc[l] = None /\ rc[n] = b
         /\ l = n => rc = cache
  <2>1. RenamedCache(c) = IF l # n THEN [cache EXCEPT ![n] = b, ![l] = None] ELSE cache
    BY <1>1, <1>5, <1>6 DEF RenamedCache, Renaming, Renamed, Job
  <2>2. cache \in [Names -> Account \cup {None}]
    BY DEF TypeOK
  <2>3. CASE l = n
    BY <2>1, <2>2, <2>3
  <2>4. CASE l # n
    <3> DEFINE f == [cache EXCEPT ![n] = b, ![l] = None]
    <3>1. f \in [Names -> Account \cup {None}] /\ f[l] = None /\ f[n] = b
          /\ \A m \in Names \ {n, l} : f[m] = cache[m]
      BY <2>2, <2>4
    <3>2. RenamedCache(c) = f
      BY <2>1, <2>4
    <3> HIDE DEF f
    <3> QED BY <2>4, <3>1, <3>2
  <2> QED BY <2>3, <2>4
<1>9. Renamed(c) = b
  BY <1>1, <1>6 DEF Renamed, Job
<1>10. CASE Updated(c)
  <2>1. /\ files' = [rf EXCEPT ![n] = Text(b)]
        /\ cache' = [rc EXCEPT ![n] = b]
        /\ UNCHANGED <<up, conn, damaged, initial, requests, faults>>
    BY <1>1, <1>7, <1>8, <1>9, <1>10 DEF Updated, Job
  <2>2. /\ files'[n] = Text(b)
        /\ l # n => files'[l] = None
        /\ \A m \in Names \ {n, l} : files'[m] = files[m]
        /\ files' \in [Names -> Content \cup {None, Bad}]
    BY <1>7, <2>1, TextOf
  <2>3. /\ cache'[n] = b
        /\ l # n => cache'[l] = None
        /\ \A m \in Names \ {n, l} : cache'[m] = cache[m]
        /\ cache' \in [Names -> Account \cup {None}]
    BY <1>8, <2>1
  <2>4. CASE op[c].notify
    <3> DEFINE o == [op[c] EXCEPT !.kind = "notify"]
    <3>1. /\ op' = [op EXCEPT ![c] = o]
          /\ \/ Tellers(n) = {} /\ stale' = stale
             \/ stale' = stale \cup {l, n}
      BY <1>1, <1>5, <1>10, <2>4 DEF Updated, Job
    <3>2. o \in OpSet /\ o.kind = "notify" /\ o.to = n /\ o.acct = a
      BY <1>1, <1>2 DEF Job, OpSet
    <3> HIDE DEF o
    <3>3. op' \in [Conns -> OpSet] /\ op'[c] = o /\ \A d \in Conns \ {c} : op'[d] = op[d]
      BY <1>2, <3>1, <3>2
    <3>4. Changed(c, a, n)
      BY <1>1, <1>5, <1>6, <2>1, <2>2, <2>3, <3>1, <3>2, <3>3 DEF Changed
    <3>7. stale' \subseteq Names
      BY <1>5, <3>1 DEF TypeOK
    <3>5. \A d \in Conns : op'[d].kind # "none" => op'[d].acct \in Account
      BY <3>2, <3>3 DEF TypeOK
    <3>6. TypeOK'
      BY <2>1, <2>2, <2>3, <3>3, <3>5, <3>7 DEF TypeOK, OpSet
    <3> QED BY <3>4, <3>6 DEF Effect
  <2>5. CASE ~op[c].notify
    <3>1. op' = [op EXCEPT ![c] = Idle] /\ stale' = stale \cup {l, n}
      BY <1>1, <1>5, <1>10, <2>5 DEF Updated, Job
    <3>2. Changed(c, a, n)
      BY <1>1, <1>3, <1>5, <1>6, <2>1, <2>2, <2>3, <3>1 DEF Changed, Freed
    <3>3. TypeOK'
      BY <1>3, <2>1, <2>2, <2>3, <3>1 DEF TypeOK, OpSet
    <3> QED BY <3>2, <3>3 DEF Effect
  <2> QED BY <2>4, <2>5
<1>11. CASE RenameFails(c)
  <2>1. Refused(c)
    BY <1>1, <1>3, <1>11 DEF RenameFails, Refused, Job
  <2>2. TypeOK'
    BY <1>3, <1>11 DEF RenameFails, TypeOK, OpSet
  <2> QED BY <2>1, <2>2 DEF Effect
<1>12. ASSUME files' \in HalfUpdated(c), damaged' = Spoils(c), CanRename(c)
       PROVE  /\ files' \in [Names -> Content \cup {None, Bad}]
              /\ damaged' \subseteq Names
              /\ \/ l = n /\ UNCHANGED <<files, damaged>>
                 \/ /\ damaged' = damaged \cup {l, n}
                    /\ \A m \in Names \ {n, l} : files'[m] = files[m]
                    /\ l # n => files'[l] = None
                    /\ \/ files'[n] \in {files[n], files[l]}
                       \/ files'[n] \in Interrupted(b)
  <2>1. files' = rf \/ \E t \in Interrupted(b) : files' = [rf EXCEPT ![n] = t]
    BY <1>1, <1>7, <1>9, <1>12 DEF HalfUpdated, Job
  <2>2. \A t \in Interrupted(b) : t \in Content \cup {Bad}
    BY InterruptedOf
  <2>3. /\ files' \in [Names -> Content \cup {None, Bad}]
        /\ \A m \in Names \ {n, l} : files'[m] = files[m]
        /\ l # n => files'[l] = None
        /\ \/ files'[n] \in {files[n], files[l]}
           \/ files'[n] \in Interrupted(b)
    BY <1>7, <2>1, <2>2
  <2>4. l # n => files' # files
    BY <1>1, <1>5, <1>12, <2>3 DEF CanRename, Renaming, Job
  <2>5. IF files' = files THEN damaged' = damaged ELSE damaged' = damaged \cup {l, n}
    BY <1>1, <1>5, <1>12 DEF Spoils, Job
  <2> QED BY <2>3, <2>4, <2>5 DEF TypeOK
<1>13. CASE WriteFails(c)
  <2>1. /\ files' \in HalfUpdated(c) /\ damaged' = Spoils(c) /\ CanRename(c)
        /\ Fault /\ cache' = rc
        /\ op' = [op EXCEPT ![c] = Idle]
        /\ stale' = IF l # n THEN stale \cup {l, n} ELSE stale
        /\ UNCHANGED <<up, conn, initial, requests>>
    BY <1>1, <1>5, <1>8, <1>13 DEF WriteFails, Renaming, Job
  <2>2. HalfChanged(c, a, n)
    <3>1. CASE l = n
      BY <1>1, <1>3, <1>5, <1>6, <1>8, <1>12, <2>1, <3>1 DEF HalfChanged
    <3>2. CASE l # n
      BY <1>1, <1>3, <1>5, <1>6, <1>8, <1>12, <2>1, <3>2 DEF HalfChanged
    <3> QED BY <3>1, <3>2
  <2>3. TypeOK'
    BY <1>3, <1>4, <1>12, <2>1 DEF TypeOK, OpSet
  <2> QED BY <2>2, <2>3 DEF Effect
<1>14. CASE CrashUpdating(c)
  <2>1. /\ files' \in HalfUpdated(c) /\ damaged' = Spoils(c) /\ CanRename(c)
        /\ Fault /\ Halt
        /\ UNCHANGED <<initial, stale, requests>>
    BY <1>14 DEF CrashUpdating
  <2>2. HalfChanged(c, a, n)
    BY <1>1, <1>5, <1>6, <1>12, <2>1, HaltOf DEF HalfChanged
  <2>3. TypeOK'
    BY <1>4, <1>12, <2>1, HaltOf DEF TypeOK, Halted, OpSet
  <2> QED BY <2>2, <2>3 DEF Effect
<1> QED BY <1>10, <1>11, <1>13, <1>14

\* The loop over the client list, each step of it and its panic, keeps the
\* types and has one of the effects above.
LEMMA TellCases ==
    ASSUME TypeOK, NEW c \in Conns,
           ListClients(c) \/ (\E d \in Conns : Tell(c, d)) \/ TellPanics(c)
    PROVE  TypeOK' /\ Effect
<1> DEFINE ConnSet == [at: Stages, login: Names, acct: Account \cup {None}]
<1>1. PICK a \in Account, n \in Names : op[c].acct = a /\ op[c].to = n
  BY DEF ListClients, Tell, TellPanics, TypeOK
<1>2. /\ op \in [Conns -> OpSet]
      /\ conn \in [Conns -> ConnSet]
      /\ \A d \in Conns : op[d].kind # "none" => op[d].acct \in Account
      /\ \A d \in Conns : conn[d].at \in {"got", "in"} => conn[d].acct \in Account
  BY DEF TypeOK, OpSet
<1>3. CASE ListClients(c)
  <2>1. PICK o \in OpSet : /\ o = [op[c] EXCEPT !.kind = "tell", !.todo = Listed]
                           /\ o.kind = "tell" /\ o.acct = a /\ o.to = n /\ o.todo = Listed
    <3>1. Listed \in SUBSET (Conns \cup {None})
      BY DEF Listed
    <3>2. PICK u \in OpSet : u = op[c]
      BY <1>2
    <3>3. [u EXCEPT !.kind = "tell", !.todo = Listed] \in OpSet
      BY <3>1 DEF OpSet
    <3>4. /\ [u EXCEPT !.kind = "tell", !.todo = Listed].kind = "tell"
          /\ [u EXCEPT !.kind = "tell", !.todo = Listed].acct = u.acct
          /\ [u EXCEPT !.kind = "tell", !.todo = Listed].to = u.to
          /\ [u EXCEPT !.kind = "tell", !.todo = Listed].todo = Listed
      BY DEF OpSet
    <3> QED BY <1>1, <3>2, <3>3, <3>4
  <2>2. op' = [op EXCEPT ![c] = o]
    BY <1>3, <2>1 DEF ListClients
  <2>3. op' \in [Conns -> OpSet] /\ op'[c] = o /\ \A d \in Conns \ {c} : op'[d] = op[d]
    BY <1>2, <2>2
  <2>4. /\ op[c].kind = "notify"
        /\ UNCHANGED <<up, cache, files, conn, damaged, initial, requests, faults>>
        /\ \/ stale' = stale \cup {n}
           \/ /\ stale' = stale \ {n}
              /\ Tellers(n) = {}
              /\ cache[n] # None => cache[n].access = a.access
    BY <1>1, <1>3 DEF ListClients
  <2>5. Lists(c, a, n)
    BY <1>1, <2>1, <2>3, <2>4 DEF Lists, Job
  <2>6. \A d \in Conns : op'[d].kind # "none" => op'[d].acct \in Account
    BY <1>2, <2>1, <2>3
  <2>7. TypeOK'
    BY <2>3, <2>4, <2>6 DEF TypeOK, OpSet
  <2> QED BY <2>5, <2>7 DEF Effect
<1>4. ASSUME NEW d \in Conns, Tell(c, d)
      PROVE  TypeOK' /\ Effect
  <2>1. /\ op[c].kind = "tell" /\ conn[d].at = "in"
        /\ op' = [op EXCEPT ![c] = Without(op[c], {d})]
        /\ UNCHANGED <<up, cache, files, damaged, initial, stale, requests, faults>>
    BY <1>4 DEF Tell
  <2>2. /\ op' \in [Conns -> OpSet] /\ op'[c] = Without(op[c], {d})
        /\ \A e \in Conns \ {c} : op'[e] = op[e]
    BY <1>2, <2>1, WithoutOf
  <2>3. Goes(c, {d}) /\ (op'[c].kind # "none" => op'[c].acct \in Account)
    <3>1. PICK o \in OpSet : o = op[c]
      BY <1>2
    <3>2. op'[c] = Without(o, {d}) /\ o.kind = "tell" /\ o.acct \in Account
      BY <1>2, <2>1, <2>2, <3>1
    <3>3. CASE o.todo \subseteq {d} /\ Without(o, {d}) = Idle
      BY <3>1, <3>2, <3>3, IdleOf DEF Goes
    <3>4. CASE /\ Without(o, {d}).kind = o.kind /\ Without(o, {d}).acct = o.acct
               /\ Without(o, {d}).to = o.to /\ Without(o, {d}).todo = o.todo \ {d}
      BY <3>1, <3>2, <3>4 DEF Goes
    <3> QED BY <3>3, <3>4, WithoutOf
  <2>4. PICK e \in Account : /\ e = [conn[d].acct EXCEPT !.access = a.access]
                             /\ e.login = conn[d].acct.login /\ e.access = a.access
    <3>1. PICK f \in Account : f = conn[d].acct
      BY <1>2, <2>1
    <3>2. a.access \in SUBSET Rights
      BY AccountOf
    <3> QED BY <3>1, <3>2, AccessOf
  <2>5. conn' = IF conn[d].acct.login # n THEN conn ELSE [conn EXCEPT ![d].acct = e]
    <3>1. conn' = IF conn[d].acct.login # n THEN conn
                  ELSE [conn EXCEPT ![d].acct.access = a.access]
      BY <1>1, <1>4 DEF Tell
    <3>2. [conn EXCEPT ![d].acct.access = a.access] = [conn EXCEPT ![d].acct = e]
      BY <2>4
    <3> QED BY <3>1, <3>2
  <2>6. PICK k \in ConnSet : /\ k = [conn[d] EXCEPT !.acct = e]
                             /\ k.at = "in" /\ k.acct = e
    <3>1. PICK f \in ConnSet : f = conn[d]
      BY <1>2
    <3>2. [f EXCEPT !.acct = e] \in ConnSet /\ [f EXCEPT !.acct = e].at = f.at /\ [f EXCEPT !.acct = e].acct = e
      OBVIOUS
    <3> QED BY <2>1, <3>1, <3>2
  <2>7. /\ conn' \in [Conns -> ConnSet]
        /\ \A f \in Conns \ {d} : conn'[f] = conn[f]
        /\ conn'[d] = IF conn[d].acct.login # n THEN conn[d] ELSE k
    BY <1>2, <2>5, <2>6
  <2>8. /\ conn'[d].at = "in"
        /\ conn'[d].acct \in Account
        /\ conn'[d].acct.login = conn[d].acct.login
        /\ conn'[d].acct.access = IF conn[d].acct.login = n THEN a.access
                                                            ELSE conn[d].acct.access
    BY <1>2, <2>1, <2>4, <2>6, <2>7
  <2>9. Tells(c, d, a, n)
    BY <1>1, <2>1, <2>2, <2>3, <2>7, <2>8 DEF Tells, Job
  <2>10. /\ \A f \in Conns : op'[f].kind # "none" => op'[f].acct \in Account
         /\ \A f \in Conns : conn'[f].at \in {"got", "in"} => conn'[f].acct \in Account
    BY <1>2, <2>2, <2>3, <2>7, <2>8
  <2>11. TypeOK'
    BY <2>1, <2>2, <2>7, <2>10 DEF TypeOK, OpSet
  <2> QED BY <2>9, <2>11 DEF Effect
<1>5. CASE TellPanics(c)
  <2>1. /\ op[c].kind = "tell"
        /\ conn' = [conn EXCEPT ![c] = Out]
        /\ op' = [d \in Conns |-> IF d = c THEN Idle ELSE Without(op[d], {c})]
        /\ stale' = stale \cup {n}
        /\ UNCHANGED <<up, cache, files, damaged, initial, requests, faults>>
    BY <1>1, <1>5 DEF TellPanics
  <2>2. Out \in ConnSet /\ Out.at = "out"
    BY DEF Out, Stages, Names
  <2>3. /\ conn' \in [Conns -> ConnSet] /\ conn'[c].at = "out"
        /\ \A d \in Conns \ {c} : conn'[d] = conn[d]
    BY <1>2, <2>1, <2>2
  <2>4. ASSUME NEW d \in Conns
        PROVE  /\ op'[d] \in OpSet
               /\ op'[d].kind # "none" => op'[d].acct \in Account
               /\ d = c => op'[d].kind = "none"
               /\ d # c => Goes(d, {c})
    <3>1. PICK o \in OpSet : o = op[d]
      BY <1>2
    <3>2. CASE d = c
      BY <2>1, <3>2, IdleOf
    <3>3. CASE d # c
      <4>1. op'[d] = Without(o, {c})
        BY <2>1, <3>1, <3>3
      <4> QED BY <1>2, <3>1, <3>3, <4>1, WithoutOf, IdleOf DEF Goes
    <3> QED BY <3>2, <3>3
  <2>5. op' \in [Conns -> OpSet]
    BY <2>1, <2>4
  <2>6. Panics(c)
    BY <1>1, <2>1, <2>3, <2>4 DEF Panics
  <2>7. TypeOK'
    BY <1>2, <2>1, <2>3, <2>4, <2>5 DEF TypeOK, OpSet
  <2> QED BY <2>6, <2>7 DEF Effect
<1> QED BY <1>3, <1>4, <1>5

\* Every step keeps the types and has one of the effects above.
LEMMA StepCases ==
    ASSUME TypeOK, Jobs, Down, [Next]_vars
    PROVE  TypeOK' /\ Effect
<1>1. CASE UNCHANGED vars
  BY <1>1 DEF vars, TypeOK, Effect, Nothing
<1>2. ASSUME NEW c \in Conns, NEW l \in Logins, DeleteUser(c, l)
      PROVE  TypeOK' /\ Effect
  <2>1. l \in Names /\ up
    BY <1>2 DEF Names, DeleteUser, Authorized, Down
  <2>2. Deleted(l)
    BY <1>2, <2>1 DEF DeleteUser, Deleted, Puts, TypeOK
  <2>3. requests' \in 0 .. MaxRequests
    BY <1>2, BoundsAssumption DEF DeleteUser, TypeOK
  <2>4. TypeOK'
    BY <1>2, <2>1, <2>3 DEF DeleteUser, TypeOK
  <2> QED BY <2>1, <2>2, <2>4 DEF Effect
<1>3. CASE Crash
  <2>1. Crashed
    BY <1>3, HaltOf DEF Crash, Crashed
  <2>2. TypeOK'
    BY <1>3, HaltOf DEF Crash, TypeOK, Halted, OpSet
  <2> QED BY <2>1, <2>2 DEF Effect
<1>4. ASSUME NEW n \in Names, NEW m \in Claims(n)
      PROVE  files[m] \in Content /\ files[m].acct \in Account /\ files[m].acct.login = n
  BY ContentOf DEF Claims
<1>5. CASE Start
  <2>1. PICK cached, moved \in [Names -> Names] :
         /\ \A n \in Names : Claims(n) # {} => cached[n] \in Claims(n)
         /\ \A n \in Names : OldClaims(n) # {} => moved[n] \in OldClaims(n)
         /\ cache' = [n \in Names |-> IF Claims(n) = {} THEN None
                                      ELSE files[cached[n]].acct]
         /\ files' = [n \in Names |-> IF OldClaims(n) = {} THEN files[n]
                                      ELSE Text(files[moved[n]].acct)]
    BY <1>5 DEF Start
  <2>2. /\ up' = TRUE /\ stale' = {} /\ ~up
        /\ \A n \in Names : files[n] # Bad
        /\ UNCHANGED <<conn, op, damaged, initial, requests, faults>>
    BY <1>5 DEF Start
  <2>3. \A n \in Names : OldClaims(n) \subseteq Claims(n)
    BY DEF OldClaims
  <2>4. ASSUME NEW n \in Names
        PROVE  /\ IF Claims(n) = {} THEN cache'[n] = None
                  ELSE \E m \in Claims(n) : cache'[n] = files[m].acct
               /\ cache'[n] \in Account \cup {None}
    BY <1>4, <2>1
  <2>5. ASSUME NEW n \in Names
        PROVE  /\ files'[n] = files[n] \/ \E m \in Claims(n) : files'[n] = Text(files[m].acct)
               /\ files'[n] \in Content \cup {None, Bad}
    <3>1. CASE OldClaims(n) = {}
      BY <2>1, <3>1 DEF TypeOK
    <3>2. CASE OldClaims(n) # {}
      <4>1. moved[n] \in Claims(n) /\ files'[n] = Text(files[moved[n]].acct)
        BY <2>1, <2>3, <3>2
      <4> QED BY <1>4, <4>1, TextOf
    <3> QED BY <3>1, <3>2
  <2>6. Started
    BY <2>2, <2>4, <2>5 DEF Started
  <2>7. cache' \in [Names -> Account \cup {None}] /\ files' \in [Names -> Content \cup {None, Bad}]
    BY <2>1, <2>4, <2>5
  <2>8. TypeOK'
    BY <2>2, <2>7 DEF TypeOK
  <2> QED BY <2>6, <2>8 DEF Effect
<1>6. CASE StartFails
  <2>1. PICK n \in Names, m \in Names :
           /\ m \in OldClaims(n)
           /\ \E t \in Interrupted(files[m].acct) : files' = [files EXCEPT ![n] = t]
           /\ damaged' = damaged \cup {n}
    BY <1>6 DEF StartFails, OldClaims, Claims
  <2>2. PICK t \in Interrupted(files[m].acct) : files' = [files EXCEPT ![n] = t]
    BY <2>1
  <2>3. m \in Claims(n) /\ t \in Content \cup {Bad}
    BY <1>4, <2>1, <2>2, InterruptedOf DEF OldClaims
  <2>4. Puts(files, n, t) /\ files' \in [Names -> Content \cup {None, Bad}]
    BY <2>2, <2>3 DEF Puts, TypeOK
  <2>5. ~up /\ UNCHANGED <<up, cache, conn, op, initial, stale, requests>> /\ faults' \in 0 .. MaxFaults
    BY <1>6, BoundsAssumption DEF StartFails, Fault, TypeOK
  <2>6. HalfStarted(n)
    BY <2>1, <2>2, <2>3, <2>4, <2>5 DEF HalfStarted
  <2>7. TypeOK'
    BY <2>1, <2>4, <2>5 DEF TypeOK
  <2> QED BY <2>6, <2>7 DEF Effect
<1>7. ASSUME NEW c \in Conns, Session(c)
      PROVE  TypeOK' /\ Effect
  BY <1>2, <1>7, LoginCases, HandleCases, CreateCases, UpdateCases, TellCases DEF Session
<1> QED BY <1>1, <1>3, <1>5, <1>6, <1>7 DEF Next

-----------------------------------------------------------------------------
(* The invariant is inductive *)

\* Accounts stay cached under their own login.
LEMMA LoginStep ==
    ASSUME TypeOK, Jobs, CacheLogin, Effect
    PROVE  CacheLogin'
<1>1. CASE Nothing
  BY <1>1 DEF CacheLogin, Nothing
<1>2. CASE Crashed
  BY <1>2 DEF CacheLogin, Crashed, Halted
<1>3. CASE Started
  BY <1>3 DEF CacheLogin, Started, Claims
<1>4. ASSUME NEW c \in Conns, Absent(c)
      PROVE  CacheLogin'
  BY <1>4 DEF CacheLogin, Absent
<1>5. ASSUME NEW c \in Conns, Assigned(c)
      PROVE  CacheLogin'
  BY <1>5 DEF CacheLogin, Assigned
<1>6. ASSUME NEW c \in Conns, Begun(c)
      PROVE  CacheLogin'
  BY <1>6 DEF CacheLogin, Begun
<1>7. ASSUME NEW c \in Conns, Refused(c)
      PROVE  CacheLogin'
  BY <1>7 DEF CacheLogin, Refused, Freed
<1>8. ASSUME NEW c \in Conns, NEW l \in Names, Got(c, l)
      PROVE  CacheLogin'
  BY <1>8 DEF CacheLogin, Got
<1>9. ASSUME NEW c \in Conns, NEW a \in Account, NEW n \in Names, Made(c, a, n)
      PROVE  CacheLogin'
  BY <1>9 DEF CacheLogin, Made, Job, Puts, Freed, Jobs
<1>10. ASSUME NEW c \in Conns, NEW a \in Account, NEW n \in Names, HalfMade(c, a, n)
      PROVE  CacheLogin'
  BY <1>10 DEF CacheLogin, HalfMade, Job, Puts, Freed, Halted
<1>11. ASSUME NEW c \in Conns, NEW a \in Account, NEW n \in Names, Changed(c, a, n)
      PROVE  CacheLogin'
  <2>1. PICK b \in Account : b = [a EXCEPT !.login = n] /\ b.login = n
    BY RenamedOf
  <2>2. cache'[n] = b /\ \A m \in Names \ {n} : cache'[m] \in {cache[m], None}
    BY <1>11, <2>1 DEF Changed
  <2> QED BY <2>1, <2>2 DEF CacheLogin
<1>12. ASSUME NEW c \in Conns, NEW a \in Account, NEW n \in Names, HalfChanged(c, a, n)
      PROVE  CacheLogin'
  <2>1. PICK b \in Account : b = [a EXCEPT !.login = n] /\ b.login = n
    BY RenamedOf
  <2>2. \A m \in Names : cache'[m] \in {cache[m], None} \/ (m = n /\ cache'[m] = b)
    BY <1>12, <2>1 DEF HalfChanged, Halted
  <2> QED BY <2>1, <2>2 DEF CacheLogin
<1>13. ASSUME NEW c \in Conns, NEW a \in Account, NEW n \in Names, Lists(c, a, n)
      PROVE  CacheLogin'
  BY <1>13 DEF CacheLogin, Lists, Job
<1>14. ASSUME NEW n \in Names, Deleted(n)
      PROVE  CacheLogin'
  BY <1>14 DEF CacheLogin, Deleted, Puts
<1>15. ASSUME NEW n \in Names, HalfStarted(n)
      PROVE  CacheLogin'
  BY <1>15 DEF CacheLogin, HalfStarted, Puts
<1>16. ASSUME NEW c \in Conns, NEW d \in Conns, NEW a \in Account, NEW n \in Names, Tells(c, d, a, n)
      PROVE  CacheLogin'
  BY <1>16 DEF CacheLogin, Tells, Job, Goes
<1>17. ASSUME NEW c \in Conns, Panics(c)
      PROVE  CacheLogin'
  BY <1>17 DEF CacheLogin, Panics, Goes
<1> QED
  BY <1>1, <1>2, <1>3, <1>4, <1>5, <1>6, <1>7, <1>8, <1>9, <1>10, <1>11, <1>12, <1>13, <1>14, <1>15,
     <1>16, <1>17 DEF Effect

\* A handler that is about to create an account holds one of the right login,
\* and nobody is served while the server is down.
LEMMA JobsStep ==
    ASSUME TypeOK, Jobs, Down, Effect
    PROVE  Jobs' /\ Down'
<1>1. CASE Nothing
  BY <1>1 DEF Jobs, Down, Nothing
<1>2. CASE Crashed
  BY <1>2 DEF Jobs, Down, Crashed, Halted
<1>3. CASE Started
  BY <1>3 DEF Jobs, Down, Started
<1>4. ASSUME NEW c \in Conns, Absent(c)
      PROVE  Jobs' /\ Down'
  BY <1>4 DEF Jobs, Down, Absent, Goes
<1>5. ASSUME NEW c \in Conns, Assigned(c)
      PROVE  Jobs' /\ Down'
  BY <1>5 DEF Jobs, Down, Assigned
<1>6. ASSUME NEW c \in Conns, Begun(c)
      PROVE  Jobs' /\ Down'
  BY <1>6 DEF Jobs, Down, Begun
<1>7. ASSUME NEW c \in Conns, Refused(c)
      PROVE  Jobs' /\ Down'
  BY <1>7 DEF Jobs, Down, Refused, Freed
<1>8. ASSUME NEW c \in Conns, NEW l \in Names, Got(c, l)
      PROVE  Jobs' /\ Down'
  BY <1>8 DEF Jobs, Down, Got
<1>9. ASSUME NEW c \in Conns, NEW a \in Account, NEW n \in Names, Made(c, a, n)
      PROVE  Jobs' /\ Down'
  BY <1>9 DEF Jobs, Down, Made, Job, Puts, Freed
<1>10. ASSUME NEW c \in Conns, NEW a \in Account, NEW n \in Names, HalfMade(c, a, n)
      PROVE  Jobs' /\ Down'
  BY <1>10 DEF Jobs, Down, HalfMade, Job, Puts, Freed, Halted
<1>11. ASSUME NEW c \in Conns, NEW a \in Account, NEW n \in Names, Changed(c, a, n)
      PROVE  Jobs' /\ Down'
  BY <1>11 DEF Jobs, Down, Changed, Job
<1>12. ASSUME NEW c \in Conns, NEW a \in Account, NEW n \in Names, HalfChanged(c, a, n)
      PROVE  Jobs' /\ Down'
  BY <1>12 DEF Jobs, Down, HalfChanged, Job, Freed, Halted
<1>13. ASSUME NEW c \in Conns, NEW a \in Account, NEW n \in Names, Lists(c, a, n)
      PROVE  Jobs' /\ Down'
  BY <1>13 DEF Jobs, Down, Lists, Job
<1>14. ASSUME NEW n \in Names, Deleted(n)
      PROVE  Jobs' /\ Down'
  BY <1>14 DEF Jobs, Down, Deleted, Puts
<1>15. ASSUME NEW n \in Names, HalfStarted(n)
      PROVE  Jobs' /\ Down'
  BY <1>15 DEF Jobs, Down, HalfStarted, Puts
<1>16. ASSUME NEW c \in Conns, NEW d \in Conns, NEW a \in Account, NEW n \in Names, Tells(c, d, a, n)
      PROVE  Jobs' /\ Down'
  BY <1>16 DEF Jobs, Down, Tells, Job, Goes
<1>17. ASSUME NEW c \in Conns, Panics(c)
      PROVE  Jobs' /\ Down'
  BY <1>17 DEF Jobs, Down, Panics, Goes
<1> QED
  BY <1>1, <1>2, <1>3, <1>4, <1>5, <1>6, <1>7, <1>8, <1>9, <1>10, <1>11, <1>12, <1>13, <1>14, <1>15,
     <1>16, <1>17 DEF Effect

\* Bad is no content.
LEMMA BadOf == Bad \notin Content
BY NilAssumption

\* Creations hand on rights that the creator has; without Modify nothing else
\* changes them.
LEMMA RightsStep ==
    ASSUME TypeOK, Confined, ConfinedRights, Effect
    PROVE  Confined' /\ ConfinedRights'
<1>1. CASE Nothing
  BY <1>1 DEF Confined, ConfinedRights, Nothing
<1>2. CASE Crashed
  BY <1>2 DEF Confined, ConfinedRights, Crashed, Halted
<1>3. CASE Started
  <2>1. ASSUME NEW n \in Names, NEW m \in Claims(n)
        PROVE  m \in Names /\ files[m] \in Content /\ Text(files[m].acct).acct = files[m].acct
    <3>1. m \in Names /\ files[m] \in Content
      BY DEF Claims
    <3> QED BY <3>1, ContentOf, TextOf
  <2>2. Confined'
    BY <1>3, <2>1 DEF Confined, Started
  <2>3. ConfinedRights'
    BY <1>3, <2>1 DEF Confined, ConfinedRights, Started
  <2> QED BY <2>2, <2>3
<1>4. ASSUME NEW c \in Conns, Absent(c)
      PROVE  Confined' /\ ConfinedRights'
  BY <1>4 DEF Confined, ConfinedRights, Absent, Goes
<1>5. ASSUME NEW c \in Conns, Assigned(c)
      PROVE  Confined' /\ ConfinedRights'
  BY <1>5 DEF Confined, ConfinedRights, Assigned
<1>6. ASSUME NEW c \in Conns, Begun(c)
      PROVE  Confined' /\ ConfinedRights'
  BY <1>6 DEF Confined, ConfinedRights, Begun
<1>7. ASSUME NEW c \in Conns, Refused(c)
      PROVE  Confined' /\ ConfinedRights'
  BY <1>7 DEF Confined, ConfinedRights, Refused, Freed
<1>8. ASSUME NEW c \in Conns, NEW l \in Names, Got(c, l)
      PROVE  Confined' /\ ConfinedRights'
  BY <1>8 DEF Confined, ConfinedRights, Got
<1>9. ASSUME NEW c \in Conns, NEW a \in Account, NEW n \in Names, Made(c, a, n)
      PROVE  Confined' /\ ConfinedRights'
  <2>1. Text(a).acct = a
    BY TextOf
  <2>2. Confined'
    BY <1>9, <2>1 DEF Confined, Made, Job, Puts, Freed
  <2>3. ConfinedRights'
    BY <1>9 DEF Confined, ConfinedRights, Made, Job, Puts
  <2> QED BY <2>2, <2>3
<1>10. ASSUME NEW c \in Conns, NEW a \in Account, NEW n \in Names, HalfMade(c, a, n)
      PROVE  Confined' /\ ConfinedRights'
  <2>1. PICK t \in Interrupted(a) : Puts(files, n, t)
    BY <1>10 DEF HalfMade
  <2>2. t \in Content => t.acct.access \subseteq a.access
    BY BadOf, InterruptedOf
  <2>3. Confined'
    BY <1>10, <2>1, <2>2 DEF Confined, HalfMade, Job, Puts, Freed, Halted
  <2>4. ConfinedRights'
    BY <1>10 DEF ConfinedRights, HalfMade, Halted
  <2> QED BY <2>3, <2>4
<1>11. ASSUME NEW c \in Conns, NEW a \in Account, NEW n \in Names, Changed(c, a, n)
      PROVE  Confined' /\ ConfinedRights'
  BY <1>11 DEF Confined, ConfinedRights, Changed, Job
<1>12. ASSUME NEW c \in Conns, NEW a \in Account, NEW n \in Names, HalfChanged(c, a, n)
      PROVE  Confined' /\ ConfinedRights'
  BY <1>12 DEF Confined, ConfinedRights, HalfChanged, Job, Freed, Halted
<1>13. ASSUME NEW c \in Conns, NEW a \in Account, NEW n \in Names, Lists(c, a, n)
      PROVE  Confined' /\ ConfinedRights'
  BY <1>13 DEF Confined, ConfinedRights, Lists, Job
<1>14. ASSUME NEW n \in Names, Deleted(n)
      PROVE  Confined' /\ ConfinedRights'
  <2>1. None \notin Content
    BY NilAssumption
  <2> QED BY <1>14, <2>1 DEF Confined, ConfinedRights, Deleted, Puts
<1>15. ASSUME NEW n \in Names, HalfStarted(n)
      PROVE  Confined' /\ ConfinedRights'
  <2>1. PICK m \in Claims(n) : \E t \in Interrupted(files[m].acct) : Puts(files, n, t)
    BY <1>15 DEF HalfStarted
  <2>2. m \in Names /\ files[m] \in Content
    BY <2>1 DEF Claims
  <2>3. files[m].acct \in Account
    BY <2>2, ContentOf
  <2>4. PICK t \in Interrupted(files[m].acct) : Puts(files, n, t)
    BY <2>1
  <2>5. t \in Content => t.acct.access \subseteq files[m].acct.access
    BY <2>3, BadOf, InterruptedOf
  <2>6. Confined'
    BY <1>15, <2>2, <2>4, <2>5 DEF Confined, HalfStarted, Puts
  <2>7. ConfinedRights'
    BY <1>15 DEF ConfinedRights, HalfStarted
  <2> QED BY <2>6, <2>7
<1>16. ASSUME NEW c \in Conns, NEW d \in Conns, NEW a \in Account, NEW n \in Names, Tells(c, d, a, n)
      PROVE  Confined' /\ ConfinedRights'
  BY <1>16 DEF Confined, ConfinedRights, Tells, Job, Goes
<1>17. ASSUME NEW c \in Conns, Panics(c)
      PROVE  Confined' /\ ConfinedRights'
  BY <1>17 DEF Confined, ConfinedRights, Panics, Goes
<1> QED
  BY <1>1, <1>2, <1>3, <1>4, <1>5, <1>6, <1>7, <1>8, <1>9, <1>10, <1>11, <1>12, <1>13, <1>14, <1>15,
     <1>16, <1>17 DEF Effect

\* Every step keeps cache and file of a login together, or is an interrupted
\* one about that login; a login is carried by the file of another only after
\* an interrupted step about it.
LEMMA SyncStep ==
    ASSUME TypeOK, Jobs, Down, Claimed, UndamagedInSync, Effect
    PROVE  Claimed' /\ UndamagedInSync'
<1>0. None \notin Content /\ Bad \notin Content \cup {None}
  BY NilAssumption
<1>1. CASE Nothing
  BY <1>0, <1>1 DEF Claimed, UndamagedInSync, Nothing
<1>2. CASE Crashed
  BY <1>0, <1>2 DEF Claimed, UndamagedInSync, Crashed, Halted
<1>3. CASE Started
  <2>1. ASSUME NEW n \in Names, NEW m \in Claims(n)
        PROVE  /\ m \in Names /\ files[m] \in Content /\ files[m].acct.login = n
               /\ Text(files[m].acct) \in Content /\ Text(files[m].acct).acct = files[m].acct
    <3>1. m \in Names /\ files[m] \in Content /\ files[m].acct.login = n
      BY DEF Claims
    <3> QED BY <3>1, ContentOf, TextOf
  <2>2. Claimed'
    BY <1>3, <2>1 DEF Claimed, Started
  <2>3. ASSUME NEW n \in Names \ damaged
        PROVE  /\ files'[n] # None => files'[n] # Bad /\ files'[n].acct.login = n
               /\ cache'[n] = IF files'[n] = None THEN None ELSE files'[n].acct
    <3>1. \A m \in Claims(n) : m = n
      BY <2>1 DEF Claimed
    <3>2. CASE files[n] = None
      <4>1. Claims(n) = {}
        BY <1>0, <2>1, <3>1, <3>2
      <4> QED BY <1>3, <3>2, <4>1 DEF Started
    <3>3. CASE files[n] # None
      <4>1. files[n] \in Content /\ files[n].acct.login = n
        BY <3>3 DEF TypeOK, UndamagedInSync
      <4>2. Claims(n) = {n}
        BY <3>1, <4>1 DEF Claims
      <4>3. cache'[n] = files[n].acct
        BY <1>3, <4>2 DEF Started
      <4>4. files'[n] \in Content /\ files'[n].acct = files[n].acct
        BY <1>3, <2>1, <4>1, <4>2 DEF Started
      <4> QED BY <1>0, <4>1, <4>3, <4>4
    <3> QED BY <3>2, <3>3
  <2>4. damaged' = damaged
    BY <1>3 DEF Started
  <2> QED BY <2>2, <2>3, <2>4 DEF UndamagedInSync
<1>4. ASSUME NEW c \in Conns, Absent(c)
      PROVE  Claimed' /\ UndamagedInSync'
  BY <1>0, <1>4 DEF Claimed, UndamagedInSync, Absent
<1>5. ASSUME NEW c \in Conns, Assigned(c)
      PROVE  Claimed' /\ UndamagedInSync'
  BY <1>0, <1>5 DEF Claimed, UndamagedInSync, Assigned
<1>6. ASSUME NEW c \in Conns, Begun(c)
      PROVE  Claimed' /\ UndamagedInSync'
  BY <1>0, <1>6 DEF Claimed, UndamagedInSync, Begun
<1>7. ASSUME NEW c \in Conns, Refused(c)
      PROVE  Claimed' /\ UndamagedInSync'
  BY <1>0, <1>7 DEF Claimed, UndamagedInSync, Refused, Freed
<1>8. ASSUME NEW c \in Conns, NEW l \in Names, Got(c, l)
      PROVE  Claimed' /\ UndamagedInSync'
  BY <1>0, <1>8 DEF Claimed, UndamagedInSync, Got
<1>9. ASSUME NEW c \in Conns, NEW a \in Account, NEW n \in Names, Made(c, a, n)
      PROVE  Claimed' /\ UndamagedInSync'
  <2>1. Text(a) \in Content /\ Text(a).acct = a
    BY TextOf
  <2>2. a.login = n
    BY <1>9 DEF Made, Job, Jobs
  <2>3. /\ files'[n] = Text(a) /\ cache'[n] = a /\ damaged' = damaged /\ up' = up
        /\ \A m \in Names \ {n} : files'[m] = files[m] /\ cache'[m] = cache[m]
    BY <1>9 DEF Made, Puts
  <2>4. Claimed'
    BY <2>1, <2>2, <2>3 DEF Claimed
  <2>5. UndamagedInSync'
    BY <1>0, <2>1, <2>2, <2>3 DEF UndamagedInSync
  <2> QED BY <2>4, <2>5
<1>10. ASSUME NEW c \in Conns, NEW a \in Account, NEW n \in Names, HalfMade(c, a, n)
      PROVE  Claimed' /\ UndamagedInSync'
  <2>1. PICK t \in Interrupted(a) : Puts(files, n, t)
    BY <1>10 DEF HalfMade
  <2>2. t \in Content => t.acct.login \in {Junk, a.login}
    BY BadOf, InterruptedOf
  <2>3. a.login = n
    BY <1>10 DEF HalfMade, Job, Jobs
  <2>4. damaged' = damaged \cup {n} /\ (up' => cache' = cache /\ up)
    BY <1>10 DEF HalfMade, Halted
  <2>5. files'[n] = t /\ \A m \in Names \ {n} : files'[m] = files[m]
    BY <2>1 DEF Puts
  <2>6. Claimed'
    BY <2>2, <2>3, <2>4, <2>5 DEF Claimed
  <2>7. UndamagedInSync'
    BY <2>4, <2>5 DEF UndamagedInSync
  <2> QED BY <2>6, <2>7
<1>11. ASSUME NEW c \in Conns, NEW a \in Account, NEW n \in Names, Changed(c, a, n)
      PROVE  Claimed' /\ UndamagedInSync'
  <2>1. PICK b \in Account : b = [a EXCEPT !.login = n] /\ b.login = n
    BY RenamedOf
  <2>2. Text(b) \in Content /\ Text(b).acct = b
    BY TextOf
  <2>3. /\ files'[n] = Text(b) /\ cache'[n] = b /\ damaged' = damaged /\ up' = up
        /\ \A m \in Names \ {n} : \/ files'[m] = files[m] /\ cache'[m] = cache[m]
                                  \/ files'[m] = None /\ cache'[m] = None
    BY <1>11, <2>1 DEF Changed
  <2>4. Claimed'
    BY <1>0, <2>1, <2>2, <2>3 DEF Claimed
  <2>5. ASSUME NEW m \in Names \ damaged
        PROVE  /\ files'[m] # None => files'[m] # Bad /\ files'[m].acct.login = m
               /\ up' => cache'[m] = IF files'[m] = None THEN None ELSE files'[m].acct
    <3>1. CASE m = n
      BY <1>0, <2>1, <2>2, <2>3, <3>1
    <3>2. CASE m # n /\ files'[m] = files[m] /\ cache'[m] = cache[m]
      BY <2>3, <3>2 DEF UndamagedInSync
    <3>3. CASE files'[m] = None /\ cache'[m] = None
      BY <3>3
    <3> QED BY <2>3, <3>1, <3>2, <3>3
  <2>6. UndamagedInSync'
    BY <2>3, <2>5 DEF UndamagedInSync
  <2> QED BY <2>4, <2>6
<1>12. ASSUME NEW c \in Conns, NEW a \in Account, NEW n \in Names, HalfChanged(c, a, n)
      PROVE  Claimed' /\ UndamagedInSync'
  <2>1. PICK b \in Account : b = [a EXCEPT !.login = n] /\ b.login = n
    BY RenamedOf
  <2>2. a.login \in Names
    BY AccountOf
  <2>3. CASE a.login = n /\ UNCHANGED <<files, damaged>>
    <3>1. up' => up /\ cache' = cache
      BY <1>12, <2>3 DEF HalfChanged, Halted
    <3> QED BY <2>3, <3>1 DEF Claimed, UndamagedInSync
  <2>4. CASE /\ damaged' = damaged \cup {a.login, n}
             /\ \A m \in Names \ {n, a.login} : files'[m] = files[m]
             /\ a.login # n => files'[a.login] = None
             /\ files'[n] \in {files[n], files[a.login]} \/ files'[n] \in Interrupted(b)
    <3>1. files'[n] \in Content => files'[n].acct.login \in damaged'
      <4>1. CASE files'[n] \in {files[n], files[a.login]}
        BY <2>2, <2>4, <4>1 DEF Claimed
      <4>2. CASE files'[n] \in Interrupted(b)
        <5>1. files'[n] \in Content => files'[n].acct.login \in {Junk, b.login}
          BY <4>2, BadOf, InterruptedOf
        <5> QED BY <2>1, <2>4, <5>1 DEF Claimed
      <4> QED BY <2>4, <4>1, <4>2
    <3>2. Claimed'
      BY <1>0, <2>4, <3>1 DEF Claimed
    <3>3. up' => up /\ \A m \in Names \ {n, a.login} : cache'[m] = cache[m]
      BY <1>12 DEF HalfChanged, Halted
    <3>4. UndamagedInSync'
      BY <2>4, <3>3 DEF UndamagedInSync
    <3> QED BY <3>2, <3>4
  <2> QED BY <1>12, <2>1, <2>3, <2>4 DEF HalfChanged
<1>13. ASSUME NEW c \in Conns, NEW a \in Account, NEW n \in Names, Lists(c, a, n)
      PROVE  Claimed' /\ UndamagedInSync'
  BY <1>0, <1>13 DEF Claimed, UndamagedInSync, Lists, Job
<1>14. ASSUME NEW n \in Names, Deleted(n)
      PROVE  Claimed' /\ UndamagedInSync'
  BY <1>0, <1>14 DEF Claimed, UndamagedInSync, Deleted, Puts
<1>15. ASSUME NEW n \in Names, HalfStarted(n)
      PROVE  Claimed' /\ UndamagedInSync'
  <2>1. PICK m \in Claims(n) : \E t \in Interrupted(files[m].acct) : Puts(files, n, t)
    BY <1>15 DEF HalfStarted
  <2>2. m \in Names /\ files[m] \in Content /\ files[m].acct.login = n
    BY <2>1 DEF Claims
  <2>3. files[m].acct \in Account
    BY <2>2, ContentOf
  <2>4. PICK t \in Interrupted(files[m].acct) : Puts(files, n, t)
    BY <2>1
  <2>5. t \in Content => t.acct.login \in {Junk, n}
    BY <2>2, <2>3, BadOf, InterruptedOf
  <2>6. damaged' = damaged \cup {n} /\ ~up' /\ files'[n] = t
        /\ \A k \in Names \ {n} : files'[k] = files[k]
    BY <1>15, <2>4 DEF HalfStarted, Puts
  <2>7. Claimed'
    BY <2>5, <2>6 DEF Claimed
  <2>8. UndamagedInSync'
    BY <2>6 DEF UndamagedInSync
  <2> QED BY <2>7, <2>8
<1>16. ASSUME NEW c \in Conns, NEW d \in Conns, NEW a \in Account, NEW n \in Names, Tells(c, d, a, n)
      PROVE  Claimed' /\ UndamagedInSync'
  BY <1>0, <1>16 DEF Claimed, UndamagedInSync, Tells, Job, Goes
<1>17. ASSUME NEW c \in Conns, Panics(c)
      PROVE  Claimed' /\ UndamagedInSync'
  BY <1>0, <1>17 DEF Claimed, UndamagedInSync, Panics, Goes
<1> QED
  BY <1>1, <1>2, <1>3, <1>4, <1>5, <1>6, <1>7, <1>8, <1>9, <1>10, <1>11, <1>12, <1>13, <1>14, <1>15,
     <1>16, <1>17 DEF Effect

\* Steps keep what the loops can rely on when they change the account of a login
\* only where no loop is or none is relied on, let loops only go on or end, and
\* move no session between logins.
LEMMA TellingGoes ==
    ASSUME Telling, NEW S \in SUBSET Conns,
           \A k \in Names : \/ cache'[k] = None \/ cache'[k] = cache[k]
                            \/ k \in stale' \/ Tellers(k) = {},
           stale \subseteq stale',
           \A c \in Conns : op'[c].kind = "tell" =>
              /\ op[c].kind = "tell" /\ op'[c].acct = op[c].acct /\ op'[c].to = op[c].to
              /\ op[c].todo \ S \subseteq op'[c].todo,
           \A d \in Conns : conn'[d].at \in {"got", "in"} =>
              d \notin S /\ conn[d].at \in {"got", "in"} /\ conn'[d].acct = conn[d].acct
    PROVE  Telling'
<1> SUFFICES ASSUME NEW c \in Conns, NEW a \in Account, NEW k \in Names, Relied(c, a, k)'
             PROVE  Sound(c, a, k)'
  BY DEF Telling
<1>1. /\ op[c].kind = "tell" /\ op'[c].acct = op[c].acct /\ op'[c].to = op[c].to
      /\ op[c].todo \ S \subseteq op'[c].todo
      /\ op[c].acct = a /\ op[c].to = k /\ k \notin stale'
  BY DEF Relied
<1>2. Sound(c, a, k)
  BY <1>1 DEF Telling, Relied
<1>3. cache'[k] = None \/ cache'[k] = cache[k]
  BY <1>1 DEF Tellers
<1>4. \A e \in Conns \ {c} : ~(op'[e].kind = "tell" /\ op'[e].to = k)
  BY <1>2 DEF Sound
<1>5. ASSUME cache'[k] # None
      PROVE  /\ cache'[k].access = a.access
             /\ \A d \in Conns \ op'[c].todo :
                   conn'[d].at \in {"got", "in"} /\ conn'[d].acct.login = k
                       => conn'[d].acct.access = a.access
  BY <1>1, <1>2, <1>3, <1>5 DEF Sound
<1> QED BY <1>4, <1>5 DEF Sound

\* The same of steps that begin or change no loop.
LEMMA TellingStays ==
    ASSUME Telling,
           \A k \in Names : \/ cache'[k] = None \/ cache'[k] = cache[k]
                            \/ k \in stale' \/ Tellers(k) = {},
           stale \subseteq stale',
           \A c \in Conns : op'[c].kind = "tell" => op'[c] = op[c],
           \A d \in Conns : conn'[d].at \in {"got", "in"} =>
              conn[d].at \in {"got", "in"} /\ conn'[d].acct = conn[d].acct
    PROVE  Telling'
<1> DEFINE S == {}
<1>1. S \in SUBSET Conns /\ \A d : d \notin S
  OBVIOUS
<1>2. \A c \in Conns : op'[c].kind = "tell" =>
         /\ op[c].kind = "tell" /\ op'[c].acct = op[c].acct /\ op'[c].to = op[c].to
         /\ op[c].todo \ S \subseteq op'[c].todo
  OBVIOUS
<1> HIDE DEF S
<1> QED BY <1>1, <1>2, TellingGoes

\* Every step keeps what the loops that tell sessions can rely on.
LEMMA TellingStep ==
    ASSUME TypeOK, CacheLogin, Down, Telling, Effect
    PROVE  Telling'
<1>1. CASE Nothing
  BY <1>1, TellingStays DEF Nothing
<1>2. CASE Crashed
  BY <1>2 DEF Telling, Relied, Crashed, Halted
<1>3. CASE Started
  BY <1>3 DEF Telling, Relied, Started, Down
<1>4. ASSUME NEW c \in Conns, Absent(c)
      PROVE  Telling'
  <2>1. \A d \in Conns : op'[d].kind = "tell" =>
           /\ op[d].kind = "tell" /\ op'[d].acct = op[d].acct /\ op'[d].to = op[d].to
           /\ op[d].todo \ {c} \subseteq op'[d].todo
    BY <1>4 DEF Absent, Goes
  <2>2. \A d \in Conns : conn'[d].at \in {"got", "in"} =>
           d \notin {c} /\ conn[d].at \in {"got", "in"} /\ conn'[d].acct = conn[d].acct
    BY <1>4 DEF Absent
  <2>3. /\ stale \subseteq stale' /\ cache' = cache /\ {c} \in SUBSET Conns
    BY <1>4 DEF Absent
  <2> QED BY <2>1, <2>2, <2>3, TellingGoes
<1>5. ASSUME NEW c \in Conns, Assigned(c)
      PROVE  Telling'
  BY <1>5, TellingStays DEF Assigned
<1>6. ASSUME NEW c \in Conns, Begun(c)
      PROVE  Telling'
  BY <1>6, TellingStays DEF Begun
<1>7. ASSUME NEW c \in Conns, Refused(c)
      PROVE  Telling'
  BY <1>7, TellingStays DEF Refused, Freed
<1>8. ASSUME NEW c \in Conns, NEW l \in Names, Got(c, l)
      PROVE  Telling'
  <2> SUFFICES ASSUME NEW e \in Conns, NEW a \in Account, NEW k \in Names, Relied(e, a, k)'
               PROVE  Sound(e, a, k)'
    BY DEF Telling
  <2>1. /\ cache' = cache /\ op' = op /\ stale' = stale
        /\ conn'[c].acct = cache[l] /\ cache[l].login = l
        /\ \A d \in Conns \ {c} : conn'[d] = conn[d]
    BY <1>8 DEF Got, CacheLogin
  <2>2. Sound(e, a, k)
    BY <2>1 DEF Telling, Relied
  <2> QED BY <2>1, <2>2 DEF Sound
<1>9. ASSUME NEW c \in Conns, NEW a \in Account, NEW n \in Names, Made(c, a, n)
      PROVE  Telling'
  BY <1>9, TellingStays DEF Made, Puts, Freed
<1>10. ASSUME NEW c \in Conns, NEW a \in Account, NEW n \in Names, HalfMade(c, a, n)
      PROVE  Telling'
  <2>1. CASE Halted
    BY <2>1 DEF Telling, Relied, Halted
  <2>2. CASE Freed(c) /\ UNCHANGED <<up, cache, conn>>
    BY <1>10, <2>2, TellingStays DEF HalfMade, Freed
  <2> QED BY <1>10, <2>1, <2>2 DEF HalfMade
<1>11. ASSUME NEW c \in Conns, NEW a \in Account, NEW n \in Names, Changed(c, a, n)
      PROVE  Telling'
  <2>1. \A k \in Names : \/ cache'[k] = None \/ cache'[k] = cache[k]
                         \/ k \in stale' \/ Tellers(k) = {}
    BY <1>11 DEF Changed
  <2>2. /\ stale \subseteq stale' /\ conn' = conn
        /\ \A d \in Conns : op'[d].kind = "tell" => op'[d] = op[d]
    BY <1>11 DEF Changed
  <2> QED BY <2>1, <2>2, TellingStays
<1>12. ASSUME NEW c \in Conns, NEW a \in Account, NEW n \in Names, HalfChanged(c, a, n)
      PROVE  Telling'
  <2>1. CASE Halted
    BY <2>1 DEF Telling, Relied, Halted
  <2>2. CASE ~Halted
    <3>1. /\ Freed(c) /\ conn' = conn /\ stale \subseteq stale'
          /\ \A k \in Names : cache'[k] = None \/ cache'[k] = cache[k] \/ k \in stale'
      BY <1>12, <2>2 DEF HalfChanged
    <3> QED BY <3>1, TellingStays DEF Freed
  <2> QED BY <2>1, <2>2
<1>13. ASSUME NEW c \in Conns, NEW b \in Account, NEW n \in Names, Lists(c, b, n)
      PROVE  Telling'
  <2> SUFFICES ASSUME NEW e \in Conns, NEW a \in Account, NEW k \in Names, Relied(e, a, k)'
               PROVE  Sound(e, a, k)'
    BY DEF Telling
  <2>1. /\ op[c].kind = "notify" /\ op'[c].acct = b /\ op'[c].to = n /\ op'[c].todo = Listed
        /\ \A d \in Conns \ {c} : op'[d] = op[d]
        /\ cache' = cache /\ conn' = conn
    BY <1>13 DEF Lists, Job
  <2>2. k \notin stale' /\ op'[e].kind = "tell" /\ op'[e].to = k /\ op'[e].acct = a
    BY DEF Relied
  <2>3. CASE k = n
    <3>1. Tellers(n) = {} /\ (cache[n] # None => cache[n].access = b.access)
      BY <1>13, <2>2, <2>3 DEF Lists
    <3>2. e = c /\ a = b
      BY <2>1, <2>2, <2>3, <3>1 DEF Tellers
    <3>3. \A d \in Conns \ {c} : ~(op'[d].kind = "tell" /\ op'[d].to = k)
      BY <2>1, <2>3, <3>1 DEF Tellers
    <3>4. \A d \in Conns \ op'[c].todo : conn'[d].at \notin {"got", "in"}
      BY <2>1 DEF Listed
    <3> QED BY <2>1, <2>3, <3>1, <3>2, <3>3, <3>4 DEF Sound
  <2>4. CASE k # n
    <3>1. e # c /\ k \notin stale
      BY <1>13, <2>1, <2>2, <2>4 DEF Lists
    <3>2. Sound(e, a, k)
      BY <2>1, <2>2, <3>1 DEF Telling, Relied
    <3>3. \A d \in Conns \ {e} : ~(op'[d].kind = "tell" /\ op'[d].to = k)
      BY <2>1, <2>4, <3>2 DEF Sound
    <3> QED BY <2>1, <3>1, <3>2, <3>3 DEF Sound
  <2> QED BY <2>3, <2>4
<1>14. ASSUME NEW n \in Names, Deleted(n)
      PROVE  Telling'
  BY <1>14, TellingStays DEF Deleted, Puts
<1>15. ASSUME NEW n \in Names, HalfStarted(n)
      PROVE  Telling'
  BY <1>15, TellingStays DEF HalfStarted
<1>16. ASSUME NEW c \in Conns, NEW f \in Conns, NEW b \in Account, NEW n \in Names, Tells(c, f, b, n)
      PROVE  Telling'
  <2> SUFFICES ASSUME NEW e \in Conns, NEW a \in Account, NEW k \in Names, Relied(e, a, k)'
               PROVE  Sound(e, a, k)'
    BY DEF Telling
  <2>1. /\ op[c].kind = "tell" /\ op[c].acct = b /\ op[c].to = n
        /\ conn[f].at = "in" /\ conn'[f].at = "in"
        /\ conn'[f].acct.login = conn[f].acct.login
        /\ conn'[f].acct.access = IF conn[f].acct.login = n THEN b.access ELSE conn[f].acct.access
        /\ \A d \in Conns \ {f} : conn'[d] = conn[d]
        /\ \A d \in Conns \ {c} : op'[d] = op[d]
        /\ cache' = cache /\ stale' = stale
    BY <1>16 DEF Tells, Job
  <2>2. op'[c].kind = "tell" =>
           op'[c].acct = b /\ op'[c].to = n /\ op[c].todo \ {f} \subseteq op'[c].todo
    BY <1>16, <2>1 DEF Tells, Goes
  <2>3. k \notin stale /\ op'[e].kind = "tell" /\ op'[e].to = k /\ op'[e].acct = a
    BY <2>1 DEF Relied
  <2>4. op[e].kind = "tell" /\ op[e].to = k /\ op[e].acct = a
    BY <2>1, <2>2, <2>3
  <2>5. Sound(e, a, k)
    BY <2>3, <2>4 DEF Telling, Relied
  <2>6. \A d \in Conns \ {e} : ~(op'[d].kind = "tell" /\ op'[d].to = k)
    BY <2>1, <2>2, <2>5 DEF Sound
  <2>7. k = n => e = c /\ a = b
    BY <2>1, <2>4, <2>5 DEF Sound
  <2>8. ASSUME cache[k] # None, NEW d \in Conns \ op'[e].todo,
               conn'[d].at \in {"got", "in"}, conn'[d].acct.login = k
        PROVE  conn'[d].acct.access = a.access
    <3>1. CASE d = f /\ k = n
      BY <2>1, <2>7, <2>8, <3>1
    <3>2. CASE d = f /\ k # n
      <4>1. e # c
        BY <2>1, <2>4, <3>2
      <4> QED BY <2>1, <2>5, <2>8, <3>2, <4>1 DEF Sound
    <3>3. CASE d # f
      <4>1. d \notin op[e].todo
        BY <2>1, <2>2, <2>3, <2>8, <3>3
      <4> QED BY <2>1, <2>5, <2>8, <3>3, <4>1 DEF Sound
    <3> QED BY <3>1, <3>2, <3>3
  <2> QED BY <2>1, <2>5, <2>6, <2>8 DEF Sound
<1>17. ASSUME NEW c \in Conns, Panics(c)
      PROVE  Telling'
  <2>1. \A d \in Conns : op'[d].kind = "tell" =>
           /\ op[d].kind = "tell" /\ op'[d].acct = op[d].acct /\ op'[d].to = op[d].to
           /\ op[d].todo \ {c} \subseteq op'[d].todo
    BY <1>17 DEF Panics, Goes
  <2>2. \A d \in Conns : conn'[d].at \in {"got", "in"} =>
           d \notin {c} /\ conn[d].at \in {"got", "in"} /\ conn'[d].acct = conn[d].acct
    BY <1>17 DEF Panics
  <2>3. /\ stale \subseteq stale' /\ cache' = cache /\ {c} \in SUBSET Conns
    BY <1>17 DEF Panics
  <2> QED BY <2>1, <2>2, <2>3, TellingGoes
<1> QED
  BY <1>1, <1>2, <1>3, <1>4, <1>5, <1>6, <1>7, <1>8, <1>9, <1>10, <1>11, <1>12, <1>13, <1>14, <1>15,
     <1>16, <1>17 DEF Effect

\* A session of login k may lack the present access of its account only while
\* somebody is about to tell it, or after a change that nobody tells of.
Excused(k) ==
    \/ k \in stale
    \/ cache[k] = None
    \/ \E c \in Conns : op[c].kind \in {"notify", "tell"} /\ op[c].to = k

\* The session d is excused or has the present access of its account.
Reached(d) ==
    \/ Excused(conn[d].acct.login)
    \/ conn[d].acct.access = cache[conn[d].acct.login].access

\* Steps that leave sessions and their accounts alone, or excuse them, and end
\* no loop keep every session up with its account.
LEMMA ToldGoes ==
    ASSUME TypeOK, TypeOK', SessionsAreTold,
           \A k \in Names : Excused(k) => Excused(k)',
           \A k \in Names : cache'[k] = cache[k] \/ Excused(k)',
           \A d \in Conns : conn'[d].at \in {"got", "in"} =>
              conn[d].at \in {"got", "in"} /\ conn'[d].acct = conn[d].acct
    PROVE  SessionsAreTold'
<1> SUFFICES ASSUME NEW d \in Conns, conn'[d].at \in {"got", "in"}
             PROVE  Reached(d)'
  BY DEF SessionsAreTold, Reached, Excused
<1>1. Reached(d)
  BY DEF SessionsAreTold, Reached, Excused
<1>2. conn'[d].acct = conn[d].acct
  OBVIOUS
<1>3. PICK k \in Names : k = conn[d].acct.login
  BY AccountOf DEF TypeOK
<1> QED BY <1>1, <1>2, <1>3 DEF Reached

\* A session keeps up with its account as long as nobody changes it silently.
LEMMA ToldStep ==
    ASSUME TypeOK, TypeOK', CacheLogin, Down, Telling, SessionsAreTold, Effect
    PROVE  SessionsAreTold'
<1>1. CASE Nothing
  BY <1>1 DEF SessionsAreTold, Nothing
<1>2. CASE Crashed
  BY <1>2 DEF SessionsAreTold, Crashed, Halted
<1>3. CASE Started
  <2>1. \A d \in Conns : conn'[d].at = "out"
    BY <1>3 DEF Started, Down
  <2> QED BY <2>1 DEF SessionsAreTold
<1>0. ASSUME NEW c \in Conns, \A d \in Conns \ {c} : Goes(d, {c}),
             stale \subseteq stale', cache' = cache,
             op[c].kind \in {"notify", "tell"} =>
                Goes(c, {c}) \/ op[c].to \in stale',
             \A d \in Conns \ {c} : conn'[d] = conn[d],
             conn'[c].at \notin {"got", "in"}
      PROVE  SessionsAreTold'
  <2> SUFFICES ASSUME NEW d \in Conns, conn'[d].at \in {"got", "in"}
               PROVE  Reached(d)'
    BY DEF SessionsAreTold, Reached, Excused
  <2>1. d # c /\ conn'[d] = conn[d]
    BY <1>0
  <2>2. PICK k \in Names : k = conn[d].acct.login
    BY <2>1, AccountOf DEF TypeOK
  <2>3. Reached(d)
    BY <2>1 DEF SessionsAreTold, Reached, Excused
  <2>4. CASE k \in stale \/ cache[k] = None \/ conn[d].acct.access = cache[k].access
    BY <1>0, <2>1, <2>2, <2>4 DEF Reached, Excused
  <2>5. CASE ~(k \in stale \/ cache[k] = None)
    <3>1. CASE \E e \in Conns : op[e].kind \in {"notify", "tell"} /\ op[e].to = k
      <4>1. PICK e \in Conns : op[e].kind \in {"notify", "tell"} /\ op[e].to = k
        BY <3>1
      <4>2. CASE k \in stale'
        BY <2>1, <2>2, <4>2 DEF Reached, Excused
      <4>3. CASE k \notin stale'
        <5>1. Goes(e, {c})
          BY <1>0, <4>1, <4>3
        <5>2. CASE op'[e].kind = op[e].kind /\ op'[e].to = op[e].to
          BY <2>1, <2>2, <4>1, <5>2 DEF Reached, Excused
        <5>3. CASE op[e].kind = "tell" /\ op[e].todo \subseteq {c}
          <6>1. PICK a \in Account : op[e].acct = a
            BY <5>3 DEF TypeOK
          <6>2. Sound(e, a, k)
            BY <2>5, <4>1, <5>3, <6>1 DEF Telling, Relied
          <6>3. d \notin op[e].todo
            BY <2>1, <5>3
          <6>4. conn[d].acct.access = a.access /\ cache[k].access = a.access
            BY <2>1, <2>2, <2>5, <6>2, <6>3 DEF Sound
          <6> QED BY <1>0, <2>1, <2>2, <6>4 DEF Reached
        <5> QED BY <5>1, <5>2, <5>3 DEF Goes
      <4> QED BY <4>2, <4>3
    <3>2. CASE ~\E e \in Conns : op[e].kind \in {"notify", "tell"} /\ op[e].to = k
      BY <2>2, <2>3, <2>4, <2>5, <3>2 DEF Reached, Excused
    <3> QED BY <3>1, <3>2
  <2> QED BY <2>4, <2>5
<1>4. ASSUME NEW c \in Conns, Absent(c)
      PROVE  SessionsAreTold'
  BY <1>0, <1>4 DEF Absent
<1>5. ASSUME NEW c \in Conns, Assigned(c)
      PROVE  SessionsAreTold'
  BY <1>5 DEF SessionsAreTold, Assigned
<1>6. ASSUME NEW c \in Conns, Begun(c)
      PROVE  SessionsAreTold'
  BY <1>6, ToldGoes DEF Begun, Excused
<1>7. ASSUME NEW c \in Conns, Refused(c)
      PROVE  SessionsAreTold'
  BY <1>7, ToldGoes DEF Refused, Freed, Excused
<1>8. ASSUME NEW c \in Conns, NEW l \in Names, Got(c, l)
      PROVE  SessionsAreTold'
  <2> SUFFICES ASSUME NEW d \in Conns, conn'[d].at \in {"got", "in"}
               PROVE  Reached(d)'
    BY DEF SessionsAreTold, Reached, Excused
  <2>1. CASE d = c
    BY <1>8, <2>1 DEF Got, CacheLogin, Reached
  <2>2. CASE d # c
    BY <1>8, <2>2 DEF Got, SessionsAreTold, Reached, Excused
  <2> QED BY <2>1, <2>2
<1>9. ASSUME NEW c \in Conns, NEW a \in Account, NEW n \in Names, Made(c, a, n)
      PROVE  SessionsAreTold'
  <2>1. /\ conn' = conn /\ stale' = stale \cup {n}
        /\ \A m \in Names \ {n} : cache'[m] = cache[m]
        /\ \A e \in Conns : op[e].kind \in {"notify", "tell"} => op'[e] = op[e]
    BY <1>9 DEF Made, Puts, Job, Freed
  <2>2. ASSUME NEW k \in Names
        PROVE  /\ Excused(k) => Excused(k)'
               /\ cache'[k] = cache[k] \/ Excused(k)'
    BY <2>1 DEF Excused
  <2> QED BY <2>1, <2>2, ToldGoes
<1>10. ASSUME NEW c \in Conns, NEW a \in Account, NEW n \in Names, HalfMade(c, a, n)
      PROVE  SessionsAreTold'
  <2>1. CASE Halted
    BY <2>1 DEF Halted, SessionsAreTold
  <2>2. CASE Freed(c) /\ UNCHANGED <<up, cache, conn>>
    BY <1>10, <2>2, ToldGoes DEF HalfMade, Job, Freed, Excused
  <2> QED BY <1>10, <2>1, <2>2 DEF HalfMade
<1>11. ASSUME NEW c \in Conns, NEW a \in Account, NEW n \in Names, Changed(c, a, n)
      PROVE  SessionsAreTold'
  <2>1. /\ conn' = conn /\ stale \subseteq stale'
        /\ \A m \in Names \ {n, a.login} : cache'[m] = cache[m]
        /\ a.login # n => cache'[a.login] = None
        /\ \A e \in Conns : op[e].kind \in {"notify", "tell"} => op'[e] = op[e]
        /\ n \in stale' \/ (op'[c].kind = "notify" /\ op'[c].to = n)
    BY <1>11 DEF Changed, Job
  <2>2. Excused(n)'
    BY <2>1 DEF Excused
  <2>3. ASSUME NEW k \in Names
        PROVE  /\ Excused(k) => Excused(k)'
               /\ cache'[k] = cache[k] \/ Excused(k)'
    <3>1. CASE k = n
      BY <2>2, <3>1
    <3>2. CASE k = a.login /\ k # n
      BY <2>1, <3>2 DEF Excused
    <3>3. CASE k \notin {n, a.login}
      BY <2>1, <3>3 DEF Excused
    <3> QED BY <3>1, <3>2, <3>3
  <2> QED BY <2>1, <2>3, ToldGoes
<1>12. ASSUME NEW c \in Conns, NEW a \in Account, NEW n \in Names, HalfChanged(c, a, n)
      PROVE  SessionsAreTold'
  <2>1. CASE Halted
    BY <2>1 DEF Halted, SessionsAreTold
  <2>2. CASE ~Halted
    <3>1. /\ Freed(c) /\ conn' = conn /\ stale \subseteq stale'
          /\ op[c].kind = "update"
          /\ \A k \in Names : cache'[k] = cache[k] \/ k \in stale'
      BY <1>12, <2>2 DEF HalfChanged, Job
    <3>2. ASSUME NEW k \in Names
          PROVE  /\ Excused(k) => Excused(k)'
                 /\ cache'[k] = cache[k] \/ Excused(k)'
      BY <3>1 DEF Freed, Excused
    <3> QED BY <3>1, <3>2, ToldGoes
  <2> QED BY <2>1, <2>2
<1>13. ASSUME NEW c \in Conns, NEW a \in Account, NEW n \in Names, Lists(c, a, n)
      PROVE  SessionsAreTold'
  <2>1. /\ conn' = conn /\ cache' = cache /\ stale \subseteq stale' \cup {n}
        /\ op'[c].kind = "tell" /\ op'[c].to = n /\ op[c].to = n
        /\ \A d \in Conns \ {c} : op'[d] = op[d]
    BY <1>13 DEF Lists, Job
  <2>2. ASSUME NEW k \in Names
        PROVE  Excused(k) => Excused(k)'
    BY <2>1 DEF Excused
  <2> QED BY <2>1, <2>2, ToldGoes
<1>14. ASSUME NEW n \in Names, Deleted(n)
      PROVE  SessionsAreTold'
  <2>1. conn' = conn /\ stale' = stale /\ op' = op /\ \A m \in Names : cache'[m] \in {cache[m], None}
    BY <1>14 DEF Deleted, Puts
  <2>2. ASSUME NEW k \in Names
        PROVE  /\ Excused(k) => Excused(k)'
               /\ cache'[k] = cache[k] \/ Excused(k)'
    BY <2>1 DEF Excused
  <2> QED BY <2>1, <2>2, ToldGoes
<1>15. ASSUME NEW n \in Names, HalfStarted(n)
      PROVE  SessionsAreTold'
  BY <1>15 DEF SessionsAreTold, HalfStarted, Puts
<1>16. ASSUME NEW c \in Conns, NEW f \in Conns, NEW a \in Account, NEW n \in Names, Tells(c, f, a, n)
      PROVE  SessionsAreTold'
  <2> SUFFICES ASSUME NEW d \in Conns, conn'[d].at \in {"got", "in"}
               PROVE  Reached(d)'
    BY DEF SessionsAreTold, Reached, Excused
  <2>1. /\ op[c].kind = "tell" /\ op[c].acct = a /\ op[c].to = n
        /\ conn[f].at = "in" /\ conn'[f].at = "in"
        /\ conn'[f].acct.login = conn[f].acct.login
        /\ conn'[f].acct.access = IF conn[f].acct.login = n THEN a.access ELSE conn[f].acct.access
        /\ \A e \in Conns \ {f} : conn'[e] = conn[e]
        /\ \A e \in Conns \ {c} : op'[e] = op[e]
        /\ cache' = cache /\ stale' = stale
    BY <1>16 DEF Tells, Job
  <2>2. conn[d].at \in {"got", "in"} /\ conn'[d].acct.login = conn[d].acct.login
    BY <2>1
  <2>3. PICK k \in Names : k = conn[d].acct.login
    BY <2>2, AccountOf DEF TypeOK
  <2>4. Reached(d)
    BY <2>2 DEF SessionsAreTold, Reached, Excused
  <2>5. CASE k \in stale \/ cache[k] = None
    BY <2>1, <2>2, <2>3, <2>5 DEF Reached, Excused
  <2>6. CASE k = n /\ ~(k \in stale \/ cache[k] = None)
    <3>1. Sound(c, a, n)
      BY <2>1, <2>6 DEF Telling, Relied
    <3>2. (op'[c].kind = "tell" /\ op'[c].to = n) \/ op[c].todo \subseteq {f}
      BY <1>16, <2>1 DEF Tells, Goes
    <3>3. CASE op'[c].kind = "tell" /\ op'[c].to = n
      BY <2>2, <2>3, <2>6, <3>3 DEF Reached, Excused
    <3>4. CASE op[c].todo \subseteq {f}
      <4>1. conn'[d].acct.access = a.access
        BY <2>1, <2>2, <2>3, <2>6, <3>1, <3>4 DEF Sound
      <4> QED BY <2>1, <2>2, <2>3, <2>6, <3>1, <4>1 DEF Reached, Sound
    <3> QED BY <3>2, <3>3, <3>4
  <2>7. CASE k # n /\ ~(k \in stale \/ cache[k] = None)
    <3>1. conn'[d].acct.access = conn[d].acct.access
      BY <2>1, <2>3, <2>7
    <3>2. \A e \in Conns : op[e].kind \in {"notify", "tell"} /\ op[e].to = k => op'[e] = op[e]
      BY <2>1, <2>7
    <3> QED BY <2>1, <2>2, <2>3, <2>4, <2>7, <3>1, <3>2 DEF Reached, Excused
  <2> QED BY <2>5, <2>6, <2>7
<1>17. ASSUME NEW c \in Conns, Panics(c)
      PROVE  SessionsAreTold'
  BY <1>0, <1>17 DEF Panics
<1> QED
  BY <1>1, <1>2, <1>3, <1>4, <1>5, <1>6, <1>7, <1>8, <1>9, <1>10, <1>11, <1>12, <1>13, <1>14, <1>15,
     <1>16, <1>17 DEF Effect

-----------------------------------------------------------------------------
(* The theorems *)

\* The first state, of any well-formed account files, satisfies the invariant.
LEMMA InitInv == Init => Inv
<1> SUFFICES ASSUME Init PROVE Inv
  OBVIOUS
<1>1. PICK S \in (SUBSET Logins) \ {{}}, g \in [Logins -> Grants],
           p \in Passwords, f \in {"old", "new"} :
         /\ files = [n \in Names |->
              IF n \in S
              THEN [acct |-> [login |-> n, access |-> g[n], pass |-> p], fmt |-> f]
              ELSE None]
         /\ initial = UNION {g[n] : n \in S}
  BY DEF Init
<1>2. None \notin Content /\ None \notin Account /\ Bad \notin Content /\ Bad # None
  BY NilAssumption
<1>3. ASSUME NEW n \in S
      PROVE  /\ n \in Names /\ files[n] \in Content
             /\ files[n].acct.login = n /\ files[n].acct.access = g[n]
  <2>1. n \in Names /\ g[n] \in SUBSET Rights /\ p \in Hashes
    BY RightsAssumption DEF Names, Hashes
  <2>2. files[n] = [acct |-> [login |-> n, access |-> g[n], pass |-> p], fmt |-> f]
    BY <1>1, <2>1
  <2> QED BY <2>1, <2>2 DEF Content, Account
<1>4. \A n \in Names \ S : files[n] = None
  BY <1>1
<1>5. /\ cache = [n \in Names |-> None] /\ conn = [c \in Conns |-> Out]
      /\ op = [c \in Conns |-> Idle] /\ damaged = {Junk} /\ up = FALSE
      /\ stale = {} /\ requests = 0 /\ faults = 0
  BY DEF Init
<1>6. /\ Out \in [at: Stages, login: Names, acct: Account \cup {None}]
      /\ Idle \in OpSet
      /\ Out.at = "out" /\ Idle.kind = "none"
  BY DEF Out, Idle, Stages, Names, OpSet
<1>7. initial \subseteq Rights
  BY <1>1, RightsAssumption
<1>8. files \in [Names -> Content \cup {None, Bad}]
  <2>1. \A n \in Names : files[n] \in Content \cup {None, Bad}
    BY <1>3, <1>4
  <2> QED BY <1>1, <2>1
<1>9. TypeOK
  <2>1. Junk \in Names /\ 0 \in 0 .. MaxRequests /\ 0 \in 0 .. MaxFaults
    BY BoundsAssumption DEF Names
  <2> QED BY <1>5, <1>6, <1>7, <1>8, <2>1 DEF TypeOK, OpSet
<1>10. CacheLogin /\ Jobs /\ Down /\ Telling /\ SessionsAreTold
  BY <1>5, <1>6 DEF CacheLogin, Jobs, Down, Telling, Relied, SessionsAreTold
<1>11. Claimed /\ UndamagedInSync
  BY <1>2, <1>3, <1>4, <1>5 DEF Claimed, UndamagedInSync
<1>12. Confined /\ ConfinedRights
  <2>1. \A n \in S : g[n] \subseteq initial
    BY <1>1
  <2> QED BY <1>2, <1>3, <1>4, <1>5, <1>6, <2>1 DEF Confined, ConfinedRights
<1> QED BY <1>9, <1>10, <1>11, <1>12 DEF Inv

\* Whatever sessions, failing writes, crashes and starts do, the invariant stays.
LEMMA Invariance == Spec => []Inv
<1>1. Inv /\ [Next]_vars => Inv'
  <2> SUFFICES ASSUME Inv, [Next]_vars PROVE Inv'
    OBVIOUS
  <2>1. TypeOK' /\ Effect
    BY StepCases DEF Inv
  <2>2. CacheLogin'
    BY <2>1, LoginStep DEF Inv
  <2>3. Jobs' /\ Down'
    BY <2>1, JobsStep DEF Inv
  <2>4. Confined' /\ ConfinedRights'
    BY <2>1, RightsStep DEF Inv
  <2>5. Claimed' /\ UndamagedInSync'
    BY <2>1, SyncStep DEF Inv
  <2>6. Telling'
    BY <2>1, TellingStep DEF Inv
  <2>7. SessionsAreTold'
    BY <2>1, ToldStep DEF Inv
  <2> QED BY <2>1, <2>2, <2>3, <2>4, <2>5, <2>6, <2>7 DEF Inv
<1> QED BY InitInv, <1>1, PTL DEF Spec

\* Every variable keeps its type; above all the account of a session that is
\* logged in, and the one a handler is about to write, is never nil.
THEOREM TypeCorrect == Spec => []TypeOK
<1>1. Inv => TypeOK
  BY DEF Inv
<1> QED BY <1>1, Invariance, PTL

\* Cache and account file agree on every login that no interrupted operation
\* was about, through concurrent edits, renames, deletions, creations, failing
\* writes, crashes and starts (YAMLAccountManager).
THEOREM InSync == Spec => []UndamagedInSync
<1>1. Inv => UndamagedInSync
  BY DEF Inv
<1> QED BY <1>1, Invariance, PTL

\* Where no account may modify accounts, no chain of creations gives anybody a
\* right that no account had at first (HandleNewUser, HandleUpdateUser).
THEOREM RightsConfined == Spec => []ConfinedRights
<1>1. Inv => ConfinedRights
  BY DEF Inv
<1> QED BY <1>1, Invariance, PTL

\* A session has the access of its account unless a loop of HandleSetUser is
\* about to tell it, or a change came that nobody tells of, the loop panicked or
\* two loops for the account overlapped.  One loop that runs by itself to its end
\* reaches every session, however the sessions log in, leave and are told apart
\* from each other meanwhile.
THEOREM SessionsTold == Spec => []SessionsAreTold
<1>1. Inv => SessionsAreTold
  BY DEF Inv
<1> QED BY <1>1, Invariance, PTL

=============================================================================
