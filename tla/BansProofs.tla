----------------------------- MODULE BansProofs -----------------------------
(***************************************************************************)
(* Proofs about both ban managers, for any sets of addresses, users and    *)
(* names: the file holds the bans in memory as long as it can be trusted,  *)
(* a check in Redis is right whatever happens between its commands, and    *)
(* each of them keeps the promise of BanMgr, on its own and as the one the *)
(* server was started with.                                                *)
(***************************************************************************)
EXTENDS Bans, TLAPS

USE UntilAssumption, TimeAssumption

\* What Load yields is always a set of bans.
LEMMA DecodeType == ASSUME NEW f \in Files PROVE Decode(f) \in Bans
  BY DEF Decode, Files, Kinds, Bans, NoBans, Until

\* Reading back a completed write yields what was written.
LEMMA DecodeWritten == ASSUME NEW b \in Bans
                       PROVE  Written(b) \in Files /\ Decode(Written(b)) = b
                              /\ Written(b).kind # "bad"
  BY DEF Written, Files, Kinds, Decode

\* An interrupted write leaves some file.
LEMMA TornType == ASSUME NEW b \in Bans PROVE Torn(b) \subseteq Files
<1>1. NoBans \in Bans
  BY DEF NoBans, Bans, Until
<1>2. ASSUME NEW q \in Prefixes(b) PROVE q \in Bans
  <2>1. b.ips \in [IPs -> Until] /\ b.users \subseteq Users
        /\ b.nicks \subseteq Nicks /\ None \in Until
    BY DEF Bans, Until
  <2>2. ASSUME NEW S \in SUBSET IPs
        PROVE  [ips |-> [p \in IPs |-> IF p \in S THEN b.ips[p] ELSE None],
                users |-> {}, nicks |-> {}] \in Bans
    BY <2>1 DEF Bans
  <2>3. ASSUME NEW U \in SUBSET b.users
        PROVE  [b EXCEPT !.users = U, !.nicks = {}] \in Bans
    BY <2>1 DEF Bans
  <2>4. ASSUME NEW N \in SUBSET b.nicks
        PROVE  [b EXCEPT !.nicks = N] \in Bans
    BY <2>1 DEF Bans
  <2>. QED
    BY <2>2, <2>3, <2>4 DEF Prefixes
<1>. QED
  BY <1>1, <1>2 DEF Torn, Written, Files, Kinds

\* A change preserves types and trust, however its save ends.
LEMMA ChangeStep ==
    ASSUME TypeOK, TrustedFileIsCurrent,
           NEW c, NEW b \in Bans, Change(c, b)
    PROVE  TypeOK' /\ TrustedFileIsCurrent'
<1>1. CASE Saved(c, b)
  BY <1>1, DecodeWritten DEF TypeOK, TrustedFileIsCurrent, Saved
<1>2. CASE NotSaved(c, b)
  <2>1. UNCHANGED <<bans, nilList, up, now>>
    BY <1>2 DEF NotSaved
  <2>2. CASE UNCHANGED <<file, trusted>>
    BY <2>1, <2>2 DEF TypeOK, TrustedFileIsCurrent
  <2>3. CASE file' \in Torn(b) /\ trusted' = FALSE
    BY <2>1, <2>3, TornType DEF TypeOK, TrustedFileIsCurrent
  <2>. QED
    BY <1>2, <2>2, <2>3 DEF NotSaved
<1>3. CASE DiesSaving(b)
  BY <1>3, TornType DEF TypeOK, TrustedFileIsCurrent, DiesSaving
<1>. QED
  BY <1>1, <1>2, <1>3 DEF Change

\* The bans a call asks for are bans, and it changes one entry of one map.
LEMMA ChangeTypes ==
    ASSUME TypeOK
    PROVE  /\ \A p \in IPs, t \in Until : [bans EXCEPT !.ips[p] = t] \in Bans
           /\ \A u \in Users : /\ [bans EXCEPT !.users = @ \cup {u}] \in Bans
                               /\ [bans EXCEPT !.users = @ \ {u}] \in Bans
           /\ \A n \in Nicks : /\ [bans EXCEPT !.nicks = @ \cup {n}] \in Bans
                               /\ [bans EXCEPT !.nicks = @ \ {n}] \in Bans
  BY DEF TypeOK, Bans

\* The six calls of the ban manager.
Called ==
    \/ \E p \in IPs : Add(p, Perm) \/ Add(p, now + BanDuration) \/ UnbanIP(p)
    \/ \E u \in Users : BanUsername(u) \/ UnbanUsername(u)
    \/ \E n \in Nicks : BanNickname(n) \/ UnbanNickname(n)

\* Call c asks for the bans b.
Asks(c, b) ==
    \/ \E p \in IPs, t \in {Perm} \cup Nat :
          c = Call("Add", p, t) /\ b = [bans EXCEPT !.ips[p] = t]
    \/ \E p \in IPs : c = Call("UnbanIP", p, Perm) /\ b = [bans EXCEPT !.ips[p] = None]
    \/ \E u \in Users :
          \/ c = Call("BanUsername", u, Perm) /\ b = [bans EXCEPT !.users = @ \cup {u}]
          \/ c = Call("UnbanUsername", u, Perm) /\ b = [bans EXCEPT !.users = @ \ {u}]
    \/ \E n \in Nicks :
          \/ c = Call("BanNickname", n, Perm) /\ b = [bans EXCEPT !.nicks = @ \cup {n}]
          \/ c = Call("UnbanNickname", n, Perm) /\ b = [bans EXCEPT !.nicks = @ \ {n}]

\* Every call changes the bans to those it asks for, or fails to.
LEMMA CalledIsChange ==
    ASSUME TypeOK, Called
    PROVE  \E c, b : b \in Bans /\ Asks(c, b) /\ Change(c, b)
<1> USE ChangeTypes
<1>0. now + BanDuration \in Nat /\ Nat \subseteq Until
      /\ Perm \in Until /\ None \in Until
  BY DEF TypeOK, Until
<1>1. ASSUME NEW p \in IPs, NEW t \in {Perm} \cup Nat, Add(p, t)
      PROVE  \E c, b : b \in Bans /\ Asks(c, b) /\ Change(c, b)
  BY <1>0, <1>1 DEF Add, Asks
<1>2. ASSUME NEW p \in IPs, UnbanIP(p)
      PROVE  \E c, b : b \in Bans /\ Asks(c, b) /\ Change(c, b)
  BY <1>0, <1>2 DEF UnbanIP, Asks
<1>3. ASSUME NEW u \in Users, BanUsername(u) \/ UnbanUsername(u)
      PROVE  \E c, b : b \in Bans /\ Asks(c, b) /\ Change(c, b)
  BY <1>3 DEF BanUsername, UnbanUsername, Asks
<1>4. ASSUME NEW n \in Nicks, BanNickname(n) \/ UnbanNickname(n)
      PROVE  \E c, b : b \in Bans /\ Asks(c, b) /\ Change(c, b)
  BY <1>4 DEF BanNickname, UnbanNickname, Asks
<1>. QED
  BY <1>0, <1>1, <1>2, <1>3, <1>4 DEF Called

\* The inductive step of type correctness and trust.
LEMMA TrustStep ==
    TypeOK /\ TrustedFileIsCurrent /\ [Next]_vars
        => TypeOK' /\ TrustedFileIsCurrent'
<1> SUFFICES ASSUME TypeOK, TrustedFileIsCurrent, [Next]_vars
             PROVE  TypeOK' /\ TrustedFileIsCurrent'
  OBVIOUS
<1>0. NoBans \in Bans /\ Decode(file) \in Bans
  BY DecodeType DEF TypeOK, NoBans, Bans, Until
<1>1. CASE Called
  BY <1>1, CalledIsChange, ChangeStep
<1>2. CASE Start
  BY <1>2, <1>0 DEF Start, Load, TypeOK, TrustedFileIsCurrent
<1>3. CASE Reload
  BY <1>3, <1>0 DEF Reload, Load, TypeOK, TrustedFileIsCurrent
<1>4. CASE ReloadUnreadable
  BY <1>4, <1>0 DEF ReloadUnreadable, TypeOK, TrustedFileIsCurrent
<1>5. CASE Crash
  BY <1>5 DEF Crash, TypeOK, TrustedFileIsCurrent
<1>6. CASE EditFile
  <2>1. PICK p \in IPs : file' = Written([NoBans EXCEPT !.ips[p] = Perm])
    BY <1>6 DEF EditFile
  <2>2. [NoBans EXCEPT !.ips[p] = Perm] \in Bans
    BY DEF NoBans, Bans, Until
  <2>. QED
    BY <1>6, <2>1, <2>2, DecodeWritten DEF EditFile, TypeOK, TrustedFileIsCurrent
<1>7. CASE Tick
  BY <1>7 DEF Tick, TypeOK, TrustedFileIsCurrent
<1>8. CASE UNCHANGED vars
  BY <1>8 DEF vars, TypeOK, TrustedFileIsCurrent
<1>. QED
  BY <1>1, <1>2, <1>3, <1>4, <1>5, <1>6, <1>7, <1>8 DEF Next, Called

\* Memory starts with what the file holds.
LEMMA InitTrust == Init => TypeOK /\ TrustedFileIsCurrent
<1> SUFFICES ASSUME Init PROVE TypeOK /\ TrustedFileIsCurrent
  OBVIOUS
<1>1. file \in Files /\ file.kind # "bad"
  BY DEF Init, Files, Kinds, Bans, NoBans, Until
<1>. QED
  BY <1>1, DecodeType DEF Init, TypeOK, TrustedFileIsCurrent

-----------------------------------------------------------------------------
\* Memory and file agree after any history of saves, rollbacks, crashes and
\* reloads in which no write or read failed since the last success.
THEOREM TrustedFile == Spec => [](TypeOK /\ TrustedFileIsCurrent)
  BY InitTrust, TrustStep, PTL DEF Spec

\* The bans in force of b.
Ends(b) == [b EXCEPT !.ips = [p \in IPs |-> {b.ips[p]} \ {None}]]

\* They are bans of the abstract manager, before and after a step.
LEMMA EndsType ==
    ASSUME NEW b \in Bans
    PROVE  /\ Ends(b) \in Manager!Bans
           /\ Ends(b) = [ips |-> [p \in IPs |-> {b.ips[p]} \ {None}],
                          users |-> b.users, nicks |-> b.nicks]
<1> DEFINE f == [p \in IPs |-> {b.ips[p]} \ {None}]
<1>1. /\ b = [ips |-> b.ips, users |-> b.users, nicks |-> b.nicks]
      /\ b.ips \in [IPs -> Until] /\ b.users \subseteq Users /\ b.nicks \subseteq Nicks
  BY DEF Bans
<1>2. f \in [IPs -> SUBSET Manager!Until]
  BY <1>1 DEF Until, Manager!Until
<1>3. Ends(b) = [b EXCEPT !.ips = f]
  BY DEF Ends
<1> HIDE DEF f
<1>4. Ends(b) = [ips |-> f, users |-> b.users, nicks |-> b.nicks]
  BY <1>1, <1>3
<1>5. Ends(b) \in Manager!Bans
  BY <1>1, <1>2, <1>4 DEF Manager!Bans
<1> QED BY <1>4, <1>5 DEF f

\* When the bans become those that a call asks for, the call has had its effect.
LEMMA EffectOfCall ==
    ASSUME TypeOK, NEW c, NEW b \in Bans, Asks(c, b), bans' = b
    PROVE  c \in Manager!Calls /\ Manager!Effect(c)
<1>0. /\ InForce = Ends(bans) /\ InForce' = Ends(b)
      /\ bans \in Bans
  BY DEF TypeOK, InForce, Ends
<1>1. /\ bans.ips \in [IPs -> Until]
      /\ bans = [ips |-> bans.ips, users |-> bans.users, nicks |-> bans.nicks]
  BY <1>0 DEF Bans
<1>2. /\ InForce.ips = [p \in IPs |-> {bans.ips[p]} \ {None}]
      /\ InForce = [ips |-> InForce.ips, users |-> bans.users, nicks |-> bans.nicks]
      /\ InForce'.ips = [p \in IPs |-> {b.ips[p]} \ {None}]
      /\ InForce' = [ips |-> InForce'.ips, users |-> b.users, nicks |-> b.nicks]
  <2>1. /\ InForce = [ips |-> [p \in IPs |-> {bans.ips[p]} \ {None}],
                      users |-> bans.users, nicks |-> bans.nicks]
        /\ InForce' = [ips |-> [p \in IPs |-> {b.ips[p]} \ {None}],
                       users |-> b.users, nicks |-> b.nicks]
    BY <1>0, EndsType
  <2> DEFINE f == [p \in IPs |-> {bans.ips[p]} \ {None}]
             g == [p \in IPs |-> {b.ips[p]} \ {None}]
  <2> HIDE DEF f, g
  <2>2. /\ InForce = [ips |-> f, users |-> bans.users, nicks |-> bans.nicks]
        /\ InForce' = [ips |-> g, users |-> b.users, nicks |-> b.nicks]
    BY <2>1 DEF f, g
  <2>3. InForce.ips = f /\ InForce'.ips = g
    BY <2>2
  <2>4. /\ InForce = [ips |-> InForce.ips, users |-> bans.users, nicks |-> bans.nicks]
        /\ InForce' = [ips |-> InForce'.ips, users |-> b.users, nicks |-> b.nicks]
    BY <2>2, <2>3
  <2> QED BY <2>3, <2>4 DEF f, g
<1>3. ASSUME NEW p \in IPs, NEW t \in Until, b = [bans EXCEPT !.ips[p] = t]
      PROVE  /\ InForce'.ips = [InForce.ips EXCEPT ![p] = {t} \ {None}]
             /\ b.users = bans.users /\ b.nicks = bans.nicks
  <2>1. b.ips = [bans.ips EXCEPT ![p] = t] /\ b.users = bans.users /\ b.nicks = bans.nicks
    BY <1>1, <1>3
  <2>2. InForce'.ips = [q \in IPs |-> {[bans.ips EXCEPT ![p] = t][q]} \ {None}]
    BY <1>2, <2>1
  <2>3. \A q \in IPs : [bans.ips EXCEPT ![p] = t][q] = IF q = p THEN t ELSE bans.ips[q]
    BY <1>1
  <2>4. InForce'.ips = [q \in IPs |-> IF q = p THEN {t} \ {None} ELSE {bans.ips[q]} \ {None}]
    BY <2>2, <2>3
  <2>5. [InForce.ips EXCEPT ![p] = {t} \ {None}]
          = [q \in IPs |-> IF q = p THEN {t} \ {None} ELSE {bans.ips[q]} \ {None}]
    BY <1>2
  <2>. QED BY <2>1, <2>4, <2>5
<1>4. ASSUME NEW p \in IPs, NEW t \in {Perm} \cup Nat,
             c = Call("Add", p, t), b = [bans EXCEPT !.ips[p] = t]
      PROVE  c \in Manager!Calls /\ Manager!Effect(c)
  <2>1. c \in Manager!Calls /\ c.op = "Add" /\ c.on = p /\ c.until = t
    BY <1>4 DEF Call, Manager!Calls, Manager!Until
  <2>2. /\ InForce'.ips = [InForce.ips EXCEPT ![p] = {t}]
        /\ b.users = bans.users /\ b.nicks = bans.nicks
    BY <1>3, <1>4 DEF Until
  <2>3. InForce' = [InForce EXCEPT !.ips[p] = {t}] /\ InForce'.ips[p] = {t}
    BY <1>2, <2>2
  <2>4. Manager!Ban(p, t)
    BY <2>3 DEF Manager!Ban, Manager!OnlyAt
  <2>. QED BY <2>1, <2>4 DEF Manager!Effect
<1>5. ASSUME NEW p \in IPs, c = Call("UnbanIP", p, Perm), b = [bans EXCEPT !.ips[p] = None]
      PROVE  c \in Manager!Calls /\ Manager!Effect(c)
  <2>1. c \in Manager!Calls /\ c.op = "UnbanIP" /\ c.on = p
    BY <1>5 DEF Call, Manager!Calls, Manager!Until
  <2>2. /\ InForce'.ips = [InForce.ips EXCEPT ![p] = {}]
        /\ b.users = bans.users /\ b.nicks = bans.nicks
    BY <1>3, <1>5 DEF Until
  <2>3. InForce' = [InForce EXCEPT !.ips[p] = {}]
    BY <1>2, <2>2
  <2>. QED BY <2>1, <2>3 DEF Manager!Effect
<1>6. ASSUME NEW u \in Users,
             \/ c = Call("BanUsername", u, Perm) /\ b = [bans EXCEPT !.users = @ \cup {u}]
             \/ c = Call("UnbanUsername", u, Perm) /\ b = [bans EXCEPT !.users = @ \ {u}]
      PROVE  c \in Manager!Calls /\ Manager!Effect(c)
  <2>1. b.ips = bans.ips /\ b.nicks = bans.nicks
    BY <1>1, <1>6
  <2>2. InForce' = [InForce EXCEPT !.users = b.users]
    BY <1>2, <2>1
  <2>3. InForce.users = bans.users
    BY <1>2
  <2>4. CASE c = Call("BanUsername", u, Perm) /\ b = [bans EXCEPT !.users = @ \cup {u}]
    <3>1. c \in Manager!Calls /\ c.op = "BanUsername" /\ c.on = u
      BY <2>4 DEF Call, Manager!Calls
    <3>2. b.users = InForce.users \cup {u}
      BY <1>1, <2>3, <2>4
    <3>3. InForce' = [InForce EXCEPT !.users = @ \cup {u}]
      BY <2>2, <3>2
    <3> QED BY <3>1, <3>3 DEF Manager!Effect
  <2>5. CASE c = Call("UnbanUsername", u, Perm) /\ b = [bans EXCEPT !.users = @ \ {u}]
    <3>1. c \in Manager!Calls /\ c.op = "UnbanUsername" /\ c.on = u
      BY <2>5 DEF Call, Manager!Calls
    <3>2. b.users = InForce.users \ {u}
      BY <1>1, <2>3, <2>5
    <3>3. InForce' = [InForce EXCEPT !.users = @ \ {u}]
      BY <2>2, <3>2
    <3> QED BY <3>1, <3>3 DEF Manager!Effect
  <2>. QED BY <1>6, <2>4, <2>5
<1>7. ASSUME NEW n \in Nicks,
             \/ c = Call("BanNickname", n, Perm) /\ b = [bans EXCEPT !.nicks = @ \cup {n}]
             \/ c = Call("UnbanNickname", n, Perm) /\ b = [bans EXCEPT !.nicks = @ \ {n}]
      PROVE  c \in Manager!Calls /\ Manager!Effect(c)
  <2>1. b.ips = bans.ips /\ b.users = bans.users
    BY <1>1, <1>7
  <2>2. InForce' = [InForce EXCEPT !.nicks = b.nicks]
    BY <1>2, <2>1
  <2>3. InForce.nicks = bans.nicks
    BY <1>2
  <2>4. CASE c = Call("BanNickname", n, Perm) /\ b = [bans EXCEPT !.nicks = @ \cup {n}]
    <3>1. c \in Manager!Calls /\ c.op = "BanNickname" /\ c.on = n
      BY <2>4 DEF Call, Manager!Calls
    <3>2. b.nicks = InForce.nicks \cup {n}
      BY <1>1, <2>3, <2>4
    <3>3. InForce' = [InForce EXCEPT !.nicks = @ \cup {n}]
      BY <2>2, <3>2
    <3> QED BY <3>1, <3>3 DEF Manager!Effect
  <2>5. CASE c = Call("UnbanNickname", n, Perm) /\ b = [bans EXCEPT !.nicks = @ \ {n}]
    <3>1. c \in Manager!Calls /\ c.op = "UnbanNickname" /\ c.on = n
      BY <2>5 DEF Call, Manager!Calls
    <3>2. b.nicks = InForce.nicks \ {n}
      BY <1>1, <2>3, <2>5
    <3>3. InForce' = [InForce EXCEPT !.nicks = @ \ {n}]
      BY <2>2, <3>2
    <3> QED BY <3>1, <3>3 DEF Manager!Effect
  <2>. QED BY <1>7, <2>4, <2>5
<1>. QED
  BY <1>4, <1>5, <1>6, <1>7 DEF Asks

\* Every step of the ban file is one of the abstract ban manager, or none.
LEMMA FileRefines ==
    ASSUME TypeOK, TrustedFileIsCurrent, [Next]_vars
    PROVE  [Manager!Next]_(Manager!vars)
<1>0. /\ TypeOK'
      /\ InForce = Ends(bans) /\ InForce' = Ends(bans')
      /\ Manager!Still = [p \in IPs |-> {}]
  BY TrustStep DEF InForce, Ends, Manager!Still
<1>1. CASE Called
  <2>1. PICK c, b : b \in Bans /\ Asks(c, b) /\ Change(c, b)
    BY <1>1, CalledIsChange
  <2>2. CASE Saved(c, b)
    <3>1. /\ c \in Manager!Calls /\ Manager!Effect(c)
          /\ answer' = {[call |-> c, ok |-> TRUE]} /\ trusted' = TRUE /\ now' = now
      BY <2>1, <2>2, EffectOfCall DEF Saved, Returns
    <3>2. Manager!Succeed(c)
      BY <1>0, <3>1 DEF Manager!Succeed, Manager!Returns
    <3>3. [call |-> c, ok |-> TRUE].call = c
      OBVIOUS
    <3>. QED BY <3>1, <3>2, <3>3 DEF Manager!Next
  <2>3. CASE NotSaved(c, b)
    <3>1. c \in Manager!Calls
      BY <2>1 DEF Asks, Call, Manager!Calls, Manager!Until
    <3>2. /\ answer' = {[call |-> c, ok |-> FALSE]} /\ trusted' \in {trusted, FALSE}
          /\ bans' = bans /\ now' = now
      BY <2>3 DEF NotSaved, Returns
    <3>3. Manager!Fail(c)
      BY <1>0, <3>1, <3>2 DEF Manager!Fail, Manager!Returns
    <3>4. [call |-> c, ok |-> FALSE].call = c
      OBVIOUS
    <3>. QED BY <3>2, <3>3, <3>4 DEF Manager!Next
  <2>4. CASE DiesSaving(b)
    BY <1>0, <2>4 DEF DiesSaving, Manager!Quiet, Manager!Next
  <2>. QED
    BY <2>1, <2>2, <2>3, <2>4 DEF Change
<1>2. CASE Load /\ answer' = {} /\ now' = now
  <2>1. CASE trusted
    <3>1. bans' = bans /\ trusted' = TRUE
      BY <1>2, <2>1 DEF Load, TrustedFileIsCurrent
    <3>. QED BY <1>0, <1>2, <2>1, <3>1 DEF Manager!Quiet, Manager!Next, TypeOK
  <2>2. CASE ~trusted
    <3>1. InForce' \in Manager!Bans /\ trusted' \in BOOLEAN
      BY <1>0, EndsType DEF TypeOK
    <3>. QED BY <1>0, <1>2, <2>2, <3>1 DEF Manager!Reread, Manager!Next
  <2>. QED BY <2>1, <2>2
<1>3. CASE ReloadUnreadable
  <2>1. Ends(NoBans) = Manager!NoBans
    BY DEF Ends, NoBans, Manager!NoBans
  <2>. QED BY <1>0, <1>3, <2>1 DEF ReloadUnreadable, Manager!Unreadable, Manager!Next
<1>4. CASE Crash
  BY <1>0, <1>4 DEF Crash, Manager!Quiet, Manager!Next
<1>5. CASE EditFile
  BY <1>0, <1>5 DEF EditFile, Manager!Quiet, Manager!Next
<1>6. CASE Tick
  <2>1. bans' = bans /\ trusted' = trusted /\ now' = now + 1 /\ answer' = {}
    BY <1>6 DEF Tick
  <2>2. InForce' = InForce
    BY <1>0, <2>1
  <2>3. InForce = [InForce EXCEPT !.ips = [p \in IPs |-> InForce.ips[p]]]
    BY <1>0, EndsType DEF TypeOK
  <2>. QED BY <1>0, <2>1, <2>2, <2>3 DEF Manager!Tick, Manager!Next
<1>7. CASE UNCHANGED vars
  BY <1>0, <1>7 DEF vars, Manager!vars
<1>. QED
  BY <1>1, <1>2, <1>3, <1>4, <1>5, <1>6, <1>7 DEF Next, Called, Start, Reload

\* The ban file implements the abstract ban manager.
THEOREM Refinement == Spec => ImplementsBanMgr
<1>1. Init => Manager!Init
  <2> SUFFICES ASSUME Init PROVE Manager!Init
    OBVIOUS
  <2>1. InForce = Ends(bans) /\ bans \in Bans
    BY InitTrust DEF TypeOK, InForce, Ends
  <2>. QED BY <2>1, EndsType DEF Init, Manager!Init
<1>2. TypeOK /\ TrustedFileIsCurrent /\ [Next]_vars => [Manager!Next]_(Manager!vars)
  BY FileRefines
<1>. QED
  BY <1>1, <1>2, TrustedFile, PTL DEF Spec, ImplementsBanMgr, Manager!Spec

-----------------------------------------------------------------------------
(* Bans in Redis *)

Expiry == {None} \cup Nat

\* The variables of the ban manager in Redis have their types.
Keys ==
    /\ perm \subseteq IPs
    /\ temp \in [IPs -> Expiry]
    /\ users \subseteq Users
    /\ nicks \subseteq Nicks
    /\ time \in Nat

\* Of the bans an UnbanIP found, those are left that are in force, and none is
\* permanent: its first command has lifted that one.
Found ==
    /\ lifting \subseteq IPs
    /\ before \in [IPs -> SUBSET Nat]
    /\ \A p \in IPs : before[p] \subseteq Redis!Terms(perm, temp, p)

Stored == Keys /\ Found

\* The connection in IsBanned is at one of its commands.
Checking ==
    /\ check.at \in {"none", "member", "exists", "ttl", "yes", "no"}
    /\ check = [at |-> check.at, ip |-> check.ip, kinds |-> check.kinds,
                reason |-> check.reason]
    /\ check.reason \in BOOLEAN

RedisTypeOK == Stored /\ Checking

\* What the connection in IsBanned has learnt: the kinds it has been banned by
\* all the time are in force still, a ban in force is a reason to refuse it,
\* and behind the first command it is not banned for good all the time.
Learnt ==
    /\ check.at # "none" =>
          /\ check.kinds \subseteq Redis!Kinds(perm, temp, check.ip)
          /\ Redis!Kinds(perm, temp, check.ip) # {} => check.reason
    /\ check.at \in {"exists", "ttl"} => "perm" \notin check.kinds

\* The steps that may change the bans of addresses, with their effect.
Turned ==
    /\ UNCHANGED <<users, nicks>>
    /\ Redis!Witness

Renamed == UNCHANGED <<perm, temp, check>>

Asked(p) ==
    /\ check' = [at |-> "member", ip |-> p, kinds |-> Redis!Kinds(perm, temp, p),
                 reason |-> Redis!Kinds(perm, temp, p) # {}]
    /\ UNCHANGED <<perm, temp, users, nicks>>

Advanced ==
    /\ \/ Redis!IsMember \/ Redis!Exists \/ Redis!TTL \/ Redis!CommandFails
       \/ Redis!Answered \/ check' = check
    /\ UNCHANGED <<perm, temp, users, nicks>>

RedisEffect ==
    \/ \E p \in IPs : Asked(p)
    \/ Turned \/ Renamed \/ Advanced

\* What a step leaves of the bans that an UnbanIP found.
LEMMA FoundStep ==
    ASSUME Found, Keys', lifting' \subseteq IPs,
           \/ before' = Redis!Still
           \/ \E p \in IPs : /\ before' = [Redis!Still EXCEPT ![p] = Redis!Terms(perm', temp', p)]
                             /\ p \notin perm'
           \/ \E p \in IPs : before' = [Redis!Still EXCEPT ![p] = {}]
           \/ UNCHANGED <<before, perm, temp>>
    PROVE  Found'
<1>1. CASE before' = Redis!Still
  BY <1>1 DEF Found, Redis!Still, Redis!Terms
<1>2. ASSUME NEW p \in IPs, p \notin perm',
             before' = [Redis!Still EXCEPT ![p] = Redis!Terms(perm', temp', p)]
      PROVE  Found'
  <2>1. Redis!Terms(perm', temp', p) \subseteq Nat
    BY <1>2 DEF Redis!Terms, Keys, Expiry
  <2>2. Redis!Still \in [IPs -> SUBSET Nat]
    BY DEF Found, Redis!Still
  <2>3. \A q \in IPs : Redis!Still[q] \subseteq Redis!Terms(perm', temp', q)
    BY DEF Redis!Still
  <2>. QED BY <1>2, <2>1, <2>2, <2>3 DEF Found
<1>3. ASSUME NEW p \in IPs, before' = [Redis!Still EXCEPT ![p] = {}]
      PROVE  Found'
  BY <1>3 DEF Found, Redis!Still, Redis!Terms
<1>4. CASE UNCHANGED <<before, perm, temp>>
  BY <1>4 DEF Found, Redis!Terms
<1>. QED BY <1>1, <1>2, <1>3, <1>4

\* Every step keeps the types of sets, keys and clock and has one of the effects.
LEMMA RedisCases ==
    ASSUME RedisTypeOK, [Redis!Next]_(Redis!vars)
    PROVE  Stored' /\ RedisEffect
<1>0. Keys /\ Found /\ lifting \subseteq IPs
  BY DEF RedisTypeOK, Stored, Found
<1>1. ASSUME NEW p \in IPs, Redis!Add(p, Perm) PROVE Stored' /\ RedisEffect
  <2>0. CASE Redis!Permanent(p)
    <3>1. Keys' /\ lifting' \subseteq IPs
      BY <1>0, <2>0 DEF Keys, Redis!Permanent
    <3> QED BY <1>0, <2>0, <3>1, FoundStep DEF Redis!Permanent, Stored, RedisEffect, Turned
  <2> QED BY <1>1, <2>0 DEF Redis!Add
<1>2. ASSUME NEW p \in IPs, NEW t \in Nat, Redis!Add(p, t) PROVE Stored' /\ RedisEffect
  <2>1. CASE Redis!Temporary(p, t)
    <3>1. Keys' /\ lifting' \subseteq IPs
      BY <1>0, <2>1 DEF Keys, Redis!Temporary, Expiry
    <3> QED BY <1>0, <2>1, <3>1, FoundStep DEF Redis!Temporary, Stored, RedisEffect, Turned
  <2>2. CASE Redis!Past(p, t)
    <3>1. Keys' /\ lifting' \subseteq IPs
      BY <1>0, <2>2 DEF Keys, Redis!Past
    <3> QED BY <1>0, <2>2, <3>1, FoundStep DEF Redis!Past, Stored, RedisEffect, Renamed
  <2> QED BY <1>2, <2>1, <2>2 DEF Redis!Add
<1>3. ASSUME NEW p \in IPs, Redis!UnbanIP(p) PROVE Stored' /\ RedisEffect
  <2>1. Keys' /\ lifting' \subseteq IPs /\ p \notin perm'
    BY <1>0, <1>3 DEF Keys, Redis!UnbanIP
  <2>2. /\ before' = [Redis!Still EXCEPT ![p] = Redis!Terms(perm', temp', p)]
        /\ UNCHANGED <<users, nicks>> /\ Redis!Witness
    BY <1>3 DEF Redis!UnbanIP
  <2> QED BY <1>0, <2>1, <2>2, FoundStep DEF Stored, RedisEffect, Turned
<1>4. ASSUME NEW p \in IPs, Redis!UnbanEnds(p) PROVE Stored' /\ RedisEffect
  <2>1. Keys' /\ lifting' \subseteq IPs
    BY <1>0, <1>4 DEF Keys, Redis!UnbanEnds, Expiry
  <2> QED BY <1>0, <1>4, <2>1, FoundStep DEF Redis!UnbanEnds, Stored, RedisEffect, Turned
<1>6. ASSUME NEW p \in IPs, Redis!AskIfBanned(p) PROVE Stored' /\ RedisEffect
  <2>1. Keys' /\ lifting' \subseteq IPs
    BY <1>0, <1>6 DEF Keys, Redis!AskIfBanned
  <2> QED BY <1>0, <1>6, <2>1, FoundStep DEF Redis!AskIfBanned, Stored, RedisEffect, Asked
<1>7. ASSUME NEW u \in Users, Redis!BanUsername(u) \/ Redis!UnbanUsername(u) PROVE Stored' /\ RedisEffect
  <2>1. Keys' /\ lifting' \subseteq IPs /\ UNCHANGED <<perm, temp, before, check>>
    BY <1>0, <1>7 DEF Keys, Redis!BanUsername, Redis!UnbanUsername, Redis!ChangeNames
  <2> QED BY <1>0, <2>1, FoundStep DEF Stored, RedisEffect, Renamed
<1>8. ASSUME NEW n \in Nicks, Redis!BanNickname(n) \/ Redis!UnbanNickname(n) PROVE Stored' /\ RedisEffect
  <2>1. Keys' /\ lifting' \subseteq IPs /\ UNCHANGED <<perm, temp, before, check>>
    BY <1>0, <1>8 DEF Keys, Redis!BanNickname, Redis!UnbanNickname, Redis!ChangeNames
  <2> QED BY <1>0, <2>1, FoundStep DEF Stored, RedisEffect, Renamed
<1>9. CASE Redis!Tick
  <2>1. Keys' /\ lifting' \subseteq IPs
    BY <1>0, <1>9 DEF Keys, Redis!Tick, Expiry
  <2> QED BY <1>0, <1>9, <2>1, FoundStep DEF Redis!Tick, Stored, RedisEffect, Turned
<1>10. CASE Redis!IsMember \/ Redis!Exists \/ Redis!TTL \/ Redis!CommandFails \/ Redis!Answered
  <2>1. UNCHANGED <<perm, temp, users, nicks, time, lifting, before>>
    BY <1>10 DEF Redis!IsMember, Redis!Exists, Redis!TTL, Redis!CommandFails, Redis!Answered, Redis!Goto
  <2>2. Keys' /\ lifting' \subseteq IPs
    BY <1>0, <2>1 DEF Keys
  <2> QED BY <1>0, <1>10, <2>1, <2>2, FoundStep DEF Stored, RedisEffect, Advanced
<1>11. CASE UNCHANGED Redis!vars
  <2>1. Keys' /\ lifting' \subseteq IPs
    BY <1>0, <1>11 DEF Keys, Redis!vars
  <2> QED BY <1>0, <1>11, <2>1, FoundStep DEF Redis!vars, Stored, RedisEffect, Advanced
<1>12. time \in Nat /\ time + BanDuration \in Nat
  BY <1>0 DEF Keys
<1> QED
  BY <1>1, <1>2, <1>3, <1>4, <1>6, <1>7, <1>8, <1>9, <1>10, <1>11, <1>12 DEF Redis!Next

\* What a check has learnt stays true while bans come and go.
LEMMA CheckStep ==
    ASSUME RedisTypeOK, Learnt, CheckIsRight, RedisEffect
    PROVE  Learnt' /\ CheckIsRight' /\ Checking'
<1>1. CASE Turned
  <2>1. CASE check.at = "none"
    <3>1. check' = check
      BY <1>1, <2>1 DEF Turned, Redis!Witness
    <3> QED BY <2>1, <3>1 DEF Learnt, CheckIsRight, RedisTypeOK, Checking
  <2>2. CASE check.at # "none"
    <3>1. PICK K : K = Redis!Kinds(perm', temp', check.ip)
      OBVIOUS
    <3>2. check' = [check EXCEPT !.kinds = @ \cap K, !.reason = @ \/ K # {}]
      BY <1>1, <2>2, <3>1 DEF Turned, Redis!Witness
    <3>3. /\ check'.at = check.at /\ check'.ip = check.ip
          /\ check'.kinds = check.kinds \cap K
          /\ check'.reason = (check.reason \/ K # {})
          /\ check' = [at |-> check'.at, ip |-> check'.ip, kinds |-> check'.kinds,
                       reason |-> check'.reason]
      BY <3>2 DEF RedisTypeOK, Checking
    <3>4. K = Redis!Kinds(perm, temp, check.ip)'
      BY <3>1, <3>3 DEF Redis!Kinds
    <3> QED BY <3>3, <3>4 DEF Learnt, CheckIsRight, RedisTypeOK, Checking
  <2> QED BY <2>1, <2>2
<1>2. ASSUME NEW p \in IPs, Asked(p) PROVE Learnt' /\ CheckIsRight' /\ Checking'
  BY <1>2 DEF Asked, Learnt, CheckIsRight, Checking, Redis!Kinds
<1>3. CASE Renamed
  BY <1>3 DEF Renamed, Learnt, CheckIsRight, RedisTypeOK, Checking, Redis!Kinds
<1>4. CASE Advanced
  <2>0. UNCHANGED <<perm, temp>>
    BY <1>4 DEF Advanced
  <2>1. ASSUME NEW s \in {"exists", "ttl", "yes", "no"}, check' = [check EXCEPT !.at = s],
               check.at # "none",
               s \in {"exists", "ttl"} => "perm" \notin check.kinds,
               s = "no" => check.kinds = {},
               s = "yes" => check.reason
        PROVE  Learnt' /\ CheckIsRight' /\ Checking'
    <3>1. /\ check'.at = s /\ check'.ip = check.ip
          /\ check'.kinds = check.kinds /\ check'.reason = check.reason
          /\ check' = [at |-> check'.at, ip |-> check'.ip, kinds |-> check'.kinds,
                       reason |-> check'.reason]
      BY <2>1 DEF RedisTypeOK, Checking
    <3>2. Redis!Kinds(perm, temp, check.ip)' = Redis!Kinds(perm, temp, check.ip)
      BY <2>0, <3>1 DEF Redis!Kinds
    <3> QED BY <2>1, <3>1, <3>2 DEF Learnt, CheckIsRight, RedisTypeOK, Checking
  <2>2. CASE Redis!IsMember
    BY <2>1, <2>2 DEF Redis!IsMember, Redis!Goto, Redis!Kinds, Learnt
  <2>3. CASE Redis!Exists
    BY <2>1, <2>3 DEF Redis!Exists, Redis!Goto, Redis!Kinds, Learnt
  <2>4. CASE Redis!TTL
    BY <2>1, <2>4 DEF Redis!TTL, Redis!Goto, Redis!Kinds, Learnt
  <2>5. CASE Redis!CommandFails
    <3>1. check.at # "none" /\ check' = [check EXCEPT !.at = "yes", !.reason = TRUE]
      BY <2>5 DEF Redis!CommandFails
    <3>2. /\ check'.at = "yes" /\ check'.ip = check.ip
          /\ check'.kinds = check.kinds /\ check'.reason = TRUE
          /\ check' = [at |-> check'.at, ip |-> check'.ip, kinds |-> check'.kinds,
                       reason |-> check'.reason]
      BY <3>1 DEF RedisTypeOK, Checking
    <3>3. Redis!Kinds(perm, temp, check.ip)' = Redis!Kinds(perm, temp, check.ip)
      BY <2>0, <3>2 DEF Redis!Kinds
    <3> QED BY <3>1, <3>2, <3>3 DEF Learnt, CheckIsRight, RedisTypeOK, Checking
  <2>6. CASE Redis!Answered
    BY <2>6 DEF Redis!Answered, Redis!NoCheck, Learnt, CheckIsRight, Checking
  <2>7. CASE check' = check
    BY <2>0, <2>7 DEF Learnt, CheckIsRight, RedisTypeOK, Checking, Redis!Kinds
  <2> QED BY <1>4, <2>2, <2>3, <2>4, <2>5, <2>6, <2>7 DEF Advanced
<1> QED
  BY <1>1, <1>2, <1>3, <1>4 DEF RedisEffect

\* Types and checks in Redis are inductive.
LEMMA RedisStep ==
    RedisTypeOK /\ Learnt /\ CheckIsRight /\ [Redis!Next]_(Redis!vars)
        => RedisTypeOK' /\ Learnt' /\ CheckIsRight'
  BY RedisCases, CheckStep DEF RedisTypeOK

\* An empty database, and nobody in IsBanned.
LEMMA RedisInit == Redis!Init => RedisTypeOK /\ Learnt /\ CheckIsRight
  BY DEF Redis!Init, Redis!NoCheck, RedisTypeOK, Stored, Keys, Found, Checking, Learnt,
         CheckIsRight, Expiry

-----------------------------------------------------------------------------
(* Bans in Redis are those of a ban manager *)

\* The bans in force are bans.
LEMMA InForceType == Keys => Redis!InForce \in Redis!Manager!Bans
  BY DEF Keys, Expiry, Redis!InForce, Redis!Terms, Redis!Manager!Bans, Redis!Manager!Until

\* A step that touches one address changes only the bans in force there.
LEMMA OneAddress ==
    ASSUME NEW p \in IPs,
           \A q \in IPs \ {p} : (q \in perm' <=> q \in perm) /\ temp'[q] = temp[q],
           UNCHANGED <<users, nicks>>
    PROVE  /\ Redis!Manager!OnlyAt(p)
           /\ Redis!InForce.ips[p] = Redis!Terms(perm, temp, p)
           /\ Redis!InForce'.ips[p] = Redis!Terms(perm', temp', p)
<1> DEFINE f == [q \in IPs |-> Redis!Terms(perm, temp, q)]
           g == [q \in IPs |-> Redis!Terms(perm', temp', q)]
<1>1. /\ Redis!InForce = [ips |-> f, users |-> users, nicks |-> nicks]
      /\ Redis!InForce' = [ips |-> g, users |-> users', nicks |-> nicks']
  BY DEF Redis!InForce
<1>2. \A q \in IPs \ {p} : f[q] = g[q]
  BY DEF Redis!Terms
<1>3. g = [f EXCEPT ![p] = g[p]]
  BY <1>2
<1>4. f[p] = Redis!Terms(perm, temp, p) /\ g[p] = Redis!Terms(perm', temp', p)
  OBVIOUS
<1> HIDE DEF f, g
<1> QED BY <1>1, <1>3, <1>4 DEF Redis!Manager!OnlyAt

\* What is left of the bans found, there and in the abstract manager.
LEMMA SameStill == Redis!Still = Redis!Manager!Still
  BY DEF Redis!Still, Redis!Manager!Still, Redis!InForce

\* A command that was carried out is a call that succeeds, or one whose answer
\* is lost.
LEMMA DoneIsCall ==
    ASSUME NEW c \in Redis!Manager!Calls, Redis!Done(c), Redis!Manager!Effect(c),
           before' = Redis!Still, UNCHANGED <<time, lifting>>
    PROVE  Redis!Manager!Next
<1>1. PICK ok \in BOOLEAN : reply' = {[call |-> c, ok |-> ok]}
  BY DEF Redis!Done, Redis!Returns
<1>2. before' = Redis!Manager!Still
  BY SameStill
<1>3. [call |-> c, ok |-> ok].call = c /\ [call |-> c, ok |-> ok] \in reply'
  BY <1>1
<1>4. CASE ok
  <2>1. Redis!Manager!Succeed(c)
    BY <1>1, <1>2, <1>4 DEF Redis!Manager!Succeed, Redis!Manager!Returns
  <2> QED BY <1>3, <2>1 DEF Redis!Manager!Next
<1>5. CASE ~ok
  <2>1. Redis!Manager!Doubt(c)
    BY <1>1, <1>2, <1>5 DEF Redis!Manager!Doubt, Redis!Manager!Returns
  <2> QED BY <1>3, <2>1 DEF Redis!Manager!Next
<1> QED BY <1>4, <1>5

\* The calls are calls of the abstract manager.
LEMMA CallTypes ==
    /\ \A p \in IPs : /\ \A t \in {Perm} \cup Nat : Redis!Call("Add", p, t) \in Redis!Manager!Calls
                      /\ Redis!Call("UnbanIP", p, Perm) \in Redis!Manager!Calls
    /\ \A u \in Users : /\ Redis!Call("BanUsername", u, Perm) \in Redis!Manager!Calls
                        /\ Redis!Call("UnbanUsername", u, Perm) \in Redis!Manager!Calls
    /\ \A n \in Nicks : /\ Redis!Call("BanNickname", n, Perm) \in Redis!Manager!Calls
                        /\ Redis!Call("UnbanNickname", n, Perm) \in Redis!Manager!Calls
  BY DEF Redis!Call, Redis!Manager!Calls, Redis!Manager!Until

\* Bans of addresses are made by calls that ask for it.
LEMMA AddRefines ==
    ASSUME Stored, NEW p \in IPs, NEW t \in {Perm} \cup Nat, Redis!Add(p, t)
    PROVE  Redis!Manager!Next
<1> DEFINE c == Redis!Call("Add", p, t)
<1>0. c \in Redis!Manager!Calls /\ c.op = "Add" /\ c.on = p /\ c.until = t
  BY CallTypes DEF Redis!Call
<1>1. CASE t = Perm /\ Redis!Permanent(p)
  <2>1. /\ Redis!Terms(perm', temp', p) = Redis!Terms(perm, temp, p) \cup {Perm}
        /\ \A q \in IPs \ {p} : (q \in perm' <=> q \in perm) /\ temp'[q] = temp[q]
        /\ UNCHANGED <<users, nicks, time, lifting>>
        /\ before' = Redis!Still /\ Redis!Done(c)
    BY <1>1 DEF Redis!Permanent, Redis!Terms
  <2>2. Redis!Manager!Ban(p, t)
    BY <1>1, <2>1, OneAddress DEF Redis!Manager!Ban
  <2>3. Redis!Manager!Effect(c)
    BY <1>0, <2>2 DEF Redis!Manager!Effect
  <2> HIDE DEF c
  <2> QED BY <1>0, <2>1, <2>3, DoneIsCall
<1>2. CASE Redis!Temporary(p, t) /\ t # Perm
  <2>1. /\ t \in Redis!Terms(perm', temp', p)
        /\ Redis!Terms(perm', temp', p) \subseteq Redis!Terms(perm, temp, p) \cup {t}
    BY <1>2 DEF Redis!Temporary, Redis!Terms, Stored, Keys
  <2>2. /\ \A q \in IPs \ {p} : (q \in perm' <=> q \in perm) /\ temp'[q] = temp[q]
        /\ UNCHANGED <<users, nicks, time, lifting>>
        /\ before' = Redis!Still /\ Redis!Done(c)
    BY <1>2 DEF Redis!Temporary, Stored, Keys
  <2>3. Redis!Manager!Ban(p, t)
    BY <2>1, <2>2, OneAddress DEF Redis!Manager!Ban
  <2>4. Redis!Manager!Effect(c)
    BY <1>0, <2>3 DEF Redis!Manager!Effect
  <2> HIDE DEF c
  <2> QED BY <1>0, <2>2, <2>4, DoneIsCall
<1>3. CASE Redis!Past(p, t) /\ t # Perm
  <2>1. /\ t <= time /\ reply' = {[call |-> c, ok |-> TRUE]}
        /\ UNCHANGED <<perm, temp, users, nicks, time, lifting, before>>
    BY <1>3 DEF Redis!Past, Redis!Returns
  <2>2. UNCHANGED Redis!InForce
    BY <2>1 DEF Redis!InForce
  <2>3. Redis!Manager!OnlyAt(p)
    BY <2>1, OneAddress
  <2>4. Redis!Manager!Effect(c)
    BY <1>0, <1>3, <2>1, <2>2, <2>3 DEF Redis!Manager!Effect, Redis!Manager!Ban
  <2>5. Redis!Still = before
    BY <2>1 DEF Redis!Still, Stored, Found
  <2>6. Redis!Manager!Succeed(c)
    BY <1>0, <2>1, <2>4, <2>5, SameStill DEF Redis!Manager!Succeed, Redis!Manager!Returns
  <2>7. [call |-> c, ok |-> TRUE].call = c
    OBVIOUS
  <2> HIDE DEF c
  <2> QED BY <2>1, <2>6, <2>7 DEF Redis!Manager!Next
<1> QED BY <1>1, <1>2, <1>3 DEF Redis!Add

\* The first command of UnbanIP lifts the permanent ban and begins the call.
LEMMA UnbanRefines ==
    ASSUME Stored, NEW p \in IPs, Redis!UnbanIP(p)
    PROVE  Redis!Manager!Next
<1>1. /\ Redis!Terms(perm', temp', p) \subseteq Redis!Terms(perm, temp, p)
      /\ \A q \in IPs \ {p} : (q \in perm' <=> q \in perm) /\ temp'[q] = temp[q]
      /\ UNCHANGED <<users, nicks, time>>
      /\ p \notin lifting /\ lifting' = lifting \cup {p} /\ reply' = {}
      /\ before' = [Redis!Still EXCEPT ![p] = Redis!Terms(perm', temp', p)]
  BY DEF Redis!UnbanIP, Redis!Terms
<1>2. Redis!Manager!Ease(p) /\ Redis!InForce'.ips[p] = Redis!Terms(perm', temp', p)
  BY <1>1, OneAddress DEF Redis!Manager!Ease
<1>3. before' = [Redis!Manager!Still EXCEPT ![p] = Redis!InForce'.ips[p]]
  BY <1>1, <1>2, SameStill
<1>4. Redis!Manager!BeginUnban(p)
  BY <1>1, <1>2, <1>3 DEF Redis!Manager!BeginUnban
<1> QED BY <1>4 DEF Redis!Manager!Next

\* Its second command lifts the temporary ban; without it the call fails.
LEMMA UnbanEndRefines ==
    ASSUME Stored, NEW p \in IPs, Redis!UnbanEnds(p)
    PROVE  Redis!Manager!Next
<1> DEFINE c == Redis!Call("UnbanIP", p, Perm)
<1>0. c \in Redis!Manager!Calls /\ c.op = "UnbanIP" /\ c.on = p
  BY CallTypes DEF Redis!Call
<1>1. /\ \A q \in IPs \ {p} : (q \in perm' <=> q \in perm) /\ temp'[q] = temp[q]
      /\ UNCHANGED <<perm, users, nicks, time>>
      /\ p \in lifting /\ lifting' = lifting \ {p}
      /\ before' = [Redis!Still EXCEPT ![p] = {}]
      /\ temp'[p] \in {None, temp[p]}
  BY DEF Redis!UnbanEnds, Stored, Keys
<1>2. PICK ok \in BOOLEAN : reply' = {[call |-> c, ok |-> ok]} /\ (ok => temp'[p] = None)
  BY DEF Redis!UnbanEnds, Redis!Done, Redis!Returns, Stored, Keys
<1>3. Redis!Terms(perm', temp', p) \subseteq Redis!Terms(perm, temp, p)
  BY <1>1 DEF Redis!Terms
<1>4. Redis!Manager!Ease(p) /\ Redis!InForce'.ips[p] = Redis!Terms(perm', temp', p)
  BY <1>1, <1>3, OneAddress DEF Redis!Manager!Ease
<1>5. ok => Redis!Terms(perm', temp', p) \cap before[p] = {}
  BY <1>1, <1>2 DEF Redis!Terms, Stored, Found
<1>6. before' = [Redis!Manager!Still EXCEPT ![p] = {}]
  BY <1>1, SameStill
<1>7. Redis!Manager!EndUnban(c, ok)
  BY <1>0, <1>1, <1>2, <1>4, <1>5, <1>6 DEF Redis!Manager!EndUnban, Redis!Manager!Returns
<1>8. [call |-> c, ok |-> ok].call = c
  OBVIOUS
<1> HIDE DEF c
<1> QED BY <1>2, <1>7, <1>8 DEF Redis!Manager!Next

\* A name is banned, or no longer, by a call that asks for it.
LEMMA NameRefines ==
    ASSUME Stored,
           \/ \E u \in Users : Redis!BanUsername(u) \/ Redis!UnbanUsername(u)
           \/ \E n \in Nicks : Redis!BanNickname(n) \/ Redis!UnbanNickname(n)
    PROVE  Redis!Manager!Next
<1> DEFINE f == [q \in IPs |-> Redis!Terms(perm, temp, q)]
<1>1. ASSUME NEW c \in Redis!Manager!Calls, NEW us, NEW ns, Redis!ChangeNames(c, us, ns),
             \/ c.op = "BanUsername" /\ us = users \cup {c.on} /\ ns = nicks
             \/ c.op = "UnbanUsername" /\ us = users \ {c.on} /\ ns = nicks
             \/ c.op = "BanNickname" /\ ns = nicks \cup {c.on} /\ us = users
             \/ c.op = "UnbanNickname" /\ ns = nicks \ {c.on} /\ us = users
      PROVE  Redis!Manager!Next
  <2>1. /\ users' = us /\ nicks' = ns /\ Redis!Done(c)
        /\ UNCHANGED <<perm, temp, time, lifting, before>>
    BY <1>1 DEF Redis!ChangeNames
  <2>2. /\ Redis!InForce = [ips |-> f, users |-> users, nicks |-> nicks]
        /\ Redis!InForce' = [ips |-> f, users |-> us, nicks |-> ns]
    BY <2>1 DEF Redis!InForce
  <2>3. Redis!Still = before
    BY <2>1 DEF Redis!Still, Stored, Found
  <2> HIDE DEF f
  <2>4. /\ c.op = "BanUsername" => Redis!InForce' = [Redis!InForce EXCEPT !.users = @ \cup {c.on}]
        /\ c.op = "UnbanUsername" => Redis!InForce' = [Redis!InForce EXCEPT !.users = @ \ {c.on}]
        /\ c.op = "BanNickname" => Redis!InForce' = [Redis!InForce EXCEPT !.nicks = @ \cup {c.on}]
        /\ c.op = "UnbanNickname" => Redis!InForce' = [Redis!InForce EXCEPT !.nicks = @ \ {c.on}]
    <3>1. CASE c.op = "BanUsername"
      BY <1>1, <2>2, <3>1
    <3>2. CASE c.op = "UnbanUsername"
      BY <1>1, <2>2, <3>2
    <3>3. CASE c.op = "BanNickname"
      BY <1>1, <2>2, <3>3
    <3>4. CASE c.op = "UnbanNickname"
      BY <1>1, <2>2, <3>4
    <3> QED BY <1>1, <3>1, <3>2, <3>3, <3>4
  <2>5. c.op \in {"BanUsername", "UnbanUsername", "BanNickname", "UnbanNickname"}
    BY <1>1
  <2>6. Redis!Manager!Effect(c)
    BY <2>4, <2>5 DEF Redis!Manager!Effect
  <2> QED BY <1>1, <2>1, <2>3, <2>6, DoneIsCall
<1>2. ASSUME NEW u \in Users, Redis!BanUsername(u) \/ Redis!UnbanUsername(u)
      PROVE  Redis!Manager!Next
  <2>1. CASE Redis!BanUsername(u)
    BY <1>1, <2>1, CallTypes DEF Redis!BanUsername, Redis!Call
  <2>2. CASE Redis!UnbanUsername(u)
    BY <1>1, <2>2, CallTypes DEF Redis!UnbanUsername, Redis!Call
  <2> QED BY <1>2, <2>1, <2>2
<1>3. ASSUME NEW n \in Nicks, Redis!BanNickname(n) \/ Redis!UnbanNickname(n)
      PROVE  Redis!Manager!Next
  <2>1. CASE Redis!BanNickname(n)
    BY <1>1, <2>1, CallTypes DEF Redis!BanNickname, Redis!Call
  <2>2. CASE Redis!UnbanNickname(n)
    BY <1>1, <2>2, CallTypes DEF Redis!UnbanNickname, Redis!Call
  <2> QED BY <1>3, <2>1, <2>2
<1> QED BY <1>2, <1>3

\* A key goes no earlier than its time comes.
LEMMA TickRefines ==
    ASSUME Stored, Redis!Tick
    PROVE  Redis!Manager!Next
<1> DEFINE f == [q \in IPs |-> Redis!Terms(perm, temp, q)]
           g == [q \in IPs |-> Redis!Terms(perm', temp', q)]
<1>1. /\ UNCHANGED <<perm, users, nicks, lifting>> /\ reply' = {}
      /\ time \in Nat /\ time' = time + 1 /\ before' = Redis!Still
      /\ temp \in [IPs -> Expiry]
      /\ temp' = [q \in IPs |-> IF temp[q] = time + 1 THEN None ELSE temp[q]]
  BY DEF Redis!Tick, Stored, Keys
<1>2. /\ Redis!InForce = [ips |-> f, users |-> users, nicks |-> nicks]
      /\ Redis!InForce' = [ips |-> g, users |-> users, nicks |-> nicks]
  BY <1>1 DEF Redis!InForce
<1>3. ASSUME NEW p \in IPs
      PROVE  /\ g[p] \subseteq f[p]
             /\ \A until \in f[p] \ g[p] : until # Perm /\ until <= time'
  <2>1. \A until \in f[p] \ g[p] : until = time + 1
    BY <1>1 DEF Redis!Terms
  <2>2. time + 1 # Perm /\ time + 1 <= time'
    BY <1>1
  <2>3. g[p] \subseteq f[p]
    BY <1>1 DEF Redis!Terms
  <2> QED BY <2>1, <2>2, <2>3
<1>4. g = [q \in IPs |-> g[q]]
  OBVIOUS
<1> HIDE DEF f, g
<1>5. Redis!InForce' = [Redis!InForce EXCEPT !.ips = [q \in IPs |-> Redis!InForce'.ips[q]]]
  BY <1>2, <1>4
<1>6. Redis!Manager!Tick
  BY <1>1, <1>2, <1>3, <1>5, SameStill DEF Redis!Manager!Tick
<1> QED BY <1>6 DEF Redis!Manager!Next

\* Every step is one of the abstract manager, or changes no ban.
LEMMA RedisRefines ==
    ASSUME RedisTypeOK, [Redis!Next]_(Redis!vars)
    PROVE  [Redis!Manager!Next]_(Redis!Manager!vars)
<1>0. Stored /\ time \in Nat /\ time + BanDuration \in Nat
  BY DEF RedisTypeOK, Stored, Keys
<1>1. CASE UNCHANGED <<perm, temp, users, nicks, time, lifting, before, reply>>
  BY <1>1 DEF Redis!Manager!vars, Redis!InForce
<1>2. ASSUME NEW p \in IPs, Redis!AskIfBanned(p)
      PROVE  UNCHANGED <<perm, temp, users, nicks, time, lifting, before, reply>>
  BY <1>2 DEF Redis!AskIfBanned
<1>3. CASE Redis!IsMember \/ Redis!Exists \/ Redis!TTL \/ Redis!CommandFails \/ Redis!Answered
  BY <1>1, <1>3 DEF Redis!IsMember, Redis!Exists, Redis!TTL, Redis!CommandFails, Redis!Answered, Redis!Goto
<1>4. CASE UNCHANGED Redis!vars
  BY <1>1, <1>4 DEF Redis!vars
<1> QED
  BY <1>0, <1>1, <1>2, <1>3, <1>4, AddRefines, UnbanRefines, UnbanEndRefines, NameRefines,
     TickRefines DEF Redis!Next

\* A check in Redis is right, on every behaviour of that ban manager.
LEMMA RedisInvariance == Redis!Spec => [](RedisTypeOK /\ Learnt /\ CheckIsRight)
  BY RedisInit, RedisStep, PTL DEF Redis!Spec

\* The ban manager in Redis implements the abstract one.
LEMMA RedisRefinement == Redis!Spec => RedisImplementsBanMgr
<1>1. Redis!Init => Redis!Manager!Init
  <2>1. Redis!Init => Keys
    BY RedisInit DEF RedisTypeOK, Stored
  <2> QED BY <2>1, InForceType DEF Redis!Init, Redis!Manager!Init
<1>2. RedisTypeOK /\ Learnt /\ CheckIsRight /\ [Redis!Next]_(Redis!vars)
        => [Redis!Manager!Next]_(Redis!Manager!vars)
  BY RedisRefines
<1> QED
  BY <1>1, <1>2, RedisInvariance, PTL DEF Redis!Spec, RedisImplementsBanMgr, Redis!Manager!Spec

-----------------------------------------------------------------------------
(* The server, whichever ban manager it was started with *)

\* Whichever is chosen, each of them runs as specified or not at all.
LEMMA SystemParts == SystemSpec => Spec /\ Redis!Spec
<1>1. SystemInit => Init /\ Redis!Init
  BY DEF SystemInit
<1>2. [SystemNext]_<<vars, redis, backend>> => [Next]_vars /\ [Redis!Next]_(Redis!vars)
  BY DEF SystemNext, redis, Redis!vars
<1> QED BY <1>1, <1>2, PTL DEF SystemSpec, Spec, Redis!Spec

\* On any server, the ban file that can be trusted holds the bans in memory
\* (BanFile in internal/mobius/ban.go).
THEOREM FileIsCurrent == SystemSpec => []TrustedFileIsCurrent
  BY SystemParts, TrustedFile, PTL

\* An address banned all through IsBanned is refused, and one that is refused
\* was banned at some time or a command failed (RedisBanMgr.IsBanned).
THEOREM ChecksAreRight == SystemSpec => []CheckIsRight
  BY SystemParts, RedisInvariance, PTL

\* On any server the ban file keeps the promise of a ban manager on a local
\* store: a call that returns no error had its effect, and one that returns an
\* error had none.
THEOREM FileKeepsPromise == SystemSpec => ImplementsBanMgr
  BY SystemParts, Refinement, PTL

\* On any server the bans in Redis keep the promise of a ban manager on a remote
\* store: a call that returns no error had its effect, UnbanIP in two commands
\* too, and one that returns an error did no more than it was asked for.
THEOREM RedisKeepsPromise == SystemSpec => RedisImplementsBanMgr
  BY SystemParts, RedisRefinement, PTL

=============================================================================
