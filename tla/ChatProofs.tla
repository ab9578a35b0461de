----------------------------- MODULE ChatProofs -----------------------------
(***************************************************************************)
(* Proofs about Chat: its state has its types, a text of a private chat    *)
(* reaches only sessions that were given its number, and once nobody is at *)
(* work on a chat its members have the present subject, of any two members *)
(* one knows the other, and nobody counts as a member one that has left.   *)
(*                                                                         *)
(* The three last ones say nothing of the states between two calls of the  *)
(* chat manager.  The invariant adds who still owes a message there.       *)
(***************************************************************************)
EXTENDS Chat, TLAPS

\* Nobody has been given the number of chat k and no message carries it.
Secret(k) ==
    /\ \A c \in Conns : k \notin known[c]
    /\ \A m \in net : m.chat # k

\* Who knows the number of a chat, and that its texts go only there.  Whoever
\* creates a chat and finds nobody to invite is left in it without its number.
Numbers ==
    /\ \A k \in ChatIDs : \A c \in member[k] : k \in known[c] \/ Secret(k)
    /\ \A k \in ChatIDs \ created : Secret(k) /\ member[k] = {}
    /\ \A m \in net : m.kind = "invite" => m.chat # NoChat
    /\ \A m \in net : m.kind = "text" /\ m.chat \in ChatIDs => m.chat \in known[m.to]

\* What the handler of session c has done by the time it is between two calls.
Placed(c) ==
    /\ pc[c].op = "idle" => pc[c] = Idle
    /\ pc[c].op # "idle" => pc[c].chat \in created
    /\ pc[c].op \notin {"idle", "invite"} => pc[c].chat \in known[c]
    /\ pc[c].op = "invite" => Secret(pc[c].chat) /\ member[pc[c].chat] = {c}
    /\ pc[c].op \in {"subject", "list"} => c \in member[pc[c].chat]
    /\ pc[c].op = "leave" => c \notin member[pc[c].chat]
    /\ pc[c].op = "announce" => pc[c].arg \in Subjects

AtWork == \A c \in Conns : Placed(c)

\* Session c has been sent the present subject of chat k, or will be, by its
\* own join or by whoever set the subject.
Informed(k, c) ==
    \/ subject[k] \in told[k][c]
    \/ pc[c].op = "subject" /\ pc[c].chat = k
    \/ \E d \in Conns : pc[d].op = "announce" /\ pc[d].chat = k /\ pc[d].arg = subject[k]

Told == \A k \in ChatIDs : \A c \in member[k] : Informed(k, c)

\* Session c has not listed the members of chat k yet.
Arriving(c, k) == pc[c].chat = k /\ pc[c].op \in {"join", "subject", "list"}

\* One of a and b knows the other or will list the members.
Met(k, a, b) ==
    a = b \/ a \in knows[k][b] \/ b \in knows[k][a] \/ Arriving(a, k) \/ Arriving(b, k)

Seen == \A k \in ChatIDs : \A a, b \in member[k] : Met(k, a, b)

\* Session x has told of its joining before it joins, or has left and will
\* tell of it.
Passing(x, k) == pc[x].chat = k /\ pc[x].op \in {"join", "leave"}

\* Only members know of somebody, and only of members or of sessions on
\* their way.
Forgotten ==
    \A k \in ChatIDs, c \in Conns :
        /\ c \notin member[k] => knows[k][c] = {}
        /\ \A x \in knows[k][c] : x \in member[k] \/ Passing(x, k)

Inv ==
    /\ TypeOK
    /\ Numbers
    /\ PrivateStaysPrivate
    /\ AtWork
    /\ Told
    /\ Seen
    /\ Forgotten

-----------------------------------------------------------------------------
(* What the steps change *)

\* f is changed at one chat only.
Sets(f, k, v) == f'[k] = v /\ \A j \in ChatIDs \ {k} : f'[j] = f[j]

\* f is changed at one session of one chat only.
SetsAt(f, k, c, v) ==
    /\ f'[k][c] = v
    /\ \A j \in ChatIDs, d \in Conns : j # k \/ d # c => f'[j][d] = f[j][d]

\* The handler of session c is at o of chat k next; others are where they were.
Works(c, o, k) ==
    /\ pc'[c].op = o
    /\ pc'[c].chat = k
    /\ \A d \in Conns \ {c} : pc'[d] = pc[d]

\* The handler of session c is done.
Rests(c) ==
    /\ pc'[c] = Idle
    /\ pc'[c].op = "idle"
    /\ pc'[c].chat = NoChat
    /\ \A d \in Conns \ {c} : pc'[d] = pc[d]

Nothing == UNCHANGED <<store, pc, known, net, heard, ghosts>>

Delivered(m) ==
    /\ m \in net
    /\ net' = net \ {m}
    /\ \/ m.kind = "invite" /\ known' = [known EXCEPT ![m.to] = @ \cup {m.chat}] /\ UNCHANGED heard
       \/ m.kind = "text" /\ heard' = [heard EXCEPT ![m.to] = @ \cup {m.chat}] /\ UNCHANGED known
       \/ UNCHANGED <<known, heard>>
    /\ UNCHANGED <<store, pc, ghosts>>

Mailed(c, ms) ==
    /\ net' = net \cup ms
    /\ \A m \in ms :
          \/ m.chat = NoChat /\ m.kind = "text"
          \/ /\ m.chat \in known[c] \cap created
             /\ m.kind = "text" => m.to \in member[m.chat]
    /\ UNCHANGED <<store, pc, known, heard, ghosts>>

Opened(c, k) ==
    /\ pc[c].op = "idle"
    /\ k \notin created
    /\ created' = created \cup {k}
    /\ Sets(member, k, {c})
    /\ Sets(subject, k, NoSubject)
    /\ SetsAt(told, k, c, {NoSubject})
    /\ Works(c, "invite", k)
    /\ UNCHANGED <<known, net, heard, knows>>

GivenUp(c) ==
    /\ pc[c].op = "invite"
    /\ Rests(c)
    /\ UNCHANGED <<store, known, net, heard, ghosts>>

Invited(c, k) ==
    /\ pc[c].op = "invite"
    /\ pc[c].chat = k
    /\ \A m \in net' : m \in net \/ (m.kind = "invite" /\ m.chat = k)
    /\ net \subseteq net'
    /\ known' = [known EXCEPT ![c] = @ \cup {k}]
    /\ Rests(c)
    /\ UNCHANGED <<store, heard, ghosts>>

Joining(c, k) ==
    /\ pc[c].op = "idle"
    /\ k \in known[c] \cap created
    /\ \A d \in Conns : knows'[k][d] = IF d \in member[k] THEN knows[k][d] \cup {c} ELSE knows[k][d]
    /\ \A j \in ChatIDs \ {k} : knows'[j] = knows[j]
    /\ Works(c, "join", k)
    /\ UNCHANGED <<store, known, net, heard, told>>

Joined(c, k) ==
    /\ pc[c].op = "join"
    /\ pc[c].chat = k
    /\ Sets(member, k, member[k] \cup {c})
    /\ SetsAt(told, k, c, {})
    /\ Works(c, "subject", k)
    /\ UNCHANGED <<created, subject, known, net, heard, knows>>

Learnt(c, k) ==
    /\ pc[c].op = "subject"
    /\ pc[c].chat = k
    /\ SetsAt(told, k, c, told[k][c] \cup {subject[k]})
    /\ Works(c, "list", k)
    /\ UNCHANGED <<store, known, net, heard, knows>>

Listed(c, k) ==
    /\ pc[c].op = "list"
    /\ pc[c].chat = k
    /\ SetsAt(knows, k, c, member[k])
    /\ Rests(c)
    /\ UNCHANGED <<store, known, net, heard, told>>

Left(c, k) ==
    /\ pc[c].op = "idle"
    /\ k \in known[c] \cap created
    /\ Sets(member, k, member[k] \ {c})
    /\ SetsAt(knows, k, c, {})
    /\ SetsAt(told, k, c, {})
    /\ Works(c, "leave", k)
    /\ UNCHANGED <<created, subject, known, net, heard>>

ToldLeft(c, k) ==
    /\ pc[c].op = "leave"
    /\ pc[c].chat = k
    /\ \A d \in Conns : knows'[k][d] = IF d \in member[k] THEN knows[k][d] \ {c} ELSE knows[k][d]
    /\ \A j \in ChatIDs \ {k} : knows'[j] = knows[j]
    /\ Rests(c)
    /\ UNCHANGED <<store, known, net, heard, told>>

Changed(c, k, s) ==
    /\ pc[c].op = "idle"
    /\ k \in known[c] \cap created
    /\ s \in Subjects
    /\ Sets(subject, k, s)
    /\ Works(c, "announce", k)
    /\ pc'[c].arg = s
    /\ UNCHANGED <<created, member, known, net, heard, ghosts>>

Announced(c, k) ==
    /\ pc[c].op = "announce"
    /\ pc[c].chat = k
    /\ \A d \in Conns : told'[k][d] = IF d \in member[k] THEN told[k][d] \cup {pc[c].arg} ELSE told[k][d]
    /\ \A j \in ChatIDs \ {k} : told'[j] = told[j]
    /\ Rests(c)
    /\ UNCHANGED <<store, known, net, heard, knows>>

-----------------------------------------------------------------------------
(* Each step of the specification has one of these effects *)

\* A step of session c that is about chat k.
About(c, k) ==
    \/ Opened(c, k)
    \/ Invited(c, k)
    \/ Joining(c, k)
    \/ Joined(c, k)
    \/ Learnt(c, k)
    \/ Listed(c, k)
    \/ Left(c, k)
    \/ ToldLeft(c, k)
    \/ \E s \in Subjects : Changed(c, k, s)
    \/ Announced(c, k)

\* What can happen in a step.
Effect ==
    \/ Nothing
    \/ \E m \in net : Delivered(m)
    \/ \E c \in Conns : \E ms \in SUBSET net' : Mailed(c, ms)
    \/ \E c \in Conns : GivenUp(c)
    \/ \E c \in Conns, k \in ChatIDs : About(c, k)

\* Every step of the sessions, the handlers and the outbox keeps the types and
\* has one of the effects above.
LEMMA StepCases ==
    ASSUME TypeOK, Numbers, AtWork, [Next]_vars
    PROVE  TypeOK' /\ Effect
<1> USE DEF TypeOK
<1>0. /\ Idle \in [op : {"idle"}, chat : {NoChat}, arg : {NoSubject}]
      /\ \A k \in ChatIDs : At("join", k).op = "join" /\ At("join", k).chat = k
      /\ \A k \in ChatIDs : At("subject", k).op = "subject" /\ At("subject", k).chat = k
      /\ \A k \in ChatIDs : At("list", k).op = "list" /\ At("list", k).chat = k
      /\ \A k \in ChatIDs : At("leave", k).op = "leave" /\ At("leave", k).chat = k
      /\ \A k \in ChatIDs, o \in {"join", "subject", "list", "leave"} :
             At(o, k) \in [op : {"join", "subject", "list", "leave"}, chat : ChatIDs, arg : {NoSubject}]
  BY DEF Idle, At
<1>1. ASSUME UNCHANGED <<store, known, net, heard, ghosts>>, NEW c \in Conns, Ended(c),
             pc[c] = Idle
      PROVE  (requests' \in 0..MaxRequests => TypeOK') /\ Nothing
  <2>1. pc' = pc
    BY <1>1 DEF Ended
  <2> QED BY <1>1, <2>1 DEF Ended, Nothing, store, ghosts
<1>2. CASE UNCHANGED vars
  BY <1>2 DEF vars, Effect, Nothing, store, ghosts
<1>3. CASE Deliver /\ UNCHANGED requests
  <2>1. PICK m \in net :
           /\ net' = net \ {m}
           /\ known' = IF m.to \in clients /\ m.kind = "invite"
                       THEN [known EXCEPT ![m.to] = @ \cup {m.chat}] ELSE known
           /\ heard' = IF m.to \in clients /\ m.kind = "text"
                       THEN [heard EXCEPT ![m.to] = @ \cup {m.chat}] ELSE heard
           /\ UNCHANGED <<session, clients, store, pc, ghosts>>
    BY <1>3 DEF Deliver
  <2>2. m.kind = "invite" => m.chat \in ChatIDs
    BY DEF Numbers
  <2>3. TypeOK'
    BY <1>3, <2>1, <2>2 DEF store, ghosts
  <2>4. Delivered(m)
    <3>1. CASE m.to \in clients /\ m.kind = "invite"
      BY <2>1, <3>1 DEF Delivered, store, ghosts
    <3>2. CASE m.to \in clients /\ m.kind = "text"
      BY <2>1, <3>2 DEF Delivered, store, ghosts
    <3>3. CASE ~(m.to \in clients /\ m.kind = "invite") /\ ~(m.to \in clients /\ m.kind = "text")
      BY <2>1, <3>3 DEF Delivered, store, ghosts
    <3> QED BY <3>1, <3>2, <3>3
  <2> QED BY <2>3, <2>4 DEF Effect
<1> SUFFICES ASSUME NEW c \in Conns,
                    \/ Step(c) /\ UNCHANGED requests
                    \/ NoSuchChat(c)
                    \/ HandleChatSend(c, NoChat)
                    \/ \E k \in ChatIDs :
                        \/ HandleChatSend(c, k)
                        \/ HandleRejectChatInvite(c, k)
                        \/ HandleJoinChat(c, k)
                        \/ HandleLeaveChat(c, k)
                        \/ \E t \in Conns : HandleInviteNewChat(c, k, t)
                        \/ \E t \in Conns : HandleInviteToChat(c, k, t)
                        \/ \E s \in Subjects : HandleSetChatSubject(c, k, s)
             PROVE  TypeOK' /\ Effect
  BY <1>2, <1>3 DEF Next
<1>r. ASSUME Request(c) PROVE requests' \in 0..MaxRequests /\ pc[c] = Idle /\ pc[c].op = "idle"
  BY <1>0, <1>r, ChatAssumption DEF Request, Running
<1>k. pc[c].op # "idle" => pc[c].chat \in ChatIDs
  BY DEF AtWork, Placed
<1>4. CASE Leaves(c) /\ UNCHANGED requests
  BY <1>1, <1>4 DEF Leaves, Running, Effect
<1>5. CASE Disconnect(c) /\ UNCHANGED requests
  BY <1>5 DEF Disconnect, Effect, Nothing, store, ghosts
<1>6. CASE NoSuchChat(c)
  BY <1>1, <1>6, <1>r DEF NoSuchChat, Panics, Effect
<1>7. CASE Invite(c) /\ UNCHANGED requests
  <2>1. CASE pc[c].arg \notin clients /\ Panics(c)
    <3>1. GivenUp(c)
      BY <1>0, <1>7, <2>1 DEF Invite, Panics, Ended, GivenUp, Rests, store, ghosts
    <3>2. TypeOK'
      BY <1>0, <1>7, <2>1 DEF Invite, Panics, Ended, store, ghosts
    <3> QED BY <3>1, <3>2 DEF Effect
  <2>2. CASE pc[c].arg \in clients
    <3> DEFINE t == pc[c].arg
               k == pc[c].chat
    <3>1. /\ pc[c].op = "invite"
          /\ t \in clients
          /\ net' = IF t \in Refusers THEN net ELSE net \cup {Mail(t, "invite", k)}
          /\ known' = [known EXCEPT ![c] = @ \cup {k}]
          /\ Goto(c, Idle)
          /\ UNCHANGED <<store, heard, ghosts>>
      BY <1>7, <2>2 DEF Invite
    <3>2. k \in ChatIDs
      BY <1>k, <3>1
    <3>3. /\ Mail(t, "invite", k) \in [to : Conns, kind : {"invite", "text"}, chat : ChatIDs \cup {NoChat}]
          /\ Mail(t, "invite", k).kind = "invite"
          /\ Mail(t, "invite", k).chat = k
      BY <3>1, <3>2 DEF Mail
    <3>4. Invited(c, k)
      BY <1>0, <3>1, <3>2, <3>3 DEF Invited, Goto, Rests, store, ghosts
    <3>5. TypeOK'
      BY <1>0, <1>7, <3>1, <3>2, <3>3 DEF Goto, store, ghosts
    <3> QED BY <3>2, <3>4, <3>5 DEF Effect, About
  <2> QED BY <1>7, <2>1, <2>2 DEF Invite
<1>8. CASE JoinStep(c) /\ UNCHANGED requests
  <2>0. PICK k \in ChatIDs : k = pc[c].chat
    BY <1>8, <1>k DEF JoinStep
  <2>1. CASE pc[c].op = "join"
    <3>0. /\ member' = [member EXCEPT ![k] = @ \cup {c}]
          /\ told' = [told EXCEPT ![k][c] = {}]
          /\ pc' = [pc EXCEPT ![c] = At("subject", k)]
          /\ UNCHANGED <<session, clients, created, subject, known, net, heard, knows>>
      BY <1>8, <2>0, <2>1 DEF JoinStep, Join, Goto
    <3>1. Joined(c, k)
      BY <1>0, <2>0, <2>1, <3>0 DEF Joined, Sets, SetsAt, Works
    <3>2. TypeOK'
      BY <1>0, <1>8, <3>0
    <3> QED BY <3>1, <3>2 DEF Effect, About
  <2>2. CASE pc[c].op = "subject"
    <3>0. /\ told' = [told EXCEPT ![k][c] = @ \cup {subject[k]}]
          /\ pc' = [pc EXCEPT ![c] = At("list", k)]
          /\ UNCHANGED <<session, clients, created, member, subject, known, net, heard, knows>>
      BY <1>8, <2>0, <2>2 DEF JoinStep, Goto, store
    <3>1. Learnt(c, k)
      BY <1>0, <2>0, <2>2, <3>0 DEF Learnt, SetsAt, Works, store
    <3>2. TypeOK'
      BY <1>0, <1>8, <3>0
    <3> QED BY <3>1, <3>2 DEF Effect, About
  <2> QED BY <1>8, <2>1, <2>2 DEF JoinStep
<1>9. CASE ListMembers(c) /\ UNCHANGED requests
  <2>0. PICK k \in ChatIDs : k = pc[c].chat
    BY <1>9, <1>k DEF ListMembers
  <2>1. /\ pc[c].op = "list"
        /\ knows' = [knows EXCEPT ![k][c] = member[k]]
        /\ pc' = [pc EXCEPT ![c] = Idle]
        /\ UNCHANGED <<session, clients, created, member, subject, known, net, heard, told>>
    BY <1>9, <2>0 DEF ListMembers, Members, Goto, store
  <2>2. Listed(c, k)
    BY <1>0, <2>0, <2>1 DEF Listed, SetsAt, Rests, store
  <2>3. TypeOK'
    BY <1>0, <1>9, <2>1
  <2> QED BY <2>2, <2>3 DEF Effect, About
<1>10. CASE TellLeft(c) /\ UNCHANGED requests
  <2>0. PICK k \in ChatIDs : k = pc[c].chat
    BY <1>10, <1>k DEF TellLeft
  <2>1. /\ pc[c].op = "leave"
        /\ knows' = [knows EXCEPT ![k] =
                         [m \in Conns |-> IF m \in member[k] THEN @[m] \ {c} ELSE @[m]]]
        /\ pc' = [pc EXCEPT ![c] = Idle]
        /\ UNCHANGED <<session, clients, created, member, subject, known, net, heard, told>>
    BY <1>10, <2>0 DEF TellLeft, Members, Goto, store
  <2>2. /\ \A d \in Conns : knows'[k][d] = IF d \in member[k] THEN knows[k][d] \ {c} ELSE knows[k][d]
        /\ \A j \in ChatIDs \ {k} : knows'[j] = knows[j]
    BY <2>1
  <2>3. Rests(c)
    BY <1>0, <2>1 DEF Rests
  <2>4. ToldLeft(c, k)
    BY <2>0, <2>1, <2>2, <2>3 DEF ToldLeft, store
  <2>5. TypeOK'
    BY <1>0, <1>10, <2>1
  <2> QED BY <2>4, <2>5 DEF Effect, About
<1>11. CASE TellSubject(c) /\ UNCHANGED requests
  <2>0. PICK k \in ChatIDs : k = pc[c].chat
    BY <1>11, <1>k DEF TellSubject
  <2>1. /\ pc[c].op = "announce"
        /\ told' = [told EXCEPT ![k] =
                        [m \in Conns |-> @[m] \cup IF m \in member[k] THEN {pc[c].arg} ELSE {}]]
        /\ pc' = [pc EXCEPT ![c] = Idle]
        /\ UNCHANGED <<session, clients, created, member, subject, known, net, heard, knows>>
    BY <1>11, <2>0 DEF TellSubject, Members, Goto, store
  <2>2. pc[c].arg \in Subjects
    BY <2>1 DEF AtWork, Placed
  <2>3. /\ \A d \in Conns :
              told'[k][d] = IF d \in member[k] THEN told[k][d] \cup {pc[c].arg} ELSE told[k][d]
        /\ \A j \in ChatIDs \ {k} : told'[j] = told[j]
    BY <2>1
  <2>4. Rests(c)
    BY <1>0, <2>1 DEF Rests
  <2>5. Announced(c, k)
    BY <2>0, <2>1, <2>3, <2>4 DEF Announced, store
  <2>6. TypeOK'
    BY <1>0, <1>11, <2>1, <2>2
  <2> QED BY <2>5, <2>6 DEF Effect, About
<1>12. ASSUME NEW ms,
              ms \subseteq [to : Conns, kind : {"invite", "text"}, chat : ChatIDs \cup {NoChat}],
              Request(c), net' = net \cup ms,
              UNCHANGED <<session, clients, store, pc, known, heard, ghosts>>,
              \A m \in ms :
                 \/ m.chat = NoChat /\ m.kind = "text"
                 \/ /\ m.chat \in known[c] \cap created
                    /\ m.kind = "text" => m.to \in member[m.chat]
       PROVE  TypeOK' /\ Effect
  <2>1. Mailed(c, ms) /\ ms \in SUBSET net'
    BY <1>12 DEF Mailed, store, ghosts
  <2>2. TypeOK'
    BY <1>12, <1>r DEF store, ghosts
  <2> QED BY <2>1, <2>2 DEF Effect
<1>13. CASE HandleChatSend(c, NoChat)
  <2>1. PICK S \in SUBSET Conns : net' = net \cup {Mail(m, "text", NoChat) : m \in S}
    BY <1>13 DEF HandleChatSend, Text, Members, ChatAssumption
  <2>2. Request(c) /\ UNCHANGED <<session, clients, store, pc, known, heard, ghosts>>
    BY <1>13 DEF HandleChatSend, Text
  <2>3. \A m \in {Mail(m, "text", NoChat) : m \in S} :
           /\ m \in [to : Conns, kind : {"invite", "text"}, chat : ChatIDs \cup {NoChat}]
           /\ m.chat = NoChat /\ m.kind = "text"
    BY DEF Mail
  <2> QED BY <1>12, <2>1, <2>2, <2>3
<1>14. ASSUME NEW k \in ChatIDs, k \in known[c] \cap created, Request(c), Text(c, k)
       PROVE  TypeOK' /\ Effect
  <2> DEFINE ms == {Mail(m, "text", k) : m \in Members(k)}
  <2>1. net' = net \cup ms /\ UNCHANGED <<session, clients, store, pc, known, heard, ghosts>>
    BY <1>14 DEF Text
  <2>2. \A m \in ms :
           /\ m \in [to : Conns, kind : {"invite", "text"}, chat : ChatIDs \cup {NoChat}]
           /\ m.chat = k /\ m.to \in member[k]
    BY DEF Mail, Members
  <2> HIDE DEF ms
  <2> QED BY <1>12, <1>14, <2>1, <2>2
<1>15. ASSUME NEW k \in ChatIDs, HandleChatSend(c, k)
       PROVE  TypeOK' /\ Effect
  BY <1>14, <1>15, ChatAssumption DEF HandleChatSend
<1>16. ASSUME NEW k \in ChatIDs, HandleRejectChatInvite(c, k)
       PROVE  TypeOK' /\ Effect
  BY <1>14, <1>16 DEF HandleRejectChatInvite
<1>17. ASSUME NEW k \in ChatIDs, NEW t \in Conns, HandleInviteToChat(c, k, t)
       PROVE  TypeOK' /\ Effect
  <2> DEFINE ms == {Mail(t, "invite", k)}
  <2>1. \A m \in ms :
           /\ m \in [to : Conns, kind : {"invite", "text"}, chat : ChatIDs \cup {NoChat}]
           /\ m.chat = k /\ m.kind = "invite"
    BY DEF Mail
  <2>2. k \in known[c] \cap created
    BY <1>17 DEF HandleInviteToChat, Numbers, Secret
  <2>3. net' = net \cup ms /\ Request(c) /\ UNCHANGED <<session, clients, store, pc, known, heard, ghosts>>
    BY <1>17 DEF HandleInviteToChat
  <2>4. ms \subseteq [to : Conns, kind : {"invite", "text"}, chat : ChatIDs \cup {NoChat}]
    BY <2>1
  <2>5. \A m \in ms : m.chat \in known[c] \cap created /\ (m.kind = "text" => m.to \in member[m.chat])
    BY <2>1, <2>2
  <2> HIDE DEF ms
  <2> QED BY <1>12, <2>3, <2>4, <2>5
<1>18. ASSUME NEW k \in ChatIDs, HandleJoinChat(c, k)
       PROVE  TypeOK' /\ Effect
  <2>1. Joining(c, k)
    BY <1>0, <1>18, <1>r DEF HandleJoinChat, Members, Goto, Joining, Works, store, ghosts
  <2>2. TypeOK'
    BY <1>0, <1>18, <1>r DEF HandleJoinChat, Members, Goto, store, ghosts
  <2> QED BY <2>1, <2>2 DEF Effect, About
<1>19. ASSUME NEW k \in ChatIDs, HandleLeaveChat(c, k)
       PROVE  TypeOK' /\ Effect
  <2>1. Left(c, k)
    BY <1>0, <1>19, <1>r DEF HandleLeaveChat, Leave, Goto, Left, Sets, SetsAt, Works, store, ghosts
  <2>2. TypeOK'
    BY <1>0, <1>19, <1>r DEF HandleLeaveChat, Leave, Goto, store, ghosts
  <2> QED BY <2>1, <2>2 DEF Effect, About
<1>20. ASSUME NEW k \in ChatIDs, NEW t \in Conns, HandleInviteNewChat(c, k, t)
       PROVE  TypeOK' /\ Effect
  <2>1. Opened(c, k)
    BY <1>20, <1>r DEF HandleInviteNewChat, New, Goto, Opened, Sets, SetsAt, Works, store, ghosts
  <2>2. TypeOK'
    BY <1>20, <1>r DEF HandleInviteNewChat, New, Goto, store, ghosts
  <2> QED BY <2>1, <2>2 DEF Effect, About
<1>21. ASSUME NEW k \in ChatIDs, NEW s \in Subjects, HandleSetChatSubject(c, k, s)
       PROVE  TypeOK' /\ Effect
  <2>1. Changed(c, k, s)
    BY <1>21, <1>r DEF HandleSetChatSubject, SetSubject, Goto, Changed, Sets, Works, store, ghosts
  <2>2. TypeOK'
    BY <1>21, <1>r DEF HandleSetChatSubject, SetSubject, Goto, store, ghosts
  <2> QED BY <2>1, <2>2 DEF Effect, About
<1> HIDE DEF TypeOK
<1> QED
  BY <1>4, <1>5, <1>6, <1>7, <1>8, <1>9, <1>10, <1>11, <1>13, <1>15, <1>16, <1>17, <1>18,
     <1>19, <1>20, <1>21 DEF Step

-----------------------------------------------------------------------------
(* The invariant is inductive *)

\* Nobody but the session that opened a chat and has not replied yet makes
\* the number of the chat known, and until then nobody enters or leaves it.
LEMMA SecretStep ==
    ASSUME TypeOK, AtWork, Effect,
           NEW j \in created, Secret(j), ~ \E c \in Conns : Invited(c, j)
    PROVE  Secret(j)' /\ member'[j] = member[j]
<1> USE DEF Secret
<1>0. j \in ChatIDs /\ NoChat \notin ChatIDs
  BY ChatAssumption DEF TypeOK
<1>1. CASE Nothing
  BY <1>1 DEF Nothing, store
<1>2. ASSUME NEW m \in net, Delivered(m)
      PROVE  Secret(j)' /\ member'[j] = member[j]
  <2>1. m.chat # j
    OBVIOUS
  <2>2. known \in [Conns -> SUBSET ChatIDs]
    BY DEF TypeOK
  <2>3. \A c \in Conns : j \notin known'[c]
    BY <1>2, <2>1, <2>2 DEF Delivered
  <2> QED BY <1>2, <2>3 DEF Delivered, store
<1>3. ASSUME NEW c \in Conns, NEW ms \in SUBSET net', Mailed(c, ms)
      PROVE  Secret(j)' /\ member'[j] = member[j]
  BY <1>0, <1>3 DEF Mailed, store
<1>4. ASSUME NEW c \in Conns, GivenUp(c)
      PROVE  Secret(j)' /\ member'[j] = member[j]
  BY <1>4 DEF GivenUp, store
<1>5. ASSUME NEW c \in Conns, NEW k \in ChatIDs, About(c, k)
      PROVE  Secret(j)' /\ member'[j] = member[j]
  <2>1. CASE Opened(c, k)
    BY <1>0, <2>1 DEF Opened, Sets
  <2>2. CASE Invited(c, k)
    <3>1. k # j
      BY <2>2
    <3>2. known \in [Conns -> SUBSET ChatIDs]
      BY DEF TypeOK
    <3>3. \A d \in Conns : j \notin known'[d]
      BY <2>2, <3>1, <3>2 DEF Invited
    <3>4. \A m \in net' : m.chat # j
      BY <2>2, <3>1 DEF Invited
    <3> QED BY <2>2, <3>3, <3>4 DEF Invited, store
  <2>3. CASE Joining(c, k)
    BY <2>3 DEF Joining, store
  <2>4. CASE Joined(c, k)
    <3>1. k \in known[c]
      BY <2>4 DEF Joined, AtWork, Placed
    <3> QED BY <1>0, <2>4, <3>1 DEF Joined, Sets
  <2>5. CASE Learnt(c, k)
    BY <2>5 DEF Learnt, store
  <2>6. CASE Listed(c, k)
    BY <2>6 DEF Listed, store
  <2>7. CASE Left(c, k)
    BY <1>0, <2>7 DEF Left, Sets
  <2>8. CASE ToldLeft(c, k)
    BY <2>8 DEF ToldLeft, store
  <2>9. ASSUME NEW s \in Subjects, Changed(c, k, s)
        PROVE  Secret(j)' /\ member'[j] = member[j]
    BY <2>9 DEF Changed
  <2>10. CASE Announced(c, k)
    BY <2>10 DEF Announced, store
  <2> QED
    BY <1>5, <2>1, <2>2, <2>3, <2>4, <2>5, <2>6, <2>7, <2>8, <2>9, <2>10 DEF About
<1> QED BY <1>1, <1>2, <1>3, <1>4, <1>5 DEF Effect

\* Chats stay, and a number that has been given away stays known.
LEMMA GrowStep ==
    ASSUME TypeOK, Effect
    PROVE  created \subseteq created' /\ \A d \in Conns : known[d] \subseteq known'[d]
<1>0. known \in [Conns -> SUBSET ChatIDs]
  BY DEF TypeOK
<1>1. CASE Nothing
  BY <1>1 DEF Nothing, store
<1>2. ASSUME NEW m \in net, Delivered(m)
      PROVE  created \subseteq created' /\ \A d \in Conns : known[d] \subseteq known'[d]
  BY <1>0, <1>2 DEF Delivered, store
<1>3. ASSUME NEW c \in Conns, NEW ms \in SUBSET net', Mailed(c, ms)
      PROVE  created \subseteq created' /\ \A d \in Conns : known[d] \subseteq known'[d]
  BY <1>3 DEF Mailed, store
<1>4. ASSUME NEW c \in Conns, GivenUp(c)
      PROVE  created \subseteq created' /\ \A d \in Conns : known[d] \subseteq known'[d]
  BY <1>4 DEF GivenUp, store
<1>5. ASSUME NEW c \in Conns, NEW k \in ChatIDs, About(c, k)
      PROVE  created \subseteq created' /\ \A d \in Conns : known[d] \subseteq known'[d]
  BY <1>0, <1>5 DEF About, Opened, Invited, Joining, Joined, Learnt, Listed, Left, ToldLeft,
                    Changed, Announced, store
<1> QED BY <1>1, <1>2, <1>3, <1>4, <1>5 DEF Effect

\* The step is not one of session d: its handler stays where it is, and it
\* neither joins nor leaves a chat.
Bystander(d) ==
    /\ pc'[d] = pc[d]
    /\ \A j \in created : d \in member'[j] <=> d \in member[j]

\* What a handler has done holds until its own next step, whatever the others
\* do meanwhile.
LEMMA AtWorkStep ==
    ASSUME TypeOK, Numbers, AtWork, Effect
    PROVE  AtWork'
<1>0. /\ Idle.op = "idle"
      /\ created \subseteq ChatIDs
      /\ created \subseteq created' /\ \A d \in Conns : known[d] \subseteq known'[d]
  BY GrowStep DEF Idle, TypeOK
<1>1. ASSUME NEW d \in Conns, Bystander(d)
      PROVE  Placed(d)'
  <2>1. Placed(d) /\ pc'[d] = pc[d]
    BY <1>1 DEF AtWork, Bystander
  <2>2. CASE pc[d].op = "invite"
    <3>1. PICK j \in created : j = pc[d].chat /\ Secret(j) /\ member[j] = {d}
      BY <2>1, <2>2 DEF Placed
    <3>2. ASSUME NEW c \in Conns, Invited(c, j) PROVE FALSE
      <4>1. member[j] = {c}
        BY <3>2 DEF Invited, AtWork, Placed
      <4>2. pc'[c].op = "idle"
        BY <3>2 DEF Invited, Rests
      <4> QED BY <2>1, <2>2, <3>1, <4>1, <4>2
    <3>3. Secret(j)' /\ member'[j] = member[j]
      BY <3>1, <3>2, SecretStep
    <3> QED BY <1>0, <2>1, <2>2, <3>1, <3>3 DEF Placed, Secret
  <2>3. CASE pc[d].op # "invite"
    BY <1>0, <1>1, <2>1, <2>3 DEF Placed, Bystander
  <2> QED BY <2>2, <2>3
<1>2. CASE Nothing \/ \E m \in net : Delivered(m)
  <2>1. \A d \in Conns : Bystander(d)
    BY <1>2 DEF Nothing, Delivered, store, Bystander
  <2> QED BY <1>1, <2>1 DEF AtWork
<1>3. CASE \E c \in Conns : \E ms \in SUBSET net' : Mailed(c, ms)
  <2>1. \A d \in Conns : Bystander(d)
    BY <1>3 DEF Mailed, store, Bystander
  <2> QED BY <1>1, <2>1 DEF AtWork
<1>4. ASSUME NEW c \in Conns,
             \A d \in Conns \ {c} : pc'[d] = pc[d],
             \A j \in created, d \in Conns \ {c} : d \in member'[j] <=> d \in member[j],
             Placed(c)'
      PROVE  AtWork'
  <2>1. \A d \in Conns \ {c} : Bystander(d)
    BY <1>4 DEF Bystander
  <2> QED BY <1>1, <1>4, <2>1 DEF AtWork
<1>5. ASSUME NEW c \in Conns, GivenUp(c)
      PROVE  AtWork'
  <2>1. Placed(c)'
    BY <1>0, <1>5 DEF GivenUp, Rests, Placed, Secret
  <2> QED BY <1>4, <1>5, <2>1 DEF GivenUp, Rests, store
<1>6. ASSUME NEW c \in Conns, NEW k \in ChatIDs, About(c, k)
      PROVE  AtWork'
  <2>0. Placed(c)
    BY DEF AtWork
  <2>1. CASE Opened(c, k)
    <3>1. \A j \in created, d \in Conns \ {c} : d \in member'[j] <=> d \in member[j]
      BY <1>0, <2>1 DEF Opened, Sets
    <3>2. Secret(k)' /\ member'[k] = {c} /\ k \in created'
      BY <2>1 DEF Opened, Sets, Numbers, Secret
    <3>3. Placed(c)'
      BY <2>1, <3>2 DEF Opened, Works, Placed, Secret
    <3> QED BY <1>4, <2>1, <3>1, <3>3 DEF Opened, Works
  <2>2. CASE Invited(c, k)
    <3>1. Placed(c)'
      BY <2>2 DEF Invited, Rests, Placed, Secret
    <3> QED BY <1>4, <2>2, <3>1 DEF Invited, Rests, store
  <2>3. CASE Joining(c, k)
    <3>1. Placed(c)'
      BY <2>3 DEF Joining, Works, Placed, Secret, store
    <3> QED BY <1>4, <2>3, <3>1 DEF Joining, Works, store
  <2>4. CASE Joined(c, k)
    <3>1. \A j \in created, d \in Conns \ {c} : d \in member'[j] <=> d \in member[j]
      BY <1>0, <2>4 DEF Joined, Sets
    <3>2. k \in created' /\ k \in known'[c] /\ c \in member'[k]
      BY <1>0, <2>0, <2>4 DEF Joined, Sets, Placed
    <3>3. Placed(c)'
      BY <2>4, <3>2 DEF Joined, Works, Placed, Secret
    <3> QED BY <1>4, <2>4, <3>1, <3>3 DEF Joined, Works
  <2>5. CASE Learnt(c, k)
    <3>1. k \in created' /\ k \in known'[c] /\ c \in member'[k]
      BY <1>0, <2>0, <2>5 DEF Learnt, Placed, store
    <3>2. Placed(c)'
      BY <2>5, <3>1 DEF Learnt, Works, Placed, Secret
    <3> QED BY <1>4, <2>5, <3>2 DEF Learnt, Works, store
  <2>6. CASE Listed(c, k)
    <3>1. Placed(c)'
      BY <2>6 DEF Listed, Rests, Placed, Secret
    <3> QED BY <1>4, <2>6, <3>1 DEF Listed, Rests, store
  <2>7. CASE Left(c, k)
    <3>1. \A j \in created, d \in Conns \ {c} : d \in member'[j] <=> d \in member[j]
      BY <1>0, <2>7 DEF Left, Sets
    <3>2. k \in created' /\ k \in known'[c] /\ c \notin member'[k]
      BY <2>7 DEF Left, Sets
    <3>3. Placed(c)'
      BY <2>7, <3>2 DEF Left, Works, Placed, Secret
    <3> QED BY <1>4, <2>7, <3>1, <3>3 DEF Left, Works
  <2>8. CASE ToldLeft(c, k)
    <3>1. Placed(c)'
      BY <2>8 DEF ToldLeft, Rests, Placed, Secret
    <3> QED BY <1>4, <2>8, <3>1 DEF ToldLeft, Rests, store
  <2>9. ASSUME NEW s \in Subjects, Changed(c, k, s)
        PROVE  AtWork'
    <3>1. Placed(c)'
      BY <2>9 DEF Changed, Works, Placed, Secret
    <3> QED BY <1>4, <2>9, <3>1 DEF Changed, Works
  <2>10. CASE Announced(c, k)
    <3>1. Placed(c)'
      BY <2>10 DEF Announced, Rests, Placed, Secret
    <3> QED BY <1>4, <2>10, <3>1 DEF Announced, Rests, store
  <2> QED
    BY <1>6, <2>1, <2>2, <2>3, <2>4, <2>5, <2>6, <2>7, <2>8, <2>9, <2>10 DEF About
<1> QED BY <1>2, <1>3, <1>5, <1>6 DEF Effect

\* The numbers of chats spread only by invitations and by the reply to whoever
\* opened the chat, and texts go to sessions that have the number.
LEMMA NumbersStep ==
    ASSUME TypeOK, TypeOK', Numbers, AtWork, Effect
    PROVE  Numbers'
<1>0. /\ NoChat \notin ChatIDs
      /\ created \subseteq ChatIDs
      /\ known \in [Conns -> SUBSET ChatIDs]
      /\ \A k \in ChatIDs : member[k] \subseteq Conns
      /\ \A m \in net : m.to \in Conns /\ m.kind \in {"invite", "text"} /\ m.chat \in ChatIDs \cup {NoChat}
  BY ChatAssumption DEF TypeOK
<1>g. \A d \in Conns : known[d] \subseteq known'[d]
  BY GrowStep
<1>a. CASE UNCHANGED <<created, member, known, net>>
  BY <1>a DEF Numbers, Secret
<1>b. ASSUME UNCHANGED <<created, member>>,
             \A k \in ChatIDs \ created : Secret(k)',
             \A k \in ChatIDs : \A d \in member[k] : Secret(k) => k \in known'[d] \/ Secret(k)',
             \A m \in net' \ net : \/ m.kind = "invite" /\ m.chat # NoChat
                                   \/ m.kind = "text" /\ m.chat = NoChat
                                   \/ m.kind = "text" /\ m.chat \in known[m.to] /\ m.chat \in ChatIDs
                                      /\ m.to \in Conns
      PROVE  Numbers'
  <2>1. \A k \in ChatIDs : \A c \in member'[k] : k \in known'[c] \/ Secret(k)'
    BY <1>0, <1>g, <1>b DEF Numbers
  <2>2. \A k \in ChatIDs \ created' : Secret(k)' /\ member'[k] = {}
    BY <1>b DEF Numbers
  <2>3. \A m \in net' : m.kind = "invite" => m.chat # NoChat
    BY <1>b DEF Numbers
  <2>4. \A m \in net' : m.kind = "text" /\ m.chat \in ChatIDs => m.chat \in known'[m.to]
    BY <1>0, <1>b, <1>g DEF Numbers
  <2> QED BY <2>1, <2>2, <2>3, <2>4 DEF Numbers
<1>1. CASE Nothing
  BY <1>1, <1>a DEF Nothing, store
<1>2. ASSUME NEW m \in net, Delivered(m)
      PROVE  Numbers'
  <2>1. net' \subseteq net /\ UNCHANGED <<created, member>>
    BY <1>2 DEF Delivered, store
  <2>2. ASSUME NEW k \in ChatIDs, Secret(k)
        PROVE  Secret(k)'
    <3>1. m.chat # k
      BY <2>2 DEF Secret
    <3>2. \A c \in Conns : k \notin known'[c]
      BY <1>0, <1>2, <2>2, <3>1 DEF Delivered, Secret
    <3> QED BY <2>1, <2>2, <3>2 DEF Secret
  <2>3. \A k \in ChatIDs \ created : Secret(k)
    BY DEF Numbers
  <2> HIDE DEF Secret
  <2> QED BY <1>b, <2>1, <2>2, <2>3
<1>3. ASSUME NEW c \in Conns, NEW ms \in SUBSET net', Mailed(c, ms)
      PROVE  Numbers'
  <2>1. UNCHANGED <<created, member, known>> /\ net' = net \cup ms
    BY <1>3 DEF Mailed, store
  <2>2. ASSUME NEW m \in ms
        PROVE  \/ m.chat = NoChat /\ m.kind = "text"
               \/ /\ m.chat \in known[c] \cap created
                  /\ m.kind = "text" => m.to \in member[m.chat]
    BY <1>3 DEF Mailed
  <2>3. ASSUME NEW k \in ChatIDs, Secret(k)
        PROVE  Secret(k)'
    BY <1>0, <2>1, <2>2, <2>3 DEF Secret
  <2>4. \A k \in ChatIDs \ created : Secret(k)
    BY DEF Numbers
  <2>5. ASSUME NEW m \in net' \ net
        PROVE  \/ m.kind = "invite" /\ m.chat # NoChat
               \/ m.kind = "text" /\ m.chat = NoChat
               \/ m.kind = "text" /\ m.chat \in known[m.to] /\ m.chat \in ChatIDs
                  /\ m.to \in Conns
    <3>1. m \in ms /\ m.kind \in {"invite", "text"}
      BY <2>1, <2>5 DEF TypeOK
    <3>2. CASE m.chat = NoChat /\ m.kind = "text"
      BY <3>2
    <3>3. CASE m.chat \in known[c] \cap created /\ (m.kind = "text" => m.to \in member[m.chat])
      <4>1. ~Secret(m.chat)
        BY <3>3 DEF Secret
      <4>2. m.kind = "text" => m.chat \in known[m.to]
        BY <1>0, <3>3, <4>1 DEF Numbers
      <4> QED BY <1>0, <3>1, <3>3, <4>2
    <3> QED BY <2>2, <3>1, <3>2, <3>3
  <2> QED BY <1>b, <2>1, <2>3, <2>4, <2>5
<1>4. ASSUME NEW c \in Conns, GivenUp(c)
      PROVE  Numbers'
  BY <1>4, <1>a DEF GivenUp, store
<1>5. ASSUME NEW c \in Conns, NEW k \in ChatIDs, About(c, k)
      PROVE  Numbers'
  <2>1. CASE Opened(c, k)
    <3>1. Secret(k)
      BY <2>1 DEF Opened, Numbers
    <3>2. created' = created \cup {k} /\ UNCHANGED <<known, net>> /\ member'[k] = {c}
          /\ \A j \in ChatIDs \ {k} : member'[j] = member[j]
      BY <2>1 DEF Opened, Sets
    <3> QED BY <3>1, <3>2 DEF Numbers, Secret
  <2>2. CASE Invited(c, k)
    <3>1. /\ UNCHANGED <<created, member>>
          /\ known' = [known EXCEPT ![c] = @ \cup {k}]
          /\ \A m \in net' : m \in net \/ (m.kind = "invite" /\ m.chat = k)
          /\ pc[c].op = "invite" /\ pc[c].chat = k
      BY <2>2 DEF Invited, store
    <3>2. member[k] = {c} /\ k \in created
      BY <3>1 DEF AtWork, Placed
    <3>3. ASSUME NEW j \in ChatIDs \ {k}, Secret(j)
          PROVE  Secret(j)'
      BY <1>0, <3>1, <3>3 DEF Secret
    <3>4. \A j \in ChatIDs \ created : Secret(j)'
      BY <3>2, <3>3 DEF Numbers
    <3>5. k \in known'[c]
      BY <1>0, <3>1
    <3>6. \A j \in ChatIDs : \A d \in member[j] : Secret(j) => j \in known'[d] \/ Secret(j)'
      BY <3>2, <3>3, <3>5
    <3> QED BY <1>0, <1>b, <3>1, <3>4, <3>6
  <2>3. CASE Joining(c, k)
    BY <2>3, <1>a DEF Joining, store
  <2>4. CASE Joined(c, k)
    <3>1. k \in known[c] /\ k \in created
      BY <2>4 DEF Joined, AtWork, Placed
    <3>2. UNCHANGED <<created, known, net>> /\ member'[k] = member[k] \cup {c}
          /\ \A j \in ChatIDs \ {k} : member'[j] = member[j]
      BY <2>4 DEF Joined, Sets
    <3> QED BY <3>1, <3>2 DEF Numbers, Secret
  <2>5. CASE Learnt(c, k)
    BY <2>5, <1>a DEF Learnt, store
  <2>6. CASE Listed(c, k)
    BY <2>6, <1>a DEF Listed, store
  <2>7. CASE Left(c, k)
    <3>1. UNCHANGED <<created, known, net>> /\ member'[k] = member[k] \ {c} /\ k \in created
          /\ \A j \in ChatIDs \ {k} : member'[j] = member[j]
      BY <2>7 DEF Left, Sets
    <3> QED BY <3>1 DEF Numbers, Secret
  <2>8. CASE ToldLeft(c, k)
    BY <2>8, <1>a DEF ToldLeft, store
  <2>9. ASSUME NEW s \in Subjects, Changed(c, k, s)
        PROVE  Numbers'
    BY <2>9, <1>a DEF Changed
  <2>10. CASE Announced(c, k)
    BY <2>10, <1>a DEF Announced, store
  <2> QED
    BY <1>5, <2>1, <2>2, <2>3, <2>4, <2>5, <2>6, <2>7, <2>8, <2>9, <2>10 DEF About
<1> QED BY <1>1, <1>2, <1>3, <1>4, <1>5 DEF Effect

\* Whoever receives a text of a private chat has the number of the chat.
LEMMA PrivateStep ==
    ASSUME TypeOK, Numbers, PrivateStaysPrivate, Effect
    PROVE  PrivateStaysPrivate'
<1>0. /\ NoChat \notin ChatIDs
      /\ known \in [Conns -> SUBSET ChatIDs]
      /\ heard \in [Conns -> SUBSET (ChatIDs \cup {NoChat})]
      /\ \A m \in net : m.to \in Conns /\ m.chat \in ChatIDs \cup {NoChat}
      /\ \A d \in Conns : known[d] \subseteq known'[d]
  BY ChatAssumption, GrowStep DEF TypeOK
<1>1. CASE UNCHANGED heard
  BY <1>0, <1>1 DEF PrivateStaysPrivate
<1>2. ASSUME NEW m \in net, Delivered(m)
      PROVE  PrivateStaysPrivate'
  <2>1. CASE m.kind = "text" /\ heard' = [heard EXCEPT ![m.to] = @ \cup {m.chat}]
    <3>1. m.chat \in ChatIDs => m.chat \in known'[m.to]
      BY <1>0, <2>1 DEF Numbers
    <3>2. \A d \in Conns : heard'[d] \subseteq heard[d] \cup (IF d = m.to THEN {m.chat} ELSE {})
      BY <1>0, <2>1
    <3> QED BY <1>0, <3>1, <3>2 DEF PrivateStaysPrivate
  <2> QED BY <1>1, <1>2, <2>1 DEF Delivered
<1>3. ASSUME NEW c \in Conns, NEW k \in ChatIDs, About(c, k)
      PROVE  UNCHANGED heard
  BY <1>3 DEF About, Opened, Invited, Joining, Joined, Learnt, Listed, Left, ToldLeft, Changed,
              Announced
<1>4. UNCHANGED heard \/ \E m \in net : Delivered(m)
  BY <1>3 DEF Effect, Nothing, Mailed, GivenUp
<1> QED BY <1>1, <1>2, <1>4

\* A member without the present subject of its chat is still going to get it.
LEMMA ToldStep ==
    ASSUME TypeOK, Numbers, AtWork, Told, Effect
    PROVE  Told'
<1>0. \A j \in ChatIDs : member[j] \subseteq Conns
  BY DEF TypeOK
<1>a. ASSUME NEW j \in ChatIDs, NEW x \in member[j],
             UNCHANGED subject, told[j][x] \subseteq told'[j][x],
             \A d \in Conns : pc[d].op \in {"subject", "announce"} => pc'[d] = pc[d]
      PROVE  Informed(j, x)'
  BY <1>0, <1>a DEF Told, Informed
<1>b. ASSUME UNCHANGED <<member, subject, told>>,
             \A d \in Conns : pc[d].op \in {"subject", "announce"} => pc'[d] = pc[d]
      PROVE  Told'
  BY <1>a, <1>b DEF Told
<1>1. CASE Nothing
  BY <1>1, <1>b DEF Nothing, store, ghosts
<1>2. ASSUME NEW m \in net, Delivered(m)
      PROVE  Told'
  BY <1>2, <1>b DEF Delivered, store, ghosts
<1>3. ASSUME NEW c \in Conns, NEW ms \in SUBSET net', Mailed(c, ms)
      PROVE  Told'
  BY <1>3, <1>b DEF Mailed, store, ghosts
<1>4. ASSUME NEW c \in Conns, GivenUp(c)
      PROVE  Told'
  BY <1>4, <1>b DEF GivenUp, Rests, store, ghosts
<1>5. ASSUME NEW c \in Conns, NEW k \in ChatIDs, About(c, k)
      PROVE  Told'
  <2>1. CASE Opened(c, k)
    <3>1. Informed(k, c)'
      BY <2>1 DEF Opened, Sets, SetsAt, Informed
    <3>2. ASSUME NEW j \in ChatIDs \ {k}, NEW x \in member[j]
          PROVE  Informed(j, x)'
      <4>1. Informed(j, x)
        BY DEF Told
      <4> QED BY <1>0, <2>1, <4>1 DEF Opened, Sets, SetsAt, Works, Informed
    <3> QED BY <2>1, <3>1, <3>2 DEF Told, Opened, Sets
  <2>2. CASE Invited(c, k)
    BY <2>2, <1>b DEF Invited, Rests, store, ghosts
  <2>3. CASE Joining(c, k)
    BY <2>3, <1>b DEF Joining, Works, store
  <2>4. CASE Joined(c, k)
    <3>1. Informed(k, c)'
      BY <2>4 DEF Joined, Works, Informed
    <3>2. ASSUME NEW j \in ChatIDs, NEW x \in member[j], j # k \/ x # c
          PROVE  Informed(j, x)'
      BY <1>0, <1>a, <2>4, <3>2 DEF Joined, SetsAt, Works
    <3> QED BY <2>4, <3>1, <3>2 DEF Told, Joined, Sets
  <2>5. CASE Learnt(c, k)
    <3>1. Informed(k, c)'
      BY <2>5 DEF Learnt, SetsAt, Informed, store
    <3>2. ASSUME NEW j \in ChatIDs, NEW x \in member[j], j # k \/ x # c
          PROVE  Informed(j, x)'
      <4>1. Informed(j, x)
        BY DEF Told
      <4> QED BY <1>0, <2>5, <3>2, <4>1 DEF Learnt, SetsAt, Works, Informed, store
    <3> QED BY <2>5, <3>1, <3>2 DEF Told, Learnt, store
  <2>6. CASE Listed(c, k)
    BY <2>6, <1>b DEF Listed, Rests, store
  <2>7. CASE Left(c, k)
    <3>1. ASSUME NEW j \in ChatIDs, NEW x \in member[j], j # k \/ x # c
          PROVE  Informed(j, x)'
      BY <1>0, <1>a, <2>7, <3>1 DEF Left, SetsAt, Works
    <3> QED BY <2>7, <3>1 DEF Told, Left, Sets
  <2>8. CASE ToldLeft(c, k)
    BY <2>8, <1>b DEF ToldLeft, Rests, store
  <2>9. ASSUME NEW s \in Subjects, Changed(c, k, s)
        PROVE  Told'
    <3>1. ASSUME NEW x \in member[k]
          PROVE  Informed(k, x)'
      BY <2>9 DEF Changed, Sets, Works, Informed
    <3>2. ASSUME NEW j \in ChatIDs \ {k}, NEW x \in member[j]
          PROVE  Informed(j, x)'
      <4>1. Informed(j, x)
        BY DEF Told
      <4> QED BY <1>0, <2>9, <4>1 DEF Changed, Sets, Works, Informed, ghosts
    <3> QED BY <2>9, <3>1, <3>2 DEF Told, Changed
  <2>10. CASE Announced(c, k)
    <3>1. ASSUME NEW x \in member[k]
          PROVE  Informed(k, x)'
      <4>1. Informed(k, x) /\ x \in Conns
        BY <1>0 DEF Told
      <4>2. UNCHANGED subject /\ told'[k][x] = told[k][x] \cup {pc[c].arg}
        BY <2>10, <4>1 DEF Announced, store
      <4>3. \A d \in Conns \ {c} : pc'[d] = pc[d]
        BY <2>10 DEF Announced, Rests
      <4>4. CASE subject[k] \in told[k][x]
        BY <4>2, <4>4 DEF Informed
      <4>5. CASE pc[x].op = "subject" /\ pc[x].chat = k
        BY <2>10, <4>1, <4>3, <4>5 DEF Informed, Announced
      <4>6. ASSUME NEW d \in Conns, pc[d].op = "announce" /\ pc[d].chat = k /\ pc[d].arg = subject[k]
            PROVE  Informed(k, x)'
        BY <4>2, <4>3, <4>6 DEF Informed
      <4> QED BY <4>1, <4>4, <4>5, <4>6 DEF Informed
    <3>2. ASSUME NEW j \in ChatIDs \ {k}, NEW x \in member[j]
          PROVE  Informed(j, x)'
      <4>1. Informed(j, x)
        BY DEF Told
      <4> QED BY <1>0, <2>10, <4>1 DEF Announced, Rests, Informed, store
    <3> QED BY <2>10, <3>1, <3>2 DEF Told, Announced, store
  <2> QED
    BY <1>5, <2>1, <2>2, <2>3, <2>4, <2>5, <2>6, <2>7, <2>8, <2>9, <2>10 DEF About
<1> QED BY <1>1, <1>2, <1>3, <1>4, <1>5 DEF Effect

\* Of any two members of a chat one still knows the other or lists the members.
LEMMA SeenStep ==
    ASSUME TypeOK, Numbers, AtWork, Seen, Effect
    PROVE  Seen'
<1>0. \A j \in ChatIDs : member[j] \subseteq Conns
  BY DEF TypeOK
<1>a. ASSUME NEW j \in ChatIDs, NEW a \in member[j], NEW b \in member[j],
             a \in knows[j][b] => a \in knows'[j][b],
             b \in knows[j][a] => b \in knows'[j][a],
             Arriving(a, j) => Arriving(a, j)',
             Arriving(b, j) => Arriving(b, j)'
      PROVE  Met(j, a, b)'
  BY <1>a DEF Seen, Met
<1>b. ASSUME UNCHANGED <<member, knows>>,
             \A d \in Conns, j \in ChatIDs : Arriving(d, j) => Arriving(d, j)'
      PROVE  Seen'
  BY <1>0, <1>a, <1>b DEF Seen
<1>1. CASE Nothing
  BY <1>1, <1>b DEF Nothing, store, ghosts, Arriving
<1>2. ASSUME NEW m \in net, Delivered(m)
      PROVE  Seen'
  BY <1>2, <1>b DEF Delivered, store, ghosts, Arriving
<1>3. ASSUME NEW c \in Conns, NEW ms \in SUBSET net', Mailed(c, ms)
      PROVE  Seen'
  BY <1>3, <1>b DEF Mailed, store, ghosts, Arriving
<1>4. ASSUME NEW c \in Conns, GivenUp(c)
      PROVE  Seen'
  BY <1>4, <1>b DEF GivenUp, Rests, store, ghosts, Arriving
<1>5. ASSUME NEW c \in Conns, NEW k \in ChatIDs, About(c, k)
      PROVE  Seen'
  <2>1. CASE Opened(c, k)
    <3>1. \A d \in Conns, j \in ChatIDs : Arriving(d, j) => Arriving(d, j)'
      BY <2>1 DEF Opened, Works, Arriving
    <3>2. \A j \in ChatIDs \ {k} : \A a, b \in member[j] : Met(j, a, b)'
      BY <1>0, <1>a, <2>1, <3>1 DEF Opened
    <3>3. Met(k, c, c)'
      BY DEF Met
    <3> QED BY <2>1, <3>2, <3>3 DEF Seen, Opened, Sets
  <2>2. CASE Invited(c, k)
    BY <2>2, <1>b DEF Invited, Rests, store, ghosts, Arriving
  <2>3. CASE Joining(c, k)
    <3>1. \A d \in Conns, j \in ChatIDs : Arriving(d, j) => Arriving(d, j)'
      BY <2>3 DEF Joining, Works, Arriving
    <3>2. \A d \in Conns, j \in ChatIDs : knows[j][d] \subseteq knows'[j][d]
      BY <2>3 DEF Joining
    <3>3. UNCHANGED member
      BY <2>3 DEF Joining, store
    <3> QED BY <1>0, <1>a, <3>1, <3>2, <3>3 DEF Seen
  <2>4. CASE Joined(c, k)
    <3>1. \A d \in Conns, j \in ChatIDs : Arriving(d, j) => Arriving(d, j)'
      BY <2>4 DEF Joined, Works, Arriving
    <3>2. \A j \in ChatIDs : \A a, b \in member[j] : Met(j, a, b)'
      BY <1>0, <1>a, <2>4, <3>1 DEF Joined
    <3>3. Arriving(c, k)'
      BY <2>4 DEF Joined, Works, Arriving
    <3>4. \A a \in Conns : Met(k, a, c)' /\ Met(k, c, a)'
      BY <3>3 DEF Met
    <3> QED BY <1>0, <2>4, <3>2, <3>4 DEF Seen, Joined, Sets
  <2>5. CASE Learnt(c, k)
    BY <2>5, <1>b DEF Learnt, Works, store, Arriving
  <2>6. CASE Listed(c, k)
    <3>1. \A d \in Conns \ {c}, j \in ChatIDs : Arriving(d, j) => Arriving(d, j)'
      BY <2>6 DEF Listed, Rests, Arriving
    <3>2. \A d \in Conns, j \in ChatIDs : j # k \/ d # c => knows'[j][d] = knows[j][d]
      BY <2>6 DEF Listed, SetsAt
    <3>3. \A j \in ChatIDs \ {k} : ~Arriving(c, j)
      BY <2>6 DEF Listed, Arriving
    <3>4. ASSUME NEW j \in ChatIDs, NEW a \in member[j], NEW b \in member[j],
                 j # k \/ (a # c /\ b # c)
          PROVE  Met(j, a, b)'
      BY <1>0, <1>a, <3>1, <3>2, <3>3, <3>4
    <3>5. knows'[k][c] = member[k] /\ UNCHANGED member
      BY <2>6 DEF Listed, SetsAt, store
    <3>6. \A a \in member[k] : Met(k, a, c)' /\ Met(k, c, a)'
      BY <3>5 DEF Met
    <3> QED BY <3>4, <3>5, <3>6 DEF Seen
  <2>7. CASE Left(c, k)
    <3>1. \A d \in Conns, j \in ChatIDs : Arriving(d, j) => Arriving(d, j)'
      BY <2>7 DEF Left, Works, Arriving
    <3>2. \A d \in Conns, j \in ChatIDs : j # k \/ d # c => knows'[j][d] = knows[j][d]
      BY <2>7 DEF Left, SetsAt
    <3>3. ASSUME NEW j \in ChatIDs, NEW a \in member[j], NEW b \in member[j],
                 j # k \/ (a # c /\ b # c)
          PROVE  Met(j, a, b)'
      BY <1>0, <1>a, <3>1, <3>2, <3>3
    <3> QED BY <2>7, <3>3 DEF Seen, Left, Sets
  <2>8. CASE ToldLeft(c, k)
    <3>1. \A d \in Conns, j \in ChatIDs : Arriving(d, j) => Arriving(d, j)'
      BY <2>8 DEF ToldLeft, Rests, Arriving
    <3>2. c \notin member[k]
      BY <2>8 DEF ToldLeft, AtWork, Placed
    <3>3. \A d \in Conns, j \in ChatIDs, x \in Conns :
             (j # k \/ x # c) /\ x \in knows[j][d] => x \in knows'[j][d]
      BY <2>8 DEF ToldLeft
    <3>4. UNCHANGED member
      BY <2>8 DEF ToldLeft, store
    <3>5. ASSUME NEW j \in ChatIDs, NEW a \in member[j], NEW b \in member[j]
          PROVE  Met(j, a, b)'
      BY <1>0, <1>a, <3>1, <3>2, <3>3
    <3> QED BY <3>4, <3>5 DEF Seen
  <2>9. ASSUME NEW s \in Subjects, Changed(c, k, s)
        PROVE  Seen'
    BY <2>9, <1>b DEF Changed, Works, ghosts, Arriving
  <2>10. CASE Announced(c, k)
    BY <2>10, <1>b DEF Announced, Rests, store, Arriving
  <2> QED
    BY <1>5, <2>1, <2>2, <2>3, <2>4, <2>5, <2>6, <2>7, <2>8, <2>9, <2>10 DEF About
<1> QED BY <1>1, <1>2, <1>3, <1>4, <1>5 DEF Effect

\* Members still know only of members and of sessions on their way.
LEMMA ForgottenStep ==
    ASSUME TypeOK, Numbers, AtWork, Forgotten, Effect
    PROVE  Forgotten'
<1>0. \A j \in ChatIDs : member[j] \subseteq Conns /\ \A d \in Conns : knows[j][d] \subseteq Conns
  BY DEF TypeOK
<1>b. ASSUME UNCHANGED <<member, knows>>,
             \A d \in Conns, j \in ChatIDs : Passing(d, j) => Passing(d, j)'
      PROVE  Forgotten'
  BY <1>0, <1>b DEF Forgotten
<1>1. CASE Nothing
  BY <1>1, <1>b DEF Nothing, store, ghosts, Passing
<1>2. ASSUME NEW m \in net, Delivered(m)
      PROVE  Forgotten'
  BY <1>2, <1>b DEF Delivered, store, ghosts, Passing
<1>3. ASSUME NEW c \in Conns, NEW ms \in SUBSET net', Mailed(c, ms)
      PROVE  Forgotten'
  BY <1>3, <1>b DEF Mailed, store, ghosts, Passing
<1>4. ASSUME NEW c \in Conns, GivenUp(c)
      PROVE  Forgotten'
  BY <1>4, <1>b DEF GivenUp, Rests, store, ghosts, Passing
<1>5. ASSUME NEW c \in Conns, NEW k \in ChatIDs, About(c, k)
      PROVE  Forgotten'
  <2>1. CASE Opened(c, k)
    <3>1. \A d \in Conns, j \in ChatIDs : Passing(d, j) => Passing(d, j)'
      BY <2>1 DEF Opened, Works, Passing
    <3>2. UNCHANGED knows /\ member'[k] = {c} /\ \A j \in ChatIDs \ {k} : member'[j] = member[j]
      BY <2>1 DEF Opened, Sets
    <3>3. member[k] = {}
      BY <2>1 DEF Opened, Numbers
    <3> QED BY <1>0, <3>1, <3>2, <3>3 DEF Forgotten
  <2>2. CASE Invited(c, k)
    BY <2>2, <1>b DEF Invited, Rests, store, ghosts, Passing
  <2>3. CASE Joining(c, k)
    <3>1. \A d \in Conns, j \in ChatIDs : Passing(d, j) => Passing(d, j)'
      BY <2>3 DEF Joining, Works, Passing
    <3>2. Passing(c, k)' /\ UNCHANGED member
      BY <2>3 DEF Joining, Works, Passing, store
    <3>3. /\ \A j \in ChatIDs \ {k} : knows'[j] = knows[j]
          /\ \A d \in Conns : knows'[k][d] = IF d \in member[k] THEN knows[k][d] \cup {c} ELSE knows[k][d]
      BY <2>3 DEF Joining
    <3>4. ASSUME NEW j \in ChatIDs, NEW d \in Conns
          PROVE  /\ d \notin member'[j] => knows'[j][d] = {}
                 /\ \A x \in knows'[j][d] : (x = c /\ j = k) \/ x \in knows[j][d]
      <4>1. CASE j # k
        BY <3>2, <3>3, <4>1 DEF Forgotten
      <4>2. CASE j = k /\ d \in member[k]
        BY <3>2, <3>3, <4>2
      <4>3. CASE j = k /\ d \notin member[k]
        BY <3>2, <3>3, <4>3 DEF Forgotten
      <4> QED BY <4>1, <4>2, <4>3
    <3> QED BY <1>0, <3>1, <3>2, <3>4 DEF Forgotten
  <2>4. CASE Joined(c, k)
    <3>1. \A d \in Conns \ {c}, j \in ChatIDs : Passing(d, j) => Passing(d, j)'
      BY <2>4 DEF Joined, Works, Passing
    <3>2. \A j \in ChatIDs \ {k} : ~Passing(c, j)
      BY <2>4 DEF Joined, Passing
    <3>3. UNCHANGED knows /\ member'[k] = member[k] \cup {c}
          /\ \A j \in ChatIDs \ {k} : member'[j] = member[j]
      BY <2>4 DEF Joined, Sets
    <3> QED BY <1>0, <3>1, <3>2, <3>3 DEF Forgotten
  <2>5. CASE Learnt(c, k)
    BY <2>5, <1>b DEF Learnt, Works, store, Passing
  <2>6. CASE Listed(c, k)
    <3>1. \A d \in Conns, j \in ChatIDs : Passing(d, j) => Passing(d, j)'
      BY <2>6 DEF Listed, Rests, Passing
    <3>2. knows'[k][c] = member[k] /\ UNCHANGED member /\ c \in member[k]
      BY <2>6 DEF Listed, SetsAt, store, AtWork, Placed
    <3>3. \A j \in ChatIDs, d \in Conns : j # k \/ d # c => knows'[j][d] = knows[j][d]
      BY <2>6 DEF Listed, SetsAt
    <3> QED BY <1>0, <3>1, <3>2, <3>3 DEF Forgotten
  <2>7. CASE Left(c, k)
    <3>1. \A d \in Conns, j \in ChatIDs : Passing(d, j) => Passing(d, j)'
      BY <2>7 DEF Left, Works, Passing
    <3>2. Passing(c, k)' /\ knows'[k][c] = {}
      BY <2>7 DEF Left, Works, Passing, SetsAt
    <3>3. \A j \in ChatIDs, d \in Conns : j # k \/ d # c => knows'[j][d] = knows[j][d]
      BY <2>7 DEF Left, SetsAt
    <3>4. member'[k] = member[k] \ {c} /\ \A j \in ChatIDs \ {k} : member'[j] = member[j]
      BY <2>7 DEF Left, Sets
    <3> QED BY <1>0, <3>1, <3>2, <3>3, <3>4 DEF Forgotten
  <2>8. CASE ToldLeft(c, k)
    <3>1. \A d \in Conns \ {c}, j \in ChatIDs : Passing(d, j) => Passing(d, j)'
      BY <2>8 DEF ToldLeft, Rests, Passing
    <3>2. UNCHANGED member /\ \A j \in ChatIDs \ {k} : ~Passing(c, j)
      BY <2>8 DEF ToldLeft, store, Passing
    <3>3. /\ \A j \in ChatIDs \ {k} : knows'[j] = knows[j]
          /\ \A d \in Conns : knows'[k][d] = IF d \in member[k] THEN knows[k][d] \ {c} ELSE knows[k][d]
      BY <2>8 DEF ToldLeft
    <3>4. ASSUME NEW j \in ChatIDs, NEW d \in Conns
          PROVE  /\ d \notin member'[j] => knows'[j][d] = {}
                 /\ \A x \in knows'[j][d] : x \in knows[j][d] /\ (x # c \/ j # k)
      <4>1. CASE j # k
        BY <3>2, <3>3, <4>1 DEF Forgotten
      <4>2. CASE j = k /\ d \in member[k]
        BY <3>2, <3>3, <4>2
      <4>3. CASE j = k /\ d \notin member[k]
        BY <3>2, <3>3, <4>3 DEF Forgotten
      <4> QED BY <4>1, <4>2, <4>3
    <3> QED BY <1>0, <3>1, <3>2, <3>4 DEF Forgotten
  <2>9. ASSUME NEW s \in Subjects, Changed(c, k, s)
        PROVE  Forgotten'
    BY <2>9, <1>b DEF Changed, Works, ghosts, Passing
  <2>10. CASE Announced(c, k)
    BY <2>10, <1>b DEF Announced, Rests, store, Passing
  <2> QED
    BY <1>5, <2>1, <2>2, <2>3, <2>4, <2>5, <2>6, <2>7, <2>8, <2>9, <2>10 DEF About
<1> QED BY <1>1, <1>2, <1>3, <1>4, <1>5 DEF Effect

-----------------------------------------------------------------------------
(* The theorems *)

\* The invariant holds in every state of every behaviour.
LEMMA Invariance == Spec => []Inv
<1>1. ASSUME Init PROVE Inv
  <2> USE <1>1 DEF Init
  <2>1. Idle.op = "idle" /\ Idle \in [op : {"idle"}, chat : {NoChat}, arg : {NoSubject}]
    BY DEF Idle
  <2>2. TypeOK
    BY <2>1, ChatAssumption DEF TypeOK
  <2>3. Numbers /\ PrivateStaysPrivate
    BY DEF Numbers, Secret, PrivateStaysPrivate
  <2>4. AtWork
    BY <2>1 DEF AtWork, Placed
  <2>5. Told /\ Seen /\ Forgotten
    BY DEF Told, Seen, Forgotten
  <2> QED BY <2>2, <2>3, <2>4, <2>5 DEF Inv
<1>2. ASSUME Inv, [Next]_vars PROVE Inv'
  <2>1. TypeOK' /\ Effect
    BY <1>2, StepCases DEF Inv
  <2>2. Numbers' /\ AtWork' /\ PrivateStaysPrivate'
    BY <1>2, <2>1, NumbersStep, AtWorkStep, PrivateStep DEF Inv
  <2>3. Told' /\ Seen' /\ Forgotten'
    BY <1>2, <2>1, ToldStep, SeenStep, ForgottenStep DEF Inv
  <2> QED BY <2>1, <2>2, <2>3 DEF Inv
<1> QED BY <1>1, <1>2, PTL DEF Spec

\* The chats, handlers, messages and records keep their types: no handler
\* reaches the chat manager with the number of no chat.
THEOREM TypeCorrect == Spec => []TypeOK
<1>1. Inv => TypeOK
  BY DEF Inv
<1> QED BY <1>1, Invariance, PTL

\* A text of a private chat reaches only sessions that were given its number,
\* in whatever order texts and invitations arrive (HandleChatSend).
THEOREM TextsStayPrivate == Spec => []PrivateStaysPrivate
<1>1. Inv => PrivateStaysPrivate
  BY DEF Inv
<1> QED BY <1>1, Invariance, PTL

\* When nobody is at work on a chat every member has been sent its present
\* subject (HandleJoinChat, HandleSetChatSubject).
THEOREM SubjectsReach == Spec => []SubjectReachesMembers
<1>1. Inv => SubjectReachesMembers
  <2> SUFFICES ASSUME Inv, NEW k \in created, Quiet(k), NEW c \in Members(k)
               PROVE  subject[k] \in told[k][c]
    BY DEF SubjectReachesMembers
  <2>1. k \in ChatIDs /\ c \in Conns /\ c \in member[k]
    BY DEF Inv, TypeOK, Members
  <2>2. Informed(k, c)
    BY <2>1 DEF Inv, Told
  <2> QED BY <2>1, <2>2 DEF Informed, Quiet
<1> QED BY <1>1, Invariance, PTL

\* When nobody is at work on a chat, of any two members one has been told of
\* the other (HandleJoinChat).
THEOREM MembersSeen == Spec => []OneSeesTheOther
<1>1. Inv => OneSeesTheOther
  <2> SUFFICES ASSUME Inv, NEW k \in created, Quiet(k), NEW a \in Members(k), NEW b \in Members(k)
               PROVE  a = b \/ a \in knows[k][b] \/ b \in knows[k][a]
    BY DEF OneSeesTheOther
  <2>1. k \in ChatIDs /\ a \in Conns /\ b \in Conns /\ a \in member[k] /\ b \in member[k]
    BY DEF Inv, TypeOK, Members
  <2>2. Met(k, a, b)
    BY <2>1 DEF Inv, Seen
  <2> QED BY <2>1, <2>2 DEF Met, Arriving, Quiet
<1> QED BY <1>1, Invariance, PTL

\* When nobody is at work on a chat no member counts as one a session that has
\* left (HandleLeaveChat).
THEOREM LeaversForgotten == Spec => []LeftIsForgotten
<1>1. Inv => LeftIsForgotten
  <2> SUFFICES ASSUME Inv, NEW k \in created, Quiet(k), NEW c \in Members(k), NEW x \in knows[k][c]
               PROVE  x \in member[k]
    BY DEF LeftIsForgotten, Members
  <2>1. k \in ChatIDs /\ c \in Conns /\ x \in Conns
    BY DEF Inv, TypeOK, Members
  <2>2. x \in member[k] \/ Passing(x, k)
    BY <2>1 DEF Inv, Forgotten
  <2> QED BY <2>1, <2>2 DEF Passing, Quiet
<1> QED BY <1>1, Invariance, PTL

=============================================================================
