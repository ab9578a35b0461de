-------------------------------- MODULE Chat --------------------------------
(***************************************************************************)
(* Private chats: MemChatManager (hotline/chat.go) under the handlers of   *)
(* internal/mobius/transaction_handlers.go.  Every call of the manager     *)
(* takes its lock for itself, so a handler of several calls interleaves    *)
(* with the handlers of other sessions.  Chats are never removed, and the  *)
(* disconnection of a client removes it from no chat.                      *)
(*                                                                         *)
(* A connection stands for its client ID.  What handlers send is put into  *)
(* `net', from where each transaction goes out by a goroutine of its own,  *)
(* in any order.  What members are told about each other and about the     *)
(* subject is recorded when the handler decides it.                        *)
(***************************************************************************)
EXTENDS Naturals

CONSTANTS Conns,      \* the sessions
          ChatIDs,    \* the random numbers of new chats
          Subjects,   \* what SetSubject is asked for
          NoSubject,  \* the subject of a new chat
          NoChat,     \* the field is absent, or names no chat
          CanOpen,    \* sessions with AccessOpenChat
          CanSend,    \* sessions with AccessSendChat
          CanRead,    \* sessions with AccessReadChat
          Refusers,   \* sessions with UserFlagRefusePChat
          MaxRequests \* bound: requests in a behaviour

ASSUME ChatAssumption ==
    /\ NoChat \notin ChatIDs
    /\ NoSubject \notin Subjects
    /\ MaxRequests \in Nat
    /\ CanOpen \cup CanSend \cup CanRead \cup Refusers \subseteq Conns

VARIABLES
    session,   \* "on" while its goroutine runs, then "gone"
    clients,   \* the client manager's entries
    created,   \* the chats in cm.chats
    member,    \* member[k]: the keys of PrivateChat.ClientConn
    subject,   \* subject[k]: PrivateChat.Subject
    pc,        \* where each session's handler is
    known,     \* the chats whose number a session has been given
    net,       \* invitations and texts on their way
    heard,     \* the chats of which a session has received a text
    knows,     \* knows[k][c]: the members that member c has been told of
    told,      \* told[k][c]: the subjects that c was sent since it joined
    requests   \* how many requests have been made

vars == <<session, clients, created, member, subject, pc, known, net, heard,
          knows, told, requests>>
ghosts == <<knows, told>>
store  == <<created, member, subject>>

Idle     == [op |-> "idle", chat |-> NoChat, arg |-> NoSubject]
At(o, k) == [op |-> o, chat |-> k, arg |-> NoSubject]
Mail(to, kind, k) == [to |-> to, kind |-> kind, chat |-> k]

TypeOK ==
    /\ session \in [Conns -> {"on", "gone"}]
    /\ clients \subseteq Conns
    /\ created \subseteq ChatIDs
    /\ member \in [ChatIDs -> SUBSET Conns]
    /\ subject \in [ChatIDs -> Subjects \cup {NoSubject}]
    /\ pc \in [Conns -> [op : {"idle", "invite", "join", "subject", "list",
                               "leave", "announce"},
                         chat : ChatIDs \cup {NoChat},
                         arg : Subjects \cup Conns \cup {NoSubject}]]
    /\ known \in [Conns -> SUBSET ChatIDs]
    /\ net \subseteq [to : Conns, kind : {"invite", "text"},
                      chat : ChatIDs \cup {NoChat}]
    /\ heard \in [Conns -> SUBSET (ChatIDs \cup {NoChat})]
    /\ knows \in [ChatIDs -> [Conns -> SUBSET Conns]]
    /\ told \in [ChatIDs -> [Conns -> SUBSET (Subjects \cup {NoSubject})]]
    /\ requests \in 0..MaxRequests

Init ==
    /\ session = [c \in Conns |-> "on"]
    /\ clients = Conns
    /\ created = {}
    /\ member = [k \in ChatIDs |-> {}]
    /\ subject = [k \in ChatIDs |-> NoSubject]
    /\ pc = [c \in Conns |-> Idle]
    /\ known = [c \in Conns |-> {}]
    /\ net = {}
    /\ heard = [c \in Conns |-> {}]
    /\ knows = [k \in ChatIDs |-> [c \in Conns |-> {}]]
    /\ told = [k \in ChatIDs |-> [c \in Conns |-> {}]]
    /\ requests = 0

-----------------------------------------------------------------------------
(* Sessions.  Another session's Disconnect only takes the client off the   *)
(* list and closes the connection: a handler that runs, or a request that  *)
(* has already been read, is still carried out.                            *)

Running(c) == session[c] = "on" /\ pc[c] = Idle

\* The next request of the session's loop, within the bound.
Request(c) ==
    /\ Running(c)
    /\ requests < MaxRequests
    /\ requests' = requests + 1

Ended(c) ==
    /\ session' = [session EXCEPT ![c] = "gone"]
    /\ clients' = clients \ {c}
    /\ pc' = [pc EXCEPT ![c] = Idle]

Leaves(c) ==
    /\ Running(c)
    /\ Ended(c)
    /\ UNCHANGED <<store, known, net, heard, ghosts>>

Disconnect(c) ==
    /\ c \in clients
    /\ clients' = clients \ {c}
    /\ UNCHANGED <<session, store, pc, known, net, heard, ghosts>>

\* Members, Join's second half, GetSubject and SetSubject read through the
\* nil pointer of an unknown chat; the panic ends the session.
Panics(c) ==
    /\ Ended(c)
    /\ UNCHANGED <<store, known, net, heard, ghosts>>

\* Any request may name a chat that does not exist, or lack a field.
NoSuchChat(c) == Request(c) /\ Panics(c)

Goto(c, where) ==
    /\ pc' = [pc EXCEPT ![c] = where]
    /\ UNCHANGED <<session, clients>>

\* sendTransaction: one goroutine each, to whoever is listed when it runs.
Deliver ==
    \E m \in net :
        /\ net' = net \ {m}
        /\ known' = IF m.to \in clients /\ m.kind = "invite"
                    THEN [known EXCEPT ![m.to] = @ \cup {m.chat}] ELSE known
        /\ heard' = IF m.to \in clients /\ m.kind = "text"
                    THEN [heard EXCEPT ![m.to] = @ \cup {m.chat}] ELSE heard
        /\ UNCHANGED <<session, clients, store, pc, ghosts>>

-----------------------------------------------------------------------------
(* MemChatManager *)

Members(k) == member[k]

New(c, k) ==
    /\ k \notin created
    /\ created' = created \cup {k}
    /\ member' = [member EXCEPT ![k] = {c}]
    /\ subject' = [subject EXCEPT ![k] = NoSubject]

Join(k, c) ==
    /\ member' = [member EXCEPT ![k] = @ \cup {c}]
    /\ UNCHANGED <<created, subject>>

Leave(k, c) ==
    /\ member' = [member EXCEPT ![k] = @ \ {c}]
    /\ UNCHANGED <<created, subject>>

SetSubject(k, s) ==
    /\ subject' = [subject EXCEPT ![k] = s]
    /\ UNCHANGED <<created, member>>

-----------------------------------------------------------------------------
(* The handlers *)

\* HandleInviteNewChat creates the chat, then looks for the one to invite.
HandleInviteNewChat(c, k, t) ==
    /\ Request(c)
    /\ c \in CanOpen
    /\ New(c, k)
    /\ Goto(c, [op |-> "invite", chat |-> k, arg |-> t])
    /\ told' = [told EXCEPT ![k][c] = {NoSubject}]
    /\ UNCHANGED <<known, net, heard, knows>>

\* A target that has left is a nil pointer.  The reply gives the number.
Invite(c) ==
    LET k == pc[c].chat
        t == pc[c].arg
    IN  /\ pc[c].op = "invite"
        /\ \/ t \notin clients /\ Panics(c)
           \/ /\ t \in clients
              /\ net' = IF t \in Refusers THEN net
                        ELSE net \cup {Mail(t, "invite", k)}
              /\ known' = [known EXCEPT ![c] = @ \cup {k}]
              /\ Goto(c, Idle)
              /\ UNCHANGED <<store, heard, ghosts>>

\* HandleInviteToChat looks at neither the chat nor the target.
HandleInviteToChat(c, k, t) ==
    /\ Request(c)
    /\ c \in CanOpen
    /\ k \in known[c]
    /\ net' = net \cup {Mail(t, "invite", k)}
    /\ UNCHANGED <<session, clients, store, pc, known, heard, ghosts>>

\* Mutant: everybody on the server gets the text.
TextToClients(c, k) ==
    /\ net' = net \cup {Mail(m, "text", k) : m \in clients}
    /\ UNCHANGED <<session, clients, store, pc, known, heard, ghosts>>

\* The text goes to the members; the sender need not be one.
Text(c, k) ==
    /\ net' = net \cup {Mail(m, "text", k) : m \in Members(k)}
    /\ UNCHANGED <<session, clients, store, pc, known, heard, ghosts>>

HandleChatSend(c, k) ==
    /\ Request(c)
    /\ c \in CanSend
    /\ \/ k \in known[c] \cap created /\ Text(c, k)
       \/ /\ k = NoChat
          /\ net' = net \cup {Mail(m, "text", k) : m \in clients \cap CanRead}
          /\ UNCHANGED <<session, clients, store, pc, known, heard, ghosts>>

HandleRejectChatInvite(c, k) ==
    /\ Request(c)
    /\ k \in known[c] \cap created
    /\ Text(c, k)

\* HandleJoinChat: tell the members, join, read the subject, list the members.
HandleJoinChat(c, k) ==
    /\ Request(c)
    /\ k \in known[c] \cap created
    /\ knows' = [knows EXCEPT ![k] =
                     [m \in Conns |-> @[m] \cup IF m \in Members(k) THEN {c} ELSE {}]]
    /\ Goto(c, At("join", k))
    /\ UNCHANGED <<store, known, net, heard, told>>

\* Mutant: the subject is read first and the chat joined afterwards.
JoinLate(c) ==
    LET k == pc[c].chat
    IN  \/ /\ pc[c].op = "join"
           /\ told' = [told EXCEPT ![k][c] = {subject[k]}]
           /\ Goto(c, At("subject", k))
           /\ UNCHANGED <<store, known, net, heard, knows>>
        \/ /\ pc[c].op = "subject"
           /\ Join(k, c)
           /\ Goto(c, At("list", k))
           /\ UNCHANGED <<known, net, heard, ghosts>>

JoinStep(c) ==
    LET k == pc[c].chat
    IN  \/ /\ pc[c].op = "join"
           /\ Join(k, c)
           /\ told' = [told EXCEPT ![k][c] = {}]
           /\ Goto(c, At("subject", k))
           /\ UNCHANGED <<known, net, heard, knows>>
        \/ /\ pc[c].op = "subject"
           /\ told' = [told EXCEPT ![k][c] = @ \cup {subject[k]}]
           /\ Goto(c, At("list", k))
           /\ UNCHANGED <<store, known, net, heard, knows>>

\* Mutant: the reply without the list of members.
ListNobody(c) ==
    /\ pc[c].op = "list"
    /\ Goto(c, Idle)
    /\ UNCHANGED <<store, known, net, heard, ghosts>>

ListMembers(c) ==
    LET k == pc[c].chat
    IN  /\ pc[c].op = "list"
        /\ knows' = [knows EXCEPT ![k][c] = Members(k)]
        /\ Goto(c, Idle)
        /\ UNCHANGED <<store, known, net, heard, told>>

\* HandleLeaveChat: leave, then tell the members that are left.
HandleLeaveChat(c, k) ==
    /\ Request(c)
    /\ k \in known[c] \cap created
    /\ Leave(k, c)
    /\ knows' = [knows EXCEPT ![k][c] = {}]
    /\ told' = [told EXCEPT ![k][c] = {}]
    /\ Goto(c, At("leave", k))
    /\ UNCHANGED <<known, net, heard>>

\* Mutant: the members are not told.
TellNobody(c) ==
    /\ pc[c].op = "leave"
    /\ Goto(c, Idle)
    /\ UNCHANGED <<store, known, net, heard, ghosts>>

TellLeft(c) ==
    LET k == pc[c].chat
    IN  /\ pc[c].op = "leave"
        /\ knows' = [knows EXCEPT ![k] =
                         [m \in Conns |-> IF m \in Members(k) THEN @[m] \ {c} ELSE @[m]]]
        /\ Goto(c, Idle)
        /\ UNCHANGED <<store, known, net, heard, told>>

\* HandleSetChatSubject: set it, then tell the members of it.
HandleSetChatSubject(c, k, s) ==
    /\ Request(c)
    /\ k \in known[c] \cap created
    /\ SetSubject(k, s)
    /\ Goto(c, [op |-> "announce", chat |-> k, arg |-> s])
    /\ UNCHANGED <<known, net, heard, ghosts>>

TellSubject(c) ==
    LET k == pc[c].chat
    IN  /\ pc[c].op = "announce"
        /\ told' = [told EXCEPT ![k] =
                        [m \in Conns |-> @[m] \cup IF m \in Members(k) THEN {pc[c].arg} ELSE {}]]
        /\ Goto(c, Idle)
        /\ UNCHANGED <<store, known, net, heard, knows>>

\* What happens without a further request.
Step(c) ==
    \/ Leaves(c)
    \/ Disconnect(c)
    \/ Invite(c)
    \/ JoinStep(c)
    \/ ListMembers(c)
    \/ TellLeft(c)
    \/ TellSubject(c)

Next ==
    \/ Deliver /\ UNCHANGED requests
    \/ \E c \in Conns :
        \/ Step(c) /\ UNCHANGED requests
        \/ NoSuchChat(c)
        \/ HandleChatSend(c, NoChat)
        \/ \E k \in ChatIDs :
            \/ HandleChatSend(c, k)
            \/ HandleRejectChatInvite(c, k)
            \/ HandleJoinChat(c, k)
            \/ HandleLeaveChat(c, k)
            \/ \E t \in Conns : HandleInviteNewChat(c, k, t)
            \/ \E t \in Conns : HandleInviteToChat(c, k, t)
            \/ \E s \in Subjects : HandleSetChatSubject(c, k, s)

Spec == Init /\ [][Next]_vars

-----------------------------------------------------------------------------
(* Properties *)

\* No handler is between two calls on chat k.
Quiet(k) == \A c \in Conns : pc[c].chat # k

\* A text of a private chat reaches only sessions that were given the number
\* of the chat, whatever the order in which texts, invitations, joins and
\* disconnections happen (HandleChatSend, sendTransaction).
PrivateStaysPrivate ==
    \A c \in Conns : heard[c] \cap ChatIDs \subseteq known[c]

\* Whoever is in a chat has been sent its present subject since it joined,
\* by the answer to its joining or by the notification of the change, however
\* HandleJoinChat and HandleSetChatSubject interleave.
SubjectReachesMembers ==
    \A k \in created : Quiet(k) =>
        \A c \in Members(k) : subject[k] \in told[k][c]

\* Of two sessions that both are in a chat at least one has been told of the
\* other: joins at the same time cannot hide both from each other.
OneSeesTheOther ==
    \A k \in created : Quiet(k) =>
        \A a, b \in Members(k) : a = b \/ a \in knows[k][b] \/ b \in knows[k][a]

\* Nobody that is left in a chat still counts as a member one that has left:
\* every leave reaches all who had been told of the member.
LeftIsForgotten ==
    \A k \in created : Quiet(k) =>
        \A c \in Members(k) : knows[k][c] \subseteq Members(k)
=============================================================================
