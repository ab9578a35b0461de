------------------------------ MODULE Presence ------------------------------
(***************************************************************************)
(* The flags that a user list shows (away, administrator, refuses messages *)
(* or chats) and who changes them: the idle timer (hotline/server.go), the *)
(* session itself (hotline/client_conn.go, internal/mobius/                *)
(* transaction_handlers.go) and an administrator who edits the account.    *)
(* UserFlags.Set reads both bytes, changes a bit and writes both, and not  *)
(* everybody holds a lock while it does.  Every change is announced        *)
(* through the outbox, which starts a goroutine for each transaction.      *)
(***************************************************************************)
EXTENDS Integers, FiniteSets

CONSTANTS
    Conns,        \* sessions, all of them in the client list
    Logins,       \* accounts that an administrator edits
    LoginOf,      \* the account of each session
    Admins,       \* sessions whose account may disconnect users at first
    IdleLimit,    \* userIdleSeconds, in rounds of the timer
    Askers,       \* bound: sessions that make requests
    Editors,      \* administrators whose edits may overlap
    MaxRequests,  \* bound: requests of all sessions
    MaxEdits,     \* bound: edits of accounts
    Grants,       \* bound: whether an edit lets the account disconnect users
    Choices       \* bound: the options that a request sets

ASSUME IdleAssumption == IdleLimit \in Nat /\ MaxRequests \in Nat /\ MaxEdits \in Nat
ASSUME LoginAssumption == DOMAIN LoginOf = Conns /\ Admins \cup Askers \subseteq Conns

VARIABLES
    flags,    \* the flags of each session
    idle,     \* IdleTime, up to one more than IdleLimit
    mu,       \* who holds the lock of each session
    session,  \* the goroutine of each session
    left,     \* requests left
    timer,    \* keepaliveHandler
    edit,     \* HandleSetUser in the session of each administrator
    edits,    \* edits left
    may,      \* sessions whose account may disconnect users
    pending,  \* whether transactions are still being sent
    told,     \* history: sessions whose flags were announced as they are now
    crossed   \* history: sessions whose flags an edit wrote over a change,
              \*          until the next request

vars == <<flags, idle, mu, session, left, timer, edit, edits, may, pending, told, crossed>>

Options == {"refusePM", "refusePChat"}
Flags   == {"away", "admin"} \cup Options

ASSUME ChoiceAssumption == Choices \subseteq SUBSET Options /\ Grants \subseteq BOOLEAN

Waiting == [at |-> "idle", opts |-> {}, read |-> {}]
Resting == [at |-> "rest", todo |-> {}, read |-> {}]
NoEdit  == [at |-> "none", todo |-> {}, on |-> {}, read |-> {}, grant |-> FALSE]

\* The state has its types, and a lock is held exactly while its holder is
\* between taking the flags and announcing them.
TypeOK ==
    /\ flags \in [Conns -> SUBSET Flags]
    /\ idle \in [Conns -> 0 .. IdleLimit + 1]
    /\ mu \in [Conns -> {"free", "session", "timer"}]
    /\ session \in [Conns -> [at: {"idle", "pm", "pmSet", "chat", "chatSet", "build",
                                   "post", "lock", "clear", "announce"},
                              opts: SUBSET Options, read: SUBSET Flags]]
    /\ left \in 0 .. MaxRequests
    /\ timer \in [at: {"rest", "next", "set", "announce"}, todo: SUBSET Conns,
                  read: SUBSET Flags]
    /\ edit \in [Editors -> [at: {"none", "next", "set", "announce"}, todo: SUBSET Conns,
                              on: SUBSET Conns, read: SUBSET Flags, grant: BOOLEAN]]
    /\ edits \in 0 .. MaxEdits
    /\ may \subseteq Conns
    /\ pending \in BOOLEAN
    /\ told \subseteq Conns
    /\ crossed \subseteq Conns
    /\ \A c \in Conns :
          /\ mu[c] = "session" <=> session[c].at \in {"clear", "announce"}
          /\ mu[c] = "timer" => timer.at \in {"set", "announce"} /\ c \in timer.todo

Init ==
    /\ may = Admins
    /\ flags = [c \in Conns |-> IF c \in may THEN {"admin"} ELSE {}]
    /\ idle = [c \in Conns |-> 0]
    /\ mu = [c \in Conns |-> "free"]
    /\ session = [c \in Conns |-> Waiting]
    /\ left = MaxRequests
    /\ timer = Resting
    /\ edit = [e \in Editors |-> NoEdit]
    /\ edits = MaxEdits
    /\ pending = FALSE
    /\ told = Conns
    /\ crossed = {}

-----------------------------------------------------------------------------
(* The outbox *)

\* Mutant: processOutbox sends each transaction before it takes the next.
OneAtATime == ~pending

\* processOutbox starts a goroutine for what it takes and is ready again.
OutboxReady == TRUE

\* Flags f of session c are announced to every session.
Post(c, f) ==
    /\ OutboxReady
    /\ pending' = TRUE
    /\ told' = IF f = flags[c] THEN told \cup {c} ELSE told

\* The last goroutine in sendTransaction ends: its peer took what was written.
Deliver ==
    /\ pending
    /\ pending' = FALSE
    /\ UNCHANGED <<flags, idle, mu, session, left, timer, edit, edits, may, told, crossed>>

\* The second half of UserFlags.Set
Write(c, f) ==
    /\ flags' = [flags EXCEPT ![c] = f]
    /\ told' = IF f = flags[c] THEN told ELSE told \ {c}

With(f, flag, set) == IF set THEN f \cup {flag} ELSE f \ {flag}

-----------------------------------------------------------------------------
(* A session: a request, then the end of handleTransaction *)

SGo(c, step) == session' = [session EXCEPT ![c].at = step]

Request(c, first) ==
    /\ session[c].at = "idle"
    /\ left > 0
    /\ left' = left - 1
    /\ session' = [session EXCEPT ![c] = first]
    /\ UNCHANGED <<flags, idle, mu, timer, edit, edits, may, pending,
                   told, crossed>>

\* HandleSetClientUserInfo and HandleTranAgreed (which sends its own session
\* the reply in place of the announcement).
SetUserInfo(c, opts) == Request(c, [Waiting EXCEPT !.at = "pm", !.opts = opts])

\* User information without options
SetNameOnly(c) == Request(c, [Waiting EXCEPT !.at = "build"])

\* A handler that leaves the flags alone
OtherRequest(c) == Request(c, [Waiting EXCEPT !.at = "lock"])

\* The two calls of Flags.Set, neither of which holds the lock of the timer.
ReadFlags(c) ==
    /\ session[c].at \in {"pm", "chat"}
    /\ session' = [session EXCEPT ![c].read = flags[c],
                      ![c].at = IF session[c].at = "pm" THEN "pmSet" ELSE "chatSet"]
    /\ UNCHANGED <<flags, idle, mu, left, timer, edit, edits, may, pending, told, crossed>>

SetOption(c) ==
    /\ session[c].at \in {"pmSet", "chatSet"}
    /\ LET opt == IF session[c].at = "pmSet" THEN "refusePM" ELSE "refusePChat"
       IN Write(c, With(session[c].read, opt, opt \in session[c].opts))
    /\ SGo(c, IF session[c].at = "pmSet" THEN "chat" ELSE "build")
    /\ UNCHANGED <<idle, mu, left, timer, edit, edits, may, pending, crossed>>

\* Mutant: the announcement is made of the flags before the options were set.
BuildOld(c) ==
    /\ session[c].at = "build"
    /\ session' = [session EXCEPT ![c].read = session[c].read, ![c].at = "post"]
    /\ UNCHANGED <<flags, idle, mu, left, timer, edit, edits, may, pending, told, crossed>>

\* NewField copies the flags; the transactions are returned by the handler.
Build(c) ==
    /\ session[c].at = "build"
    /\ session' = [session EXCEPT ![c].read = flags[c], ![c].at = "post"]
    /\ UNCHANGED <<flags, idle, mu, left, timer, edit, edits, may, pending, told, crossed>>

PostReplies(c) ==
    /\ session[c].at = "post"
    /\ Post(c, session[c].read)
    /\ session' = [session EXCEPT ![c] = [Waiting EXCEPT !.at = "lock"]]
    /\ UNCHANGED <<flags, idle, mu, left, timer, edit, edits, may, crossed>>

\* Mutant: only the idle time is reset.
ResetTimeOnly(c) ==
    /\ session[c].at = "lock"
    /\ mu[c] = "free"
    /\ idle' = [idle EXCEPT ![c] = 0]
    /\ session' = [session EXCEPT ![c] = Waiting]
    /\ UNCHANGED <<flags, mu, left, timer, edit, edits, may, pending,
                   told, crossed>>

ResetIdle(c) ==
    /\ session[c].at = "lock"
    /\ mu[c] = "free"
    /\ idle' = [idle EXCEPT ![c] = 0]
    /\ crossed' = crossed \ {c}
    /\ IF "away" \in flags[c]
       THEN /\ mu' = [mu EXCEPT ![c] = "session"]
            /\ session' = [session EXCEPT ![c].at = "clear", ![c].read = flags[c]]
       ELSE /\ session' = [session EXCEPT ![c] = Waiting]
            /\ UNCHANGED mu
    /\ UNCHANGED <<flags, left, timer, edit, edits, may, pending, told>>

ClearAway(c) ==
    /\ session[c].at = "clear"
    /\ Write(c, session[c].read \ {"away"})
    /\ session' = [session EXCEPT ![c] = [Waiting EXCEPT !.at = "announce"]]
    /\ UNCHANGED <<idle, mu, left, timer, edit, edits, may, pending, crossed>>

\* SendAll, and the lock is released.
AnnounceBack(c) ==
    /\ session[c].at = "announce"
    /\ Post(c, flags[c])
    /\ mu' = [mu EXCEPT ![c] = "free"]
    /\ session' = [session EXCEPT ![c] = Waiting]
    /\ UNCHANGED <<flags, idle, left, timer, edit, edits, may, crossed>>

-----------------------------------------------------------------------------
(* keepaliveHandler *)

Tick ==
    /\ timer.at = "rest"
    /\ timer' = [Resting EXCEPT !.at = "next", !.todo = Conns]
    /\ UNCHANGED <<flags, idle, mu, session, left, edit, edits, may, pending, told, crossed>>

NextTodo(c) == IF timer.todo = {c} THEN Resting
               ELSE [Resting EXCEPT !.at = "next", !.todo = timer.todo \ {c}]

\* Mutant: only the round in which the time passes the limit marks a session.
CheckIdleOnce(c) ==
    /\ timer.at = "next" /\ c \in timer.todo
    /\ mu[c] = "free"
    /\ IF idle[c] = IdleLimit
       THEN /\ idle' = [idle EXCEPT ![c] = @ + 1]
            /\ mu' = [mu EXCEPT ![c] = "timer"]
            /\ timer' = [timer EXCEPT !.at = "set", !.read = flags[c]]
       ELSE /\ idle' = [idle EXCEPT ![c] = IF @ > IdleLimit THEN @ ELSE @ + 1]
            /\ timer' = NextTodo(c)
            /\ UNCHANGED mu
    /\ UNCHANGED <<flags, session, left, edit, edits, may, pending, told, crossed>>

CheckIdle(c) ==
    LET time == IF idle[c] > IdleLimit THEN idle[c] ELSE idle[c] + 1
    IN /\ timer.at = "next" /\ c \in timer.todo
       /\ mu[c] = "free"
       /\ idle' = [idle EXCEPT ![c] = time]
       /\ IF time > IdleLimit /\ "away" \notin flags[c]
          THEN /\ mu' = [mu EXCEPT ![c] = "timer"]
               /\ timer' = [timer EXCEPT !.at = "set", !.read = flags[c]]
          ELSE /\ timer' = NextTodo(c)
               /\ UNCHANGED mu
       /\ UNCHANGED <<flags, session, left, edit, edits, may, pending,
                      told, crossed>>

SetAway(c) ==
    /\ timer.at = "set" /\ mu[c] = "timer"
    /\ Write(c, timer.read \cup {"away"})
    /\ timer' = [timer EXCEPT !.at = "announce", !.read = {}]
    /\ UNCHANGED <<idle, mu, session, left, edit, edits, may, pending, crossed>>

\* Mutant: the lock is not released.
AnnounceKeepsLock(c) ==
    /\ timer.at = "announce" /\ mu[c] = "timer"
    /\ Post(c, flags[c])
    /\ timer' = NextTodo(c)
    /\ UNCHANGED <<flags, idle, mu, session, left, edit, edits, may, crossed>>

AnnounceAway(c) ==
    /\ timer.at = "announce" /\ mu[c] = "timer"
    /\ Post(c, flags[c])
    /\ mu' = [mu EXCEPT ![c] = "free"]
    /\ timer' = NextTodo(c)
    /\ UNCHANGED <<flags, idle, session, left, edit, edits, may, crossed>>

-----------------------------------------------------------------------------
(* HandleSetUser, when the account has been updated.  Nothing keeps the loops   *)
(* of two administrators apart, not even over one account.                      *)

SetUser(e, l, grant) ==
    /\ edit[e].at = "none"
    /\ edits > 0
    /\ edits' = edits - 1
    /\ edit' = [edit EXCEPT ![e] =
                  [at |-> "next", todo |-> {c \in Conns : LoginOf[c] = l},
                   on |-> {}, read |-> {}, grant |-> grant]]
    /\ UNCHANGED <<flags, idle, mu, session, left, timer, may, pending,
                   told, crossed>>

EditRead(e, c) ==
    /\ edit[e].at = "next" /\ c \in edit[e].todo
    /\ edit' = [edit EXCEPT ![e].at = "set", ![e].on = {c}, ![e].todo = @ \ {c},
                            ![e].read = flags[c]]
    /\ UNCHANGED <<flags, idle, mu, session, left, timer, edits, may, pending, told, crossed>>

\* The flag is set by what the session's copy of the account allowed so far;
\* only then does the copy get the new access.
EditWrite(e, c) ==
    /\ edit[e].at = "set" /\ c \in edit[e].on
    /\ Write(c, With(edit[e].read, "admin", c \in may))
    /\ crossed' = IF edit[e].read = flags[c] THEN crossed ELSE crossed \cup {c}
    /\ may' = IF edit[e].grant THEN may \cup {c} ELSE may \ {c}
    /\ edit' = [edit EXCEPT ![e].at = "announce", ![e].read = {}]
    /\ UNCHANGED <<idle, mu, session, left, timer, edits, pending>>

EditAnnounce(e, c) ==
    /\ edit[e].at = "announce" /\ c \in edit[e].on
    /\ Post(c, flags[c])
    /\ edit' = IF edit[e].todo = {} THEN [edit EXCEPT ![e] = NoEdit]
               ELSE [edit EXCEPT ![e].at = "next", ![e].on = {}]
    /\ UNCHANGED <<flags, idle, mu, session, left, timer, edits, may, crossed>>

-----------------------------------------------------------------------------
Ask(c) ==
    \/ \E opts \in Choices : SetUserInfo(c, opts)
    \/ SetNameOnly(c)
    \/ OtherRequest(c)

Serve(c) ==
    \/ ReadFlags(c) \/ SetOption(c) \/ Build(c) \/ PostReplies(c)
    \/ ResetIdle(c) \/ ClearAway(c) \/ AnnounceBack(c)

Timer == Tick \/ \E c \in Conns : CheckIdle(c) \/ SetAway(c) \/ AnnounceAway(c)

Edit(e) == \E c \in Conns : EditRead(e, c) \/ EditWrite(e, c) \/ EditAnnounce(e, c)

Next ==
    \/ \E c \in Askers : Ask(c)
    \/ \E c \in Conns : Serve(c)
    \/ Deliver
    \/ Timer
    \/ \E e \in Editors :
         \/ \E l \in Logins, grant \in Grants : SetUser(e, l, grant)
         \/ Edit(e)

Spec == Init /\ [][Next]_vars

\* Goroutines run, the ticker ticks, and a lock that is free again and again is
\* got at last (sync.Mutex does not starve).  Peers promise nothing.
FairSpec ==
    /\ Spec
    /\ \A c \in Conns : SF_vars(Serve(c))
    /\ SF_vars(Timer)
    /\ \A e \in Editors : WF_vars(Edit(e))

-----------------------------------------------------------------------------
(* Properties *)

AtWorkOn(c) == session[c].at # "idle" \/ mu[c] = "timer" \/ \E e \in Editors : c \in edit[e].on

\* However the timer, the session and an administrator get in each other's
\* way, the flags that a session ends up with have been announced after the
\* last change of them: nobody is left with older ones for want of a message.
ChangeIsAnnounced == \A c \in Conns : AtWorkOn(c) \/ c \in told

\* A session whose requests have been handled is away only if it has been
\* inactive for longer than the limit, unless an edit of its account wrote its
\* flags back as they had been before.
AwayMeansIdle ==
    \A c \in Conns \ crossed :
        ~AtWorkOn(c) /\ "away" \in flags[c] => idle[c] > IdleLimit

\* A session that asks for nothing more is away in the end and stays so, even
\* if the flag got lost to somebody who wrote older flags.
InactiveGoesAway == \A c \in Conns : <>[]("away" \in flags[c])

\* A peer that no longer reads holds up nobody: every request is handled and
\* the timer, which keeps the lock of a session while it announces, goes on.
NobodyIsHeldUp ==
    /\ \A c \in Conns : session[c].at # "idle" ~> session[c].at = "idle"
    /\ []<>(timer.at = "rest")
=============================================================================
