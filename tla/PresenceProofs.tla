--------------------------- MODULE PresenceProofs ---------------------------
(***************************************************************************)
(* Proofs about Presence, for any number of sessions, requests and edits:  *)
(* the state has its types and the locks are held by whom they should be,  *)
(* flags that nobody is at work on have been announced since they were     *)
(* last changed, and a session is away only if it has been inactive.       *)
(*                                                                         *)
(* The invariant says who still owes an announcement while somebody is at  *)
(* work: a handler with the present flags in its reply, or whoever wrote   *)
(* them after that reply was put together.                                 *)
(***************************************************************************)
EXTENDS Presence, TLAPS

\* The timer holds the lock of one session at most.
OneAway == \A c, d \in Conns : mu[c] = "timer" /\ mu[d] = "timer" => c = d

\* Each edit is at work on one session at most.
OneEdit ==
    \A e \in Editors :
        /\ edit[e].at \in {"none", "next"} => edit[e].on = {}
        /\ \A c, d \in edit[e].on : c = d

\* Somebody will announce the flags of session c as they are.
Announcing(c) ==
    \/ session[c].at \in {"pm", "pmSet", "chat", "chatSet", "build", "clear", "announce"}
    \/ session[c].at = "post" /\ session[c].read = flags[c]
    \/ mu[c] = "timer" /\ timer.at = "announce"
    \/ \E e \in Editors : c \in edit[e].on /\ edit[e].at = "announce"

Owed == \A c \in Conns : c \in told \/ Announcing(c)

\* The idle time stays while the timer has the lock, and a session that waits
\* or has just come back is not away without having been inactive.
Inactive(c) ==
    /\ mu[c] = "timer" => idle[c] > IdleLimit
    /\ c \notin crossed /\ session[c].at \in {"idle", "announce"} /\ "away" \in flags[c]
       => idle[c] > IdleLimit

Inv ==
    /\ TypeOK
    /\ OneAway
    /\ OneEdit
    /\ Owed
    /\ \A c \in Conns : Inactive(c)

-----------------------------------------------------------------------------
(* What the steps change *)

\* Session c goes from one of the steps `from' to one of the steps `to'; the
\* other sessions stay where they are.
Goes(c, from, to) ==
    /\ session[c].at \in from
    /\ session'[c].at \in to
    /\ \A d \in Conns \ {c} : session'[d] = session[d]

\* f changes at one session only.
Sets(f, c, v) == f'[c] = v /\ \A d \in Conns \ {c} : f'[d] = f[d]

\* The flags of session c are set to f.
Wrote(c, f) ==
    /\ Sets(flags, c, f)
    /\ told \ {c} \subseteq told'
    /\ f = flags[c] => told' = told

\* The flags f of session c are announced.
Sent(c, f) ==
    /\ told \subseteq told'
    /\ f = flags[c] => c \in told'

others == <<timer, edit>>

Nothing == UNCHANGED <<flags, idle, mu, session, timer, edit, told, crossed>>

Asked(c) ==
    /\ Goes(c, {"idle"}, {"pm", "build", "lock"})
    /\ UNCHANGED <<flags, idle, mu, others, told, crossed>>

FlagsRead(c) ==
    /\ Goes(c, {"pm", "chat"}, {"pmSet", "chatSet"})
    /\ UNCHANGED <<flags, idle, mu, others, told, crossed>>

OptionSet(c) ==
    /\ Goes(c, {"pmSet", "chatSet"}, {"chat", "build"})
    /\ \E f : Wrote(c, f)
    /\ UNCHANGED <<idle, mu, others, crossed>>

Built(c) ==
    /\ Goes(c, {"build"}, {"post"})
    /\ session'[c].read = flags[c]
    /\ UNCHANGED <<flags, idle, mu, others, told, crossed>>

Posted(c) ==
    /\ Goes(c, {"post"}, {"lock"})
    /\ Sent(c, session[c].read)
    /\ UNCHANGED <<flags, idle, mu, others, crossed>>

Reset(c) ==
    /\ mu[c] = "free"
    /\ Sets(idle, c, 0)
    /\ crossed' = crossed \ {c}
    /\ \/ "away" \notin flags[c] /\ Goes(c, {"lock"}, {"idle"}) /\ UNCHANGED mu
       \/ Goes(c, {"lock"}, {"clear"}) /\ Sets(mu, c, "session")
    /\ UNCHANGED <<flags, others, told>>

Cleared(c) ==
    /\ Goes(c, {"clear"}, {"announce"})
    /\ \E f : "away" \notin f /\ Wrote(c, f)
    /\ UNCHANGED <<idle, mu, others, crossed>>

Back(c) ==
    /\ Goes(c, {"announce"}, {"idle"})
    /\ Sent(c, flags[c])
    /\ Sets(mu, c, "free")
    /\ UNCHANGED <<flags, idle, others, crossed>>

Ticked ==
    /\ timer.at = "rest"
    /\ timer'.at = "next"
    /\ UNCHANGED <<flags, idle, mu, session, edit, told, crossed>>

Passed(c) ==
    /\ timer.at = "next"
    /\ timer'.at \in {"rest", "next"}
    /\ mu[c] = "free"
    /\ \E time : Sets(idle, c, time) /\ (idle[c] > IdleLimit => time > IdleLimit)
    /\ UNCHANGED <<flags, mu, session, edit, told, crossed>>

Taken(c) ==
    /\ timer.at = "next"
    /\ timer'.at = "set"
    /\ timer'.todo = timer.todo
    /\ c \in timer.todo
    /\ mu[c] = "free"
    /\ Sets(mu, c, "timer")
    /\ \E time : Sets(idle, c, time) /\ time > IdleLimit
    /\ UNCHANGED <<flags, session, edit, told, crossed>>

AwaySet(c) ==
    /\ mu[c] = "timer"
    /\ timer.at = "set"
    /\ timer'.at = "announce"
    /\ timer'.todo = timer.todo
    /\ \E f : Wrote(c, f)
    /\ UNCHANGED <<idle, mu, session, edit, crossed>>

AwayAnnounced(c) ==
    /\ mu[c] = "timer"
    /\ timer.at = "announce"
    /\ timer'.at \in {"rest", "next"}
    /\ Sent(c, flags[c])
    /\ Sets(mu, c, "free")
    /\ UNCHANGED <<flags, idle, session, edit, crossed>>

\* Edit e goes from one of the steps `from' to one of the steps `to' and is then
\* at work on the sessions `on'; the other edits stay where they are.
EditGoes(e, from, to, on) ==
    /\ edit[e].at \in from
    /\ edit'[e].at \in to
    /\ edit'[e].on = on
    /\ \A x \in Editors \ {e} : edit'[x] = edit[x]

EditBegun(e) ==
    /\ EditGoes(e, {"none", "next"}, {"next"}, {})
    /\ UNCHANGED <<flags, idle, mu, session, timer, told, crossed>>

Picked(e, c) ==
    /\ EditGoes(e, {"next"}, {"set"}, {c})
    /\ UNCHANGED <<flags, idle, mu, session, timer, told, crossed>>

Edited(e, c) ==
    /\ c \in edit[e].on
    /\ EditGoes(e, {"set"}, {"announce"}, edit[e].on)
    /\ \E f : Wrote(c, f) /\ ("away" \in f /\ "away" \notin flags[c] => c \in crossed')
    /\ crossed \subseteq crossed'
    /\ UNCHANGED <<idle, mu, session, timer>>

EditDone(e, c) ==
    /\ c \in edit[e].on
    /\ EditGoes(e, {"announce"}, {"none", "next"}, {})
    /\ Sent(c, flags[c])
    /\ UNCHANGED <<flags, idle, mu, session, timer, crossed>>

\* A step of the goroutine of session c.
Served(c) ==
    \/ Asked(c) \/ FlagsRead(c) \/ OptionSet(c) \/ Built(c) \/ Posted(c)
    \/ Reset(c) \/ Cleared(c) \/ Back(c)

\* A step of the timer or of an edit that is about session c.
Visited(c) ==
    \/ Passed(c) \/ Taken(c) \/ AwaySet(c) \/ AwayAnnounced(c)
    \/ \E e \in Editors : Picked(e, c) \/ Edited(e, c) \/ EditDone(e, c)

Effect ==
    \/ Nothing
    \/ Ticked
    \/ \E e \in Editors : EditBegun(e)
    \/ \E c \in Conns : Served(c) \/ Visited(c)

\* The types alone, without who holds the locks.
Types ==
    /\ flags \in [Conns -> SUBSET Flags]
    /\ idle \in [Conns -> 0 .. IdleLimit + 1]
    /\ mu \in [Conns -> {"free", "session", "timer"}]
    /\ session \in [Conns -> [at: {"idle", "pm", "pmSet", "chat", "chatSet", "build",
                                   "post", "lock", "clear", "announce"},
                              opts: SUBSET Options, read: SUBSET Flags]]
    /\ left \in 0 .. MaxRequests
    /\ timer \in [at: {"rest", "next", "set", "announce"}, todo: SUBSET Conns,
                  read: SUBSET Flags]
    /\ edit \in [Editors -> [at: {"none", "next", "set", "announce"}, todo: SUBSET Conns,
                              on: SUBSET Conns, read: SUBSET Flags, grant: BOOLEAN]]
    /\ edits \in 0 .. MaxEdits
    /\ may \subseteq Conns
    /\ pending \in BOOLEAN
    /\ told \subseteq Conns
    /\ crossed \subseteq Conns

\* Who holds the lock of session c.
Held(c) ==
    /\ mu[c] = "session" <=> session[c].at \in {"clear", "announce"}
    /\ mu[c] = "timer" => timer.at \in {"set", "announce"} /\ c \in timer.todo

-----------------------------------------------------------------------------
(* Each step has one of these effects *)

\* What UserFlags.Set and the outbox do to flags and announcements.
LEMMA WriteEffect ==
    ASSUME Types, NEW c \in Conns, NEW f \in SUBSET Flags, Write(c, f)
    PROVE  /\ Wrote(c, f)
           /\ flags' \in [Conns -> SUBSET Flags]
           /\ told' \subseteq Conns
BY DEF Types, Write, Wrote, Sets

\* What an announcement does.
LEMMA PostEffect ==
    ASSUME Types, NEW c \in Conns, NEW f, Post(c, f)
    PROVE  /\ Sent(c, f)
           /\ told' \subseteq Conns
           /\ pending' \in BOOLEAN
BY DEF Types, Post, Sent

\* Every step of a session keeps the types and has one of the effects above.
LEMMA ServeCases ==
    ASSUME Types, NEW c \in Conns, Ask(c) \/ Serve(c)
    PROVE  Types' /\ Served(c)
<1> USE DEF Types
<1>0. Waiting \in [at : {"idle"}, opts : SUBSET Options, read : SUBSET Flags]
  BY DEF Waiting
<1>l. [Waiting EXCEPT !.at = "lock"] \in [at : {"lock"}, opts : SUBSET Options, read : SUBSET Flags]
  BY DEF Waiting
<1>b. [Waiting EXCEPT !.at = "build"] \in [at : {"build"}, opts : SUBSET Options, read : SUBSET Flags]
  BY DEF Waiting
<1>n. [Waiting EXCEPT !.at = "announce"]
         \in [at : {"announce"}, opts : SUBSET Options, read : SUBSET Flags]
  BY DEF Waiting
<1>p. ASSUME NEW o \in SUBSET Options
      PROVE  [Waiting EXCEPT !.at = "pm", !.opts = o]
                \in [at : {"pm"}, opts : SUBSET Options, read : SUBSET Flags]
  BY DEF Waiting
<1>s. ASSUME NEW a \in {"idle", "lock", "announce"},
             NEW w \in [at : {a}, opts : SUBSET Options, read : SUBSET Flags],
             session' = [session EXCEPT ![c] = w]
      PROVE  /\ session'[c].at = a
             /\ \A d \in Conns \ {c} : session'[d] = session[d]
             /\ session' \in [Conns -> [at: {"idle", "pm", "pmSet", "chat", "chatSet", "build",
                                             "post", "lock", "clear", "announce"},
                                        opts: SUBSET Options, read: SUBSET Flags]]
  BY <1>s
<1>1. ASSUME NEW first \in [at : {"pm", "build", "lock"}, opts : SUBSET Options, read : SUBSET Flags],
             Request(c, first)
      PROVE  Types' /\ Asked(c)
  <2>1. left' \in 0 .. MaxRequests
    BY <1>1, IdleAssumption DEF Request
  <2>2. Types'
    BY <1>1, <2>1 DEF Request
  <2>3. Asked(c)
    BY <1>1 DEF Request, Asked, Goes, others
  <2> QED BY <2>2, <2>3
<1>2. CASE Ask(c)
  <2>1. ASSUME NEW opts \in Choices, SetUserInfo(c, opts) PROVE Types' /\ Asked(c)
    <3>1. opts \in SUBSET Options
      BY ChoiceAssumption DEF Options
    <3>2. [Waiting EXCEPT !.at = "pm", !.opts = opts]
             \in [at : {"pm", "build", "lock"}, opts : SUBSET Options, read : SUBSET Flags]
      BY <1>p, <3>1
    <3> QED BY <1>1, <2>1, <3>2 DEF SetUserInfo
  <2>2. CASE SetNameOnly(c)
    <3>1. [Waiting EXCEPT !.at = "build"]
             \in [at : {"pm", "build", "lock"}, opts : SUBSET Options, read : SUBSET Flags]
      BY <1>b
    <3> QED BY <1>1, <2>2, <3>1 DEF SetNameOnly, Served
  <2>3. CASE OtherRequest(c)
    <3>1. [Waiting EXCEPT !.at = "lock"]
             \in [at : {"pm", "build", "lock"}, opts : SUBSET Options, read : SUBSET Flags]
      BY <1>l
    <3> QED BY <1>1, <2>3, <3>1 DEF OtherRequest, Served
  <2> QED BY <1>2, <2>1, <2>2, <2>3 DEF Ask, Served
<1>3. CASE ReadFlags(c)
  <2>1. FlagsRead(c)
    BY <1>3 DEF ReadFlags, FlagsRead, Goes, others
  <2>2. Types'
    BY <1>3 DEF ReadFlags
  <2> QED BY <2>1, <2>2 DEF Served
<1>4. CASE SetOption(c)
  <2>1. PICK f \in SUBSET Flags : Write(c, f)
    BY <1>4 DEF SetOption, With, Flags, Options
  <2>2. /\ session' = [session EXCEPT ![c].at = IF session[c].at = "pmSet" THEN "chat" ELSE "build"]
        /\ session[c].at \in {"pmSet", "chatSet"}
        /\ UNCHANGED <<idle, mu, left, timer, edit, edits, may, pending, crossed>>
    BY <1>4 DEF SetOption, SGo
  <2>3. OptionSet(c)
    BY <2>1, <2>2, WriteEffect DEF OptionSet, Goes, others
  <2>4. Types'
    <3>1. session' \in [Conns -> [at: {"idle", "pm", "pmSet", "chat", "chatSet", "build",
                                      "post", "lock", "clear", "announce"},
                                 opts: SUBSET Options, read: SUBSET Flags]]
      BY <2>2
    <3>2. flags' \in [Conns -> SUBSET Flags] /\ told' \subseteq Conns
      BY <2>1, WriteEffect
    <3> QED BY <2>2, <3>1, <3>2
  <2> QED BY <2>3, <2>4 DEF Served
<1>5. CASE Build(c)
  <2>1. Built(c)
    BY <1>5 DEF Build, Built, Goes, others
  <2>2. Types'
    BY <1>5 DEF Build
  <2> QED BY <2>1, <2>2 DEF Served
<1>6. CASE PostReplies(c)
  <2>0. session' = [session EXCEPT ![c] = [Waiting EXCEPT !.at = "lock"]]
    BY <1>6 DEF PostReplies
  <2>1. Goes(c, {"post"}, {"lock"})
    BY <1>6, <1>l, <1>s, <2>0 DEF PostReplies, Goes
  <2>2. Posted(c)
    BY <1>6, <2>1, PostEffect DEF PostReplies, Posted, others
  <2>3. Types'
    BY <1>6, <1>l, <1>s, <2>0, PostEffect DEF PostReplies
  <2> QED BY <2>2, <2>3 DEF Served
<1>7. CASE ResetIdle(c)
  <2>1. Sets(idle, c, 0) /\ idle' \in [Conns -> 0 .. IdleLimit + 1]
    BY <1>7, IdleAssumption DEF ResetIdle, Sets
  <2>2. CASE "away" \in flags[c]
    <3>0. /\ session' = [session EXCEPT ![c].at = "clear", ![c].read = flags[c]]
          /\ mu' = [mu EXCEPT ![c] = "session"]
          /\ session[c].at = "lock" /\ mu[c] = "free"
          /\ crossed' = crossed \ {c}
          /\ UNCHANGED <<flags, left, timer, edit, edits, may, pending, told>>
      BY <1>7, <2>2 DEF ResetIdle
    <3>1. Goes(c, {"lock"}, {"clear"}) /\ Sets(mu, c, "session")
      BY <3>0 DEF Goes, Sets
    <3>2. Reset(c)
      BY <2>1, <3>0, <3>1 DEF Reset, others
    <3>3. session' \in [Conns -> [at: {"idle", "pm", "pmSet", "chat", "chatSet", "build",
                                       "post", "lock", "clear", "announce"},
                                  opts: SUBSET Options, read: SUBSET Flags]]
      <4>1. [session[c] EXCEPT !.at = "clear", !.read = flags[c]]
               \in [at : {"clear"}, opts: SUBSET Options, read: SUBSET Flags]
        <5>1. session[c] \in [at: {"idle", "pm", "pmSet", "chat", "chatSet", "build",
                                   "post", "lock", "clear", "announce"},
                              opts: SUBSET Options, read: SUBSET Flags]
              /\ flags[c] \in SUBSET Flags
          OBVIOUS
        <5> HIDE DEF Types
        <5> QED BY <5>1
      <4>2. session' = [session EXCEPT ![c] = [session[c] EXCEPT !.at = "clear", !.read = flags[c]]]
        BY <3>0
      <4> QED BY <4>1, <4>2
    <3>4. Types'
      BY <2>1, <3>0, <3>3
    <3> QED BY <3>2, <3>4 DEF Served
  <2>3. CASE "away" \notin flags[c]
    <3>0. session' = [session EXCEPT ![c] = Waiting] /\ UNCHANGED mu
      BY <1>7, <2>3 DEF ResetIdle
    <3>1. Goes(c, {"lock"}, {"idle"})
      BY <1>0, <1>7, <1>s, <3>0 DEF ResetIdle, Goes
    <3>2. Reset(c)
      BY <1>7, <2>1, <2>3, <3>0, <3>1 DEF ResetIdle, Reset, others
    <3>3. Types'
      BY <1>0, <1>7, <1>s, <2>1, <3>0 DEF ResetIdle
    <3> QED BY <3>2, <3>3 DEF Served
  <2> QED BY <2>2, <2>3
<1>8. CASE ClearAway(c)
  <2>0. session' = [session EXCEPT ![c] = [Waiting EXCEPT !.at = "announce"]]
    BY <1>8 DEF ClearAway
  <2>1. PICK f \in SUBSET Flags : f = session[c].read \ {"away"} /\ Write(c, f)
    BY <1>8 DEF ClearAway
  <2>2. "away" \notin f /\ Wrote(c, f)
    BY <2>1, WriteEffect
  <2>3. Goes(c, {"clear"}, {"announce"})
    BY <1>8, <1>n, <1>s, <2>0 DEF ClearAway, Goes
  <2>4. Cleared(c)
    BY <1>8, <2>2, <2>3 DEF ClearAway, Cleared, others
  <2>5. Types'
    BY <1>8, <1>n, <1>s, <2>0, <2>1, WriteEffect DEF ClearAway
  <2> QED BY <2>4, <2>5 DEF Served
<1>9. CASE AnnounceBack(c)
  <2>0. session' = [session EXCEPT ![c] = Waiting] /\ mu' = [mu EXCEPT ![c] = "free"]
    BY <1>9 DEF AnnounceBack
  <2>1. Goes(c, {"announce"}, {"idle"}) /\ Sets(mu, c, "free")
    BY <1>0, <1>9, <1>s, <2>0 DEF AnnounceBack, Goes, Sets
  <2>2. Back(c)
    BY <1>9, <2>1, PostEffect DEF AnnounceBack, Back, others
  <2>3. Types'
    BY <1>0, <1>9, <1>s, <2>0, PostEffect DEF AnnounceBack
  <2> QED BY <2>2, <2>3 DEF Served
<1> QED BY <1>2, <1>3, <1>4, <1>5, <1>6, <1>7, <1>8, <1>9 DEF Serve

\* Every step of the timer keeps the types and has one of the effects above.
LEMMA TimerCases ==
    ASSUME Types, Timer
    PROVE  Types' /\ (Ticked \/ \E c \in Conns : Visited(c))
<1> DEFINE Timers == [at: {"rest", "next", "set", "announce"}, todo: SUBSET Conns, read: SUBSET Flags]
<1> USE DEF Types
<1>0. ASSUME NEW c \in Conns
      PROVE  NextTodo(c) \in Timers /\ NextTodo(c).at \in {"rest", "next"}
  BY DEF NextTodo, Resting
<1>1. CASE Tick
  <2>1. timer' \in Timers /\ timer'.at = "next"
    BY <1>1 DEF Tick, Resting
  <2> QED BY <1>1, <2>1 DEF Tick, Ticked
<1>2. ASSUME NEW c \in Conns, CheckIdle(c)
      PROVE  Types' /\ Visited(c)
  <2>1. PICK time \in 0 .. IdleLimit + 1 :
           /\ time = IF idle[c] > IdleLimit THEN idle[c] ELSE idle[c] + 1
           /\ idle[c] > IdleLimit => time > IdleLimit
    BY IdleAssumption
  <2>2. idle' = [idle EXCEPT ![c] = time]
    BY <1>2, <2>1 DEF CheckIdle
  <2>3. Sets(idle, c, time) /\ idle' \in [Conns -> 0 .. IdleLimit + 1]
    BY <2>2 DEF Sets
  <2>4. CASE time > IdleLimit /\ "away" \notin flags[c]
    <3>1. /\ mu' = [mu EXCEPT ![c] = "timer"]
          /\ timer' = [timer EXCEPT !.at = "set", !.read = flags[c]]
          /\ timer.at = "next" /\ c \in timer.todo /\ mu[c] = "free"
          /\ UNCHANGED <<flags, session, left, edit, edits, may, pending, told, crossed>>
      BY <1>2, <2>1, <2>4 DEF CheckIdle
    <3>2. timer' \in Timers /\ timer'.at = "set" /\ timer'.todo = timer.todo
      BY <3>1
    <3>3. Taken(c)
      BY <2>3, <2>4, <3>1, <3>2 DEF Taken, Sets
    <3>4. Types'
      BY <2>3, <3>1, <3>2
    <3> QED BY <3>3, <3>4 DEF Visited
  <2>5. CASE ~(time > IdleLimit /\ "away" \notin flags[c])
    <3>1. /\ timer' = NextTodo(c)
          /\ timer.at = "next" /\ mu[c] = "free"
          /\ UNCHANGED <<mu, flags, session, left, edit, edits, may, pending, told, crossed>>
      BY <1>2, <2>1, <2>5 DEF CheckIdle
    <3>2. Passed(c)
      BY <1>0, <2>1, <2>3, <3>1 DEF Passed
    <3>3. Types'
      BY <1>0, <2>3, <3>1
    <3> QED BY <3>2, <3>3 DEF Visited
  <2> QED BY <2>4, <2>5
<1>3. ASSUME NEW c \in Conns, SetAway(c)
      PROVE  Types' /\ Visited(c)
  <2>1. PICK f \in SUBSET Flags : Write(c, f)
    BY <1>3 DEF SetAway, Flags
  <2>2. /\ timer' = [timer EXCEPT !.at = "announce", !.read = {}]
        /\ timer.at = "set" /\ mu[c] = "timer"
        /\ UNCHANGED <<idle, mu, session, left, edit, edits, may, pending, crossed>>
    BY <1>3 DEF SetAway
  <2>3. timer' \in Timers /\ timer'.at = "announce" /\ timer'.todo = timer.todo
    BY <2>2
  <2>4. AwaySet(c)
    BY <2>1, <2>2, <2>3, WriteEffect DEF AwaySet
  <2>5. Types'
    BY <2>1, <2>2, <2>3, WriteEffect
  <2> QED BY <2>4, <2>5 DEF Visited
<1>4. ASSUME NEW c \in Conns, AnnounceAway(c)
      PROVE  Types' /\ Visited(c)
  <2>1. AwayAnnounced(c)
    BY <1>0, <1>4, PostEffect DEF AnnounceAway, AwayAnnounced, Sets
  <2>2. Types'
    BY <1>0, <1>4, PostEffect DEF AnnounceAway
  <2> QED BY <2>1, <2>2 DEF Visited
<1> QED BY <1>1, <1>2, <1>3, <1>4 DEF Timer

\* Every step of an edit keeps the types and has one of the effects above.
LEMMA EditCases ==
    ASSUME Types, NEW e \in Editors,
           Edit(e) \/ \E l \in Logins, grant \in Grants : SetUser(e, l, grant)
    PROVE  Types' /\ (EditBegun(e) \/ \E c \in Conns : Visited(c))
<1> DEFINE Edits == [at: {"none", "next", "set", "announce"}, todo: SUBSET Conns,
                     on: SUBSET Conns, read: SUBSET Flags, grant: BOOLEAN]
<1> USE DEF Types
<1>1. ASSUME NEW l \in Logins, NEW grant \in Grants, SetUser(e, l, grant)
      PROVE  Types' /\ EditBegun(e)
  <2>0. grant \in BOOLEAN
    BY ChoiceAssumption
  <2>1. edit' \in [Editors -> Edits] /\ EditGoes(e, {"none", "next"}, {"next"}, {})
    BY <1>1, <2>0 DEF SetUser, EditGoes
  <2>2. edits' \in 0 .. MaxEdits
    BY <1>1, IdleAssumption DEF SetUser
  <2>3. EditBegun(e)
    BY <1>1, <2>1 DEF SetUser, EditBegun
  <2>4. Types'
    BY <1>1, <2>1, <2>2 DEF SetUser
  <2> QED BY <2>3, <2>4
<1>2. ASSUME NEW c \in Conns, EditRead(e, c)
      PROVE  Types' /\ Visited(c)
  <2>1. edit' \in [Editors -> Edits] /\ EditGoes(e, {"next"}, {"set"}, {c})
    BY <1>2 DEF EditRead, EditGoes
  <2>2. Picked(e, c)
    BY <1>2, <2>1 DEF EditRead, Picked
  <2>3. Types'
    BY <1>2, <2>1 DEF EditRead
  <2> QED BY <2>2, <2>3 DEF Visited
<1>3. ASSUME NEW c \in Conns, EditWrite(e, c)
      PROVE  Types' /\ Visited(c)
  <2>0. PICK f \in SUBSET Flags : f = With(edit[e].read, "admin", c \in may)
    BY DEF With, Flags
  <2>1. Write(c, f)
    BY <1>3, <2>0 DEF EditWrite
  <2>2. edit' \in [Editors -> Edits] /\ EditGoes(e, {"set"}, {"announce"}, edit[e].on)
    <3>1. /\ edit' = [edit EXCEPT ![e].at = "announce", ![e].read = {}]
          /\ edit \in [Editors -> Edits] /\ edit[e].at = "set"
      BY <1>3 DEF EditWrite
    <3>2. PICK x \in Edits : x = [edit[e] EXCEPT !.at = "announce", !.read = {}]
                            /\ x.at = "announce" /\ x.on = edit[e].on
      <4>1. PICK w \in Edits : w = edit[e]
        BY <3>1
      <4>2. [w EXCEPT !.at = "announce", !.read = {}] \in Edits
        OBVIOUS
      <4>3. /\ [w EXCEPT !.at = "announce", !.read = {}].at = "announce"
            /\ [w EXCEPT !.at = "announce", !.read = {}].on = w.on
        OBVIOUS
      <4> QED BY <4>1, <4>2, <4>3
    <3>3. edit' = [edit EXCEPT ![e] = x]
      BY <3>1, <3>2
    <3> HIDE DEF Edits
    <3>4. edit' \in [Editors -> Edits]
      BY <3>1, <3>2, <3>3
    <3>5. edit'[e] = x /\ \A d \in Editors \ {e} : edit'[d] = edit[d]
      BY <3>1, <3>3
    <3> QED BY <3>1, <3>2, <3>4, <3>5 DEF EditGoes
  <2>3. "away" \in f /\ "away" \notin flags[c] => edit[e].read # flags[c]
    BY <2>0 DEF With
  <2>4. Edited(e, c)
    BY <1>3, <2>1, <2>2, <2>3, WriteEffect DEF EditWrite, Edited
  <2>5. Types'
    BY <1>3, <2>1, <2>2, WriteEffect DEF EditWrite
  <2> QED BY <2>4, <2>5 DEF Visited
<1>4. ASSUME NEW c \in Conns, EditAnnounce(e, c)
      PROVE  Types' /\ Visited(c)
  <2>1. edit' \in [Editors -> Edits] /\ EditGoes(e, {"announce"}, {"none", "next"}, {})
    BY <1>4 DEF EditAnnounce, EditGoes, NoEdit
  <2>2. EditDone(e, c)
    BY <1>4, <2>1, PostEffect DEF EditAnnounce, EditDone
  <2>3. Types'
    BY <1>4, <2>1, PostEffect DEF EditAnnounce
  <2> QED BY <2>2, <2>3 DEF Visited
<1> QED BY <1>1, <1>2, <1>3, <1>4 DEF Edit

\* Every step keeps the types and has one of the effects above.
LEMMA StepCases ==
    ASSUME Types, [Next]_vars
    PROVE  Types' /\ Effect
<1>1. CASE UNCHANGED vars
  BY <1>1 DEF vars, Types, Effect, Nothing
<1>2. CASE Deliver
  <2>1. pending' \in BOOLEAN
    BY <1>2 DEF Deliver
  <2> QED BY <1>2, <2>1 DEF Deliver, Types, Effect, Nothing
<1>3. ASSUME NEW c \in Conns, Ask(c) \/ Serve(c)
      PROVE  Types' /\ Effect
  BY <1>3, ServeCases DEF Effect
<1>4. Askers \subseteq Conns
  BY LoginAssumption
<1> QED BY <1>1, <1>2, <1>3, <1>4, TimerCases, EditCases DEF Next, Effect

-----------------------------------------------------------------------------
(* The invariant is inductive *)

\* A lock is taken and released by its holder only, and the timer holds one at
\* most.
LEMMA HeldStep ==
    ASSUME OneAway, \A d \in Conns : Held(d), Effect
    PROVE  OneAway' /\ \A d \in Conns : Held(d)'
<1>1. CASE Nothing
  BY <1>1 DEF OneAway, Held, Nothing
<1>2. CASE Ticked
  BY <1>2 DEF OneAway, Held, Ticked
<1>3. ASSUME NEW e \in Editors, EditBegun(e)
      PROVE  OneAway' /\ \A d \in Conns : Held(d)'
  BY <1>3 DEF OneAway, Held, EditBegun, EditGoes
<1>4. ASSUME NEW c \in Conns, Served(c)
      PROVE  OneAway' /\ \A d \in Conns : Held(d)'
  <2>1. CASE Asked(c)
    BY <2>1 DEF OneAway, Held, Asked, Goes, others
  <2>2. CASE FlagsRead(c)
    BY <2>2 DEF OneAway, Held, FlagsRead, Goes, others
  <2>3. CASE OptionSet(c)
    BY <2>3 DEF OneAway, Held, OptionSet, Goes, Wrote, Sets, others
  <2>4. CASE Built(c)
    BY <2>4 DEF OneAway, Held, Built, Goes, others
  <2>5. CASE Posted(c)
    BY <2>5 DEF OneAway, Held, Posted, Goes, Sent, others
  <2>6. CASE Reset(c)
    BY <2>6 DEF OneAway, Held, Reset, Goes, Sets, others
  <2>7. CASE Cleared(c)
    BY <2>7 DEF OneAway, Held, Cleared, Goes, Wrote, Sets, others
  <2>8. CASE Back(c)
    BY <2>8 DEF OneAway, Held, Back, Goes, Sent, Sets, others
  <2> QED
    BY <1>4, <2>1, <2>2, <2>3, <2>4, <2>5, <2>6, <2>7, <2>8 DEF Served
<1>5. ASSUME NEW c \in Conns, Visited(c)
      PROVE  OneAway' /\ \A d \in Conns : Held(d)'
  <2>1. CASE Passed(c)
    BY <2>1 DEF OneAway, Held, Passed, Sets
  <2>2. CASE Taken(c)
    BY <2>2 DEF OneAway, Held, Taken, Sets
  <2>3. CASE AwaySet(c)
    BY <2>3 DEF OneAway, Held, AwaySet, Wrote, Sets
  <2>4. CASE AwayAnnounced(c)
    BY <2>4 DEF OneAway, Held, AwayAnnounced, Sent, Sets
  <2>5. ASSUME NEW e \in Editors, Picked(e, c)
        PROVE  OneAway' /\ \A d \in Conns : Held(d)'
    BY <2>5 DEF OneAway, Held, Picked, EditGoes
  <2>6. ASSUME NEW e \in Editors, Edited(e, c)
        PROVE  OneAway' /\ \A d \in Conns : Held(d)'
    BY <2>6 DEF OneAway, Held, Edited, Wrote, Sets, EditGoes
  <2>7. ASSUME NEW e \in Editors, EditDone(e, c)
        PROVE  OneAway' /\ \A d \in Conns : Held(d)'
    BY <2>7 DEF OneAway, Held, EditDone, Sent, EditGoes
  <2> QED
    BY <1>5, <2>1, <2>2, <2>3, <2>4, <2>5, <2>6, <2>7 DEF Visited
<1> QED BY <1>1, <1>2, <1>3, <1>4, <1>5 DEF Effect

\* An edit is done with one session before it takes the next.
LEMMA OneEditStep ==
    ASSUME OneEdit, Effect
    PROVE  OneEdit'
<1>1. CASE Nothing
  BY <1>1 DEF OneEdit, Nothing
<1>2. CASE Ticked
  BY <1>2 DEF OneEdit, Ticked
<1>3. ASSUME NEW e \in Editors, EditBegun(e)
      PROVE  OneEdit'
  BY <1>3 DEF OneEdit, EditBegun, EditGoes
<1>4. ASSUME NEW c \in Conns, Served(c)
      PROVE  OneEdit'
  <2>1. CASE Asked(c)
    BY <2>1 DEF OneEdit, Asked, Goes, others
  <2>2. CASE FlagsRead(c)
    BY <2>2 DEF OneEdit, FlagsRead, Goes, others
  <2>3. CASE OptionSet(c)
    BY <2>3 DEF OneEdit, OptionSet, Goes, Wrote, Sets, others
  <2>4. CASE Built(c)
    BY <2>4 DEF OneEdit, Built, Goes, others
  <2>5. CASE Posted(c)
    BY <2>5 DEF OneEdit, Posted, Goes, Sent, others
  <2>6. CASE Reset(c)
    BY <2>6 DEF OneEdit, Reset, Goes, Sets, others
  <2>7. CASE Cleared(c)
    BY <2>7 DEF OneEdit, Cleared, Goes, Wrote, Sets, others
  <2>8. CASE Back(c)
    BY <2>8 DEF OneEdit, Back, Goes, Sent, Sets, others
  <2> QED
    BY <1>4, <2>1, <2>2, <2>3, <2>4, <2>5, <2>6, <2>7, <2>8 DEF Served
<1>5. ASSUME NEW c \in Conns, Visited(c)
      PROVE  OneEdit'
  <2>1. CASE Passed(c)
    BY <2>1 DEF OneEdit, Passed, Sets
  <2>2. CASE Taken(c)
    BY <2>2 DEF OneEdit, Taken, Sets
  <2>3. CASE AwaySet(c)
    BY <2>3 DEF OneEdit, AwaySet, Wrote, Sets
  <2>4. CASE AwayAnnounced(c)
    BY <2>4 DEF OneEdit, AwayAnnounced, Sent, Sets
  <2>5. ASSUME NEW e \in Editors, Picked(e, c)
        PROVE  OneEdit'
    BY <2>5 DEF OneEdit, Picked, EditGoes
  <2>6. ASSUME NEW e \in Editors, Edited(e, c)
        PROVE  OneEdit'
    BY <2>6 DEF OneEdit, Edited, Wrote, Sets, EditGoes
  <2>7. ASSUME NEW e \in Editors, EditDone(e, c)
        PROVE  OneEdit'
    BY <2>7 DEF OneEdit, EditDone, Sent, EditGoes
  <2> QED
    BY <1>5, <2>1, <2>2, <2>3, <2>4, <2>5, <2>6, <2>7 DEF Visited
<1> QED BY <1>1, <1>2, <1>3, <1>4, <1>5 DEF Effect

\* Whoever changes the flags of a session announces them, unless somebody
\* else changes them first.
LEMMA OwedStep ==
    ASSUME OneAway, OneEdit, \A d \in Conns : Held(d), Owed, Effect
    PROVE  Owed'
<1>1. CASE Nothing
  BY <1>1 DEF OneAway, OneEdit, Held, Owed, Announcing, Nothing
<1>2. CASE Ticked
  BY <1>2 DEF OneAway, OneEdit, Held, Owed, Announcing, Ticked
<1>3. ASSUME NEW e \in Editors, EditBegun(e)
      PROVE  Owed'
  BY <1>3 DEF OneAway, OneEdit, Held, Owed, Announcing, EditBegun, EditGoes
<1>4. ASSUME NEW c \in Conns, Served(c)
      PROVE  Owed'
  <2>1. CASE Asked(c)
    BY <2>1 DEF OneAway, OneEdit, Held, Owed, Announcing, Asked, Goes, others
  <2>2. CASE FlagsRead(c)
    BY <2>2 DEF OneAway, OneEdit, Held, Owed, Announcing, FlagsRead, Goes, others
  <2>3. CASE OptionSet(c)
    BY <2>3 DEF OneAway, OneEdit, Held, Owed, Announcing, OptionSet, Goes, Wrote, Sets, others
  <2>4. CASE Built(c)
    BY <2>4 DEF OneAway, OneEdit, Held, Owed, Announcing, Built, Goes, others
  <2>5. CASE Posted(c)
    BY <2>5 DEF OneAway, OneEdit, Held, Owed, Announcing, Posted, Goes, Sent, others
  <2>6. CASE Reset(c)
    BY <2>6 DEF OneAway, OneEdit, Held, Owed, Announcing, Reset, Goes, Sets, others
  <2>7. CASE Cleared(c)
    BY <2>7 DEF OneAway, OneEdit, Held, Owed, Announcing, Cleared, Goes, Wrote, Sets, others
  <2>8. CASE Back(c)
    BY <2>8 DEF OneAway, OneEdit, Held, Owed, Announcing, Back, Goes, Sent, Sets, others
  <2> QED
    BY <1>4, <2>1, <2>2, <2>3, <2>4, <2>5, <2>6, <2>7, <2>8 DEF Served
<1>5. ASSUME NEW c \in Conns, Visited(c)
      PROVE  Owed'
  <2>1. CASE Passed(c)
    BY <2>1 DEF OneAway, OneEdit, Held, Owed, Announcing, Passed, Sets
  <2>2. CASE Taken(c)
    BY <2>2 DEF OneAway, OneEdit, Held, Owed, Announcing, Taken, Sets
  <2>3. CASE AwaySet(c)
    BY <2>3 DEF OneAway, OneEdit, Held, Owed, Announcing, AwaySet, Wrote, Sets
  <2>4. CASE AwayAnnounced(c)
    BY <2>4 DEF OneAway, OneEdit, Held, Owed, Announcing, AwayAnnounced, Sent, Sets
  <2>5. ASSUME NEW e \in Editors, Picked(e, c)
        PROVE  Owed'
    BY <2>5 DEF OneAway, OneEdit, Held, Owed, Announcing, Picked, EditGoes
  <2>6. ASSUME NEW e \in Editors, Edited(e, c)
        PROVE  Owed'
    BY <2>6 DEF OneAway, OneEdit, Held, Owed, Announcing, Edited, Wrote, Sets, EditGoes
  <2>7. ASSUME NEW e \in Editors, EditDone(e, c)
        PROVE  Owed'
    BY <2>7 DEF OneAway, OneEdit, Held, Owed, Announcing, EditDone, Sent, EditGoes
  <2> QED
    BY <1>5, <2>1, <2>2, <2>3, <2>4, <2>5, <2>6, <2>7 DEF Visited
<1> QED BY <1>1, <1>2, <1>3, <1>4, <1>5 DEF Effect

\* A session that has come back is away again only when the timer finds it
\* inactive or an edit writes older flags.
LEMMA InactiveStep ==
    ASSUME Types, \A d \in Conns : Held(d), \A d \in Conns : Inactive(d), Effect
    PROVE  \A d \in Conns : Inactive(d)'
<1>1. CASE Nothing
  BY <1>1 DEF Held, Inactive, Nothing
<1>2. CASE Ticked
  BY <1>2 DEF Held, Inactive, Ticked
<1>3. ASSUME NEW e \in Editors, EditBegun(e)
      PROVE  \A d \in Conns : Inactive(d)'
  BY <1>3 DEF Held, Inactive, EditBegun, EditGoes
<1>4. ASSUME NEW c \in Conns, Served(c)
      PROVE  \A d \in Conns : Inactive(d)'
  <2>1. CASE Asked(c)
    BY <2>1 DEF Held, Inactive, Asked, Goes, others
  <2>2. CASE FlagsRead(c)
    BY <2>2 DEF Held, Inactive, FlagsRead, Goes, others
  <2>3. CASE OptionSet(c)
    BY <2>3 DEF Held, Inactive, OptionSet, Goes, Wrote, Sets, others
  <2>4. CASE Built(c)
    BY <2>4 DEF Held, Inactive, Built, Goes, others
  <2>5. CASE Posted(c)
    BY <2>5 DEF Held, Inactive, Posted, Goes, Sent, others
  <2>6. CASE Reset(c)
    BY <2>6 DEF Held, Inactive, Reset, Goes, Sets, others
  <2>7. CASE Cleared(c)
    BY <2>7 DEF Held, Inactive, Cleared, Goes, Wrote, Sets, others
  <2>8. CASE Back(c)
    BY <2>8 DEF Held, Inactive, Back, Goes, Sent, Sets, others
  <2> QED
    BY <1>4, <2>1, <2>2, <2>3, <2>4, <2>5, <2>6, <2>7, <2>8 DEF Served
<1>5. ASSUME NEW c \in Conns, Visited(c)
      PROVE  \A d \in Conns : Inactive(d)'
  <2>1. CASE Passed(c)
    BY <2>1 DEF Held, Inactive, Passed, Sets
  <2>2. CASE Taken(c)
    BY <2>2 DEF Held, Inactive, Taken, Sets
  <2>3. CASE AwaySet(c)
    BY <2>3 DEF Held, Inactive, AwaySet, Wrote, Sets
  <2>4. CASE AwayAnnounced(c)
    BY <2>4 DEF Held, Inactive, AwayAnnounced, Sent, Sets
  <2>5. ASSUME NEW e \in Editors, Picked(e, c)
        PROVE  \A d \in Conns : Inactive(d)'
    BY <2>5 DEF Held, Inactive, Picked, EditGoes
  <2>6. ASSUME NEW e \in Editors, Edited(e, c)
        PROVE  \A d \in Conns : Inactive(d)'
    BY <2>6 DEF Held, Inactive, Edited, Wrote, Sets, EditGoes
  <2>7. ASSUME NEW e \in Editors, EditDone(e, c)
        PROVE  \A d \in Conns : Inactive(d)'
    BY <2>7 DEF Held, Inactive, EditDone, Sent, EditGoes
  <2> QED
    BY <1>5, <2>1, <2>2, <2>3, <2>4, <2>5, <2>6, <2>7 DEF Visited
<1> QED BY <1>1, <1>2, <1>3, <1>4, <1>5 DEF Effect

-----------------------------------------------------------------------------
(* The theorems *)

\* The invariant holds in every state of every behaviour.
LEMMA Invariance == Spec => []Inv
<1>0. TypeOK <=> Types /\ \A c \in Conns : Held(c)
  BY DEF TypeOK, Types, Held
<1>1. ASSUME Init PROVE Inv
  <2> USE <1>1 DEF Init
  <2>1. /\ Waiting \in [at : {"idle"}, opts : SUBSET Options, read : SUBSET Flags]
        /\ Resting \in [at : {"rest"}, todo : SUBSET Conns, read : SUBSET Flags]
    BY DEF Waiting, Resting
  <2>2. /\ NoEdit \in [at : {"none"}, todo : SUBSET Conns, on : {{}}, read : SUBSET Flags,
                       grant : BOOLEAN]
    BY DEF NoEdit
  <2>3. idle \in [Conns -> 0 .. IdleLimit + 1] /\ left \in 0 .. MaxRequests /\ edits \in 0 .. MaxEdits
    BY IdleAssumption
  <2>4. flags \in [Conns -> SUBSET Flags]
    BY DEF Flags
  <2>5. \A c \in Conns : Held(c) /\ session[c].at = "idle" /\ "away" \notin flags[c]
    BY <2>1 DEF Held
  <2>6. Types
    BY <2>1, <2>2, <2>3, <2>4, LoginAssumption DEF Types
  <2>7. OneAway /\ OneEdit /\ Owed
    BY <2>2, <2>6 DEF OneAway, OneEdit, Owed
  <2>8. \A c \in Conns : Inactive(c)
    BY <2>5 DEF Inactive
  <2> QED BY <1>0, <2>5, <2>6, <2>7, <2>8 DEF Inv
<1>2. ASSUME Inv, [Next]_vars PROVE Inv'
  <2>1. Types /\ \A c \in Conns : Held(c)
    BY <1>0, <1>2 DEF Inv
  <2>2. Types' /\ Effect
    BY <1>2, <2>1, StepCases
  <2>3. OneAway' /\ \A c \in Conns : Held(c)'
    BY <1>2, <2>1, <2>2, HeldStep DEF Inv
  <2>4. OneEdit' /\ Owed'
    BY <1>2, <2>1, <2>2, OneEditStep, OwedStep DEF Inv
  <2>5. \A c \in Conns : Inactive(c)'
    BY <1>2, <2>1, <2>2, InactiveStep DEF Inv
  <2>6. TypeOK'
    BY <2>2, <2>3 DEF TypeOK, Types, Held
  <2> QED BY <2>3, <2>4, <2>5, <2>6 DEF Inv
<1> QED BY <1>1, <1>2, PTL DEF Spec

\* The state has its types, and the lock of a session is held exactly while
\* its goroutine clears the flag, or while the timer sets it.
THEOREM TypeCorrect == Spec => []TypeOK
<1>1. Inv => TypeOK
  BY DEF Inv
<1> QED BY <1>1, Invariance, PTL

\* Flags that neither the session nor the timer nor an edit is at work on have
\* been announced since they were last changed (UserFlags.Set, SendAll).
THEOREM ChangesAnnounced == Spec => []ChangeIsAnnounced
<1>1. Inv => ChangeIsAnnounced
  <2> SUFFICES ASSUME Inv, NEW c \in Conns, ~AtWorkOn(c)
               PROVE  c \in told
    BY DEF ChangeIsAnnounced
  <2>1. c \in told \/ Announcing(c)
    BY DEF Inv, Owed
  <2> QED BY <2>1 DEF Announcing, AtWorkOn
<1> QED BY <1>1, Invariance, PTL

\* A session that nobody is at work on is away only if it has been inactive for
\* longer than the limit, or an edit wrote back older flags (keepaliveHandler,
\* handleTransaction, HandleSetUser).
THEOREM AwayIsIdle == Spec => []AwayMeansIdle
<1>1. Inv => AwayMeansIdle
  BY DEF Inv, AwayMeansIdle, Inactive, AtWorkOn
<1> QED BY <1>1, Invariance, PTL

=============================================================================
