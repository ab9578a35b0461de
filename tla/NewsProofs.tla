----------------------------- MODULE NewsProofs -----------------------------
(***************************************************************************)
(* Proofs about the two kinds of news.                                     *)
(*                                                                         *)
(* The message board (FlatNews): AckedIsKept and AloneReadsWhole for any   *)
(* number of readers and posts of any length.                              *)
(*                                                                         *)
(* Threaded news (ThreadedNews), for any groups, at most two levels deep,  *)
(* and any number of articles: the state has its types, memory is what the *)
(* file holds unless a fault is known to have parted them, and the links   *)
(* between articles are right.  The invariant says of the tree in memory   *)
(* and of the one on file alike that its articles are well linked, and     *)
(* that nothing is below what is not there: a restart takes the one for    *)
(* the other.                                                              *)
(***************************************************************************)
EXTENDS ThreadedNews, FlatNews, SequenceTheorems, WellFoundedInduction, TLAPS

-----------------------------------------------------------------------------
(* The message board *)

\* Every acknowledged post that was not taken out is in memory, too: that is
\* why the next Write, which replaces the file by the memory, keeps it.
KeptInMemory == acked \ removed \subseteq OnBoard(data)

\* Only one session at a time has the board for itself.
OnlyOne ==
    /\ \A r \in alone \cap Reading : Reading = {r}
    /\ \A r \in alone : reader[r].pc # "idle"

\* Of post p, behind the first a bytes, the bytes in front of offset o are the
\* last ones of g, as far behind its end as they are in front of o.
Follows(g, o, p, a) ==
    \A i \in 1..Size[p] : a + i <= o =>
        /\ (Len(g) - o) + (a + i) \in 1..Len(g)
        /\ g[(Len(g) - o) + (a + i)] = [post |-> p, nth |-> i]

\* Such a reader has got a post, or will get what of it is behind the offset as
\* the continuation of what it has.
InSight ==
    \A r \in alone \cap Reading :
        \A p \in reader[r].first \ reader[r].torn :
            \/ Entire(reader[r].got, p)
            \/ \E a \in 0..Len(data) : At(data, p, a) /\ Follows(reader[r].got, offset, p, a)

ReadInv == OnlyOne /\ InSight /\ AloneReadsWhole

\* The bytes of a post.
LEMMA BytesOf ==
    ASSUME NEW p \in Posts
    PROVE  /\ Size[p] \in Nat /\ Size[p] >= 1
           /\ Text(p) \in Seq(Byte) /\ Len(Text(p)) = Size[p]
           /\ \A i \in 1..Size[p] : Text(p)[i] = [post |-> p, nth |-> i]
<1>1. Size[p] \in Nat /\ Size[p] >= 1
  BY SizeAssumption
<1>2. \A i \in 1..Size[p] : [post |-> p, nth |-> i] \in Byte
  BY DEF Byte
<1> QED BY <1>1, <1>2 DEF Text

\* A post that stands somewhere stands within the sequence.
LEMMA AtOf ==
    ASSUME NEW s \in Seq(Byte), NEW p \in Posts, NEW a \in Nat, At(s, p, a)
    PROVE  a + Size[p] <= Len(s) /\ a \in 0..Len(s) /\ Entire(s, p)
<1>1. Size[p] \in Nat /\ Size[p] >= 1 /\ Len(s) \in Nat /\ DOMAIN s = 1..Len(s)
  BY BytesOf
<1>2. a + Size[p] \in DOMAIN s
  <2>1. Size[p] \in 1..Size[p]
    BY <1>1
  <2> QED BY <2>1 DEF At
<1>3. a + Size[p] <= Len(s) /\ a \in 0..Len(s)
  BY <1>1, <1>2
<1> QED BY <1>3 DEF Entire

\* More bytes behind a sequence take no post from it.
LEMMA EntireMore ==
    ASSUME NEW s \in Seq(Byte), NEW t \in Seq(Byte), NEW p \in Posts, Entire(s, p)
    PROVE  Entire(s \o t, p)
<1>1. PICK a \in 0..Len(s) : At(s, p, a)
  BY DEF Entire
<1>2. /\ s \o t \in Seq(Byte) /\ Len(s \o t) = Len(s) + Len(t)
      /\ \A i \in 1..Len(s) : (s \o t)[i] = s[i]
      /\ Len(s) \in Nat /\ Len(t) \in Nat
  BY ConcatProperties
<1> DEFINE u == s \o t
<1> HIDE DEF u
<1>3. u \in Seq(Byte) /\ Len(u) = Len(s) + Len(t) /\ \A i \in 1..Len(s) : u[i] = s[i]
  BY <1>2 DEF u
<1>4. DOMAIN s = 1..Len(s) /\ DOMAIN u = 1..Len(u)
  BY <1>3
<1>5. DOMAIN s \subseteq DOMAIN u
  BY <1>2, <1>3, <1>4
<1>6. ASSUME NEW i \in 1..Size[p]
      PROVE  a + i \in DOMAIN u /\ u[a + i] = [post |-> p, nth |-> i]
  <2>1. a + i \in DOMAIN s /\ s[a + i] = [post |-> p, nth |-> i]
    BY <1>1 DEF At
  <2> HIDE DEF At
  <2> QED BY <1>3, <1>4, <1>5, <2>1
<1>7. At(u, p, a) /\ a \in Nat
  BY <1>1, <1>6 DEF At
<1> QED BY <1>3, <1>7, AtOf DEF u

\* Putting a post in front adds it and shifts the others by its length.
LEMMA Prepended ==
    ASSUME NEW s \in Seq(Byte), NEW p \in Posts
    PROVE  /\ Text(p) \o s \in Seq(Byte)
           /\ OnBoard(s) \cup {p} \subseteq OnBoard(Text(p) \o s)
           /\ \A q \in Posts, a \in Nat :
                 At(s, q, a) => At(Text(p) \o s, q, a + Size[p])
<1> DEFINE t == Text(p) \o s
           k == Size[p]
<1>1. /\ t \in Seq(Byte) /\ Len(t) = k + Len(s)
      /\ \A i \in 1..k : t[i] = [post |-> p, nth |-> i]
      /\ \A i \in 1..Len(s) : t[k + i] = s[i]
      /\ k \in Nat /\ Len(s) \in Nat
  <2>1. Text(p) \in Seq(Byte) /\ Len(Text(p)) = k /\ k \in Nat /\ Len(s) \in Nat
        /\ \A i \in 1..k : Text(p)[i] = [post |-> p, nth |-> i]
    BY BytesOf
  <2>2. /\ t \in Seq(Byte) /\ Len(t) = k + Len(s)
        /\ \A i \in 1..(k + Len(s)) : t[i] = IF i <= k THEN Text(p)[i] ELSE s[i - k]
    BY <2>1, ConcatProperties
  <2> HIDE DEF t, k
  <2>3. \A i \in 1..k : t[i] = [post |-> p, nth |-> i]
    BY <2>1, <2>2
  <2>4. \A i \in 1..Len(s) : t[k + i] = s[i]
    BY <2>1, <2>2
  <2> QED BY <2>1, <2>2, <2>3, <2>4
<1> HIDE DEF t, k
<1>2. DOMAIN t = 1..(k + Len(s)) /\ DOMAIN s = 1..Len(s)
  BY <1>1
<1>3. ASSUME NEW q \in Posts, NEW a \in Nat, At(s, q, a)
      PROVE  At(t, q, a + k)
  <2>1. ASSUME NEW i \in 1..Size[q]
        PROVE  (a + k) + i \in DOMAIN t /\ t[(a + k) + i] = [post |-> q, nth |-> i]
    <3>1. a + i \in 1..Len(s) /\ s[a + i] = [post |-> q, nth |-> i] /\ i \in Nat
      BY <1>2, <1>3, BytesOf DEF At
    <3>2. (a + k) + i = k + (a + i) /\ k + (a + i) \in 1..(k + Len(s))
      BY <1>1, <3>1
    <3> QED BY <1>1, <1>2, <3>1, <3>2
  <2> QED BY <2>1 DEF At
<1>4. At(t, p, 0)
  BY <1>1, <1>2 DEF At, k
<1>5. p \in OnBoard(t)
  BY <1>1, <1>4, AtOf DEF OnBoard
<1>6. ASSUME NEW q \in OnBoard(s) PROVE q \in OnBoard(t)
  <2>1. q \in Posts /\ \E a \in Nat : At(s, q, a)
    BY DEF OnBoard, Entire
  <2>2. PICK a \in Nat : At(s, q, a)
    BY <2>1
  <2>3. At(t, q, a + k) /\ a + k \in Nat
    BY <1>1, <1>3, <2>1, <2>2
  <2> QED BY <1>1, <2>1, <2>3, AtOf DEF OnBoard
<1> QED BY <1>1, <1>3, <1>5, <1>6 DEF t, k

\* A piece of a sequence of bytes.
LEMMA Piece ==
    ASSUME NEW s \in Seq(Byte), NEW m \in Nat, NEW n \in Nat, m + n <= Len(s)
    PROVE  /\ SubSeq(s, m + 1, m + n) \in Seq(Byte)
           /\ Len(SubSeq(s, m + 1, m + n)) = n
           /\ \A k \in 1..n : SubSeq(s, m + 1, m + n)[k] = s[m + k]
<1>1. \A k \in (m + 1)..(m + n) : s[k] \in Byte
  OBVIOUS
<1>2. /\ SubSeq(s, m + 1, m + n) \in Seq(Byte)
      /\ Len(SubSeq(s, m + 1, m + n)) = IF m + 1 <= m + n THEN (m + n) - (m + 1) + 1 ELSE 0
      /\ \A k \in 1..((m + n) - (m + 1) + 1) : SubSeq(s, m + 1, m + n)[k] = s[(m + 1) + k - 1]
  BY <1>1, SubSeqProperties
<1>3. (m + n) - (m + 1) + 1 = n /\ \A k \in 1..n : (m + 1) + k - 1 = m + k
  OBVIOUS
<1>4. (IF m + 1 <= m + n THEN n ELSE 0) = n
  OBVIOUS
<1> QED BY <1>2, <1>3, <1>4

\* Taking the bytes from i to j out of a file leaves the posts in it that have
\* none of them.
LEMMA TakenOut ==
    ASSUME NEW s \in Seq(Byte), NEW i \in DOMAIN s, NEW j \in i..Len(s)
    PROVE  LET t == SubSeq(s, 1, i - 1) \o SubSeq(s, j + 1, Len(s))
           IN  t \in Seq(Byte) /\ OnBoard(s) \subseteq OnBoard(t) \cup {s[k].post : k \in i..j}
<1> DEFINE a == SubSeq(s, 1, i - 1)
           b == SubSeq(s, j + 1, Len(s))
           t == a \o b
<1>1. i \in 1..Len(s) /\ j \in i..Len(s) /\ Len(s) \in Nat /\ DOMAIN s = 1..Len(s)
  OBVIOUS
<1>2. a \in Seq(Byte) /\ Len(a) = i - 1 /\ \A k \in 1..(i - 1) : a[k] = s[k]
  BY <1>1
<1>3. b \in Seq(Byte) /\ Len(b) = Len(s) - j
      /\ \A k \in 1..(Len(s) - j) : b[k] = s[j + k]
  <2> DEFINE n == Len(s) - j
  <2>1. j \in Nat /\ n \in Nat /\ j + n <= Len(s) /\ j + n = Len(s)
    BY <1>1
  <2> HIDE DEF n
  <2>2. /\ SubSeq(s, j + 1, j + n) \in Seq(Byte) /\ Len(SubSeq(s, j + 1, j + n)) = n
        /\ \A k \in 1..n : SubSeq(s, j + 1, j + n)[k] = s[j + k]
    BY <2>1, Piece
  <2> QED BY <2>1, <2>2 DEF n
<1> HIDE DEF a, b
<1>4. /\ t \in Seq(Byte) /\ Len(t) = (i - 1) + (Len(s) - j)
      /\ \A k \in 1..((i - 1) + (Len(s) - j)) : t[k] = IF k <= i - 1 THEN a[k] ELSE b[k - (i - 1)]
  <2>1. Len(a) + Len(b) = (i - 1) + (Len(s) - j)
    BY <1>2, <1>3
  <2> QED BY <1>2, <1>3, <2>1, ConcatProperties
<1> HIDE DEF t
<1>5. ASSUME NEW k \in 1..Len(s), k < i
      PROVE  k \in DOMAIN t /\ t[k] = s[k]
  BY <1>1, <1>2, <1>4, <1>5
<1>6. ASSUME NEW k \in 1..Len(s), k > j
      PROVE  k - (j - i + 1) \in DOMAIN t /\ t[k - (j - i + 1)] = s[k]
  <2>1. k - (j - i + 1) \in 1..((i - 1) + (Len(s) - j)) /\ ~(k - (j - i + 1) <= i - 1)
    BY <1>1, <1>6
  <2>2. (k - (j - i + 1)) - (i - 1) = k - j /\ k - j \in 1..(Len(s) - j)
    BY <1>1, <1>6
  <2>3. b[k - j] = s[k]
    <3>1. b[k - j] = s[j + (k - j)] /\ j + (k - j) = k
      BY <1>1, <1>3, <2>2
    <3> QED BY <3>1
  <2> QED BY <1>4, <2>1, <2>2, <2>3
<1>7. ASSUME NEW p \in OnBoard(s), p \notin {s[k].post : k \in i..j}
      PROVE  p \in OnBoard(t)
  <2>1. p \in Posts /\ \E c \in Nat : At(s, p, c)
    BY DEF OnBoard, Entire
  <2>2. PICK c \in Nat : At(s, p, c)
    BY <2>1
  <2>3. Size[p] \in Nat /\ Size[p] >= 1
    BY <2>1, BytesOf
  <2>4. \A m \in 1..Size[p] : c + m \in 1..Len(s) /\ s[c + m] = [post |-> p, nth |-> m]
    BY <1>1, <2>2 DEF At
  <2>5. \A m \in 1..Size[p] : s[c + m].post = p
    <3>1. TAKE m \in 1..Size[p]
    <3>2. s[c + m] = [post |-> p, nth |-> m]
      BY <2>4
    <3>3. [post |-> p, nth |-> m].post = p
      OBVIOUS
    <3> QED BY <3>2, <3>3
  <2>6. \A m \in 1..Size[p] : c + m \notin i..j
    BY <1>7, <2>5
  <2>7. c + Size[p] < i \/ c + 1 > j
    <3> SUFFICES ASSUME c + Size[p] >= i, c + 1 <= j PROVE FALSE
      BY <1>1, <2>3
    <3>1. CASE c + 1 >= i
      <4>1. c + 1 \in i..j /\ 1 \in 1..Size[p]
        BY <1>1, <2>3, <3>1
      <4> QED BY <2>6, <4>1
    <3>2. CASE c + 1 < i
      <4>1. c + (i - c) \in i..j /\ i - c \in 1..Size[p]
        BY <1>1, <2>3, <3>2
      <4> QED BY <2>6, <4>1
    <3> QED BY <1>1, <3>1, <3>2
  <2>8. CASE c + Size[p] < i
    <3>1. \A m \in 1..Size[p] : c + m \in DOMAIN t /\ t[c + m] = s[c + m]
      <4>1. \A m \in 1..Size[p] : c + m < i
        BY <1>1, <2>3, <2>8
      <4> QED BY <1>5, <2>4, <4>1
    <3>2. At(t, p, c)
      BY <2>4, <3>1 DEF At
    <3> QED BY <1>4, <2>1, <3>2, AtOf DEF OnBoard
  <2>9. CASE c + 1 > j
    <3> DEFINE e == c - (j - i + 1)
    <3>1. e \in Nat /\ \A m \in 1..Size[p] : c + m > j /\ (c + m) - (j - i + 1) = e + m
      BY <1>1, <2>3, <2>9
    <3> HIDE DEF e
    <3>2. \A m \in 1..Size[p] : e + m \in DOMAIN t /\ t[e + m] = s[c + m]
      BY <1>6, <2>4, <3>1
    <3>3. At(t, p, e)
      BY <2>4, <3>2 DEF At
    <3> QED BY <1>4, <2>1, <3>1, <3>3, AtOf DEF OnBoard
  <2> QED BY <2>7, <2>8, <2>9
<1> QED
  BY <1>4, <1>7 DEF t, a, b

\* A reader whose offset is past a post that it follows has got it.
LEMMA CaughtUp ==
    ASSUME NEW g \in Seq(Byte), NEW o \in Nat, NEW p \in Posts, NEW a \in Nat,
           Follows(g, o, p, a), a + Size[p] <= o
    PROVE  Entire(g, p)
<1> DEFINE b == (Len(g) - o) + a
<1>1. Size[p] \in Nat /\ Size[p] >= 1 /\ Len(g) \in Nat /\ DOMAIN g = 1..Len(g)
  BY BytesOf
<1>2. ASSUME NEW i \in 1..Size[p]
      PROVE  b + i \in DOMAIN g /\ g[b + i] = [post |-> p, nth |-> i]
  <2>1. a + i <= o /\ (Len(g) - o) + (a + i) = b + i
    BY <1>1
  <2> QED BY <1>1, <2>1 DEF Follows
<1>3. b \in Nat
  <2>1. b \in Int /\ 1 \in 1..Size[p]
    BY <1>1
  <2>2. b + 1 \in 1..Len(g)
    BY <1>1, <1>2, <2>1
  <2> HIDE DEF b
  <2> QED BY <1>1, <2>1, <2>2
<1>4. At(g, p, b)
  BY <1>2 DEF At
<1> HIDE DEF b
<1> QED BY <1>3, <1>4, AtOf

\* A reader that goes on to read follows the post still.
LEMMA FollowsOn ==
    ASSUME NEW g \in Seq(Byte), NEW s \in Seq(Byte), NEW o \in Nat, NEW n \in 1..(Len(s) - o),
           NEW p \in Posts, NEW a \in Nat, At(s, p, a), Follows(g, o, p, a)
    PROVE  /\ SubSeq(s, o + 1, o + n) \in Seq(Byte)
           /\ g \o SubSeq(s, o + 1, o + n) \in Seq(Byte)
           /\ Follows(g \o SubSeq(s, o + 1, o + n), o + n, p, a)
<1> DEFINE h == SubSeq(s, o + 1, o + n)
           u == g \o h
<1>1. Len(s) \in Nat /\ Len(g) \in Nat /\ n \in Nat /\ o + n <= Len(s) /\ Size[p] \in Nat
  BY BytesOf
<1>2. h \in Seq(Byte) /\ Len(h) = n /\ \A i \in 1..n : h[i] = s[o + i]
  BY <1>1
<1> HIDE DEF h
<1>3. /\ u \in Seq(Byte) /\ Len(u) = Len(g) + n
      /\ \A i \in 1..(Len(g) + n) : u[i] = IF i <= Len(g) THEN g[i] ELSE h[i - Len(g)]
  BY <1>2, ConcatProperties
<1> HIDE DEF u
<1>4. ASSUME NEW i \in 1..Size[p], a + i <= o + n
      PROVE  /\ (Len(u) - (o + n)) + (a + i) \in 1..Len(u)
             /\ u[(Len(u) - (o + n)) + (a + i)] = [post |-> p, nth |-> i]
  <2> DEFINE k == (Len(g) - o) + (a + i)
  <2>1. (Len(u) - (o + n)) + (a + i) = k /\ i \in Nat
    BY <1>1, <1>3
  <2>2. CASE a + i <= o
    <3>1. k \in 1..Len(g) /\ g[k] = [post |-> p, nth |-> i]
      BY <2>2 DEF Follows
    <3> HIDE DEF k
    <3>2. k \in 1..(Len(g) + n) /\ k <= Len(g) /\ k \in 1..Len(u)
      BY <1>1, <1>3, <3>1
    <3> QED BY <1>3, <2>1, <3>1, <3>2
  <2>3. CASE a + i > o
    <3>1. k - Len(g) = (a + i) - o /\ (a + i) - o \in 1..n /\ k \in 1..(Len(g) + n) /\ ~(k <= Len(g))
      BY <1>1, <1>4, <2>1, <2>3
    <3>2. o + ((a + i) - o) = a + i
      BY <1>1, <2>1
    <3>3. s[a + i] = [post |-> p, nth |-> i]
      BY DEF At
    <3> HIDE DEF k
    <3> QED BY <1>2, <1>3, <2>1, <3>1, <3>2, <3>3
  <2> QED BY <1>1, <2>1, <2>2, <2>3
<1> QED BY <1>2, <1>3, <1>4 DEF Follows, h, u

\* The types hold in every reachable state.
THEOREM BoardTypeCorrect == BoardSpec => []BoardTypeOK
<1> DEFINE Reader == [pc : {"idle", "read", "done"}, got : Seq(Byte),
                      first : SUBSET Posts, torn : SUBSET Posts]
<1>0. /\ Waiting \in Reader
      /\ [Waiting EXCEPT !.pc = "read"] \in Reader
      /\ \A F \in SUBSET Posts : [Waiting EXCEPT !.pc = "read", !.first = F] \in Reader
  <2>1. <<>> \in Seq(Byte)
    OBVIOUS
  <2> QED BY <2>1 DEF Waiting
<1>1. BoardInit => BoardTypeOK
  <2> SUFFICES ASSUME BoardInit PROVE BoardTypeOK
    OBVIOUS
  <2>1. <<>> \in Seq(Byte) /\ 0 \in 0..MaxBoardFaults
    BY BoardFaultsAssumption
  <2>2. reader \in [Readers -> Reader]
    BY <1>0 DEF BoardInit
  <2> QED BY <2>1, <2>2 DEF BoardInit, BoardTypeOK
<1>2. BoardTypeOK /\ [BoardNext]_boardVars => BoardTypeOK'
  <2> SUFFICES ASSUME BoardTypeOK, [BoardNext]_boardVars PROVE BoardTypeOK'
    OBVIOUS
  <2> USE BoardFaultsAssumption DEF BoardTypeOK
  <2>0. BoardFault => boardFaults' \in 0..MaxBoardFaults
    BY DEF BoardFault
  <2>1. ASSUME NEW p \in Posts, HandleTranOldPostNews(p) PROVE BoardTypeOK'
    <3>1. data' \in Seq(Byte)
      BY <2>1, Prepended DEF HandleTranOldPostNews, Write, WriteFails, Prepend
    <3>2. reader' \in [Readers -> Reader]
      <4>1. \A r \in Readers : [reader[r] EXCEPT !.torn = @ \cup Torn(p)] \in Reader
        <5>1. Torn(p) \subseteq Posts
          BY DEF Torn
        <5> QED BY <5>1
      <4>2. reader' = [r \in Readers |->
                         IF r \in alone /\ reader[r].pc = "read"
                         THEN [reader[r] EXCEPT !.torn = @ \cup Torn(p)] ELSE reader[r]]
        BY <2>1 DEF HandleTranOldPostNews, Write, WriteFails, Prepend
      <4> QED BY <4>1, <4>2
    <3>3. boardFile' \in Seq(Byte) /\ boardFaults' \in 0..MaxBoardFaults
      BY <2>0, <2>1, <3>1 DEF HandleTranOldPostNews, Write, WriteFails
    <3>4. made' \subseteq Posts /\ acked' \subseteq made' /\ UNCHANGED <<offset, alone, removed>>
      BY <2>1 DEF HandleTranOldPostNews
    <3> QED
      BY <3>1, <3>2, <3>3, <3>4
  <2>2. ASSUME NEW i \in DOMAIN boardFile, NEW j \in i..Len(boardFile), Edit(i, j) PROVE BoardTypeOK'
    <3>1. boardFile' \in Seq(Byte)
      BY <2>2, TakenOut DEF Edit
    <3>2. removed' \subseteq Posts
      <4>1. \A k \in i..j : boardFile[k] \in Byte
        OBVIOUS
      <4>2. \A x \in Byte : x.post \in Posts
        BY DEF Byte
      <4> QED BY <2>2, <4>1, <4>2 DEF Edit
    <3> QED
      BY <2>0, <2>2, <3>1, <3>2 DEF Edit
  <2>3. ASSUME NEW r \in Readers, Seek(r) PROVE BoardTypeOK'
    <3>1. OnBoard(data) \subseteq Posts
      BY DEF OnBoard
    <3>2. alone' \subseteq Readers
      BY <2>3 DEF Seek
    <3>3. reader' \in [Readers -> Reader]
      BY <1>0, <2>3, <3>1 DEF Seek, Joined
    <3>4. offset' \in Nat /\ UNCHANGED <<data, boardFile, made, acked, removed, boardFaults>>
      BY <2>3 DEF Seek
    <3> QED
      BY <3>2, <3>3, <3>4
  <2>4. ASSUME NEW r \in Readers, Read(r) PROVE BoardTypeOK'
    <3>0. UNCHANGED <<data, boardFile, alone, made, acked, removed, boardFaults>>
      BY <2>4 DEF Read
    <3>1. CASE reader' = [reader EXCEPT ![r].pc = "done"] /\ UNCHANGED offset
      BY <3>0, <3>1
    <3>2. ASSUME NEW n \in 1..(Len(data) - offset),
                 reader' = [reader EXCEPT ![r].got =
                               IF r \in alone
                               THEN @ \o SubSeq(data, offset + 1, offset + n) ELSE <<>>],
                 offset' = offset + n
          PROVE  BoardTypeOK'
      <4>1. SubSeq(data, offset + 1, offset + n) \in Seq(Byte)
        OBVIOUS
      <4>2. offset' \in Nat
        BY <3>2
      <4>3. reader[r].got \o SubSeq(data, offset + 1, offset + n) \in Seq(Byte)
        BY <4>1, ConcatProperties
      <4>4. reader' \in [Readers -> Reader]
        <5> DEFINE g == IF r \in alone
                        THEN reader[r].got \o SubSeq(data, offset + 1, offset + n) ELSE <<>>
        <5>1. g \in Seq(Byte)
          BY <4>3
        <5>2. reader' = [reader EXCEPT ![r].got = g]
          BY <3>2
        <5> HIDE DEF g
        <5> QED BY <5>1, <5>2
      <4> QED
        BY <3>0, <4>2, <4>4
    <3> QED
      BY <2>4, <3>1, <3>2 DEF Read
  <2>5. ASSUME NEW r \in Readers, Reply(r) PROVE BoardTypeOK'
    BY <1>0, <2>5 DEF Reply
  <2>6. CASE Reload
    BY <2>0, <2>6 DEF Reload
  <2>7. CASE Restart
    BY <1>0, <2>0, <2>7 DEF Restart
  <2>8. CASE UNCHANGED boardVars
    BY <2>8 DEF boardVars
  <2> QED
    BY <2>1, <2>2, <2>3, <2>4, <2>5, <2>6, <2>7, <2>8 DEF BoardNext
<1> QED
  BY <1>1, <1>2, PTL DEF BoardSpec

\* A post whose sender got the reply stays in the file.  By induction with
\* KeptInMemory: Write makes the file what the memory is, Reload and Restart
\* make the memory what the file is.
THEOREM AckedKept == BoardSpec => []AckedIsKept
<1> DEFINE Inv == AckedIsKept /\ KeptInMemory
<1>1. BoardInit => Inv
  BY DEF BoardInit, AckedIsKept, KeptInMemory
<1>2. BoardTypeOK /\ Inv /\ [BoardNext]_boardVars => Inv'
  <2> SUFFICES ASSUME BoardTypeOK, Inv, [BoardNext]_boardVars PROVE Inv'
    OBVIOUS
  <2> USE DEF AckedIsKept, KeptInMemory
  <2>1. ASSUME NEW p \in Posts, HandleTranOldPostNews(p) PROVE Inv'
    <3>1. OnBoard(data) \cup {p} \subseteq OnBoard(data')
      BY <2>1, Prepended DEF HandleTranOldPostNews, Write, WriteFails, Prepend, BoardTypeOK
    <3>2. CASE Write(p) /\ acked' = acked \cup {p}
      BY <2>1, <3>1, <3>2 DEF HandleTranOldPostNews, Write
    <3>3. CASE WriteFails(p) /\ UNCHANGED acked
      BY <2>1, <3>1, <3>3 DEF HandleTranOldPostNews, WriteFails
    <3> QED
      BY <2>1, <3>2, <3>3 DEF HandleTranOldPostNews
  <2>2. ASSUME NEW i \in DOMAIN boardFile, NEW j \in i..Len(boardFile), Edit(i, j) PROVE Inv'
    <3>1. OnBoard(boardFile) \subseteq OnBoard(boardFile') \cup {boardFile[k].post : k \in i..j}
      BY <2>2, TakenOut DEF Edit, BoardTypeOK
    <3> QED
      BY <2>2, <3>1 DEF Edit
  <2>3. ASSUME NEW r \in Readers, Seek(r) \/ Read(r) \/ Reply(r) PROVE Inv'
    BY <2>3 DEF Seek, Read, Reply
  <2>4. CASE Reload
    BY <2>4 DEF Reload
  <2>5. CASE Restart
    BY <2>5 DEF Restart
  <2>6. CASE UNCHANGED boardVars
    BY <2>6 DEF boardVars
  <2> QED
    BY <2>1, <2>2, <2>3, <2>4, <2>5, <2>6 DEF BoardNext
<1> QED
  BY <1>1, <1>2, BoardTypeCorrect, PTL DEF BoardSpec

\* A reader that nobody disturbed gets every post in one piece that was on the
\* board, but for those torn under it.  The offset only moves past bytes that it
\* takes.  A post put in front pushes the others back: one that the reader had
\* got it may get again, one that it had not begun is still ahead, and so is one
\* it had begun, unless the new post is too short to push it past the offset.
THEOREM ReadsWhole == BoardSpec => []AloneReadsWhole
<1>1. BoardInit => ReadInv
  BY DEF BoardInit, ReadInv, OnlyOne, InSight, AloneReadsWhole
<1>2. BoardTypeOK /\ ReadInv /\ [BoardNext]_boardVars => ReadInv'
  <2> SUFFICES ASSUME BoardTypeOK, ReadInv, [BoardNext]_boardVars PROVE ReadInv'
    OBVIOUS
  <2>0. OnlyOne /\ InSight /\ AloneReadsWhole
    BY DEF ReadInv
  <2>9. /\ data \in Seq(Byte) /\ offset \in Nat /\ alone \subseteq Readers
        /\ \A r \in Readers : reader[r].got \in Seq(Byte) /\ reader[r].first \subseteq Posts
        /\ DOMAIN reader = Readers
    BY DEF BoardTypeOK
  <2>1. ASSUME NEW p \in Posts, HandleTranOldPostNews(p) PROVE ReadInv'
    <3>1. UNCHANGED <<offset, alone>> /\ Prepend(p)
      BY <2>1 DEF HandleTranOldPostNews, Write, WriteFails
    <3>2. ASSUME NEW r \in Readers
          PROVE  /\ reader'[r].pc = reader[r].pc /\ reader'[r].got = reader[r].got
                 /\ reader'[r].first = reader[r].first
                 /\ r \in alone /\ reader[r].pc = "read" => reader'[r].torn = reader[r].torn \cup Torn(p)
                 /\ reader[r].pc # "read" => reader'[r].torn = reader[r].torn
      BY <3>1 DEF Prepend, BoardTypeOK
    <3>3. Reading' = Reading
      BY <3>2 DEF Reading
    <3>4. OnlyOne'
      BY <2>0, <2>9, <3>1, <3>2, <3>3 DEF OnlyOne
    <3>5. AloneReadsWhole'
      BY <2>0, <2>9, <3>1, <3>2 DEF AloneReadsWhole
    <3>6. ASSUME NEW r \in alone \cap Reading, NEW q \in reader[r].first \ (reader[r].torn \cup Torn(p)),
                 ~Entire(reader[r].got, q)
          PROVE  \E b \in 0..Len(data') : At(data', q, b) /\ Follows(reader[r].got, offset, q, b)
      <4>1. q \in Posts /\ reader[r].got \in Seq(Byte) /\ q \notin Torn(p)
        BY <2>9, <3>6
      <4>2. PICK a \in 0..Len(data) : At(data, q, a) /\ Follows(reader[r].got, offset, q, a)
        BY <2>0, <3>6 DEF InSight
      <4>3. /\ a \in Nat /\ Size[q] \in Nat /\ Size[p] \in Nat /\ Size[p] >= 1
            /\ Len(data) \in Nat /\ DOMAIN data = 1..Len(data)
        BY <2>9, <4>1, BytesOf
      <4>4. a + Size[q] > offset
        BY <2>9, <3>6, <4>1, <4>2, <4>3, CaughtUp
      <4>5. a + Size[q] <= Len(data)
        BY <2>9, <4>1, <4>2, <4>3, AtOf
      <4>6. a + Size[p] >= offset
        <5> SUFFICES ASSUME a + Size[p] < offset PROVE FALSE
          BY <2>9, <4>3
        <5>1. /\ offset - a \in 1..Size[q] /\ (offset - a) + 1 \in 1..Size[q]
              /\ offset - a > Size[p] /\ offset \in 1..(Len(data) - 1)
              /\ a + (offset - a) = offset /\ a + ((offset - a) + 1) = offset + 1
          BY <2>9, <4>3, <4>4, <4>5
        <5>2. /\ data[offset] = [post |-> q, nth |-> offset - a]
              /\ data[offset + 1] = [post |-> q, nth |-> (offset - a) + 1]
          BY <4>2, <5>1 DEF At
        <5>3. q \in Torn(p)
          BY <4>1, <5>1, <5>2 DEF Torn
        <5> QED BY <4>1, <5>3
      <4>7. data' = Text(p) \o data
        BY <3>1 DEF Prepend
      <4>8. At(data', q, a + Size[p]) /\ data' \in Seq(Byte)
        BY <2>9, <4>1, <4>2, <4>3, <4>7, Prepended
      <4>9. Follows(reader[r].got, offset, q, a + Size[p])
        BY <2>9, <4>3, <4>6 DEF Follows
      <4>10. a + Size[p] \in 0..Len(data')
        <5>1. a + Size[p] \in Nat
          BY <4>3
        <5> QED BY <4>1, <4>8, <5>1, AtOf
      <4> QED BY <4>8, <4>9, <4>10
    <3>7. InSight'
      <4> SUFFICES ASSUME NEW r \in alone \cap Reading, NEW q \in reader[r].first \ (reader[r].torn \cup Torn(p))
                   PROVE  \/ Entire(reader[r].got, q)
                          \/ \E b \in 0..Len(data') : At(data', q, b) /\ Follows(reader[r].got, offset, q, b)
        <5>1. \A r \in alone \cap Reading : r \in Readers /\ reader[r].pc = "read"
          BY <2>9 DEF Reading
        <5> QED BY <3>1, <3>2, <3>3, <5>1 DEF InSight
      <4> QED BY <3>6
    <3> QED
      BY <3>4, <3>5, <3>7 DEF ReadInv
  <2>2. ASSUME NEW i \in DOMAIN boardFile, NEW j \in i..Len(boardFile), Edit(i, j) PROVE ReadInv'
    <3>1. UNCHANGED <<data, offset, reader, alone>> /\ Reading' = Reading
      BY <2>2 DEF Edit, Reading
    <3> QED
      BY <2>0, <3>1 DEF ReadInv, OnlyOne, InSight, AloneReadsWhole
  <2>3. ASSUME NEW r \in Readers, Seek(r) PROVE ReadInv'
    <3>1. reader' = Joined(r) /\ offset' = 0 /\ data' = data /\ reader[r].pc = "idle"
          /\ alone' = (alone \ Reading) \cup (IF Reading = {} THEN {r} ELSE {})
      BY <2>3 DEF Seek
    <3>2. /\ reader'[r].pc = "read" /\ reader'[r].got = <<>>
          /\ reader'[r].first = OnBoard(data)
          /\ \A q \in Readers \ {r} :
                /\ reader'[q].pc = reader[q].pc
                /\ q \notin Reading => reader'[q] = reader[q]
      BY <3>1 DEF Joined, Waiting, Reading
    <3>3. Reading' = Reading \cup {r} /\ r \notin Reading
      BY <3>1, <3>2 DEF Reading
    <3>4. \A q \in alone' \cap Reading' : q = r /\ Reading = {}
      BY <2>0, <3>1, <3>3 DEF OnlyOne
    <3>5. OnlyOne'
      <4>1. \A q \in alone' : q = r \/ (q \in alone /\ q \in Readers)
        BY <2>9, <3>1
      <4>2. \A q \in alone' : reader'[q].pc # "idle"
        BY <2>0, <3>2, <4>1 DEF OnlyOne
      <4> QED
        BY <3>3, <3>4, <4>2 DEF OnlyOne
    <3>6. InSight'
      <4>1. ASSUME NEW p \in OnBoard(data)
            PROVE  \E a \in 0..Len(data) : At(data, p, a) /\ Follows(<<>>, 0, p, a)
        <5>1. PICK a \in 0..Len(data) : At(data, p, a)
          BY DEF OnBoard, Entire
        <5>2. p \in Posts /\ a \in Nat
          BY <2>9, <5>1 DEF OnBoard
        <5>3. Follows(<<>>, 0, p, a)
          BY <5>2, BytesOf DEF Follows
        <5> QED BY <5>1, <5>3
      <4> QED
        BY <3>1, <3>2, <3>4, <4>1 DEF InSight
    <3>7. AloneReadsWhole'
      <4>1. \A q \in alone' : q = r \/ (q \in alone /\ q \in Readers /\ q \notin Reading)
        BY <2>9, <3>1
      <4> QED
        BY <2>0, <3>2, <4>1 DEF AloneReadsWhole
    <3> QED
      BY <3>5, <3>6, <3>7 DEF ReadInv
  <2>4. ASSUME NEW r \in Readers, Read(r) PROVE ReadInv'
    <3>1. \A q \in Readers : q # r => reader'[q] = reader[q]
      BY <2>4 DEF Read, BoardTypeOK
    <3>2. r \in Reading /\ UNCHANGED <<data, alone>>
      BY <2>4 DEF Read, Reading
    <3>3. CASE offset >= Len(data) /\ reader' = [reader EXCEPT ![r].pc = "done"]
               /\ UNCHANGED offset
      <4>1. reader'[r].pc = "done" /\ reader'[r].first = reader[r].first
            /\ reader'[r].got = reader[r].got /\ reader'[r].torn = reader[r].torn
        BY <3>3 DEF BoardTypeOK
      <4>2. Reading' = Reading \ {r}
        BY <3>1, <4>1 DEF Reading
      <4>3. ASSUME r \in alone, NEW p \in reader[r].first \ reader[r].torn
            PROVE  Entire(reader[r].got, p)
        <5> SUFFICES ASSUME NEW a \in 0..Len(data), At(data, p, a),
                            Follows(reader[r].got, offset, p, a)
                     PROVE  Entire(reader[r].got, p)
          BY <2>0, <3>2, <4>3 DEF InSight
        <5>1. p \in Posts /\ a \in Nat /\ reader[r].got \in Seq(Byte)
          BY <2>9
        <5>2. Size[p] \in Nat /\ Len(data) \in Nat
          BY <2>9, <5>1, BytesOf
        <5>3. a + Size[p] <= offset
          BY <2>9, <3>3, <5>1, <5>2, AtOf
        <5> QED BY <2>9, <5>1, <5>3, CaughtUp
      <4>4. AloneReadsWhole'
        BY <2>0, <2>9, <3>1, <3>2, <4>1, <4>3 DEF AloneReadsWhole
      <4>5. \A q \in alone' \cap Reading' : FALSE
        BY <2>0, <3>2, <4>2 DEF OnlyOne
      <4>6. \A q \in alone' : reader'[q].pc # "idle"
        BY <2>0, <2>9, <3>1, <3>2, <4>1 DEF OnlyOne
      <4> QED
        BY <4>4, <4>5, <4>6 DEF ReadInv, OnlyOne, InSight
    <3>4. ASSUME NEW n \in 1..(Len(data) - offset),
                 reader' = [reader EXCEPT ![r].got =
                               IF r \in alone
                               THEN @ \o SubSeq(data, offset + 1, offset + n) ELSE <<>>],
                 offset' = offset + n
          PROVE  ReadInv'
      <4>1. /\ reader'[r].pc = reader[r].pc /\ reader'[r].first = reader[r].first
            /\ reader'[r].torn = reader[r].torn
            /\ r \in alone => reader'[r].got
                                = reader[r].got \o SubSeq(data, offset + 1, offset + n)
        BY <3>4 DEF BoardTypeOK
      <4>2. Reading' = Reading
        BY <3>1, <4>1 DEF Reading
      <4>3. \A q \in alone' \cap Reading' : q = r
        BY <2>0, <3>2, <4>2 DEF OnlyOne
      <4>4. ASSUME r \in alone, NEW p \in reader[r].first \ reader[r].torn
            PROVE  \/ Entire(reader'[r].got, p)
                   \/ \E a \in 0..Len(data) : At(data, p, a) /\ Follows(reader'[r].got, offset', p, a)
        <5>1. p \in Posts /\ reader[r].got \in Seq(Byte)
          BY <2>9
        <5>2. SubSeq(data, offset + 1, offset + n) \in Seq(Byte)
          BY <2>9
        <5>3. CASE Entire(reader[r].got, p)
          BY <4>1, <4>4, <5>1, <5>2, <5>3, EntireMore
        <5>4. CASE \E a \in 0..Len(data) : At(data, p, a) /\ Follows(reader[r].got, offset, p, a)
          <6>1. PICK a \in 0..Len(data) : At(data, p, a) /\ Follows(reader[r].got, offset, p, a)
            BY <5>4
          <6>2. a \in Nat
            BY <2>9
          <6>3. Follows(reader'[r].got, offset', p, a)
            BY <2>9, <3>4, <4>1, <4>4, <5>1, <6>1, <6>2, FollowsOn
          <6> QED BY <6>1, <6>3
        <5> QED BY <2>0, <3>2, <4>4, <5>3, <5>4 DEF InSight
      <4>5. InSight'
        BY <3>2, <4>1, <4>3, <4>4 DEF InSight
      <4>6. reader[r].pc = "read"
        BY <3>2 DEF Reading
      <4>7. AloneReadsWhole'
        BY <2>0, <2>9, <3>1, <3>2, <4>1, <4>6 DEF AloneReadsWhole
      <4>8. OnlyOne'
        BY <2>0, <2>9, <3>1, <3>2, <4>1, <4>2 DEF OnlyOne
      <4> QED
        BY <4>5, <4>7, <4>8 DEF ReadInv
    <3> QED
      BY <2>4, <3>3, <3>4 DEF Read
  <2>5. ASSUME NEW r \in Readers, Reply(r) PROVE ReadInv'
    <3>1. /\ Reading' = Reading /\ UNCHANGED <<data, offset>>
          /\ \A q \in Readers : q # r => reader'[q] = reader[q]
          /\ alone' = alone \ {r}
      BY <2>5, <2>9 DEF Reply, Reading, Waiting, BoardTypeOK
    <3> QED
      BY <2>0, <2>9, <3>1 DEF ReadInv, OnlyOne, InSight, AloneReadsWhole
  <2>6. CASE Reload
    <3>1. Reading' = Reading /\ reader' = reader /\ alone' = alone \ Reading
      BY <2>6 DEF Reload, Reading
    <3> QED
      BY <2>0, <3>1 DEF ReadInv, OnlyOne, InSight, AloneReadsWhole
  <2>7. CASE Restart
    BY <2>7 DEF Restart, ReadInv, OnlyOne, InSight, AloneReadsWhole
  <2>8. CASE UNCHANGED boardVars
    BY <2>0, <2>8 DEF boardVars, Reading, ReadInv, OnlyOne, InSight, AloneReadsWhole
  <2> QED
    BY <2>1, <2>2, <2>3, <2>4, <2>5, <2>6, <2>7, <2>8 DEF BoardNext
<1>3. ReadInv => AloneReadsWhole
  BY DEF ReadInv
<1> QED
  BY <1>1, <1>2, <1>3, BoardTypeCorrect, PTL DEF BoardSpec

-----------------------------------------------------------------------------
(* Threaded news *)

Arts == [IDs -> Article \cup {None, Nil}]
Tree == [Groups -> Node \cup {None}]

Art(A, i) == A[i] \notin {None, Nil}

\* Every link leads to a number on its own side.
Ordered(A) ==
    \A i \in IDs :
        Art(A, i) => /\ A[i].parent < i /\ A[i].prev < i
                     /\ A[i].next = 0 \/ A[i].next > i
                     /\ A[i].child = 0 \/ A[i].child > i

\* The number of the parent is that of the article that was answered.
Kin(A) ==
    \A i \in IDs :
        Art(A, i) /\ A[i].parent \in IDs /\ Art(A, A[i].parent)
            => A[A[i].parent].uid = A[i].of

\* Where nothing was deleted, numbers have no gaps, neighbours know each other
\* and every article knows its first answer.
Answers(A, i) == {j \in IDs : Art(A, j) /\ A[j].parent = i}

Whole(A) ==
    \A i \in IDs :
        /\ Art(A, i) <=> i <= Last(A)
        /\ i < Last(A) => A[i].next = i + 1 /\ A[i + 1].prev = i
        /\ i = Last(A) => A[i].next \in {0, i + 1}
        /\ Art(A, i) => IF Answers(A, i) = {} THEN A[i].child = 0
                        ELSE /\ A[i].child \in Answers(A, i)
                             /\ \A j \in Answers(A, i) : A[i].child <= j

\* The tree n is well formed, and complete but for the categories in P.
Sound(n, P) ==
    /\ n \in Tree
    /\ \A g \in Groups : n[g] # None /\ Up[g] # Root => n[Up[g]] # None
    /\ \A g \in Groups : n[g] # None => Ordered(n[g].arts) /\ Kin(n[g].arts)
    /\ \A g \in Groups \ P : n[g] # None => Whole(n[g].arts)

\* The file holds no nil map.
Encoded == \A g \in Groups : file[g] # None => file[g].hasArts = TRUE /\ file[g].hasSubs = TRUE

Inv ==
    /\ TypeOK
    /\ Sound(news, pruned)
    /\ Sound(file, pruned)
    /\ Encoded
    /\ MemoryIsFile

-----------------------------------------------------------------------------
(* Numbers *)

\* A nonempty set of numbers in use has a largest one.
LEMMA Largest ==
    ASSUME NEW S \in SUBSET IDs, S # {}
    PROVE  \E i \in S : \A j \in S : j <= i
<1> DEFINE T == {MaxID - i : i \in S}
<1>1. T \subseteq Nat /\ T # {}
  <2>1. \A i \in S : MaxID - i \in Nat
    BY BoundsAssumption DEF IDs
  <2>2. PICK i \in S : TRUE
    OBVIOUS
  <2>3. MaxID - i \in T
    BY <2>2
  <2> QED BY <2>1, <2>3
<1>2. PICK x \in T : \A y \in T : ~ (<<y, x>> \in OpToRel(<, Nat))
  BY <1>1, WFMin, NatLessThanWellFounded
<1>3. \A y \in T : ~ (y < x)
  BY <1>1, <1>2 DEF OpToRel
<1>4. PICK i \in S : x = MaxID - i
  BY <1>2
<1>5. ASSUME NEW j \in S PROVE j <= i
  <2>1. ~ (MaxID - j < MaxID - i)
    BY <1>3, <1>4
  <2>2. i \in Int /\ j \in Int /\ MaxID \in Int
    BY BoundsAssumption DEF IDs
  <2> QED BY <2>1, <2>2
<1> QED BY <1>5

\* Last is the largest number in use, or 0.
LEMMA LastOf ==
    ASSUME NEW A \in Arts
    PROVE  /\ Last(A) \in 0 .. MaxID
           /\ \A i \in IDs : A[i] # None => i <= Last(A)
           /\ Last(A) # 0 => Last(A) \in IDs /\ A[Last(A)] # None
<1>1. Keys(A) \in SUBSET IDs
  BY DEF Keys
<1>2. CASE Keys(A) = {}
  BY <1>2, BoundsAssumption DEF Last, Keys
<1>3. CASE Keys(A) # {}
  <2>1. \E i \in Keys(A) : \A j \in Keys(A) : j <= i
    BY <1>1, <1>3, Largest
  <2>2. Last(A) \in Keys(A) /\ \A j \in Keys(A) : j <= Last(A)
    BY <1>3, <2>1 DEF Last
  <2> QED BY <2>2, BoundsAssumption DEF Keys, IDs
<1> QED BY <1>2, <1>3

\* Last is determined by what it is.
LEMMA LastIs ==
    ASSUME NEW A \in Arts, NEW k \in IDs, A[k] # None,
           \A i \in IDs : A[i] # None => i <= k
    PROVE  Last(A) = k
<1>1. Last(A) \in 0 .. MaxID /\ k <= Last(A) /\ Last(A) # 0
  BY LastOf, BoundsAssumption DEF IDs
<1>2. Last(A) <= k
  BY <1>1, LastOf
<1> QED BY <1>1, <1>2, BoundsAssumption DEF IDs

-----------------------------------------------------------------------------
(* Articles *)

\* What is neither missing nor nil is an article.
LEMMA ArtOf ==
    ASSUME NEW A \in Arts, NEW i \in IDs
    PROVE  Art(A, i) <=> A[i] \in Article
BY NilAssumption DEF Art, Arts

\* The links of an article are numbers.
LEMMA ArticleOf ==
    ASSUME NEW a \in Article
    PROVE  /\ a.parent \in Nat /\ a.prev \in Nat /\ a.next \in Nat /\ a.child \in Nat
           /\ a.uid \in 0 .. MaxPosts /\ a \notin {None, Nil}
BY NilAssumption, BoundsAssumption DEF Article, Links

\* Article b is a, but for its successor and its first answer.
Kept(a, b) ==
    /\ b \in Article
    /\ b.parent = a.parent /\ b.prev = a.prev /\ b.uid = a.uid /\ b.of = a.of

\* Setting the successor of an article touches nothing else.
LEMMA NextSet ==
    ASSUME NEW a \in Article, NEW v \in Links
    PROVE  \E b : /\ b = [a EXCEPT !.next = v]
                  /\ Kept(a, b) /\ b.next = v /\ b.child = a.child
<1>1. PICK b : b = [a EXCEPT !.next = v]
  OBVIOUS
<1>2. Kept(a, b) /\ b.next = v /\ b.child = a.child
  BY <1>1 DEF Kept, Article
<1> QED BY <1>1, <1>2

\* Setting the first answer of an article touches nothing else.
LEMMA ChildSet ==
    ASSUME NEW a \in Article, NEW v \in Links
    PROVE  \E b : /\ b = [a EXCEPT !.child = v]
                  /\ Kept(a, b) /\ b.child = v /\ b.next = a.next
<1>1. PICK b : b = [a EXCEPT !.child = v]
  OBVIOUS
<1>2. Kept(a, b) /\ b.child = v /\ b.next = a.next
  BY <1>1 DEF Kept, Article
<1> QED BY <1>1, <1>2

\* The last article gets a successor, and nothing else changes.
LEMMA LinkedOf ==
    ASSUME NEW A \in Arts, NEW L, L = Last(A), L # 0 => A[L] # Nil
    PROVE  /\ Linked(A) \in Arts
           /\ \A i \in IDs :
                 IF i = L THEN /\ A[i] \in Article /\ Kept(A[i], Linked(A)[i])
                               /\ Linked(A)[i].next = L + 1
                               /\ Linked(A)[i].child = A[i].child
                 ELSE Linked(A)[i] = A[i]
<1>1. CASE L = 0
  BY <1>1, BoundsAssumption DEF Linked, IDs
<1>2. CASE L # 0
  <2>1. L \in IDs /\ A[L] \in Article
    BY <1>2, LastOf DEF Arts
  <2>2. L + 1 \in Links
    BY <2>1, BoundsAssumption DEF IDs, Links
  <2>3. Linked(A) = [A EXCEPT ![L].next = L + 1]
    BY <1>2 DEF Linked
  <2>4. PICK b : /\ b = [A[L] EXCEPT !.next = L + 1]
                 /\ Kept(A[L], b) /\ b.next = L + 1 /\ b.child = A[L].child
    BY <2>1, <2>2, NextSet
  <2>5. Linked(A) = [A EXCEPT ![L] = b]
    BY <2>1, <2>3, <2>4 DEF Arts
  <2>6. b \in Article
    BY <2>4 DEF Kept
  <2>7. /\ Linked(A) \in Arts /\ Linked(A)[L] = b
        /\ \A i \in IDs \ {L} : Linked(A)[i] = A[i]
    BY <2>1, <2>5, <2>6 DEF Arts
  <2> QED BY <2>1, <2>4, <2>7
<1> QED BY <1>1, <1>2

\* B is A with one more article, under number k, in answer to number par.
Extended(A, B, k, par) ==
    /\ B[k] \in Article
    /\ B[k].parent = par /\ B[k].prev = k - 1 /\ B[k].next = 0 /\ B[k].child = 0
    /\ par # 0 => B[k].of = A[par].uid
    /\ \A i \in IDs \ {k} :
          IF Art(A, i)
          THEN /\ Kept(A[i], B[i])
               /\ B[i].next = IF i = k - 1 THEN k ELSE A[i].next
               /\ B[i].child = IF i = par /\ A[i].child = 0 THEN k ELSE A[i].child
          ELSE B[i] = A[i]

\* What a post makes of the articles of its category.
LEMMA PostedOf ==
    ASSUME NEW A \in Arts, NEW L, L = Last(A), L < MaxID, L # 0 => A[L] # Nil,
           posts \in 0 .. MaxPosts, posts < MaxPosts,
           NEW par \in 0 .. MaxID, par # 0 => A[par] \notin {None, Nil}
    PROVE  Posted(A, par) \in Arts /\ Extended(A, Posted(A, par), L + 1, par)
<1>0. L \in 0 .. MaxID /\ L + 1 \in IDs /\ L + 1 \in Links /\ (L + 1) - 1 = L
  BY LastOf, BoundsAssumption DEF IDs, Links
<1>1. PICK n : n = L + 1
  OBVIOUS
<1>2. PICK A1 \in Arts :
         /\ A1 = Linked(A)
         /\ \A i \in IDs :
               IF i = L THEN /\ A[i] \in Article /\ Kept(A[i], A1[i])
                             /\ A1[i].next = L + 1
                             /\ A1[i].child = A[i].child
               ELSE A1[i] = A[i]
  BY LinkedOf
<1>3. par # 0 => par \in IDs /\ A[par] \in Article /\ par # n
  <2>1. CASE par # 0
    <3>1. par \in IDs
      BY <2>1, BoundsAssumption DEF IDs
    <3>2. A[par] \in Article /\ par <= L
      BY <2>1, <3>1, LastOf DEF Arts
    <3> QED BY <1>0, <1>1, <3>1, <3>2 DEF IDs
  <2> QED BY <2>1
<1> DEFINE new == [parent |-> par, prev |-> L, next |-> 0, child |-> 0,
                   uid |-> posts + 1, of |-> IF par = 0 THEN 0 ELSE A[par].uid]
<1>4. /\ new \in Article /\ new.parent = par /\ new.prev = L /\ new.next = 0
      /\ new.child = 0 /\ (par # 0 => new.of = A[par].uid)
  <2>1. /\ par \in Links /\ L \in Links /\ 0 \in Links
        /\ posts + 1 \in 0 .. MaxPosts /\ 0 \in 0 .. MaxPosts
    BY <1>0, BoundsAssumption DEF Links
  <2>2. (IF par = 0 THEN 0 ELSE A[par].uid) \in 0 .. MaxPosts
    BY <1>3, <2>1, ArticleOf
  <2> QED BY <2>1, <2>2 DEF Article
<1>5. Posted(A, par) = IF par # 0 /\ A[par].child = 0
                       THEN [[A1 EXCEPT ![n] = new] EXCEPT ![par].child = n]
                       ELSE [A1 EXCEPT ![n] = new]
  BY <1>1, <1>2 DEF Posted, PostedAs
<1> HIDE DEF new
<1>6. PICK A2 : A2 = [A1 EXCEPT ![n] = new]
  OBVIOUS
<1>7. A2 \in Arts /\ A2[n] = new /\ \A i \in IDs \ {n} : A2[i] = A1[i]
  BY <1>0, <1>1, <1>4, <1>6 DEF Arts
<1>8. ASSUME NEW i \in IDs, i # n
      PROVE  IF Art(A, i)
             THEN /\ Kept(A[i], A2[i]) /\ A2[i].child = A[i].child
                  /\ A2[i].next = IF i = L THEN n ELSE A[i].next
             ELSE A2[i] = A[i]
  <2>1. Art(A, i) <=> A[i] \in Article
    BY ArtOf
  <2>2. A[i] \in Article => Kept(A[i], A[i])
    BY DEF Kept
  <2> QED BY <1>1, <1>2, <1>7, <1>8, <2>1, <2>2
<1>9. CASE ~(par # 0 /\ A[par].child = 0)
  <2>1. Posted(A, par) = A2
    BY <1>5, <1>6, <1>9
  <2>2. Extended(A, A2, n, par)
    <3>1. \A i \in IDs : ~(i = par /\ A[i].child = 0)
      BY <1>9, BoundsAssumption DEF IDs
    <3> QED BY <1>0, <1>1, <1>4, <1>7, <1>8, <3>1 DEF Extended
  <2> QED BY <1>1, <1>7, <2>1, <2>2
<1>10. CASE par # 0 /\ A[par].child = 0
  <2>1. PICK B : B = [A2 EXCEPT ![par].child = n] /\ Posted(A, par) = B
    BY <1>5, <1>6, <1>10
  <2>2. Art(A, par)
    BY <1>10 DEF Art
  <2>3. A2[par] \in Article /\ n \in Links
    BY <1>0, <1>1, <1>3, <1>8, <1>10, <2>2 DEF Kept
  <2>4. /\ B \in Arts /\ Kept(A2[par], B[par])
        /\ B[par].child = n /\ B[par].next = A2[par].next
        /\ \A i \in IDs \ {par} : B[i] = A2[i]
    <3>1. PICK b : /\ b = [A2[par] EXCEPT !.child = n]
                   /\ Kept(A2[par], b) /\ b.child = n /\ b.next = A2[par].next
      BY <2>3, ChildSet
    <3>2. B = [A2 EXCEPT ![par] = b]
      BY <1>3, <1>7, <1>10, <2>1, <3>1 DEF Arts
    <3>3. b \in Article
      BY <3>1 DEF Kept
    <3>4. B \in Arts /\ B[par] = b /\ \A i \in IDs \ {par} : B[i] = A2[i]
      BY <1>3, <1>7, <1>10, <3>2, <3>3 DEF Arts
    <3> QED BY <3>1, <3>4
  <2>5. B[n] = new
    BY <1>0, <1>1, <1>3, <1>7, <1>10, <2>4
  <2>6. ASSUME NEW i \in IDs \ {n}
        PROVE  IF Art(A, i)
               THEN /\ Kept(A[i], B[i])
                    /\ B[i].next = IF i = L THEN n ELSE A[i].next
                    /\ B[i].child = IF i = par /\ A[i].child = 0 THEN n ELSE A[i].child
               ELSE B[i] = A[i]
    <3>1. CASE i = par
      BY <1>8, <1>10, <2>2, <2>4, <3>1 DEF Kept
    <3>2. CASE i # par
      BY <1>8, <2>4, <3>2
    <3> QED BY <3>1, <3>2
  <2>7. Extended(A, B, n, par)
    BY <1>0, <1>1, <1>4, <2>5, <2>6 DEF Extended
  <2> QED BY <1>1, <2>1, <2>4, <2>7
<1> QED BY <1>9, <1>10

-----------------------------------------------------------------------------
(* What posts and deletions preserve *)

\* A post keeps the links in order and every answer with its parent: the new
\* number is larger than all in use, so nobody names it as a parent.
LEMMA ExtendedIsSound ==
    ASSUME NEW A \in Arts, NEW B \in Arts, NEW L, L = Last(A), L < MaxID,
           NEW par \in 0 .. MaxID, par # 0 => A[par] \notin {None, Nil},
           Ordered(A), Kin(A), Extended(A, B, L + 1, par)
    PROVE  Ordered(B) /\ Kin(B)
<1>0. /\ L \in 0 .. MaxID /\ (L + 1) - 1 = L /\ L + 1 \in IDs
      /\ \A i \in IDs : Art(A, i) => i <= L /\ A[i] \in Article
  BY LastOf, ArtOf, BoundsAssumption DEF IDs, Art
<1>1. PICK n : n = L + 1
  OBVIOUS
<1>2. par <= L /\ (par # 0 => par \in IDs /\ Art(A, par))
  BY <1>0, BoundsAssumption DEF IDs, Art
<1>3. \A i \in IDs : Art(B, i) <=> Art(A, i) \/ i = n
  BY <1>0, <1>1, ArticleOf DEF Extended, Kept, Art
<1>4. Ordered(B)
  <2> SUFFICES ASSUME NEW i \in IDs, Art(B, i)
               PROVE  /\ B[i].parent < i /\ B[i].prev < i
                      /\ B[i].next = 0 \/ B[i].next > i
                      /\ B[i].child = 0 \/ B[i].child > i
    BY DEF Ordered
  <2>1. CASE i = n
    <3>1. B[i].parent = par /\ B[i].prev = L /\ B[i].next = 0 /\ B[i].child = 0
      BY <1>0, <1>1, <2>1 DEF Extended
    <3> QED BY <1>0, <1>1, <1>2, <2>1, <3>1
  <2>2. CASE i # n
    <3>1. Art(A, i) /\ i <= L /\ i < n
      BY <1>0, <1>1, <1>3, <2>2 DEF IDs
    <3>2. B[i].parent = A[i].parent /\ B[i].prev = A[i].prev
      BY <1>1, <2>2, <3>1 DEF Extended, Kept
    <3>3. B[i].next \in {n, A[i].next} /\ B[i].child \in {n, A[i].child}
      BY <1>1, <2>2, <3>1 DEF Extended
    <3> QED BY <3>1, <3>2, <3>3 DEF Ordered
  <2> QED BY <2>1, <2>2
<1>5. Kin(B)
  <2> SUFFICES ASSUME NEW i \in IDs, Art(B, i), B[i].parent \in IDs, Art(B, B[i].parent)
               PROVE  B[B[i].parent].uid = B[i].of
    BY DEF Kin
  <2>1. CASE i = n
    <3>1. B[i].parent = par /\ par # 0 /\ par # n
      BY <1>0, <1>1, <1>2, <2>1 DEF Extended, IDs
    <3>2. B[i].of = A[par].uid
      BY <1>1, <2>1, <3>1 DEF Extended
    <3>3. B[par].uid = A[par].uid
      BY <1>1, <1>2, <3>1 DEF Extended, Kept
    <3> QED BY <3>1, <3>2, <3>3
  <2>2. CASE i # n
    <3>1. Art(A, i) /\ i <= L
      BY <1>0, <1>3, <2>2
    <3>2. B[i].parent = A[i].parent /\ B[i].of = A[i].of
      BY <1>1, <2>2, <3>1 DEF Extended, Kept
    <3>3. PICK p \in IDs : p = A[i].parent /\ p < i
      BY <3>1, <3>2 DEF Ordered
    <3>4. p # n
      BY <1>0, <1>1, <3>1, <3>3 DEF IDs
    <3>5. Art(A, p) /\ B[p].uid = A[p].uid
      BY <1>1, <1>3, <3>2, <3>3, <3>4 DEF Extended, Kept
    <3> QED BY <3>1, <3>2, <3>3, <3>5 DEF Kin
  <2> QED BY <2>1, <2>2
<1> QED BY <1>4, <1>5

\* A post to a complete category leaves it complete.
LEMMA ExtendedIsWhole ==
    ASSUME NEW A \in Arts, NEW B \in Arts, NEW L, L = Last(A), L < MaxID,
           NEW par \in 0 .. MaxID, par # 0 => A[par] \notin {None, Nil},
           Ordered(A), Whole(A), Extended(A, B, L + 1, par)
    PROVE  Whole(B)
<1>0. /\ L \in 0 .. MaxID /\ (L + 1) - 1 = L /\ L + 1 \in IDs
      /\ \A i \in IDs : Art(A, i) => A[i] \in Article
      /\ \A i \in IDs : Art(A, i) <=> i <= L
  BY LastOf, ArtOf, BoundsAssumption DEF IDs, Whole
<1>1. PICK n : n = L + 1
  OBVIOUS
<1>2. par <= L /\ (par # 0 => par \in IDs /\ Art(A, par))
  BY <1>0, BoundsAssumption DEF IDs, Art
<1>3. \A i \in IDs : Art(B, i) <=> Art(A, i) \/ i = n
  BY <1>0, <1>1, ArticleOf DEF Extended, Kept, Art
<1>4. \A i \in IDs : Art(B, i) <=> i <= n
  BY <1>0, <1>1, <1>3 DEF IDs
<1>5. Last(B) = n
  <2>1. \A i \in IDs \ {n} : B[i] # None => Art(A, i)
    <3>1. ASSUME NEW i \in IDs \ {n}, ~Art(A, i) PROVE B[i] = None
      <4>1. B[i] = A[i] /\ i > L
        BY <1>0, <1>1, <3>1 DEF Extended, IDs
      <4>2. A[i] = None
        BY <4>1, <1>0, LastOf DEF IDs
      <4> QED BY <4>1, <4>2
    <3> QED BY <3>1
  <2>2. \A i \in IDs : B[i] # None => i <= n
    BY <1>0, <1>1, <2>1 DEF IDs
  <2>3. B[n] # None /\ n \in IDs
    BY <1>0, <1>1, ArticleOf DEF Extended
  <2> QED BY <2>2, <2>3, LastIs
<1> SUFFICES ASSUME NEW i \in IDs
             PROVE  /\ i < n => B[i].next = i + 1 /\ B[i + 1].prev = i
                    /\ i = n => B[i].next \in {0, i + 1}
                    /\ Art(B, i) => IF Answers(B, i) = {} THEN B[i].child = 0
                                    ELSE /\ B[i].child \in Answers(B, i)
                                         /\ \A j \in Answers(B, i) : B[i].child <= j
  BY <1>4, <1>5 DEF Whole
<1>6. i < n => B[i].next = i + 1 /\ B[i + 1].prev = i
  <2> SUFFICES ASSUME i < n PROVE B[i].next = i + 1 /\ B[i + 1].prev = i
    OBVIOUS
  <2>1. i <= L /\ i \in Nat /\ i # n /\ Art(A, i)
    BY <1>0, <1>1 DEF IDs
  <2>2. CASE i = L
    BY <1>0, <1>1, <2>1, <2>2 DEF Extended
  <2>3. CASE i # L
    <3>1. i < L /\ i + 1 <= L /\ i + 1 \in IDs /\ i + 1 # n
      BY <1>0, <1>1, <2>1, <2>3, BoundsAssumption DEF IDs
    <3>2. A[i].next = i + 1 /\ A[i + 1].prev = i /\ Art(A, i + 1)
      BY <1>0, <3>1 DEF Whole
    <3>3. B[i].next = A[i].next
      BY <1>0, <1>1, <2>1, <2>3 DEF Extended
    <3>4. B[i + 1].prev = A[i + 1].prev
      BY <1>1, <3>1, <3>2 DEF Extended, Kept
    <3> QED BY <3>2, <3>3, <3>4
  <2> QED BY <2>2, <2>3
<1>7. i = n => B[i].next \in {0, i + 1}
  BY <1>1 DEF Extended
<1>8. ASSUME Art(B, i)
      PROVE  IF Answers(B, i) = {} THEN B[i].child = 0
             ELSE /\ B[i].child \in Answers(B, i)
                  /\ \A j \in Answers(B, i) : B[i].child <= j
  <2>0. /\ n \in IDs /\ Art(B, n) /\ B[n].parent = par /\ B[n].child = 0
        /\ \A j \in IDs \ {n} : Art(A, j) => B[j].parent = A[j].parent
    BY <1>0, <1>1, <1>3 DEF Extended, Kept
  <2>1. CASE i = n
    <3>1. ASSUME NEW j \in IDs, Art(B, j) PROVE B[j].parent # n
      <4>1. CASE j = n
        BY <1>0, <1>1, <1>2, <2>0, <4>1
      <4>2. CASE j # n
        <5>1. Art(A, j) /\ j <= L
          BY <1>0, <1>3, <3>1, <4>2
        <5>2. A[j].parent < j /\ A[j].parent \in Nat
          BY <1>0, <5>1, ArticleOf DEF Ordered
        <5> QED BY <1>0, <1>1, <2>0, <4>2, <5>1, <5>2 DEF IDs
      <4> QED BY <4>1, <4>2
    <3>2. Answers(B, i) = {}
      BY <2>1, <3>1 DEF Answers
    <3> QED BY <2>0, <2>1, <3>2
  <2>2. CASE i # n
    <3>0. Art(A, i) /\ A[i] \in Article
      BY <1>0, <1>3, <1>8, <2>2
    <3>1. Answers(B, i) = IF i = par THEN Answers(A, i) \cup {n} ELSE Answers(A, i)
      <4>1. n \notin Answers(A, i)
        BY <1>0, <1>1 DEF Answers
      <4>2. \A j \in IDs \ {n} : j \in Answers(B, i) <=> j \in Answers(A, i)
        BY <1>3, <2>0 DEF Answers
      <4>3. n \in Answers(B, i) <=> i = par
        BY <2>0 DEF Answers
      <4>4. Answers(A, i) \subseteq IDs /\ Answers(B, i) \subseteq IDs
        BY DEF Answers
      <4> QED BY <4>1, <4>2, <4>3, <4>4, <2>0
    <3>2. B[i].child = IF i = par /\ A[i].child = 0 THEN n ELSE A[i].child
      BY <1>1, <2>2, <3>0 DEF Extended
    <3>3. /\ Answers(A, i) = {} => A[i].child = 0
          /\ Answers(A, i) # {} => /\ A[i].child \in Answers(A, i)
                                   /\ \A j \in Answers(A, i) : A[i].child <= j
      BY <3>0 DEF Whole
    <3>4. Answers(A, i) \subseteq IDs /\ \A j \in Answers(A, i) : j <= L
      BY <1>0 DEF Answers
    <3>5. CASE Answers(A, i) = {}
      <4>1. A[i].child = 0
        BY <3>3, <3>5
      <4>2. CASE i = par
        <5>1. B[i].child = n /\ Answers(B, i) = {n}
          BY <3>1, <3>2, <3>5, <4>1, <4>2
        <5> QED BY <1>0, <1>1, <5>1
      <4>3. CASE i # par
        BY <3>1, <3>2, <3>5, <4>1, <4>3
      <4> QED BY <4>2, <4>3
    <3>6. CASE Answers(A, i) # {}
      <4>1. A[i].child # 0 /\ A[i].child \in IDs /\ A[i].child <= L
        BY <3>3, <3>4, <3>6, BoundsAssumption DEF IDs
      <4>2. B[i].child = A[i].child
        BY <3>2, <4>1
      <4>3. A[i].child <= n
        BY <1>0, <1>1, <4>1 DEF IDs
      <4> QED BY <3>1, <3>3, <3>6, <4>2, <4>3
    <3> QED BY <3>5, <3>6
  <2> QED BY <2>1, <2>2
<1> QED BY <1>6, <1>7, <1>8

\* A successor that never came keeps the links in order and the category
\* complete.
LEMMA LinkedIsSound ==
    ASSUME NEW A \in Arts, NEW L, L = Last(A), L # 0 => A[L] # Nil, Ordered(A), Kin(A)
    PROVE  /\ Linked(A) \in Arts /\ Ordered(Linked(A)) /\ Kin(Linked(A))
           /\ Whole(A) => Whole(Linked(A))
<1>0. /\ L \in 0 .. MaxID
      /\ \A i \in IDs : Art(A, i) => i \in Nat /\ A[i] \in Article
      /\ L # 0 => L \in IDs /\ A[L] # None
  BY LastOf, ArtOf, BoundsAssumption DEF IDs
<1>1. PICK B \in Arts :
         /\ B = Linked(A)
         /\ \A i \in IDs :
               IF i = L THEN /\ A[i] \in Article /\ Kept(A[i], B[i])
                             /\ B[i].next = L + 1 /\ B[i].child = A[i].child
               ELSE B[i] = A[i]
  BY LinkedOf
<1>2. ASSUME NEW i \in IDs
      PROVE  /\ Art(B, i) <=> Art(A, i)
             /\ Art(A, i) => /\ Kept(A[i], B[i]) /\ B[i].child = A[i].child
                             /\ B[i].next = IF i = L THEN L + 1 ELSE A[i].next
  <2>1. CASE i = L
    <3>1. A[i] \in Article /\ B[i] \in Article
      BY <1>1, <2>1 DEF Kept
    <3>2. Art(A, i) /\ Art(B, i)
      BY <3>1, ArtOf
    <3> QED BY <1>1, <2>1, <3>2
  <2>2. CASE i # L
    BY <1>0, <1>1, <2>2 DEF Art, Kept
  <2> QED BY <2>1, <2>2
<1>3. Ordered(B)
  <2> SUFFICES ASSUME NEW i \in IDs, Art(A, i)
               PROVE  /\ B[i].parent < i /\ B[i].prev < i
                      /\ B[i].next = 0 \/ B[i].next > i
                      /\ B[i].child = 0 \/ B[i].child > i
    BY <1>2 DEF Ordered
  <2>1. B[i].parent = A[i].parent /\ B[i].prev = A[i].prev /\ B[i].child = A[i].child
    BY <1>2 DEF Kept
  <2>2. B[i].next = A[i].next \/ B[i].next > i
    BY <1>0, <1>2
  <2> QED BY <2>1, <2>2 DEF Ordered
<1>4. Kin(B)
  <2> SUFFICES ASSUME NEW i \in IDs, Art(A, i), NEW p \in IDs, p = B[i].parent, Art(A, p)
               PROVE  B[p].uid = B[i].of
    BY <1>2 DEF Kin
  <2>1. p = A[i].parent /\ B[i].of = A[i].of /\ B[p].uid = A[p].uid
    BY <1>2 DEF Kept
  <2> QED BY <2>1 DEF Kin
<1>5. ASSUME Whole(A) PROVE Whole(B)
  <2>1. Last(B) = L
    <3>1. CASE L = 0
      BY <1>1, <3>1 DEF Linked
    <3>2. CASE L # 0
      <4>1. \A i \in IDs : B[i] # None => A[i] # None
        BY <1>0, <1>1, <3>2
      <4>2. L \in IDs /\ B[L] # None
        BY <1>0, <1>1, <3>2, ArticleOf DEF Kept
      <4>3. \A i \in IDs : B[i] # None => i <= L
        BY <4>1, LastOf
      <4> QED BY <4>2, <4>3, LastIs
    <3> QED BY <3>1, <3>2
  <2>2. \A i \in IDs : Answers(B, i) = Answers(A, i)
    BY <1>2 DEF Answers, Kept
  <2>3. ASSUME NEW i \in IDs, i < L
        PROVE  B[i].next = i + 1 /\ B[i + 1].prev = i
    <3>1. i + 1 \in IDs /\ i + 1 <= L /\ i <= L /\ i # L
      BY <1>0, <2>3, BoundsAssumption DEF IDs
    <3>2. Art(A, i) /\ Art(A, i + 1) /\ A[i].next = i + 1 /\ A[i + 1].prev = i
      BY <1>5, <2>3, <3>1 DEF Whole
    <3> QED BY <1>2, <3>1, <3>2 DEF Kept
  <2>4. ASSUME NEW i \in IDs, i = L PROVE B[i].next \in {0, i + 1}
    BY <1>1, <2>4
  <2>5. ASSUME NEW i \in IDs, Art(A, i) PROVE B[i].child = A[i].child
    BY <1>2, <2>5
  <2>6. \A i \in IDs : Art(B, i) <=> i <= L
    BY <1>2, <1>5 DEF Whole
  <2> SUFFICES ASSUME NEW i \in IDs
               PROVE  Art(B, i) => IF Answers(B, i) = {} THEN B[i].child = 0
                                   ELSE /\ B[i].child \in Answers(B, i)
                                        /\ \A j \in Answers(B, i) : B[i].child <= j
    BY <2>1, <2>3, <2>4, <2>6 DEF Whole
  <2> QED BY <1>2, <1>5, <2>2, <2>5 DEF Whole
<1> QED BY <1>1, <1>3, <1>4, <1>5

\* An entry that is no article in place of another keeps links and parents.
LEMMA ClearedIsSound ==
    ASSUME NEW A \in Arts, NEW k \in IDs, NEW v \in {None, Nil},
           NEW B, B = [A EXCEPT ![k] = v], Ordered(A), Kin(A)
    PROVE  B \in Arts /\ Ordered(B) /\ Kin(B)
<1>1. B \in Arts /\ \A i \in IDs : B[i] = IF i = k THEN v ELSE A[i]
  BY DEF Arts
<1>2. \A i \in IDs : Art(B, i) => Art(A, i) /\ B[i] = A[i]
  BY <1>1 DEF Art
<1>3. Ordered(B)
  BY <1>2 DEF Ordered
<1>4. Kin(B)
  BY <1>2 DEF Kin
<1> QED BY <1>1, <1>3, <1>4

\* Without articles everything is in order.
LEMMA NoArtsIsSound ==
    NoArts \in Arts /\ Ordered(NoArts) /\ Kin(NoArts) /\ Whole(NoArts)
<1>1. NoArts \in Arts /\ \A i \in IDs : ~Art(NoArts, i) /\ NoArts[i] = None
  BY DEF NoArts, Arts, Art
<1>2. Last(NoArts) = 0
  BY <1>1, LastOf
<1>3. Whole(NoArts)
  BY <1>1, <1>2 DEF Whole, IDs
<1> QED BY <1>1, <1>3 DEF Ordered, Kin

-----------------------------------------------------------------------------
(* Trees *)

\* A node holds articles and is not None.
LEMMA NodeOf ==
    ASSUME NEW x \in Node
    PROVE  x.arts \in Arts /\ x # None /\ x.hasArts \in BOOLEAN /\ x.hasSubs \in BOOLEAN
BY NilAssumption DEF Node, Arts

\* A node with other articles is a node.
LEMMA ArtsSet ==
    ASSUME NEW x \in Node, NEW A \in Arts
    PROVE  /\ [x EXCEPT !.arts = A] \in Node
           /\ [x EXCEPT !.arts = A].arts = A
BY DEF Node, Arts

\* What is written for a node.
Written(x) == [x EXCEPT !.hasArts = TRUE, !.hasSubs = TRUE]

\* A written node has the same articles, and no nil map.
LEMMA WrittenOf ==
    ASSUME NEW x \in Node
    PROVE  /\ Written(x) \in Node /\ Written(x).arts = x.arts
           /\ Written(x).hasArts = TRUE /\ Written(x).hasSubs = TRUE
           /\ x.hasArts = TRUE /\ x.hasSubs = TRUE => Written(x) = x
           /\ Written([x EXCEPT !.hasArts = TRUE]) = Written(x)
BY DEF Node, Written

\* The file has the groups of the tree, written one by one.
LEMMA EncodeOf ==
    ASSUME NEW n \in Tree
    PROVE  /\ Encode(n) \in Tree
           /\ \A g \in Groups : Encode(n)[g] = IF n[g] = None THEN None ELSE Written(n[g])
<1>1. \A g \in Groups : Encode(n)[g] = IF n[g] = None THEN None ELSE Written(n[g])
  BY DEF Encode, Written
<1>2. ASSUME NEW g \in Groups PROVE Encode(n)[g] \in Node \cup {None}
  <2>1. n[g] # None => n[g] \in Node
    BY DEF Tree
  <2>2. n[g] # None => Written(n[g]) \in Node
    BY <2>1, WrittenOf
  <2> QED BY <1>1, <2>2
<1>3. Encode(n) = [g \in Groups |-> Encode(n)[g]]
  BY DEF Encode
<1> QED BY <1>1, <1>2, <1>3 DEF Tree

\* Trees that are written alike give the same file.
LEMMA EncodeSame ==
    ASSUME NEW n \in Tree, NEW m \in Tree,
           \A g \in Groups : IF n[g] = None THEN m[g] = None
                             ELSE m[g] # None /\ Written(m[g]) = Written(n[g])
    PROVE  Encode(n) = Encode(m)
<1>1. \A g \in Groups : Encode(n)[g] = Encode(m)[g]
  BY EncodeOf
<1>2. Encode(n) = [g \in Groups |-> Encode(n)[g]] /\ Encode(m) = [g \in Groups |-> Encode(m)[g]]
  BY DEF Encode
<1> QED BY <1>1, <1>2

\* A sound tree is written as a sound one.
LEMMA EncodeSound ==
    ASSUME NEW P, NEW n, Sound(n, P)
    PROVE  Sound(Encode(n), P)
<1>1. n \in Tree
  BY DEF Sound
<1>2. PICK m : m = Encode(n)
  OBVIOUS
<1>3. m \in Tree /\ \A g \in Groups : m[g] = IF n[g] = None THEN None ELSE Written(n[g])
  BY <1>1, <1>2, EncodeOf
<1>4. ASSUME NEW g \in Groups
      PROVE  /\ m[g] = None <=> n[g] = None
             /\ n[g] # None => m[g].arts = n[g].arts
  <2>1. n[g] # None => n[g] \in Node
    BY <1>1 DEF Tree
  <2>2. n[g] # None => Written(n[g]).arts = n[g].arts /\ Written(n[g]) # None
    BY <2>1, WrittenOf, NodeOf
  <2> QED BY <1>3, <2>2
<1>5. \A g \in Groups : m[g] # None /\ Up[g] # Root => m[Up[g]] # None
  BY <1>4, GroupsAssumption DEF Sound
<1>6. \A g \in Groups : m[g] # None => Ordered(m[g].arts) /\ Kin(m[g].arts)
  BY <1>4 DEF Sound
<1>7. \A g \in Groups \ P : m[g] # None => Whole(m[g].arts)
  BY <1>4 DEF Sound
<1> QED BY <1>2, <1>3, <1>5, <1>6, <1>7 DEF Sound

\* What is complete but for P is complete but for more.
LEMMA SoundMore ==
    ASSUME NEW P, NEW Q, P \subseteq Q, NEW n, Sound(n, P)
    PROVE  Sound(n, Q)
BY DEF Sound

\* Replacing a group by nothing or by an empty one, with all below it.
LEMMA ReplaceSound ==
    ASSUME NEW P, NEW Q, NEW g \in Groups, NEW x \in Node \cup {None},
           x # None => x.arts = NoArts,
           Sound(news, P), HasMap(g), P \ {h \in Groups : g \in {h, Up[h]}} \subseteq Q
    PROVE  Sound(Replace(g, x), Q)
<1>1. PICK m : m = Replace(g, x)
  OBVIOUS
<1>2. news \in Tree
  BY DEF Sound
<1>3. /\ m \in Tree
      /\ \A h \in Groups : m[h] = IF h = g THEN x ELSE IF Up[h] = g THEN None ELSE news[h]
  BY <1>1, <1>2 DEF Replace, Tree
<1>4. ASSUME NEW h \in Groups, m[h] # None, Up[h] # Root PROVE m[Up[h]] # None
  <2>1. Up[h] \in Groups /\ Up[Up[h]] = Root /\ Up[h] # h
    BY <1>4, GroupsAssumption
  <2>2. Up[Up[h]] # g
    BY <2>1, GroupsAssumption
  <2>3. CASE h = g
    <3>1. news[Up[g]] # None
      BY <1>4, <2>3 DEF HasMap
    <3> QED BY <1>3, <2>1, <2>2, <2>3, <3>1
  <2>4. CASE h # g
    <3>1. Up[h] # g /\ news[h] # None
      BY <1>3, <1>4, <2>4
    <3>2. news[Up[h]] # None
      BY <1>4, <3>1 DEF Sound
    <3> QED BY <1>3, <2>1, <2>2, <3>1, <3>2
  <2> QED BY <2>3, <2>4
<1>5. ASSUME NEW h \in Groups, m[h] # None
      PROVE  Ordered(m[h].arts) /\ Kin(m[h].arts)
  BY <1>3, <1>5, NoArtsIsSound DEF Sound
<1>6. ASSUME NEW h \in Groups \ Q, m[h] # None
      PROVE  Whole(m[h].arts)
  <2>1. CASE h = g
    BY <1>3, <1>6, <2>1, NoArtsIsSound
  <2>2. CASE h # g
    <3>1. Up[h] # g /\ m[h] = news[h] /\ h \notin P
      BY <1>3, <1>6, <2>2
    <3> QED BY <1>6, <3>1 DEF Sound
  <2> QED BY <2>1, <2>2
<1> QED BY <1>1, <1>3, <1>4, <1>5, <1>6 DEF Sound

\* Putting a node in the place of a group, with what is below it unchanged.
LEMMA PutSound ==
    ASSUME NEW P, NEW Q, P \subseteq Q, NEW g \in Groups, NEW x \in Node,
           NEW m \in Tree, m[g] = x, \A h \in Groups \ {g} : m[h] = news[h],
           Sound(news, P), HasMap(g),
           Ordered(x.arts), Kin(x.arts), g \notin Q => Whole(x.arts)
    PROVE  Sound(m, Q)
<1>1. news \in Tree
  BY DEF Sound
<1>2. \A h \in Groups : m[h] = IF h = g THEN x ELSE news[h]
  OBVIOUS
<1>3. x # None
  BY NodeOf
<1>4. ASSUME NEW h \in Groups, m[h] # None, Up[h] # Root PROVE m[Up[h]] # None
  <2>1. Up[h] \in Groups
    BY <1>4, GroupsAssumption
  <2>2. news[Up[h]] # None
    BY <1>2, <1>4 DEF Sound, HasMap
  <2> QED BY <1>2, <1>3, <2>1, <2>2
<1> QED BY <1>2, <1>4 DEF Sound

-----------------------------------------------------------------------------
(* The steps *)

\* However the save of a call ends, memory and file stay sound and the same,
\* if what it wants and what it leaves undone are sound.
LEMMA CallStep ==
    ASSUME Inv, NEW n, NEW u, NEW l \in BOOLEAN, Call(n, u, l),
           pruned' \subseteq Groups, checked' \subseteq Groups, posts' \in 0 .. MaxPosts,
           Saved(n) \/ pruned \subseteq pruned',
           Sound(n, pruned'),
           pruned \subseteq pruned' => Sound(u, pruned'),
           ~l => Encode(u) = Encode(news)
    PROVE  Inv'
<1>0. n \in Tree /\ Encode(n) \in Tree /\ Sound(Encode(n), pruned')
  BY EncodeSound, EncodeOf DEF Sound
<1>1. \A g \in Groups : Encode(n)[g] # None => Encode(n)[g].hasArts = TRUE /\ Encode(n)[g].hasSubs = TRUE
  <2>1. ASSUME NEW g \in Groups, n[g] # None
        PROVE  Written(n[g]).hasArts = TRUE /\ Written(n[g]).hasSubs = TRUE
    <3>1. n[g] \in Node
      BY <1>0, <2>1 DEF Tree
    <3> QED BY <3>1, WrittenOf
  <2> QED BY <1>0, <2>1, EncodeOf
<1>2. CASE Saved(n)
  <2>1. /\ news' = n /\ file' = Encode(n) /\ drift' = FALSE /\ up' = up /\ faults' = faults
    BY <1>2 DEF Saved
  <2>2. TypeOK'
    BY <1>0, <2>1 DEF TypeOK, Inv, Tree
  <2>3. Sound(news, pruned)' /\ Sound(file, pruned)'
    BY <1>0, <2>1
  <2>4. Encoded' /\ MemoryIsFile'
    BY <1>1, <2>1 DEF Encoded, MemoryIsFile
  <2> QED BY <2>2, <2>3, <2>4 DEF Inv
<1>3. CASE ~Saved(n) /\ Unsaved(u, l)
  <2>1. /\ news' = u /\ drift' = (drift \/ l) /\ file' = file /\ up' = up
        /\ faults' = faults + 1 /\ faults < MaxFaults
    BY <1>3 DEF Unsaved, Fault
  <2>2. pruned \subseteq pruned' /\ Sound(u, pruned') /\ u \in Tree
    BY <1>3 DEF Sound
  <2>3. TypeOK'
    BY <2>1, <2>2, BoundsAssumption DEF TypeOK, Inv, Tree
  <2>4. Sound(file, pruned')
    BY <2>2, SoundMore DEF Inv
  <2>5. Encoded' /\ MemoryIsFile'
    BY <2>1 DEF Encoded, MemoryIsFile, Inv
  <2> QED BY <2>1, <2>2, <2>3, <2>4, <2>5 DEF Inv
<1>4. CASE ~Saved(n) /\ Dies(n)
  <2>1. /\ news' = news /\ drift' = drift /\ file' \in {file, Encode(n)} /\ up' = FALSE
        /\ faults' = faults + 1 /\ faults < MaxFaults
    BY <1>4 DEF Dies, Fault
  <2>2. pruned \subseteq pruned'
    BY <1>4
  <2>3. TypeOK'
    <3>1. file' \in Tree /\ news' \in Tree /\ faults' \in 0 .. MaxFaults
      BY <1>0, <2>1, BoundsAssumption DEF TypeOK, Inv, Sound
    <3>2. up' \in BOOLEAN /\ drift' \in BOOLEAN
      BY <2>1 DEF TypeOK, Inv
    <3> QED BY <3>1, <3>2 DEF TypeOK, Tree
  <2>4. Sound(file, pruned') /\ Sound(news, pruned')
    BY <2>2, SoundMore DEF Inv
  <2>5. Encoded' /\ MemoryIsFile'
    BY <1>1, <2>1 DEF Encoded, MemoryIsFile, Inv
  <2> QED BY <1>0, <2>1, <2>3, <2>4, <2>5 DEF Inv
<1> QED BY <1>2, <1>3, <1>4 DEF Call

\* Replacing a group, or deleting one.
LEMMA GroupingStep ==
    ASSUME Inv, NEW g \in Groups, NEW x \in Node \cup {None}, NEW u, NEW l \in BOOLEAN,
           x # None => x.arts = NoArts, HasMap(g),
           Call(Replace(g, x), u, l), Forget(g),
           checked' \subseteq Groups, posts' = posts,
           Sound(u, pruned), ~l => Encode(u) = Encode(news)
    PROVE  Inv'
<1> DEFINE n == Replace(g, x)
<1>1. /\ pruned' = IF file' = file \/ ~up' THEN pruned
                   ELSE pruned \ {h \in Groups : g \in {h, Up[h]}}
      /\ pruned \subseteq Groups
  BY DEF Forget, Inv, TypeOK
<1>2. pruned' \subseteq Groups /\ pruned \ {h \in Groups : g \in {h, Up[h]}} \subseteq pruned'
  BY <1>1
<1>3. Sound(n, pruned')
  BY <1>2, ReplaceSound DEF Inv
<1>4. Saved(n) \/ pruned \subseteq pruned'
  BY <1>1 DEF Call, Unsaved, Dies
<1>5. pruned \subseteq pruned' => Sound(u, pruned')
  BY SoundMore
<1>6. posts' \in 0 .. MaxPosts
  BY DEF Inv, TypeOK
<1>7. Call(n, u, l)
  OBVIOUS
<1> HIDE DEF n
<1> QED BY <1>2, <1>3, <1>4, <1>5, <1>6, <1>7, CallStep

\* An empty group, made or missing, is a node without articles.
LEMMA EmptyOf ==
    /\ \A t \in {"bundle", "category"} : Empty(t) \in Node /\ Empty(t).arts = NoArts
    /\ Zero \in Node /\ Zero.arts = NoArts
BY NoArtsIsSound DEF Empty, Zero, Node, Arts, Types

\* Nothing is below what is not there: replacing it by nothing changes nothing.
LEMMA ReplaceNothing ==
    ASSUME Inv, NEW g \in Groups, news[g] = None
    PROVE  Replace(g, None) = news
<1>1. news \in Tree
  BY DEF Inv, Sound
<1>2. \A h \in Groups : Up[h] = g => news[h] = None
  BY GroupsAssumption DEF Inv, Sound
<1> QED BY <1>1, <1>2 DEF Replace, Tree

\* CreateGrouping keeps the invariant.
LEMMA CreateStep ==
    ASSUME Inv, NEW g \in Groups, NEW t \in {"bundle", "category"}, CreateGrouping(g, t)
    PROVE  Inv'
<1>1. PICK u : u = Replace(g, None)
  OBVIOUS
<1>l. PICK l \in BOOLEAN : l = (news[g] # None)
  OBVIOUS
<1>2. /\ HasMap(g) /\ Call(Replace(g, Empty(t)), u, l) /\ Forget(g)
      /\ checked' = checked /\ posts' = posts
  BY <1>1, <1>l DEF CreateGrouping
<1>3. Sound(u, pruned)
  BY <1>1, <1>2, ReplaceSound DEF Inv
<1>4. ~l => Encode(u) = Encode(news)
  BY <1>1, <1>l, ReplaceNothing
<1>5. checked' \subseteq Groups
  BY <1>2 DEF Inv, TypeOK
<1> QED BY <1>2, <1>3, <1>4, <1>5, EmptyOf, GroupingStep

\* The deletion of an item keeps the invariant.
LEMMA DeleteItemStep ==
    ASSUME Inv, NEW g \in Groups, DeleteNewsItem(g)
    PROVE  Inv'
<1>0. checked' \subseteq Groups /\ posts' = posts
  BY DEF DeleteNewsItem, Inv, TypeOK
<1>1. PICK u : u = IF news[g] = None THEN Replace(g, Zero) ELSE news
  OBVIOUS
<1>l. PICK l \in BOOLEAN : l = (news[g] = None)
  OBVIOUS
<1>2. CASE HasMap(g)
  <2>1. Call(Replace(g, None), u, l) /\ Forget(g)
    BY <1>1, <1>l, <1>2 DEF DeleteNewsItem
  <2>2. Sound(Replace(g, Zero), pruned)
    BY <1>2, EmptyOf, ReplaceSound DEF Inv
  <2>3. Sound(u, pruned) /\ (~l => Encode(u) = Encode(news))
    BY <1>1, <1>l, <2>2 DEF Inv
  <2> QED BY <1>0, <1>2, <2>1, <2>3, GroupingStep
<1>3. CASE ~HasMap(g)
  <2>1. Call(news, news, FALSE) /\ pruned' = pruned
    BY <1>3 DEF DeleteNewsItem
  <2>2. /\ pruned' \subseteq Groups /\ posts' \in 0 .. MaxPosts
        /\ Sound(news, pruned') /\ pruned \subseteq pruned'
    BY <1>0, <2>1 DEF Inv, TypeOK
  <2> QED BY <1>0, <2>1, <2>2, CallStep
<1> QED BY <1>2, <1>3

\* The category a post goes to is a node, and is written as the one it was.
LEMMA CategoryOf ==
    ASSUME Inv, NEW g \in Groups
    PROVE  /\ Category(g) \in Node
           /\ Category(g).arts = IF news[g] = None THEN NoArts ELSE news[g].arts
           /\ Ordered(Category(g).arts) /\ Kin(Category(g).arts)
           /\ g \notin pruned => Whole(Category(g).arts)
           /\ news[g] # None =>
                 Written([Category(g) EXCEPT !.arts = Category(g).arts]) = Written(news[g])
<1>1. PICK x : x = IF news[g] = None THEN Zero ELSE news[g]
  OBVIOUS
<1>2. x \in Node /\ x.arts = IF news[g] = None THEN NoArts ELSE news[g].arts
  BY <1>1, EmptyOf DEF Inv, TypeOK
<1>3. PICK c : c = Category(g)
  OBVIOUS
<1>4. c = [x EXCEPT !.hasArts = TRUE]
  BY <1>1, <1>3 DEF Category
<1>5. c \in Node /\ c.arts = x.arts /\ Written([c EXCEPT !.arts = c.arts]) = Written(x)
  BY <1>2, <1>4 DEF Node, Written
<1>6. Ordered(x.arts) /\ Kin(x.arts) /\ (g \notin pruned => Whole(x.arts))
  BY <1>2, NoArtsIsSound DEF Inv, Sound
<1> QED BY <1>1, <1>2, <1>3, <1>5, <1>6

\* Posting an article keeps the invariant.
LEMMA PostStep ==
    ASSUME Inv, NEW g \in Groups, NEW par \in 0 .. MaxID, PostArticle(g, par)
    PROVE  Inv'
<1>1. PICK c : c = Category(g)
  OBVIOUS
<1>2. PICK A : A = c.arts
  OBVIOUS
<1>3. PICK L : L = Last(A)
  OBVIOUS
<1>4. PICK B : B = Posted(A, par)
  OBVIOUS
<1>5. PICK l \in BOOLEAN : l = (news[g] = None)
  OBVIOUS
<1>6. /\ L < MaxID /\ posts < MaxPosts /\ HasMap(g)
      /\ L # 0 => A[L] # Nil
      /\ par # 0 => A[par] \notin {None, Nil}
      /\ Call(With(g, c, B), With(g, c, A), l)
      /\ posts' = posts + 1 /\ checked' = checked /\ pruned' = pruned
  BY <1>1, <1>2, <1>3, <1>4, <1>5 DEF PostArticle, Post
<1>7. /\ c \in Node /\ A \in Arts /\ Ordered(A) /\ Kin(A) /\ (g \notin pruned => Whole(A))
      /\ news[g] # None => Written([c EXCEPT !.arts = A]) = Written(news[g])
  BY <1>1, <1>2, CategoryOf, NodeOf
<1>8. posts \in 0 .. MaxPosts /\ posts' \in 0 .. MaxPosts /\ news \in Tree
  BY <1>6, BoundsAssumption DEF Inv, TypeOK, Tree
<1>9. B \in Arts /\ Extended(A, B, L + 1, par)
  BY <1>3, <1>4, <1>6, <1>7, <1>8, PostedOf
<1>10. Ordered(B) /\ Kin(B) /\ (g \notin pruned => Whole(B))
  BY <1>3, <1>6, <1>7, <1>9, ExtendedIsSound, ExtendedIsWhole
<1>11. PICK n : n = With(g, c, B)
  OBVIOUS
<1>12. PICK u : u = With(g, c, A)
  OBVIOUS
<1>13. PICK x \in Node : x = [c EXCEPT !.arts = B] /\ x.arts = B
  BY <1>7, <1>9, ArtsSet
<1>14. PICK y \in Node : y = [c EXCEPT !.arts = A] /\ y.arts = A
  BY <1>7, ArtsSet
<1>15. n = [news EXCEPT ![g] = x] /\ u = [news EXCEPT ![g] = y]
  BY <1>11, <1>12, <1>13, <1>14 DEF With
<1>16. Sound(n, pruned)
  <2>1. n \in Tree /\ n[g] = x /\ \A h \in Groups \ {g} : n[h] = news[h]
    BY <1>8, <1>15 DEF Tree
  <2>2. Sound(news, pruned) /\ Ordered(x.arts) /\ Kin(x.arts) /\ (g \notin pruned => Whole(x.arts))
    BY <1>10, <1>13 DEF Inv
  <2> QED BY <1>6, <2>1, <2>2, PutSound
<1>17. Sound(u, pruned)
  <2>1. u \in Tree /\ u[g] = y /\ \A h \in Groups \ {g} : u[h] = news[h]
    BY <1>8, <1>15 DEF Tree
  <2>2. Sound(news, pruned) /\ Ordered(y.arts) /\ Kin(y.arts) /\ (g \notin pruned => Whole(y.arts))
    BY <1>7, <1>14 DEF Inv
  <2> QED BY <1>6, <2>1, <2>2, PutSound
<1>18. ASSUME ~l PROVE Encode(u) = Encode(news)
  <2>1. u \in Tree /\ \A h \in Groups : u[h] = IF h = g THEN y ELSE news[h]
    BY <1>8, <1>15 DEF Tree
  <2>2. y # None /\ Written(y) = Written(news[g]) /\ news[g] # None
    BY <1>5, <1>7, <1>14, <1>18, NodeOf
  <2> QED BY <1>8, <2>1, <2>2, EncodeSame
<1>19. pruned' \subseteq Groups /\ checked' \subseteq Groups
  BY <1>6 DEF Inv, TypeOK
<1> QED BY <1>6, <1>8, <1>11, <1>12, <1>16, <1>17, <1>18, <1>19, CallStep

\* A post that panics keeps the invariant.
LEMMA PanicStep ==
    ASSUME Inv, NEW g \in Groups, NEW par \in 0 .. MaxID, PostPanics(g, par)
    PROVE  Inv'
<1>1. PICK x : x = news[g]
  OBVIOUS
<1>2. PICK A : A = x.arts
  OBVIOUS
<1>3. PICK L : L = Last(A)
  OBVIOUS
<1>4. /\ x # None /\ HasMap(g) /\ (L # 0 => A[L] # Nil)
      /\ faults < MaxFaults /\ faults' = faults + 1
      /\ news' = With(g, x, Linked(A)) /\ drift' = (drift \/ news' # news)
      /\ UNCHANGED <<file, checked, up, pruned, posts>>
  BY <1>1, <1>2, <1>3 DEF PostPanics, Fault
<1>5. x \in Node /\ Ordered(A) /\ Kin(A) /\ (g \notin pruned => Whole(A))
  BY <1>1, <1>2, <1>4 DEF Inv, TypeOK, Sound
<1>6. PICK B : B = Linked(A)
  OBVIOUS
<1>7. A \in Arts
  BY <1>2, <1>5, NodeOf
<1>8. B \in Arts /\ Ordered(B) /\ Kin(B) /\ (g \notin pruned => Whole(B))
  BY <1>3, <1>4, <1>5, <1>6, <1>7, LinkedIsSound
<1>9. PICK y \in Node : y = [x EXCEPT !.arts = B] /\ y.arts = B
  BY <1>5, <1>8, ArtsSet
<1>10. news' = [news EXCEPT ![g] = y]
  BY <1>4, <1>6, <1>9 DEF With
<1>11. Sound(news', pruned)
  <2>1. news' \in Tree /\ news'[g] = y /\ \A h \in Groups \ {g} : news'[h] = news[h]
    BY <1>10 DEF Inv, TypeOK, Tree
  <2>2. Sound(news, pruned) /\ Ordered(y.arts) /\ Kin(y.arts) /\ (g \notin pruned => Whole(y.arts))
    BY <1>8, <1>9 DEF Inv
  <2> QED BY <1>4, <2>1, <2>2, PutSound
<1>12. TypeOK'
  <2>1. news' \in Tree
    BY <1>11 DEF Sound
  <2>2. faults' \in 0 .. MaxFaults /\ drift' \in BOOLEAN
    BY <1>4, BoundsAssumption DEF Inv, TypeOK
  <2> QED BY <1>4, <2>1, <2>2 DEF Inv, TypeOK, Tree
<1>13. Encoded' /\ MemoryIsFile'
  BY <1>4 DEF Inv, Encoded, MemoryIsFile
<1> QED BY <1>4, <1>11, <1>12, <1>13 DEF Inv

\* Deleting an article keeps the invariant.
LEMMA DeleteArticleStep ==
    ASSUME Inv, NEW g \in Groups, NEW i \in IDs, DeleteArticle(g, i)
    PROVE  Inv'
<1>0. /\ HasMap(g) /\ pruned' = pruned \cup {g} /\ checked' = checked /\ posts' = posts
  BY DEF DeleteArticle
<1>1. PICK l \in BOOLEAN : l = (news[g] = None \/ news[g].arts[i] = None)
  OBVIOUS
<1>2. PICK n : n = IF news[g] = None THEN [news EXCEPT ![g] = Zero]
                   ELSE [news EXCEPT ![g].arts[i] = None]
  OBVIOUS
<1>3. PICK u : u = Undeleted(g, i)
  OBVIOUS
<1>4. Call(n, u, l)
  BY <1>1, <1>2, <1>3 DEF DeleteArticle
<1>5. /\ pruned' \subseteq Groups /\ checked' \subseteq Groups /\ posts' \in 0 .. MaxPosts
      /\ pruned \subseteq pruned' /\ g \in pruned' /\ news \in Tree
  BY <1>0 DEF Inv, TypeOK, Tree
<1>6. Sound([news EXCEPT ![g] = Zero], pruned')
  <2>1. PICK m : m = [news EXCEPT ![g] = Zero]
    OBVIOUS
  <2>2. Zero \in Node /\ Ordered(Zero.arts) /\ Kin(Zero.arts)
    BY EmptyOf, NoArtsIsSound
  <2>3. Sound(m, pruned')
    <3>1. m \in Tree /\ m[g] = Zero /\ \A h \in Groups \ {g} : m[h] = news[h]
      BY <1>5, <2>1, <2>2 DEF Tree
    <3>2. Sound(news, pruned)
      BY DEF Inv
    <3> QED BY <1>0, <1>5, <2>2, <3>1, <3>2, PutSound
  <2> QED BY <2>1, <2>3
<1>7. ASSUME news[g] # None, NEW v \in {None, Nil}
      PROVE  Sound([news EXCEPT ![g].arts[i] = v], pruned')
  <2>1. news[g] \in Node /\ Ordered(news[g].arts) /\ Kin(news[g].arts)
    BY <1>7 DEF Inv, TypeOK, Sound
  <2>2. news[g].arts \in Arts
    BY <2>1, NodeOf
  <2>3. PICK B : B = [news[g].arts EXCEPT ![i] = v]
    OBVIOUS
  <2>4. B \in Arts /\ Ordered(B) /\ Kin(B)
    BY <2>1, <2>2, <2>3, ClearedIsSound
  <2>5. PICK y \in Node : y = [news[g] EXCEPT !.arts = B] /\ y.arts = B
    BY <2>1, <2>4, ArtsSet
  <2>6. PICK m : m = [news EXCEPT ![g] = y]
    OBVIOUS
  <2>7. Sound(m, pruned')
    <3>1. m \in Tree /\ m[g] = y /\ \A h \in Groups \ {g} : m[h] = news[h]
      BY <1>5, <2>6 DEF Tree
    <3>2. Sound(news, pruned) /\ Ordered(y.arts) /\ Kin(y.arts)
      BY <2>4, <2>5 DEF Inv
    <3> QED BY <1>0, <1>5, <3>1, <3>2, PutSound
  <2>8. m = [news EXCEPT ![g].arts[i] = v]
    BY <2>3, <2>5, <2>6
  <2> QED BY <2>7, <2>8
<1>8. Sound(n, pruned')
  BY <1>2, <1>6, <1>7
<1>9. Sound(news, pruned')
  BY <1>5, SoundMore DEF Inv
<1>10. Sound(u, pruned')
  BY <1>3, <1>6, <1>7, <1>9 DEF Undeleted
<1>11. ~l => u = news
  BY <1>1, <1>3 DEF Undeleted
<1>12. ~l => Encode(u) = Encode(news)
  BY <1>11
<1> QED BY <1>4, <1>5, <1>8, <1>10, <1>12, CallStep

\* A start or reload keeps the invariant: reading back changes nothing.
LEMMA LoadStep ==
    ASSUME Inv, Load
    PROVE  Inv'
<1>1. file \in Tree
  BY DEF Inv, Sound
<1>2. Encode(file) = file
  <2>1. \A g \in Groups : Encode(file)[g] = file[g]
    <3>1. ASSUME NEW g \in Groups, file[g] # None PROVE Written(file[g]) = file[g]
      <4>1. file[g] \in Node /\ file[g].hasArts = TRUE /\ file[g].hasSubs = TRUE
        BY <1>1, <3>1 DEF Inv, Encoded, Tree
      <4> QED BY <4>1, WrittenOf
    <3> QED BY <1>1, <3>1, EncodeOf
  <2>2. file = [g \in Groups |-> file[g]] /\ Encode(file) = [g \in Groups |-> Encode(file)[g]]
    BY <1>1 DEF Tree, Encode
  <2> QED BY <2>1, <2>2
<1>3. /\ news' = file /\ drift' = FALSE /\ up' = TRUE /\ checked' \subseteq Groups
      /\ UNCHANGED <<file, pruned, posts, faults>>
  BY DEF Load, Inv, TypeOK
<1>4. TypeOK'
  BY <1>3 DEF Inv, TypeOK
<1>5. Encoded' /\ MemoryIsFile'
  BY <1>2, <1>3 DEF Inv, Encoded, MemoryIsFile
<1> QED BY <1>3, <1>4, <1>5 DEF Inv

\* A crash, the look at an item and a stutter change no news.
LEMMA QuietStep ==
    ASSUME Inv, UNCHANGED <<news, file, drift, pruned, posts>>, up' \in BOOLEAN, up' => up,
           checked' \subseteq Groups, faults' \in 0 .. MaxFaults
    PROVE  Inv'
<1>1. TypeOK'
  BY DEF Inv, TypeOK
<1>2. Encoded'
  BY DEF Inv, Encoded
<1>3. MemoryIsFile'
  BY DEF Inv, MemoryIsFile
<1> QED BY <1>1, <1>2, <1>3 DEF Inv

\* The invariant holds of an empty news file and is preserved by every step.
LEMMA Invariance == Spec => []Inv
<1>1. Init => Inv
  <2> SUFFICES ASSUME Init PROVE Inv
    OBVIOUS
  <2>0. /\ news \in Tree /\ file = news /\ \A g \in Groups : news[g] = None
    BY DEF Init, Tree
  <2>1. news \in Tree /\ file = news /\ (\A g \in Groups : news[g] = None) /\ TypeOK
    <3>1. 0 \in 0 .. MaxPosts /\ 0 \in 0 .. MaxFaults
      BY BoundsAssumption
    <3> QED BY <2>0, <3>1 DEF Init, TypeOK, Tree
  <2>2. Sound(news, pruned)
    BY <2>1 DEF Sound
  <2>3. \A g \in Groups : Encode(news)[g] = news[g]
    BY <2>1, EncodeOf
  <2>4. news = [g \in Groups |-> news[g]] /\ Encode(news) = [g \in Groups |-> Encode(news)[g]]
    BY <2>1 DEF Tree, Encode
  <2>5. Encoded /\ MemoryIsFile
    BY <2>1, <2>3, <2>4 DEF Encoded, MemoryIsFile
  <2> QED BY <2>1, <2>2, <2>5 DEF Inv
<1>2. Inv /\ [Next]_vars => Inv'
  <2> SUFFICES ASSUME Inv, [Next]_vars PROVE Inv'
    OBVIOUS
  <2>1. ASSUME NEW g \in Groups, CheckDelete(g) PROVE Inv'
    <3>1. /\ UNCHANGED <<news, file, drift, pruned, posts>> /\ up' \in BOOLEAN /\ (up' => up)
          /\ checked' \subseteq Groups /\ faults' \in 0 .. MaxFaults
      BY <2>1 DEF CheckDelete, Inv, TypeOK
    <3> QED BY <3>1, QuietStep
  <2>2. CASE Crash
    <3>1. /\ UNCHANGED <<news, file, drift, pruned, posts>> /\ up' \in BOOLEAN /\ (up' => up)
          /\ checked' \subseteq Groups /\ faults' \in 0 .. MaxFaults
      <4>1. faults \in 0 .. MaxFaults /\ faults < MaxFaults /\ faults' = faults + 1
        BY <2>2 DEF Crash, Fault, Inv, TypeOK
      <4>2. faults' \in 0 .. MaxFaults
        BY <4>1, BoundsAssumption
      <4> QED BY <2>2, <4>2 DEF Crash, Inv, TypeOK
    <3> QED BY <3>1, QuietStep
  <2>3. CASE UNCHANGED vars
    <3>1. /\ UNCHANGED <<news, file, drift, pruned, posts>> /\ up' \in BOOLEAN /\ (up' => up)
          /\ checked' \subseteq Groups /\ faults' \in 0 .. MaxFaults
      BY <2>3 DEF vars, Inv, TypeOK
    <3> QED BY <3>1, QuietStep
  <2> QED
    BY <2>1, <2>2, <2>3, CreateStep, DeleteItemStep, PostStep, PanicStep,
       DeleteArticleStep, LoadStep DEF Next
<1> QED BY <1>1, <1>2, PTL DEF Spec

-----------------------------------------------------------------------------
(* The theorems *)

\* Every variable keeps its type: the links of an article stay within the
\* numbers of its category, in memory and on file (PostArticle, Load).
THEOREM TypeCorrect == Spec => []TypeOK
<1>1. Inv => TypeOK
  BY DEF Inv
<1> QED BY <1>1, Invariance, PTL

\* Memory is what ThreadedNews.yaml holds, after any sequence of calls whose
\* saves succeed or fail, and of restarts, unless a rollback or panic known to
\* leave a difference came since the last save (the rollbacks of
\* ThreadedNewsYAML).
THEOREM MemoryMatchesFile == Spec => []MemoryIsFile
<1>1. Inv => MemoryIsFile
  BY DEF Inv
<1> QED BY <1>1, Invariance, PTL

\* What the invariant says of the category an article is in.
LEMMA Placed ==
    ASSUME Inv, NEW g \in Groups, NEW i \in IDs, IsArticle(g, i)
    PROVE  /\ news[g] # None /\ news[g].arts \in Arts /\ Art(news[g].arts, i)
           /\ Ordered(news[g].arts) /\ Kin(news[g].arts)
           /\ g \notin pruned => Whole(news[g].arts)
           /\ \A j \in IDs : IsArticle(g, j) <=> Art(news[g].arts, j)
<1>1. news[g] # None /\ news[g] \in Node
  BY DEF IsArticle, Inv, TypeOK
<1>2. news[g].arts \in Arts
  BY <1>1, NodeOf
<1> QED BY <1>1, <1>2 DEF IsArticle, Art, Inv, Sound

\* Links never lead in a circle, although numbers are reused and articles go
\* without telling their neighbours (PostArticle, DeleteArticle).
THEOREM LinksInOrder == Spec => []LinksAreOrdered
<1>1. Inv => LinksAreOrdered
  BY Placed DEF LinksAreOrdered, Ordered
<1> QED BY <1>1, Invariance, PTL

\* The article an answer names as its parent is the one it answered.
THEOREM ParentsAreParents == Spec => []ParentIsParent
<1>1. Inv => ParentIsParent
  <2> SUFFICES ASSUME Inv, NEW g \in Groups, NEW i \in IDs, IsArticle(g, i),
                      NEW p \in IDs, p = news[g].arts[i].parent, IsArticle(g, p)
               PROVE  news[g].arts[p].uid = news[g].arts[i].of
    BY DEF ParentIsParent
  <2> QED BY Placed DEF Kin
<1> QED BY <1>1, Invariance, PTL

\* In a category that lost no article, neighbours know each other and every
\* article leads to the first of its answers, whatever posts failed.
THEOREM ThreadsComplete == Spec => []ThreadsAreComplete
<1>1. Inv => ThreadsAreComplete
  <2> SUFFICES ASSUME Inv, NEW g \in Groups \ pruned, NEW i \in IDs, IsArticle(g, i),
                      NEW A, A = news[g].arts
               PROVE  /\ i < Last(A) => A[i].next = i + 1 /\ A[i + 1].prev = i
                      /\ i = Last(A) => A[i].next \in {0, i + 1}
                      /\ IF {j \in IDs : IsArticle(g, j) /\ A[j].parent = i} = {}
                         THEN A[i].child = 0
                         ELSE /\ A[i].child \in {j \in IDs : IsArticle(g, j) /\ A[j].parent = i}
                              /\ \A j \in {k \in IDs : IsArticle(g, k) /\ A[k].parent = i} :
                                    A[i].child <= j
    BY DEF ThreadsAreComplete
  <2>1. Whole(A) /\ Art(A, i) /\ \A j \in IDs : IsArticle(g, j) <=> Art(A, j)
    BY Placed
  <2>2. {j \in IDs : IsArticle(g, j) /\ A[j].parent = i} = Answers(A, i)
    BY <2>1 DEF Answers
  <2> QED BY <2>1, <2>2 DEF Whole
<1> QED BY <1>1, Invariance, PTL
=============================================================================
