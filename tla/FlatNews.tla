------------------------------ MODULE FlatNews ------------------------------
(***************************************************************************)
(* The message board: FlatNews (internal/mobius/news.go) under the         *)
(* handlers HandleGetMsgs and HandleTranOldPostNews.  Seek, Read, Write    *)
(* and Reload each take the lock for themselves, and all sessions share    *)
(* one read offset.  The board is bytes: a Read may stop amid a post, and  *)
(* a post put in front then moves what the offset points at.               *)
(***************************************************************************)
EXTENDS Naturals, Sequences

CONSTANTS Readers,        \* sessions that ask for the messages
          Posts,          \* the posts, each made once
          Size,           \* the bytes of each post
          MaxBoardFaults  \* bound: failed writes, crashes, edits and reloads

ASSUME BoardFaultsAssumption == MaxBoardFaults \in Nat
ASSUME SizeAssumption == Size \in [Posts -> Nat \ {0}]

VARIABLES
    data,      \* f.data
    offset,    \* f.readOffset
    boardFile, \* MessageBoard.txt
    reader,    \* each session's HandleGetMsgs
    alone,     \* readers that had the board for themselves so far
    made,      \* posts that somebody has sent
    acked,     \* posts whose sender got the reply
    removed,   \* posts that an administrator took out of the file
    boardFaults

boardVars ==
    <<data, offset, boardFile, reader, alone, made, acked, removed, boardFaults>>

Byte    == UNION {{[post |-> p, nth |-> i] : i \in 1..Size[p]} : p \in Posts}
Text(p) == [i \in 1..Size[p] |-> [post |-> p, nth |-> i]]

\* Post p stands in s, whole, behind the first a bytes.
At(s, p, a) ==
    \A i \in 1..Size[p] : a + i \in DOMAIN s /\ s[a + i] = [post |-> p, nth |-> i]

Entire(s, p) == \E a \in 0..Len(s) : At(s, p, a)
OnBoard(s)  == {p \in Posts : Entire(s, p)}

Waiting == [pc |-> "idle", got |-> <<>>, first |-> {}, torn |-> {}]

BoardTypeOK ==
    /\ data \in Seq(Byte) /\ boardFile \in Seq(Byte)
    /\ offset \in Nat
    /\ reader \in [Readers -> [pc : {"idle", "read", "done"}, got : Seq(Byte),
                               first : SUBSET Posts, torn : SUBSET Posts]]
    /\ alone \subseteq Readers
    /\ made \subseteq Posts /\ acked \subseteq made /\ removed \subseteq Posts
    /\ boardFaults \in 0..MaxBoardFaults

BoardInit ==
    /\ data = <<>> /\ boardFile = <<>>
    /\ offset = 0
    /\ reader = [r \in Readers |-> Waiting]
    /\ alone = {}
    /\ made = {} /\ acked = {} /\ removed = {}
    /\ boardFaults = 0

BoardFault == boardFaults < MaxBoardFaults /\ boardFaults' = boardFaults + 1

Reading == {r \in Readers : reader[r].pc = "read"}

\* The readers once r has begun; what the others are getting is not kept.
Joined(r) ==
    [q \in Readers |->
        IF q = r THEN [Waiting EXCEPT !.pc = "read", !.first = OnBoard(data)]
        ELSE IF q \in Reading THEN [Waiting EXCEPT !.pc = "read"] ELSE reader[q]]

-----------------------------------------------------------------------------
(* HandleTranOldPostNews and Write *)

\* The posts that are torn for a lone reader when p is put in front: the offset
\* stands in them, more bytes behind their start than p has.
Torn(p) ==
    {q \in Posts : /\ offset \in 1..(Len(data) - 1)
                   /\ data[offset].post = q /\ data[offset + 1].post = q
                   /\ data[offset].nth > Size[p]}

\* The post comes in front of the others; the offset stays where it is.
Prepend(p) ==
    /\ data' = Text(p) \o data
    /\ reader' = [r \in Readers |->
                    IF r \in alone /\ reader[r].pc = "read"
                    THEN [reader[r] EXCEPT !.torn = @ \cup Torn(p)] ELSE reader[r]]

\* Write: memory first, then a temporary file and its renaming.
Write(p) == Prepend(p) /\ boardFile' = data' /\ UNCHANGED boardFaults

\* If either of them fails, the post stays in memory, and the file is as it was.
WriteFails(p) == Prepend(p) /\ UNCHANGED boardFile /\ BoardFault

\* Mutant: the error is not looked at.
PostUnchecked(p) ==
    /\ p \notin made
    /\ made' = made \cup {p}
    /\ Write(p) \/ WriteFails(p)
    /\ acked' = acked \cup {p}
    /\ UNCHANGED <<offset, alone, removed>>

\* After an error there is no reply.
HandleTranOldPostNews(p) ==
    /\ p \notin made
    /\ made' = made \cup {p}
    /\ \/ Write(p) /\ acked' = acked \cup {p}
       \/ WriteFails(p) /\ UNCHANGED acked
    /\ UNCHANGED <<offset, alone, removed>>

-----------------------------------------------------------------------------
(* HandleGetMsgs *)

\* Mutant: the offset stays where the last reader left it.
SeekNowhere(r) ==
    /\ reader[r].pc = "idle"
    /\ reader' = Joined(r)
    /\ alone' = (alone \ Reading) \cup (IF Reading = {} THEN {r} ELSE {})
    /\ UNCHANGED <<data, offset, boardFile, made, acked, removed, boardFaults>>

\* A reader that starts moves the offset of all others.
Seek(r) ==
    /\ reader[r].pc = "idle"
    /\ offset' = 0
    /\ reader' = Joined(r)
    /\ alone' = (alone \ Reading) \cup (IF Reading = {} THEN {r} ELSE {})
    /\ UNCHANGED <<data, boardFile, made, acked, removed, boardFaults>>

\* io.ReadAll: as many bytes as its buffer has room for, until the offset is at
\* the end, or beyond it.  (What a reader gets that is not alone is not kept.)
Read(r) ==
    /\ reader[r].pc = "read"
    /\ \/ /\ offset >= Len(data)
          /\ reader' = [reader EXCEPT ![r].pc = "done"]
          /\ UNCHANGED offset
       \/ \E n \in 1..(Len(data) - offset) :
            /\ reader' = [reader EXCEPT ![r].got =
                             IF r \in alone
                             THEN @ \o SubSeq(data, offset + 1, offset + n) ELSE <<>>]
            /\ offset' = offset + n
    /\ UNCHANGED <<data, boardFile, alone, made, acked, removed, boardFaults>>

Reply(r) ==
    /\ reader[r].pc = "done"
    /\ reader' = [reader EXCEPT ![r] = Waiting]
    /\ alone' = alone \ {r}
    /\ UNCHANGED <<data, offset, boardFile, made, acked, removed, boardFaults>>

-----------------------------------------------------------------------------
(* The file from outside *)

Reload ==
    /\ BoardFault
    /\ data' = boardFile
    /\ alone' = alone \ Reading
    /\ UNCHANGED <<offset, boardFile, reader, made, acked, removed>>

\* An administrator takes the bytes from i to j out of the file; the server
\* learns of it by Reload only.
Edit(i, j) ==
    /\ BoardFault
    /\ boardFile' = SubSeq(boardFile, 1, i - 1)
                        \o SubSeq(boardFile, j + 1, Len(boardFile))
    /\ removed' = removed \cup {boardFile[k].post : k \in i..j}
    /\ UNCHANGED <<data, offset, reader, alone, made, acked>>

\* The process ends and starts again (NewFlatNews).
Restart ==
    /\ BoardFault
    /\ data' = boardFile
    /\ offset' = 0
    /\ reader' = [r \in Readers |-> Waiting]
    /\ alone' = {}
    /\ UNCHANGED <<boardFile, made, acked, removed>>

BoardNext ==
    \/ \E p \in Posts : HandleTranOldPostNews(p)
    \/ \E i \in DOMAIN boardFile : \E j \in i..Len(boardFile) : Edit(i, j)
    \/ \E r \in Readers : Seek(r) \/ Read(r) \/ Reply(r)
    \/ Reload
    \/ Restart

BoardSpec == BoardInit /\ [][BoardNext]_boardVars

-----------------------------------------------------------------------------
(* Properties *)

\* A post whose sender got the reply is in the file for good, through failed
\* writes of other posts, reloads and restarts, unless an administrator took
\* it out (Write, Reload).
AckedIsKept == acked \ removed \subseteq OnBoard(boardFile)

\* A session that had the board for itself gets every post that was on it when
\* it started to read, in one piece, also when posts are put in front of the
\* ones it is reading: except a post it had stopped amid of, when one shorter
\* than what it had of it was put in front (HandleGetMsgs, Read, Write).
AloneReadsWhole ==
    \A r \in alone : reader[r].pc = "done" =>
        \A p \in reader[r].first \ reader[r].torn : Entire(reader[r].got, p)
=============================================================================
