--------------------------- MODULE FileAreaProofs ---------------------------
(***************************************************************************)
(* Proofs about Transfers and Files, the transfers of files and what the   *)
(* requests do to the files, for any number of connections, files, folders *)
(* and blocks.                                                             *)
(***************************************************************************)
EXTENDS Transfers, Files, FiniteSetTheorems, SequenceTheorems, WellFoundedInduction, TLAPS

-----------------------------------------------------------------------------
(***************************************************************************)
(* Transfers.  UploadIntact rests on an invariant about the files on disk: *)
(* no inode has two names (OneName), the inode a connection may still make *)
(* is untouched (Fresh), and what an unspoiled inode holds is what its     *)
(* only writer has received so far (OneWriter).                            *)
(***************************************************************************)

\* Where a connection has its .incomplete file open.
Writing == {"size", "recv", "rename"}

\* Where it has yet to open the file of the current item.
Opening == {"stat", "new", "full", "open"}

\* What the request handlers register.
Offered(t) ==
    /\ t.kind \in {"upload", "download"} => t.file \in Files
    /\ t.kind \in {"upload", "folder"} => t.src \in Sources
    /\ t.kind = "upload" => t.items = 0

\* A reference number is registered once, and a connection that ended has
\* taken it out.
Registry ==
    /\ \A r \in Refs : registry[r] # None => r \in drawn /\ Offered(registry[r])
    /\ \A c \in Handlers : h[c].pc # "idle" => h[c].ref \in drawn
    /\ FinishedIsForgotten

\* The stages a connection goes through are those of its kind of transfer.
Stages ==
    \A c \in Handlers :
        /\ h[c].pc \in Opening \cup Writing
             => h[c].file \in Files /\ h[c].src \in Sources
        /\ h[c].pc = "item" => h[c].src \in Sources
        /\ h[c].pc \in {"new", "full", "item", "size"} => h[c].kind = "folder"
        /\ h[c].pc \in Opening \cup Writing => h[c].kind \in {"upload", "folder"}
        /\ h[c].kind = "banner" => h[c].pc \in {"send", "forget"}
        /\ h[c].kind = "upload" => h[c].left = 0

\* Connection c has not come to item k.
Ahead(c, k) ==
    \/ h[c].pc = "idle"
    \/ k < h[c].left
    \/ k = h[c].left /\ h[c].pc \in Opening

\* An inode that has not been made: empty, without a name, and not open.
Free(i) ==
    /\ content[i] = <<>>
    /\ \A f \in Files : inc[f] # i /\ fin[f] # i
    /\ \A d \in Handlers : h[d].inode # i

\* The inode that a connection would make for a later item is nobody's.
Fresh ==
    \A c \in Handlers, k \in 0 .. MaxItems : Ahead(c, k) => Free(<<c, k>>)

\* An inode has one name.
OneName ==
    \A f, g \in Files :
        /\ inc[f] # None => inc[f] # fin[g]
        /\ inc[f] # None /\ inc[f] = inc[g] => f = g
        /\ fin[f] # None /\ fin[f] = fin[g] => f = g

\* An unspoiled inode that is open is open once, has not got its final name,
\* and holds what its writer counts.
OneWriter ==
    \A c \in Handlers : h[c].pc \in Writing /\ h[c].inode \notin spoiled =>
        /\ h[c].pos <= Size
        /\ content[h[c].inode] = Part(h[c].src, h[c].pos)
        /\ h[c].pc = "rename" => h[c].pos = Size
        /\ \A d \in Handlers :
             h[d].pc \in Writing /\ h[d].inode = h[c].inode => d = c
        /\ \A f \in Files : fin[f] # h[c].inode

-----------------------------------------------------------------------------
(* The steps, by what they do to the state *)

Handler == [pc: PCs, ref: Refs \cup {None}, kind: Kinds,
            file: Files \cup {None}, src: Sources \cup {None},
            resume: BOOLEAN, pos: Nat, left: 0 .. MaxItems,
            inode: Inodes \cup {None}]

\* TypeOK, for proofs: with the parts that follow from Stages and OneName
\* left out.
Types ==
    /\ registry \in [Refs -> Transfer \cup {None}]
    /\ drawn \subseteq Refs
    /\ h \in [Handlers -> Handler]
    /\ \A c \in Handlers : h[c].pc \in Writing => h[c].inode \in Inodes
    /\ inc \in [Files -> Inodes \cup {None}]
    /\ fin \in [Files -> Inodes \cup {None}]
    /\ content \in [Inodes -> Seq(Blocks)]
    /\ deleting \subseteq Files
    /\ uploads \in Nat /\ downloads \in Nat
    /\ spoiled \subseteq Inodes

\* A step that only moves a connection on.
Moves(c) ==
    \/ StatFinal(c) \/ NoMoreItems(c) \/ ReadSize(c) \/ Received(c)
    \/ Fails(c) \/ RenameFails(c) \/ Send(c)

Hops == {<<"stat", "open">>, <<"stat", "decrement">>, <<"item", "decrement">>,
         <<"open", "decrement">>, <<"size", "decrement">>, <<"size", "recv">>,
         <<"recv", "decrement">>, <<"recv", "rename">>,
         <<"rename", "decrement">>, <<"send", "forget">>, <<"send", "decrement">>}

\* What two states of a connection have in common.
SameItem(x, y) ==
    x.ref = y.ref /\ x.kind = y.kind /\ x.src = y.src

SameFile(x, y) ==
    SameItem(x, y) /\ x.file = y.file /\ x.left = y.left /\ x.resume = y.resume

\* The fields of a connection's state.
LEMMA Fields ==
    ASSUME NEW x \in Handler
    PROVE  /\ x.pc \in PCs /\ x.ref \in Refs \cup {None} /\ x.kind \in Kinds
           /\ x.file \in Files \cup {None} /\ x.src \in Sources \cup {None}
           /\ x.resume \in BOOLEAN /\ x.pos \in Nat /\ x.left \in 0 .. MaxItems
           /\ x.inode \in Inodes \cup {None}
  BY DEF Handler

\* Moving on changes the program counter only.
LEMMA WithPC ==
    ASSUME NEW x \in Handler, NEW p \in PCs, NEW y, y = [x EXCEPT !.pc = p]
    PROVE  /\ y \in Handler /\ y.pc = p /\ SameFile(x, y)
           /\ y.pos = x.pos /\ y.inode = x.inode
  BY DEF Handler, SameFile, SameItem

\* A connection that has ended or not begun.
LEMMA EndedType ==
    ASSUME NEW r \in Refs \cup {None}
    PROVE  /\ Ended(r) \in Handler /\ Ended(r).pc = "done" /\ Ended(r).ref = r
           /\ Ended(r).left = 0 /\ Ended(r).kind = "upload"
           /\ Ended(r).inode = None
           /\ Idle \in Handler /\ Idle.pc = "idle" /\ Idle.kind = "upload"
           /\ Idle.inode = None /\ Idle.left = 0 
<1>1. Idle \in Handler
  BY SizeAssumption DEF Idle, Handler, PCs, Kinds
<1>2. Idle.pc = "idle" /\ Idle.kind = "upload" /\ Idle.inode = None /\ Idle.left = 0
  BY DEF Idle
<1>3. ASSUME NEW x \in Handler, NEW y, y = [x EXCEPT !.pc = "done", !.ref = r]
      PROVE  /\ y \in Handler /\ y.pc = "done" /\ y.ref = r
             /\ y.left = x.left /\ y.kind = x.kind /\ y.inode = x.inode
  BY <1>3 DEF Handler, PCs
<1>. QED
  BY <1>1, <1>2, <1>3 DEF Ended

\* Only connection c changes.
Only(c) ==
    h' \in [Handlers -> Handler] /\ \A d \in Handlers : d # c => h'[d] = h[d]

\* Claim: the connection takes over what was registered.
Claimed(c, r) ==
    LET t == registry[r]
        x == h'[c]
    IN  /\ h[c].pc = "idle" /\ t \in Transfer /\ r \in drawn
        /\ Offered(t)
        /\ Only(c) /\ x \in Handler
        /\ x.pc = CASE t.kind = "upload" -> "stat"
                    [] t.kind = "folder" -> "item" [] OTHER -> "send"
        /\ x.ref = r /\ x.kind = t.kind /\ x.file = t.file
        /\ x.src = t.src /\ x.left = t.items /\ x.inode = None
        /\ UNCHANGED <<registry, drawn, files, deleting, spoiled>>

\* Moves: only the program counter of one connection changes.
Moved(c) ==
    LET x == h'[c]
    IN  /\ <<h[c].pc, x.pc>> \in Hops
        /\ Only(c) /\ x \in Handler
        /\ SameFile(h[c], x) /\ x.pos = h[c].pos /\ x.inode = h[c].inode
        /\ x.pc = "rename" => h[c].pos >= Size
        /\ h[c].pc = "send" => (x.pc = "forget" <=> h[c].kind = "banner")
        /\ UNCHANGED <<registry, drawn, files, deleting, stats, spoiled>>

\* NextItem: another file, and one item less to come.
ItemNamed(c, f) ==
    LET x == h'[c]
    IN  /\ h[c].pc = "item" /\ x.pc \in {"new", "full"}
        /\ Only(c) /\ x \in Handler
        /\ x.file = f /\ h[c].left > 0 /\ x.left = h[c].left - 1
        /\ SameItem(h[c], x) /\ x.inode = h[c].inode
        /\ UNCHANGED <<registry, drawn, files, deleting, stats, spoiled>>

\* StatPartial: the file is sent, resumed or skipped.
PartSeen(c) ==
    LET x == h'[c]
    IN  /\ h[c].pc \in {"new", "full"} /\ x.pc \in {"open", "item"}
        /\ Only(c) /\ x \in Handler
        /\ SameItem(h[c], x) /\ x.inode = h[c].inode
        /\ x.file = h[c].file /\ x.left = h[c].left
        /\ UNCHANGED <<registry, drawn, files, deleting, stats, spoiled>>

\* OpenIncomplete: the inode under the .incomplete name, or the connection's own.
Opened(c) ==
    LET x == h'[c]
        f == h[c].file
        i == IF inc[f] = None THEN <<c, h[c].left>> ELSE inc[f]
    IN  /\ h[c].pc = "open" /\ x.pc \in {"size", "recv"} /\ f \in Files
        /\ x.pc = "size" => h[c].kind = "folder"
        /\ Only(c) /\ x \in Handler
        /\ x.inode = i /\ i \in Inodes
        /\ SameFile(h[c], x) /\ x.pos = h[c].pos
        /\ inc' = [inc EXCEPT ![f] = i]
        /\ spoiled' = IF Writers(i) = {}
                         /\ content[i] = Part(h[c].src, h[c].pos)
                      THEN spoiled ELSE spoiled \cup {i}
        /\ UNCHANGED <<registry, drawn, fin, content, deleting, stats>>

\* Recv: one block is appended to the open inode.
Appended(c) ==
    LET x == h'[c]
        i == h[c].inode
    IN  /\ h[c].pc = "recv" /\ x.pc = "recv" /\ i \in Inodes
        /\ h[c].pos < Size
        /\ Only(c) /\ x \in Handler
        /\ SameFile(h[c], x) /\ x.inode = i /\ x.pos = h[c].pos + 1
        /\ content' = [content EXCEPT ![i] =
                         Append(content[i], <<h[c].src, h[c].pos + 1>>)]
        /\ UNCHANGED <<registry, drawn, inc, fin, deleting, stats, spoiled>>

\* ResumeFails: the connection goes on to the rename, and the inode is spoiled.
GivenUp(c) ==
    LET x == h'[c]
        i == h[c].inode
    IN  /\ h[c].pc = "recv" /\ x.pc = "rename" /\ i \in Inodes
        /\ Only(c) /\ x \in Handler
        /\ SameFile(h[c], x) /\ x.inode = i /\ x.pos = h[c].pos
        /\ spoiled' = spoiled \cup {i}
        /\ UNCHANGED <<registry, drawn, files, deleting, stats>>

\* Rename: what has the .incomplete name gets the final one.
Renamed(c) ==
    LET x == h'[c]
        f == h[c].file
    IN  /\ h[c].pc = "rename" /\ f \in Files /\ inc[f] \in Inodes
        /\ x.pc = IF h[c].kind = "folder" THEN "item" ELSE "decrement"
        /\ Only(c) /\ x \in Handler
        /\ SameFile(h[c], x) /\ x.inode = h[c].inode /\ x.pos = h[c].pos
        /\ fin' = [fin EXCEPT ![f] = inc[f]]
        /\ inc' = [inc EXCEPT ![f] = None]
        /\ spoiled' = IF inc[f] = h[c].inode THEN spoiled
                      ELSE spoiled \cup {inc[f]}
        /\ UNCHANGED <<registry, drawn, content, deleting, stats>>

\* Decrement: the statistic of the transfer's kind goes down.
Decremented(c) ==
    LET x == h'[c]
    IN  /\ h[c].pc = "decrement" /\ x.pc = "forget"
        /\ Only(c) /\ x \in Handler
        /\ SameFile(h[c], x) /\ x.inode = h[c].inode
        /\ UNCHANGED <<registry, drawn, files, deleting, spoiled>>

\* Forget: the connection ends.
Forgotten(c) ==
    LET x == h'[c]
    IN  /\ h[c].pc = "forget" /\ x.pc = "done" /\ h[c].ref \in drawn
        /\ Only(c) /\ x \in Handler
        /\ x.ref = h[c].ref /\ x.left = 0 /\ x.kind = "upload"
        /\ x.inode = None
        /\ registry' = [registry EXCEPT ![h[c].ref] = None]
        /\ UNCHANGED <<drawn, files, deleting, stats, spoiled>>

\* Crash: every connection that had begun ends, and the files stay.
Crashed ==
    /\ \A c \in Handlers : h[c].pc = "idle" => h'[c] = h[c]
    /\ \A c \in Handlers : h[c].pc # "idle" =>
         /\ h'[c].pc = "done" /\ h'[c].ref = h[c].ref /\ h'[c].left = 0
         /\ h'[c].kind = "upload" /\ h'[c].inode = None
    /\ h' \in [Handlers -> Handler]
    /\ registry' = [r \in Refs |-> None]
    /\ deleting' = {} /\ uploads' = 0 /\ downloads' = 0
    /\ UNCHANGED <<drawn, files, spoiled>>

\* An update of one connection by a state of the right type.
LEMMA OnlyOne ==
    ASSUME Types, NEW c \in Handlers, NEW x \in Handler, h' = [h EXCEPT ![c] = x]
    PROVE  Only(c)
  BY DEF Types, Only

USE DEF files, stats
USE SizeAssumption, HandlersAssumption, NoneAssumption, NilAssumption

\* A request handler registers a transfer of one of the kinds offered.
LEMMA Requests ==
    ASSUME Types, NEW r \in Refs,
           \/ \E f \in Files, s \in Sources, resume \in BOOLEAN :
                HandleUploadFile(r, f, s, resume)
           \/ \E s \in Sources, n \in 1 .. MaxItems : HandleUploadFolder(r, s, n)
           \/ \E f \in Files : HandleDownload(r, f)
           \/ HandleDownloadBanner(r)
    PROVE  \E t \in Transfer : Offered(t) /\ Register(r, t)
<1>1. ASSUME NEW f \in Files, NEW s \in Sources, NEW resume \in BOOLEAN,
             HandleUploadFile(r, f, s, resume)
      PROVE  \E t \in Transfer : Offered(t) /\ Register(r, t)
  <2> DEFINE o == IF resume /\ inc[f] # None THEN Len(content[inc[f]]) ELSE 0
             told == resume => inc[f] # None
             t == [kind |-> "upload", file |-> f, src |-> s, resume |-> resume,
                   offset |-> o, items |-> 0, told |-> told]
  <2>1. o \in Nat
    BY DEF Types
  <2>2. told \in BOOLEAN
    OBVIOUS
  <2>3. Register(r, t)
    BY <1>1 DEF HandleUploadFile
  <2> HIDE DEF o, told
  <2>4. t \in Transfer /\ Offered(t)
    BY <2>1, <2>2 DEF Transfer, Kinds, Offered
  <2>. QED
    BY <2>3, <2>4
<1>2. ASSUME NEW s \in Sources, NEW n \in 1 .. MaxItems,
             HandleUploadFolder(r, s, n)
      PROVE  \E t \in Transfer : Offered(t) /\ Register(r, t)
  <2> DEFINE t == [kind |-> "folder", file |-> None, src |-> s, resume |-> FALSE,
                   offset |-> 0, items |-> n, told |-> TRUE]
  <2>1. t \in Transfer /\ Offered(t)
    BY DEF Transfer, Kinds, Offered
  <2>. QED
    BY <1>2, <2>1 DEF HandleUploadFolder
<1>3. ASSUME NEW f \in Files, HandleDownload(r, f)
      PROVE  \E t \in Transfer : Offered(t) /\ Register(r, t)
  <2> DEFINE t == [kind |-> "download", file |-> f, src |-> None,
                   resume |-> FALSE, offset |-> 0, items |-> 0, told |-> TRUE]
  <2>1. t \in Transfer /\ Offered(t)
    BY DEF Transfer, Kinds, Offered
  <2>. QED
    BY <1>3, <2>1 DEF HandleDownload
<1>4. ASSUME HandleDownloadBanner(r)
      PROVE  \E t \in Transfer : Offered(t) /\ Register(r, t)
  <2> DEFINE t == [kind |-> "banner", file |-> None, src |-> None,
                   resume |-> FALSE, offset |-> 0, items |-> 0, told |-> TRUE]
  <2>1. t \in Transfer /\ Offered(t)
    BY DEF Transfer, Kinds, Offered
  <2>. QED
    BY <1>4, <2>1 DEF HandleDownloadBanner
<1>. QED
  BY <1>1, <1>2, <1>3, <1>4

\* Which moves there are.
LEMMA MovesHop ==
    ASSUME NEW c \in Handlers, Moves(c)
    PROVE  \E to \in PCs :
             /\ <<h[c].pc, to>> \in Hops
             /\ h' = [h EXCEPT ![c].pc = to]
             /\ to = "rename" => h[c].pos >= Size
             /\ h[c].pc = "send" => (to = "forget" <=> h[c].kind = "banner")
             /\ UNCHANGED <<registry, drawn, files, deleting, stats, spoiled>>
  BY DEF Moves, StatFinal, NoMoreItems, ReadSize, Received, Fails, RenameFails,
         Send, Goto, Hops, PCs, Active


\* The effect of Claim, under the invariant.
LEMMA ClaimEffect ==
    ASSUME Types, Registry, NEW c \in Handlers, NEW r \in Refs, Claim(c, r)
    PROVE  Claimed(c, r)
<1> DEFINE t == registry[r]
           p == CASE t.kind = "upload" -> "stat" [] t.kind = "folder" -> "item"
                  [] OTHER -> "send"
           x == [pc |-> p, ref |-> r, kind |-> t.kind, file |-> t.file,
                 src |-> t.src, resume |-> t.resume, pos |-> t.offset,
                 left |-> t.items, inode |-> None]
<1>1. t \in Transfer
  BY DEF Claim, Types
<1>2. p \in PCs
  BY DEF PCs, Active
<1>3. h' = [h EXCEPT ![c] = x]
  BY DEF Claim
<1>4. h[c].pc = "idle" /\ r \in drawn /\ Offered(t)
      /\ UNCHANGED <<registry, drawn, files, deleting, spoiled>>
  BY DEF Claim, Registry
<1>5. x \in Handler
  <2> HIDE DEF p, t
  <2>. QED
    BY <1>1, <1>2 DEF Transfer, Handler
<1>6. h'[c] = x /\ h' = [h EXCEPT ![c] = h'[c]]
  BY <1>3 DEF Types
<1>7. /\ x.pc = p /\ x.ref = r /\ x.kind = t.kind /\ x.file = t.file
      /\ x.src = t.src /\ x.left = t.items /\ x.inode = None
  OBVIOUS
<1>. QED
  BY OnlyOne, <1>1, <1>4, <1>5, <1>6, <1>7 DEF Claimed

\* The effect of Moves, under the invariant.
LEMMA MovesEffect ==
    ASSUME Types, NEW c \in Handlers, Moves(c)
    PROVE  Moved(c)
<1>1. PICK to \in PCs :
             /\ <<h[c].pc, to>> \in Hops
             /\ h' = [h EXCEPT ![c].pc = to]
             /\ to = "rename" => h[c].pos >= Size
             /\ h[c].pc = "send" => (to = "forget" <=> h[c].kind = "banner")
             /\ UNCHANGED <<registry, drawn, files, deleting, stats, spoiled>>
  BY MovesHop
<1>2. h[c] \in Handler /\ h'[c] = [h[c] EXCEPT !.pc = to]
      /\ h' = [h EXCEPT ![c] = h'[c]]
  BY <1>1 DEF Types
<1>. QED
  <2>1. /\ h'[c] \in Handler /\ h'[c].pc = to /\ SameFile(h[c], h'[c])
        /\ h'[c].pos = h[c].pos /\ h'[c].inode = h[c].inode
    BY <1>2, WithPC
  <2>2. Only(c)
    BY <1>2, <2>1, OnlyOne
  <2>. QED
    BY <1>1, <2>1, <2>2 DEF Moved

\* The effect of NextItem, under the invariant.
LEMMA NextItemEffect ==
    ASSUME Types, NEW c \in Handlers, NEW f \in Files, NextItem(c, f)
    PROVE  ItemNamed(c, f)
<1> DEFINE p == IF fin[f] = None THEN "new" ELSE "full"
           l == h[c].left - 1
           y == [h[c] EXCEPT !.pc = p, !.file = f, !.left = l]
<1>1. h[c] \in Handler /\ h'[c] = y /\ h' = [h EXCEPT ![c] = h'[c]]
  BY DEF Types, NextItem
<1>2. p \in {"new", "full"} /\ p \in PCs
  BY DEF PCs, Active
<1>3. h[c].pc = "item" /\ h[c].left > 0
      /\ UNCHANGED <<registry, drawn, files, deleting, stats, spoiled>>
  BY DEF NextItem
<1>5. l \in 0 .. MaxItems
  BY <1>1, <1>3, Fields
<1> HIDE DEF p, l
<1>4. y \in Handler /\ y.pc = p /\ y.file = f /\ y.left = l
      /\ SameItem(h[c], y) /\ y.inode = h[c].inode
  BY <1>1, <1>2, <1>5 DEF Handler, SameItem
<1>. QED
  BY OnlyOne, <1>1, <1>2, <1>3, <1>4 DEF l, ItemNamed

\* The effect of StatPartial, under the invariant.
LEMMA StatPartialEffect ==
    ASSUME Types, Stages, NEW c \in Handlers, StatPartial(c)
    PROVE  PartSeen(c)
<1> DEFINE f == h[c].file
           res == inc[f] # None
           o == IF inc[f] = None THEN 0 ELSE Len(content[inc[f]])
           p == IF inc[f] # None \/ h[c].pc = "new" THEN "open" ELSE "item"
           y == [h[c] EXCEPT !.resume = res, !.pos = o, !.pc = p]
<1>1. h[c] \in Handler /\ h'[c] = y /\ h' = [h EXCEPT ![c] = h'[c]]
  BY DEF Types, StatPartial
<1>2. p \in {"open", "item"} /\ p \in PCs
  BY DEF PCs, Active
<1>3. h[c].pc \in {"new", "full"}
      /\ UNCHANGED <<registry, drawn, files, deleting, stats, spoiled>>
  BY DEF StatPartial
<1>4. res \in BOOLEAN
  OBVIOUS
<1>5. o \in Nat
  <2>1. f \in Files
    BY <1>3 DEF Stages, Opening
  <2>. QED
    BY <2>1 DEF Types
<1> HIDE DEF p, o, res
<1>6. y \in Handler /\ y.pc = p /\ y.file = f /\ y.left = h[c].left
      /\ SameItem(h[c], y) /\ y.inode = h[c].inode
  BY <1>1, <1>2, <1>4, <1>5 DEF Handler, SameItem
<1>. QED
  BY OnlyOne, <1>1, <1>2, <1>3, <1>6 DEF PartSeen

\* The effect of OpenIncomplete, under the invariant.
LEMMA OpenEffect ==
    ASSUME Types, Stages, NEW c \in Handlers, OpenIncomplete(c)
    PROVE  Opened(c)
<1> DEFINE f == h[c].file
           i == IF inc[f] = None THEN <<c, h[c].left>> ELSE inc[f]
           p == IF h[c].kind = "folder" /\ h[c].resume THEN "size" ELSE "recv"
           y == [h[c] EXCEPT !.inode = i, !.pc = p]
<1>1. h[c] \in Handler /\ h'[c] = y /\ h' = [h EXCEPT ![c] = h'[c]]
  BY DEF Types, OpenIncomplete
<1>2. p \in {"size", "recv"} /\ p \in PCs /\ (p = "size" => h[c].kind = "folder")
  BY DEF PCs, Active
<1>3. /\ h[c].pc = "open"
      /\ inc' = [inc EXCEPT ![f] = i]
      /\ spoiled' = IF Writers(i) = {} /\ content[i] = Part(h[c].src, h[c].pos)
                    THEN spoiled ELSE spoiled \cup {i}
      /\ UNCHANGED <<registry, drawn, fin, content, deleting, stats>>
  BY DEF OpenIncomplete
<1>4. f \in Files
  BY <1>3 DEF Stages, Opening
<1>5. i \in Inodes
  BY <1>1, <1>4, Fields DEF Types, Inodes
<1> HIDE DEF p, i
<1>6. /\ y \in Handler /\ y.pc = p /\ y.inode = i
      /\ SameFile(h[c], y) /\ y.pos = h[c].pos
  BY <1>1, <1>2, <1>5 DEF Handler, SameFile, SameItem
<1>. QED
  BY OnlyOne, <1>1, <1>2, <1>3, <1>4, <1>5, <1>6 DEF i, Opened

\* The effect of Recv, under the invariant.
LEMMA RecvEffect ==
    ASSUME Types, NEW c \in Handlers, Recv(c)
    PROVE  Appended(c)
<1> DEFINE n == h[c].pos + 1
           y == [h[c] EXCEPT !.pos = n]
<1>1. h[c] \in Handler /\ h'[c] = y /\ h' = [h EXCEPT ![c] = h'[c]]
  BY DEF Types, Recv
<1>2. /\ h[c].pc = "recv" /\ h[c].pos < Size /\ h[c].inode \in Inodes
      /\ content' = [content EXCEPT ![h[c].inode] =
                       Append(content[h[c].inode], <<h[c].src, n>>)]
      /\ UNCHANGED <<registry, drawn, inc, fin, deleting, stats, spoiled>>
  BY DEF Types, Recv, Writing
<1>3. n \in Nat
  BY <1>1, Fields
<1> HIDE DEF n
<1>4. /\ y \in Handler /\ y.pc = h[c].pc /\ y.inode = h[c].inode
      /\ SameFile(h[c], y) /\ y.pos = n
  BY <1>1, <1>3 DEF Handler, SameFile, SameItem
<1>. QED
  BY OnlyOne, <1>1, <1>2, <1>4 DEF n, Appended

\* The effect of ResumeFails, under the invariant.
LEMMA ResumeFailsEffect ==
    ASSUME Types, NEW c \in Handlers, ResumeFails(c)
    PROVE  GivenUp(c)
<1>1. h[c] \in Handler /\ h'[c] = [h[c] EXCEPT !.pc = "rename"]
      /\ h' = [h EXCEPT ![c] = h'[c]]
  BY DEF Types, ResumeFails
<1>2. /\ h[c].pc = "recv" /\ h[c].inode \in Inodes
      /\ spoiled' = spoiled \cup {h[c].inode}
      /\ UNCHANGED <<registry, drawn, files, deleting, stats>>
  BY DEF Types, ResumeFails, Writing
<1>3. "rename" \in PCs
  BY DEF PCs, Active
<1>. QED
  BY OnlyOne, <1>1, <1>2, <1>3, WithPC DEF GivenUp

\* The effect of Rename, under the invariant.
LEMMA RenameEffect ==
    ASSUME Types, Stages, NEW c \in Handlers, Rename(c)
    PROVE  Renamed(c)
<1> DEFINE p == IF h[c].kind = "folder" THEN "item" ELSE "decrement"
<1>1. h[c] \in Handler /\ h'[c] = [h[c] EXCEPT !.pc = p]
      /\ h' = [h EXCEPT ![c] = h'[c]]
  BY DEF Types, Rename
<1>2. h[c].pc = "rename" /\ inc[h[c].file] # None
  BY DEF Rename
<1>3. h[c].file \in Files
  BY <1>2 DEF Stages, Writing
<1>4. p \in PCs
  BY DEF PCs, Active
<1>5. inc[h[c].file] \in Inodes
  BY <1>2, <1>3 DEF Types
<1>6. /\ fin' = [fin EXCEPT ![h[c].file] = inc[h[c].file]]
      /\ inc' = [inc EXCEPT ![h[c].file] = None]
      /\ spoiled' = IF inc[h[c].file] = h[c].inode THEN spoiled
                    ELSE spoiled \cup {inc[h[c].file]}
      /\ UNCHANGED <<registry, drawn, content, deleting, stats>>
  BY DEF Rename
<1>. QED
  BY OnlyOne, <1>1, <1>2, <1>3, <1>4, <1>5, <1>6, WithPC DEF Renamed

\* The effect of Decrement, under the invariant.
LEMMA DecrementEffect ==
    ASSUME Types, NEW c \in Handlers, Decrement(c)
    PROVE  Decremented(c)
<1>1. h[c] \in Handler /\ h'[c] = [h[c] EXCEPT !.pc = "forget"]
      /\ h' = [h EXCEPT ![c] = h'[c]]
  BY DEF Types, Decrement
<1>2. "forget" \in PCs
  BY DEF PCs
<1>3. h[c].pc = "decrement" /\ UNCHANGED <<registry, drawn, files, deleting, spoiled>>
  BY DEF Decrement
<1>. QED
  BY OnlyOne, <1>1, <1>2, <1>3, WithPC DEF Decremented

\* The effect of Forget, under the invariant.
LEMMA ForgetEffect ==
    ASSUME Types, Registry, NEW c \in Handlers, Forget(c)
    PROVE  Forgotten(c)
<1>1. h[c] \in Handler /\ h'[c] = Ended(h[c].ref) /\ h' = [h EXCEPT ![c] = h'[c]]
  BY DEF Types, Forget
<1>2. /\ h[c].pc = "forget" /\ h[c].ref \in drawn
      /\ registry' = [registry EXCEPT ![h[c].ref] = None]
      /\ UNCHANGED <<drawn, files, deleting, stats, spoiled>>
  BY DEF Forget, Registry
<1>3. h[c].ref \in Refs \cup {None}
  BY <1>1, Fields
<1>. QED
  BY OnlyOne, <1>1, <1>2, <1>3, EndedType DEF Forgotten

\* The effect of Crash, under the invariant.
LEMMA CrashEffect ==
    ASSUME Types, Crash
    PROVE  Crashed
<1>1. h' = [c \in Handlers |-> IF h[c].pc = "idle" THEN h[c] ELSE Ended(h[c].ref)]
  BY DEF Crash
<1>2. ASSUME NEW c \in Handlers
      PROVE  /\ h[c] \in Handler
             /\ Ended(h[c].ref) \in Handler
             /\ Ended(h[c].ref).pc = "done" /\ Ended(h[c].ref).ref = h[c].ref
             /\ Ended(h[c].ref).left = 0 /\ Ended(h[c].ref).kind = "upload"
             /\ Ended(h[c].ref).inode = None
  <2>1. h[c] \in Handler
    BY DEF Types
  <2>2. h[c].ref \in Refs \cup {None}
    BY <2>1, Fields
  <2>. QED
    BY <2>1, <2>2, EndedType
<1>. QED
  BY <1>1, <1>2 DEF Crash, Crashed

\* What a step of the specification does.
LEMMA StepCases ==
    Types /\ Registry /\ Stages /\ [Next]_vars =>
        \/ \E r \in Refs, t \in Transfer : Offered(t) /\ Register(r, t)
        \/ \E c \in Handlers, r \in Refs : Claim(c, r) /\ Claimed(c, r)
        \/ \E f \in Files : DeleteData(f) \/ DeleteIncomplete(f)
        \/ \E c \in Handlers : Moved(c)
        \/ \E c \in Handlers, f \in Files : ItemNamed(c, f)
        \/ \E c \in Handlers : PartSeen(c) \/ Opened(c) \/ Appended(c) \/ GivenUp(c)
        \/ \E c \in Handlers : Renamed(c) \/ Forgotten(c)
        \/ \E c \in Handlers : Decrement(c) /\ Decremented(c)
        \/ Crashed
        \/ UNCHANGED vars
  BY Requests, ClaimEffect, MovesEffect, NextItemEffect, StatPartialEffect,
     OpenEffect, RecvEffect, ResumeFailsEffect, RenameEffect, DecrementEffect,
     ForgetEffect, CrashEffect
  DEF Next, Moves


\* Every step preserves the types.
LEMMA TypeStep ==
    Types /\ Registry /\ Stages /\ [Next]_vars => Types'
<1> SUFFICES ASSUME Types, Registry, Stages, [Next]_vars
             PROVE  Types'
  OBVIOUS
<1> USE DEF Types, Only, Writing
<1>1. ASSUME NEW r \in Refs, NEW t \in Transfer, Offered(t), Register(r, t)
      PROVE  Types'
  BY <1>1 DEF Register
<1>2. ASSUME NEW c \in Handlers, NEW r \in Refs, Claim(c, r), Claimed(c, r)
      PROVE  Types'
  BY <1>2 DEF Claimed, Claim
<1>3. ASSUME NEW f \in Files, DeleteData(f)
      PROVE  Types'
  BY <1>3 DEF DeleteData
<1>4. ASSUME NEW f \in Files, DeleteIncomplete(f)
      PROVE  Types'
  BY <1>4 DEF DeleteIncomplete
<1>5. ASSUME NEW c \in Handlers, Moved(c)
      PROVE  Types'
  BY <1>5 DEF Moved, Hops
<1>6. ASSUME NEW c \in Handlers, NEW f \in Files, ItemNamed(c, f)
      PROVE  Types'
  BY <1>6 DEF ItemNamed
<1>7. ASSUME NEW c \in Handlers, PartSeen(c)
      PROVE  Types'
  BY <1>7 DEF PartSeen
<1>8. ASSUME NEW c \in Handlers, Opened(c)
      PROVE  Types'
  BY <1>8 DEF Opened
<1>9. ASSUME NEW c \in Handlers, Appended(c)
      PROVE  Types'
  <2>1. h[c] \in Handler /\ h[c].src \in Sources /\ h[c].pos < Size
    BY <1>9 DEF Appended, Stages, Opening
  <2>2. <<h[c].src, h[c].pos + 1>> \in Blocks
    BY <2>1, Fields DEF Blocks
  <2>3. content' \in [Inodes -> Seq(Blocks)]
    BY <1>9, <2>2 DEF Appended
  <2>. QED
    BY <1>9, <2>3 DEF Appended
<1>10. ASSUME NEW c \in Handlers, GivenUp(c)
      PROVE  Types'
  BY <1>10 DEF GivenUp
<1>11. ASSUME NEW c \in Handlers, Renamed(c)
      PROVE  Types'
  BY <1>11 DEF Renamed
<1>12. ASSUME NEW c \in Handlers, Decrement(c), Decremented(c)
      PROVE  Types'
  BY <1>12 DEF Decremented, Decrement
<1>13. ASSUME NEW c \in Handlers, Forgotten(c)
      PROVE  Types'
  BY <1>13 DEF Forgotten
<1>14. CASE Crashed
  BY <1>14 DEF Crashed
<1>15. CASE UNCHANGED vars
  BY <1>15 DEF vars
<1> HIDE DEF Types, Only, Writing
<1>. QED
  BY <1>1, <1>2, <1>3, <1>4, <1>5, <1>6, <1>7, <1>8, <1>9, <1>10, <1>11,
     <1>12, <1>13, <1>14, <1>15, StepCases

\* Every step preserves Registry.
LEMMA RegistryStep ==
    Types /\ Registry /\ Stages /\ [Next]_vars => Registry'
<1> SUFFICES ASSUME Types, Registry, Stages, [Next]_vars
             PROVE  Registry'
  OBVIOUS
<1> USE DEF Registry, Only, FinishedIsForgotten, Offered, SameFile, SameItem
<1>1. ASSUME NEW r \in Refs, NEW t \in Transfer, Offered(t), Register(r, t)
      PROVE  Registry'
  BY <1>1 DEF Register, Types
<1>2. ASSUME NEW c \in Handlers, NEW r \in Refs, Claim(c, r), Claimed(c, r)
      PROVE  Registry'
  BY <1>2 DEF Claimed
<1>3. ASSUME NEW f \in Files, DeleteData(f)
      PROVE  Registry'
  BY <1>3 DEF DeleteData
<1>4. ASSUME NEW f \in Files, DeleteIncomplete(f)
      PROVE  Registry'
  BY <1>4 DEF DeleteIncomplete
<1>5. ASSUME NEW c \in Handlers, Moved(c)
      PROVE  Registry'
  BY <1>5 DEF Moved, Hops
<1>6. ASSUME NEW c \in Handlers, NEW f \in Files, ItemNamed(c, f)
      PROVE  Registry'
  BY <1>6 DEF ItemNamed
<1>7. ASSUME NEW c \in Handlers, PartSeen(c)
      PROVE  Registry'
  BY <1>7 DEF PartSeen
<1>8. ASSUME NEW c \in Handlers, Opened(c)
      PROVE  Registry'
  BY <1>8 DEF Opened
<1>9. ASSUME NEW c \in Handlers, Appended(c)
      PROVE  Registry'
  BY <1>9 DEF Appended
<1>10. ASSUME NEW c \in Handlers, GivenUp(c)
      PROVE  Registry'
  BY <1>10 DEF GivenUp
<1>11. ASSUME NEW c \in Handlers, Renamed(c)
      PROVE  Registry'
  BY <1>11 DEF Renamed
<1>12. ASSUME NEW c \in Handlers, Decrement(c), Decremented(c)
      PROVE  Registry'
  BY <1>12 DEF Decremented
<1>13. ASSUME NEW c \in Handlers, Forgotten(c)
      PROVE  Registry'
  <2>1. \A r \in Refs : registry'[r] # None => registry'[r] = registry[r] /\ r # h[c].ref
    BY <1>13 DEF Forgotten, Types
  <2>2. /\ h[c].pc = "forget" /\ h'[c].pc = "done" /\ h'[c].ref = h[c].ref /\ h[c].ref \in drawn
        /\ drawn' = drawn
        /\ registry'[h[c].ref] = None
    BY <1>13 DEF Forgotten, Types
  <2>3. \A d \in Handlers \ {c} : h'[d] = h[d]
    BY <1>13 DEF Forgotten, Types
  <2>4. \A r \in Refs : registry'[r] # None => r \in drawn' /\ Offered(registry'[r])
    BY <2>1, <2>2
  <2>5. \A d \in Handlers : h'[d].pc # "idle" => h'[d].ref \in drawn'
    BY <2>2, <2>3
  <2>6. ASSUME NEW d \in Handlers, h'[d].pc = "done"
        PROVE  registry'[h'[d].ref] = None
    <3>1. CASE d = c
      BY <2>2, <3>1
    <3>2. CASE d # c
      <4>1. h'[d] = h[d] /\ registry[h[d].ref] = None /\ h[d].ref \in Refs
        BY <2>3, <2>6, <3>2 DEF Types, Handler
      <4> QED BY <2>1, <4>1
    <3> QED BY <3>1, <3>2
  <2> QED BY <2>4, <2>5, <2>6
<1>14. CASE Crashed
  BY <1>14 DEF Crashed, Types
<1>15. CASE UNCHANGED vars
  BY <1>15 DEF vars
<1> HIDE DEF Registry, Only, FinishedIsForgotten, Offered, SameFile, SameItem
<1>. QED
  BY <1>1, <1>2, <1>3, <1>4, <1>5, <1>6, <1>7, <1>8, <1>9, <1>10, <1>11,
     <1>12, <1>13, <1>14, <1>15, StepCases

\* Every step preserves Stages.
LEMMA StagesStep ==
    Types /\ Registry /\ Stages /\ [Next]_vars => Stages'
<1> SUFFICES ASSUME Types, Registry, Stages, [Next]_vars
             PROVE  Stages'
  OBVIOUS
<1> USE DEF Stages, Opening, Writing, Only, SameFile, SameItem
<1>1. ASSUME NEW r \in Refs, NEW t \in Transfer, Offered(t), Register(r, t)
      PROVE  Stages'
  BY <1>1 DEF Register
<1>2. ASSUME NEW c \in Handlers, NEW r \in Refs, Claim(c, r), Claimed(c, r)
      PROVE  Stages'
  BY <1>2 DEF Claimed, Offered, Transfer, Kinds
<1>3. ASSUME NEW f \in Files, DeleteData(f)
      PROVE  Stages'
  BY <1>3 DEF DeleteData
<1>4. ASSUME NEW f \in Files, DeleteIncomplete(f)
      PROVE  Stages'
  BY <1>4 DEF DeleteIncomplete
<1>5. ASSUME NEW c \in Handlers, Moved(c)
      PROVE  Stages'
  BY <1>5 DEF Moved, Hops
<1>6. ASSUME NEW c \in Handlers, NEW f \in Files, ItemNamed(c, f)
      PROVE  Stages'
  BY <1>6 DEF ItemNamed
<1>7. ASSUME NEW c \in Handlers, PartSeen(c)
      PROVE  Stages'
  BY <1>7 DEF PartSeen
<1>8. ASSUME NEW c \in Handlers, Opened(c)
      PROVE  Stages'
  BY <1>8 DEF Opened
<1>9. ASSUME NEW c \in Handlers, Appended(c)
      PROVE  Stages'
  BY <1>9 DEF Appended
<1>10. ASSUME NEW c \in Handlers, GivenUp(c)
      PROVE  Stages'
  BY <1>10 DEF GivenUp
<1>11. ASSUME NEW c \in Handlers, Renamed(c)
      PROVE  Stages'
  BY <1>11 DEF Renamed
<1>12. ASSUME NEW c \in Handlers, Decrement(c), Decremented(c)
      PROVE  Stages'
  BY <1>12 DEF Decremented
<1>13. ASSUME NEW c \in Handlers, Forgotten(c)
      PROVE  Stages'
  BY <1>13 DEF Forgotten
<1>14. CASE Crashed
  BY <1>14 DEF Crashed
<1>15. CASE UNCHANGED vars
  BY <1>15 DEF vars
<1> HIDE DEF Stages, Opening, Writing, Only, SameFile, SameItem
<1>. QED
  BY <1>1, <1>2, <1>3, <1>4, <1>5, <1>6, <1>7, <1>8, <1>9, <1>10, <1>11,
     <1>12, <1>13, <1>14, <1>15, StepCases

\* A beginning of a source that is no longer than a file.
LEMMA PartBound ==
    ASSUME NEW s, NEW n \in Nat, Part(s, n) \in Seq(Blocks)
    PROVE  n <= Size
<1> SUFFICES ASSUME n > Size PROVE FALSE
  OBVIOUS
<1>1. n \in DOMAIN Part(s, n) /\ Part(s, n)[n] = <<s, n>>
  BY DEF Part
<1>2. Part(s, n)[n] \in Blocks
  BY <1>1, ElementOfSeq DEF Part
<1>. QED
  BY <1>1, <1>2 DEF Blocks

\* The next block makes a longer beginning of the same source.
LEMMA PartAppend ==
    ASSUME NEW s \in Sources, NEW n \in Nat, Part(s, n) \in Seq(Blocks)
    PROVE  Append(Part(s, n), <<s, n + 1>>) = Part(s, n + 1)
<1> DEFINE a == Append(Part(s, n), <<s, n + 1>>)
<1>1. Len(Part(s, n)) = n
  BY DEF Part
<1>2. DOMAIN a = 1 .. n + 1
  BY <1>1
<1>3. \A k \in 1 .. n : a[k] = Part(s, n)[k]
  BY <1>1
<1>4. a[n + 1] = <<s, n + 1>>
  BY <1>1
<1>5. \A k \in 1 .. n + 1 : a[k] = <<s, k>>
  BY <1>3, <1>4 DEF Part
<1>6. a = [k \in 1 .. n + 1 |-> a[k]]
  BY <1>2
<1>. QED
  BY <1>5, <1>6 DEF Part

\* Every step preserves Fresh.
LEMMA FreshStep ==
    Types /\ Registry /\ Stages /\ Fresh /\ [Next]_vars => Fresh'
<1> SUFFICES ASSUME Types, Registry, Stages, Fresh, [Next]_vars
             PROVE  Fresh'
  OBVIOUS
<1> SUFFICES ASSUME NEW d \in Handlers, NEW k \in 0 .. MaxItems, Ahead(d, k)',
                    NEW i, i = <<d, k>>
             PROVE  Free(i)'
  BY DEF Fresh
<1>a. i \in Inodes /\ i # None
  BY DEF Inodes
<1>b. Ahead(d, k) => Free(i)
  BY DEF Fresh
<1> USE DEF Ahead, Opening, Only, SameFile, SameItem
<1>1. ASSUME NEW r \in Refs, NEW t \in Transfer, Offered(t), Register(r, t)
      PROVE  Free(i)'
  <2>1. Ahead(d, k)
    BY <1>1 DEF Register
  <2>. QED
    BY <1>1, <1>a, <1>b, <2>1 DEF Free, Register
<1>2. ASSUME NEW c \in Handlers, NEW r \in Refs, Claim(c, r), Claimed(c, r)
      PROVE  Free(i)'
  <2>1. Ahead(d, k)
    BY <1>2 DEF Claimed
  <2>. QED
    BY <1>2, <1>a, <1>b, <2>1 DEF Free, Claimed
<1>3. ASSUME NEW f \in Files, DeleteData(f)
      PROVE  Free(i)'
  <2>1. Ahead(d, k)
    BY <1>3 DEF DeleteData
  <2>. QED
    BY <1>3, <1>a, <1>b, <2>1 DEF Free, DeleteData, Types
<1>4. ASSUME NEW f \in Files, DeleteIncomplete(f)
      PROVE  Free(i)'
  <2>1. Ahead(d, k)
    BY <1>4 DEF DeleteIncomplete
  <2>. QED
    BY <1>4, <1>a, <1>b, <2>1 DEF Free, DeleteIncomplete, Types
<1>5. ASSUME NEW c \in Handlers, Moved(c)
      PROVE  Free(i)'
  <2>1. Ahead(d, k)
    BY <1>5 DEF Moved, Hops
  <2>. QED
    BY <1>5, <1>a, <1>b, <2>1 DEF Free, Moved, Hops
<1>6. ASSUME NEW c \in Handlers, NEW f \in Files, ItemNamed(c, f)
      PROVE  Free(i)'
  <2>1. Ahead(d, k)
    <3>1. h[c].left \in Nat /\ k \in Nat
      BY Fields DEF Types
    <3>. QED
      BY <1>6, <3>1 DEF ItemNamed
  <2>. QED
    BY <1>6, <1>a, <1>b, <2>1 DEF Free, ItemNamed
<1>7. ASSUME NEW c \in Handlers, PartSeen(c)
      PROVE  Free(i)'
  <2>1. Ahead(d, k)
    BY <1>7 DEF PartSeen
  <2>. QED
    BY <1>7, <1>a, <1>b, <2>1 DEF Free, PartSeen
<1>8. ASSUME NEW c \in Handlers, Opened(c)
      PROVE  Free(i)'
  <2>1. Ahead(d, k)
    BY <1>8 DEF Opened
  <2>2. i # <<c, h[c].left>>
    BY <1>8 DEF Opened
  <2>3. h'[c].inode # i
    BY <1>8, <1>b, <2>1, <2>2 DEF Free, Opened
  <2>4. \A g \in Files : inc'[g] # i
    BY <1>8, <1>b, <2>1, <2>3 DEF Free, Opened, Types
  <2>. QED
    BY <1>8, <1>b, <2>1, <2>3, <2>4 DEF Free, Opened
<1>9. ASSUME NEW c \in Handlers, Appended(c)
      PROVE  Free(i)'
  <2>1. Ahead(d, k)
    BY <1>9 DEF Appended
  <2>. QED
    BY <1>9, <1>a, <1>b, <2>1 DEF Free, Appended, Types
<1>10. ASSUME NEW c \in Handlers, GivenUp(c)
      PROVE  Free(i)'
  <2>1. Ahead(d, k)
    BY <1>10 DEF GivenUp
  <2>. QED
    BY <1>10, <1>a, <1>b, <2>1 DEF Free, GivenUp
<1>11. ASSUME NEW c \in Handlers, Renamed(c)
      PROVE  Free(i)'
  <2>1. Ahead(d, k)
    BY <1>11 DEF Renamed
  <2>. QED
    BY <1>11, <1>a, <1>b, <2>1 DEF Free, Renamed, Types
<1>12. ASSUME NEW c \in Handlers, Decrement(c), Decremented(c)
      PROVE  Free(i)'
  <2>1. Ahead(d, k)
    BY <1>12 DEF Decremented
  <2>. QED
    BY <1>12, <1>a, <1>b, <2>1 DEF Free, Decremented
<1>13. ASSUME NEW c \in Handlers, Forgotten(c)
      PROVE  Free(i)'
  <2>1. Ahead(d, k)
    BY <1>13 DEF Forgotten
  <2>. QED
    BY <1>13, <1>a, <1>b, <2>1 DEF Free, Forgotten
<1>14. CASE Crashed
  <2>1. Ahead(d, k)
    BY <1>14 DEF Crashed
  <2>. QED
    BY <1>14, <1>a, <1>b, <2>1 DEF Free, Crashed
<1>15. CASE UNCHANGED vars
  BY <1>15, <1>b DEF vars, Free
<1> HIDE DEF Ahead, Opening, Only, SameFile, SameItem
<1>. QED
  BY <1>1, <1>2, <1>3, <1>4, <1>5, <1>6, <1>7, <1>8, <1>9, <1>10, <1>11,
     <1>12, <1>13, <1>14, <1>15, StepCases

\* Every step preserves OneName.
LEMMA OneNameStep ==
    Types /\ Registry /\ Stages /\ Fresh /\ OneName /\ [Next]_vars => OneName'
<1> SUFFICES ASSUME Types, Registry, Stages, Fresh, OneName, [Next]_vars
             PROVE  OneName'
  OBVIOUS
<1> USE DEF OneName
<1>1. ASSUME NEW r \in Refs, NEW t \in Transfer, Offered(t), Register(r, t)
      PROVE  OneName'
  BY <1>1 DEF Register
<1>2. ASSUME NEW c \in Handlers, NEW r \in Refs, Claim(c, r), Claimed(c, r)
      PROVE  OneName'
  BY <1>2 DEF Claimed
<1>3. ASSUME NEW f \in Files, DeleteData(f)
      PROVE  OneName'
  BY <1>3 DEF DeleteData, Types
<1>4. ASSUME NEW f \in Files, DeleteIncomplete(f)
      PROVE  OneName'
  BY <1>4 DEF DeleteIncomplete, Types
<1>5. ASSUME NEW c \in Handlers, Moved(c)
      PROVE  OneName'
  BY <1>5 DEF Moved, Hops
<1>6. ASSUME NEW c \in Handlers, NEW f \in Files, ItemNamed(c, f)
      PROVE  OneName'
  BY <1>6 DEF ItemNamed
<1>7. ASSUME NEW c \in Handlers, PartSeen(c)
      PROVE  OneName'
  BY <1>7 DEF PartSeen
<1>8. ASSUME NEW c \in Handlers, Opened(c)
      PROVE  OneName'
  <2> DEFINE f == h[c].file
             j == <<c, h[c].left>>
  <2>1. CASE inc[f] # None
    BY <1>8, <2>1 DEF Opened, Types
  <2>2. CASE inc[f] = None
    <3>1. inc' = [inc EXCEPT ![f] = j] /\ UNCHANGED fin /\ j \in Inodes /\ f \in Files
      BY <1>8, <2>2 DEF Opened
    <3>2. h[c].left \in 0 .. MaxItems
      BY Fields DEF Types
    <3>3. Free(j)
      BY <1>8, <3>2 DEF Opened, Fresh, Ahead, Opening
    <3> HIDE DEF j, f
    <3>. QED
      BY <3>1, <3>3 DEF Free, Types
  <2>. QED
    BY <2>1, <2>2
<1>9. ASSUME NEW c \in Handlers, Appended(c)
      PROVE  OneName'
  BY <1>9 DEF Appended
<1>10. ASSUME NEW c \in Handlers, GivenUp(c)
      PROVE  OneName'
  BY <1>10 DEF GivenUp
<1>11. ASSUME NEW c \in Handlers, Renamed(c)
      PROVE  OneName'
  BY <1>11 DEF Renamed, Types
<1>12. ASSUME NEW c \in Handlers, Decrement(c), Decremented(c)
      PROVE  OneName'
  BY <1>12 DEF Decremented
<1>13. ASSUME NEW c \in Handlers, Forgotten(c)
      PROVE  OneName'
  BY <1>13 DEF Forgotten
<1>14. CASE Crashed
  BY <1>14 DEF Crashed
<1>15. CASE UNCHANGED vars
  BY <1>15 DEF vars
<1> HIDE DEF OneName
<1>. QED
  BY <1>1, <1>2, <1>3, <1>4, <1>5, <1>6, <1>7, <1>8, <1>9, <1>10, <1>11,
     <1>12, <1>13, <1>14, <1>15, StepCases

\* Every step preserves OneWriter.
LEMMA OneWriterStep ==
    Types /\ Registry /\ Stages /\ Fresh /\ OneName /\ OneWriter /\ [Next]_vars => OneWriter'
<1> SUFFICES ASSUME Types, Registry, Stages, Fresh, OneName, OneWriter, [Next]_vars
             PROVE  OneWriter'
  OBVIOUS
<1> USE DEF OneWriter, Writing, Only, SameFile, SameItem
<1>1. ASSUME NEW r \in Refs, NEW t \in Transfer, Offered(t), Register(r, t)
      PROVE  OneWriter'
  BY <1>1 DEF Register
<1>2. ASSUME NEW c \in Handlers, NEW r \in Refs, Claim(c, r), Claimed(c, r)
      PROVE  OneWriter'
  BY <1>2 DEF Claimed
<1>3. ASSUME NEW f \in Files, DeleteData(f)
      PROVE  OneWriter'
  BY <1>3 DEF DeleteData, Types
<1>4. ASSUME NEW f \in Files, DeleteIncomplete(f)
      PROVE  OneWriter'
  BY <1>4 DEF DeleteIncomplete
<1>5. ASSUME NEW c \in Handlers, Moved(c)
      PROVE  OneWriter'
  <2>1. h[c].pos \in Nat
    BY Fields DEF Types
  <2>2. h'[c].pc \in Writing => h[c].pc \in Writing
    BY <1>5 DEF Moved, Hops
  <2>3. h'[c].pc = "rename" => h[c].pc = "recv" /\ h[c].pos >= Size
    BY <1>5 DEF Moved, Hops
  <2>4. \A d \in Handlers : /\ h'[d].pc \in Writing => h[d].pc \in Writing
                            /\ h'[d].inode = h[d].inode /\ h'[d].pos = h[d].pos
                            /\ h'[d].src = h[d].src
    BY <1>5, <2>2 DEF Moved
  <2>5. \A d \in Handlers : h'[d].pc = "rename" =>
                              h[d].pc = "rename" \/ d = c
    BY <1>5 DEF Moved
  <2>6. UNCHANGED <<content, spoiled, fin>>
    BY <1>5 DEF Moved
  <2>. QED
    BY <2>1, <2>2, <2>3, <2>4, <2>5, <2>6
<1>6. ASSUME NEW c \in Handlers, NEW f \in Files, ItemNamed(c, f)
      PROVE  OneWriter'
  BY <1>6 DEF ItemNamed
<1>7. ASSUME NEW c \in Handlers, PartSeen(c)
      PROVE  OneWriter'
  BY <1>7 DEF PartSeen
<1>8. ASSUME NEW c \in Handlers, Opened(c)
      PROVE  OneWriter'
  <2> DEFINE f == h[c].file
             i == IF inc[f] = None THEN <<c, h[c].left>> ELSE inc[f]
  <2>1. /\ h'[c].inode = i /\ i \in Inodes /\ f \in Files
        /\ h'[c].pc \in {"size", "recv"}
        /\ h'[c].src = h[c].src /\ h'[c].pos = h[c].pos
        /\ \A d \in Handlers : d # c => h'[d] = h[d]
        /\ UNCHANGED <<fin, content>> /\ h[c].pc = "open"
    BY <1>8 DEF Opened
  <2>2. \A g \in Files : fin[g] # i
    <3>1. CASE inc[f] # None
      BY <2>1, <3>1 DEF OneName
    <3>2. CASE inc[f] = None
      <4>1. h[c].left \in 0 .. MaxItems
        BY Fields DEF Types
      <4>2. Free(i)
        BY <2>1, <3>2, <4>1 DEF Fresh, Ahead, Opening
      <4>. QED
        BY <4>2 DEF Free
    <3>. QED
      BY <3>1, <3>2
  <2>3. CASE Writers(i) = {} /\ content[i] = Part(h[c].src, h[c].pos)
    <3>1. spoiled' = spoiled
      BY <1>8, <2>3 DEF Opened
    <3>2. h[c].pos \in Nat /\ content[i] \in Seq(Blocks)
      BY <2>1, Fields DEF Types
    <3>3. h[c].pos <= Size
      BY <2>3, <3>2, PartBound
    <3>4. \A d \in Handlers : h[d].pc \in Writing => h[d].inode # i
      BY <2>3 DEF Writers
    <3> HIDE DEF i, f
    <3>. QED
      BY <2>1, <2>2, <2>3, <3>1, <3>3, <3>4
  <2>4. CASE ~(Writers(i) = {} /\ content[i] = Part(h[c].src, h[c].pos))
    <3>1. spoiled' = spoiled \cup {i}
      BY <1>8, <2>4 DEF Opened
    <3> HIDE DEF i, f
    <3>. QED
      BY <2>1, <3>1
  <2>. QED
    BY <2>3, <2>4
<1>9. ASSUME NEW c \in Handlers, Appended(c)
      PROVE  OneWriter'
  <2> DEFINE i == h[c].inode
  <2>1. /\ h'[c].inode = i /\ i \in Inodes /\ h[c].pc = "recv" /\ h'[c].pc = "recv"
        /\ h'[c].src = h[c].src /\ h'[c].pos = h[c].pos + 1 /\ h[c].pos < Size
        /\ \A d \in Handlers : d # c => h'[d] = h[d]
        /\ UNCHANGED <<fin, spoiled>>
    BY <1>9 DEF Appended
  <2>2. /\ content'[i] = Append(content[i], <<h[c].src, h[c].pos + 1>>)
        /\ \A j \in Inodes : j # i => content'[j] = content[j]
    BY <1>9, <2>1 DEF Appended, Types
  <2>3. ASSUME i \notin spoiled
        PROVE  content'[i] = Part(h[c].src, h[c].pos + 1)
    <3>1. content[i] = Part(h[c].src, h[c].pos) /\ content[i] \in Seq(Blocks)
      BY <2>1, <2>3 DEF Types
    <3>2. h[c].pos \in Nat /\ h[c].src \in Sources
      BY <2>1, Fields DEF Types, Stages
    <3>. QED
      BY <2>2, <3>1, <3>2, PartAppend
  <2>4. \A d \in Handlers : h[d].pc \in Writing => h[d].inode \in Inodes
    BY DEF Types
  <2>5. h[c].pos \in Nat
    BY Fields DEF Types
  <2>6. \A d \in Handlers : /\ h'[d].pc = h[d].pc /\ h'[d].inode = h[d].inode
                            /\ h'[d].src = h[d].src
    BY <2>1
  <2>7. ASSUME i \notin spoiled, NEW d \in Handlers, d # c, h[d].pc \in Writing
        PROVE  h[d].inode # i
    BY <2>1, <2>7
  <2>8. \A d \in Handlers : d # c /\ h[d].pc \in Writing /\ h[d].inode \notin spoiled
          => h[d].inode # i /\ content'[h[d].inode] = content[h[d].inode]
    BY <2>1, <2>2, <2>4, <2>7
  <2>. QED
    BY <2>1, <2>3, <2>5, <2>6, <2>8
<1>10. ASSUME NEW c \in Handlers, GivenUp(c)
      PROVE  OneWriter'
  BY <1>10 DEF GivenUp
<1>11. ASSUME NEW c \in Handlers, Renamed(c)
      PROVE  OneWriter'
  BY <1>11 DEF Renamed
<1>12. ASSUME NEW c \in Handlers, Decrement(c), Decremented(c)
      PROVE  OneWriter'
  BY <1>12 DEF Decremented
<1>13. ASSUME NEW c \in Handlers, Forgotten(c)
      PROVE  OneWriter'
  BY <1>13 DEF Forgotten
<1>14. CASE Crashed
  BY <1>14 DEF Crashed
<1>15. CASE UNCHANGED vars
  BY <1>15 DEF vars
<1> HIDE DEF OneWriter, Writing, Only, SameFile, SameItem
<1>. QED
  BY <1>1, <1>2, <1>3, <1>4, <1>5, <1>6, <1>7, <1>8, <1>9, <1>10, <1>11,
     <1>12, <1>13, <1>14, <1>15, StepCases

\* Every step preserves UploadIntact.
LEMMA IntactStep ==
    Types /\ Registry /\ Stages /\ OneName /\ OneWriter /\ UploadIntact /\ [Next]_vars
        => UploadIntact'
<1> SUFFICES ASSUME Types, Registry, Stages, OneName, OneWriter, UploadIntact,
                    [Next]_vars
             PROVE  UploadIntact'
  OBVIOUS
<1>1. ASSUME UNCHANGED <<fin, content>>, spoiled \subseteq spoiled'
      PROVE  UploadIntact'
  BY <1>1 DEF UploadIntact
<1>2. ASSUME NEW f \in Files, DeleteData(f)
      PROVE  UploadIntact'
  BY <1>2 DEF DeleteData, UploadIntact, Types
<1>3. ASSUME NEW c \in Handlers, Appended(c)
      PROVE  UploadIntact'
  <2>1. h[c].inode \notin spoiled => \A f \in Files : fin[f] # h[c].inode
    BY <1>3 DEF Appended, OneWriter, Writing
  <2>2. \A j \in Inodes : j # h[c].inode => content'[j] = content[j]
    BY <1>3 DEF Appended, Types
  <2>3. UNCHANGED <<fin, spoiled>>
    BY <1>3 DEF Appended
  <2>. QED
    BY <2>1, <2>2, <2>3 DEF UploadIntact, Types
<1>4. ASSUME NEW c \in Handlers, Renamed(c)
      PROVE  UploadIntact'
  <2> DEFINE f == h[c].file
  <2>1. /\ f \in Files /\ inc[f] \in Inodes /\ UNCHANGED content
        /\ spoiled \subseteq spoiled'
        /\ fin' = [fin EXCEPT ![f] = inc[f]]
    BY <1>4 DEF Renamed
  <2>2. ASSUME inc[f] \notin spoiled'
        PROVE  \E s \in Sources : content[inc[f]] = Whole(s)
    <3>1. inc[f] = h[c].inode /\ h[c].inode \notin spoiled /\ h[c].pc = "rename"
      BY <1>4, <2>2 DEF Renamed
    <3>2. content[inc[f]] = Part(h[c].src, Size) /\ h[c].src \in Sources
      BY <3>1 DEF OneWriter, Writing, Stages
    <3>. QED
      BY <3>2 DEF Whole
  <2> HIDE DEF f
  <2>. QED
    BY <2>1, <2>2 DEF UploadIntact, Types
<1>5. CASE UNCHANGED vars
  BY <1>1, <1>5 DEF vars
<1>. QED
  BY <1>1, <1>2, <1>3, <1>4, <1>5, StepCases
  DEF Register, Claimed, DeleteIncomplete, Moved, ItemNamed, PartSeen, Opened,
      GivenUp, Decremented, Forgotten, Crashed

\* The connections with a transfer of one of the given kinds in progress.
InProgress(kinds) == {c \in Handlers : h[c].kind \in kinds /\ h[c].pc \in Active}

Ups   == InProgress({"upload", "folder"})
Downs == InProgress({"download"})

\* Every step preserves InProgressCounts: Claim enters a connection into one of
\* the two sets, Decrement takes it out, and a crash empties both.
LEMMA CountStep ==
    Types /\ Registry /\ Stages /\ InProgressCounts /\ [Next]_vars
        => InProgressCounts'
<1> SUFFICES ASSUME Types, Registry, Stages, [Next]_vars,
                    uploads = Cardinality(Ups), downloads = Cardinality(Downs)
             PROVE  uploads' = Cardinality(Ups') /\ downloads' = Cardinality(Downs')
  <2>1. Downs = {c \in Handlers : h[c].kind = "download" /\ h[c].pc \in Active}
    BY DEF Downs, InProgress
  <2>2. Downs' = {c \in Handlers : h'[c].kind = "download" /\ h'[c].pc \in Active}
    BY DEF Downs, InProgress
  <2>. QED
    BY <2>1, <2>2 DEF InProgressCounts, Ups, InProgress
<1> DEFINE Goal == uploads' = Cardinality(Ups') /\ downloads' = Cardinality(Downs')
<1>0. /\ IsFiniteSet(Ups) /\ IsFiniteSet(Downs)
      /\ Cardinality(Ups) \in Nat /\ Cardinality(Downs) \in Nat
  BY FS_Subset, FS_CardinalityType DEF Ups, Downs, InProgress
<1>1. ASSUME UNCHANGED stats, 
             \A c \in Handlers :
               h'[c] = h[c] \/ /\ h'[c].kind = h[c].kind
                               /\ h'[c].pc \in Active <=> h[c].pc \in Active
      PROVE  Goal
  <2>1. Ups' = Ups /\ Downs' = Downs
    BY <1>1 DEF Ups, Downs, InProgress
  <2>. QED
    BY <1>1, <2>1
<1>2. ASSUME NEW c \in Handlers, NEW r \in Refs, Claim(c, r), Claimed(c, r)
      PROVE  Goal
  <2>1. /\ c \notin Ups /\ c \notin Downs
        /\ h'[c].pc \in Active /\ h'[c].kind = registry[r].kind
        /\ \A d \in Handlers : d # c => h'[d] = h[d]
    BY <1>2 DEF Claimed, Only, Ups, Downs, InProgress, Active
  <2>2. /\ uploads' = uploads
               + (IF registry[r].kind \in {"upload", "folder"} THEN 1 ELSE 0)
        /\ downloads' = downloads + (IF registry[r].kind = "download" THEN 1 ELSE 0)
    BY <1>2 DEF Claim
  <2>3. CASE registry[r].kind \in {"upload", "folder"}
    <3>1. Ups' = Ups \cup {c} /\ Downs' = Downs
      BY <2>1, <2>3 DEF Ups, Downs, InProgress
    <3>2. uploads' = uploads + 1 /\ downloads' = downloads
      BY <1>0, <2>2, <2>3
    <3>3. Cardinality(Ups \cup {c}) = Cardinality(Ups) + 1
      BY <1>0, <2>1, FS_AddElement
    <3>. QED
      BY <3>1, <3>2, <3>3
  <2>4. CASE registry[r].kind = "download"
    <3>1. Ups' = Ups /\ Downs' = Downs \cup {c}
      BY <2>1, <2>4 DEF Ups, Downs, InProgress
    <3>2. uploads' = uploads /\ downloads' = downloads + 1
      BY <1>0, <2>2, <2>4
    <3>3. Cardinality(Downs \cup {c}) = Cardinality(Downs) + 1
      BY <1>0, <2>1, FS_AddElement
    <3>. QED
      BY <3>1, <3>2, <3>3
  <2>5. CASE registry[r].kind \notin {"upload", "folder", "download"}
    <3>1. Ups' = Ups /\ Downs' = Downs
      BY <2>1, <2>5 DEF Ups, Downs, InProgress
    <3>. QED
      BY <1>0, <2>2, <2>5, <3>1
  <2>. QED
    BY <2>3, <2>4, <2>5
<1>3. ASSUME NEW c \in Handlers, Moved(c)
      PROVE  Goal
  <2>1. \A d \in Handlers : d # c => h'[d] = h[d]
    BY <1>3 DEF Moved, Only
  <2>2. h'[c].kind = h[c].kind /\ UNCHANGED stats
    BY <1>3 DEF Moved, SameFile, SameItem
  <2>3. h[c].kind # "banner" => h[c].pc \in Active /\ h'[c].pc \in Active
    BY <1>3 DEF Moved, Hops, Active
  <2>4. Ups' = Ups /\ Downs' = Downs
    BY <2>1, <2>2, <2>3 DEF Ups, Downs, InProgress
  <2>. QED
    BY <2>2, <2>4
<1>4. ASSUME NEW c \in Handlers, Decrement(c), Decremented(c)
      PROVE  Goal
  <2>1. /\ h[c].pc = "decrement" /\ h'[c].pc = "forget" /\ h'[c].kind = h[c].kind
        /\ \A d \in Handlers : d # c => h'[d] = h[d]
    BY <1>4 DEF Decremented, Only, SameFile, SameItem
  <2>2. CASE h[c].kind = "download"
    <3>1. c \in Downs /\ Downs' = Downs \ {c} /\ Ups' = Ups
      BY <2>1, <2>2 DEF Ups, Downs, InProgress, Active
    <3>2. Cardinality(Downs) > 0
      BY <1>0, <3>1, FS_EmptySet
    <3>3. uploads' = uploads /\ downloads' = downloads - 1
      BY <1>4, <2>2, <3>2 DEF Decrement
    <3>. QED
      BY <1>0, <3>1, <3>3, FS_RemoveElement
  <2>3. CASE h[c].kind # "download"
    <3>1. h[c].kind \in {"upload", "folder"}
      <4>1. h[c].kind \in Kinds
        BY Fields DEF Types
      <4>. QED
        BY <2>1, <2>3, <4>1 DEF Stages, Kinds
    <3>2. c \in Ups /\ Ups' = Ups \ {c} /\ Downs' = Downs
      BY <2>1, <3>1 DEF Ups, Downs, InProgress, Active
    <3>3. Cardinality(Ups) > 0
      BY <1>0, <3>2, FS_EmptySet
    <3>4. downloads' = downloads /\ uploads' = uploads - 1
      BY <1>4, <2>3, <3>3 DEF Decrement
    <3>. QED
      BY <1>0, <3>2, <3>4, FS_RemoveElement
  <2>. QED
    BY <2>2, <2>3
<1>5. ASSUME NEW c \in Handlers, Forgotten(c)
      PROVE  Goal
  <2>1. Ups' = Ups /\ Downs' = Downs
    BY <1>5 DEF Forgotten, Only, Ups, Downs, InProgress, Active
  <2>. QED
    BY <1>5, <2>1 DEF Forgotten
<1>6. CASE Crashed
  <2>1. \A c \in Handlers : h'[c].pc \in {"idle", "done"}
    BY <1>6 DEF Crashed
  <2>2. Ups' = {} /\ Downs' = {}
    BY <2>1 DEF Ups, Downs, InProgress, Active
  <2>. QED
    BY <1>6, <2>2, FS_EmptySet DEF Crashed
<1>7. CASE UNCHANGED vars
  BY <1>1, <1>7 DEF vars
<1>8. ASSUME NEW c \in Handlers,
             \/ \E f \in Files : ItemNamed(c, f)
             \/ PartSeen(c) \/ Opened(c) \/ Appended(c) \/ GivenUp(c) \/ Renamed(c)
      PROVE  Goal
  <2>1. UNCHANGED stats /\ \A d \in Handlers : d # c => h'[d] = h[d]
    BY <1>8 DEF ItemNamed, PartSeen, Opened, Appended, GivenUp, Renamed, Only
  <2>2. h'[c].kind = h[c].kind
    BY <1>8 DEF ItemNamed, PartSeen, Opened, Appended, GivenUp, Renamed,
                SameFile, SameItem
  <2>3. h[c].pc \in Active /\ h'[c].pc \in Active
    BY <1>8 DEF ItemNamed, PartSeen, Opened, Appended, GivenUp, Renamed, Active
  <2>. QED
    BY <1>1, <2>1, <2>2, <2>3
<1>9. ASSUME UNCHANGED <<h, stats>>
      PROVE  Goal
  BY <1>1, <1>9
<1>. QED
  BY <1>2, <1>3, <1>4, <1>5, <1>6, <1>7, <1>8, <1>9, StepCases
  DEF Register, DeleteData, DeleteIncomplete

-----------------------------------------------------------------------------
\* The invariant that all of the above preserves.
Inv ==
    /\ Types /\ Registry /\ Stages
    /\ Fresh /\ OneName /\ OneWriter
    /\ UploadIntact /\ InProgressCounts

\* The invariant holds of every reachable state.
LEMMA Invariance == Spec => []Inv
<1>1. Init => Inv
  <2> SUFFICES ASSUME Init PROVE Inv
    OBVIOUS
  <2>1. Idle \in Handler /\ Idle.pc = "idle" /\ Idle.kind = "upload"
        /\ Idle.inode = None /\ Idle.left = 0
    BY EndedType
  <2>2. \A c \in Handlers : h[c] = Idle
    BY DEF Init
  <2>3. Types
    BY <2>1, <2>2 DEF Init, Types, Writing
  <2>4. Registry /\ Stages
    <3>1. Registry
      BY <2>1, <2>2 DEF Init, Registry, FinishedIsForgotten
    <3>2. Stages
      BY <2>1, <2>2 DEF Stages, Opening, Writing
    <3> QED BY <3>1, <3>2
  <2>5. Fresh
    <3>1. ASSUME NEW c \in Handlers, NEW k \in 0 .. MaxItems
          PROVE  Free(<<c, k>>)
      <4>1. PICK i \in Inodes : i = <<c, k>>
        BY DEF Inodes
      <4>2. content[i] = <<>>
        BY DEF Init
      <4>3. None # i
        BY NilAssumption
      <4>4. \A f \in Files : inc[f] # i /\ fin[f] # i
        BY <4>3 DEF Init
      <4>5. \A d \in Handlers : h[d].inode # i
        BY <2>1, <2>2, <4>3
      <4> QED BY <4>1, <4>2, <4>4, <4>5 DEF Free
    <3> QED BY <3>1 DEF Fresh
  <2>6. OneName /\ OneWriter /\ UploadIntact
    BY <2>1, <2>2 DEF Init, OneName, OneWriter, UploadIntact, Writing
  <2>7. /\ {c \in Handlers : h[c].kind \in {"upload", "folder"} /\ h[c].pc \in Active} = {}
        /\ {c \in Handlers : h[c].kind = "download" /\ h[c].pc \in Active} = {}
    BY <2>1, <2>2 DEF Active
  <2>8. InProgressCounts
    BY <2>7, FS_EmptySet DEF Init, InProgressCounts
  <2>. QED
    BY <2>3, <2>4, <2>5, <2>6, <2>8 DEF Inv
<1>2. Inv /\ [Next]_vars => Inv'
  BY TypeStep, RegistryStep, StagesStep, FreshStep, OneNameStep, OneWriterStep,
     IntactStep, CountStep DEF Inv
<1>. QED
  BY <1>1, <1>2, PTL DEF Spec

\* Type correctness: the stages are those of the transfer's kind, an upload that
\* writes has its file open, and a partial file is not also the complete one.
THEOREM TypeCorrect == Spec => []TypeOK
<1>1. Inv => TypeOK
  <2> SUFFICES ASSUME Inv PROVE TypeOK
    OBVIOUS
  <2>1. \A c \in Handlers :
         /\ h[c].pc \in {"recv", "rename", "size"} => h[c].inode \in Inodes
         /\ h[c].kind = "banner" => h[c].pc \in {"idle", "send", "forget", "done"}
    BY DEF Inv, Types, Stages, Writing
  <2>2. \A f, g \in Files : inc[f] # None /\ inc[f] = fin[g] => f # g
    BY DEF Inv, OneName
  <2>. QED
    BY <2>1, <2>2 DEF Inv, Types, TypeOK, Handler
<1>. QED
  BY <1>1, Invariance, PTL

\* What has its final name and was not spoiled in one of the four known ways is
\* one source, whole and in order: for any number of connections, failed
\* attempts, resumptions, deletions and restarts.
THEOREM UploadsIntact == Spec => []UploadIntact
<1>1. Inv => UploadIntact
  BY DEF Inv
<1>. QED
  BY <1>1, Invariance, PTL

\* The statistics of transfers in progress are exact, whichever way a transfer
\* ends.
THEOREM CountsCorrect == Spec => []InProgressCounts
<1>1. Inv => InProgressCounts
  BY DEF Inv
<1>. QED
  BY <1>1, Invariance, PTL

\* A reference number whose connection has ended opens no other connection.
THEOREM FinishedForgotten == Spec => []FinishedIsForgotten
<1>1. Inv => FinishedIsForgotten
  BY DEF Inv, Registry
<1>. QED
  BY <1>1, Invariance, PTL

-----------------------------------------------------------------------------
(***************************************************************************)
(* Files.  SideEntriesFollow rests on an invariant (FilesInv) that says of *)
(* every file that is not loose where its side entries are while a request *)
(* is on its way through them: beside it, or still to follow (Near), with  *)
(* its comment, or opened to be written by the request (Texts, Handles).   *)
(* The request's file is where the request takes it to be (Placed), and    *)
(* there is no other one (Alone).                                          *)
(*                                                                         *)
(* A step is of one request and at the places of that request.  What it is *)
(* for the others (Others) and for other files (Undisturbed) is shown once *)
(* for all actions: requests overlap, and then their files are loose, or   *)
(* nothing changes where the other one is at work (Elsewhere).  What is    *)
(* left for each action is its own file (Trails, Tells, InPlace, InHand).  *)
(***************************************************************************)

(* The predicates below are about a file system nd and requests rq, so that   *)
(* they can be asked of the state before a step and of the one after it.      *)

Alive(nd, i)  == nd[i].kind # "none"
IsFile(nd, i) == Alive(nd, i) /\ nd[i].fork \in {"data", "incomplete"}
IsSide(nd, i) == Alive(nd, i) /\ nd[i].fork \in {"rsrc", "info"}
IsInfo(nd, i) == Alive(nd, i) /\ nd[i].fork = "info"

FolderIn(nd, p) == IF p = <<>> THEN {Root}
                   ELSE {i \in Entry(nd, Root, p[1], "data") : nd[i].kind = "folder"}

\* Entry i lies under the name n in the folder p.
Here(nd, i, p, n) == Alive(nd, i) /\ nd[i].dir \in FolderIn(nd, p) /\ nd[i].name = n

Served(r) == r.at # "idle"
Hauls(r)  == r.op \in {"setinfo", "move"}
Writes(r) == r.at \in {"write", "receive"} /\ r.info # 0

\* The file has been dealt with, its side entries not yet.
Lags(r) == r.op \in {"setinfo", "move", "delete"} /\ r.at \in {"incomplete", "rsrc", "info"}

\* Entry k still has to follow.
Behind(nd, r, k) ==
    Lags(r) /\ Here(nd, k, r.path, r.name) /\ (r.at = "info" => nd[k].fork = "info")

\* No two entries have one place.
Unique(nd) ==
    \A i, j \in Nodes :
        /\ Alive(nd, i) /\ Alive(nd, j)
        /\ nd[i].dir = nd[j].dir /\ nd[i].name = nd[j].name /\ nd[i].fork = nd[j].fork
        => i = j

\* Numbers that were not given out are not in use.
Spare ==
    /\ \A i \in Nodes : i >= next => node[i] = Gone /\ comment[i] = NoComment /\ makers[i] = {}
    /\ \A i \in Nodes : node[i].of < next /\ node[i].dir < next
    /\ \A i \in loose : i < next
    /\ \A c \in Conns : req[c].obj < next /\ req[c].info < next

\* Side entries belong to something, and resource forks to no folder.
Owned(nd, L) ==
    \A k \in Nodes :
        IsSide(nd, k) => /\ nd[k].of # 0
                         /\ nd[k].fork = "rsrc" /\ nd[k].of \notin L => nd[nd[k].of].kind # "folder"

\* The steps that each operation goes through.
SaneIn(r) ==
    /\ r.at = "idle" => r = NoRequest
    /\ r.at \in {"open", "write", "rename"} => r.op = "setinfo"
    /\ r.at \in {"open", "write"} => r.text \in Comments
    /\ r.at = "write" => r.info # 0
    /\ r.at \in {"receive", "finish"} => r.op = "upload" /\ r.text \in Comments
    /\ r.at = "mkdir" => r.op = "newfolder" /\ r.obj = 0
    /\ r.at \in Forks => r.op \in {"setinfo", "move", "delete"}
    /\ r.obj = 0 => r.op \in {"none", "newfolder"}

\* Of two requests that overlap, or are about one file, both files are loose.
Rivals(rq, L) ==
    \A c, e \in Conns :
        c # e /\ Served(rq[c]) /\ Served(rq[e]) /\
        (Overlaps(rq[c], rq[e]) \/ rq[c].obj = rq[e].obj)
            => rq[c].obj \in L \cup {0}

\* Where requests overlap, their files and whatever lies there are in M.
Contest(nd, rq, M) ==
    \A c, e \in Conns :
        c # e /\ Served(rq[c]) /\ Served(rq[e]) /\ Overlaps(rq[c], rq[e]) =>
            /\ rq[c].obj \in M \cup {0}
            /\ \A x \in Touches(rq[c]), i \in Nodes :
                  IsFile(nd, i) /\ Here(nd, i, x[1], x[2]) => i \in M

\* A side entry lies beside its file, unless it still has to follow it.
NearTo(nd, k) == LET o == nd[k].of
                 IN IsFile(nd, o) /\ nd[o].dir = nd[k].dir /\ nd[o].name = nd[k].name

Near(nd, rq, L) ==
    \A k \in Nodes : IsSide(nd, k) /\ nd[k].of \notin L =>
        \/ NearTo(nd, k)
        \/ \E c \in Conns : rq[c].obj = nd[k].of /\ Behind(nd, rq[c], k)

\* No file but its own lies where a request is at work.
AloneIn(nd, r, L) ==
    \A i \in Nodes \ L :
        /\ Served(r) /\ r.obj # 0 /\ IsFile(nd, i)
        /\ Here(nd, i, r.path, r.name) \/ (Lags(r) /\ Hauls(r) /\ Here(nd, i, r.to, r.new))
        => i = r.obj

\* The file of a request is where it was found, or where it was moved, or gone.
InPlace(nd, r) ==
    LET o == r.obj
    IN /\ Alive(nd, o) => nd[o].kind = r.kind
       /\ ~Lags(r) => /\ Here(nd, o, r.path, r.name) /\ IsFile(nd, o)
                      /\ r.op = "setinfo" => nd[o].fork = "data"
                      /\ r.op = "upload" => nd[o].fork = "incomplete"
       /\ Lags(r) /\ Hauls(r) => Here(nd, o, r.to, r.new) /\ nd[o].fork = "data"
       /\ Lags(r) /\ ~Hauls(r) /\ Alive(nd, o) =>
             r.at = "incomplete" /\ nd[o].fork = "incomplete" /\ Here(nd, o, r.path, r.name)

\* An information fork that was opened for writing is still what it was.
InHand(nd, r) == /\ IsInfo(nd, r.info) /\ Here(nd, r.info, r.path, r.name)
                 /\ nd[r.info].of = r.obj

Alone(nd, rq, L)   == \A c \in Conns : AloneIn(nd, rq[c], L)
Placed(nd, rq, L)  == \A c \in Conns : rq[c].obj \notin L \cup {0} => InPlace(nd, rq[c])
Handles(nd, rq, L) == \A c \in Conns : Writes(rq[c]) /\ rq[c].obj \notin L => InHand(nd, rq[c])

\* An information fork has the comment of its file, unless it is being written.
Texts(nd, rq, cm, L) ==
    \A k \in Nodes : IsInfo(nd, k) /\ nd[k].of \notin L =>
        \/ nd[k].text = cm[nd[k].of]
        \/ \E c \in Conns : rq[c].obj = nd[k].of /\ Writes(rq[c]) /\ rq[c].info = k

\* A file with a comment has an information fork.
Noted(nd, cm, L) ==
    \A o \in Nodes \ L : IsFile(nd, o) /\ cm[o] # NoComment =>
        \E k \in Nodes : IsInfo(nd, k) /\ nd[k].of = o

\* Whatever lies beside a file belongs to it.
Own(nd, L) ==
    \A i \in Nodes \ L : IsFile(nd, i) =>
        \A k \in Nodes \ {i} : Alive(nd, k) /\ nd[i].dir = nd[k].dir /\ nd[i].name = nd[k].name
            => IsSide(nd, k) /\ nd[k].of = i

FilesInv ==
    /\ FilesTypeOK /\ Unique(node) /\ Spare /\ Owned(node, loose)
    /\ \A c \in Conns : SaneIn(req[c])
    /\ Rivals(req, loose) /\ Contest(node, req, loose)
    /\ Near(node, req, loose) /\ Alone(node, req, loose)
    /\ Placed(node, req, loose) /\ Handles(node, req, loose)
    /\ Texts(node, req, comment, loose) /\ Noted(node, comment, loose) /\ Own(node, loose)

\* The more is loose, the less is to be shown.
LEMMA OwnedMore ==
    ASSUME NEW nd, NEW L, NEW K, Owned(nd, L), L \subseteq K PROVE Owned(nd, K)
  BY DEF Owned

-----------------------------------------------------------------------------
(* Places *)

\* The number of the root is none of an entry.
LEMMA RootApart == Root \notin Nodes
  BY BoundAssumption DEF Root, Nodes

\* What At finds is what lies there.
LEMMA AtIs ==
    ASSUME NEW p, NEW n, NEW f, NEW i
    PROVE  i \in At(p, n, f) <=> i \in Nodes /\ Here(node, i, p, n) /\ node[i].fork = f
  BY DEF At, Entry, Here, Alive, Folder, FolderIn

\* A folder that a path names is the root, or an entry of the root.
LEMMA FolderIs ==
    ASSUME NEW nd, NEW p \in Paths, NEW d
    PROVE  d \in FolderIn(nd, p) <=>
             \/ p = <<>> /\ d = Root
             \/ \E a \in Names : /\ p = <<a>> /\ d \in Nodes /\ nd[d].kind = "folder"
                                 /\ nd[d].dir = Root /\ nd[d].name = a
                                 /\ nd[d].fork = "data"
<1>1. CASE p = <<>>
  BY <1>1 DEF FolderIn
<1>2. CASE p # <<>>
  <2>1. PICK a \in Names : p = <<a>>
    BY <1>2, PathsAssumption
  <2>2. p[1] = a /\ \A b : p = <<b>> => b = a
    BY <2>1
  <2>3. FolderIn(nd, p) = {i \in Entry(nd, Root, a, "data") : nd[i].kind = "folder"}
    BY <1>2, <2>2 DEF FolderIn
  <2>4. d \in FolderIn(nd, p) <=> /\ d \in Nodes /\ nd[d].kind = "folder" /\ nd[d].dir = Root
                                  /\ nd[d].name = a /\ nd[d].fork = "data"
    BY <2>3 DEF Entry
  <2> QED BY <1>2, <2>1, <2>2, <2>4
<1> QED BY <1>1, <1>2

\* A folder has one path.
LEMMA SameFolder ==
    ASSUME NEW nd, NEW p \in Paths, NEW q \in Paths, NEW d,
           d \in FolderIn(nd, p), d \in FolderIn(nd, q)
    PROVE  p = q
<1>1. CASE d = Root
  BY <1>1, RootApart, FolderIs
<1>2. CASE d # Root
  <2>1. PICK a \in Names : p = <<a>> /\ nd[d].name = a
    BY <1>2, FolderIs
  <2>2. PICK b \in Names : q = <<b>> /\ nd[d].name = b
    BY <1>2, FolderIs
  <2> QED BY <2>1, <2>2
<1> QED BY <1>1, <1>2

\* A path names one folder at most.
LEMMA OneFolder ==
    ASSUME NEW nd, Unique(nd), NEW p \in Paths, NEW d, NEW e,
           d \in FolderIn(nd, p), e \in FolderIn(nd, p)
    PROVE  d = e
<1>1. CASE p = <<>>
  BY <1>1, FolderIs
<1>2. CASE p # <<>>
  <2>1. PICK a \in Names : /\ p = <<a>> /\ d \in Nodes /\ nd[d].kind = "folder"
                                 /\ nd[d].dir = Root /\ nd[d].name = a
                                 /\ nd[d].fork = "data"
    BY <1>2, FolderIs
  <2>2. PICK b \in Names : /\ p = <<b>> /\ e \in Nodes /\ nd[e].kind = "folder"
                                 /\ nd[e].dir = Root /\ nd[e].name = b
                                 /\ nd[e].fork = "data"
    BY <1>2, FolderIs
  <2>3. a = b
    BY <2>1, <2>2
  <2> QED BY <2>1, <2>2, <2>3 DEF Unique, Alive
<1> QED BY <1>1, <1>2

\* An entry lies at one place.
LEMMA SamePlace ==
    ASSUME NEW nd, NEW p \in Paths, NEW q \in Paths, NEW n, NEW m, NEW i,
           Here(nd, i, p, n), Here(nd, i, q, m)
    PROVE  p = q /\ n = m
  BY SameFolder DEF Here

\* Entries at one place lie beside each other.
LEMMA Neighbours ==
    ASSUME NEW nd, Unique(nd), NEW p \in Paths, NEW n, NEW i, NEW j,
           Here(nd, i, p, n), Here(nd, j, p, n)
    PROVE  nd[i].dir = nd[j].dir /\ nd[i].name = nd[j].name
  BY OneFolder DEF Here

\* What lies beside an entry lies at the same place.
LEMMA NeighbourHere ==
    ASSUME NEW nd, NEW p, NEW n, NEW i, NEW j, Here(nd, i, p, n), Alive(nd, j),
           nd[i].dir = nd[j].dir, nd[i].name = nd[j].name
    PROVE  Here(nd, j, p, n)
  BY DEF Here

-----------------------------------------------------------------------------
(* What a step does elsewhere *)

\* A step from nd to nx changes only what is at the places T, what comes there,
\* and what is in the folders D.
Local(nd, nx, T, D) ==
    /\ T \subseteq Paths \X Names
    /\ D \subseteq Nodes
    /\ \A d \in D : nd[d].dir = Root => \E t \in T : Here(nd, d, t[1], t[2])
    /\ \A x \in Nodes : nx[x] # nd[x] =>
          /\ Alive(nd, x) => (\E t \in T : Here(nd, x, t[1], t[2])) \/ nd[x].dir \in D
          /\ Alive(nx, x) => \E t \in T : nx[x].dir \in FolderIn(nd, t[1]) /\ nx[x].name = t[2]

Apart(p, n, T) ==
    \A t \in T : t # <<p, n>> /\ ~(t[1] = <<>> /\ p = <<t[2]>>)

Calm(nd, nx, p, n) ==
    \A x \in Nodes : Here(nd, x, p, n) \/ Here(nx, x, p, n) =>
        nx[x] = nd[x] /\ Here(nd, x, p, n) /\ Here(nx, x, p, n)

\* At the places that are apart from those of a step, nothing changes.
LEMMA Elsewhere ==
    ASSUME NEW nd, NEW nx, NEW T, NEW D, Local(nd, nx, T, D),
           NEW p \in Paths, NEW n \in Names, Apart(p, n, T)
    PROVE  Calm(nd, nx, p, n)
<1> USE DEF Local
<1>1. ASSUME NEW t \in T PROVE t[1] \in Paths /\ t[2] \in Names /\ t = <<t[1], t[2]>>
  OBVIOUS
<1>2. ASSUME NEW d \in FolderIn(nd, p), d # Root PROVE nx[d] = nd[d]
  <2>1. PICK a \in Names : /\ p = <<a>> /\ d \in Nodes /\ nd[d].kind = "folder"
                           /\ nd[d].dir = Root /\ nd[d].name = a
    BY <1>2, FolderIs
  <2>2. ASSUME NEW t \in T, Here(nd, d, t[1], t[2]) PROVE FALSE
    <3>1. Root \in FolderIn(nd, t[1]) /\ t[2] = a
      BY <2>1, <2>2 DEF Here
    <3>2. t[1] = <<>>
      BY <1>1, <3>1, FolderIs, RootApart
    <3> QED BY <2>1, <3>1, <3>2 DEF Apart
  <2> QED BY <2>1, <2>2, RootApart DEF Alive
<1>3. ASSUME NEW d \in FolderIn(nx, p), d # Root PROVE nx[d] = nd[d]
  <2>1. PICK a \in Names : /\ p = <<a>> /\ d \in Nodes /\ nx[d].kind = "folder"
                           /\ nx[d].dir = Root /\ nx[d].name = a
    BY <1>3, FolderIs
  <2>2. ASSUME NEW t \in T, Root \in FolderIn(nd, t[1]), a = t[2] PROVE FALSE
    <3>2. t[1] = <<>>
      BY <1>1, <2>2, FolderIs, RootApart
    <3> QED BY <2>1, <2>2, <3>2 DEF Apart
  <2> QED BY <2>1, <2>2 DEF Alive
<1>4. \A d : d \in FolderIn(nd, p) <=> d \in FolderIn(nx, p)
  <2>1. \A d : d # Root /\ d \in FolderIn(nd, p) => d \in FolderIn(nx, p)
    BY <1>2, FolderIs
  <2>2. \A d : d # Root /\ d \in FolderIn(nx, p) => d \in FolderIn(nd, p)
    BY <1>3, FolderIs
  <2>3. Root \in FolderIn(nd, p) <=> Root \in FolderIn(nx, p)
    BY FolderIs, RootApart
  <2> QED BY <2>1, <2>2, <2>3
<1>5. ASSUME NEW x \in Nodes, Here(nd, x, p, n) PROVE nx[x] = nd[x]
  <2>1. \A t \in T : ~Here(nd, x, t[1], t[2])
    BY <1>1, <1>5, SamePlace DEF Apart
  <2>2. ASSUME nd[x].dir \in D PROVE FALSE
    <3> DEFINE d == nd[x].dir
    <3>1. d \in FolderIn(nd, p) /\ d # Root
      BY <1>5, <2>2, RootApart DEF Here
    <3>2. PICK a \in Names : p = <<a>> /\ nd[d].dir = Root /\ nd[d].name = a
      BY <3>1, FolderIs
    <3>3. PICK t \in T : Here(nd, d, t[1], t[2])
      BY <2>2, <3>2
    <3>4. t[1] = <<>> /\ t[2] = a
      BY <1>1, <3>2, <3>3, FolderIs, RootApart DEF Here
    <3> QED BY <3>2, <3>4 DEF Apart
  <2> QED BY <1>5, <2>1, <2>2 DEF Here
<1>6. ASSUME NEW x \in Nodes, Here(nx, x, p, n) PROVE nx[x] = nd[x]
  <2>1. ASSUME NEW t \in T, nx[x].dir \in FolderIn(nd, t[1]), nx[x].name = t[2] PROVE FALSE
    <3>1. nx[x].dir \in FolderIn(nd, p) /\ n = t[2]
      BY <1>4, <1>6, <2>1 DEF Here
    <3>2. p = t[1]
      BY <1>1, <2>1, <3>1, SameFolder
    <3> QED BY <1>1, <3>1, <3>2 DEF Apart
  <2> QED BY <1>6, <2>1 DEF Here
<1> QED BY <1>4, <1>5, <1>6 DEF Calm, Here, Alive

-----------------------------------------------------------------------------
(* What requests contend for *)

\* The files in M are loose after the step, and with them those that came to lie
\* beside what is not theirs.
Slack(M) ==
    /\ loose \subseteq M /\ M \subseteq Nodes
    /\ loose' = M \cup Caught(node', M)
    /\ Contest(node', req, M) /\ Contest(node', req', M)

\* What is in M beside L and the files that are loose already.
Known(M, L) ==
    \A i \in M : \/ i \in loose \cup L
                \/ \E c \in Conns : i = req[c].obj \/ i = req'[c].obj
                \/ Alive(node', i)

\* The files that Loosen declares loose, as Slack and Known describe them.
LEMMA Loosened ==
    ASSUME NEW L \in SUBSET Nodes, Loosen(L), FilesTypeOK, req' \in [Conns -> FileRequests]
    PROVE  \E M : Slack(M) /\ L \subseteq M /\ Known(M, L)
<1> DEFINE S == Contending(req) \cup Contending(req')
           M == loose \cup L \cup ({s.obj : s \in S} \ {0}) \cup UNION {Involved(s)' : s \in S}
<1>1. loose' = M \cup Caught(node', M)
  BY DEF Loosen
<1>2. ASSUME NEW s \in S
      PROVE  /\ s.obj \in Nodes \cup {0}
             /\ \E c \in Conns : s = req[c] \/ s = req'[c]
             /\ \A i \in Involved(s)' : i \in Nodes /\ Alive(node', i)
  <2>1. s \in FileRequests /\ \E c \in Conns : s = req[c] \/ s = req'[c]
    BY DEF Contending, FilesTypeOK
  <2> QED BY <2>1 DEF FileRequests, Involved, Objects, Alive
<1>3. loose \subseteq M /\ L \subseteq M
  OBVIOUS
<1>4. M \subseteq Nodes /\ Known(M, L)
  BY <1>2 DEF FilesTypeOK, Known
<1>5. ASSUME NEW s \in S, NEW x \in Touches(s), NEW i \in Nodes,
             IsFile(node', i), Here(node', i, x[1], x[2])
      PROVE  i \in M
  <2>1. i \in Objects(node')
    BY <1>5 DEF IsFile, Alive, Objects
  <2>2. i \in At(x[1], x[2], node[i].fork)'
    BY <1>5 DEF At, Entry, Here, Alive, Folder, FolderIn
  <2>3. i \in Involved(s)'
    BY <2>1, <2>2 DEF Involved
  <2> QED BY <2>3
<1>6. ASSUME NEW s \in S PROVE s.obj \in M \cup {0}
  OBVIOUS
<1> HIDE DEF M
<1>7. Contest(node', req, M)
  BY <1>5, <1>6 DEF Contest, Contending, Served
<1>8. Contest(node', req', M)
  BY <1>5, <1>6 DEF Contest, Contending, Served
<1> QED BY <1>1, <1>3, <1>4, <1>7, <1>8 DEF Slack

\* To overlap is mutual.
LEMMA OverlapsEither ==
    ASSUME NEW r, NEW s PROVE Overlaps(r, s) => Overlaps(s, r)
  BY DEF Overlaps

\* A place of a request is apart from those of a request that it does not
\* overlap with.
LEMMA NoOverlap ==
    ASSUME NEW r, NEW s, ~Overlaps(r, s), NEW T \in SUBSET Touches(r), NEW p, NEW n,
           <<p, n>> \in Touches(s)
    PROVE  Apart(p, n, T)
<1>1. \A x \in Touches(r), y \in Touches(s) : x # y /\ ~(x[1] = <<>> /\ y[1] = <<x[2]>>)
  BY DEF Overlaps
<1>2. <<p, n>>[1] = p
  OBVIOUS
<1>3. \A x \in T : x # <<p, n>> /\ ~(x[1] = <<>> /\ <<p, n>>[1] = <<x[2]>>)
  BY <1>1
<1> QED BY <1>2, <1>3 DEF Apart

\* The places of a request.
LEMMA TouchesIs ==
    ASSUME NEW r \in FileRequests
    PROVE  /\ <<r.path, r.name>> \in Touches(r)
           /\ Hauls(r) => <<r.to, r.new>> \in Touches(r)
           /\ Touches(r) \subseteq Paths \X Names
           /\ \A x \in Touches(r) : x = <<r.path, r.name>> \/ (Hauls(r) /\ x = <<r.to, r.new>>)
  BY DEF Touches, Hauls, FileRequests

-----------------------------------------------------------------------------
(* The requests that a step is not of *)

\* A step of request r, at some of its places.
StepOf(c, r, M, T, D) ==
    /\ r \in FileRequests /\ T \subseteq Touches(r) /\ Served(r)
    /\ r = req[c] \/ (r = req'[c] /\ ~Served(req[c]))
    /\ \A e \in Conns \ {c} : req'[e] = req[e]
    /\ Slack(M)
    /\ Local(node, node', T, D)
    /\ \A x \in Nodes : ~Alive(node, x) /\ x < next => ~Alive(node', x)

\* What a step means for a request s that it is not of: either s overlaps with
\* the request of the step, then what s is about is loose, or nothing changes
\* where s is at work.
LEMMA Others ==
    ASSUME FilesInv, NEW c \in Conns, NEW r, NEW M, NEW T, NEW D, StepOf(c, r, M, T, D),
           NEW e \in Conns \ {c}, NEW s, s = req[e]
    PROVE  /\ AloneIn(node', s, M)
           /\ s.obj \notin M \cup {0} => InPlace(node', s)
           /\ Writes(s) /\ s.obj \notin M => InHand(node', s)
           /\ \A k \in Nodes : s.obj \notin M /\ Behind(node, s, k) =>
                 node'[k] = node[k] /\ Behind(node', s, k)
<1>0. /\ FilesTypeOK /\ SaneIn(s) /\ Spare
      /\ AloneIn(node, s, loose)
      /\ s.obj \notin loose \cup {0} => InPlace(node, s)
      /\ Writes(s) /\ s.obj \notin loose => InHand(node, s)
  BY DEF FilesInv, Alone, Placed, Handles
<1>1. req'[e] = s /\ s \in FileRequests /\ loose \subseteq M
  BY <1>0 DEF StepOf, FilesTypeOK, Slack
<1>2. CASE s.at = "idle"
  <2>1. s = NoRequest
    BY <1>0, <1>2 DEF SaneIn
  <2>2. s.obj = 0 /\ ~Lags(s) /\ ~Writes(s)
    BY <2>1, <1>2 DEF NoRequest, Lags, Writes
  <2> QED BY <1>2, <2>2 DEF AloneIn, Behind, Served
<1>3. CASE s.at # "idle" /\ Overlaps(r, s)
  <2>1. Overlaps(s, r)
    BY <1>3, OverlapsEither
  <2>2. /\ s.obj \in M \cup {0}
        /\ \A x \in Touches(s), i \in Nodes :
              IsFile(node', i) /\ Here(node', i, x[1], x[2]) => i \in M
    <3>1. CASE r = req[c]
      BY <3>1, <1>3, <2>1 DEF StepOf, Slack, Contest, Served
    <3>2. CASE r = req'[c]
      BY <3>2, <1>1, <1>3, <2>1 DEF StepOf, Slack, Contest, Served
    <3> QED BY <3>1, <3>2 DEF StepOf
  <2>3. s.obj = 0 => ~Lags(s) /\ ~Writes(s)
    BY <1>0 DEF SaneIn, Lags, Writes
  <2>4. \A i \in Nodes : /\ IsFile(node', i)
                         /\ Here(node', i, s.path, s.name) \/ (Hauls(s) /\ Here(node', i, s.to, s.new))
                         => i \in M
    <3> DEFINE x == <<s.path, s.name>>
               y == <<s.to, s.new>>
    <3>1. x \in Touches(s) /\ x[1] = s.path /\ x[2] = s.name
      BY <1>1, TouchesIs
    <3>2. Hauls(s) => y \in Touches(s) /\ y[1] = s.to /\ y[2] = s.new
      BY <1>1, TouchesIs
    <3> HIDE DEF x, y
    <3> QED BY <2>2, <3>1, <3>2
  <2>5. AloneIn(node', s, M)
    BY <2>4 DEF AloneIn
  <2> QED BY <2>2, <2>3, <2>5 DEF Behind
<1>4. CASE s.at # "idle" /\ ~Overlaps(r, s)
  <2>1. s.path \in Paths /\ s.name \in Names /\ s.to \in Paths /\ s.new \in Names
    BY <1>1 DEF FileRequests
  <2>2. Calm(node, node', s.path, s.name)
    <3>1. Apart(s.path, s.name, T)
      BY <1>1, <1>4, TouchesIs, NoOverlap DEF StepOf
    <3> QED BY <3>1, <2>1, Elsewhere DEF StepOf
  <2>3. Hauls(s) => Calm(node, node', s.to, s.new)
    <3> SUFFICES ASSUME Hauls(s) PROVE Calm(node, node', s.to, s.new)
      OBVIOUS
    <3>1. Apart(s.to, s.new, T)
      BY <1>1, <1>4, TouchesIs, NoOverlap DEF StepOf
    <3> QED BY <3>1, <2>1, Elsewhere DEF StepOf
  <2>5. AloneIn(node', s, M)
    <3> SUFFICES ASSUME NEW i \in Nodes \ M, s.obj # 0, IsFile(node', i),
                        \/ Here(node', i, s.path, s.name)
                        \/ Lags(s) /\ Hauls(s) /\ Here(node', i, s.to, s.new)
                 PROVE  i = s.obj
      BY DEF AloneIn
    <3>1. /\ node'[i] = node[i]
          /\ Here(node, i, s.path, s.name) \/ (Lags(s) /\ Hauls(s) /\ Here(node, i, s.to, s.new))
      BY <2>2, <2>3 DEF Calm
    <3>2. IsFile(node, i) /\ i \in Nodes \ loose
      BY <3>1, <1>1 DEF IsFile, Alive
    <3> QED BY <1>0, <1>4, <3>1, <3>2 DEF AloneIn, Served
  <2>6. ASSUME Writes(s), s.obj \notin M PROVE InHand(node', s)
    <3>1. InHand(node, s)
      BY <1>0, <1>1, <2>6
    <3>2. s.info \in Nodes
      BY <1>1, <2>6 DEF Writes, FileRequests
    <3> QED BY <3>1, <3>2, <2>2 DEF Calm, InHand, IsInfo, Alive
  <2>7. ASSUME s.obj \notin M \cup {0} PROVE InPlace(node', s)
    <3>0. s.obj \in Nodes /\ s.obj < next
      BY <1>0, <1>1, <2>7 DEF Spare, FileRequests
    <3>1. InPlace(node, s)
      BY <1>0, <1>1, <2>7
    <3>2. CASE ~Alive(node, s.obj)
      <4>1. ~Alive(node', s.obj)
        BY <3>0, <3>2 DEF StepOf
      <4> QED BY <3>1, <3>2, <4>1 DEF InPlace, Here
    <3>3. CASE Alive(node, s.obj)
      <4>1. node'[s.obj] = node[s.obj]
        BY <3>0, <3>1, <3>3, <2>2, <2>3 DEF Calm, InPlace
      <4>2. IsFile(node', s.obj) <=> IsFile(node, s.obj)
        BY <4>1 DEF IsFile, Alive
      <4>3. /\ Here(node, s.obj, s.path, s.name) => Here(node', s.obj, s.path, s.name)
            /\ Hauls(s) /\ Here(node, s.obj, s.to, s.new) => Here(node', s.obj, s.to, s.new)
        BY <3>0, <2>2, <2>3 DEF Calm
      <4> QED BY <3>1, <3>3, <4>1, <4>2, <4>3 DEF InPlace
    <3> QED BY <3>2, <3>3
  <2>8. ASSUME NEW k \in Nodes, Behind(node, s, k) PROVE node'[k] = node[k] /\ Behind(node', s, k)
    BY <2>2, <2>8 DEF Calm, Behind
  <2> QED BY <2>5, <2>6, <2>7, <2>8
<1> QED BY <1>2, <1>3, <1>4

-----------------------------------------------------------------------------
(* From one step to the invariant *)

\* Files other than b, and not in M, have their side entries as before.
Undisturbed(nd, nx, cm, M, b) ==
    /\ \A k \in Nodes : IsSide(nx, k) /\ nx[k].of \notin M \cup {b} =>
          /\ nx[k] = nd[k]
          /\ NearTo(nd, k) => NearTo(nx, k)
    /\ \A o \in Nodes \ (M \cup {b}) : IsFile(nx, o) /\ cm[o] # NoComment =>
          /\ IsFile(nd, o)
          /\ \A k \in Nodes : IsInfo(nd, k) /\ nd[k].of = o => nx[k] = nd[k]

\* The file b of a request, which is q after the step, has its side entries
\* with it, and they tell its comment.
Trails(nx, q, b) ==
    \A k \in Nodes : IsSide(nx, k) /\ nx[k].of = b =>
        NearTo(nx, k) \/ (q.obj = b /\ Behind(nx, q, k))

Tells(nx, q, cm, b) ==
    /\ \A k \in Nodes : IsInfo(nx, k) /\ nx[k].of = b =>
          nx[k].text = cm[b] \/ (q.obj = b /\ Writes(q) /\ q.info = k)
    /\ IsFile(nx, b) /\ cm[b] # NoComment => \E k \in Nodes : IsInfo(nx, k) /\ nx[k].of = b

Followed(nx, q, cm, b) == Trails(nx, q, b) /\ Tells(nx, q, cm, b)

\* No other file lies where the request found its own.
AloneThere(nd, r, L) ==
    \A i \in Nodes \ L :
        Served(r) /\ r.obj # 0 /\ IsFile(nd, i) /\ Here(nd, i, r.path, r.name) => i = r.obj

\* What lies beside a file that is not loose after a step is its own: otherwise
\* the file was caught.
LEMMA OwnNext ==
    ASSUME NEW M, Slack(M), FilesTypeOK', Owned(node', loose'),
           Near(node', req', M), \A e \in Conns : AloneThere(node', req'[e], M)
    PROVE  Own(node', loose')
<1> SUFFICES ASSUME NEW i \in Nodes \ loose', IsFile(node', i), NEW k \in Nodes \ {i},
                    Alive(node', k), node'[i].dir = node'[k].dir, node'[i].name = node'[k].name
             PROVE  IsSide(node', k) /\ node'[k].of = i
  BY DEF Own
<1>1. i \notin M /\ i \notin Caught(node', M)
  BY DEF Slack
<1>2. \A j \in Nodes \ {i} : Alive(node', j) /\ node'[i].dir = node'[j].dir /\ node'[i].name = node'[j].name
         => /\ ~IsFile(node', j)
            /\ node'[j].of = i \/ node'[j].of \notin M
  BY <1>1 DEF Caught, Objects, Beside, IsFile, Alive
<1>3. node'[k] \in NodeRec
  BY DEF FilesTypeOK
<1>4. IsSide(node', k)
  BY <1>2, <1>3 DEF IsSide, IsFile, NodeRec, Forks
<1>5. ASSUME node'[k].of # i PROVE FALSE
  <2> DEFINE o == node'[k].of
  <2>1. o \notin M /\ o # 0 /\ o \in Nodes
    BY <1>2, <1>3, <1>4, <1>5 DEF Owned, NodeRec, Root
  <2>2. CASE NearTo(node', k)
    BY <1>2, <1>5, <2>1, <2>2 DEF NearTo, IsFile
  <2>3. ASSUME NEW e \in Conns, req'[e].obj = o, Behind(node', req'[e], k) PROVE FALSE
    <3>1. Here(node', i, req'[e].path, req'[e].name) /\ Lags(req'[e])
      BY <2>3, NeighbourHere DEF Behind, IsFile
    <3>2. Served(req'[e])
      BY <3>1 DEF Lags, Served
    <3> QED BY <1>1, <1>5, <2>1, <2>3, <3>1, <3>2 DEF AloneThere
  <2> QED BY <1>4, <2>1, <2>2, <2>3 DEF Near
<1> QED BY <1>4, <1>5

\* A step of c leaves the requests of the others in order.
OthersKept(c, r, M) ==
    /\ r = req[c] \/ (r = req'[c] /\ ~Served(req[c]))
    /\ Slack(M)
    /\ \A e \in Conns \ {c} :
          /\ req'[e] = req[e]
          /\ AloneIn(node', req'[e], M)
          /\ req'[e].obj \notin M \cup {0} => InPlace(node', req'[e])
          /\ Writes(req'[e]) /\ req'[e].obj \notin M => InHand(node', req'[e])
          /\ \A k \in Nodes : req[e].obj \notin M /\ node'[k] = node[k]
                            /\ Behind(node, req[e], k) => Behind(node', req'[e], k)

\* A step at the places of its request does.
LEMMA OthersKeep ==
    ASSUME FilesInv, NEW c \in Conns, NEW r, NEW M, NEW T, NEW D, StepOf(c, r, M, T, D)
    PROVE  OthersKept(c, r, M)
<1>1. \A e \in Conns \ {c} : /\ req'[e] = req[e]
                             /\ AloneIn(node', req'[e], M)
                             /\ req'[e].obj \notin M \cup {0} => InPlace(node', req'[e])
                             /\ Writes(req'[e]) /\ req'[e].obj \notin M => InHand(node', req'[e])
                             /\ \A k \in Nodes : req[e].obj \notin M /\ Behind(node, req[e], k) =>
                                   node'[k] = node[k] /\ Behind(node', req'[e], k)
  BY Others DEF StepOf
<1> QED BY <1>1 DEF OthersKept, StepOf

\* If a step leaves the other requests in order, disturbs no file that it is not
\* about, and leaves its own file in a proper state, it keeps the invariant.
LEMMA CombinedFine ==
    ASSUME FilesInv, NEW c \in Conns, NEW r, NEW M, OthersKept(c, r, M),
           NEW q, q = req'[c],
           FilesTypeOK', Unique(node'), Spare', Owned(node', loose'), SaneIn(q), Rivals(req', M),
           \A o \in Nodes \ {r.obj} : comment'[o] = comment[o],
           Undisturbed(node, node', comment, M, r.obj),
           r.obj \notin M \cup {0} => Trails(node', q, r.obj),
           r.obj \notin loose' \cup {0} => Tells(node', q, comment', r.obj),
           AloneThere(node', q, M), AloneIn(node', q, loose'),
           q.obj \notin loose' \cup {0} => InPlace(node', q),
           Writes(q) /\ q.obj \notin loose' => InHand(node', q)
    PROVE  FilesInv'
<1>0. /\ FilesTypeOK /\ Owned(node, loose) /\ (\A e \in Conns : SaneIn(req[e]))
      /\ Near(node, req, loose) /\ Texts(node, req, comment, loose) /\ Noted(node, comment, loose)
  BY DEF FilesInv
<1>1. loose \subseteq M /\ M \subseteq loose' /\ loose' = M \cup Caught(node', M)
  BY DEF OthersKept, Slack
<1>2. \A e \in Conns \ {c} : /\ req'[e] = req[e]
                             /\ AloneIn(node', req'[e], M)
                             /\ req'[e].obj \notin M \cup {0} => InPlace(node', req'[e])
                             /\ Writes(req'[e]) /\ req'[e].obj \notin M => InHand(node', req'[e])
                             /\ \A k \in Nodes : req[e].obj \notin M /\ node'[k] = node[k]
                                               /\ Behind(node, req[e], k) => Behind(node', req'[e], k)
  BY DEF OthersKept
<1>3. /\ Alone(node', req', loose')
      /\ \A e \in Conns : AloneThere(node', req'[e], M)
  BY <1>1, <1>2 DEF Alone, AloneIn, AloneThere
<1>4. Placed(node', req', loose')
  BY <1>1, <1>2 DEF Placed
<1>5. Handles(node', req', loose')
  BY <1>1, <1>2 DEF Handles
<1>6. \A e \in Conns : Lags(req[e]) \/ Writes(req[e]) => e # c \/ req[e].obj = r.obj
  <2>1. CASE r = req[c]
    BY <2>1
  <2>2. CASE ~Served(req[c])
    BY <2>2 DEF Served, Lags, Writes
  <2> QED BY <2>1, <2>2 DEF OthersKept
<1>7. ASSUME NEW k \in Nodes, IsSide(node', k) PROVE node'[k].of # 0 /\ node'[k].of \in Nodes
  BY <1>7 DEF Owned, FilesTypeOK, NodeRec, Root
<1>8. Near(node', req', M)
  <2> SUFFICES ASSUME NEW k \in Nodes, IsSide(node', k), node'[k].of \notin M
               PROVE  \/ NearTo(node', k)
                      \/ \E e \in Conns : req'[e].obj = node'[k].of /\ Behind(node', req'[e], k)
    BY DEF Near
  <2>1. CASE node'[k].of = r.obj
    BY <1>7, <2>1 DEF Trails
  <2>2. CASE node'[k].of # r.obj
    <3>1. node'[k] = node[k] /\ (NearTo(node, k) => NearTo(node', k))
      BY <2>2 DEF Undisturbed
    <3>2. IsSide(node, k) /\ node[k].of \notin loose
      BY <3>1, <1>1 DEF IsSide, Alive
    <3>3. CASE NearTo(node, k)
      BY <3>1, <3>3
    <3>4. ASSUME NEW e \in Conns, req[e].obj = node[k].of, Behind(node, req[e], k)
          PROVE  \E x \in Conns : req'[x].obj = node'[k].of /\ Behind(node', req'[x], k)
      <4>1. e # c
        BY <1>6, <2>2, <3>1, <3>4 DEF Behind
      <4> QED BY <1>2, <3>1, <3>4, <4>1
    <3> QED BY <1>0, <3>2, <3>3, <3>4 DEF Near
  <2> QED BY <2>1, <2>2
<1>9. Texts(node', req', comment', loose')
  <2> SUFFICES ASSUME NEW k \in Nodes, IsInfo(node', k), node'[k].of \notin loose'
               PROVE  \/ node'[k].text = comment'[node'[k].of]
                      \/ \E e \in Conns : req'[e].obj = node'[k].of /\ Writes(req'[e]) /\ req'[e].info = k
    BY DEF Texts
  <2>0. IsSide(node', k)
    BY DEF IsSide, IsInfo
  <2>1. CASE node'[k].of = r.obj
    BY <1>7, <2>0, <2>1 DEF Tells
  <2>2. CASE node'[k].of # r.obj
    <3>1. node'[k] = node[k]
      BY <1>1, <2>0, <2>2 DEF Undisturbed
    <3>2. IsInfo(node, k) /\ node[k].of \notin loose
      BY <3>1, <1>1 DEF IsInfo, Alive
    <3>3. CASE node[k].text = comment[node[k].of]
      BY <1>7, <2>0, <2>2, <3>1, <3>3
    <3>4. ASSUME NEW e \in Conns, req[e].obj = node[k].of, Writes(req[e]), req[e].info = k
          PROVE  \E x \in Conns : req'[x].obj = node'[k].of /\ Writes(req'[x]) /\ req'[x].info = k
      <4>1. e # c
        BY <1>6, <2>2, <3>1, <3>4
      <4> QED BY <1>2, <3>1, <3>4, <4>1
    <3> QED BY <1>0, <3>2, <3>3, <3>4 DEF Texts
  <2> QED BY <2>1, <2>2
<1>10. Noted(node', comment', loose')
  <2> SUFFICES ASSUME NEW o \in Nodes \ loose', IsFile(node', o), comment'[o] # NoComment
               PROVE  \E k \in Nodes : IsInfo(node', k) /\ node'[k].of = o
    BY DEF Noted
  <2>1. CASE o = r.obj
    BY <2>1, RootApart DEF Tells, Root
  <2>2. CASE o # r.obj
    <3>1. comment[o] # NoComment
      BY <2>2
    <3>2. IsFile(node, o) /\ \A k \in Nodes : IsInfo(node, k) /\ node[k].of = o => node'[k] = node[k]
      BY <1>1, <2>2, <3>1 DEF Undisturbed
    <3>3. PICK k \in Nodes : IsInfo(node, k) /\ node[k].of = o
      BY <1>0, <1>1, <3>1, <3>2 DEF Noted
    <3> QED BY <3>2, <3>3 DEF IsInfo, Alive
  <2> QED BY <2>1, <2>2
<1>11. Own(node', loose')
  BY <1>3, <1>8, OwnNext DEF OthersKept
<1>12. Near(node', req', loose') /\ Rivals(req', loose') /\ Contest(node', req', loose')
  <2>1. Near(node', req', loose')
    BY <1>1, <1>8 DEF Near
  <2>2. Rivals(req', loose')
    BY <1>1 DEF Rivals
  <2>3. Contest(node', req', loose')
    BY <1>1 DEF Contest, OthersKept, Slack
  <2> QED BY <2>1, <2>2, <2>3
<1>13. \A e \in Conns : SaneIn(req'[e])
  BY <1>0, <1>2
<1> QED BY <1>3, <1>4, <1>5, <1>9, <1>10, <1>11, <1>12, <1>13 DEF FilesInv

\* The same from the places that the step is at.
LEMMA Combined ==
    ASSUME FilesInv, NEW c \in Conns, NEW r, NEW M, NEW T, NEW D, StepOf(c, r, M, T, D),
           NEW q, q = req'[c],
           FilesTypeOK', Unique(node'), Spare', Owned(node', loose'), SaneIn(q), Rivals(req', M),
           \A o \in Nodes \ {r.obj} : comment'[o] = comment[o],
           Undisturbed(node, node', comment, M, r.obj),
           r.obj \notin M \cup {0} => Followed(node', q, comment', r.obj),
           AloneIn(node', q, M),
           q.obj \notin M \cup {0} => InPlace(node', q),
           Writes(q) /\ q.obj \notin M => InHand(node', q)
    PROVE  FilesInv'
<1>1. M \subseteq loose'
  BY DEF StepOf, Slack
<1>2. AloneThere(node', q, M) /\ AloneIn(node', q, loose')
  BY <1>1 DEF AloneThere, AloneIn
<1>3. OthersKept(c, r, M)
  BY OthersKeep
<1> QED BY <1>1, <1>2, <1>3, CombinedFine DEF Followed

\* Two requests are about the same places.
Alike(r, q) == /\ r.op = q.op /\ r.path = q.path /\ r.name = q.name
               /\ r.to = q.to /\ r.new = q.new /\ r.obj = q.obj

\* Requests that are alike have the same places.
LEMMA AlikeTouches ==
    ASSUME NEW r, NEW q, Alike(r, q) PROVE Touches(r) = Touches(q)
  BY DEF Alike, Touches

\* A request that goes on, or ends, brings no new rivalry.
LEMMA RivalsStep ==
    ASSUME FilesInv, NEW c \in Conns, NEW r, r = req[c], Served(r), NEW q, q = req'[c],
           Alike(r, q) \/ ~Served(q), \A e \in Conns \ {c} : req'[e] = req[e],
           NEW M, loose \subseteq M
    PROVE  Rivals(req', M)
<1>1. Rivals(req, loose)
  BY DEF FilesInv
<1>2. Alike(r, q) => \A s : (Overlaps(q, s) <=> Overlaps(r, s)) /\ (Overlaps(s, q) <=> Overlaps(s, r))
  BY AlikeTouches DEF Overlaps
<1>3. Alike(r, q) => q.obj = r.obj
  BY DEF Alike
<1> QED BY <1>1, <1>2, <1>3 DEF Rivals

\* A step without effect on files loosens none.
LEMMA QuietSlack ==
    ASSUME FilesInv, NEW c \in Conns, NEW r, r = req[c], Served(r), NEW q, q = req'[c],
           Alike(r, q) \/ ~Served(q), \A e \in Conns \ {c} : req'[e] = req[e],
           node' = node, loose' = loose
    PROVE  Slack(loose)
<1>1. Contest(node, req, loose) /\ Own(node, loose) /\ FilesTypeOK
  BY DEF FilesInv
<1>2. Alike(r, q) => /\ \A s : (Overlaps(q, s) <=> Overlaps(r, s)) /\ (Overlaps(s, q) <=> Overlaps(s, r))
                     /\ Touches(r) = Touches(q) /\ q.obj = r.obj
  BY AlikeTouches DEF Overlaps, Alike
<1>3. Contest(node, req', loose)
  BY <1>1, <1>2 DEF Contest
<1>4. Caught(node, loose) \subseteq loose
  BY <1>1 DEF Caught, Objects, Own, Beside, IsFile, IsSide, Alive
<1> QED BY <1>1, <1>3, <1>4 DEF Slack, FilesTypeOK

\* Where entries are as before, a step is local and disturbs nothing.
LEMMA SameNodes ==
    ASSUME node' = node, NEW M, NEW b
    PROVE  Local(node, node', {}, {}) /\ Undisturbed(node, node', comment, M, b)
<1>1. Local(node, node', {}, {})
  BY DEF Local
<1>2. Undisturbed(node, node', comment, M, b)
  BY DEF Undisturbed
<1> QED BY <1>1, <1>2

\* What the invariant says of the file of a request.
LEMMA FollowedNow ==
    ASSUME FilesInv, NEW c \in Conns, NEW r, r = req[c], Served(r), r.obj \notin loose \cup {0}
    PROVE  /\ Followed(node, r, comment, r.obj)
           /\ \A e \in Conns \ {c} : Served(req[e]) => req[e].obj # r.obj /\ ~Overlaps(r, req[e])
<1>0. /\ Near(node, req, loose) /\ Texts(node, req, comment, loose)
      /\ Noted(node, comment, loose) /\ Rivals(req, loose) /\ FilesTypeOK
  BY DEF FilesInv
<1>1. r.obj \in Nodes
  BY <1>0 DEF FilesTypeOK, FileRequests
<1>2. \A e \in Conns \ {c} : Served(req[e]) => req[e].obj # r.obj /\ ~Overlaps(r, req[e])
  BY <1>0 DEF Rivals
<1>3. \A e \in Conns : Lags(req[e]) \/ Writes(req[e]) => Served(req[e])
  BY DEF Lags, Writes, Served
<1>4. \A k \in Nodes : IsSide(node, k) /\ node[k].of = r.obj => NearTo(node, k) \/ Behind(node, r, k)
  BY <1>0, <1>2, <1>3 DEF Near, Behind
<1>5. \A k \in Nodes : IsInfo(node, k) /\ node[k].of = r.obj =>
         node[k].text = comment[r.obj] \/ (Writes(r) /\ r.info = k)
  BY <1>0, <1>2, <1>3 DEF Texts
<1>6. IsFile(node, r.obj) /\ comment[r.obj] # NoComment =>
         \E k \in Nodes : IsInfo(node, k) /\ node[k].of = r.obj
  BY <1>0, <1>1 DEF Noted
<1> QED BY <1>2, <1>4, <1>5, <1>6 DEF Followed, Trails, Tells

-----------------------------------------------------------------------------
(* Requests that go on or end *)

\* A connection that waits has nothing to do and no file.
LEMMA NoneIsRequest ==
    /\ NoRequest \in FileRequests /\ ~Served(NoRequest) /\ SaneIn(NoRequest)
    /\ NoRequest.obj = 0 /\ NoRequest.info = 0
    /\ ~Lags(NoRequest) /\ ~Writes(NoRequest)
<1>1. (CHOOSE n \in Names : TRUE) \in Names
  BY NamesAssumption
<1>2. Gone.name \in Names
  BY <1>1 DEF Gone
<1>3. NoRequest \in FileRequests
  BY <1>2, PathsAssumption DEF NoRequest, FileRequests
<1>4. /\ NoRequest.at = "idle" /\ NoRequest.obj = 0 /\ NoRequest.info = 0
      /\ NoRequest.op = "none"
  BY DEF NoRequest
<1> QED BY <1>3, <1>4 DEF Served, SaneIn, Lags, Writes, Forks

\* An entry that is gone is of the type of entries.
LEMMA GoneIs == Gone \in NodeRec /\ Gone.of = 0 /\ Gone.dir = Root /\ Gone.kind = "none"
<1>1. (CHOOSE n \in Names : TRUE) \in Names
  BY NamesAssumption
<1> QED BY <1>1 DEF Gone, NodeRec, Forks

\* The request r of c becomes q.
Becomes(c, r, q) ==
    /\ r = req[c] /\ Served(r) /\ q \in FileRequests
    /\ req' = [req EXCEPT ![c] = q]
    /\ Alike(r, q) \/ q = NoRequest
    /\ SaneIn(q) /\ q.info < next'

\* A request that ends becomes none.
LEMMA EndIs ==
    ASSUME NEW c \in Conns, End(c), Served(req[c]), next' \in Nat \ {0}
    PROVE  Becomes(c, req[c], NoRequest)
  BY NoneIsRequest DEF End, Becomes

\* A request that goes on is the same one, at its next step.
LEMMA GoIs ==
    ASSUME FilesInv, NEW c \in Conns, NEW f, Go(c, f), Served(req[c])
    PROVE  \E q : /\ req' = [req EXCEPT ![c] = q] /\ Alike(req[c], q)
                  /\ q = [req[c] EXCEPT !.at = f]
                  /\ q.at = f /\ q.kind = req[c].kind /\ q.text = req[c].text
                  /\ q.info = req[c].info
<1> DEFINE q == [req[c] EXCEPT !.at = f]
<1>1. req[c] \in FileRequests
  BY DEF FilesInv, FilesTypeOK
<1>2. req' = [req EXCEPT ![c] = q]
  BY DEF Go
<1>3. Alike(req[c], q) /\ q.at = f /\ q.kind = req[c].kind /\ q.text = req[c].text /\ q.info = req[c].info
  BY <1>1 DEF Alike, FileRequests
<1> QED BY <1>2, <1>3

\* What a step that changes one request says of all of them.
LEMMA BecomesTells ==
    ASSUME FilesInv, NEW c \in Conns, NEW r, NEW q, Becomes(c, r, q)
    PROVE  /\ req'[c] = q /\ r \in FileRequests /\ SaneIn(r)
           /\ \A e \in Conns \ {c} : req'[e] = req[e]
           /\ req' \in [Conns -> FileRequests]
           /\ q.obj \in {0, r.obj}
           /\ Alike(r, q) \/ ~Served(q)
  BY NoneIsRequest DEF Becomes, FilesInv, FilesTypeOK, Alike

\* A step that only changes the request.
LEMMA Quiet ==
    ASSUME FilesInv, NEW c \in Conns, NEW r, NEW q, Becomes(c, r, q),
           UNCHANGED <<node, next, left, comment, loose, makers>>,
           AloneIn(node, q, loose),
           q.obj \notin loose \cup {0} => InPlace(node, q),
           Writes(q) /\ q.obj \notin loose => InHand(node, q),
           r.obj \notin loose \cup {0} => Followed(node, q, comment, r.obj)
    PROVE  FilesInv'
<1>0. FilesTypeOK /\ Unique(node) /\ Spare /\ Owned(node, loose)
  BY DEF FilesInv
<1>1. /\ req'[c] = q /\ (\A e \in Conns \ {c} : req'[e] = req[e])
      /\ req' \in [Conns -> FileRequests] /\ r \in FileRequests
      /\ q.obj \in {0, r.obj} /\ (Alike(r, q) \/ ~Served(q)) /\ r = req[c] /\ Served(r)
  BY BecomesTells DEF Becomes
<1>2. Slack(loose)
  BY <1>1, QuietSlack
<1>3. Rivals(req', loose)
  BY <1>1, RivalsStep
<1>4. FilesTypeOK'
  BY <1>0, <1>1 DEF FilesTypeOK
<1>5. Spare'
  <2>1. \A e \in Conns : req'[e].obj < next /\ req'[e].info < next
    BY <1>0, <1>1 DEF Spare, FilesTypeOK, Becomes
  <2> QED BY <1>0, <2>1 DEF Spare
<1>6. StepOf(c, r, loose, {}, {})
  BY <1>1, <1>2, SameNodes DEF StepOf, Alive
<1>7. Undisturbed(node, node', comment, loose, r.obj)
  BY SameNodes
<1> QED BY <1>0, <1>1, <1>3, <1>4, <1>5, <1>6, <1>7, Combined DEF Becomes

\* A request ends that has nothing left to do for its file.
LEMMA FollowedEnd ==
    ASSUME NEW nd, NEW r, NEW q, NEW cm, NEW b, Followed(nd, r, cm, b), ~Lags(r), ~Writes(r)
    PROVE  Followed(nd, q, cm, b)
  BY DEF Followed, Trails, Tells, Behind

\* A request ends that has changed nothing it would have to put right.
LEMMA QuietEnd ==
    ASSUME FilesInv, NEW c \in Conns, End(c), Served(req[c]), ~Lags(req[c]), ~Writes(req[c]),
           UNCHANGED <<node, next, left, comment, loose, makers>>
    PROVE  FilesInv'
<1>1. Becomes(c, req[c], NoRequest)
  BY EndIs, BoundAssumption DEF FilesInv, FilesTypeOK
<1>2. AloneIn(node, NoRequest, loose)
  BY NoneIsRequest DEF AloneIn
<1>3. ASSUME req[c].obj \notin loose \cup {0} PROVE Followed(node, NoRequest, comment, req[c].obj)
  BY <1>3, FollowedNow, FollowedEnd
<1> QED BY <1>1, <1>2, <1>3, Quiet, NoneIsRequest

\* A request that may not rename ends.
LEMMA RenameDeniedKeeps ==
    ASSUME FilesInv, NEW c \in Conns, RenameDenied(c) PROVE FilesInv'
<1>1. req[c].at = "rename"
  BY DEF RenameDenied
<1>2. Served(req[c]) /\ ~Lags(req[c]) /\ ~Writes(req[c])
  BY <1>1 DEF Served, Lags, Writes
<1> QED BY <1>2, QuietEnd DEF RenameDenied

\* The invariant asks the same of a request in two steps before its file is
\* moved.
LEMMA SameStage ==
    ASSUME NEW nd, NEW r, NEW q, Alike(r, q), r.kind = q.kind, Served(r),
           ~Lags(r), ~Lags(q), NEW L
    PROVE  /\ AloneIn(nd, r, L) => AloneIn(nd, q, L)
           /\ InPlace(nd, r) => InPlace(nd, q)
  BY DEF AloneIn, InPlace, Alike, Hauls

\* A request goes over to renaming entry by entry.
LEMMA RenameFileKeeps ==
    ASSUME FilesInv, NEW c \in Conns, RenameFile(c) PROVE FilesInv'
<1> DEFINE r == req[c]
<1>0. /\ r.at = "rename" /\ Go(c, "data") /\ UNCHANGED <<node, next, left, comment, loose, makers>>
      /\ r \in FileRequests /\ SaneIn(r) /\ AloneIn(node, r, loose) /\ FilesTypeOK /\ Spare
      /\ (r.obj \notin loose \cup {0} => InPlace(node, r))
  BY DEF RenameFile, FilesInv, FilesTypeOK, Alone, Placed
<1>1. Served(r) /\ ~Lags(r) /\ ~Writes(r)
  BY <1>0 DEF Served, Lags, Writes
<1>2. PICK q : /\ req' = [req EXCEPT ![c] = q] /\ Alike(r, q)
               /\ q = [r EXCEPT !.at = "data"]
               /\ q.at = "data" /\ q.kind = r.kind /\ q.text = r.text /\ q.info = r.info
  BY <1>0, <1>1, GoIs
<1>3. ~Lags(q) /\ ~Writes(q) /\ Served(q)
  BY <1>2 DEF Lags, Writes, Served
<1>4. SaneIn(q) /\ q \in FileRequests
  <2>1. r.op = "setinfo" /\ q.op = r.op /\ q.obj = r.obj
    BY <1>0, <1>2 DEF SaneIn, Alike
  <2>2. q \in FileRequests
    BY <1>0, <1>2 DEF FileRequests, Forks
  <2> QED BY <1>0, <1>2, <2>1, <2>2 DEF SaneIn
<1>5. Becomes(c, r, q)
  BY <1>0, <1>1, <1>2, <1>4 DEF Becomes, Spare
<1>6. AloneIn(node, q, loose) /\ (q.obj \notin loose \cup {0} => InPlace(node, q))
  BY <1>0, <1>1, <1>2, <1>3, SameStage DEF Alike
<1>7. ASSUME r.obj \notin loose \cup {0} PROVE Followed(node, q, comment, r.obj)
  BY <1>1, <1>7, FollowedNow, FollowedEnd
<1> QED BY <1>0, <1>3, <1>5, <1>6, <1>7, Quiet

-----------------------------------------------------------------------------
(* Requests that begin *)

\* What is declared loose has been given a number.
LEMMA LooseFresh ==
    ASSUME FilesInv, NEW M, Slack(M), NEW L, Known(M, L), next \in Nat, next' \in Nat, next <= next',
           L \subseteq Nodes, \A i \in L : i < next',
           \A i \in Nodes : i >= next' => node'[i] = Gone,
           \A c \in Conns : req'[c].obj < next'
    PROVE  (\A i \in loose' : i < next') /\ loose' \subseteq Nodes
<1>0. Spare /\ FilesTypeOK
  BY DEF FilesInv
<1>1. \A i \in Nodes : i \in Nat
  BY DEF Nodes
<1>2. \A i \in Nodes : Alive(node', i) => i < next'
  BY <1>1, GoneIs DEF Alive
<1>3. ASSUME NEW i \in M PROVE i < next' /\ i \in Nodes
  <2>1. i \in Nodes /\ i \in Nat
    BY <1>1 DEF Slack
  <2>2. CASE i \in loose \cup L
    BY <2>1, <2>2, <1>0 DEF Spare
  <2>3. ASSUME NEW c \in Conns, i = req[c].obj \/ i = req'[c].obj PROVE i < next'
    BY <2>1, <2>3, <1>0 DEF Spare
  <2>4. CASE Alive(node', i)
    BY <1>2, <2>1, <2>4
  <2> QED BY <2>1, <2>2, <2>3, <2>4 DEF Known
<1>4. \A i \in Caught(node', M) : i \in Nodes /\ Alive(node', i)
  BY DEF Caught, Objects, Alive
<1> QED BY <1>2, <1>3, <1>4 DEF Slack

\* A request that begins about the file of another one overlaps with that one.
LEMMA RivalsBegin ==
    ASSUME FilesInv, NEW c \in Conns, NEW r, NEW M, NEW T, NEW D, StepOf(c, r, M, T, D),
           r = req'[c], ~Served(req[c]), ~Lags(r), r.obj # 0 => InPlace(node', r)
    PROVE  Rivals(req', M)
<1>1. /\ Contest(node', req', M) /\ Rivals(req, loose) /\ loose \subseteq M
      /\ FilesTypeOK /\ r \in FileRequests /\ Served(r)
      /\ \A e \in Conns \ {c} : req'[e] = req[e]
  BY DEF StepOf, Slack, FilesInv
<1>2. ASSUME NEW e \in Conns \ {c}, Served(req[e]), Overlaps(r, req[e]) \/ r.obj = req[e].obj
      PROVE  r.obj \in M \cup {0} /\ req[e].obj \in M \cup {0}
  <2> DEFINE s == req[e]
  <2>0. s \in FileRequests /\ s = req'[e]
    BY <1>1 DEF FilesTypeOK
  <2>1. CASE Overlaps(r, s)
    BY <1>1, <1>2, <2>0, <2>1, OverlapsEither DEF Contest
  <2>2. CASE r.obj = s.obj /\ s.obj \notin M \cup {0}
    <3>1. InPlace(node', s) /\ InPlace(node', r)
      BY <2>2, Others
    <3>2. Here(node', s.obj, r.path, r.name) /\ Alive(node', s.obj)
      BY <2>2, <3>1 DEF InPlace, Here
    <3>3. Here(node', s.obj, s.path, s.name) \/ (Hauls(s) /\ Here(node', s.obj, s.to, s.new))
      BY <3>1, <3>2 DEF InPlace
    <3>4. r.path \in Paths /\ s.path \in Paths /\ s.to \in Paths
      BY <1>1, <2>0 DEF FileRequests
    <3>5. <<r.path, r.name>> = <<s.path, s.name>> \/ (Hauls(s) /\ <<r.path, r.name>> = <<s.to, s.new>>)
      BY <3>2, <3>3, <3>4, SamePlace
    <3>6. <<r.path, r.name>> \in Touches(r) \cap Touches(s)
      BY <1>1, <2>0, <3>5, TouchesIs
    <3> QED BY <2>1, <3>6 DEF Overlaps
  <2> QED BY <1>2, <2>1, <2>2
<1>3. ASSUME NEW d \in Conns, NEW e \in Conns, d # e, Served(req'[d]), Served(req'[e]),
             Overlaps(req'[d], req'[e]) \/ req'[d].obj = req'[e].obj
      PROVE  req'[d].obj \in M \cup {0}
  <2>1. CASE d = c
    BY <1>1, <1>2, <1>3, <2>1
  <2>2. CASE e = c
    BY <1>1, <1>2, <1>3, <2>2, OverlapsEither
  <2>3. CASE d # c /\ e # c
    BY <1>1, <1>3, <2>3 DEF Rivals
  <2> QED BY <2>1, <2>2, <2>3
<1> QED BY <1>3 DEF Rivals

\* A request that begins without a change to entries keeps the invariant.
LEMMA Begun ==
    ASSUME FilesInv, NEW c \in Conns, Ready(c), NEW r \in FileRequests, Begin(c, r),
           UNCHANGED <<node, next, comment, makers>>,
           Served(r), SaneIn(r), ~Lags(r), ~Writes(r), r.obj < next, r.info < next,
           r.obj # 0 => InPlace(node, r)
    PROVE  FilesInv'
<1>0. /\ FilesTypeOK /\ Unique(node) /\ Spare /\ Owned(node, loose)
      /\ Near(node, req, loose) /\ Texts(node, req, comment, loose)
      /\ Noted(node, comment, loose) /\ Own(node, loose)
  BY DEF FilesInv
<1>1. /\ req' = [req EXCEPT ![c] = r] /\ left' = left - 1 /\ Loosen({})
      /\ left > 0 /\ ~Served(req[c])
  BY DEF Begin, Ready, Served
<1>2. /\ req' \in [Conns -> FileRequests] /\ req'[c] = r
      /\ \A e \in Conns \ {c} : req'[e] = req[e]
  BY <1>0, <1>1 DEF FilesTypeOK
<1>3. PICK M : Slack(M) /\ Known(M, {})
  BY <1>0, <1>1, <1>2, Loosened
<1>4. (\A i \in loose' : i < next) /\ loose' \subseteq Nodes
  <2>1. next \in Nat /\ next' = next /\ node' = node
    BY <1>0, BoundAssumption DEF FilesTypeOK
  <2>2. \A e \in Conns : req'[e].obj < next
    BY <1>0, <1>2 DEF Spare
  <2> QED BY <1>0, <1>3, <2>1, <2>2, LooseFresh DEF Spare
<1>5. FilesTypeOK'
  <2>1. left' \in 0 .. MaxRequests
    BY <1>0, <1>1, BoundAssumption DEF FilesTypeOK
  <2> QED BY <1>0, <1>2, <1>4, <2>1 DEF FilesTypeOK
<1>6. Spare'
  BY <1>0, <1>2, <1>4 DEF Spare
<1>7. StepOf(c, r, M, {}, {})
  BY <1>1, <1>2, <1>3, SameNodes DEF StepOf, Alive
<1>8. Rivals(req', M)
  BY <1>1, <1>2, <1>7, RivalsBegin
<1>9. Undisturbed(node, node', comment, M, r.obj)
  BY SameNodes
<1>10. loose \subseteq M /\ Owned(node', loose')
  BY <1>0, <1>3, OwnedMore DEF Slack
<1>11. AloneIn(node, r, M)
  <2> SUFFICES ASSUME NEW i \in Nodes \ M, r.obj # 0, IsFile(node, i), Here(node, i, r.path, r.name)
               PROVE  i = r.obj
    BY DEF AloneIn
  <2>1. r.obj \in Nodes /\ IsFile(node, r.obj) /\ Here(node, r.obj, r.path, r.name)
    BY DEF InPlace, FileRequests
  <2>2. node[i].dir = node[r.obj].dir /\ node[i].name = node[r.obj].name
    BY <1>0, <2>1, Neighbours DEF FileRequests
  <2>3. ~IsSide(node, r.obj) /\ Alive(node, r.obj)
    BY <2>1 DEF IsFile, IsSide
  <2> QED BY <1>0, <1>10, <2>1, <2>2, <2>3 DEF Own
<1>12. ASSUME r.obj \notin M \cup {0} PROVE Followed(node, r, comment, r.obj)
  <2>1. \A e \in Conns : Lags(req[e]) \/ Writes(req[e]) => req[e].obj # r.obj
    <3> SUFFICES ASSUME NEW e \in Conns, Lags(req[e]) \/ Writes(req[e]), req[e].obj = r.obj PROVE FALSE
      OBVIOUS
    <3>1. Served(req[e])
      BY DEF Lags, Writes, Served
    <3>2. e # c
      BY <1>1, <3>1
    <3> QED BY <1>2, <1>8, <1>12, <3>1, <3>2 DEF Rivals
  <2>2. r.obj \in Nodes /\ r.obj \notin loose
    BY <1>10, <1>12 DEF FileRequests
  <2>3. \A k \in Nodes : IsSide(node, k) /\ node[k].of = r.obj => NearTo(node, k)
    BY <1>0, <2>1, <2>2 DEF Near, Behind
  <2>4. \A k \in Nodes : IsInfo(node, k) /\ node[k].of = r.obj => node[k].text = comment[r.obj]
    BY <1>0, <2>1, <2>2 DEF Texts
  <2>5. IsFile(node, r.obj) /\ comment[r.obj] # NoComment =>
           \E k \in Nodes : IsInfo(node, k) /\ node[k].of = r.obj
    BY <1>0, <2>2 DEF Noted
  <2> QED BY <2>3, <2>4, <2>5 DEF Followed, Trails, Tells
<1> QED BY <1>0, <1>2, <1>5, <1>6, <1>7, <1>8, <1>9, <1>10, <1>11, <1>12, Combined

\* A file that a request finds is in place for it.
LEMMA BeginsAt ==
    ASSUME FilesInv, NEW p \in Paths, NEW n, NEW f \in {"data", "incomplete"}, NEW i \in At(p, n, f)
    PROVE  /\ i \in Nodes /\ i < next /\ i # 0
           /\ IsFile(node, i) /\ Here(node, i, p, n) /\ node[i].fork = f
           /\ node[i].kind \in {"file", "folder"}
<1>0. FilesTypeOK /\ Spare
  BY DEF FilesInv
<1>1. i \in Nodes /\ Here(node, i, p, n) /\ node[i].fork = f
  BY AtIs
<1>2. Alive(node, i)
  BY <1>1 DEF Here
<1>3. i < next
  BY <1>0, <1>1, <1>2, GoneIs, BoundAssumption DEF Spare, Alive, Nodes, FilesTypeOK
<1>4. node[i].kind \in {"none", "file", "folder"}
  BY <1>0, <1>1 DEF FilesTypeOK, NodeRec
<1> QED BY <1>1, <1>2, <1>3, <1>4, RootApart DEF IsFile, Alive, Root

\* HandleSetFileInfo begins.
LEMMA SetFileInfoKeeps ==
    ASSUME FilesInv, NEW c \in Conns, Ready(c), NEW p \in Paths, NEW n \in Names,
           NEW cm \in Comments \cup {Keep}, NEW m \in Names, SetFileInfo(c, p, n, cm, m)
    PROVE  FilesInv'
<1>1. PICK i \in At(p, n, "data") :
        /\ UNCHANGED <<node, next, comment, makers>>
        /\ Begin(c, [op |-> "setinfo", path |-> p, name |-> n, to |-> p, new |-> m,
                     kind |-> node[i].kind, text |-> cm,
                     at |-> IF cm = Keep THEN "rename" ELSE "open",
                     obj |-> i, info |-> 0])
  BY DEF SetFileInfo
<1> DEFINE r == [op |-> "setinfo", path |-> p, name |-> n, to |-> p, new |-> m,
                 kind |-> node[i].kind, text |-> cm,
                 at |-> IF cm = Keep THEN "rename" ELSE "open",
                 obj |-> i, info |-> 0]
<1>2. /\ i \in Nodes /\ i < next /\ i # 0 /\ IsFile(node, i) /\ Here(node, i, p, n)
      /\ node[i].fork = "data" /\ node[i].kind \in {"file", "folder"}
  BY BeginsAt
<1>3. r \in FileRequests
  BY <1>2 DEF FileRequests
<1>4. /\ r.op = "setinfo" /\ r.path = p /\ r.name = n /\ r.kind = node[i].kind
      /\ r.at \in {"rename", "open"} /\ (r.at = "open" => r.text \in Comments)
      /\ r.obj = i /\ r.info = 0
  OBVIOUS
<1>5. Begin(c, r)
  BY <1>1
<1> HIDE DEF r
<1>6. Served(r) /\ SaneIn(r) /\ ~Lags(r) /\ ~Writes(r)
  BY <1>2, <1>4 DEF Served, SaneIn, Lags, Writes, Forks
<1>7. InPlace(node, r)
  BY <1>2, <1>4, <1>6 DEF InPlace
<1>8. 0 < next
  BY BoundAssumption DEF FilesInv, FilesTypeOK
<1> QED BY <1>1, <1>2, <1>3, <1>4, <1>5, <1>6, <1>7, <1>8, Begun

\* DataFile finds data or a partial upload.
LEMMA DataFileIs ==
    ASSUME NEW p, NEW n, NEW i \in DataFile(p, n)
    PROVE  \E f \in {"data", "incomplete"} : i \in At(p, n, f)
  BY DEF DataFile

\* HandleMoveFile begins.
LEMMA MoveFileKeeps ==
    ASSUME FilesInv, NEW c \in Conns, Ready(c), NEW p \in Paths, NEW n \in Names,
           NEW to \in Paths, MoveFile(c, p, n, to)
    PROVE  FilesInv'
<1>1. PICK i \in DataFile(p, n) :
        /\ UNCHANGED <<node, next, comment, makers>>
        /\ Begin(c, [op |-> "move", path |-> p, name |-> n, to |-> to, new |-> n,
                     kind |-> node[i].kind, text |-> Keep, at |-> "data",
                     obj |-> i, info |-> 0])
  BY DEF MoveFile
<1> DEFINE r == [op |-> "move", path |-> p, name |-> n, to |-> to, new |-> n,
                 kind |-> node[i].kind, text |-> Keep, at |-> "data",
                 obj |-> i, info |-> 0]
<1>2. /\ i \in Nodes /\ i < next /\ i # 0 /\ IsFile(node, i) /\ Here(node, i, p, n)
      /\ node[i].kind \in {"file", "folder"}
  BY BeginsAt, DataFileIs
<1>3. r \in FileRequests
  BY <1>2 DEF FileRequests, Forks
<1>4. /\ r.op = "move" /\ r.path = p /\ r.name = n /\ r.kind = node[i].kind
      /\ r.at = "data" /\ r.obj = i /\ r.info = 0
  OBVIOUS
<1>5. Begin(c, r)
  BY <1>1
<1> HIDE DEF r
<1>6. Served(r) /\ SaneIn(r) /\ ~Lags(r) /\ ~Writes(r)
  BY <1>2, <1>4 DEF Served, SaneIn, Lags, Writes, Forks
<1>7. InPlace(node, r)
  BY <1>2, <1>4, <1>6 DEF InPlace
<1>8. 0 < next
  BY BoundAssumption DEF FilesInv, FilesTypeOK
<1> QED BY <1>1, <1>2, <1>3, <1>4, <1>5, <1>6, <1>7, <1>8, Begun

\* HandleDeleteFile begins.
LEMMA DeleteFileKeeps ==
    ASSUME FilesInv, NEW c \in Conns, Ready(c), NEW p \in Paths, NEW n \in Names, DeleteFile(c, p, n)
    PROVE  FilesInv'
<1>1. PICK i \in DataFile(p, n) :
        /\ UNCHANGED <<node, next, comment, makers>>
        /\ Begin(c, [op |-> "delete", path |-> p, name |-> n, to |-> p, new |-> n,
                     kind |-> node[i].kind, text |-> Keep, at |-> "data",
                     obj |-> i, info |-> 0])
  BY DEF DeleteFile
<1> DEFINE r == [op |-> "delete", path |-> p, name |-> n, to |-> p, new |-> n,
                 kind |-> node[i].kind, text |-> Keep, at |-> "data",
                 obj |-> i, info |-> 0]
<1>2. /\ i \in Nodes /\ i < next /\ i # 0 /\ IsFile(node, i) /\ Here(node, i, p, n)
      /\ node[i].kind \in {"file", "folder"}
  BY BeginsAt, DataFileIs
<1>3. r \in FileRequests
  BY <1>2 DEF FileRequests, Forks
<1>4. /\ r.op = "delete" /\ r.path = p /\ r.name = n /\ r.kind = node[i].kind
      /\ r.at = "data" /\ r.obj = i /\ r.info = 0
  OBVIOUS
<1>5. Begin(c, r)
  BY <1>1
<1> HIDE DEF r
<1>6. Served(r) /\ SaneIn(r) /\ ~Lags(r) /\ ~Writes(r)
  BY <1>2, <1>4 DEF Served, SaneIn, Lags, Writes, Forks
<1>7. InPlace(node, r)
  BY <1>2, <1>4, <1>6 DEF InPlace
<1>8. 0 < next
  BY BoundAssumption DEF FilesInv, FilesTypeOK
<1> QED BY <1>1, <1>2, <1>3, <1>4, <1>5, <1>6, <1>7, <1>8, Begun

\* HandleNewFolder has looked, and finds nothing.
LEMMA NewFolderKeeps ==
    ASSUME FilesInv, NEW c \in Conns, Ready(c), NEW p \in Paths, NEW n \in Names, NewFolder(c, p, n)
    PROVE  FilesInv'
<1> DEFINE r == [op |-> "newfolder", path |-> p, name |-> n, to |-> p, new |-> n,
                 kind |-> "folder", text |-> Keep, at |-> "mkdir",
                 obj |-> 0, info |-> 0]
<1>1. Begin(c, r) /\ UNCHANGED <<node, next, comment, makers>>
  BY DEF NewFolder
<1>3. r \in FileRequests
  BY DEF FileRequests, Forks
<1>4. r.op = "newfolder" /\ r.at = "mkdir" /\ r.obj = 0 /\ r.info = 0
  OBVIOUS
<1> HIDE DEF r
<1>6. Served(r) /\ SaneIn(r) /\ ~Lags(r) /\ ~Writes(r)
  BY <1>4 DEF Served, SaneIn, Lags, Writes, Forks
<1>8. 0 < next
  BY BoundAssumption DEF FilesInv, FilesTypeOK
<1> QED BY <1>1, <1>3, <1>4, <1>6, <1>8, Begun

-----------------------------------------------------------------------------
(* Renaming an entry *)

\* Entry x, fork f at (p, n), becomes fork g under the name m in folder d, which is q.
Shifted(nd, nx, x, d, p, n, f, q, m, g) ==
    /\ x \in Nodes /\ Here(nd, x, p, n) /\ nd[x].fork = f
    /\ d \in FolderIn(nd, q)
    /\ nx \in [Nodes -> NodeRec]
    /\ nx[x] = [nd[x] EXCEPT !.dir = d, !.name = m, !.fork = g]
    /\ \A y \in Nodes \ {x} :
          IF Here(nd, y, q, m) /\ nd[y].fork = g THEN nx[y] = Gone /\ nd[y].kind # "folder"
          ELSE nx[y] = nd[y]
    /\ nd[x].kind = "folder" => x # d /\ \A y \in Nodes : ~(Here(nd, y, q, m) /\ nd[y].fork = g)

\* A rename that succeeds takes one entry to its new place.
LEMMA EntryMoved ==
    ASSUME FilesInv, NEW p \in Paths, NEW n \in Names, NEW f \in Forks,
           NEW q \in Paths, NEW m \in Names, NEW g \in Forks,
           RenameResult(p, n, f, q, m, g) = "ok", RenameEntry(p, n, f, q, m, g)
    PROVE  \E x, d : Shifted(node, node', x, d, p, n, f, q, m, g)
<1> DEFINE src == At(p, n, f)
           dst == At(q, m, g)
<1>0. FilesTypeOK /\ Unique(node)
  BY DEF FilesInv
<1>1. /\ src # {}
      /\ \A j \in dst : node[j].kind # "folder"
      /\ Folder(q) # {}
      /\ \A i \in src : node[i].kind = "folder" => dst = {} /\ i \notin Folder(q)
  BY DEF RenameResult
<1>2. PICK x \in src : TRUE
  BY <1>1
<1>3. x \in Nodes /\ Here(node, x, p, n) /\ node[x].fork = f
  BY <1>2, AtIs
<1>4. \A y \in src : y = x
  <2> SUFFICES ASSUME NEW y \in src PROVE y = x
    OBVIOUS
  <2>1. y \in Nodes /\ Here(node, y, p, n) /\ node[y].fork = f
    BY AtIs
  <2>2. node[x].dir = node[y].dir /\ node[x].name = node[y].name
    BY <1>0, <1>3, <2>1, Neighbours
  <2> QED BY <1>0, <1>3, <2>1, <2>2 DEF Unique, Here
<1> DEFINE d == CHOOSE e \in Folder(q) : TRUE
<1>5. d \in Folder(q) /\ Folder(q) = FolderIn(node, q)
  BY <1>1 DEF Folder, FolderIn
<1>6. d \in {Root} \cup Nodes
  BY <1>5, FolderIs
<1>7. \A y \in Nodes : y \in dst <=> Here(node, y, q, m) /\ node[y].fork = g
  BY AtIs
<1>8. node' = [i \in Nodes |->
                  CASE i \in src -> [node[i] EXCEPT !.dir = d, !.name = m, !.fork = g]
                    [] i \in dst \ src -> Gone
                    [] OTHER -> node[i]]
  BY DEF RenameEntry, Replaced
<1> HIDE DEF d, src, dst
<1>9. node'[x] = [node[x] EXCEPT !.dir = d, !.name = m, !.fork = g]
  BY <1>2, <1>3, <1>8
<1>10. \A y \in Nodes \ {x} : node'[y] = IF y \in dst THEN Gone ELSE node[y]
  BY <1>4, <1>8
<1>11. node' \in [Nodes -> NodeRec]
  <2>1. [node[x] EXCEPT !.dir = d, !.name = m, !.fork = g] \in NodeRec
    <3>1. \A z \in NodeRec : [z EXCEPT !.dir = d, !.name = m, !.fork = g] \in NodeRec
      BY <1>6 DEF NodeRec
    <3> QED BY <1>0, <1>3, <3>1 DEF FilesTypeOK
  <2>2. \A y \in Nodes : node'[y] \in NodeRec
    BY <1>0, <1>9, <1>10, <2>1, GoneIs DEF FilesTypeOK
  <2>3. DOMAIN node' = Nodes /\ node' = [y \in Nodes |-> node'[y]]
    BY <1>8
  <2> QED BY <2>2, <2>3
<1>12. \A y \in Nodes \ {x} :
          IF Here(node, y, q, m) /\ node[y].fork = g THEN node'[y] = Gone /\ node[y].kind # "folder"
          ELSE node'[y] = node[y]
  BY <1>1, <1>7, <1>10
<1>13. node[x].kind = "folder" => x # d /\ \A y \in Nodes : ~(Here(node, y, q, m) /\ node[y].fork = g)
  BY <1>1, <1>2, <1>5, <1>7
<1>14. Shifted(node, node', x, d, p, n, f, q, m, g)
  BY <1>3, <1>5, <1>9, <1>11, <1>12, <1>13 DEF Shifted
<1> QED BY <1>14

\* It is local, leaves folders where they are, and no two entries at one place.
LEMMA ShiftedTells ==
    ASSUME FilesInv, NEW p \in Paths, NEW n \in Names, NEW f \in Forks,
           NEW q \in Paths, NEW m \in Names, NEW g \in Forks, NEW x, NEW d,
           Shifted(node, node', x, d, p, n, f, q, m, g), f = g \/ (f = "incomplete" /\ g = "data")
    PROVE  /\ Local(node, node', {<<p, n>>, <<q, m>>}, {})
           /\ \A y \in Nodes : ~Alive(node, y) => node'[y] = node[y]
           /\ Unique(node') /\ Owned(node', loose)
           /\ FolderIn(node', p) = FolderIn(node, p)
           /\ FolderIn(node', q) = FolderIn(node, q)
           /\ \A y \in Nodes : node'[y].of < next /\ node'[y].dir < next
           /\ \A y \in Nodes : y >= next => node'[y] = Gone
<1>0. FilesTypeOK /\ Unique(node) /\ Owned(node, loose) /\ Spare
  BY DEF FilesInv
<1>1. /\ x \in Nodes /\ Here(node, x, p, n) /\ node[x].fork = f /\ Alive(node, x)
      /\ d \in FolderIn(node, q) /\ node[x] \in NodeRec
  BY <1>0 DEF Shifted, Here, FilesTypeOK
<1>2. /\ node'[x].dir = d /\ node'[x].name = m /\ node'[x].fork = g
      /\ node'[x].kind = node[x].kind /\ node'[x].of = node[x].of /\ node'[x].text = node[x].text
  BY <1>1 DEF Shifted, NodeRec
<1>3. \A y \in Nodes \ {x} :
         \/ node'[y] = node[y] /\ ~(Here(node, y, q, m) /\ node[y].fork = g)
         \/ node'[y] = Gone /\ node[y].kind # "folder" /\ Here(node, y, q, m) /\ node[y].fork = g
  BY DEF Shifted
<1>4. Local(node, node', {<<p, n>>, <<q, m>>}, {})
  <2> DEFINE t == <<p, n>>
             u == <<q, m>>
  <2>1. t[1] = p /\ t[2] = n /\ u[1] = q /\ u[2] = m /\ {t, u} \subseteq Paths \X Names
    OBVIOUS
  <2> HIDE DEF t, u
  <2>2. ASSUME NEW y \in Nodes, node'[y] # node[y]
        PROVE  /\ Alive(node, y) => \E w \in {t, u} : Here(node, y, w[1], w[2])
               /\ Alive(node', y) => \E w \in {t, u} : node'[y].dir \in FolderIn(node, w[1])
                                                       /\ node'[y].name = w[2]
    <3>1. CASE y = x
      BY <1>1, <1>2, <2>1, <3>1
    <3>2. CASE y # x
      BY <1>3, <2>1, <2>2, <3>2, GoneIs DEF Alive
    <3> QED BY <3>1, <3>2
  <2> QED BY <2>1, <2>2 DEF Local, t, u
<1>5. \A y \in Nodes : ~Alive(node, y) => node'[y] = node[y]
  BY <1>1, <1>3 DEF Here
<1>6. Unique(node')
  <2>1. ASSUME NEW y \in Nodes \ {x}, Alive(node', y), node'[y].dir = node'[x].dir,
               node'[y].name = node'[x].name, node'[y].fork = node'[x].fork
        PROVE  FALSE
    <3>1. node'[y] = node[y] /\ ~(Here(node, y, q, m) /\ node[y].fork = g)
      BY <1>3, <2>1, GoneIs DEF Alive
    <3> QED BY <1>1, <1>2, <2>1, <3>1 DEF Here, Alive
  <2>2. ASSUME NEW y \in Nodes \ {x}, NEW z \in Nodes \ {x}, Alive(node', y), Alive(node', z),
               node'[y].dir = node'[z].dir, node'[y].name = node'[z].name, node'[y].fork = node'[z].fork
        PROVE  y = z
    <3>1. node'[y] = node[y] /\ node'[z] = node[z]
      BY <1>3, <2>2, GoneIs DEF Alive
    <3> QED BY <1>0, <2>2, <3>1 DEF Unique, Alive
  <2> QED BY <2>1, <2>2 DEF Unique
<1>7. Owned(node', loose)
  <2>1. \A y \in Nodes : node'[y].kind = node[y].kind \/ node'[y].kind = "none"
    BY <1>2, <1>3, GoneIs
  <2>2. ASSUME NEW k \in Nodes, IsSide(node', k)
        PROVE  IsSide(node, k) /\ node'[k].of = node[k].of /\ node'[k].fork = node[k].fork
    BY <1>1, <1>2, <1>3, <2>2, GoneIs DEF IsSide, Alive
  <2>3. ASSUME NEW k \in Nodes, IsSide(node', k) PROVE node[k].of \in Nodes
    BY <1>0, <2>2, <2>3 DEF Owned, FilesTypeOK, NodeRec, Root
  <2> QED BY <1>0, <2>1, <2>2, <2>3 DEF Owned
<1>8. FolderIn(node', p) = FolderIn(node, p)
  <2>1. ASSUME NEW e \in FolderIn(node, p) PROVE e \in FolderIn(node', p)
    <3>1. CASE e = Root
      BY <2>1, <3>1, FolderIs, RootApart
    <3>2. CASE e # Root
      <4>1. PICK a \in Names : /\ p = <<a>> /\ e \in Nodes /\ node[e].kind = "folder"
                               /\ node[e].dir = Root /\ node[e].name = a /\ node[e].fork = "data"
        BY <2>1, <3>2, FolderIs
      <4>2. e # x
        BY <1>1, <4>1, FolderIs, RootApart DEF Here
      <4> QED BY <1>3, <4>1, <4>2, FolderIs
    <3> QED BY <3>1, <3>2
  <2>2. ASSUME NEW e \in FolderIn(node', p) PROVE e \in FolderIn(node, p)
    <3>1. CASE e = Root
      BY <2>2, <3>1, FolderIs, RootApart
    <3>2. CASE e # Root
      <4>1. PICK a \in Names : /\ p = <<a>> /\ e \in Nodes /\ node'[e].kind = "folder"
                               /\ node'[e].dir = Root /\ node'[e].name = a /\ node'[e].fork = "data"
        BY <2>2, <3>2, FolderIs
      <4>2. CASE e = x
        <5>1. d = Root /\ m = a /\ g = "data" /\ node[x].kind = "folder"
          BY <1>2, <4>1, <4>2
        <5>2. q = <<>>
          BY <1>1, <5>1, FolderIs, RootApart
        <5>3. PICK z : z \in FolderIn(node, p)
          BY <1>1 DEF Here
        <5>4. /\ z \in Nodes /\ node[z].kind = "folder" /\ node[z].dir = Root
              /\ node[z].name = a /\ node[z].fork = "data"
          BY <4>1, <5>3, FolderIs
        <5>5. Here(node, z, q, m)
          BY <1>1, <5>1, <5>4 DEF Here, Alive
        <5> QED BY <5>1, <5>4, <5>5 DEF Shifted
      <4>3. CASE e # x
        BY <1>3, <4>1, <4>3, FolderIs, GoneIs
      <4> QED BY <4>2, <4>3
    <3> QED BY <3>1, <3>2
  <2> QED BY <2>1, <2>2
<1>9. FolderIn(node', q) = FolderIn(node, q)
  <2>1. ASSUME NEW e \in FolderIn(node, q) PROVE e \in FolderIn(node', q)
    <3>1. CASE e = Root
      BY <2>1, <3>1, FolderIs, RootApart
    <3>2. CASE e # Root
      <4>1. PICK a \in Names : /\ q = <<a>> /\ e \in Nodes /\ node[e].kind = "folder"
                               /\ node[e].dir = Root /\ node[e].name = a /\ node[e].fork = "data"
        BY <2>1, <3>2, FolderIs
      <4>2. e = d
        BY <1>0, <1>1, <2>1, OneFolder
      <4>3. e # x
        BY <4>1, <4>2 DEF Shifted
      <4> QED BY <1>3, <4>1, <4>3, FolderIs
    <3> QED BY <3>1, <3>2
  <2>2. ASSUME NEW e \in FolderIn(node', q) PROVE e \in FolderIn(node, q)
    <3>1. CASE e = Root
      BY <2>2, <3>1, FolderIs, RootApart
    <3>2. CASE e # Root
      <4>1. PICK a \in Names : /\ q = <<a>> /\ e \in Nodes /\ node'[e].kind = "folder"
                               /\ node'[e].dir = Root /\ node'[e].name = a /\ node'[e].fork = "data"
        BY <2>2, <3>2, FolderIs
      <4>2. e # x
        BY <1>1, <1>2, <4>1, FolderIs, RootApart
      <4> QED BY <1>3, <4>1, <4>2, FolderIs, GoneIs
    <3> QED BY <3>1, <3>2
  <2> QED BY <2>1, <2>2
<1>10. d < next /\ 0 < next
  <2>1. next \in Nat /\ next > 0
    BY <1>0, BoundAssumption DEF FilesTypeOK
  <2>2. d = 0 \/ (d \in Nodes /\ node[d] # Gone)
    BY <1>1, FolderIs, GoneIs DEF Root
  <2> QED BY <1>0, <2>1, <2>2 DEF Spare, Nodes
<1>11. \A y \in Nodes : node'[y].of < next /\ node'[y].dir < next
  BY <1>0, <1>1, <1>2, <1>3, <1>10, GoneIs DEF Spare, Root
<1>12. \A y \in Nodes : y >= next => node'[y] = Gone
  BY <1>0, <1>1, <1>3, GoneIs DEF Spare, Alive
<1> QED BY <1>4, <1>5, <1>6, <1>7, <1>8, <1>9, <1>11, <1>12

-----------------------------------------------------------------------------
(* A step of a request that is being served *)

\* What a step leaves in order wherever its request is about; L are the files
\* that it gets hold of.
Tidy(L) ==
    /\ node' \in [Nodes -> NodeRec] /\ Unique(node') /\ Owned(node', loose')
    /\ next' \in 1 .. MaxNodes + 1 /\ next <= next' /\ left' = left
    /\ comment' \in [Nodes -> Comments \cup {NoComment}]
    /\ makers' \in [Nodes -> SUBSET Conns]
    /\ L \subseteq Nodes /\ \A i \in L : i < next'
    /\ \A i \in Nodes : i >= next' => node'[i] = Gone /\ comment'[i] = NoComment /\ makers'[i] = {}
    /\ \A i \in Nodes : node'[i].of < next' /\ node'[i].dir < next'

\* Types and numbers are as they should be after a tidy step.
LEMMA TidyFresh ==
    ASSUME FilesInv, NEW M, Slack(M), NEW L, Known(M, L), Tidy(L),
           req' \in [Conns -> FileRequests],
           \A e \in Conns : req'[e].obj < next' /\ req'[e].info < next'
    PROVE  FilesTypeOK' /\ Spare'
<1>0. FilesTypeOK /\ Spare
  BY DEF FilesInv
<1>1. next \in Nat /\ next' \in Nat
  BY <1>0, BoundAssumption DEF FilesTypeOK, Tidy
<1>2. (\A i \in loose' : i < next') /\ loose' \subseteq Nodes
  BY <1>1, LooseFresh DEF Tidy
<1>3. FilesTypeOK'
  BY <1>0, <1>2 DEF FilesTypeOK, Tidy
<1>4. Spare'
  BY <1>2 DEF Spare, Tidy
<1> QED BY <1>3, <1>4

\* A step of a request keeps the invariant if it leaves what other requests are
\* not about undisturbed and its own file in a proper state.
LEMMA WorkedFine ==
    ASSUME FilesInv, NEW c \in Conns, NEW r, NEW q, Becomes(c, r, q),
           NEW M, Slack(M), NEW L, Known(M, L), Tidy(L),
           OthersKept(c, r, M),
           \A o \in Nodes \ {r.obj} : comment'[o] = comment[o],
           Undisturbed(node, node', comment, M, r.obj),
           r.obj \notin M \cup {0} => Trails(node', q, r.obj),
           r.obj \notin loose' \cup {0} => Tells(node', q, comment', r.obj),
           AloneThere(node', q, M), AloneIn(node', q, loose'),
           q.obj \notin loose' \cup {0} => InPlace(node', q),
           Writes(q) /\ q.obj \notin loose' => InHand(node', q)
    PROVE  FilesInv'
<1>0. FilesTypeOK /\ Spare
  BY DEF FilesInv
<1>1. /\ req'[c] = q /\ (\A e \in Conns \ {c} : req'[e] = req[e])
      /\ req' \in [Conns -> FileRequests] /\ r \in FileRequests
      /\ q.obj \in {0, r.obj} /\ (Alike(r, q) \/ ~Served(q)) /\ r = req[c] /\ Served(r)
  BY BecomesTells DEF Becomes
<1>2. \A e \in Conns : req'[e].obj < next' /\ req'[e].info < next'
  <2>0. next \in Nat /\ next' \in Nat /\ next <= next' /\ 0 < next'
    BY <1>0, BoundAssumption DEF FilesTypeOK, Tidy
  <2>1. \A e \in Conns : req[e].obj \in Nat /\ req[e].info \in Nat
    BY <1>0, BoundAssumption DEF FilesTypeOK, FileRequests, Nodes
  <2>2. \A e \in Conns : req[e].obj < next' /\ req[e].info < next'
    BY <1>0, <2>0, <2>1 DEF Spare
  <2>3. q.obj < next' /\ q.info < next'
    BY <1>1, <2>0, <2>2 DEF Becomes
  <2> QED BY <1>1, <2>2, <2>3
<1>3. FilesTypeOK' /\ Spare'
  BY <1>1, <1>2, TidyFresh
<1>4. loose \subseteq M
  BY DEF Slack
<1>5. Rivals(req', M)
  BY <1>1, <1>4, RivalsStep
<1>7. SaneIn(q) /\ Unique(node') /\ Owned(node', loose')
  BY DEF Becomes, Tidy
<1> QED BY <1>1, <1>3, <1>5, <1>7, CombinedFine

\* So does a step that changes entries at the places of its request only.
LEMMA Worked ==
    ASSUME FilesInv, NEW c \in Conns, NEW r, NEW q, Becomes(c, r, q),
           NEW M, Slack(M), NEW L, Known(M, L), Tidy(L),
           NEW T, NEW D, T \subseteq Touches(r), Local(node, node', T, D),
           \A x \in Nodes : ~Alive(node, x) /\ x < next => node'[x] = node[x],
           \A o \in Nodes \ {r.obj} : comment'[o] = comment[o],
           Undisturbed(node, node', comment, M, r.obj),
           r.obj \notin M \cup {0} => Trails(node', q, r.obj),
           r.obj \notin loose' \cup {0} => Tells(node', q, comment', r.obj),
           AloneThere(node', q, M), AloneIn(node', q, loose'),
           q.obj \notin loose' \cup {0} => InPlace(node', q),
           Writes(q) /\ q.obj \notin loose' => InHand(node', q)
    PROVE  FilesInv'
<1>1. /\ req'[c] = q /\ (\A e \in Conns \ {c} : req'[e] = req[e])
      /\ r \in FileRequests /\ r = req[c] /\ Served(r)
  BY BecomesTells DEF Becomes
<1>2. StepOf(c, r, M, T, D)
  BY <1>1 DEF StepOf, Alive
<1>3. OthersKept(c, r, M)
  BY <1>2, OthersKeep
<1> QED BY <1>3, WorkedFine

\* Where entries are as before, a step is tidy.
LEMMA SameTidy ==
    ASSUME FilesInv, UNCHANGED <<node, next, left, comment, makers>>,
           NEW L, L \subseteq Nodes, \A i \in L : i < next, loose \subseteq loose'
    PROVE  Tidy(L)
  BY OwnedMore, BoundAssumption DEF FilesInv, FilesTypeOK, Spare, Tidy

\* A request ends; its file is loose then, or there is nothing left to do for it.
LEMMA Halts ==
    ASSUME FilesInv, NEW c \in Conns, End(c), Served(req[c]),
           UNCHANGED <<node, next, left, comment, makers>>,
           NEW L, L \subseteq {req[c].obj} \ {0}, Loosen(L),
           Lags(req[c]) \/ Writes(req[c]) => req[c].obj \in L
    PROVE  FilesInv'
<1> DEFINE r == req[c]
<1>0. FilesTypeOK /\ Spare
  BY DEF FilesInv
<1>1. Becomes(c, r, NoRequest)
  BY <1>0, EndIs, BoundAssumption DEF FilesTypeOK
<1>2. r \in FileRequests /\ req' \in [Conns -> FileRequests]
  BY <1>1, BecomesTells
<1>3. L \subseteq Nodes /\ \A i \in L : i < next
  BY <1>0, <1>2 DEF FileRequests, Spare
<1>4. PICK M : Slack(M) /\ L \subseteq M /\ Known(M, L)
  BY <1>0, <1>2, <1>3, Loosened
<1>5. Tidy(L)
  BY <1>3, <1>4, SameTidy DEF Slack
<1>6. Local(node, node', {}, {}) /\ Undisturbed(node, node', comment, M, r.obj)
  BY SameNodes
<1>7. ASSUME r.obj \notin M \cup {0} PROVE Followed(node, NoRequest, comment, r.obj)
  BY <1>4, <1>7, FollowedNow, FollowedEnd DEF Slack
<1>8. M \subseteq loose'
  BY <1>4 DEF Slack
<1>9. AloneThere(node', NoRequest, M) /\ AloneIn(node', NoRequest, loose')
  BY NoneIsRequest DEF AloneThere, AloneIn
<1> QED BY <1>1, <1>4, <1>5, <1>6, <1>7, <1>8, <1>9, NoneIsRequest, Worked DEF Followed

\* An upload that breaks off.
LEMMA BreakOffKeeps ==
    ASSUME FilesInv, NEW c \in Conns, BreakOff(c) PROVE FilesInv'
<1>1. /\ req[c].at = "receive" /\ End(c) /\ UNCHANGED <<node, next, left, comment, makers>>
      /\ Loosen({req[c].obj})
  BY DEF BreakOff
<1>2. req[c].obj # 0
  BY <1>1 DEF FilesInv, SaneIn
<1>3. Served(req[c])
  BY <1>1 DEF Served
<1> QED BY <1>1, <1>2, <1>3, Halts

\* Side entries where a request is at work belong to its file or to a loose one.
LEMMA Foreign ==
    ASSUME FilesInv, NEW c \in Conns, NEW r, r = req[c], Served(r), r.obj # 0,
           NEW k \in Nodes, IsSide(node, k),
           Here(node, k, r.path, r.name) \/ (Lags(r) /\ Hauls(r) /\ Here(node, k, r.to, r.new))
    PROVE  node[k].of \in loose \cup {r.obj}
<1>0. /\ FilesTypeOK /\ Unique(node) /\ Owned(node, loose) /\ Near(node, req, loose)
      /\ AloneIn(node, r, loose) /\ Rivals(req, loose) /\ r \in FileRequests
  BY DEF FilesInv, Alone, FilesTypeOK
<1>1. SUFFICES ASSUME node[k].of \notin loose PROVE node[k].of = r.obj
  OBVIOUS
<1>2. node[k].of # 0 /\ node[k].of \in Nodes
  BY <1>0 DEF Owned, FilesTypeOK, NodeRec, Root
<1>3. CASE NearTo(node, k)
  <2> DEFINE o == node[k].of
  <2>1. IsFile(node, o) /\ node[o].dir = node[k].dir /\ node[o].name = node[k].name
    BY <1>3 DEF NearTo
  <2>2. \A p, n : Here(node, k, p, n) => Here(node, o, p, n)
    BY <2>1 DEF Here, IsFile
  <2> HIDE DEF o
  <2> QED BY <1>0, <1>1, <1>2, <2>1, <2>2 DEF AloneIn, o
<1>4. ASSUME NEW e \in Conns, req[e].obj = node[k].of, Behind(node, req[e], k) PROVE node[k].of = r.obj
  <2> DEFINE s == req[e]
  <2>1. s \in FileRequests /\ Here(node, k, s.path, s.name) /\ Served(s)
    BY <1>0, <1>4 DEF FilesTypeOK, Behind, Lags, Served
  <2>2. <<s.path, s.name>> = <<r.path, r.name>> \/ (Hauls(r) /\ <<s.path, s.name>> = <<r.to, r.new>>)
    BY <1>0, <2>1, SamePlace DEF FileRequests
  <2>3. <<s.path, s.name>> \in Touches(r) \cap Touches(s)
    BY <1>0, <2>1, <2>2, TouchesIs
  <2>4. Overlaps(s, r)
    BY <2>3 DEF Overlaps
  <2>5. CASE e # c
    BY <1>0, <1>1, <1>2, <1>4, <2>1, <2>4, <2>5 DEF Rivals
  <2> QED BY <1>4, <2>5
<1> QED BY <1>0, <1>1, <1>3, <1>4 DEF Near

\* What entry x replaces as fork g at (p, m) is in M.
CoveredIn(nd, x, p, m, g, M) ==
    \A y \in Nodes \ {x} : Here(nd, y, p, m) /\ nd[y].fork = g => y \in M

\* Renaming an entry disturbs no file that it is not about.
LEMMA ShiftUndisturbed ==
    ASSUME FilesInv, NEW c \in Conns, NEW r, r = req[c], Served(r), r.obj # 0,
           NEW f \in Forks, NEW g \in Forks, f = g \/ (f = "incomplete" /\ g = "data"),
           NEW p \in Paths, NEW m \in Names, NEW x, NEW d,
           Shifted(node, node', x, d, r.path, r.name, f, p, m, g),
           NEW M, loose \subseteq M,
           (Lags(r) /\ Hauls(r) /\ p = r.to /\ m = r.new) \/ (g = "data" /\ CoveredIn(node, x, p, m, g, M))
    PROVE  Undisturbed(node, node', comment, M, r.obj)
<1>0. FilesTypeOK /\ AloneIn(node, r, loose)
  BY DEF FilesInv, Alone
<1>1. /\ x \in Nodes /\ Here(node, x, r.path, r.name) /\ node[x].fork = f /\ Alive(node, x)
      /\ node[x] \in NodeRec
  BY <1>0 DEF Shifted, Here, FilesTypeOK
<1>2. /\ node'[x].fork = g /\ node'[x].kind = node[x].kind /\ node'[x].of = node[x].of
  BY <1>1 DEF Shifted, NodeRec
<1>3. \A y \in Nodes \ {x} :
         \/ node'[y] = node[y]
         \/ node'[y] = Gone /\ Here(node, y, p, m) /\ node[y].fork = g
  BY DEF Shifted
<1>4. IsFile(node, x) => x \in M \cup {r.obj}
  BY <1>0, <1>1 DEF AloneIn
<1>5. IsSide(node, x) => node[x].of \in M \cup {r.obj}
  BY <1>1, Foreign
<1>6. ASSUME NEW y \in Nodes \ {x}, node'[y] # node[y], IsFile(node, y) PROVE y \in M \cup {r.obj}
  <2>1. Here(node, y, p, m) /\ node[y].fork = g
    BY <1>3, <1>6
  <2> QED BY <1>0, <1>6, <2>1 DEF AloneIn, CoveredIn
<1>7. ASSUME NEW y \in Nodes \ {x}, node'[y] # node[y], IsSide(node, y) PROVE node[y].of \in M \cup {r.obj}
  <2>1. Here(node, y, p, m) /\ node[y].fork = g
    BY <1>3, <1>7
  <2>2. g # "data"
    BY <1>7, <2>1 DEF IsSide
  <2> QED BY <1>7, <2>1, <2>2, Foreign
<1>8. ASSUME NEW k \in Nodes, IsSide(node', k), node'[k].of \notin M \cup {r.obj}
      PROVE  node'[k] = node[k] /\ (NearTo(node, k) => NearTo(node', k))
  <2>1. k # x
    <3>1. IsSide(node', x) => IsSide(node, x)
      BY <1>1, <1>2 DEF IsSide, Alive
    <3> QED BY <1>2, <1>5, <1>8, <3>1
  <2>2. node'[k] = node[k]
    BY <1>3, <1>8, <2>1, GoneIs DEF IsSide, Alive
  <2>3. ASSUME NearTo(node, k) PROVE NearTo(node', k)
    <3>1. IsFile(node, node[k].of) /\ node[k].of \in Nodes
      BY <1>0, <2>3, GoneIs, RootApart, <1>8, <2>2 DEF NearTo, FilesTypeOK, NodeRec, Root, Owned, FilesInv, IsSide, Alive
    <3>2. node'[node[k].of] = node[node[k].of]
      BY <1>4, <1>6, <1>8, <2>2, <3>1
    <3> QED BY <2>2, <2>3, <3>2 DEF NearTo, IsFile, Alive
  <2> QED BY <2>2, <2>3
<1>9. ASSUME NEW o \in Nodes \ (M \cup {r.obj}), IsFile(node', o)
      PROVE  IsFile(node, o)
  <2>1. CASE o = x
    BY <1>1, <1>2, <1>9, <2>1 DEF IsFile, Alive
  <2>2. CASE o # x
    BY <1>3, <1>9, <2>2, GoneIs DEF IsFile, Alive
  <2> QED BY <2>1, <2>2
<1>10. ASSUME NEW o \in Nodes \ (M \cup {r.obj}), NEW k \in Nodes, IsInfo(node, k), node[k].of = o
       PROVE  node'[k] = node[k]
  <2>1. IsSide(node, k)
    BY <1>10 DEF IsSide, IsInfo
  <2> QED BY <1>5, <1>7, <1>10, <2>1
<1> QED BY <1>8, <1>9, <1>10 DEF Undisturbed

-----------------------------------------------------------------------------
(* Moving, an entry at a time *)

\* Request r has dealt with one kind of entry and is q for the next, or over.
Passed(r, q) ==
    /\ r.at \in Forks /\ ~Writes(q)
    /\ \/ r.at = "info" /\ q = NoRequest
       \/ /\ Alike(r, q) /\ q.kind = r.kind /\ Lags(q)
          /\ \/ r.at = "data" /\ q.at = "incomplete"
             \/ r.at = "incomplete" /\ q.at = "rsrc"
             \/ r.at = "rsrc" /\ q.at = "info"

\* What Continue does with the request.
LEMMA Continued ==
    ASSUME FilesInv, NEW c \in Conns, req[c].at \in Forks, Continue(c), next' = next
    PROVE  \E q : Becomes(c, req[c], q) /\ Passed(req[c], q)
<1> DEFINE r == req[c]
<1>0. FilesTypeOK /\ Spare /\ r \in FileRequests /\ SaneIn(r)
  BY DEF FilesInv, FilesTypeOK
<1>1. Served(r)
  BY DEF Served, Forks
<1>2. CASE r.at = "info"
  <2>1. End(c)
    BY <1>2 DEF Continue, After
  <2>2. Becomes(c, r, NoRequest)
    BY <1>0, <1>1, <2>1, EndIs, BoundAssumption DEF FilesTypeOK
  <2> QED BY <1>2, <2>2, NoneIsRequest DEF Passed
<1>3. CASE r.at # "info"
  <2> DEFINE f == After(r.at)
  <2>1. \/ r.at = "data" /\ f = "incomplete"
        \/ r.at = "incomplete" /\ f = "rsrc"
        \/ r.at = "rsrc" /\ f = "info"
    BY <1>3 DEF After, Forks
  <2>2. Go(c, f)
    BY <2>1 DEF Continue
  <2> HIDE DEF f
  <2>3. PICK q : /\ req' = [req EXCEPT ![c] = q] /\ Alike(r, q)
                 /\ q = [r EXCEPT !.at = f]
                 /\ q.at = f /\ q.kind = r.kind /\ q.text = r.text /\ q.info = r.info
    BY <1>1, <2>2, GoIs
  <2>4. r.op \in {"setinfo", "move", "delete"} /\ q.op = r.op /\ q.obj = r.obj
    BY <1>0, <2>3 DEF SaneIn, Alike
  <2>5. q \in FileRequests
    BY <1>0, <2>1, <2>3 DEF FileRequests, Forks
  <2>6. Lags(q) /\ ~Writes(q)
    BY <2>1, <2>3, <2>4 DEF Lags, Writes
  <2>7. SaneIn(q)
    BY <1>0, <2>1, <2>3, <2>4 DEF SaneIn, Forks
  <2>8. Becomes(c, r, q)
    BY <1>0, <1>1, <2>3, <2>5, <2>7 DEF Becomes, Spare
  <2>9. Passed(r, q)
    BY <2>1, <2>3, <2>6 DEF Passed
  <2> QED BY <2>8, <2>9
<1> QED BY <1>2, <1>3

\* The file of a request that is not loose is the only one where it lies.
LEMMA OnlyFile ==
    ASSUME FilesInv, NEW r \in FileRequests, r.obj \notin loose \cup {0}, InPlace(node, r), ~Lags(r),
           NEW x \in Nodes, IsFile(node, x), Here(node, x, r.path, r.name)
    PROVE  x = r.obj
<1>0. Unique(node) /\ Own(node, loose)
  BY DEF FilesInv
<1>1. r.obj \in Nodes /\ Here(node, r.obj, r.path, r.name) /\ IsFile(node, r.obj)
  BY DEF FileRequests, InPlace
<1>2. node[r.obj].dir = node[x].dir /\ node[r.obj].name = node[x].name
  BY <1>0, <1>1, Neighbours DEF FileRequests
<1>3. ~IsSide(node, x) /\ Alive(node, x)
  BY DEF IsSide, IsFile
<1> QED BY <1>0, <1>1, <1>2, <1>3 DEF Own

\* What there is to know before and after a move of entry x, to folder d.
Carried(c, r, q, x, d, M) ==
    /\ r = req[c] /\ Served(r) /\ r.obj # 0 /\ Hauls(r) /\ r.at \in Forks /\ r \in FileRequests
    /\ Becomes(c, r, q) /\ Passed(r, q)
    /\ Shifted(node, node', x, d, r.path, r.name, r.at, r.to, r.new, r.at)
    /\ Slack(M) /\ comment' = comment
    /\ r.at = "data" =>
          \A y \in Nodes \ {x} : Here(node, y, r.to, r.new) /\ node[y].fork = "data" => r.obj \in M

\* The entry that is moved, its file if it is not loose, and the others.
LEMMA CarriedTells ==
    ASSUME FilesInv, NEW c \in Conns, NEW r, NEW q, NEW x, NEW d, NEW M, Carried(c, r, q, x, d, M)
    PROVE  /\ x \in Nodes /\ Here(node, x, r.path, r.name) /\ node[x].fork = r.at /\ Alive(node, x)
           /\ d \in FolderIn(node, r.to) /\ node[x] \in NodeRec
           /\ node'[x].dir = d /\ node'[x].name = r.new /\ node'[x].fork = r.at
           /\ node'[x].kind = node[x].kind /\ node'[x].of = node[x].of /\ node'[x].text = node[x].text
           /\ Alive(node', x) /\ Here(node', x, r.to, r.new)
           /\ \A y \in Nodes \ {x} :
                 \/ node'[y] = node[y] /\ ~(Here(node, y, r.to, r.new) /\ node[y].fork = r.at)
                 \/ ~Alive(node', y) /\ Here(node, y, r.to, r.new) /\ node[y].fork = r.at
           /\ FolderIn(node', r.path) = FolderIn(node, r.path)
           /\ FolderIn(node', r.to) = FolderIn(node, r.to)
<1>0. FilesTypeOK
  BY DEF FilesInv
<1>1. /\ x \in Nodes /\ Here(node, x, r.path, r.name) /\ node[x].fork = r.at /\ Alive(node, x)
      /\ d \in FolderIn(node, r.to) /\ node[x] \in NodeRec
  BY <1>0 DEF Carried, Shifted, Here, FilesTypeOK
<1>2. /\ node'[x].dir = d /\ node'[x].name = r.new /\ node'[x].fork = r.at
      /\ node'[x].kind = node[x].kind /\ node'[x].of = node[x].of /\ node'[x].text = node[x].text
  BY <1>1 DEF Carried, Shifted, NodeRec
<1>3. \A y \in Nodes \ {x} :
         \/ node'[y] = node[y] /\ ~(Here(node, y, r.to, r.new) /\ node[y].fork = r.at)
         \/ ~Alive(node', y) /\ Here(node, y, r.to, r.new) /\ node[y].fork = r.at
  BY GoneIs DEF Carried, Shifted, Alive
<1>4. /\ r.path \in Paths /\ r.name \in Names /\ r.to \in Paths /\ r.new \in Names /\ r.at \in Forks
      /\ Shifted(node, node', x, d, r.path, r.name, r.at, r.to, r.new, r.at)
  BY DEF Carried, FileRequests
<1>5. FolderIn(node', r.path) = FolderIn(node, r.path) /\ FolderIn(node', r.to) = FolderIn(node, r.to)
  BY <1>4, ShiftedTells
<1>6. Alive(node', x) /\ Here(node', x, r.to, r.new)
  BY <1>1, <1>2, <1>5 DEF Alive, Here
<1> QED BY <1>1, <1>2, <1>3, <1>5, <1>6

\* The file itself when a move does not get hold of it: it is the entry that is
\* moved first, and lies at its new place from then on.
LEMMA CarriedFile ==
    ASSUME FilesInv, NEW c \in Conns, NEW r, NEW q, NEW x, NEW d, NEW M, Carried(c, r, q, x, d, M),
           r.obj \notin loose
    PROVE  /\ r.obj \in Nodes
           /\ r.at = "data" => /\ x = r.obj /\ IsFile(node, r.obj)
                               /\ Here(node, r.obj, r.path, r.name) /\ ~Lags(r)
           /\ r.at # "data" => /\ x # r.obj /\ node'[r.obj] = node[r.obj] /\ Lags(r)
                               /\ Here(node, r.obj, r.to, r.new)
           /\ Here(node', r.obj, r.to, r.new) /\ node'[r.obj].fork = "data"
           /\ node'[r.obj].kind = node[r.obj].kind /\ node[r.obj].kind = r.kind
           /\ node[r.obj].fork = "data"
<1>0. /\ r \in FileRequests /\ r.obj # 0 /\ r.at \in Forks /\ Hauls(r) /\ InPlace(node, r)
      /\ r.obj \in Nodes
  BY DEF Carried, FilesInv, Placed, FileRequests
<1>1. /\ x \in Nodes /\ Here(node, x, r.path, r.name) /\ node[x].fork = r.at /\ Alive(node, x)
      /\ node'[x].fork = r.at /\ node'[x].kind = node[x].kind /\ Here(node', x, r.to, r.new)
      /\ \A y \in Nodes \ {x} :
            \/ node'[y] = node[y] /\ ~(Here(node, y, r.to, r.new) /\ node[y].fork = r.at)
            \/ ~Alive(node', y) /\ Here(node, y, r.to, r.new) /\ node[y].fork = r.at
      /\ FolderIn(node', r.to) = FolderIn(node, r.to)
  BY CarriedTells
<1>2. CASE r.at = "data"
  <2>1. ~Lags(r)
    BY <1>2 DEF Lags
  <2>2. IsFile(node, r.obj) /\ Here(node, r.obj, r.path, r.name) /\ node[r.obj].kind = r.kind
    BY <1>0, <2>1 DEF InPlace, IsFile
  <2>3. IsFile(node, x)
    BY <1>1, <1>2 DEF IsFile
  <2>4. x = r.obj
    BY <1>0, <1>1, <2>1, <2>3, OnlyFile
  <2> QED BY <1>0, <1>1, <1>2, <2>1, <2>2, <2>4
<1>3. CASE r.at # "data"
  <2>1. Lags(r)
    BY <1>0, <1>3 DEF Lags, Forks, Hauls
  <2>2. Here(node, r.obj, r.to, r.new) /\ node[r.obj].fork = "data" /\ node[r.obj].kind = r.kind
    BY <1>0, <2>1 DEF InPlace, Here
  <2>3. x # r.obj
    BY <1>1, <1>3, <2>2
  <2>4. node'[r.obj] = node[r.obj]
    BY <1>0, <1>1, <1>3, <2>2, <2>3
  <2>5. Here(node', r.obj, r.to, r.new)
    BY <1>1, <2>2, <2>4 DEF Here, Alive
  <2> QED BY <1>0, <1>3, <2>1, <2>2, <2>3, <2>4, <2>5
<1> QED BY <1>2, <1>3

\* Side entries come along, or are still to be moved.
LEMMA CarriedTrails ==
    ASSUME FilesInv, NEW c \in Conns, NEW r, NEW q, NEW x, NEW d, NEW M, Carried(c, r, q, x, d, M),
           r.obj \notin M
    PROVE  Trails(node', q, r.obj)
<1>0. /\ FilesTypeOK /\ Unique(node) /\ r.obj \notin loose
      /\ r = req[c] /\ Served(r) /\ r.obj # 0 /\ r \in FileRequests
      /\ Passed(r, q) /\ r.at \in Forks
  BY DEF FilesInv, Carried, Slack
<1>1. /\ x \in Nodes /\ Here(node, x, r.path, r.name) /\ node[x].fork = r.at
      /\ Here(node', x, r.to, r.new) /\ node'[x].of = node[x].of /\ node'[x].fork = r.at
      /\ \A y \in Nodes \ {x} :
            \/ node'[y] = node[y] /\ ~(Here(node, y, r.to, r.new) /\ node[y].fork = r.at)
            \/ ~Alive(node', y) /\ Here(node, y, r.to, r.new) /\ node[y].fork = r.at
      /\ FolderIn(node', r.path) = FolderIn(node, r.path)
  BY CarriedTells
<1>2. /\ r.obj \in Nodes
      /\ r.at = "data" => /\ x = r.obj /\ IsFile(node, r.obj)
                          /\ Here(node, r.obj, r.path, r.name) /\ ~Lags(r)
      /\ r.at # "data" => /\ x # r.obj /\ node'[r.obj] = node[r.obj] /\ Lags(r)
      /\ Here(node', r.obj, r.to, r.new) /\ node'[r.obj].fork = "data"
  BY <1>0, CarriedFile
<1>3. Unique(node') /\ r.to \in Paths /\ r.path \in Paths
  BY <1>0, ShiftedTells DEF Carried, FileRequests
<1>4. Followed(node, r, comment, r.obj)
  BY <1>0, FollowedNow
<1> SUFFICES ASSUME NEW k \in Nodes, IsSide(node', k), node'[k].of = r.obj
             PROVE  NearTo(node', k) \/ (q.obj = r.obj /\ Behind(node', q, k))
  BY DEF Trails
<1>5. CASE k = x
  <2>1. node'[k].dir = node'[r.obj].dir /\ node'[k].name = node'[r.obj].name
    BY <1>1, <1>2, <1>3, <1>5, Neighbours
  <2>2. IsFile(node', r.obj)
    BY <1>2 DEF IsFile, Here
  <2> QED BY <2>1, <2>2 DEF NearTo
<1>6. CASE k # x
  <2>1. node'[k] = node[k]
    BY <1>1, <1>6 DEF IsSide
  <2>2. IsSide(node, k) /\ node[k].of = r.obj
    BY <2>1 DEF IsSide, Alive
  <2>3. NearTo(node, k) \/ Behind(node, r, k)
    BY <1>4, <2>2 DEF Followed, Trails
  <2>4. CASE r.at = "data"
    <3>1. NearTo(node, k)
      BY <1>2, <2>3, <2>4 DEF Behind
    <3>2. Here(node, k, r.path, r.name)
      BY <1>2, <2>2, <2>4, <3>1 DEF NearTo, Here, IsSide
    <3>3. Here(node', k, r.path, r.name)
      BY <1>1, <2>1, <3>2 DEF Here, Alive
    <3>4. Alike(r, q) /\ q.at = "incomplete" /\ Lags(q)
      BY <1>0, <2>4 DEF Passed
    <3> QED BY <3>3, <3>4 DEF Behind, Alike
  <2>5. CASE r.at # "data" /\ NearTo(node, k)
    BY <1>2, <2>1, <2>2, <2>5 DEF NearTo, IsFile, Alive
  <2>6. CASE r.at # "data" /\ Behind(node, r, k)
    <3>1. Here(node, k, r.path, r.name) /\ (r.at = "info" => node[k].fork = "info")
      BY <2>6 DEF Behind
    <3>2. Here(node', k, r.path, r.name)
      BY <1>1, <2>1, <3>1 DEF Here, Alive
    <3>3. node[k].fork # r.at
      <4>1. node[k].dir = node[x].dir /\ node[k].name = node[x].name
        BY <1>0, <1>1, <1>3, <3>1, Neighbours
      <4> QED BY <1>0, <1>1, <1>6, <3>1, <4>1 DEF Unique, Here
    <3>4. /\ Alike(r, q) /\ Lags(q) /\ r.at # "info"
          /\ r.at = "rsrc" \/ q.at # "info"
      BY <1>0, <2>6, <3>1, <3>3 DEF Passed
    <3>5. q.at = "info" => node[k].fork = "info"
      BY <2>2, <3>3, <3>4 DEF IsSide
    <3> QED BY <2>1, <3>2, <3>4, <3>5 DEF Behind, Alike
  <2> QED BY <2>3, <2>4, <2>5, <2>6
<1> QED BY <1>5, <1>6

\* No information fork of the file is lost without another one in its stead,
\* unless the file is caught with what belongs to a loose one.
LEMMA CarriedNotes ==
    ASSUME FilesInv, NEW c \in Conns, NEW r, NEW q, NEW x, NEW d, NEW M, Carried(c, r, q, x, d, M),
           r.obj \notin loose'
    PROVE  Tells(node', q, comment', r.obj)
<1>0. /\ FilesTypeOK /\ Unique(node) /\ r.obj \notin loose /\ loose \subseteq M
      /\ loose' = M \cup Caught(node', M) /\ comment' = comment
      /\ r = req[c] /\ Served(r) /\ r.obj # 0 /\ r \in FileRequests /\ r.at \in Forks
  BY DEF FilesInv, Carried, Slack
<1>1. /\ x \in Nodes /\ Here(node, x, r.path, r.name) /\ node[x].fork = r.at /\ Alive(node, x)
      /\ Here(node', x, r.to, r.new) /\ node'[x].of = node[x].of /\ node'[x].fork = r.at
      /\ node'[x].text = node[x].text /\ Alive(node', x)
      /\ \A y \in Nodes \ {x} :
            \/ node'[y] = node[y] /\ ~(Here(node, y, r.to, r.new) /\ node[y].fork = r.at)
            \/ ~Alive(node', y) /\ Here(node, y, r.to, r.new) /\ node[y].fork = r.at
  BY CarriedTells
<1>2. /\ r.obj \in Nodes
      /\ r.at # "data" => x # r.obj
      /\ Here(node', r.obj, r.to, r.new) /\ node'[r.obj].fork = "data"
      /\ node[r.obj].fork = "data" /\ node'[r.obj].kind = node[r.obj].kind
  BY <1>0, CarriedFile
<1>3. Unique(node') /\ r.to \in Paths
  BY <1>0, ShiftedTells DEF Carried, FileRequests
<1>4. Tells(node, r, comment, r.obj) /\ ~Writes(r)
  BY <1>0, FollowedNow DEF Followed, Writes, Forks
<1>5. ASSUME NEW k \in Nodes, IsInfo(node', k), node'[k].of = r.obj
      PROVE  node'[k].text = comment'[r.obj]
  <2>1. IsInfo(node, k) /\ node[k].of = r.obj /\ node'[k].text = node[k].text
    BY <1>1, <1>5 DEF IsInfo, Alive
  <2> QED BY <1>0, <1>4, <2>1 DEF Tells
<1>6. ASSUME IsFile(node', r.obj), comment'[r.obj] # NoComment
      PROVE  \E k \in Nodes : IsInfo(node', k) /\ node'[k].of = r.obj
  <2>1. IsFile(node, r.obj)
    BY <1>2, <1>6 DEF IsFile, Alive
  <2>2. PICK k \in Nodes : IsInfo(node, k) /\ node[k].of = r.obj
    BY <1>0, <1>4, <1>6, <2>1 DEF Tells
  <2>3. CASE k = x
    BY <1>1, <2>2, <2>3 DEF IsInfo
  <2>4. CASE k # x /\ node'[k] = node[k]
    BY <2>2, <2>4 DEF IsInfo, Alive
  <2>5. CASE k # x /\ node'[k] # node[k]
    <3>1. r.at = "info" /\ IsSide(node, x)
      BY <1>1, <2>2, <2>5 DEF IsInfo, IsSide
    <3>2. node[x].of \in loose \cup {r.obj}
      BY <1>0, <1>1, <3>1, Foreign
    <3>3. CASE node[x].of = r.obj
      BY <1>1, <3>1, <3>3 DEF IsInfo
    <3>4. CASE node[x].of # r.obj
      <4>1. node'[r.obj].dir = node'[x].dir /\ node'[r.obj].name = node'[x].name
        BY <1>1, <1>2, <1>3, Neighbours
      <4>2. r.obj \in Objects(node')
        BY <1>2, <1>6 DEF Objects, IsFile, Alive
      <4>3. node'[x].of # r.obj /\ node'[x].of \in M /\ x \in Nodes \ {r.obj}
        BY <1>0, <1>1, <1>2, <3>1, <3>2, <3>4
      <4>4. r.obj \in Caught(node', M)
        BY <1>1, <4>1, <4>2, <4>3 DEF Caught, Beside, Alive
      <4> QED BY <1>0, <4>4
    <3> QED BY <3>3, <3>4
  <2> QED BY <2>3, <2>4, <2>5
<1> QED BY <1>5, <1>6 DEF Tells

\* Where the request goes on, no other file is in the way but loose ones.
LEMMA CarriedAlone ==
    ASSUME FilesInv, NEW c \in Conns, NEW r, NEW q, NEW x, NEW d, NEW M, Carried(c, r, q, x, d, M)
    PROVE  AloneThere(node', q, M) /\ AloneIn(node', q, loose')
<1>0. /\ FilesTypeOK /\ loose \subseteq M /\ loose' = M \cup Caught(node', M)
      /\ r = req[c] /\ Served(r) /\ r.obj # 0 /\ r \in FileRequests /\ r.at \in Forks
      /\ AloneIn(node, r, loose) /\ Passed(r, q) /\ Hauls(r)
  BY DEF FilesInv, Carried, Slack, Alone
<1>1. /\ x \in Nodes /\ Here(node, x, r.path, r.name) /\ node[x].fork = r.at
      /\ Here(node', x, r.to, r.new) /\ node'[x].fork = r.at /\ Alive(node', x) /\ Alive(node, x)
      /\ \A y \in Nodes \ {x} :
            \/ node'[y] = node[y] /\ ~(Here(node, y, r.to, r.new) /\ node[y].fork = r.at)
            \/ ~Alive(node', y) /\ Here(node, y, r.to, r.new) /\ node[y].fork = r.at
      /\ FolderIn(node', r.path) = FolderIn(node, r.path)
      /\ FolderIn(node', r.to) = FolderIn(node, r.to)
  BY CarriedTells
<1>2. Unique(node') /\ r.to \in Paths
  BY <1>0, ShiftedTells DEF Carried, FileRequests
<1>3. CASE q = NoRequest
  BY <1>3, NoneIsRequest DEF AloneThere, AloneIn
<1>4. CASE q # NoRequest
  <2>0. Alike(r, q) /\ q.obj = r.obj /\ q.path = r.path /\ q.name = r.name /\ q.to = r.to /\ q.new = r.new
    BY <1>0, <1>4 DEF Passed, Alike
  <2>1. IsFile(node', x) => x \in loose \cup {r.obj}
    <3>1. IsFile(node', x) => IsFile(node, x)
      BY <1>1 DEF IsFile
    <3> QED BY <1>0, <1>1, <3>1 DEF AloneIn
  <2>2. ASSUME NEW i \in Nodes \ {x}, IsFile(node', i)
        PROVE  /\ node'[i] = node[i] /\ IsFile(node, i)
               /\ Here(node', i, r.path, r.name) => Here(node, i, r.path, r.name)
               /\ Here(node', i, r.to, r.new) => Here(node, i, r.to, r.new) /\ node[i].fork # r.at
    BY <1>1, <2>2 DEF IsFile, Alive, Here
  <2>3. ASSUME NEW i \in Nodes \ M, IsFile(node', i), Here(node', i, r.path, r.name) PROVE i = r.obj
    BY <1>0, <2>1, <2>2, <2>3 DEF AloneIn
  <2>4. ASSUME NEW i \in Nodes \ loose', IsFile(node', i), Here(node', i, r.to, r.new) PROVE i = r.obj
    <3>1. CASE i = x
      BY <1>0, <2>1, <2>4, <3>1
    <3>2. CASE i # x /\ r.at # "data"
      <4>1. Lags(r)
        BY <1>0, <3>2 DEF Lags, Forks, Hauls
      <4> QED BY <1>0, <2>2, <2>4, <3>2, <4>1 DEF AloneIn
    <3>3. CASE i # x /\ r.at = "data"
      <4>1. node'[i].dir = node'[x].dir /\ node'[i].name = node'[x].name
        BY <1>1, <1>2, <2>4, Neighbours
      <4>2. i \in Objects(node')
        BY <2>4 DEF Objects, IsFile, Alive
      <4>3. i \in Caught(node', M)
        BY <1>1, <3>3, <4>1, <4>2 DEF Caught, Beside, Alive
      <4> QED BY <1>0, <2>4, <4>3
    <3> QED BY <3>1, <3>2, <3>3
  <2>5. AloneThere(node', q, M)
    BY <2>0, <2>3 DEF AloneThere
  <2>6. AloneIn(node', q, loose')
    BY <1>0, <2>0, <2>3, <2>4 DEF AloneIn
  <2> QED BY <2>5, <2>6
<1> QED BY <1>3, <1>4

\* An entry is moved.
LEMMA CarriedKeeps ==
    ASSUME FilesInv, NEW c \in Conns, NEW r, NEW q, NEW x, NEW d, NEW M, Carried(c, r, q, x, d, M),
           NEW L, Known(M, L), L \subseteq M, \A i \in L : i < next,
           UNCHANGED <<next, left, makers>>,
           r.at = "data" =>
              \A y \in Nodes \ {x} : Here(node, y, r.to, r.new) /\ node[y].fork = "data" => y \in M
    PROVE  FilesInv'
<1>0. /\ FilesTypeOK /\ Spare /\ Slack(M) /\ loose \subseteq M /\ M \subseteq Nodes
      /\ loose' = M \cup Caught(node', M) /\ comment' = comment
      /\ r = req[c] /\ Served(r) /\ r.obj # 0 /\ r \in FileRequests /\ r.at \in Forks /\ Hauls(r)
      /\ Passed(r, q) /\ Becomes(c, r, q)
  BY DEF FilesInv, Carried, Slack
<1>1. /\ r.path \in Paths /\ r.name \in Names /\ r.to \in Paths /\ r.new \in Names
      /\ Shifted(node, node', x, d, r.path, r.name, r.at, r.to, r.new, r.at)
  BY DEF Carried, FileRequests
<1>2. /\ Local(node, node', {<<r.path, r.name>>, <<r.to, r.new>>}, {})
      /\ \A y \in Nodes : ~Alive(node, y) => node'[y] = node[y]
      /\ Unique(node') /\ Owned(node', loose)
      /\ \A y \in Nodes : node'[y].of < next /\ node'[y].dir < next
      /\ \A y \in Nodes : y >= next => node'[y] = Gone
  BY <1>0, <1>1, ShiftedTells
<1>3. {<<r.path, r.name>>, <<r.to, r.new>>} \subseteq Touches(r)
  BY <1>0, TouchesIs
<1>4. Tidy(L)
  <2>1. node' \in [Nodes -> NodeRec] /\ Owned(node', loose')
    BY <1>0, <1>1, <1>2, OwnedMore DEF Shifted
  <2> QED BY <1>0, <1>2, <2>1, BoundAssumption DEF Tidy, FilesTypeOK, Spare
<1>5. Undisturbed(node, node', comment, M, r.obj)
  <2>1. r.at # "data" => Lags(r)
    BY <1>0 DEF Lags, Forks, Hauls
  <2>2. PICK f \in Forks, p \in Paths, m \in Names : f = r.at /\ p = r.to /\ m = r.new
    BY <1>0, <1>1
  <2>3. Shifted(node, node', x, d, r.path, r.name, f, p, m, f)
    BY <1>1, <2>2
  <2>4. (Lags(r) /\ Hauls(r) /\ p = r.to /\ m = r.new) \/ (f = "data" /\ CoveredIn(node, x, p, m, f, M))
    BY <1>0, <2>1, <2>2 DEF CoveredIn
  <2>5. r = req[c] /\ Served(r) /\ r.obj # 0 /\ loose \subseteq M
    BY <1>0
  <2> QED BY <2>3, <2>4, <2>5, ShiftUndisturbed
<1>6. r.obj \notin M \cup {0} => Trails(node', q, r.obj)
  BY CarriedTrails
<1>7. r.obj \notin loose' \cup {0} => Tells(node', q, comment', r.obj)
  BY CarriedNotes
<1>8. AloneThere(node', q, M) /\ AloneIn(node', q, loose')
  BY CarriedAlone
<1>9. ASSUME q.obj \notin loose' \cup {0} PROVE InPlace(node', q)
  <2>1. /\ Lags(q) /\ Alike(r, q) /\ q.kind = r.kind /\ Hauls(q) /\ q.obj = r.obj /\ q.to = r.to
        /\ q.new = r.new
    BY <1>0, <1>9, NoneIsRequest DEF Passed, Alike, Hauls
  <2>2. /\ Here(node', r.obj, r.to, r.new) /\ node'[r.obj].fork = "data"
        /\ node'[r.obj].kind = r.kind
    BY <1>0, <1>9, <2>1, CarriedFile
  <2> QED BY <2>1, <2>2 DEF InPlace
<1>10. ~Writes(q)
  BY <1>0 DEF Passed
<1> QED BY <1>0, <1>2, <1>3, <1>4, <1>5, <1>6, <1>7, <1>8, <1>9, <1>10, Worked

\* Moving the entries of a file keeps the invariant.
LEMMA MoveKeeps ==
    ASSUME FilesInv, NEW c \in Conns, Move(c) PROVE FilesInv'
<1> DEFINE r == req[c]
           result == RenameResult(r.path, r.name, r.at, r.to, r.new, r.at)
           covered == Replaced(r.path, r.name, r.at, r.to, r.new, r.at)
<1>0. /\ FilesTypeOK /\ Spare /\ Unique(node) /\ r \in FileRequests /\ SaneIn(r)
      /\ r.at \in Forks /\ r.op \in {"setinfo", "move"} /\ UNCHANGED <<next, left, comment, makers>>
  BY DEF FilesInv, FilesTypeOK, Move
<1>1. /\ Served(r) /\ Hauls(r) /\ r.obj # 0 /\ ~Writes(r) /\ r.obj \in Nodes
      /\ r.path \in Paths /\ r.name \in Names /\ r.to \in Paths /\ r.new \in Names
      /\ Lags(r) <=> r.at # "data"
  BY <1>0 DEF Served, Hauls, SaneIn, Forks, Writes, Lags, FileRequests
<1>2. CASE /\ result = "ok"
           /\ RenameEntry(r.path, r.name, r.at, r.to, r.new, r.at)
           /\ Continue(c)
           /\ Loosen(IF r.at = "data" /\ covered # {} THEN covered \cup {r.obj} ELSE {})
  <2>1. PICK x, d : Shifted(node, node', x, d, r.path, r.name, r.at, r.to, r.new, r.at)
    BY <1>0, <1>1, <1>2, EntryMoved
  <2>2. PICK q : Becomes(c, r, q) /\ Passed(r, q)
    BY <1>0, <1>2, Continued
  <2>3. \A y : y \in covered <=> y \in Nodes \ {x} /\ Here(node, y, r.to, r.new) /\ node[y].fork = r.at
    <3>1. x \in Nodes /\ Here(node, x, r.path, r.name) /\ node[x].fork = r.at
      BY <2>1 DEF Shifted
    <3>2. ASSUME NEW y \in Nodes, Here(node, y, r.path, r.name), node[y].fork = r.at PROVE y = x
      <4>1. node[y].dir = node[x].dir /\ node[y].name = node[x].name
        BY <1>0, <1>1, <3>1, <3>2, Neighbours
      <4> QED BY <1>0, <3>1, <3>2, <4>1 DEF Unique, Here
    <3>3. \A y : y \in At(r.path, r.name, r.at) <=> y = x
      BY <3>1, <3>2, AtIs
    <3> QED BY <3>3, AtIs DEF Replaced
  <2> DEFINE L == IF r.at = "data" /\ covered # {} THEN covered \cup {r.obj} ELSE {}
  <2>4. L \subseteq Nodes /\ \A i \in L : i < next
    <3>1. r.obj < next
      BY <1>0 DEF Spare
    <3>2. \A y \in covered : y \in Nodes /\ y < next
      <4>1. \A y \in covered : y \in Nodes /\ Alive(node, y)
        BY <2>3 DEF Here
      <4> QED BY <1>0, <4>1, GoneIs, BoundAssumption DEF Spare, Alive, Nodes, FilesTypeOK
    <3> QED BY <1>1, <3>1, <3>2
  <2>5. req' \in [Conns -> FileRequests]
    BY <2>2, BecomesTells
  <2>6. PICK M : Slack(M) /\ L \subseteq M /\ Known(M, L)
    BY <1>0, <1>2, <2>4, <2>5, Loosened
  <2>7. r.at = "data" =>
           \A y \in Nodes \ {x} : Here(node, y, r.to, r.new) /\ node[y].fork = "data" =>
              y \in M /\ r.obj \in M
    BY <2>3, <2>6
  <2> HIDE DEF L, covered, result
  <2>8. Carried(c, r, q, x, d, M)
    BY <1>0, <1>1, <2>1, <2>2, <2>6, <2>7 DEF Carried
  <2> QED BY <1>0, <2>4, <2>6, <2>7, <2>8, CarriedKeeps
<1>3. CASE /\ result = "notexist" /\ r.at # "data"
           /\ Continue(c)
           /\ UNCHANGED <<node, loose>>
  <2>1. PICK q : Becomes(c, r, q) /\ Passed(r, q)
    BY <1>0, <1>3, Continued
  <2>2. AloneIn(node, r, loose) /\ (r.obj \notin loose => InPlace(node, r)) /\ Lags(r)
    BY <1>1, <1>3 DEF FilesInv, Alone, Placed
  <2>3. /\ q # NoRequest => /\ Alike(r, q) /\ Lags(q) /\ q.kind = r.kind
        /\ ~Writes(q) /\ (r.at = "info" => q = NoRequest)
        /\ q.at = "info" => r.at = "rsrc" \/ q = NoRequest
    BY <2>1 DEF Passed, Lags, NoRequest
  <2>4. AloneIn(node, q, loose)
    <3>1. CASE q = NoRequest
      BY <3>1, NoneIsRequest DEF AloneIn
    <3>2. CASE q # NoRequest
      BY <1>1, <2>2, <2>3, <3>2 DEF AloneIn, Alike, Hauls
    <3> QED BY <3>1, <3>2
  <2>5. ASSUME q.obj \notin loose \cup {0} PROVE InPlace(node, q)
    <3>1. q # NoRequest
      BY <2>5, NoneIsRequest
    <3> QED BY <1>1, <2>2, <2>3, <2>5, <3>1 DEF InPlace, Alike, Hauls
  <2>6. ASSUME r.obj \notin loose \cup {0} PROVE Followed(node, q, comment, r.obj)
    <3>1. Followed(node, r, comment, r.obj) /\ Here(node, r.obj, r.to, r.new)
      BY <1>1, <2>2, <2>6, FollowedNow DEF InPlace
    <3>2. At(r.path, r.name, r.at) = {}
      <4>1. Folder(r.to) # {}
        BY <3>1 DEF Here, Folder, FolderIn
      <4> QED BY <1>3, <4>1 DEF RenameResult
    <3>3. \A k \in Nodes : ~(Here(node, k, r.path, r.name) /\ node[k].fork = r.at)
      BY <3>2, AtIs
    <3>4. \A k \in Nodes : IsSide(node, k) /\ Behind(node, r, k) => q.obj = r.obj /\ Behind(node, q, k)
      <4> SUFFICES ASSUME NEW k \in Nodes, IsSide(node, k), Behind(node, r, k)
                   PROVE  q.obj = r.obj /\ Behind(node, q, k)
        OBVIOUS
      <4>1. r.at # "info"
        BY <3>3 DEF Behind
      <4>2. Alike(r, q) /\ Lags(q) /\ (q.at = "info" => r.at = "rsrc")
        BY <2>1, <4>1 DEF Passed
      <4> QED BY <3>3, <4>2 DEF Behind, Alike, IsSide
    <3>5. Trails(node, q, r.obj)
      BY <3>1, <3>4 DEF Followed, Trails
    <3>6. Tells(node, q, comment, r.obj)
      BY <1>1, <3>1 DEF Followed, Tells
    <3> QED BY <3>5, <3>6 DEF Followed
  <2> QED BY <1>0, <1>3, <2>1, <2>3, <2>4, <2>5, <2>6, Quiet
<1>4. CASE /\ End(c)
           /\ UNCHANGED node
           /\ Loosen(IF r.at = "data" THEN {} ELSE {r.obj})
  <2> DEFINE L == IF r.at = "data" THEN {} ELSE {r.obj}
  <2>1. L \subseteq {r.obj} \ {0} /\ (Lags(r) \/ Writes(r) => r.obj \in L) /\ Loosen(L)
    BY <1>1, <1>4
  <2> QED BY <1>0, <1>1, <1>4, <2>1, Halts
<1> QED BY <1>2, <1>3, <1>4 DEF Move

-----------------------------------------------------------------------------
(* Renaming as the last step: folders, and uploads that are complete *)

\* A request ends with the renaming of an entry.
LEMMA EndShift ==
    ASSUME FilesInv, NEW c \in Conns, NEW r, r = req[c], Served(r), r.obj # 0, End(c),
           UNCHANGED <<next, left, comment, makers>>,
           NEW f \in Forks, f = "data" \/ f = "incomplete",
           NEW p \in Paths, NEW m \in Names, <<p, m>> \in Touches(r), NEW x, NEW d,
           Shifted(node, node', x, d, r.path, r.name, f, p, m, "data"),
           NEW M, Slack(M), NEW L, Known(M, L), L \subseteq M, \A i \in L : i < next,
           CoveredIn(node, x, p, m, "data", M),
           r.obj \notin M => Followed(node', NoRequest, comment, r.obj)
    PROVE  FilesInv'
<1>0. /\ FilesTypeOK /\ Spare /\ r \in FileRequests /\ loose \subseteq M /\ M \subseteq loose'
      /\ M \subseteq Nodes
  BY DEF FilesInv, FilesTypeOK, Slack
<1>1. r.path \in Paths /\ r.name \in Names /\ "data" \in Forks
  BY <1>0 DEF FileRequests, Forks
<1>2. /\ Local(node, node', {<<r.path, r.name>>, <<p, m>>}, {})
      /\ \A y \in Nodes : ~Alive(node, y) => node'[y] = node[y]
      /\ Unique(node') /\ Owned(node', loose)
      /\ \A y \in Nodes : node'[y].of < next /\ node'[y].dir < next
      /\ \A y \in Nodes : y >= next => node'[y] = Gone
  BY <1>1, ShiftedTells
<1>3. {<<r.path, r.name>>, <<p, m>>} \subseteq Touches(r)
  BY <1>0, TouchesIs
<1>4. Tidy(L)
  <2>1. node' \in [Nodes -> NodeRec] /\ Owned(node', loose')
    BY <1>0, <1>2, OwnedMore DEF Shifted
  <2> QED BY <1>0, <1>2, <2>1, BoundAssumption DEF Tidy, FilesTypeOK, Spare
<1>5. Undisturbed(node, node', comment, M, r.obj)
  BY <1>0, <1>1, ShiftUndisturbed
<1>6. Becomes(c, r, NoRequest)
  BY <1>0, EndIs, BoundAssumption DEF FilesTypeOK
<1>7. AloneThere(node', NoRequest, M) /\ AloneIn(node', NoRequest, loose')
  BY NoneIsRequest DEF AloneThere, AloneIn
<1>8. r.obj \notin M => Trails(node', NoRequest, r.obj) /\ Tells(node', NoRequest, comment', r.obj)
  BY DEF Followed
<1> QED BY <1>0, <1>2, <1>3, <1>4, <1>5, <1>6, <1>7, <1>8, NoneIsRequest, Worked

\* The entry a step renames, and those that it replaces.
LEMMA ReplacedIs ==
    ASSUME FilesInv, NEW p \in Paths, NEW n \in Names, NEW f, NEW q \in Paths, NEW m \in Names, NEW g,
           NEW x, NEW d, Shifted(node, node', x, d, p, n, f, q, m, g)
    PROVE  \A y \in Nodes \ {x} : Here(node, y, q, m) /\ node[y].fork = g =>
              y \in Replaced(p, n, f, q, m, g)
<1>0. Unique(node)
  BY DEF FilesInv
<1>1. x \in Nodes /\ Here(node, x, p, n) /\ node[x].fork = f
  BY DEF Shifted
<1>2. ASSUME NEW y \in Nodes, Here(node, y, p, n), node[y].fork = f PROVE y = x
  <2>1. node[y].dir = node[x].dir /\ node[y].name = node[x].name
    BY <1>0, <1>1, <1>2, Neighbours
  <2> QED BY <1>0, <1>1, <1>2, <2>1 DEF Unique, Here
<1> QED BY <1>2, AtIs DEF Replaced

\* Entries that are looked up are entries that exist.
LEMMA AtFresh ==
    ASSUME FilesInv, NEW p, NEW n, NEW f, NEW i \in At(p, n, f)
    PROVE  i \in Nodes /\ i < next
<1>1. i \in Nodes /\ Alive(node, i)
  BY AtIs DEF Here
<1> QED BY <1>1, GoneIs, BoundAssumption DEF FilesInv, Spare, Alive, Nodes, FilesTypeOK

\* Renaming a folder keeps the invariant.
LEMMA RenameFolderKeeps ==
    ASSUME FilesInv, NEW c \in Conns, RenameFolder(c) PROVE FilesInv'
<1> DEFINE r == req[c]
           result == RenameResult(r.path, r.name, "data", r.to, r.new, "data")
           lost == Replaced(r.path, r.name, "data", r.to, r.new, "data")
           L == lost \cup IF At(r.path, r.name, "info") = {} THEN {} ELSE {r.obj}
<1>0. /\ FilesTypeOK /\ Spare /\ Unique(node) /\ Owned(node, loose) /\ r \in FileRequests /\ SaneIn(r)
      /\ r.at = "rename" /\ r.kind = "folder" /\ End(c) /\ UNCHANGED <<next, left, comment, makers>>
  BY DEF FilesInv, FilesTypeOK, RenameFolder
<1>1. /\ Served(r) /\ Hauls(r) /\ r.obj # 0 /\ ~Writes(r) /\ ~Lags(r) /\ r.obj \in Nodes
      /\ r.path \in Paths /\ r.name \in Names /\ r.to \in Paths /\ r.new \in Names
  BY <1>0 DEF Served, Hauls, SaneIn, Writes, Lags, FileRequests
<1>2. CASE result # "ok" /\ UNCHANGED <<node, loose>>
  BY <1>0, <1>1, <1>2, QuietEnd
<1>3. CASE /\ result = "ok"
           /\ RenameEntry(r.path, r.name, "data", r.to, r.new, "data")
           /\ Loosen(L)
  <2>0. "data" \in Forks
    BY DEF Forks
  <2>1. PICK x, d : Shifted(node, node', x, d, r.path, r.name, "data", r.to, r.new, "data")
    BY <1>1, <1>3, <2>0, EntryMoved
  <2>2. L \subseteq Nodes /\ \A i \in L : i < next
    <3>1. \A y \in lost : y \in Nodes /\ y < next
      BY AtFresh DEF Replaced
    <3> QED BY <1>0, <1>1, <3>1 DEF Spare
  <2>3. req' \in [Conns -> FileRequests]
    BY <1>0, NoneIsRequest DEF End, FilesTypeOK
  <2>4. PICK M : Slack(M) /\ L \subseteq M /\ Known(M, L)
    BY <1>0, <1>3, <2>2, <2>3, Loosened
  <2>5. CoveredIn(node, x, r.to, r.new, "data", M)
    BY <1>1, <2>1, <2>4, ReplacedIs DEF CoveredIn
  <2>6. ASSUME r.obj \notin M PROVE Followed(node', NoRequest, comment, r.obj)
    <3>1. r.obj \notin loose /\ At(r.path, r.name, "info") = {}
      BY <2>4, <2>6 DEF Slack
    <3>2. InPlace(node, r) /\ Followed(node, r, comment, r.obj)
      BY <1>1, <3>1, FollowedNow DEF FilesInv, Placed
    <3>3. IsFile(node, r.obj) /\ Here(node, r.obj, r.path, r.name) /\ node[r.obj].kind = "folder"
      BY <1>0, <1>1, <3>2 DEF InPlace, IsFile
    <3>4. ASSUME NEW k \in Nodes, IsSide(node, k), node[k].of = r.obj PROVE FALSE
      <4>1. NearTo(node, k)
        BY <1>1, <3>2, <3>4 DEF Followed, Trails, Behind
      <4>2. Here(node, k, r.path, r.name)
        BY <3>3, <3>4, <4>1 DEF NearTo, Here, IsSide
      <4>3. node[k].fork # "info"
        BY <3>1, <4>2, AtIs
      <4> QED BY <1>0, <3>1, <3>3, <3>4, <4>3 DEF Owned, IsSide
    <3>5. \A k \in Nodes : IsSide(node', k) => IsSide(node, k) /\ node'[k].of = node[k].of
      <4> SUFFICES ASSUME NEW k \in Nodes, IsSide(node', k) PROVE IsSide(node, k) /\ node'[k].of = node[k].of
        OBVIOUS
      <4>1. x \in Nodes /\ node[x] \in NodeRec
        BY <1>0, <2>1 DEF Shifted, FilesTypeOK
      <4>2. node'[x].fork = "data"
        BY <2>1, <4>1 DEF Shifted, NodeRec
      <4>3. k # x
        BY <4>2 DEF IsSide
      <4>4. node'[k] = node[k]
        BY <2>1, <4>3, GoneIs DEF Shifted, IsSide, Alive
      <4> QED BY <4>4 DEF IsSide, Alive
    <3>6. Trails(node', NoRequest, r.obj)
      BY <3>4, <3>5 DEF Trails
    <3>7. comment[r.obj] = NoComment
      BY <3>2, <3>3, <3>4 DEF Followed, Tells, IsInfo, IsSide
    <3>8. Tells(node', NoRequest, comment, r.obj)
      BY <3>4, <3>5, <3>7 DEF Tells, IsInfo, IsSide
    <3> QED BY <3>6, <3>8 DEF Followed
  <2>7. <<r.to, r.new>> \in Touches(r)
    BY <1>0, <1>1, TouchesIs
  <2>8. PICK p \in Paths, m \in Names : p = r.to /\ m = r.new
    BY <1>1
  <2> HIDE DEF L, lost, result
  <2> QED BY <1>0, <1>1, <2>0, <2>1, <2>2, <2>4, <2>5, <2>6, <2>7, <2>8, EndShift
<1> QED BY <1>2, <1>3 DEF RenameFolder

\* So does the renaming of an upload that is complete.
LEMMA FinishKeeps ==
    ASSUME FilesInv, NEW c \in Conns, Finish(c) PROVE FilesInv'
<1> DEFINE r == req[c]
           result == RenameResult(r.path, r.name, "incomplete", r.path, r.name, "data")
<1>0. /\ FilesTypeOK /\ Spare /\ Unique(node) /\ r \in FileRequests /\ SaneIn(r)
      /\ AloneIn(node, r, loose)
      /\ r.at = "finish" /\ End(c) /\ UNCHANGED <<next, left, comment, makers>>
  BY DEF FilesInv, FilesTypeOK, Finish, Alone
<1>1. /\ Served(r) /\ r.op = "upload" /\ r.obj # 0 /\ ~Writes(r) /\ ~Lags(r) /\ r.obj \in Nodes
      /\ r.path \in Paths /\ r.name \in Names
  BY <1>0 DEF Served, SaneIn, Writes, Lags, FileRequests
<1>2. CASE result # "ok"
  <2>1. UNCHANGED node /\ Loosen({r.obj})
    BY <1>2 DEF Finish
  <2> QED BY <1>0, <1>1, <2>1, Halts
<1>3. CASE result = "ok"
  <2>0. "data" \in Forks /\ "incomplete" \in Forks /\ Loosen({})
        /\ RenameEntry(r.path, r.name, "incomplete", r.path, r.name, "data")
    BY <1>3 DEF Forks, Finish
  <2>1. PICK x, d : Shifted(node, node', x, d, r.path, r.name, "incomplete", r.path, r.name, "data")
    BY <1>1, <1>3, <2>0, EntryMoved
  <2>3. req' \in [Conns -> FileRequests]
    BY <1>0, NoneIsRequest DEF End, FilesTypeOK
  <2>4. PICK M : Slack(M) /\ Known(M, {})
    BY <1>0, <2>0, <2>3, Loosened
  <2>5. loose \subseteq M /\ (r.obj \notin loose => InPlace(node, r) /\ node[r.obj].fork = "incomplete")
    BY <1>1, <2>4 DEF Slack, FilesInv, Placed, InPlace
  <2>6. CoveredIn(node, x, r.path, r.name, "data", M)
    BY <1>0, <1>1, <2>5 DEF CoveredIn, AloneIn, IsFile, Here
  <2>7. ASSUME r.obj \notin M PROVE Followed(node', NoRequest, comment, r.obj)
    <3>1. InPlace(node, r) /\ Followed(node, r, comment, r.obj) /\ r.obj \notin loose
      BY <1>1, <2>5, <2>7, FollowedNow
    <3>2. /\ x \in Nodes /\ node[x] \in NodeRec /\ Here(node, x, r.path, r.name) /\ Alive(node, x)
          /\ node[x].fork = "incomplete" /\ d \in FolderIn(node, r.path)
      BY <1>0, <2>1 DEF Shifted, FilesTypeOK, Here
    <3>3. x = r.obj
      BY <1>0, <1>1, <3>1, <3>2, OnlyFile DEF IsFile
    <3>4. d = node[x].dir /\ node[x].name = r.name
      BY <1>0, <1>1, <3>2, OneFolder DEF Here
    <3>5. /\ node'[x].dir = node[x].dir /\ node'[x].name = node[x].name /\ node'[x].fork = "data"
          /\ node'[x].kind = node[x].kind
      BY <2>1, <3>2, <3>4 DEF Shifted, NodeRec
    <3>6. IsFile(node', x) /\ ~IsSide(node', x)
      BY <3>2, <3>5 DEF IsFile, Alive, IsSide
    <3>7. \A k \in Nodes : IsSide(node', k) => node'[k] = node[k] /\ IsSide(node, k)
      BY <2>1, <3>6, GoneIs DEF Shifted, IsSide, Alive
    <3>8. \A k \in Nodes : IsSide(node, k) => node'[k] = node[k]
      BY <2>1, <3>2 DEF Shifted, IsSide
    <3>9. Trails(node', NoRequest, r.obj)
      BY <1>1, <3>1, <3>3, <3>5, <3>6, <3>7 DEF Followed, Trails, Behind, NearTo
    <3>10. \A k \in Nodes : (IsInfo(node', k) <=> IsInfo(node, k)) /\ (IsInfo(node, k) => node'[k] = node[k])
      BY <3>7, <3>8 DEF IsInfo, IsSide, Alive
    <3>11. Tells(node', NoRequest, comment, r.obj)
      <4>1. IsFile(node, r.obj)
        BY <3>2, <3>3 DEF IsFile
      <4>2. Tells(node, r, comment, r.obj)
        BY <3>1 DEF Followed
      <4> QED BY <1>1, <3>10, <4>1, <4>2 DEF Tells
    <3> QED BY <3>9, <3>11 DEF Followed
  <2>8. <<r.path, r.name>> \in Touches(r)
    BY <1>0, TouchesIs
  <2>9. PICK p \in Paths, m \in Names, f \in Forks : p = r.path /\ m = r.name /\ f = "incomplete"
    BY <1>1, <2>0
  <2> HIDE DEF result
  <2>10. /\ Shifted(node, node', x, d, r.path, r.name, f, p, m, "data")
         /\ CoveredIn(node, x, p, m, "data", M) /\ <<p, m>> \in Touches(r)
    BY <2>1, <2>6, <2>8, <2>9
  <2>11. PICK L : L \subseteq M /\ Known(M, L) /\ \A i \in L : i < next
    BY <2>4
  <2>12. Served(r) /\ r.obj # 0 /\ End(c) /\ Slack(M) /\ f = "incomplete"
    BY <1>0, <1>1, <2>4, <2>9
  <2> QED BY <1>0, <2>7, <2>10, <2>11, <2>12, EndShift
<1> QED BY <1>2, <1>3

-----------------------------------------------------------------------------
(* Writing to an information fork *)

\* Only what is in the entries changes, or whose they are.
SameShape(nd, nx) ==
    \A y \in Nodes : /\ nx[y].dir = nd[y].dir /\ nx[y].name = nd[y].name
                     /\ nx[y].fork = nd[y].fork /\ nx[y].kind = nd[y].kind

\* Then everything lies where it lay.
LEMMA ShapeTells ==
    ASSUME NEW nd, NEW nx, SameShape(nd, nx)
    PROVE  /\ \A y \in Nodes : /\ Alive(nx, y) <=> Alive(nd, y)
                               /\ IsFile(nx, y) <=> IsFile(nd, y)
                               /\ IsSide(nx, y) <=> IsSide(nd, y)
                               /\ IsInfo(nx, y) <=> IsInfo(nd, y)
           /\ \A p \in Paths : FolderIn(nx, p) = FolderIn(nd, p)
           /\ \A p \in Paths, y \in Nodes : \A n : Here(nx, y, p, n) <=> Here(nd, y, p, n)
           /\ Unique(nd) => Unique(nx)
           /\ \A r \in FileRequests : \A L : AloneIn(nd, r, L) => AloneIn(nx, r, L)
           /\ \A r \in FileRequests : r.obj # 0 /\ InPlace(nd, r) => InPlace(nx, r)
           /\ \A r \in FileRequests, k \in Nodes : Behind(nd, r, k) => Behind(nx, r, k)
<1>1. \A y \in Nodes : /\ Alive(nx, y) <=> Alive(nd, y)
                       /\ IsFile(nx, y) <=> IsFile(nd, y)
                       /\ IsSide(nx, y) <=> IsSide(nd, y)
                       /\ IsInfo(nx, y) <=> IsInfo(nd, y)
  BY DEF SameShape, Alive, IsFile, IsSide, IsInfo
<1>2. ASSUME NEW p \in Paths PROVE FolderIn(nx, p) = FolderIn(nd, p)
  <2>1. \A d : d \in FolderIn(nx, p) <=> d \in FolderIn(nd, p)
    BY FolderIs DEF SameShape
  <2> QED BY <2>1
<1>3. \A p \in Paths, y \in Nodes : \A n : Here(nx, y, p, n) <=> Here(nd, y, p, n)
  BY <1>1, <1>2 DEF Here, SameShape
<1>4. Unique(nd) => Unique(nx)
  BY <1>1 DEF Unique, SameShape
<1>5. ASSUME NEW r \in FileRequests, NEW L, AloneIn(nd, r, L) PROVE AloneIn(nx, r, L)
  <2>1. r.path \in Paths /\ r.to \in Paths
    BY DEF FileRequests
  <2> QED BY <1>1, <1>3, <1>5, <2>1 DEF AloneIn
<1>6. ASSUME NEW r \in FileRequests, r.obj # 0, InPlace(nd, r) PROVE InPlace(nx, r)
  <2>1. r.path \in Paths /\ r.to \in Paths /\ r.obj \in Nodes
    BY <1>6 DEF FileRequests
  <2>2. /\ nx[r.obj].kind = nd[r.obj].kind /\ nx[r.obj].fork = nd[r.obj].fork
        /\ Alive(nx, r.obj) <=> Alive(nd, r.obj)
        /\ IsFile(nx, r.obj) <=> IsFile(nd, r.obj)
        /\ \A p \in Paths : \A n : Here(nx, r.obj, p, n) <=> Here(nd, r.obj, p, n)
    BY <1>1, <1>3, <2>1 DEF SameShape
  <2> QED BY <1>6, <2>1, <2>2 DEF InPlace
<1>7. ASSUME NEW r \in FileRequests, NEW k \in Nodes, Behind(nd, r, k) PROVE Behind(nx, r, k)
  <2>1. r.path \in Paths
    BY DEF FileRequests
  <2> QED BY <1>3, <1>7, <2>1 DEF Behind, SameShape
<1> QED BY <1>1, <1>2, <1>3, <1>4, <1>5, <1>6, <1>7

\* What Fill does to the entries.
LEMMA FillTells ==
    ASSUME FilesInv, NEW k \in Nodes, NEW o \in Nodes, NEW t \in Comments, Fill(k, o, t)
    PROVE  /\ SameShape(node, node') /\ node' \in [Nodes -> NodeRec]
           /\ \A y \in Nodes \ {k} : node'[y] = node[y]
           /\ Alive(node, k) => node'[k].of = o /\ node'[k].text = t
           /\ ~Alive(node, k) => node'[k] = node[k]
<1>0. FilesTypeOK
  BY DEF FilesInv
<1>1. CASE ~Alive(node, k)
  BY <1>0, <1>1 DEF Fill, Alive, SameShape, FilesTypeOK
<1>2. CASE Alive(node, k)
  <2>1. node' = [node EXCEPT ![k].text = t, ![k].of = o]
    BY <1>2 DEF Fill, Alive
  <2>2. node'[k] = [node[k] EXCEPT !.text = t, !.of = o] /\ \A y \in Nodes \ {k} : node'[y] = node[y]
    BY <1>0, <2>1 DEF FilesTypeOK
  <2>3. /\ node'[k].dir = node[k].dir /\ node'[k].name = node[k].name
        /\ node'[k].fork = node[k].fork /\ node'[k].kind = node[k].kind
        /\ node'[k].of = o /\ node'[k].text = t /\ node'[k] \in NodeRec
    <3>1. node[k] \in NodeRec
      BY <1>0 DEF FilesTypeOK
    <3>2. \A z \in NodeRec : [z EXCEPT !.text = t, !.of = o] \in NodeRec
      BY DEF NodeRec
    <3> QED BY <2>2, <3>1, <3>2 DEF NodeRec
  <2>4. node' \in [Nodes -> NodeRec]
    BY <1>0, <2>1, <2>2, <2>3 DEF FilesTypeOK
  <2> QED BY <1>2, <2>2, <2>3, <2>4 DEF SameShape
<1> QED BY <1>1, <1>2

\* A request writes the comment of its file to the fork that it opened.
LEMMA Filled ==
    ASSUME FilesInv, NEW c \in Conns, NEW r, NEW q, Becomes(c, r, q), Writes(r), ~Lags(q), ~Writes(q),
           q = NoRequest \/ (Alike(r, q) /\ q.kind = r.kind),
           Fill(r.info, r.obj, r.text), Loosen(OthersFork(r.info, r.obj)),
           UNCHANGED <<next, left, makers>>
    PROVE  FilesInv'
<1>0. /\ FilesTypeOK /\ Spare /\ Unique(node) /\ Owned(node, loose)
      /\ Placed(node, req, loose) /\ Handles(node, req, loose) /\ Alone(node, req, loose)
      /\ Rivals(req, loose)
  BY DEF FilesInv
<1>1. /\ req'[c] = q /\ (\A e \in Conns \ {c} : req'[e] = req[e])
      /\ req' \in [Conns -> FileRequests] /\ r \in FileRequests /\ SaneIn(r)
      /\ r = req[c] /\ Served(r) /\ q.obj \in {0, r.obj} /\ q \in FileRequests
  BY BecomesTells DEF Becomes
<1>2. /\ r.obj \in Nodes /\ r.obj # 0 /\ r.info \in Nodes /\ r.text \in Comments /\ ~Lags(r)
      /\ r.path \in Paths
  BY <1>1 DEF Writes, SaneIn, FileRequests, Lags
<1>3. PICK k \in Nodes, o \in Nodes, t \in Comments, L \in {OthersFork(r.info, r.obj)} :
              k = r.info /\ o = r.obj /\ t = r.text
  BY <1>2
<1>4. Fill(k, o, t) /\ Loosen(L)
  BY <1>3
<1>5. /\ SameShape(node, node') /\ node' \in [Nodes -> NodeRec]
      /\ \A y \in Nodes \ {k} : node'[y] = node[y]
      /\ Alive(node, k) => node'[k].of = o /\ node'[k].text = t
      /\ ~Alive(node, k) => node'[k] = node[k]
  BY <1>4, FillTells
<1>6. /\ \A y \in Nodes : /\ Alive(node', y) <=> Alive(node, y)
                          /\ IsFile(node', y) <=> IsFile(node, y)
                          /\ IsSide(node', y) <=> IsSide(node, y)
                          /\ IsInfo(node', y) <=> IsInfo(node, y)
      /\ \A p \in Paths, y \in Nodes : \A n : Here(node', y, p, n) <=> Here(node, y, p, n)
      /\ Unique(node')
      /\ \A s \in FileRequests : \A K : AloneIn(node, s, K) => AloneIn(node', s, K)
      /\ \A s \in FileRequests : s.obj # 0 /\ InPlace(node, s) => InPlace(node', s)
      /\ \A s \in FileRequests, y \in Nodes : Behind(node, s, y) => Behind(node', s, y)
  BY <1>0, <1>5, ShapeTells
<1>7. /\ L \subseteq Nodes /\ (\A i \in L : i < next)
      /\ node[k].of \in {0, o} \cup L
  <2>1. node[k].of \in {0} \cup Nodes /\ node[k].of < next
    BY <1>0 DEF FilesTypeOK, NodeRec, Spare
  <2>2. L = IF k = 0 \/ node[k].of \in {0, o} THEN {} ELSE {node[k].of}
    BY <1>3 DEF OthersFork
  <2>3. k # 0
    BY RootApart DEF Root
  <2> QED BY <2>1, <2>2, <2>3
<1>8. PICK M : Slack(M) /\ L \subseteq M /\ Known(M, L)
  BY <1>0, <1>1, <1>4, <1>7, Loosened
<1>9. loose \subseteq M /\ M \subseteq loose'
  BY <1>8 DEF Slack
<1>10. comment' = [comment EXCEPT ![o] = t]
  BY <1>4 DEF Fill
<1>11. ASSUME o \notin loose PROVE InHand(node, r) /\ InPlace(node, r) /\ Followed(node, r, comment, o)
  BY <1>0, <1>1, <1>2, <1>3, <1>11, FollowedNow DEF Handles, Placed
<1>12. Owned(node', loose')
  <2> SUFFICES ASSUME NEW y \in Nodes, IsSide(node', y)
               PROVE  /\ node'[y].of # 0
                      /\ node'[y].fork = "rsrc" /\ node'[y].of \notin loose'
                            => node'[node'[y].of].kind # "folder"
    BY DEF Owned
  <2>1. IsSide(node, y) /\ node'[y].fork = node[y].fork
    BY <1>5, <1>6 DEF SameShape
  <2>2. CASE y = k
    <3>1. node'[k].of = o
      BY <1>5, <2>1, <2>2 DEF IsSide
    <3>2. o \notin loose => node[k].fork = "info"
      BY <1>3, <1>11 DEF InHand, IsInfo
    <3> QED BY <1>2, <1>3, <1>9, <2>1, <2>2, <3>1, <3>2
  <2>3. CASE y # k
    <3>1. node'[y] = node[y]
      BY <1>5, <2>3
    <3>2. node[y].of # 0 /\ node[y].of \in Nodes
      BY <1>0, <2>1 DEF Owned, FilesTypeOK, NodeRec, Root
    <3>3. node'[node[y].of].kind = node[node[y].of].kind
      BY <1>5, <3>2 DEF SameShape
    <3> QED BY <1>0, <1>9, <2>1, <3>1, <3>2, <3>3 DEF Owned
  <2> QED BY <2>2, <2>3
<1>13. \A y \in Nodes : node'[y].of < next /\ node'[y].dir < next
  <2>1. o < next
    BY <1>0, <1>1, <1>3 DEF Spare
  <2>2. \A y \in Nodes : node'[y].of = node[y].of \/ node'[y].of = o
    BY <1>5
  <2> QED BY <1>0, <1>5, <2>1, <2>2 DEF Spare, SameShape
<1>14. \A y \in Nodes : y >= next => node'[y] = Gone
  <2>1. k < next
    BY <1>0, <1>1, <1>3 DEF Spare
  <2>2. \A y \in Nodes : y >= next => y # k
    BY <2>1, BoundAssumption DEF Nodes, FilesTypeOK, FilesInv
  <2> QED BY <1>0, <1>5, <2>2 DEF Spare
<1>15. /\ comment' \in [Nodes -> Comments \cup {NoComment}] /\ comment'[o] = t
       /\ \A y \in Nodes \ {o} : comment'[y] = comment[y]
       /\ \A y \in Nodes : y >= next => comment'[y] = NoComment
  <2>1. o < next
    BY <1>0, <1>1, <1>3 DEF Spare
  <2>2. \A y \in Nodes : y >= next => y # o
    BY <2>1, BoundAssumption DEF Nodes, FilesTypeOK, FilesInv
  <2> QED BY <1>0, <1>10, <2>2 DEF Spare, FilesTypeOK
<1>16. Tidy(L)
  BY <1>0, <1>5, <1>6, <1>7, <1>12, <1>13, <1>14, <1>15, BoundAssumption DEF Tidy, FilesTypeOK, Spare
<1>17. OthersKept(c, r, M)
  <2> SUFFICES ASSUME NEW e \in Conns \ {c}, NEW s, s = req[e]
               PROVE  /\ AloneIn(node', s, M)
                      /\ s.obj \notin M \cup {0} => InPlace(node', s)
                      /\ Writes(s) /\ s.obj \notin M => InHand(node', s)
                      /\ \A y \in Nodes : Behind(node, s, y) => Behind(node', s, y)
    BY <1>1, <1>8 DEF OthersKept
  <2>1. s \in FileRequests /\ AloneIn(node, s, loose) /\ SaneIn(s)
    BY <1>0 DEF FilesTypeOK, Alone, FilesInv
  <2>2. AloneIn(node', s, M)
    <3>1. AloneIn(node', s, loose)
      BY <1>6, <2>1
    <3> QED BY <1>9, <3>1 DEF AloneIn
  <2>3. s.obj \notin M \cup {0} => InPlace(node', s)
    BY <1>0, <1>6, <1>9, <2>1 DEF Placed
  <2>4. ASSUME Writes(s), s.obj \notin M PROVE InHand(node', s)
    <3>1. InHand(node, s) /\ s.info \in Nodes /\ s.path \in Paths /\ s.obj # 0 /\ Served(s)
      BY <1>0, <1>9, <2>1, <2>4 DEF Handles, Writes, FileRequests, SaneIn, Served
    <3>2. node'[s.info] = node[s.info]
      <4>1. CASE s.info = k
        <5>1. s.obj = o
          BY <1>7, <1>8, <2>4, <3>1, <4>1 DEF InHand
        <5> QED BY <1>0, <1>1, <1>3, <1>9, <2>4, <3>1, <5>1 DEF Rivals
      <4>2. CASE s.info # k
        BY <1>5, <3>1, <4>2
      <4> QED BY <4>1, <4>2
    <3> QED BY <1>6, <3>1, <3>2 DEF InHand
  <2> QED BY <1>6, <2>1, <2>2, <2>3, <2>4
<1>18. Undisturbed(node, node', comment, M, r.obj)
  <2>1. ASSUME NEW y \in Nodes, IsSide(node', y), node'[y].of \notin M \cup {o}
        PROVE  node'[y] = node[y] /\ (NearTo(node, y) => NearTo(node', y))
    <3>1. y # k
      BY <1>5, <1>6, <2>1 DEF IsSide
    <3>2. node'[y] = node[y]
      BY <1>5, <3>1
    <3>3. node[y].of \in Nodes
      BY <1>0, <1>6, <2>1, <3>2 DEF Owned, FilesTypeOK, NodeRec, Root
    <3> QED BY <1>5, <1>6, <3>2, <3>3 DEF NearTo, SameShape
  <2>2. ASSUME NEW y \in Nodes \ (M \cup {o}), IsFile(node', y)
        PROVE  /\ IsFile(node, y)
               /\ \A x \in Nodes : IsInfo(node, x) /\ node[x].of = y => node'[x] = node[x]
    <3>1. \A x \in Nodes : node[x].of = y => x # k
      BY <1>7, <1>8, <2>2, RootApart DEF Root
    <3> QED BY <1>5, <1>6, <2>2, <3>1
  <2> QED BY <1>3, <2>1, <2>2 DEF Undisturbed
<1>19. ASSUME r.obj \notin M PROVE Trails(node', q, r.obj)
  <2> SUFFICES ASSUME NEW y \in Nodes, IsSide(node', y), node'[y].of = o PROVE NearTo(node', y)
    BY <1>3 DEF Trails
  <2>1. o \notin loose
    BY <1>3, <1>9, <1>19
  <2>2. IsSide(node, y) /\ node[y].of = o
    BY <1>3, <1>5, <1>6, <1>11, <2>1 DEF InHand
  <2>3. NearTo(node, y)
    BY <1>2, <1>11, <2>1, <2>2 DEF Followed, Trails, Behind
  <2> QED BY <1>5, <1>6, <2>2, <2>3 DEF NearTo, SameShape
<1>20. ASSUME r.obj \notin loose' PROVE Tells(node', q, comment', r.obj)
  <2>1. InHand(node, r) /\ InPlace(node, r) /\ Followed(node, r, comment, o)
    BY <1>3, <1>9, <1>11, <1>20
  <2>2. IsInfo(node, k) /\ Here(node, k, r.path, r.name) /\ node[k].of = o
    BY <1>3, <2>1 DEF InHand
  <2>3. IsInfo(node', k) /\ node'[k].of = o /\ node'[k].text = t
    BY <1>5, <1>6, <2>2 DEF IsInfo
  <2>4. ASSUME NEW y \in Nodes, IsInfo(node', y), node'[y].of = o PROVE y = k
    <3>1. IsInfo(node, y) /\ node[y].of = o
      BY <1>5, <1>6, <2>2, <2>4
    <3>2. NearTo(node, y)
      BY <1>2, <2>1, <3>1 DEF Followed, Trails, Behind, IsInfo, IsSide
    <3>3. NearTo(node, k)
      BY <1>2, <2>1, <2>2 DEF Followed, Trails, Behind, IsInfo, IsSide
    <3> QED BY <1>0, <2>2, <3>1, <3>2, <3>3 DEF Unique, NearTo, IsInfo
  <2> QED BY <1>3, <1>15, <2>3, <2>4 DEF Tells
<1>21. AloneIn(node', q, loose') /\ AloneThere(node', q, M)
  <2>1. AloneIn(node', r, loose)
    BY <1>0, <1>1, <1>6 DEF Alone
  <2>2. AloneIn(node', q, loose)
    BY <1>1, <1>2, <2>1, SameStage, NoneIsRequest DEF AloneIn
  <2> QED BY <1>9, <2>2 DEF AloneIn, AloneThere
<1>22. ASSUME q.obj \notin loose' \cup {0} PROVE InPlace(node', q)
  <2>1. q # NoRequest /\ q.obj = r.obj
    BY <1>1, <1>22, NoneIsRequest
  <2>2. InPlace(node', r)
    BY <1>1, <1>2, <1>3, <1>6, <1>9, <1>11, <1>22, <2>1
  <2> QED BY <1>1, <1>2, <2>1, <2>2, SameStage
<1>23. \A y \in Nodes \ {r.obj} : comment'[y] = comment[y]
  BY <1>3, <1>15
<1> QED BY <1>8, <1>16, <1>17, <1>18, <1>19, <1>20, <1>21, <1>22, <1>23, WorkedFine

\* Writing a comment keeps the invariant.
LEMMA WriteInfoKeeps ==
    ASSUME FilesInv, NEW c \in Conns, WriteInfo(c) PROVE FilesInv'
<1> DEFINE r == req[c]
<1>0. /\ FilesTypeOK /\ Spare /\ r \in FileRequests /\ SaneIn(r) /\ r.at = "write"
      /\ Fill(r.info, r.obj, r.text) /\ Loosen(OthersFork(r.info, r.obj))
      /\ UNCHANGED <<next, left, makers>>
  BY DEF FilesInv, FilesTypeOK, WriteInfo
<1>1. Served(r) /\ Writes(r) /\ r.op = "setinfo"
  BY <1>0 DEF Served, Writes, SaneIn
<1>2. CASE End(c)
  <2>1. Becomes(c, r, NoRequest)
    BY <1>0, <1>1, <1>2, EndIs, BoundAssumption DEF FilesTypeOK
  <2> QED BY <1>0, <1>1, <2>1, NoneIsRequest, Filled
<1>3. CASE Go(c, "rename")
  <2>1. PICK q : /\ req' = [req EXCEPT ![c] = q] /\ Alike(r, q)
                 /\ q = [r EXCEPT !.at = "rename"]
                 /\ q.at = "rename" /\ q.kind = r.kind /\ q.text = r.text /\ q.info = r.info
    BY <1>1, <1>3, GoIs
  <2>2. q \in FileRequests
    BY <1>0, <2>1 DEF FileRequests
  <2>3. ~Lags(q) /\ ~Writes(q) /\ SaneIn(q)
    BY <1>0, <1>1, <2>1 DEF Lags, Writes, SaneIn, Alike, Forks
  <2>4. Becomes(c, r, q)
    BY <1>0, <1>1, <2>1, <2>2, <2>3 DEF Becomes, Spare
  <2> QED BY <1>0, <1>1, <2>1, <2>3, <2>4, Filled
<1> QED BY <1>2, <1>3 DEF WriteInfo

\* A request goes on with something else than the side entries.
LEMMA Onward ==
    ASSUME FilesInv, NEW c \in Conns, NEW r, NEW q, Becomes(c, r, q), Alike(r, q), q.kind = r.kind,
           ~Lags(r), ~Writes(r), ~Lags(q), ~Writes(q), r.obj # 0,
           UNCHANGED <<node, next, left, comment, makers>>, Loosen({})
    PROVE  FilesInv'
<1>0. FilesTypeOK /\ AloneIn(node, r, loose) /\ (r.obj \notin loose => InPlace(node, r))
  BY DEF FilesInv, Alone, Placed, Becomes
<1>1. /\ req' \in [Conns -> FileRequests] /\ r = req[c] /\ Served(r)
  BY BecomesTells DEF Becomes
<1>2. PICK M : Slack(M) /\ Known(M, {})
  BY <1>0, <1>1, Loosened
<1>3. loose \subseteq M /\ M \subseteq loose'
  BY <1>2 DEF Slack
<1>4. Tidy({})
  BY <1>3, SameTidy
<1>5. Local(node, node', {}, {}) /\ Undisturbed(node, node', comment, M, r.obj)
  BY SameNodes
<1>6. r.obj \notin M => Followed(node', q, comment', r.obj)
  BY <1>0, <1>1, <1>3, FollowedNow, FollowedEnd
<1>7. AloneIn(node, q, loose)
  BY <1>0, <1>1, SameStage
<1>8. AloneIn(node', q, loose') /\ AloneThere(node', q, M)
  BY <1>3, <1>7 DEF AloneIn, AloneThere
<1>9. q.obj \notin loose' \cup {0} => InPlace(node', q)
  BY <1>0, <1>1, <1>3, SameStage DEF Alike
<1> QED BY <1>2, <1>3, <1>4, <1>5, <1>6, <1>8, <1>9, Worked DEF Followed

\* So does receiving an upload.
LEMMA ReceiveKeeps ==
    ASSUME FilesInv, NEW c \in Conns, Receive(c) PROVE FilesInv'
<1> DEFINE r == req[c]
<1>0. /\ FilesTypeOK /\ Spare /\ r \in FileRequests /\ SaneIn(r) /\ r.at = "receive"
      /\ IF r.info = 0 THEN UNCHANGED <<node, comment>> ELSE Fill(r.info, r.obj, r.text)
      /\ Go(c, "finish") /\ Loosen(OthersFork(r.info, r.obj))
      /\ UNCHANGED <<next, left, makers>>
  BY DEF FilesInv, FilesTypeOK, Receive
<1>1. Served(r) /\ r.op = "upload" /\ ~Lags(r) /\ r.obj # 0
  BY <1>0 DEF Served, SaneIn, Lags
<1>2. PICK q : /\ req' = [req EXCEPT ![c] = q] /\ Alike(r, q)
               /\ q = [r EXCEPT !.at = "finish"]
               /\ q.at = "finish" /\ q.kind = r.kind /\ q.text = r.text /\ q.info = r.info
  BY <1>0, <1>1, GoIs
<1>3. q \in FileRequests
  BY <1>0, <1>2 DEF FileRequests
<1>4. ~Lags(q) /\ ~Writes(q) /\ SaneIn(q)
  BY <1>0, <1>1, <1>2 DEF Lags, Writes, SaneIn, Alike, Forks
<1>5. Becomes(c, r, q)
  BY <1>0, <1>1, <1>2, <1>3, <1>4 DEF Becomes, Spare
<1>6. CASE r.info = 0
  <2>1. ~Writes(r)
    BY <1>6 DEF Writes
  <2>2. Loosen({})
    BY <1>0, <1>6 DEF OthersFork
  <2> QED BY <1>0, <1>1, <1>2, <1>4, <1>5, <1>6, <2>1, <2>2, Onward
<1>7. CASE r.info # 0
  <2>1. Writes(r)
    BY <1>0, <1>7 DEF Writes
  <2> QED BY <1>0, <1>2, <1>4, <1>5, <1>7, <2>1, Filled
<1> QED BY <1>6, <1>7

-----------------------------------------------------------------------------
(* Creating entries *)

\* The entries K come to lie under the name n in folder d, which is p: new ones, or
\* such that were there with the same fork.
Put(K, d, p, n) ==
    /\ K \subseteq Nodes /\ node' \in [Nodes -> NodeRec] /\ d \in FolderIn(node, p)
    /\ next \in Nat /\ next' \in Nat /\ next <= next'
    /\ \A y \in Nodes \ K : node'[y] = node[y]
    /\ \A k, l \in K : node'[k].fork = node'[l].fork => k = l
    /\ \A k \in K :
          /\ node'[k].kind # "none" /\ node'[k].dir = d /\ node'[k].name = n
          /\ \/ /\ next <= k /\ k < next'
                /\ \A y \in Nodes : Here(node, y, p, n) => node[y].fork # node'[k].fork
             \/ /\ Here(node, k, p, n) /\ node[k].fork = node'[k].fork /\ node[k].fork # "data"

\* That changes nothing elsewhere, and nothing that lies there as another fork.
LEMMA PutTells ==
    ASSUME FilesInv, NEW K, NEW d, NEW p \in Paths, NEW n \in Names, Put(K, d, p, n)
    PROVE  /\ Local(node, node', {<<p, n>>}, {})
           /\ \A x \in Nodes : ~Alive(node, x) /\ x < next => node'[x] = node[x]
           /\ Unique(node')
           /\ FolderIn(node', p) = FolderIn(node, p)
           /\ \A k \in K : Here(node', k, p, n)
           /\ \A y \in Nodes : node'[y].dir < next'
           /\ \A y \in Nodes : y >= next' => node'[y] = Gone
           /\ \A k \in K : Alive(node, k) => Here(node, k, p, n) /\ node[k].fork = node'[k].fork
                                            /\ node[k].dir = d /\ node[k].name = n
<1>0. FilesTypeOK /\ Unique(node) /\ Spare
  BY DEF FilesInv
<1>1. /\ K \subseteq Nodes /\ node' \in [Nodes -> NodeRec] /\ d \in FolderIn(node, p)
      /\ next \in Nat /\ next' \in Nat /\ next <= next'
      /\ \A y \in Nodes \ K : node'[y] = node[y]
      /\ \A k, l \in K : node'[k].fork = node'[l].fork => k = l
      /\ \A k \in K :
            /\ node'[k].kind # "none" /\ node'[k].dir = d /\ node'[k].name = n
            /\ \/ /\ next <= k /\ k < next'
                  /\ \A y \in Nodes : Here(node, y, p, n) => node[y].fork # node'[k].fork
               \/ /\ Here(node, k, p, n) /\ node[k].fork = node'[k].fork /\ node[k].fork # "data"
  BY DEF Put
<1>2. \A y \in Nodes : y \in Nat
  BY BoundAssumption DEF Nodes
<1>3. \A y \in Nodes : y >= next => node[y] = Gone /\ ~Alive(node, y)
  BY <1>0, GoneIs DEF Spare, Alive
<1>4. ASSUME NEW k \in K, Alive(node, k)
      PROVE  /\ Here(node, k, p, n) /\ node[k].fork = node'[k].fork /\ node[k].fork # "data"
             /\ node[k].dir = d /\ node[k].name = n
  <2>1. Here(node, k, p, n) /\ node[k].fork = node'[k].fork /\ node[k].fork # "data"
    BY <1>1, <1>2, <1>3, <1>4
  <2> QED BY <1>0, <1>1, <2>1, OneFolder DEF Here
<1>5. Local(node, node', {<<p, n>>}, {})
  <2> DEFINE t == <<p, n>>
  <2>1. t[1] = p /\ t[2] = n /\ {t} \subseteq Paths \X Names
    OBVIOUS
  <2> HIDE DEF t
  <2>2. \A x \in Nodes : node'[x] # node[x] => /\ Alive(node, x) => Here(node, x, p, n)
                                               /\ node'[x].dir \in FolderIn(node, p) /\ node'[x].name = n
    BY <1>1, <1>4
  <2> QED BY <2>1, <2>2 DEF Local, t
<1>6. ASSUME NEW x \in Nodes, ~Alive(node, x), x < next PROVE node'[x] = node[x]
  <2>1. x \notin K
    BY <1>1, <1>2, <1>6 DEF Here
  <2> QED BY <1>1, <2>1
<1>7. Unique(node')
  <2>1. ASSUME NEW k \in K, NEW y \in Nodes \ K, Alive(node', y), node'[y].dir = node'[k].dir,
               node'[y].name = node'[k].name, node'[y].fork = node'[k].fork
        PROVE  FALSE
    <3>1. Alive(node, y) /\ node[y].dir = d /\ node[y].name = n /\ node[y].fork = node'[k].fork
      BY <1>1, <2>1 DEF Alive
    <3>2. Here(node, y, p, n)
      BY <1>1, <3>1 DEF Here
    <3>3. Here(node, k, p, n) /\ node[k].fork = node'[k].fork
      BY <1>1, <3>1, <3>2
    <3>4. Alive(node, k) /\ node[k].dir = d /\ node[k].name = n
      BY <1>4, <3>3 DEF Here
    <3>5. k = y
      BY <1>0, <1>1, <3>1, <3>3, <3>4 DEF Unique
    <3> QED BY <3>5
  <2>2. ASSUME NEW y \in Nodes \ K, NEW z \in Nodes \ K, Alive(node', y), Alive(node', z),
               node'[y].dir = node'[z].dir, node'[y].name = node'[z].name, node'[y].fork = node'[z].fork
        PROVE  y = z
    <3>1. node'[y] = node[y] /\ node'[z] = node[z]
      BY <1>1
    <3> QED BY <1>0, <2>2, <3>1 DEF Unique, Alive
  <2>3. \A k, l \in K : node'[k].fork = node'[l].fork => k = l
    BY <1>1
  <2> QED BY <2>1, <2>2, <2>3 DEF Unique
<1>8. FolderIn(node', p) = FolderIn(node, p)
  <2>1. ASSUME NEW e \in FolderIn(node, p) PROVE e \in FolderIn(node', p)
    <3>1. CASE e = Root
      BY <2>1, <3>1, FolderIs, RootApart
    <3>2. CASE e # Root
      <4>1. PICK a \in Names : /\ p = <<a>> /\ e \in Nodes /\ node[e].kind = "folder"
                               /\ node[e].dir = Root /\ node[e].name = a /\ node[e].fork = "data"
        BY <2>1, <3>2, FolderIs
      <4>2. e \notin K
        BY <1>4, <4>1 DEF Alive
      <4> QED BY <1>1, <4>1, <4>2, FolderIs
    <3> QED BY <3>1, <3>2
  <2>2. ASSUME NEW e \in FolderIn(node', p) PROVE e \in FolderIn(node, p)
    <3>1. CASE e = Root
      BY <2>2, <3>1, FolderIs, RootApart
    <3>2. CASE e # Root
      <4>1. PICK a \in Names : /\ p = <<a>> /\ e \in Nodes /\ node'[e].kind = "folder"
                               /\ node'[e].dir = Root /\ node'[e].name = a /\ node'[e].fork = "data"
        BY <2>2, <3>2, FolderIs
      <4>2. d # Root
        BY <1>1, <4>1, FolderIs, RootApart
      <4>3. e \notin K
        BY <1>1, <4>1, <4>2
      <4> QED BY <1>1, <4>1, <4>3, FolderIs
    <3> QED BY <3>1, <3>2
  <2> QED BY <2>1, <2>2
<1>9. \A k \in K : Here(node', k, p, n)
  BY <1>1, <1>8 DEF Here, Alive
<1>10. \A y \in Nodes : node'[y].dir < next'
  <2>1. d < next
    <3>1. next > 0
      BY <1>0, BoundAssumption DEF FilesTypeOK
    <3>2. d = 0 \/ (d \in Nodes /\ Alive(node, d))
      BY <1>1, FolderIs DEF Root, Alive
    <3> QED BY <1>1, <1>2, <1>3, <3>1, <3>2
  <2>2. d \in Nat /\ \A y \in Nodes : node[y].dir \in Nat /\ node[y].dir < next
    <3>1. d \in {Root} \cup Nodes
      BY <1>1, FolderIs
    <3> QED BY <1>0, <1>2, <3>1 DEF FilesTypeOK, NodeRec, Spare, Root
  <2> QED BY <1>1, <2>1, <2>2
<1>11. \A y \in Nodes : y >= next' => node'[y] = Gone
  <2> SUFFICES ASSUME NEW y \in Nodes, y >= next' PROVE node'[y] = Gone
    OBVIOUS
  <2>1. node[y] = Gone /\ ~Alive(node, y)
    BY <1>1, <1>2, <1>3
  <2>2. y \notin K
    BY <1>1, <1>2, <2>1 DEF Here
  <2> QED BY <1>1, <2>1, <2>2
<1> QED BY <1>4, <1>5, <1>6, <1>7, <1>8, <1>9, <1>10, <1>11

\* Opening an information fork keeps the invariant: until the comment is written
\* the request answers for the fork.
LEMMA OpenInfoKeeps ==
    ASSUME FilesInv, NEW c \in Conns, OpenInfo(c) PROVE FilesInv'
<1> DEFINE r == req[c]
           have == At(r.path, r.name, "info")
<1>0. /\ FilesTypeOK /\ Spare /\ Unique(node) /\ Owned(node, loose) /\ r \in FileRequests /\ SaneIn(r)
      /\ AloneIn(node, r, loose) /\ (r.obj \notin loose \cup {0} => InPlace(node, r))
      /\ r.at = "open" /\ UNCHANGED <<left, comment, makers>>
  BY DEF FilesInv, FilesTypeOK, OpenInfo, Alone, Placed
<1>1. /\ Served(r) /\ r.op = "setinfo" /\ r.obj # 0 /\ ~Writes(r) /\ ~Lags(r) /\ r.obj \in Nodes
      /\ r.path \in Paths /\ r.name \in Names /\ r.text \in Comments
  BY <1>0 DEF Served, SaneIn, Writes, Lags, FileRequests
<1>2. PICK k : k = IF have = {} THEN next ELSE CHOOSE x \in have : TRUE
  OBVIOUS
<1>3. CASE End(c) /\ UNCHANGED <<node, next, loose>>
  BY <1>0, <1>1, <1>3, QuietEnd
<1>4. CASE /\ Folder(r.path) # {}
           /\ k <= MaxNodes
           /\ node' = [node EXCEPT ![k] = Entered(CHOOSE d \in Folder(r.path) : TRUE,
                                       r.name, "info", "file", r.obj, Cut)]
           /\ next' = IF k = next THEN next + 1 ELSE next
           /\ req' = [req EXCEPT ![c].at = "write", ![c].info = k]
           /\ Loosen({})
  <2>1. PICK d : d = (CHOOSE e \in Folder(r.path) : TRUE)
    OBVIOUS
  <2>2. d \in FolderIn(node, r.path) /\ d \in {Root} \cup Nodes
    <3>1. d \in Folder(r.path)
      BY <1>4, <2>1
    <3>2. Folder(r.path) = FolderIn(node, r.path)
      BY DEF Folder, FolderIn
    <3> QED BY <1>1, <3>1, <3>2, FolderIs
  <2>3. next \in Nat /\ next > 0 /\ (\A y \in Nodes : y \in Nat) /\ \A y \in Nodes : y >= next => ~Alive(node, y)
    BY <1>0, GoneIs, BoundAssumption DEF FilesTypeOK, Nodes, Spare, Alive
  <2>4. k \in Nodes /\ (k = next \/ (k # next /\ Here(node, k, r.path, r.name) /\ node[k].fork = "info"))
    <3>1. CASE have = {}
      BY <1>2, <1>4, <2>3, <3>1, BoundAssumption DEF Nodes
    <3>2. CASE have # {}
      <4>1. k \in have
        BY <1>2, <3>2
      <4>2. k \in Nodes /\ Here(node, k, r.path, r.name) /\ node[k].fork = "info"
        BY <4>1, AtIs
      <4> QED BY <2>3, <4>2 DEF Here
    <3> QED BY <3>1, <3>2
  <2>5. \A y \in Nodes : Here(node, y, r.path, r.name) /\ node[y].fork = "info" => y = k
    <3> SUFFICES ASSUME NEW y \in Nodes, Here(node, y, r.path, r.name), node[y].fork = "info"
                 PROVE  y = k
      OBVIOUS
    <3>1. y \in have
      BY AtIs
    <3>2. k \in have
      BY <1>2, <3>1
    <3>3. k \in Nodes /\ Here(node, k, r.path, r.name) /\ node[k].fork = "info"
      BY <3>2, AtIs
    <3>4. node[y].dir = node[k].dir /\ node[y].name = node[k].name
      BY <1>0, <1>1, <3>3, Neighbours
    <3> QED BY <1>0, <3>3, <3>4 DEF Unique, Here
  <2>6. /\ node'[k] = Entered(d, r.name, "info", "file", r.obj, Cut)
        /\ \A y \in Nodes \ {k} : node'[y] = node[y]
        /\ node' \in [Nodes -> NodeRec]
    <3>1. Entered(d, r.name, "info", "file", r.obj, Cut) \in NodeRec
      BY <1>1, <2>2 DEF Entered, NodeRec, Forks
    <3> QED BY <1>0, <1>4, <2>1, <2>4, <3>1 DEF FilesTypeOK
  <2>7. /\ node'[k].dir = d /\ node'[k].name = r.name /\ node'[k].fork = "info"
        /\ node'[k].kind = "file" /\ node'[k].of = r.obj
    BY <2>6 DEF Entered
  <2>8. next' \in 1 .. MaxNodes + 1 /\ next <= next' /\ k < next'
    BY <1>0, <1>4, <2>3, <2>4, BoundAssumption DEF FilesTypeOK, Spare, Here, Nodes
  <2>9. Put({k}, d, r.path, r.name)
    <3>1. next' \in Nat
      BY <2>8
    <3>2. \/ /\ next <= k /\ k < next'
             /\ \A y \in Nodes : Here(node, y, r.path, r.name) => node[y].fork # node'[k].fork
          \/ /\ Here(node, k, r.path, r.name) /\ node[k].fork = node'[k].fork /\ node[k].fork # "data"
      <4>1. CASE k = next
        BY <2>3, <2>4, <2>5, <2>7, <2>8, <4>1 DEF Here
      <4>2. CASE k # next
        BY <2>4, <2>7, <4>2
      <4> QED BY <4>1, <4>2
    <3> QED BY <2>2, <2>3, <2>4, <2>6, <2>7, <2>8, <3>1, <3>2 DEF Put
  <2>10. /\ Local(node, node', {<<r.path, r.name>>}, {})
         /\ \A x \in Nodes : ~Alive(node, x) /\ x < next => node'[x] = node[x]
         /\ Unique(node')
         /\ FolderIn(node', r.path) = FolderIn(node, r.path)
         /\ Here(node', k, r.path, r.name)
         /\ \A y \in Nodes : node'[y].dir < next'
         /\ \A y \in Nodes : y >= next' => node'[y] = Gone
         /\ Alive(node, k) => Here(node, k, r.path, r.name) /\ node[k].fork = node'[k].fork
    <3>1. PICK p \in Paths, n \in Names, K \in {{k}} : p = r.path /\ n = r.name
      BY <1>1
    <3>2. Put(K, d, p, n)
      BY <2>9, <3>1
    <3>3. /\ Local(node, node', {<<p, n>>}, {})
          /\ \A x \in Nodes : ~Alive(node, x) /\ x < next => node'[x] = node[x]
          /\ Unique(node')
          /\ FolderIn(node', p) = FolderIn(node, p)
          /\ \A l \in K : Here(node', l, p, n)
          /\ \A y \in Nodes : node'[y].dir < next'
          /\ \A y \in Nodes : y >= next' => node'[y] = Gone
          /\ \A l \in K : Alive(node, l) => Here(node, l, p, n) /\ node[l].fork = node'[l].fork
      BY <3>2, PutTells
    <3> QED BY <3>1, <3>3
  <2> DEFINE q == [r EXCEPT !.at = "write", !.info = k]
  <2>11. /\ Alike(r, q) /\ q.at = "write" /\ q.info = k /\ q.kind = r.kind /\ q.text = r.text
         /\ q \in FileRequests /\ req' = [req EXCEPT ![c] = q]
    <3>1. q \in FileRequests
      BY <1>0, <2>4 DEF FileRequests
    <3>2. Alike(r, q) /\ q.at = "write" /\ q.info = k /\ q.kind = r.kind /\ q.text = r.text
      BY <1>0 DEF Alike, FileRequests
    <3>3. req' = [req EXCEPT ![c] = q]
      BY <1>0, <1>4 DEF FilesTypeOK
    <3> QED BY <3>1, <3>2, <3>3
  <2> HIDE DEF q, have
  <2>12. ~Lags(q) /\ Writes(q) /\ Served(q) /\ SaneIn(q) /\ q.obj = r.obj /\ q.path = r.path /\ q.name = r.name
    BY <1>0, <1>1, <2>4, <2>11, RootApart DEF Lags, Writes, Served, SaneIn, Alike, Forks, Root
  <2>13. Becomes(c, r, q)
    BY <1>1, <2>8, <2>11, <2>12 DEF Becomes
  <2>14. req' \in [Conns -> FileRequests]
    BY <2>13, BecomesTells
  <2>15. PICK M : Slack(M) /\ Known(M, {})
    BY <1>0, <1>4, <2>14, Loosened
  <2>16. loose \subseteq M /\ M \subseteq loose'
    BY <2>15 DEF Slack
  <2>17. \A y \in Nodes : /\ IsFile(node', y) <=> IsFile(node, y)
                          /\ IsFile(node, y) => y # k /\ node'[y] = node[y]
    <3>1. ~IsFile(node, k) /\ ~IsFile(node', k)
      BY <2>7, <2>10 DEF IsFile
    <3> QED BY <2>6, <3>1 DEF IsFile, Alive
  <2>18. Owned(node', loose')
    <3> SUFFICES ASSUME NEW y \in Nodes, IsSide(node', y)
                 PROVE  /\ node'[y].of # 0
                        /\ node'[y].fork = "rsrc" /\ node'[y].of \notin loose'
                              => node'[node'[y].of].kind # "folder"
      BY DEF Owned
    <3>1. CASE y = k
      BY <1>1, <2>7, <3>1
    <3>2. CASE y # k
      <4>1. node'[y] = node[y] /\ IsSide(node, y)
        BY <2>6, <3>2 DEF IsSide, Alive
      <4>2. node[y].of # 0 /\ node[y].of \in Nodes
        BY <1>0, <4>1 DEF Owned, FilesTypeOK, NodeRec, Root
      <4>3. node'[node[y].of].kind = node[node[y].of].kind \/ node'[node[y].of].kind = "file"
        BY <2>6, <2>7, <4>2
      <4> QED BY <1>0, <2>16, <4>1, <4>2, <4>3 DEF Owned
    <3> QED BY <3>1, <3>2
  <2>19. \A y \in Nodes : node'[y].of < next'
    <3>1. \A y \in Nodes : node[y].of \in Nat /\ node[y].of < next
      BY <1>0, <2>3 DEF FilesTypeOK, NodeRec, Spare, Root
    <3>2. r.obj \in Nat /\ r.obj < next
      BY <1>0, <1>1, <2>3 DEF Spare
    <3> QED BY <2>3, <2>6, <2>7, <2>8, <3>1, <3>2
  <2>20. Tidy({})
    <3>1. \A y \in Nodes : y >= next' => comment[y] = NoComment /\ makers[y] = {}
      BY <1>0, <2>3, <2>8 DEF Spare
    <3> QED BY <1>0, <2>6, <2>8, <2>10, <2>18, <2>19, <3>1 DEF Tidy, FilesTypeOK
  <2>21. Undisturbed(node, node', comment, M, r.obj)
    <3>1. ASSUME NEW y \in Nodes, IsSide(node', y), node'[y].of \notin M \cup {r.obj}
          PROVE  node'[y] = node[y] /\ (NearTo(node, y) => NearTo(node', y))
      <4>1. y # k /\ node'[y] = node[y]
        BY <2>6, <2>7, <3>1
      <4>2. node[y].of \in Nodes
        BY <1>0, <3>1, <4>1 DEF Owned, FilesTypeOK, NodeRec, Root, IsSide, Alive
      <4> QED BY <2>17, <4>1, <4>2 DEF NearTo
    <3>2. ASSUME NEW y \in Nodes \ (M \cup {r.obj}), NEW x \in Nodes, IsInfo(node, x), node[x].of = y
          PROVE  node'[x] = node[x]
      <4>1. CASE x = k
        <5>1. Here(node, x, r.path, r.name) /\ IsSide(node, x)
          BY <2>10, <3>2, <4>1 DEF IsInfo, IsSide
        <5>2. y \in loose \cup {r.obj}
          BY <1>1, <3>2, <5>1, Foreign
        <5> QED BY <2>16, <5>2
      <4> QED BY <2>6, <4>1
    <3> QED BY <2>17, <3>1, <3>2 DEF Undisturbed
  <2>22. ASSUME r.obj \notin loose
         PROVE  /\ InPlace(node, r) /\ IsFile(node, r.obj) /\ Here(node, r.obj, r.path, r.name)
                /\ node'[r.obj] = node[r.obj] /\ Here(node', r.obj, r.path, r.name)
                /\ Followed(node, r, comment, r.obj)
    <3>1. InPlace(node, r) /\ Followed(node, r, comment, r.obj)
      BY <1>0, <1>1, <2>22, FollowedNow
    <3>2. IsFile(node, r.obj) /\ Here(node, r.obj, r.path, r.name)
      BY <1>1, <3>1 DEF InPlace
    <3> QED BY <1>1, <2>10, <2>17, <3>1, <3>2 DEF Here, Alive
  <2>23. ASSUME r.obj \notin M PROVE Trails(node', q, r.obj)
    <3> SUFFICES ASSUME NEW y \in Nodes, IsSide(node', y), node'[y].of = r.obj PROVE NearTo(node', y)
      BY DEF Trails
    <3>1. CASE y = k
      <4>1. node'[y].dir = node'[r.obj].dir /\ node'[y].name = node'[r.obj].name
        BY <1>1, <2>10, <2>16, <2>22, <2>23, <3>1, Neighbours
      <4> QED BY <1>1, <2>16, <2>17, <2>22, <2>23, <4>1 DEF NearTo
    <3>2. CASE y # k
      <4>1. node'[y] = node[y] /\ IsSide(node, y)
        BY <2>6, <3>2 DEF IsSide, Alive
      <4>2. NearTo(node, y)
        BY <1>1, <2>16, <2>22, <2>23, <4>1 DEF Followed, Trails, Behind
      <4> QED BY <1>1, <2>17, <4>1, <4>2 DEF NearTo
    <3> QED BY <3>1, <3>2
  <2>24. ASSUME r.obj \notin loose' PROVE Tells(node', q, comment, r.obj)
    <3>1. ASSUME NEW y \in Nodes, IsInfo(node', y), node'[y].of = r.obj PROVE y = k
      <4>0. SUFFICES ASSUME y # k PROVE FALSE
        OBVIOUS
      <4>1. node'[y] = node[y] /\ IsSide(node, y) /\ node[y].fork = "info"
        BY <2>6, <3>1, <4>0 DEF IsSide, IsInfo, Alive
      <4>2. NearTo(node, y)
        BY <1>1, <2>16, <2>22, <2>24, <3>1, <4>1 DEF Followed, Trails, Behind
      <4>3. Here(node, y, r.path, r.name)
        BY <2>16, <2>22, <2>24, <3>1, <4>1, <4>2 DEF NearTo, Here, IsSide
      <4> QED BY <2>5, <4>0, <4>1, <4>3
    <3>2. IsInfo(node', k) /\ node'[k].of = r.obj
      BY <2>7 DEF IsInfo, Alive
    <3> QED BY <2>4, <2>11, <2>12, <3>1, <3>2 DEF Tells
  <2>25. AloneThere(node', q, M) /\ AloneIn(node', q, loose')
    <3>1. \A i \in Nodes \ loose : IsFile(node', i) /\ Here(node', i, r.path, r.name) => i = r.obj
      BY <1>0, <1>1, <2>10, <2>17 DEF AloneIn, Here, Alive
    <3> QED BY <2>12, <2>16, <3>1 DEF AloneThere, AloneIn
  <2>26. ASSUME q.obj \notin loose' \cup {0} PROVE InPlace(node', q)
    <3>1. /\ InPlace(node, r) /\ node'[r.obj] = node[r.obj] /\ Here(node', r.obj, r.path, r.name)
          /\ IsFile(node', r.obj)
      BY <1>1, <2>12, <2>16, <2>17, <2>22, <2>26
    <3>2. InPlace(node', r)
      BY <1>1, <3>1 DEF InPlace, Alive
    <3> QED BY <1>1, <2>11, <2>12, <3>2, SameStage
  <2>27. InHand(node', q)
    BY <2>7, <2>10, <2>11, <2>12 DEF InHand, IsInfo, Alive
  <2>28. {<<r.path, r.name>>} \subseteq Touches(r)
    BY <1>0, TouchesIs
  <2> HIDE DEF r
  <2> QED BY <1>0, <2>10, <2>13, <2>15, <2>20, <2>21, <2>23, <2>24, <2>25, <2>26, <2>27, <2>28, Worked
<1> QED BY <1>2, <1>3, <1>4 DEF OpenInfo

\* Creating a folder keeps the invariant.
LEMMA MkdirKeeps ==
    ASSUME FilesInv, NEW c \in Conns, Mkdir(c) PROVE FilesInv'
<1> DEFINE r == req[c]
<1>0. /\ FilesTypeOK /\ Spare /\ Unique(node) /\ Owned(node, loose) /\ r \in FileRequests /\ SaneIn(r)
      /\ r.at = "mkdir" /\ End(c) /\ UNCHANGED <<left, comment>>
  BY DEF FilesInv, FilesTypeOK, Mkdir
<1>1. /\ Served(r) /\ r.obj = 0 /\ ~Writes(r) /\ ~Lags(r)
      /\ r.path \in Paths /\ r.name \in Names
  BY <1>0 DEF Served, SaneIn, Writes, Lags, FileRequests
<1>2. CASE UNCHANGED <<node, next, loose, makers>>
  BY <1>0, <1>1, <1>2, QuietEnd
<1>3. CASE /\ At(r.path, r.name, "data") = {}
           /\ next <= MaxNodes
           /\ \E d \in Folder(r.path) : node' =
                 [node EXCEPT ![next] = Entered(d, r.name, "data", "folder", 0, NoComment)]
           /\ next' = next + 1
           /\ makers' = [makers EXCEPT ![next] = {c}]
           /\ Loosen({})
  <2>1. PICK d \in Folder(r.path) : node' =
                 [node EXCEPT ![next] = Entered(d, r.name, "data", "folder", 0, NoComment)]
    BY <1>3
  <2>2. d \in FolderIn(node, r.path) /\ d \in {Root} \cup Nodes
    <3>1. Folder(r.path) = FolderIn(node, r.path)
      BY DEF Folder, FolderIn
    <3> QED BY <1>1, <2>1, <3>1, FolderIs
  <2>3. PICK k \in Nodes : k = next
    BY <1>0, <1>3, BoundAssumption DEF FilesTypeOK, Nodes
  <2>4. next \in Nat /\ next > 0 /\ (\A y \in Nodes : y \in Nat) /\ \A y \in Nodes : y >= next => ~Alive(node, y)
    BY <1>0, GoneIs, BoundAssumption DEF FilesTypeOK, Nodes, Spare, Alive
  <2>5. /\ node'[k] = Entered(d, r.name, "data", "folder", 0, NoComment)
        /\ \A y \in Nodes \ {k} : node'[y] = node[y]
        /\ node' \in [Nodes -> NodeRec]
    <3>1. Entered(d, r.name, "data", "folder", 0, NoComment) \in NodeRec
      BY <1>1, <2>2 DEF Entered, NodeRec, Forks
    <3> QED BY <1>0, <2>1, <2>3, <3>1 DEF FilesTypeOK
  <2>6. /\ node'[k].dir = d /\ node'[k].name = r.name /\ node'[k].fork = "data"
        /\ node'[k].kind = "folder" /\ node'[k].of = 0
    BY <2>5 DEF Entered
  <2>7. next' \in 1 .. MaxNodes + 1 /\ next <= next' /\ k < next' /\ next' \in Nat
    BY <1>0, <1>3, <2>3, <2>4, BoundAssumption DEF FilesTypeOK
  <2>8. \A y \in Nodes : Here(node, y, r.path, r.name) => node[y].fork # "data"
    BY <1>3, AtIs
  <2>9. PICK p \in Paths, n \in Names, K \in {{k}} : p = r.path /\ n = r.name
    BY <1>1
  <2>10. Put(K, d, p, n)
    BY <2>2, <2>3, <2>4, <2>5, <2>6, <2>7, <2>8, <2>9 DEF Put
  <2>11. /\ Local(node, node', {<<p, n>>}, {})
         /\ \A x \in Nodes : ~Alive(node, x) /\ x < next => node'[x] = node[x]
         /\ Unique(node')
         /\ \A y \in Nodes : node'[y].dir < next'
         /\ \A y \in Nodes : y >= next' => node'[y] = Gone
    BY <2>10, PutTells
  <2>12. Becomes(c, r, NoRequest)
    BY <1>0, <1>1, <2>4, <2>7, EndIs
  <2>13. req' \in [Conns -> FileRequests]
    BY <2>12, BecomesTells
  <2>14. PICK M : Slack(M) /\ Known(M, {})
    BY <1>0, <1>3, <2>13, Loosened
  <2>15. loose \subseteq M /\ M \subseteq loose'
    BY <2>14 DEF Slack
  <2>16. \A y \in Nodes : node[y].of \in Nat /\ node[y].of < next
    BY <1>0, <2>4 DEF FilesTypeOK, NodeRec, Spare, Root
  <2>17. \A y \in Nodes : IsSide(node', y) => y # k /\ node'[y] = node[y] /\ IsSide(node, y) /\ node[y].of # k
    BY <2>3, <2>5, <2>6, <2>16 DEF IsSide, Alive
  <2>18. Owned(node', loose')
    <3> SUFFICES ASSUME NEW y \in Nodes, IsSide(node', y)
                 PROVE  /\ node'[y].of # 0
                        /\ node'[y].fork = "rsrc" /\ node'[y].of \notin loose'
                              => node'[node'[y].of].kind # "folder"
      BY DEF Owned
    <3>1. node[y].of # 0 /\ node[y].of \in Nodes \ {k}
      BY <1>0, <2>17 DEF Owned, FilesTypeOK, NodeRec, Root
    <3>2. node'[node[y].of] = node[node[y].of]
      BY <2>5, <3>1
    <3> QED BY <1>0, <2>15, <2>17, <3>1, <3>2 DEF Owned
  <2>19. \A y \in Nodes : node'[y].of < next'
    BY <2>4, <2>5, <2>6, <2>7, <2>16
  <2>20. Tidy({})
    <3>1. \A y \in Nodes : y >= next' => comment[y] = NoComment /\ makers'[y] = {}
      BY <1>0, <1>3, <2>3, <2>4, <2>7 DEF Spare, FilesTypeOK
    <3>2. makers' \in [Nodes -> SUBSET Conns]
      BY <1>0, <1>3 DEF FilesTypeOK
    <3> QED BY <1>0, <2>5, <2>7, <2>11, <2>18, <2>19, <3>1, <3>2 DEF Tidy, FilesTypeOK
  <2>21. Undisturbed(node, node', comment, M, r.obj)
    <3>1. ASSUME NEW y \in Nodes, IsSide(node', y)
          PROVE  node'[y] = node[y] /\ (NearTo(node, y) => NearTo(node', y))
      <4>1. node[y].of \in Nodes => node'[node[y].of] = node[node[y].of]
        BY <2>5, <2>17, <3>1
      <4>2. node[y].of \in Nodes
        BY <1>0, <2>17, <3>1 DEF Owned, FilesTypeOK, NodeRec, Root
      <4> QED BY <2>17, <3>1, <4>1, <4>2 DEF NearTo, IsFile, Alive
    <3>2. \A x \in Nodes : IsInfo(node, x) => node'[x] = node[x]
      BY <2>3, <2>4, <2>5 DEF IsInfo
    <3>3. comment[k] = NoComment
      BY <1>0, <2>3, <2>4 DEF Spare
    <3>4. \A o \in Nodes : IsFile(node', o) /\ comment[o] # NoComment => IsFile(node, o)
      BY <2>5, <3>3 DEF IsFile, Alive
    <3> QED BY <3>1, <3>2, <3>4 DEF Undisturbed
  <2>22. AloneThere(node', NoRequest, M) /\ AloneIn(node', NoRequest, loose')
    BY NoneIsRequest DEF AloneThere, AloneIn
  <2>23. {<<p, n>>} \subseteq Touches(r)
    BY <1>0, <2>9, TouchesIs
  <2> HIDE DEF r
  <2> QED BY <1>0, <1>1, <2>11, <2>12, <2>14, <2>20, <2>21, <2>22, <2>23, NoneIsRequest, Worked
<1> QED BY <1>2, <1>3 DEF Mkdir

-----------------------------------------------------------------------------
(* The server ends in the middle of requests *)

\* A crash keeps the invariant: the files of all requests are loose after it.
LEMMA ServerCrashKeeps ==
    ASSUME FilesInv, ServerCrash PROVE FilesInv'
<1> DEFINE L == {req[c].obj : c \in Conns} \ {0}
<1>0. /\ FilesTypeOK /\ Spare /\ Unique(node) /\ Owned(node, loose) /\ Near(node, req, loose)
      /\ Texts(node, req, comment, loose) /\ Noted(node, comment, loose)
      /\ \A c \in Conns : req[c] \in FileRequests
  BY DEF FilesInv, FilesTypeOK
<1>1. UNCHANGED <<node, next, left, comment, makers>> /\ Loosen(L) /\ req' = [c \in Conns |-> NoRequest]
  BY DEF ServerCrash
<1>2. req' \in [Conns -> FileRequests] /\ \A c \in Conns : req'[c] = NoRequest
  BY <1>1, NoneIsRequest
<1>3. L \subseteq Nodes /\ \A i \in L : i < next
  BY <1>0 DEF FileRequests, Spare
<1>4. PICK M : Slack(M) /\ L \subseteq M /\ Known(M, L)
  BY <1>0, <1>1, <1>2, <1>3, Loosened
<1>5. loose \subseteq M /\ M \subseteq loose'
  BY <1>4 DEF Slack
<1>6. \A c \in Conns : req[c].obj \in M \cup {0}
  BY <1>4
<1>7. Tidy(L)
  BY <1>1, <1>3, <1>5, SameTidy
<1>8. \A c \in Conns : req'[c].obj < next' /\ req'[c].info < next'
  <2>1. 0 < next
    BY <1>0, BoundAssumption DEF FilesTypeOK
  <2> QED BY <1>1, <1>2, <2>1, NoneIsRequest
<1>9. FilesTypeOK' /\ Spare'
  BY <1>2, <1>4, <1>7, <1>8, TidyFresh
<1>10. ASSUME NEW k \in Nodes, IsSide(node, k) PROVE node[k].of # 0
  BY <1>0, <1>10 DEF Owned
<1>11. Near(node', req', M)
  <2> SUFFICES ASSUME NEW k \in Nodes, IsSide(node, k), node[k].of \notin M PROVE NearTo(node, k)
    BY <1>1 DEF Near
  <2> QED BY <1>0, <1>5, <1>6, <1>10 DEF Near
<1>12. Texts(node', req', comment', loose')
  <2> SUFFICES ASSUME NEW k \in Nodes, IsInfo(node, k), node[k].of \notin loose'
               PROVE  node[k].text = comment[node[k].of]
    BY <1>1 DEF Texts
  <2>1. IsSide(node, k)
    BY DEF IsInfo, IsSide
  <2> QED BY <1>0, <1>5, <1>6, <1>10, <2>1 DEF Texts
<1>13. Noted(node', comment', loose')
  BY <1>0, <1>1, <1>5 DEF Noted
<1>14. \A c \in Conns : /\ AloneThere(node', req'[c], M) /\ AloneIn(node', req'[c], loose')
                        /\ ~Served(req'[c]) /\ req'[c].obj = 0 /\ ~Writes(req'[c]) /\ SaneIn(req'[c])
  BY <1>2, NoneIsRequest DEF AloneThere, AloneIn
<1>15. Own(node', loose')
  BY <1>4, <1>7, <1>9, <1>11, <1>14, OwnNext DEF Tidy
<1>16. Near(node', req', loose')
  BY <1>5, <1>11 DEF Near
<1>17. Rivals(req', loose') /\ Contest(node', req', loose')
  BY <1>14 DEF Rivals, Contest
<1>18. Alone(node', req', loose') /\ Placed(node', req', loose') /\ Handles(node', req', loose')
  BY <1>14 DEF Alone, Placed, Handles
<1> QED BY <1>7, <1>9, <1>12, <1>13, <1>14, <1>15, <1>16, <1>17, <1>18 DEF FilesInv, Tidy

-----------------------------------------------------------------------------
(* An upload begins *)

\* The entries that an upload opens or creates: inc for the data, and with
\* preserved forks res and inf.
Enters(r, keep, par, res, inf, d) ==
    /\ {par} \cup (IF keep THEN {res, inf} ELSE {}) \subseteq Nodes
    /\ node'[par] = Entered(d, r.name, "incomplete", "file", 0, NoComment)
    /\ keep => /\ node'[res] = Entered(d, r.name, "rsrc", "file", par, NoComment)
               /\ node'[inf] = Entered(d, r.name, "info", "file", par, Cut)
    /\ Put({par} \cup (IF keep THEN {res, inf} ELSE {}), d, r.path, r.name)
    /\ r.obj = par /\ r.info = (IF keep THEN inf ELSE 0)
    /\ par < next' /\ (keep => inf < next')
    /\ next' \in 1 .. MaxNodes + 1

\* Entry i is where fork f belongs: the one that is there or a new one.
Found(p, n, f, i, number) ==
    i = IF At(p, n, f) = {} THEN number ELSE CHOOSE x \in At(p, n, f) : TRUE

\* An entry that an upload opens is a new one or lies there as that fork.
LEMMA FoundIs ==
    ASSUME FilesInv, NEW p \in Paths, NEW n \in Names, NEW f \in Forks, NEW i, NEW number,
           Found(p, n, f, i, number), number \in Nat, next <= number
    PROVE  \/ /\ i = number /\ At(p, n, f) = {}
              /\ \A y \in Nodes : Here(node, y, p, n) => node[y].fork # f
           \/ i \in Nodes /\ i < next /\ Here(node, i, p, n) /\ node[i].fork = f /\ At(p, n, f) # {}
<1>1. CASE At(p, n, f) = {}
  BY <1>1, AtIs DEF Found
<1>2. CASE At(p, n, f) # {}
  <2>1. i \in At(p, n, f)
    BY <1>2 DEF Found
  <2> QED BY <1>2, <2>1, AtIs, AtFresh
<1> QED BY <1>1, <1>2

\* What an upload opens: its partial file and, if forks are kept, both forks.
LEMMA UploadOpens ==
    ASSUME FilesInv, NEW c \in Conns, Ready(c), NEW p \in Paths, NEW n \in Names, NEW cm \in Comments,
           Upload(c, p, n, cm)
    PROVE  \E r, keep, par, res, inf, d :
              /\ r \in FileRequests /\ keep \in BOOLEAN
              /\ r.op = "upload" /\ r.path = p /\ r.name = n /\ r.kind = "file" /\ r.text = cm
              /\ r.at = "receive" /\ Begin(c, r) /\ Enters(r, keep, par, res, inf, d)
              /\ At(p, n, "data") = {} /\ UNCHANGED <<comment, makers>>
<1> DEFINE have(f) == At(p, n, f)
           new(f)  == IF have(f) = {} THEN 1 ELSE 0
<1>1. At(p, n, "data") = {} /\ UNCHANGED <<comment, makers>>
  BY DEF Upload
<1>2. PICK d \in Folder(p), kp \in Preserve :
        LET par == IF have("incomplete") = {} THEN next
                   ELSE CHOOSE x \in have("incomplete") : TRUE
            res == IF have("rsrc") = {} THEN next + new("incomplete")
                   ELSE CHOOSE x \in have("rsrc") : TRUE
            inf == IF have("info") = {} THEN next + new("incomplete") + new("rsrc")
                   ELSE CHOOSE x \in have("info") : TRUE
            sum == next + new("incomplete")
                        + IF kp THEN new("rsrc") + new("info") ELSE 0
        IN /\ sum <= MaxNodes + 1
           /\ next' = sum
           /\ node' = [i \in Nodes |->
                CASE i = par -> Entered(d, n, "incomplete", "file", 0, NoComment)
                  [] kp /\ i = res -> Entered(d, n, "rsrc", "file", par, NoComment)
                  [] kp /\ i = inf -> Entered(d, n, "info", "file", par, Cut)
                  [] OTHER -> node[i]]
           /\ Begin(c, [op |-> "upload", path |-> p, name |-> n, to |-> p, new |-> n,
                        kind |-> "file", text |-> cm, at |-> "receive",
                        obj |-> par, info |-> IF kp THEN inf ELSE 0])
  BY DEF Upload
<1>3. PICK keep \in BOOLEAN : keep <=> kp
  OBVIOUS
<1>4. PICK par, a : Found(p, n, "incomplete", par, next) /\ a = next + new("incomplete")
                    /\ par = IF have("incomplete") = {} THEN next
                             ELSE CHOOSE x \in have("incomplete") : TRUE
  BY DEF Found
<1>5. PICK res, b : Found(p, n, "rsrc", res, a) /\ b = a + new("rsrc")
                    /\ res = IF have("rsrc") = {} THEN a ELSE CHOOSE x \in have("rsrc") : TRUE
  BY DEF Found
<1>6. PICK inf, e : Found(p, n, "info", inf, b) /\ e = b + new("info")
                    /\ inf = IF have("info") = {} THEN b ELSE CHOOSE x \in have("info") : TRUE
  BY DEF Found
<1>7. PICK r : r = [op |-> "upload", path |-> p, name |-> n, to |-> p, new |-> n,
                    kind |-> "file", text |-> cm, at |-> "receive",
                    obj |-> par, info |-> IF keep THEN inf ELSE 0]
  OBVIOUS
<1>8. /\ next \in Nat /\ next > 0 /\ a \in Nat /\ b \in Nat /\ e \in Nat
      /\ (have("incomplete") = {} => a = next + 1) /\ (have("incomplete") # {} => a = next)
      /\ (have("rsrc") = {} => b = a + 1) /\ (have("rsrc") # {} => b = a)
      /\ (have("info") = {} => e = b + 1) /\ (have("info") # {} => e = b)
  BY <1>4, <1>5, <1>6, BoundAssumption DEF FilesInv, FilesTypeOK
<1>9. next' = (IF keep THEN e ELSE a) /\ next' <= MaxNodes + 1
  <2>1. CASE keep
    BY <1>2, <1>3, <1>4, <1>5, <1>6, <1>8, <2>1
  <2>2. CASE ~keep
    BY <1>2, <1>3, <1>4, <1>8, <2>2
  <2> QED BY <2>1, <2>2
<1>10. node' = [i \in Nodes |->
                CASE i = par -> Entered(d, n, "incomplete", "file", 0, NoComment)
                  [] keep /\ i = res -> Entered(d, n, "rsrc", "file", par, NoComment)
                  [] keep /\ i = inf -> Entered(d, n, "info", "file", par, Cut)
                  [] OTHER -> node[i]]
  BY <1>2, <1>3, <1>4, <1>5, <1>6
<1>11. Begin(c, r)
  BY <1>2, <1>3, <1>4, <1>5, <1>6, <1>7
<1> HIDE DEF have, new
<1>12. \A f \in Forks : have(f) = {} <=> At(p, n, f) = {}
  BY DEF have
<1>13. {"incomplete", "rsrc", "info"} \subseteq Forks
  BY DEF Forks
<1>14. /\ \/ par = next /\ a = next + 1 /\ \A y \in Nodes : Here(node, y, p, n) => node[y].fork # "incomplete"
          \/ /\ par \in Nodes /\ par < next /\ Here(node, par, p, n) /\ node[par].fork = "incomplete"
             /\ a = next
  BY <1>4, <1>8, <1>12, <1>13, FoundIs
<1>15. /\ \/ res = a /\ b = a + 1 /\ \A y \in Nodes : Here(node, y, p, n) => node[y].fork # "rsrc"
          \/ /\ res \in Nodes /\ res < next /\ Here(node, res, p, n) /\ node[res].fork = "rsrc"
             /\ b = a
  <2>1. next <= a
    BY <1>8, <1>14
  <2> QED BY <2>1, <1>5, <1>8, <1>12, <1>13, FoundIs
<1>16. /\ \/ inf = b /\ e = b + 1 /\ \A y \in Nodes : Here(node, y, p, n) => node[y].fork # "info"
          \/ /\ inf \in Nodes /\ inf < next /\ Here(node, inf, p, n) /\ node[inf].fork = "info"
             /\ e = b
  <2>1. next <= b
    BY <1>8, <1>14, <1>15
  <2> QED BY <2>1, <1>6, <1>8, <1>12, <1>13, FoundIs
<1>17. /\ next <= a /\ a <= b /\ b <= e /\ \A y \in Nodes : y \in Nat
       /\ par \in Nat /\ res \in Nat /\ inf \in Nat
       /\ par < a /\ res < b /\ inf < e
  <2>1. \A y \in Nodes : y \in Nat
    BY BoundAssumption DEF Nodes
  <2>2. next <= a /\ par \in Nat /\ par < a
    BY <1>8, <1>14, <2>1
  <2>3. a <= b /\ res \in Nat /\ res < b
    BY <1>8, <1>15, <2>1, <2>2
  <2>4. b <= e /\ inf \in Nat /\ inf < e
    BY <1>8, <1>16, <2>1, <2>2, <2>3
  <2> QED BY <2>1, <2>2, <2>3, <2>4
<1>18. par # res /\ par # inf /\ res # inf
  <2>1. par # res
    BY <1>8, <1>14, <1>15, <1>17
  <2>2. par # inf
    BY <1>8, <1>14, <1>16, <1>17
  <2>3. res # inf
    BY <1>8, <1>15, <1>16, <1>17
  <2> QED BY <2>1, <2>2, <2>3
<1>19. par # 0 /\ inf # 0 /\ res # 0
  BY <1>8, <1>14, <1>15, <1>16, <1>17, RootApart DEF Root
<1>20. next' \in Nat /\ next <= next' /\ next' \in 1 .. MaxNodes + 1 /\ par < next'
       /\ (keep => res < next' /\ inf < next')
  BY <1>8, <1>9, <1>17, BoundAssumption
<1>21. par \in Nodes /\ (keep => res \in Nodes /\ inf \in Nodes)
  BY <1>17, <1>19, <1>20, BoundAssumption DEF Nodes
<1>22. /\ node'[par] = Entered(d, n, "incomplete", "file", 0, NoComment)
       /\ keep => /\ node'[res] = Entered(d, n, "rsrc", "file", par, NoComment)
                  /\ node'[inf] = Entered(d, n, "info", "file", par, Cut)
  BY <1>10, <1>18, <1>21
<1> DEFINE K == {par} \cup (IF keep THEN {res, inf} ELSE {})
<1>23. \A y \in Nodes \ K : node'[y] = node[y]
  BY <1>10
<1>24. d \in FolderIn(node, p) /\ d \in {Root} \cup Nodes
  <2>1. Folder(p) = FolderIn(node, p)
    BY DEF Folder, FolderIn
  <2> QED BY <2>1, FolderIs
<1>25. node' \in [Nodes -> NodeRec]
  <2>1. /\ Entered(d, n, "incomplete", "file", 0, NoComment) \in NodeRec
        /\ Entered(d, n, "rsrc", "file", par, NoComment) \in NodeRec
        /\ Entered(d, n, "info", "file", par, Cut) \in NodeRec
    BY <1>21, <1>24 DEF Entered, NodeRec, Forks
  <2>2. \A y \in Nodes : node'[y] \in NodeRec
    <3>1. \A y \in K : node'[y] \in NodeRec
      BY <1>22, <2>1
    <3> QED BY <1>23, <3>1 DEF FilesInv, FilesTypeOK
  <2> QED BY <1>10, <2>2
<1>26. /\ node'[par].fork = "incomplete" /\ node'[par].kind # "none" /\ node'[par].dir = d /\ node'[par].name = n
       /\ keep => /\ node'[res].fork = "rsrc" /\ node'[res].kind # "none" /\ node'[res].dir = d
                  /\ node'[res].name = n
                  /\ node'[inf].fork = "info" /\ node'[inf].kind # "none" /\ node'[inf].dir = d
                  /\ node'[inf].name = n
  BY <1>22 DEF Entered
<1>27. ASSUME NEW k \in K
       PROVE  /\ node'[k].kind # "none" /\ node'[k].dir = d /\ node'[k].name = n
              /\ \/ /\ next <= k /\ k < next'
                    /\ \A y \in Nodes : Here(node, y, p, n) => node[y].fork # node'[k].fork
                 \/ /\ Here(node, k, p, n) /\ node[k].fork = node'[k].fork /\ node[k].fork # "data"
  <2>1. CASE k = par
    BY <1>8, <1>14, <1>20, <1>26, <2>1
  <2>2. CASE keep /\ k = res
    BY <1>8, <1>15, <1>17, <1>20, <1>26, <2>2
  <2>3. CASE keep /\ k = inf
    BY <1>8, <1>16, <1>17, <1>20, <1>26, <2>3
  <2> QED BY <2>1, <2>2, <2>3
<1>28. \A k, l \in K : node'[k].fork = node'[l].fork => k = l
  BY <1>26
<1>29. K \subseteq Nodes
  BY <1>21
<1>30. Put(K, d, p, n)
  <2> HIDE DEF K
  <2> QED BY <1>8, <1>20, <1>23, <1>24, <1>25, <1>27, <1>28, <1>29 DEF Put
<1>31. /\ r.op = "upload" /\ r.path = p /\ r.name = n /\ r.kind = "file" /\ r.text = cm /\ r.at = "receive"
       /\ r.obj = par /\ r.info = (IF keep THEN inf ELSE 0)
  BY <1>7
<1>32. r \in FileRequests
  BY <1>7, <1>21 DEF FileRequests
<1>33. Enters(r, keep, par, res, inf, d)
  BY <1>20, <1>22, <1>29, <1>30, <1>31 DEF Enters
<1> HIDE DEF K
<1> QED BY <1>1, <1>11, <1>31, <1>32, <1>33

\* An upload that begins keeps the invariant.
LEMMA UploadKeeps ==
    ASSUME FilesInv, NEW c \in Conns, Ready(c), NEW p \in Paths, NEW n \in Names, NEW cm \in Comments,
           Upload(c, p, n, cm)
    PROVE  FilesInv'
<1>0. /\ FilesTypeOK /\ Spare /\ Unique(node) /\ Owned(node, loose) /\ Near(node, req, loose)
      /\ Texts(node, req, comment, loose) /\ Noted(node, comment, loose)
  BY DEF FilesInv
<1>1. PICK r, keep, par, res, inf, d :
              /\ r \in FileRequests /\ keep \in BOOLEAN
              /\ r.op = "upload" /\ r.path = p /\ r.name = n /\ r.kind = "file" /\ r.text = cm
              /\ r.at = "receive" /\ Begin(c, r) /\ Enters(r, keep, par, res, inf, d)
              /\ At(p, n, "data") = {} /\ UNCHANGED <<comment, makers>>
  BY UploadOpens
<1> DEFINE K == {par} \cup (IF keep THEN {res, inf} ELSE {})
<1>2. /\ K \subseteq Nodes /\ Put(K, d, p, n)
      /\ r.obj = par /\ r.info = (IF keep THEN inf ELSE 0)
      /\ par < next' /\ (keep => inf < next')
      /\ next' \in 1 .. MaxNodes + 1
  BY <1>1 DEF Enters
<1>3. /\ node'[par].fork = "incomplete" /\ node'[par].kind = "file" /\ node'[par].of = 0
      /\ node'[par].dir = d /\ node'[par].name = n
      /\ keep => /\ node'[res].fork = "rsrc" /\ node'[res].kind = "file" /\ node'[res].of = par
                 /\ node'[inf].fork = "info" /\ node'[inf].kind = "file" /\ node'[inf].of = par
  BY <1>1 DEF Enters, Entered
<1>4. par \in K /\ (keep => res \in K /\ inf \in K) /\ (\A k \in K : k = par \/ (keep /\ (k = res \/ k = inf)))
  OBVIOUS
<1> HIDE DEF K
<1>5. /\ Local(node, node', {<<p, n>>}, {})
      /\ \A x \in Nodes : ~Alive(node, x) /\ x < next => node'[x] = node[x]
      /\ Unique(node')
      /\ FolderIn(node', p) = FolderIn(node, p)
      /\ \A k \in K : Here(node', k, p, n)
      /\ \A y \in Nodes : node'[y].dir < next'
      /\ \A y \in Nodes : y >= next' => node'[y] = Gone
      /\ \A k \in K : Alive(node, k) => Here(node, k, p, n) /\ node[k].fork = node'[k].fork
                                       /\ node[k].dir = d /\ node[k].name = n
  <2>1. Put(K, d, p, n) /\ p \in Paths /\ n \in Names /\ FilesInv
    BY <1>2
  <2>2. Local(node, node', {<<p, n>>}, {})
    BY <2>1, PutTells
  <2>3. /\ \A x \in Nodes : ~Alive(node, x) /\ x < next => node'[x] = node[x]
        /\ Unique(node')
        /\ FolderIn(node', p) = FolderIn(node, p)
    BY <2>1, PutTells
  <2>4. \A k \in K : Here(node', k, p, n)
    BY <2>1, PutTells
  <2>5. /\ \A y \in Nodes : node'[y].dir < next'
        /\ \A y \in Nodes : y >= next' => node'[y] = Gone
    BY <2>1, PutTells
  <2>6. \A k \in K : Alive(node, k) => Here(node, k, p, n) /\ node[k].fork = node'[k].fork
                                       /\ node[k].dir = d /\ node[k].name = n
    <3>1. ASSUME NEW k \in K, Alive(node, k)
          PROVE  /\ Here(node, k, p, n) /\ node[k].fork = node'[k].fork
                 /\ node[k].dir = d /\ node[k].name = n
      <4>1. k \in Nodes /\ k \in Nat /\ next \in Nat /\ d \in FolderIn(node, p)
        BY <2>1, BoundAssumption DEF Put, Nodes
      <4>2. k < next
        BY <1>0, <3>1, <4>1, GoneIs DEF Spare, Alive
      <4>3. Here(node, k, p, n) /\ node[k].fork = node'[k].fork
        BY <2>1, <4>1, <4>2 DEF Put
      <4> QED BY <1>0, <4>1, <4>3, OneFolder DEF Here
    <3> QED BY <3>1
  <2> QED BY <2>2, <2>3, <2>4, <2>5, <2>6
<1>6. /\ \A y \in Nodes \ K : node'[y] = node[y]
      /\ node' \in [Nodes -> NodeRec] /\ next <= next' /\ next \in Nat /\ next' \in Nat
      /\ \A k \in K : next <= k \/ Alive(node, k)
  BY <1>2 DEF Put, Here
<1>7. /\ par \in Nodes /\ par # 0 /\ (\A y \in Nodes : y \in Nat) /\ (\A y \in Nodes : y >= next => ~Alive(node, y))
      /\ \A y \in Nodes : node[y].of \in Nat /\ node[y].of < next
  BY <1>0, <1>2, <1>4, GoneIs, BoundAssumption, RootApart DEF Nodes, Spare, Alive, FilesTypeOK, NodeRec, Root
<1>8. /\ req' = [req EXCEPT ![c] = r] /\ left' = left - 1 /\ Loosen({})
      /\ left > 0 /\ ~Served(req[c]) /\ ~Lags(req[c]) /\ ~Writes(req[c])
  BY <1>1 DEF Begin, Ready, Served, Lags, Writes
<1>9. /\ req' \in [Conns -> FileRequests] /\ req'[c] = r
      /\ \A e \in Conns \ {c} : req'[e] = req[e]
  BY <1>0, <1>1, <1>8 DEF FilesTypeOK
<1>10. PICK M : Slack(M) /\ Known(M, {})
  BY <1>0, <1>8, <1>9, Loosened
<1>11. loose \subseteq M /\ M \subseteq loose' /\ M \subseteq Nodes
  BY <1>10 DEF Slack
<1>12. Served(r) /\ ~Lags(r) /\ r.at \notin {"write", "idle"}
  BY <1>1 DEF Served, Lags
<1>13. Writes(r) => keep /\ r.info = inf
  BY <1>2 DEF Writes
<1>14. SaneIn(r)
  BY <1>1, <1>2, <1>7 DEF SaneIn, Forks
<1>15. /\ \A y \in Nodes : IsFile(node', y) /\ y # par => y \notin K /\ node'[y] = node[y] /\ IsFile(node, y)
       /\ \A k \in K \ {par} : ~IsFile(node, k)
       /\ Alive(node, par) => IsFile(node, par) /\ Here(node, par, p, n)
       /\ IsFile(node', par) /\ ~IsSide(node', par)
  BY <1>3, <1>4, <1>5, <1>6 DEF IsFile, Alive, IsSide
<1>16. \A y \in Nodes : IsSide(node', y) => node'[y].of = par \/ (y \notin K /\ node'[y] = node[y] /\ IsSide(node, y))
  BY <1>3, <1>4, <1>6, <1>15 DEF IsSide, Alive
\* A file that lies at the place of the upload before the step.
<1>17. \A y \in Nodes : IsFile(node, y) /\ Here(node, y, p, n) => y = par
  <2> SUFFICES ASSUME NEW y \in Nodes, IsFile(node, y), Here(node, y, p, n), y # par PROVE FALSE
    OBVIOUS
  <2>1. node[y].fork = "incomplete"
    <3>1. node[y].fork # "data"
      BY <1>1, AtIs
    <3> QED BY <3>1 DEF IsFile
  <2>2. y \notin K /\ node'[y] = node[y]
    BY <1>6, <1>15
  <2>3. Here(node', y, p, n) /\ Alive(node', y)
    BY <1>5, <2>2 DEF Here, Alive
  <2>4. Here(node', par, p, n) /\ Alive(node', par)
    BY <1>4, <1>5 DEF Here
  <2>5. node'[y].dir = node'[par].dir /\ node'[y].name = node'[par].name
    BY <1>5, <2>3, <2>4, Neighbours
  <2> QED BY <1>3, <1>5, <1>7, <2>1, <2>2, <2>3, <2>4, <2>5 DEF Unique
<1>18. \A y \in Nodes : NearTo(node, y) /\ node[y].of # 0 => (node[y].of \in Nodes /\ NearTo(node', y)) \/ y \in K
  <2> SUFFICES ASSUME NEW y \in Nodes \ K, NearTo(node, y), node[y].of # 0
               PROVE  node[y].of \in Nodes /\ NearTo(node', y)
    OBVIOUS
  <2>1. PICK o \in Nodes : o = node[y].of
    BY <1>0 DEF FilesTypeOK, NodeRec
  <2>2. IsFile(node, o) /\ node[o].dir = node[y].dir /\ node[o].name = node[y].name /\ node'[y] = node[y]
    BY <1>6, <2>1 DEF NearTo
  <2>3. CASE o = par
    BY <1>3, <1>4, <1>5, <1>15, <2>1, <2>2, <2>3 DEF NearTo, IsFile
  <2>4. CASE o # par
    <3>1. o \notin K /\ node'[o] = node[o]
      BY <1>6, <1>15, <2>2, <2>4
    <3> QED BY <2>1, <2>2, <3>1 DEF NearTo, IsFile, Alive
  <2> QED BY <2>1, <2>3, <2>4
<1>19. Owned(node', loose')
  <2> SUFFICES ASSUME NEW y \in Nodes, IsSide(node', y)
               PROVE  /\ node'[y].of # 0
                      /\ node'[y].fork = "rsrc" /\ node'[y].of \notin loose'
                            => node'[node'[y].of].kind # "folder"
    BY DEF Owned
  <2>1. CASE node'[y].of = par
    BY <1>3, <1>7, <2>1
  <2>2. CASE y \notin K /\ node'[y] = node[y] /\ IsSide(node, y)
    <3>1. PICK o \in Nodes : o = node[y].of /\ o # 0
      BY <1>0, <2>2 DEF Owned, FilesTypeOK, NodeRec, Root
    <3>2. node'[o] = node[o] \/ node'[o].kind = "file"
      BY <1>3, <1>4, <1>6
    <3> QED BY <1>0, <1>11, <2>2, <3>1, <3>2 DEF Owned
  <2> QED BY <1>16, <2>1, <2>2
<1>21. FilesTypeOK' /\ Spare'
  <2>1. left' \in 0 .. MaxRequests
    BY <1>0, <1>8, BoundAssumption DEF FilesTypeOK
  <2>2. \A y \in Nodes : y >= next' => node'[y] = Gone /\ comment'[y] = NoComment /\ makers'[y] = {}
    BY <1>0, <1>1, <1>5, <1>6, <1>7 DEF Spare
  <2>3. \A y \in Nodes : node'[y].of < next' /\ node'[y].dir < next'
    <3>1. \A y \in Nodes : node'[y].of < next'
      <4>1. \A y \in K : node'[y].of \in {0, par}
        BY <1>3, <1>4
      <4>2. 0 < next'
        BY <1>2
      <4> QED BY <1>2, <1>6, <1>7, <4>1, <4>2
    <3> QED BY <1>5, <3>1
  <2>4. \A e \in Conns : req'[e].obj < next' /\ req'[e].info < next'
    <3>1. \A e \in Conns : req[e].obj \in Nat /\ req[e].info \in Nat /\ req[e].obj < next /\ req[e].info < next
      BY <1>0, <1>7 DEF FilesTypeOK, FileRequests, Spare
    <3>2. r.obj < next' /\ r.info < next'
      BY <1>2
    <3> QED BY <1>6, <1>9, <3>1, <3>2
  <2>5. (\A i \in loose' : i < next') /\ loose' \subseteq Nodes
    BY <1>6, <1>10, <2>2, <2>4, LooseFresh
  <2>6. FilesTypeOK'
    BY <1>0, <1>1, <1>2, <1>6, <1>9, <2>1, <2>5 DEF FilesTypeOK
  <2>7. Spare'
    BY <2>2, <2>3, <2>4, <2>5 DEF Spare
  <2> QED BY <2>6, <2>7
<1>22. InPlace(node', r)
  BY <1>1, <1>2, <1>3, <1>4, <1>5, <1>12, <1>15 DEF InPlace
<1>23. StepOf(c, r, M, {<<p, n>>}, {})
  BY <1>1, <1>5, <1>8, <1>9, <1>10, <1>12, TouchesIs DEF StepOf, Alive
<1>24. OthersKept(c, r, M) /\ Rivals(req', M)
  BY <1>8, <1>9, <1>12, <1>22, <1>23, OthersKeep, RivalsBegin
<1>25. \A e \in Conns : Served(req[e]) =>
          /\ e # c /\ req'[e] = req[e] /\ req[e] \in FileRequests
          /\ req[e].obj = par => par \in M
          /\ Overlaps(r, req[e]) => req[e].obj \in M \cup {0}
  <2> SUFFICES ASSUME NEW e \in Conns, Served(req[e])
               PROVE  /\ e # c /\ req'[e] = req[e] /\ req[e] \in FileRequests
                      /\ req[e].obj = par => par \in M
                      /\ Overlaps(r, req[e]) => req[e].obj \in M \cup {0}
    OBVIOUS
  <2>1. e # c /\ req'[e] = req[e] /\ req[e] \in FileRequests
    BY <1>0, <1>8, <1>9 DEF FilesTypeOK
  <2>2. Rivals(req', M)
    BY <1>24
  <2> QED BY <1>2, <1>7, <1>9, <1>12, <2>1, <2>2, OverlapsEither DEF Rivals
\* What lies there already belongs to the upload or to a loose file.
<1>26. ASSUME NEW k \in Nodes, IsSide(node, k), Here(node, k, p, n) PROVE node[k].of \in M \cup {par}
  <2>1. node[k].of # 0 /\ node[k].of \in Nodes
    BY <1>0, <1>26 DEF Owned, FilesTypeOK, NodeRec, Root
  <2>2. CASE NearTo(node, k)
    BY <1>17, <1>26, <2>1, <2>2 DEF NearTo, Here, IsFile
  <2>3. ASSUME NEW e \in Conns, req[e].obj = node[k].of, Behind(node, req[e], k) PROVE node[k].of \in M
    <3>1. Served(req[e]) /\ Here(node, k, req[e].path, req[e].name)
      BY <2>3 DEF Behind, Lags, Served
    <3>2. req[e] \in FileRequests /\ req[e].path \in Paths
      BY <1>25, <3>1 DEF FileRequests
    <3>3. req[e].path = p /\ req[e].name = n
      BY <1>26, <3>1, <3>2, SamePlace
    <3>4. <<p, n>> \in Touches(r) \cap Touches(req[e])
      BY <1>1, <3>2, <3>3, TouchesIs
    <3>5. Overlaps(r, req[e])
      BY <3>4 DEF Overlaps
    <3> QED BY <1>25, <2>1, <2>3, <3>1, <3>5
  <2> QED BY <1>0, <1>11, <1>26, <2>1, <2>2, <2>3 DEF Near
<1>27. Undisturbed(node, node', comment, M, r.obj)
  <2>1. ASSUME NEW y \in Nodes, IsSide(node', y), node'[y].of \notin M \cup {par}
        PROVE  node'[y] = node[y] /\ (NearTo(node, y) => NearTo(node', y))
    <3>1. y \notin K /\ node'[y] = node[y] /\ IsSide(node, y)
      BY <1>16, <2>1
    <3>2. node[y].of # 0
      BY <1>0, <3>1 DEF Owned
    <3> QED BY <1>18, <3>1, <3>2
  <2>2. ASSUME NEW o \in Nodes \ (M \cup {par}), IsFile(node', o)
        PROVE  /\ IsFile(node, o)
               /\ \A x \in Nodes : IsInfo(node, x) /\ node[x].of = o => node'[x] = node[x]
    <3>1. ASSUME NEW x \in Nodes, IsInfo(node, x), node[x].of = o PROVE node'[x] = node[x]
      <4>1. CASE x \in K
        <5>1. IsSide(node, x) /\ Here(node, x, p, n)
          BY <1>5, <3>1, <4>1 DEF IsInfo, IsSide
        <5> QED BY <1>26, <2>2, <3>1, <5>1
      <4> QED BY <1>6, <4>1
    <3> QED BY <1>15, <2>2, <3>1
  <2> QED BY <1>2, <2>1, <2>2 DEF Undisturbed
\* Side entries that the partial file had before.
<1>28. ASSUME par \notin M, NEW y \in Nodes, IsSide(node, y), node[y].of = par
       PROVE  NearTo(node, y) /\ Here(node, y, p, n)
  <2>1. NearTo(node, y)
    <3>1. \A e \in Conns : Behind(node, req[e], y) => req[e].obj # par
      BY <1>25, <1>28 DEF Behind, Lags, Served
    <3> QED BY <1>0, <1>11, <1>28, <3>1 DEF Near
  <2>2. IsFile(node, par) /\ node[par].dir = node[y].dir /\ node[par].name = node[y].name
    BY <1>28, <2>1 DEF NearTo
  <2> QED BY <1>15, <1>28, <2>1, <2>2 DEF Here, IsFile, IsSide
<1>29. ASSUME par \notin M PROVE Trails(node', r, par)
  <2> SUFFICES ASSUME NEW y \in Nodes, IsSide(node', y), node'[y].of = par PROVE NearTo(node', y)
    BY DEF Trails
  <2>1. Here(node', y, p, n)
    <3>1. CASE y \in K
      BY <1>5, <3>1
    <3>2. CASE y \notin K
      <4>1. node'[y] = node[y] /\ IsSide(node, y)
        BY <1>6, <3>2 DEF IsSide, Alive
      <4> QED BY <1>5, <1>28, <1>29, <4>1 DEF Here, Alive
    <3> QED BY <3>1, <3>2
  <2>2. node'[y].dir = node'[par].dir /\ node'[y].name = node'[par].name
    BY <1>4, <1>5, <2>1, Neighbours
  <2> QED BY <1>15, <2>2 DEF NearTo
<1>30. ASSUME par \notin loose' PROVE Tells(node', r, comment', par)
  <2>0. par \notin M /\ par \notin loose
    BY <1>11, <1>30
  <2>1. ASSUME NEW y \in Nodes, IsInfo(node', y), node'[y].of = par
        PROVE  node'[y].text = comment[par] \/ (Writes(r) /\ r.info = y)
    <3>1. CASE y \in K
      <4>1. keep /\ y = inf
        BY <1>3, <1>4, <2>1, <3>1 DEF IsInfo
      <4> QED BY <1>1, <1>2, <1>4, <4>1, RootApart DEF Writes, Root
    <3>2. CASE y \notin K
      <4>1. node'[y] = node[y] /\ IsInfo(node, y) /\ IsSide(node, y) /\ node[y].of = par
        BY <1>6, <2>1, <3>2 DEF IsSide, IsInfo, Alive
      <4>2. \A e \in Conns : Writes(req[e]) => req[e].obj # par
        BY <1>25, <2>0 DEF Writes, Served
      <4> QED BY <1>0, <2>0, <4>1, <4>2 DEF Texts
    <3> QED BY <3>1, <3>2
  <2>2. ASSUME comment[par] # NoComment
        PROVE  \E y \in Nodes : IsInfo(node', y) /\ node'[y].of = par
    <3>1. CASE keep
      BY <1>2, <1>3, <1>4, <3>1 DEF IsInfo, Alive
    <3>2. CASE ~keep
      <4>1. par < next
        BY <1>0, <1>6, <1>7, <2>2 DEF Spare
      <4>2. IsFile(node, par)
        BY <1>4, <1>6, <1>7, <1>15, <4>1
      <4>3. PICK y \in Nodes : IsInfo(node, y) /\ node[y].of = par
        BY <1>0, <1>7, <2>0, <2>2, <4>2 DEF Noted
      <4>4. y # par
        BY <4>2, <4>3 DEF IsInfo, IsFile
      <4>5. node'[y] = node[y]
        BY <1>4, <1>6, <3>2, <4>4
      <4> QED BY <4>3, <4>5 DEF IsInfo, Alive
    <3> QED BY <3>1, <3>2
  <2> QED BY <1>1, <1>2, <2>1, <2>2 DEF Tells
<1>31. AloneThere(node', r, M) /\ AloneIn(node', r, loose')
  <2>1. ASSUME NEW i \in Nodes, IsFile(node', i), Here(node', i, p, n) PROVE i = par
    BY <1>5, <1>15, <1>17, <2>1 DEF Here, Alive
  <2> QED BY <1>1, <1>2, <1>12, <2>1 DEF AloneThere, AloneIn
<1>32. ASSUME Writes(r) PROVE InHand(node', r)
  BY <1>1, <1>2, <1>3, <1>4, <1>5, <1>13, <1>32 DEF InHand, IsInfo, Alive
<1>33. \A o \in Nodes \ {r.obj} : comment'[o] = comment[o]
  BY <1>1
<1> QED BY <1>2, <1>5, <1>9, <1>14, <1>19, <1>21, <1>22, <1>24, <1>27, <1>29, <1>30, <1>31, <1>32, <1>33, CombinedFine

-----------------------------------------------------------------------------
(* What is below an entry *)

\* A set that has 0 and with each number below N the next one has all up to N.
LEMMA Induction ==
    ASSUME NEW N \in Nat, NEW S, 0 \in S, \A n \in 0 .. N - 1 : n \in S => n + 1 \in S
    PROVE  0 .. N \subseteq S
<1> SUFFICES ASSUME ~ (0 .. N \subseteq S) PROVE FALSE
  OBVIOUS
<1> DEFINE T == (0 .. N) \ S
<1>1. T \subseteq Nat /\ T # {}
  OBVIOUS
<1>2. PICK x \in T : \A y \in T : ~ (<<y, x>> \in OpToRel(<, Nat))
  BY <1>1, WFMin, NatLessThanWellFounded
<1>3. \A y \in T : ~ (y < x)
  BY <1>1, <1>2 DEF OpToRel
<1>4. x # 0 /\ x \in 1 .. N /\ x - 1 \in 0 .. N - 1
  OBVIOUS
<1>5. x - 1 \in S
  BY <1>3, <1>4
<1> QED BY <1>4, <1>5

\* f starts with x and goes on from each value in V to the next one as G says.
Follows(f, N, V, x, G) ==
    /\ f \in [0 .. N -> V]
    /\ \A n \in 0 .. N : f[n] = IF n = 0 THEN x ELSE G[n][f[n - 1]]

\* There is a function that starts with x and goes on from each value to the
\* next one as G says.
LEMMA Recursion ==
    ASSUME NEW N \in Nat, NEW V, NEW x \in V, NEW G \in [1 .. N -> [V -> V]]
    PROVE  \E f : Follows(f, N, V, x, G)
<1> DEFINE Good(k, f) == \A n \in 0 .. k : f[n] = IF n = 0 THEN x ELSE G[n][f[n - 1]]
           S == {k \in 0 .. N : \E f \in [0 .. k -> V] : Good(k, f)}
<1>1. 0 \in S
  <2> DEFINE g == [n \in 0 .. 0 |-> x]
  <2>1. g \in [0 .. 0 -> V] /\ Good(0, g)
    OBVIOUS
  <2> HIDE DEF g, Good
  <2> QED BY <2>1
<1>2. ASSUME NEW k \in 0 .. N - 1, k \in S PROVE k + 1 \in S
  <2>1. PICK f \in [0 .. k -> V] : Good(k, f)
    BY <1>2
  <2> DEFINE g == [n \in 0 .. k + 1 |-> IF n = k + 1 THEN G[k + 1][f[k]] ELSE f[n]]
  <2>2. k \in 0 .. k /\ f[k] \in V /\ k + 1 \in 1 .. N
    OBVIOUS
  <2>3. G[k + 1][f[k]] \in V
    BY <2>2
  <2>4. g \in [0 .. k + 1 -> V]
    BY <2>3
  <2>5. ASSUME NEW n \in 0 .. k + 1 PROVE g[n] = IF n = 0 THEN x ELSE G[n][g[n - 1]]
    <3>1. CASE n = k + 1
      BY <3>1, <2>2
    <3>2. CASE n # k + 1
      <4>1. n \in 0 .. k /\ g[n] = f[n] /\ (n # 0 => n - 1 \in 0 .. k /\ g[n - 1] = f[n - 1])
        BY <3>2
      <4> QED BY <2>1, <4>1
    <3> QED BY <3>1, <3>2
  <2>6. Good(k + 1, g)
    BY <2>5
  <2> HIDE DEF g, Good
  <2> QED BY <2>4, <2>6
<1> HIDE DEF S
<1>3. 0 .. N \subseteq S
  BY <1>1, <1>2, Induction
<1>4. N \in S
  BY <1>3
<1> QED BY <1>4 DEF S, Follows

\* Below(S) is made of S and what is in its folders; of two entries of one
\* folder that are not in S, both are in it or none.
LEMMA BelowIs ==
    ASSUME NEW S, S \subseteq Nodes
    PROVE  /\ S \subseteq Below(S) /\ Below(S) \subseteq Nodes
           /\ \A i \in Below(S) \ S :
                 /\ node[i].dir \in Below(S)
                 /\ \A k \in Nodes : node[k].dir = node[i].dir => k \in Below(S)
<1> DEFINE N == MaxNodes
           Step1(D) == D \cup {i \in Nodes : node[i].dir \in D}
           G == [n \in 1 .. N |-> [D \in SUBSET Nodes |-> Step1(D)]]
           down == CHOOSE g : g = [k \in 0 .. N |-> IF k = 0 THEN S ELSE Step1(g[k - 1])]
<1>1. N \in Nat /\ S \in SUBSET Nodes
  BY BoundAssumption
<1>2. G \in [1 .. N -> [SUBSET Nodes -> SUBSET Nodes]]
  OBVIOUS
<1>3. \A n \in 1 .. N, D \in SUBSET Nodes : G[n][D] = Step1(D)
  OBVIOUS
<1> HIDE DEF G, N
<1>4. PICK f : Follows(f, N, SUBSET Nodes, S, G)
  BY <1>1, <1>2, Recursion
<1>5. f \in [0 .. N -> SUBSET Nodes] /\ f[0] = S
  BY <1>1, <1>4 DEF Follows
<1>6. ASSUME NEW n \in 1 .. N PROVE f[n] = Step1(f[n - 1])
  <2>1. n \in 0 .. N /\ n - 1 \in 0 .. N /\ n # 0
    BY <1>1
  <2>2. f[n - 1] \in SUBSET Nodes /\ f[n] = G[n][f[n - 1]]
    BY <1>4, <1>5, <2>1 DEF Follows
  <2> HIDE DEF Step1
  <2> QED BY <1>3, <2>2
<1>7. f = [k \in 0 .. N |-> IF k = 0 THEN S ELSE Step1(f[k - 1])]
  <2>1. \A k \in 0 .. N : f[k] = IF k = 0 THEN S ELSE Step1(f[k - 1])
    BY <1>1, <1>5, <1>6
  <2> QED BY <1>5, <2>1
<1>8. down = [k \in 0 .. N |-> IF k = 0 THEN S ELSE Step1(down[k - 1])]
  <2> HIDE DEF Step1
  <2> QED BY <1>7
<1>9. Below(S) = down[N]
  BY DEF Below, N
<1> HIDE DEF down
<1>10. down[0] = S /\ \A n \in 1 .. N : down[n] = Step1(down[n - 1])
  <2>1. 0 \in 0 .. N /\ \A n \in 1 .. N : n \in 0 .. N /\ n # 0
    BY <1>1
  <2> HIDE DEF Step1
  <2> QED BY <1>8, <2>1
<1> DEFINE Good(D) == /\ S \subseteq D /\ D \subseteq Nodes
                      /\ \A i \in D \ S : /\ node[i].dir \in D
                                          /\ \A k \in Nodes : node[k].dir = node[i].dir => k \in D
           T == {n \in 0 .. N : Good(down[n])}
<1>11. 0 \in T
  BY <1>1, <1>10
<1>12. ASSUME NEW n \in 0 .. N - 1, n \in T PROVE n + 1 \in T
  <2>1. n + 1 \in 1 .. N /\ n + 1 \in 0 .. N /\ (n + 1) - 1 = n
    BY <1>1
  <2>2. PICK D : D = down[n] /\ Good(D)
    BY <1>12
  <2>3. down[n + 1] = Step1(D)
    BY <1>10, <2>1, <2>2
  <2>4. Good(Step1(D))
    BY <2>2
  <2> QED BY <2>1, <2>3, <2>4
<1> HIDE DEF T
<1>13. N \in T
  <2>1. 0 .. N \subseteq T
    BY <1>1, <1>11, <1>12, Induction
  <2> QED BY <1>1, <2>1
<1> QED BY <1>9, <1>13 DEF T

\* What a deletion has before it and after it: the entries lost are S, which
\* lies where the request is at work, and what is below S.
Cleared(c, r, q, M, S, lost) ==
    /\ r = req[c] /\ r \in FileRequests /\ r.op = "delete" /\ r.at \in Forks /\ r.obj # 0
    /\ Becomes(c, r, q) /\ Passed(r, q) /\ Slack(M)
    /\ \A i : i \in S <=> i \in Nodes /\ Here(node, i, r.path, r.name) /\ node[i].fork = r.at
    /\ S \subseteq lost /\ lost \subseteq Nodes
    /\ \A i \in lost \ S : /\ node[i].dir \in lost
                           /\ \A k \in Nodes : node[k].dir = node[i].dir => k \in lost
    /\ node' = [i \in Nodes |-> IF i \in lost THEN Gone ELSE node[i]]
    /\ UNCHANGED <<next, left, comment, makers>>

\* A deletion is local, leaves the folders of its request, and keeps side
\* entries with files that it is not about.
LEMMA ClearedTells ==
    ASSUME FilesInv, NEW c \in Conns, NEW r, NEW q, NEW M, NEW S, NEW lost,
           Cleared(c, r, q, M, S, lost)
    PROVE  /\ \A i \in Nodes : Alive(node', i) => i \notin lost /\ node'[i] = node[i]
           /\ \A i \in Nodes \ lost : node'[i] = node[i]
           /\ FolderIn(node', r.path) = FolderIn(node, r.path)
           /\ Local(node, node', {<<r.path, r.name>>}, lost)
           /\ \A d \in lost : node[d].dir = Root => d \in S
<1>0. FilesTypeOK /\ Unique(node)
  BY DEF FilesInv
<1>1. /\ r \in FileRequests /\ r.path \in Paths /\ r.name \in Names
      /\ \A i : i \in S <=> i \in Nodes /\ Here(node, i, r.path, r.name) /\ node[i].fork = r.at
      /\ S \subseteq lost /\ lost \subseteq Nodes
      /\ \A i \in lost \ S : node[i].dir \in lost
      /\ \A i \in Nodes : node'[i] = IF i \in lost THEN Gone ELSE node[i]
  BY DEF Cleared, FileRequests
<1>2. \A i \in Nodes : Alive(node', i) => i \notin lost /\ node'[i] = node[i]
  BY <1>1, GoneIs DEF Alive
<1>3. \A i \in Nodes \ lost : node'[i] = node[i]
  BY <1>1
<1>4. \A d \in lost : node[d].dir = Root => d \in S
  BY <1>1, RootApart
<1>5. FolderIn(node', r.path) = FolderIn(node, r.path)
  <2>1. ASSUME NEW d \in FolderIn(node, r.path), d # Root PROVE d \in Nodes /\ d \notin lost
    <3>1. PICK a \in Names : /\ r.path = <<a>> /\ d \in Nodes /\ node[d].dir = Root
      BY <1>1, <2>1, FolderIs
    <3>2. r.path # <<>>
      BY <3>1
    <3>3. Root \notin FolderIn(node, r.path)
      BY <1>1, <3>2, FolderIs, RootApart
    <3> QED BY <1>1, <1>4, <3>1, <3>3 DEF Here
  <2>2. ASSUME NEW d \in FolderIn(node, r.path) PROVE d \in FolderIn(node', r.path)
    <3>1. CASE d = Root
      BY <1>1, <2>2, <3>1, FolderIs, RootApart
    <3>2. CASE d # Root
      <4>1. node'[d] = node[d]
        BY <1>3, <2>1, <2>2, <3>2
      <4> QED BY <1>1, <2>2, <3>2, <4>1, FolderIs
    <3> QED BY <3>1, <3>2
  <2>3. ASSUME NEW d \in FolderIn(node', r.path) PROVE d \in FolderIn(node, r.path)
    <3>1. CASE d = Root
      BY <1>1, <2>3, <3>1, FolderIs, RootApart
    <3>2. CASE d # Root
      <4>1. d \in Nodes /\ node'[d].kind = "folder"
        BY <1>1, <2>3, <3>2, FolderIs
      <4>2. node'[d] = node[d]
        BY <1>2, <4>1 DEF Alive
      <4> QED BY <1>1, <2>3, <3>2, <4>2, FolderIs
    <3> QED BY <3>1, <3>2
  <2> QED BY <2>2, <2>3
<1>6. Local(node, node', {<<r.path, r.name>>}, lost)
  <2> DEFINE t == <<r.path, r.name>>
  <2>1. t[1] = r.path /\ t[2] = r.name /\ {t} \subseteq Paths \X Names
    BY <1>1
  <2> HIDE DEF t
  <2>2. \A x \in Nodes : node'[x] # node[x] =>
           /\ ~Alive(node', x)
           /\ Here(node, x, r.path, r.name) \/ node[x].dir \in lost
    BY <1>1, <1>2, <1>3
  <2>3. \A d \in lost : node[d].dir = Root => Here(node, d, t[1], t[2])
    BY <1>1, <1>4, <2>1
  <2> QED BY <1>1, <2>1, <2>2, <2>3 DEF Local, t
<1> QED BY <1>2, <1>3, <1>4, <1>5, <1>6

\* A deletion disturbs no file but its own and loose ones.
LEMMA ClearedUndisturbed ==
    ASSUME FilesInv, NEW c \in Conns, NEW r, NEW q, NEW M, NEW S, NEW lost,
           Cleared(c, r, q, M, S, lost)
    PROVE  Undisturbed(node, node', comment, M, r.obj)
<1>0. /\ FilesTypeOK /\ Owned(node, loose) /\ Near(node, req, loose) /\ Rivals(req, loose)
      /\ AloneIn(node, r, loose) /\ loose \subseteq M /\ r = req[c] /\ r \in FileRequests
      /\ r.obj # 0 /\ Served(r) /\ r.path \in Paths /\ r.name \in Names
  BY DEF FilesInv, Alone, Cleared, Slack, Served, Forks, FileRequests
<1>1. /\ \A i : i \in S <=> i \in Nodes /\ Here(node, i, r.path, r.name) /\ node[i].fork = r.at
      /\ lost \subseteq Nodes
      /\ \A i \in lost \ S : /\ node[i].dir \in lost
                             /\ \A k \in Nodes : node[k].dir = node[i].dir => k \in lost
      /\ \A i \in Nodes : node'[i] = IF i \in lost THEN Gone ELSE node[i]
  BY DEF Cleared
<1>2. /\ \A i \in Nodes : Alive(node', i) => i \notin lost /\ node'[i] = node[i]
      /\ \A i \in Nodes \ lost : node'[i] = node[i]
      /\ \A d \in lost : node[d].dir = Root => d \in S
  <2>1. \A i \in Nodes : Alive(node', i) => i \notin lost /\ node'[i] = node[i]
    BY <1>1, GoneIs DEF Alive
  <2>2. \A i \in Nodes \ lost : node'[i] = node[i]
    BY <1>1
  <2>3. \A d \in lost : node[d].dir = Root => d \in S
    BY <1>1, RootApart
  <2> QED BY <2>1, <2>2, <2>3
<1>3. ASSUME NEW k \in Nodes, IsSide(node', k), node'[k].of \notin M \cup {r.obj}
      PROVE  node'[k] = node[k] /\ (NearTo(node, k) => NearTo(node', k))
  <2>1. node'[k] = node[k] /\ k \notin lost /\ IsSide(node, k)
    BY <1>2, <1>3 DEF IsSide, Alive
  <2>2. PICK o \in Nodes : o = node[k].of
    BY <1>0, <2>1 DEF Owned, FilesTypeOK, NodeRec, Root
  <2>3. ASSUME NearTo(node, k) PROVE NearTo(node', k)
    <3>1. IsFile(node, o) /\ node[o].dir = node[k].dir /\ node[o].name = node[k].name
      BY <2>2, <2>3 DEF NearTo
    <3>2. o \notin S
      BY <1>0, <1>1, <1>3, <2>1, <2>2, <3>1 DEF AloneIn
    <3>3. o \notin lost
      BY <1>1, <2>1, <3>1, <3>2
    <3>4. node'[o] = node[o]
      BY <1>2, <3>3
    <3> QED BY <2>1, <2>2, <3>1, <3>4 DEF NearTo, IsFile, Alive
  <2> QED BY <2>1, <2>3
<1>4. ASSUME NEW o \in Nodes \ (M \cup {r.obj}), IsFile(node', o),
             NEW k \in Nodes, IsInfo(node, k), node[k].of = o
      PROVE  node'[k] = node[k]
  <2>1. IsSide(node, k)
    BY <1>4 DEF IsInfo, IsSide
  <2>2. k \notin S
    BY <1>0, <1>1, <1>4, <2>1, Foreign
  <2>3. o \notin lost
    BY <1>2, <1>4 DEF IsFile
  <2>4. CASE NearTo(node, k)
    <3>1. node[o].dir = node[k].dir
      BY <1>4, <2>4 DEF NearTo
    <3> QED BY <1>1, <1>2, <2>2, <2>3, <3>1
  <2>5. ASSUME NEW e \in Conns, req[e].obj = o, Behind(node, req[e], k), k \in lost PROVE FALSE
    <3> DEFINE s == req[e]
               d == node[k].dir
    <3>1. s \in FileRequests /\ Served(s) /\ s.path \in Paths /\ s.name \in Names
      BY <1>0, <2>5 DEF FilesTypeOK, FileRequests, Behind, Lags, Served
    <3>2. d \in lost /\ d \in FolderIn(node, s.path) /\ d # Root
      BY <1>1, <2>2, <2>5, RootApart DEF Behind, Here
    <3>3. PICK a \in Names : s.path = <<a>> /\ node[d].dir = Root /\ node[d].name = a
      BY <3>1, <3>2, FolderIs
    <3>4. d \in S
      BY <1>2, <3>2, <3>3
    <3>5. Root \in FolderIn(node, r.path) /\ r.name = a
      BY <1>1, <3>3, <3>4 DEF Here
    <3>6. r.path = <<>>
      BY <1>0, <3>5, FolderIs, RootApart
    <3>7. Overlaps(r, s)
      <4> DEFINE x == <<r.path, r.name>>
                 y == <<s.path, s.name>>
      <4>1. x \in Touches(r) /\ y \in Touches(s)
        BY <1>0, <3>1, TouchesIs
      <4>2. x[1] = <<>> /\ y[1] = <<x[2]>>
        BY <3>3, <3>5, <3>6
      <4> HIDE DEF x, y, s
      <4> QED BY <4>1, <4>2 DEF Overlaps
    <3>8. Overlaps(s, r)
      BY <3>7, OverlapsEither
    <3>9. e # c
      BY <1>0, <1>4, <2>5
    <3> QED BY <1>0, <1>4, <2>5, <3>1, <3>8, <3>9, RootApart DEF Rivals, Root
  <2>6. node[k].of \notin loose
    BY <1>0, <1>4
  <2> QED BY <1>0, <1>2, <1>4, <2>1, <2>4, <2>5, <2>6 DEF Near
<1>5. \A o \in Nodes : IsFile(node', o) => IsFile(node, o)
  BY <1>2 DEF IsFile, Alive
<1> QED BY <1>3, <1>4, <1>5 DEF Undisturbed

\* A file that is still there while a deletion goes on is a partial upload that
\* comes next.
LEMMA ClearedFile ==
    ASSUME FilesInv, NEW c \in Conns, NEW r, NEW q, NEW M, NEW S, NEW lost,
           Cleared(c, r, q, M, S, lost), r.obj \notin M, Alive(node', r.obj)
    PROVE  /\ r.at = "data" /\ r.obj \notin lost /\ node'[r.obj] = node[r.obj]
           /\ IsFile(node, r.obj) /\ node[r.obj].fork = "incomplete"
           /\ Here(node, r.obj, r.path, r.name) /\ Here(node', r.obj, r.path, r.name)
           /\ node'[r.obj].kind = r.kind
<1>0. /\ r = req[c] /\ r \in FileRequests /\ r.op = "delete" /\ r.at \in Forks /\ r.obj \in Nodes
      /\ InPlace(node, r) /\ ~Hauls(r)
      /\ \A i : i \in S <=> i \in Nodes /\ Here(node, i, r.path, r.name) /\ node[i].fork = r.at
      /\ S \subseteq lost
  BY DEF FilesInv, Placed, Cleared, Slack, FileRequests, Hauls
<1>1. /\ r.obj \notin lost /\ node'[r.obj] = node[r.obj]
      /\ FolderIn(node', r.path) = FolderIn(node, r.path)
  <2>1. /\ \A i \in Nodes : Alive(node', i) => i \notin lost /\ node'[i] = node[i]
        /\ FolderIn(node', r.path) = FolderIn(node, r.path)
    BY ClearedTells
  <2> QED BY <1>0, <2>1
<1>2. Alive(node, r.obj)
  BY <1>1 DEF Alive
<1>3. r.at = "data"
  <2>1. r.at # "data" => Lags(r)
    BY <1>0 DEF Lags, Forks
  <2>2. r.at # "data" => /\ r.at = "incomplete" /\ node[r.obj].fork = "incomplete"
                         /\ Here(node, r.obj, r.path, r.name)
    BY <1>0, <1>2, <2>1 DEF InPlace
  <2> QED BY <1>0, <1>1, <2>2
<1>4. ~Lags(r)
  BY <1>3 DEF Lags
<1>5. IsFile(node, r.obj) /\ Here(node, r.obj, r.path, r.name) /\ node[r.obj].kind = r.kind
  BY <1>0, <1>2, <1>4 DEF InPlace
<1>6. node[r.obj].fork = "incomplete"
  BY <1>0, <1>1, <1>3, <1>5 DEF IsFile
<1>7. Here(node', r.obj, r.path, r.name)
  BY <1>1, <1>5 DEF Here, Alive
<1> QED BY <1>1, <1>3, <1>5, <1>6, <1>7

\* The side entries of a file that is being deleted are deleted next.
LEMMA ClearedTrails ==
    ASSUME FilesInv, NEW c \in Conns, NEW r, NEW q, NEW M, NEW S, NEW lost,
           Cleared(c, r, q, M, S, lost), r.obj \notin M
    PROVE  Trails(node', q, r.obj)
<1>0. /\ r = req[c] /\ r \in FileRequests /\ r.op = "delete" /\ r.at \in Forks /\ r.obj \in Nodes
      /\ InPlace(node, r) /\ ~Hauls(r) /\ Passed(r, q) /\ Served(r) /\ r.obj \notin loose \cup {0}
      /\ \A i : i \in S <=> i \in Nodes /\ Here(node, i, r.path, r.name) /\ node[i].fork = r.at
      /\ S \subseteq lost
  BY DEF FilesInv, Placed, Cleared, Slack, FileRequests, Hauls, Served, Forks
<1>1. /\ \A i \in Nodes : Alive(node', i) => i \notin lost /\ node'[i] = node[i]
      /\ FolderIn(node', r.path) = FolderIn(node, r.path)
  BY ClearedTells
<1>2. Trails(node, r, r.obj)
  BY <1>0, FollowedNow DEF Followed
<1> SUFFICES ASSUME NEW k \in Nodes, IsSide(node', k), node'[k].of = r.obj
             PROVE  q.obj = r.obj /\ Behind(node', q, k)
  BY DEF Trails
<1>3. k \notin lost /\ node'[k] = node[k] /\ IsSide(node, k) /\ node[k].of = r.obj
  BY <1>1 DEF IsSide, Alive
<1>4. Here(node, k, r.path, r.name)
  <2>1. CASE Behind(node, r, k)
    BY <2>1 DEF Behind
  <2>2. CASE NearTo(node, k)
    <3>1. /\ IsFile(node, r.obj) /\ node[r.obj].dir = node[k].dir /\ node[r.obj].name = node[k].name
      BY <1>3, <2>2 DEF NearTo
    <3>2. Here(node, r.obj, r.path, r.name)
      BY <1>0, <3>1 DEF InPlace, IsFile
    <3> QED BY <1>3, <3>1, <3>2 DEF Here, IsSide
  <2> QED BY <1>2, <1>3, <2>1, <2>2 DEF Trails
<1>5. Here(node', k, r.path, r.name) /\ node'[k].fork # r.at
  BY <1>0, <1>1, <1>3, <1>4 DEF Here, Alive
<1>6. r.at # "info"
  <2>1. r.at = "info" => Lags(r)
    BY <1>0 DEF Lags
  <2>2. r.at = "info" => ~Alive(node, r.obj)
    BY <1>0, <2>1 DEF InPlace
  <2>3. r.at = "info" => ~NearTo(node, k)
    BY <1>3, <2>2 DEF NearTo, IsFile
  <2> QED BY <1>2, <1>3, <1>5, <2>3 DEF Trails, Behind
<1>7. /\ Alike(r, q) /\ Lags(q)
      /\ r.at = "rsrc" \/ q.at # "info"
  BY <1>0, <1>6 DEF Passed
<1>8. q.at = "info" => node'[k].fork = "info"
  BY <1>5, <1>7 DEF IsSide
<1> QED BY <1>5, <1>7, <1>8 DEF Behind, Alike

\* As long as the file is there, so is its comment.
LEMMA ClearedNotes ==
    ASSUME FilesInv, NEW c \in Conns, NEW r, NEW q, NEW M, NEW S, NEW lost,
           Cleared(c, r, q, M, S, lost), r.obj \notin M
    PROVE  Tells(node', q, comment', r.obj)
<1>0. /\ r = req[c] /\ r \in FileRequests /\ r.op = "delete" /\ r.at \in Forks /\ r.obj \in Nodes
      /\ Served(r) /\ r.obj \notin loose \cup {0} /\ comment' = comment /\ ~Writes(r)
      /\ \A i : i \in S <=> i \in Nodes /\ Here(node, i, r.path, r.name) /\ node[i].fork = r.at
      /\ \A i \in lost \ S : \A k \in Nodes : node[k].dir = node[i].dir => k \in lost
      /\ \A i \in Nodes : node'[i] = IF i \in lost THEN Gone ELSE node[i]
  BY DEF Cleared, Slack, FileRequests, Served, Writes, Forks
<1>1. /\ \A i \in Nodes : Alive(node', i) => i \notin lost /\ node'[i] = node[i]
      /\ \A i \in Nodes \ lost : node'[i] = node[i]
  <2>1. \A i \in Nodes : Alive(node', i) => i \notin lost /\ node'[i] = node[i]
    BY <1>0, GoneIs DEF Alive
  <2>2. \A i \in Nodes \ lost : node'[i] = node[i]
    BY <1>0
  <2> QED BY <2>1, <2>2
<1>2. Followed(node, r, comment, r.obj)
  BY <1>0, FollowedNow
<1>3. ASSUME NEW k \in Nodes, IsInfo(node', k), node'[k].of = r.obj
      PROVE  node'[k].text = comment'[r.obj]
  <2>1. node'[k] = node[k] /\ IsInfo(node, k)
    BY <1>1, <1>3 DEF IsInfo, Alive
  <2> QED BY <1>0, <1>2, <1>3, <2>1 DEF Followed, Tells
<1>4. ASSUME IsFile(node', r.obj), comment'[r.obj] # NoComment
      PROVE  \E k \in Nodes : IsInfo(node', k) /\ node'[k].of = r.obj
  <2>1. r.at = "data" /\ r.obj \notin lost /\ IsFile(node, r.obj)
    BY <1>4, ClearedFile DEF IsFile
  <2>2. PICK k \in Nodes : IsInfo(node, k) /\ node[k].of = r.obj
    BY <1>0, <1>2, <1>4, <2>1 DEF Followed, Tells
  <2>3. k \notin S
    BY <1>0, <2>1, <2>2 DEF IsInfo
  <2>4. NearTo(node, k)
    BY <1>2, <2>1, <2>2 DEF Followed, Trails, Behind, Lags, IsSide, IsInfo
  <2>5. k \notin lost
    BY <1>0, <2>1, <2>2, <2>3, <2>4 DEF NearTo
  <2> QED BY <1>1, <2>2, <2>5 DEF IsInfo, Alive
<1> QED BY <1>3, <1>4 DEF Tells

\* Deleting the entries of a file keeps the invariant.
LEMMA DeleteKeeps ==
    ASSUME FilesInv, NEW c \in Conns, Delete(c) PROVE FilesInv'
<1>0. /\ FilesTypeOK /\ Spare /\ Unique(node) /\ Owned(node, loose)
  BY DEF FilesInv
<1>1. PICK r \in FileRequests : r = req[c]
  BY <1>0 DEF FilesTypeOK
<1>2. /\ r.at \in Forks /\ r.op = "delete" /\ RemoveAll(At(r.path, r.name, r.at))
      /\ Continue(c) /\ Loosen({}) /\ UNCHANGED <<next, left, comment, makers>>
  BY <1>1 DEF Delete
<1>3. Served(r) /\ ~Hauls(r) /\ ~Writes(r) /\ SaneIn(r) /\ AloneIn(node, r, loose) /\ r.obj # 0
  BY <1>1, <1>2 DEF Served, Hauls, Writes, Forks, FilesInv, SaneIn, Alone
<1>4. PICK q : Becomes(c, r, q) /\ Passed(r, q)
  BY <1>1, <1>2, Continued
<1>5. req' \in [Conns -> FileRequests]
  BY <1>4, BecomesTells
<1>6. PICK M : Slack(M) /\ Known(M, {})
  BY <1>0, <1>2, <1>5, Loosened
<1> DEFINE S == At(r.path, r.name, r.at)
           lost == Below(S)
<1>7. \A i : i \in S <=> i \in Nodes /\ Here(node, i, r.path, r.name) /\ node[i].fork = r.at
  BY AtIs
<1>8. node' = [i \in Nodes |-> IF i \in lost THEN Gone ELSE node[i]]
  BY <1>2 DEF RemoveAll
<1> HIDE DEF S
<1>9. S \subseteq Nodes
  BY <1>7
<1>10. /\ S \subseteq lost /\ lost \subseteq Nodes
       /\ \A i \in lost \ S : /\ node[i].dir \in lost
                              /\ \A k \in Nodes : node[k].dir = node[i].dir => k \in lost
  BY <1>9, BelowIs
<1> HIDE DEF lost
<1>11. Cleared(c, r, q, M, S, lost)
  BY <1>1, <1>2, <1>3, <1>4, <1>6, <1>7, <1>8, <1>10 DEF Cleared
<1>12. /\ \A i \in Nodes : Alive(node', i) => i \notin lost /\ node'[i] = node[i]
       /\ \A i \in Nodes \ lost : node'[i] = node[i]
       /\ FolderIn(node', r.path) = FolderIn(node, r.path)
       /\ Local(node, node', {<<r.path, r.name>>}, lost)
  <2>1. \A i \in Nodes : Alive(node', i) => i \notin lost /\ node'[i] = node[i]
    BY <1>11, ClearedTells
  <2>2. \A i \in Nodes \ lost : node'[i] = node[i]
    BY <1>11, ClearedTells
  <2>3. FolderIn(node', r.path) = FolderIn(node, r.path)
    BY <1>11, ClearedTells
  <2>4. Local(node, node', {<<r.path, r.name>>}, lost)
    BY <1>11, ClearedTells
  <2> QED BY <2>1, <2>2, <2>3, <2>4
<1>13. loose \subseteq M /\ M \subseteq loose'
  BY <1>6 DEF Slack
<1>14. /\ node' \in [Nodes -> NodeRec] /\ Unique(node')
       /\ \A i \in Nodes : node'[i] = node[i] \/ node'[i] = Gone
  <2>1. node' \in [Nodes -> NodeRec]
    BY <1>0, <1>8, GoneIs DEF FilesTypeOK
  <2>2. Unique(node')
    BY <1>0, <1>12 DEF Unique, Alive
  <2> QED BY <1>8, <2>1, <2>2
<1>15. Owned(node', loose')
  <2> SUFFICES ASSUME NEW k \in Nodes, IsSide(node', k)
               PROVE  /\ node'[k].of # 0
                      /\ node'[k].fork = "rsrc" /\ node'[k].of \notin loose'
                            => node'[node'[k].of].kind # "folder"
    BY DEF Owned
  <2>1. node'[k] = node[k] /\ IsSide(node, k)
    BY <1>12 DEF IsSide, Alive
  <2>2. PICK o \in Nodes : o = node[k].of /\ o # 0
    BY <1>0, <2>1 DEF Owned, FilesTypeOK, NodeRec, Root
  <2>3. node'[o] = node[o] \/ node'[o].kind = "none"
    BY <1>14, GoneIs
  <2> QED BY <1>0, <1>13, <2>1, <2>2, <2>3 DEF Owned
<1>16. Tidy({})
  <2>1. next \in Nat /\ 0 < next /\ next \in 1 .. MaxNodes + 1
    BY <1>0, BoundAssumption DEF FilesTypeOK
  <2>2. \A i \in Nodes : node'[i].of < next /\ node'[i].dir < next
    BY <1>0, <1>14, <2>1, GoneIs DEF Spare, Root
  <2>3. \A i \in Nodes : i >= next => node'[i] = Gone
    BY <1>0, <1>14 DEF Spare
  <2>4. \A i \in Nodes : i >= next => comment'[i] = NoComment /\ makers'[i] = {}
    BY <1>0, <1>2 DEF Spare
  <2> QED BY <1>0, <1>2, <1>14, <1>15, <2>1, <2>2, <2>3, <2>4 DEF Tidy, FilesTypeOK
<1>17. OthersKept(c, r, M)
  <2>1. {<<r.path, r.name>>} \subseteq Touches(r)
    BY <1>1, TouchesIs
  <2>2. \A e \in Conns \ {c} : req'[e] = req[e]
    BY <1>4, BecomesTells
  <2>3. \A x \in Nodes : ~Alive(node, x) /\ x < next => ~Alive(node', x)
    BY <1>14, GoneIs DEF Alive
  <2>4. StepOf(c, r, M, {<<r.path, r.name>>}, lost)
    BY <1>1, <1>3, <1>6, <1>12, <2>1, <2>2, <2>3 DEF StepOf
  <2> QED BY <2>4, OthersKeep
<1>18. Undisturbed(node, node', comment, M, r.obj)
  BY <1>11, ClearedUndisturbed
<1>19. r.obj \notin M \cup {0} => Trails(node', q, r.obj)
  BY <1>11, ClearedTrails
<1>20. r.obj \notin loose' \cup {0} => Tells(node', q, comment', r.obj)
  BY <1>11, <1>13, ClearedNotes
<1>21. AloneThere(node', q, M) /\ AloneIn(node', q, loose')
  <2>1. CASE q = NoRequest
    BY <2>1, NoneIsRequest DEF AloneThere, AloneIn
  <2>2. CASE q # NoRequest
    <3>1. /\ q.obj = r.obj /\ q.path = r.path /\ q.name = r.name /\ ~Hauls(q)
      BY <1>3, <1>4, <2>2 DEF Passed, Alike, Hauls
    <3>2. ASSUME NEW i \in Nodes \ M, IsFile(node', i), Here(node', i, r.path, r.name) PROVE i = r.obj
      <4>1. IsFile(node, i) /\ Here(node, i, r.path, r.name)
        BY <1>12, <3>2 DEF IsFile, Alive, Here
      <4> QED BY <1>3, <1>13, <3>2, <4>1 DEF AloneIn
    <3> QED BY <1>13, <3>1, <3>2 DEF AloneThere, AloneIn
  <2> QED BY <2>1, <2>2
<1>22. ASSUME q.obj \notin loose' \cup {0} PROVE InPlace(node', q)
  <2>1. /\ q.obj = r.obj /\ q.path = r.path /\ q.name = r.name /\ ~Hauls(q) /\ Lags(q) /\ q.kind = r.kind
        /\ r.at = "data" => q.at = "incomplete"
    BY <1>3, <1>4, <1>22, NoneIsRequest DEF Passed, Alike, Hauls
  <2>2. Alive(node', r.obj) => /\ r.at = "data" /\ node'[r.obj].fork = "incomplete"
                               /\ Here(node', r.obj, r.path, r.name) /\ node'[r.obj].kind = r.kind
    BY <1>11, <1>13, <1>22, <2>1, ClearedFile
  <2> QED BY <2>1, <2>2 DEF InPlace
<1>23. ~Writes(q)
  BY <1>4 DEF Passed
<1> QED BY <1>2, <1>4, <1>6, <1>16, <1>17, <1>18, <1>19, <1>20, <1>21, <1>22, <1>23, WorkedFine

-----------------------------------------------------------------------------
(* The initial states, and the theorems *)

\* The tree that is there at the start satisfies the invariant.
LEMMA InitKeeps ==
    ASSUME FilesInit PROVE FilesInv
<1> DEFINE D == DOMAIN Tree
           Info(k, i) == k \in D /\ Tree[k].fork = "info" /\ Tree[k].of = i
<1>1. /\ node = [i \in Nodes |-> IF i \in D THEN Tree[i] ELSE Gone]
      /\ next = Len(Tree) + 1 /\ req = [c \in Conns |-> NoRequest] /\ left = MaxRequests
      /\ loose = {} /\ makers = [i \in Nodes |-> {}]
      /\ comment = [i \in Nodes |-> IF \E k \in D : Tree[k].fork = "info" /\ Tree[k].of = i
                                    THEN Tree[CHOOSE k \in D : Tree[k].fork = "info" /\ Tree[k].of = i].text
                                    ELSE NoComment]
  BY DEF FilesInit
<1>2. /\ D = 1 .. Len(Tree) /\ Len(Tree) \in Nat /\ MaxNodes \in Nat /\ D \subseteq Nodes
      /\ \A i \in D : Tree[i] \in NodeRec
      /\ \A i \in D : i \in Nat /\ i < next
      /\ \A i \in Nodes : i \in Nat /\ (i >= next => i \notin D)
      /\ next \in 1 .. MaxNodes + 1
  BY <1>1, TreeAssumption, BoundAssumption DEF Nodes
<1>3. /\ \A i \in D : node[i] = Tree[i] /\ Alive(node, i)
      /\ \A i \in Nodes \ D : node[i] = Gone /\ ~Alive(node, i)
  BY <1>1, <1>2, TreeAssumption, GoneIs DEF Alive
<1>4. \A i \in D : Tree[i].fork \in {"rsrc", "info"} =>
         /\ Tree[i].of \in D /\ Tree[i].of # 0
         /\ Tree[i].dir = Tree[Tree[i].of].dir /\ Tree[i].name = Tree[Tree[i].of].name
         /\ Tree[Tree[i].of].fork \in {"data", "incomplete"}
         /\ Tree[i].fork = "rsrc" => Tree[Tree[i].of].kind = "file"
         /\ Tree[i].fork = "info" => Tree[i].text \in Comments
  BY <1>2, TreeAssumption DEF Beside
<1>5. \A i, j \in D : i # j /\ Tree[i].dir = Tree[j].dir /\ Tree[i].name = Tree[j].name =>
         /\ Tree[i].fork # Tree[j].fork
         /\ Tree[i].fork \in {"rsrc", "info"} \/ Tree[j].fork \in {"rsrc", "info"}
  BY TreeAssumption DEF Beside
<1>6. \A k, l \in D : \A i : Info(k, i) /\ Info(l, i) => k = l
  BY <1>4, <1>5
<1> HIDE DEF D
<1>7. \A i \in Nodes : \/ \E k \in D : Info(k, i) /\ comment[i] = Tree[k].text
                       \/ (\A k \in D : ~Info(k, i)) /\ comment[i] = NoComment
  <2> SUFFICES ASSUME NEW i \in Nodes
               PROVE  \/ \E k \in D : Info(k, i) /\ comment[i] = Tree[k].text
                      \/ (\A k \in D : ~Info(k, i)) /\ comment[i] = NoComment
    OBVIOUS
  <2>1. CASE \E k \in D : Tree[k].fork = "info" /\ Tree[k].of = i
    <3> DEFINE z == CHOOSE k \in D : Tree[k].fork = "info" /\ Tree[k].of = i
    <3>1. z \in D /\ Tree[z].fork = "info" /\ Tree[z].of = i
      BY <2>1
    <3>2. comment[i] = Tree[z].text
      BY <1>1, <2>1
    <3> HIDE DEF z
    <3> QED BY <3>1, <3>2
  <2>2. CASE ~\E k \in D : Tree[k].fork = "info" /\ Tree[k].of = i
    BY <1>1, <2>2
  <2> QED BY <2>1, <2>2
<1>8. \A i \in Nodes, k \in D : Info(k, i) => comment[i] = Tree[k].text
  BY <1>6, <1>7
<1>9. \A c \in Conns : req[c] = NoRequest
  BY <1>1
<1>10. FilesTypeOK
  <2>1. node \in [Nodes -> NodeRec]
    BY <1>1, <1>2, GoneIs
  <2>2. comment \in [Nodes -> Comments \cup {NoComment}]
    <3>1. \A i \in Nodes : comment[i] \in Comments \cup {NoComment}
      BY <1>4, <1>7
    <3> QED BY <1>1, <3>1
  <2> QED BY <1>1, <1>2, <2>1, <2>2, NoneIsRequest, BoundAssumption DEF FilesTypeOK
<1>11. Unique(node)
  BY <1>3, <1>5 DEF Unique
<1>12. Spare
  <2>1. \A i \in Nodes : i >= next => node[i] = Gone /\ comment[i] = NoComment /\ makers[i] = {}
    BY <1>1, <1>2, <1>3, <1>4, <1>7
  <2>2. \A i \in Nodes : node[i].of < next /\ node[i].dir < next
    <3>1. 0 < next
      BY <1>2
    <3>2. \A i \in D : Tree[i].of \in {0} \cup D /\ Tree[i].dir \in {Root} \cup D
      BY TreeAssumption DEF D
    <3> QED BY <1>2, <1>3, <3>1, <3>2, GoneIs DEF Root
  <2>3. \A c \in Conns : req[c].obj < next /\ req[c].info < next
    BY <1>2, <1>9, NoneIsRequest
  <2> QED BY <1>1, <2>1, <2>2, <2>3 DEF Spare
<1>13. \A k \in Nodes : IsSide(node, k) =>
          /\ k \in D /\ node[k].of \in D /\ node[k].of # 0 /\ NearTo(node, k)
          /\ node[k].fork = "rsrc" => node[node[k].of].kind # "folder"
  BY <1>3, <1>4 DEF IsSide, NearTo, IsFile
<1>14. Owned(node, loose) /\ Near(node, req, loose)
  BY <1>13 DEF Owned, Near
<1>15. \A c \in Conns : /\ SaneIn(req[c]) /\ ~Served(req[c]) /\ ~Lags(req[c]) /\ ~Writes(req[c])
                        /\ req[c].obj = 0
  BY <1>9, NoneIsRequest
<1>16. /\ Rivals(req, loose) /\ Contest(node, req, loose) /\ Alone(node, req, loose)
       /\ Placed(node, req, loose) /\ Handles(node, req, loose)
  BY <1>15 DEF Rivals, Contest, Alone, AloneIn, Placed, Handles
<1>17. Texts(node, req, comment, loose)
  <2> SUFFICES ASSUME NEW k \in Nodes, IsInfo(node, k) PROVE node[k].text = comment[node[k].of]
    BY DEF Texts
  <2>1. k \in D /\ node[k].of \in D /\ Info(k, node[k].of)
    BY <1>3, <1>13 DEF IsInfo, IsSide
  <2>2. node[k].text = Tree[k].text /\ node[k].of \in Nodes
    BY <1>2, <1>3, <2>1
  <2> QED BY <1>8, <2>1, <2>2
<1>18. Noted(node, comment, loose)
  <2> SUFFICES ASSUME NEW o \in Nodes, comment[o] # NoComment
               PROVE  \E k \in Nodes : IsInfo(node, k) /\ node[k].of = o
    BY DEF Noted
  <2>1. PICK k \in D : Info(k, o)
    BY <1>7
  <2> QED BY <1>2, <1>3, <2>1 DEF IsInfo
<1>19. Own(node, loose)
  <2> SUFFICES ASSUME NEW i \in Nodes, IsFile(node, i), NEW k \in Nodes \ {i},
                      Alive(node, k), node[i].dir = node[k].dir, node[i].name = node[k].name
               PROVE  IsSide(node, k) /\ node[k].of = i
    BY DEF Own
  <2>1. i \in D /\ k \in D /\ node[i] = Tree[i] /\ node[k] = Tree[k]
    BY <1>3 DEF IsFile
  <2>2. Tree[k].fork \in {"rsrc", "info"}
    BY <1>5, <2>1 DEF IsFile
  <2>3. IsSide(node, k)
    BY <2>1, <2>2 DEF IsSide
  <2> DEFINE o == Tree[k].of
  <2>4. /\ o \in D /\ Tree[o].dir = Tree[i].dir /\ Tree[o].name = Tree[i].name
        /\ Tree[o].fork \in {"data", "incomplete"}
    BY <1>4, <2>1, <2>2
  <2>5. Tree[i].fork \in {"data", "incomplete"}
    BY <2>1 DEF IsFile
  <2> HIDE DEF o
  <2>6. o = i
    BY <1>5, <2>1, <2>4, <2>5
  <2> QED BY <2>1, <2>3, <2>6 DEF o
<1> QED BY <1>10, <1>11, <1>12, <1>14, <1>15, <1>16, <1>17, <1>18, <1>19 DEF FilesInv

\* The invariant is about the variables only.
LEMMA StutterKeeps ==
    ASSUME FilesInv, UNCHANGED fileVars PROVE FilesInv'
<1>1. /\ node' = node /\ next' = next /\ req' = req /\ left' = left
      /\ comment' = comment /\ loose' = loose /\ makers' = makers
  BY DEF fileVars
<1>2. FilesTypeOK' /\ Spare'
  BY <1>1 DEF FilesInv, FilesTypeOK, Spare
<1>3. /\ Unique(node') /\ Owned(node', loose') /\ (\A c \in Conns : SaneIn(req'[c]))
      /\ Rivals(req', loose') /\ Contest(node', req', loose')
      /\ Near(node', req', loose') /\ Alone(node', req', loose')
      /\ Placed(node', req', loose') /\ Handles(node', req', loose')
      /\ Texts(node', req', comment', loose') /\ Noted(node', comment', loose') /\ Own(node', loose')
  BY <1>1 DEF FilesInv
<1> QED BY <1>2, <1>3 DEF FilesInv

\* Every step keeps the invariant.
LEMMA NextKeeps ==
    ASSUME FilesInv, FilesNext PROVE FilesInv'
<1>1. ASSUME NEW c \in Conns, Ready(c), NEW p \in Paths, NEW n \in Names,
             \/ \E cm \in Comments \cup {Keep}, m \in Names : SetFileInfo(c, p, n, cm, m)
             \/ \E q \in Paths : MoveFile(c, p, n, q)
             \/ DeleteFile(c, p, n)
             \/ \E cm \in Comments : Upload(c, p, n, cm)
             \/ NewFolder(c, p, n)
      PROVE  FilesInv'
  <2>1. CASE \E cm \in Comments \cup {Keep}, m \in Names : SetFileInfo(c, p, n, cm, m)
    BY <1>1, <2>1, SetFileInfoKeeps
  <2>2. CASE \E q \in Paths : MoveFile(c, p, n, q)
    BY <1>1, <2>2, MoveFileKeeps
  <2>3. CASE DeleteFile(c, p, n)
    BY <1>1, <2>3, DeleteFileKeeps
  <2>4. CASE \E cm \in Comments : Upload(c, p, n, cm)
    BY <1>1, <2>4, UploadKeeps
  <2>5. CASE NewFolder(c, p, n)
    BY <1>1, <2>5, NewFolderKeeps
  <2> QED BY <1>1, <2>1, <2>2, <2>3, <2>4, <2>5
<1>2. ASSUME NEW c \in Conns, Step(c) PROVE FilesInv'
  BY <1>2, OpenInfoKeeps, WriteInfoKeeps, RenameDeniedKeeps, RenameFolderKeeps, RenameFileKeeps,
     MoveKeeps, DeleteKeeps, ReceiveKeeps, BreakOffKeeps, FinishKeeps, MkdirKeeps DEF Step
<1>3. CASE ServerCrash
  BY <1>3, ServerCrashKeeps
<1> QED BY <1>1, <1>2, <1>3 DEF FilesNext

\* The invariant holds in every reachable state.
THEOREM FilesInvariant == FilesSpec => []FilesInv
<1>1. FilesInit => FilesInv
  BY InitKeeps
<1>2. FilesInv /\ [FilesNext]_fileVars => FilesInv'
  BY NextKeeps, StutterKeeps
<1> QED BY <1>1, <1>2, PTL DEF FilesSpec

\* Variables keep their types.
THEOREM FilesTypeCorrect == FilesSpec => []FilesTypeOK
<1>1. FilesInv => FilesTypeOK
  BY DEF FilesInv
<1> QED BY <1>1, FilesInvariant, PTL

\* Whatever sequence of requests a file went through, of any number of
\* connections: when none is about it and it is not loose, it has its comment
\* beside it and no side entry of another file.
THEOREM SidesFollow == FilesSpec => []SideEntriesFollow
<1>1. FilesInv => SideEntriesFollow
  <2> SUFFICES ASSUME FilesInv, NEW i \in Objects(node) \ loose, node[i].fork = "data",
                      \A c \in Conns : req[c].obj # i
               PROVE  /\ \A k \in SideEntries(i) :
                            /\ Beside(node, i, k) /\ node[k].of = i
                            /\ node[k].fork = "info" => node[k].text = comment[i]
                      /\ comment[i] # NoComment =>
                            \E k \in SideEntries(i) : node[k].fork = "info"
    BY DEF SideEntriesFollow
  <2>0. /\ Near(node, req, loose) /\ Texts(node, req, comment, loose)
        /\ Noted(node, comment, loose) /\ Own(node, loose)
    BY DEF FilesInv
  <2>1. i \in Nodes /\ IsFile(node, i)
    BY DEF Objects, IsFile, Alive
  <2>2. ASSUME NEW k \in SideEntries(i) PROVE Beside(node, i, k) /\ node[k].of = i /\ k \in Nodes /\ IsSide(node, k)
    <3>1. k \in Nodes /\ IsSide(node, k) /\ (Beside(node, i, k) \/ node[k].of = i)
      BY <2>2 DEF SideEntries, IsSide, Alive
    <3>2. CASE Beside(node, i, k)
      <4>1. k # i
        BY <2>1, <3>1 DEF IsSide, IsFile
      <4> QED BY <2>0, <2>1, <3>1, <3>2, <4>1 DEF Own, Beside, IsSide
    <3>3. CASE node[k].of = i
      <4>1. NearTo(node, k)
        BY <2>0, <3>1, <3>3 DEF Near
      <4> QED BY <3>1, <3>3, <4>1 DEF NearTo, Beside
    <3> QED BY <3>1, <3>2, <3>3
  <2>3. ASSUME NEW k \in SideEntries(i), node[k].fork = "info" PROVE node[k].text = comment[i]
    BY <2>0, <2>2, <2>3 DEF Texts, IsInfo, IsSide
  <2>4. ASSUME comment[i] # NoComment PROVE \E k \in SideEntries(i) : node[k].fork = "info"
    <3>1. PICK k \in Nodes : IsInfo(node, k) /\ node[k].of = i
      BY <2>0, <2>1, <2>4 DEF Noted
    <3>2. k \in SideEntries(i)
      BY <3>1 DEF SideEntries, IsInfo, Alive
    <3> QED BY <3>1, <3>2 DEF IsInfo
  <2> QED BY <2>2, <2>3, <2>4
<1> QED BY <1>1, FilesInvariant, PTL

\* However many clients create a folder of one name, one at most is told that
\* it did.
THEOREM OneMakerEach == FilesSpec => []OneMaker
<1>1. FilesInit => OneMaker
  <2>1. Cardinality({}) = 0
    BY FS_EmptySet
  <2> QED BY <2>1 DEF FilesInit, OneMaker
<1>2. FilesInv /\ OneMaker /\ [FilesNext]_fileVars => OneMaker'
  <2> SUFFICES ASSUME FilesInv, OneMaker, [FilesNext]_fileVars PROVE OneMaker'
    OBVIOUS
  <2>1. CASE UNCHANGED makers
    BY <2>1 DEF OneMaker
  <2>2. ASSUME NEW c \in Conns, Mkdir(c) PROVE OneMaker'
    <3>1. CASE makers' = [makers EXCEPT ![next] = {c}]
      <4>1. Cardinality({c}) = 1
        BY FS_Singleton
      <4>2. makers \in [Nodes -> SUBSET Conns]
        BY DEF FilesInv, FilesTypeOK
      <4>3. \A i \in Nodes : makers'[i] = makers[i] \/ makers'[i] = {c}
        BY <3>1, <4>2
      <4> QED BY <4>1, <4>3 DEF OneMaker
    <3> QED BY <2>1, <2>2, <3>1 DEF Mkdir
  <2>3. CASE UNCHANGED fileVars
    BY <2>1, <2>3 DEF fileVars
  <2>4. ASSUME NEW c \in Conns, NEW p \in Paths, NEW n \in Names,
               \/ \E cm \in Comments \cup {Keep}, m \in Names : SetFileInfo(c, p, n, cm, m)
               \/ \E q \in Paths : MoveFile(c, p, n, q)
               \/ DeleteFile(c, p, n)
               \/ \E cm \in Comments : Upload(c, p, n, cm)
               \/ NewFolder(c, p, n)
        PROVE  UNCHANGED makers
    <3>1. CASE \E cm \in Comments \cup {Keep}, m \in Names : SetFileInfo(c, p, n, cm, m)
      BY <3>1 DEF SetFileInfo
    <3>2. CASE \E q \in Paths : MoveFile(c, p, n, q)
      BY <3>2 DEF MoveFile
    <3>3. CASE DeleteFile(c, p, n)
      BY <3>3 DEF DeleteFile
    <3>4. CASE \E cm \in Comments : Upload(c, p, n, cm)
      BY <3>4 DEF Upload
    <3>5. CASE NewFolder(c, p, n)
      BY <3>5 DEF NewFolder
    <3> QED BY <2>4, <3>1, <3>2, <3>3, <3>4, <3>5
  <2>5. ASSUME NEW c \in Conns, Step(c), ~Mkdir(c) PROVE UNCHANGED makers
    <3>1. CASE OpenInfo(c) \/ WriteInfo(c)
      BY <3>1 DEF OpenInfo, WriteInfo
    <3>2. CASE RenameDenied(c) \/ RenameFolder(c) \/ RenameFile(c)
      BY <3>2 DEF RenameDenied, RenameFolder, RenameFile
    <3>3. CASE Move(c) \/ Delete(c)
      BY <3>3 DEF Move, Delete
    <3>4. CASE Receive(c) \/ BreakOff(c) \/ Finish(c)
      BY <3>4 DEF Receive, BreakOff, Finish
    <3> QED BY <2>5, <3>1, <3>2, <3>3, <3>4 DEF Step
  <2>6. ServerCrash => UNCHANGED makers
    BY DEF ServerCrash
  <2> QED BY <2>1, <2>2, <2>3, <2>4, <2>5, <2>6 DEF FilesNext
<1> QED BY <1>1, <1>2, FilesInvariant, PTL DEF FilesSpec

=============================================================================
