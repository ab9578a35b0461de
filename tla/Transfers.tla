----------------------------- MODULE Transfers ------------------------------
(***************************************************************************)
(* File transfers.  A request on the control connection registers a        *)
(* transfer under a reference number (internal/mobius/                     *)
(* transaction_handlers.go); a second connection claims it by that number  *)
(* (handleFileTransfer in hotline/server.go) and moves the data            *)
(* (hotline/file_transfer.go).  An upload collects its data in a file with *)
(* the suffix .incomplete, opened for appending, and renames it when all   *)
(* has arrived.  An open file is an inode: it stays the same through       *)
(* renames and deletions.                                                  *)
(***************************************************************************)
EXTENDS Integers, Sequences, FiniteSets

CONSTANTS
    Refs,      \* reference numbers; MemFileTransferMgr.Add draws a new one
    Handlers,  \* transfer connections
    Files,     \* paths of files
    Sources,   \* what clients upload: the contents of different files
    Size,      \* blocks of a file
    MaxItems,  \* bound: items of a folder upload
    None

ASSUME SizeAssumption == Size \in Nat \ {0} /\ MaxItems \in Nat
ASSUME HandlersAssumption == IsFiniteSet(Handlers)
ASSUME NoneAssumption == None \notin Refs \cup Files \cup Sources

Kinds == {"upload", "folder", "download", "banner"}

\* A connection makes at most one file for every item it still has to receive.
Inodes == Handlers \X (0 .. MaxItems)
Blocks == Sources \X (1 .. Size)
Part(s, n) == [k \in 1 .. n |-> <<s, k>>]
Whole(s) == Part(s, Size)

\* A registered transfer; told: the client has got the reference number.
Transfer == [kind: Kinds, file: Files \cup {None}, src: Sources \cup {None},
             resume: BOOLEAN, offset: Nat, items: 0 .. MaxItems, told: BOOLEAN]

ASSUME NilAssumption == None \notin Transfer \cup Inodes

VARIABLES
    registry,  \* MemFileTransferMgr.fileTransfers
    drawn,     \* reference numbers given out
    h,         \* per connection: where its goroutine is and what it works on
    inc, fin,  \* the inodes under the name with .incomplete and under the name
    content,   \* what has been written to each inode
    deleting,  \* files whose deletion is half done
    uploads, downloads,  \* Stats: transfers in progress
    spoiled    \* history: the inodes that UploadIntact does not speak of

files == <<inc, fin, content>>
stats == <<uploads, downloads>>
vars  == <<registry, drawn, h, files, deleting, stats, spoiled>>

\* Where a transfer is under way: counted in progress.
Active == {"stat", "item", "new", "full", "open", "size", "recv", "rename",
           "send", "decrement"}
PCs == Active \cup {"idle", "forget", "done"}

\* The stages are those of the transfer's kind, and a file is open in the
\* stages that write.
TypeOK ==
    /\ registry \in [Refs -> Transfer \cup {None}]
    /\ drawn \subseteq Refs
    /\ h \in [Handlers -> [pc: PCs, ref: Refs \cup {None}, kind: Kinds,
                           file: Files \cup {None}, src: Sources \cup {None},
                           resume: BOOLEAN, pos: Nat, left: 0 .. MaxItems,
                           inode: Inodes \cup {None}]]
    /\ \A c \in Handlers :
         /\ h[c].pc \in {"recv", "rename", "size"} => h[c].inode \in Inodes
         /\ h[c].kind = "banner" => h[c].pc \in {"idle", "send", "forget", "done"}
    /\ inc \in [Files -> Inodes \cup {None}]
    /\ fin \in [Files -> Inodes \cup {None}]
    /\ \A f, g \in Files : inc[f] # None /\ inc[f] = fin[g] => f # g
    /\ content \in [Inodes -> Seq(Blocks)]
    /\ deleting \subseteq Files
    /\ uploads \in Nat /\ downloads \in Nat
    /\ spoiled \subseteq Inodes

Idle == [pc |-> "idle", ref |-> None, kind |-> "upload", file |-> None,
         src |-> None, resume |-> FALSE, pos |-> 0, left |-> 0, inode |-> None]
Ended(r) == [Idle EXCEPT !.pc = "done", !.ref = r]

Init ==
    /\ registry = [r \in Refs |-> None]
    /\ drawn = {}
    /\ h = [c \in Handlers |-> Idle]
    /\ inc = [f \in Files |-> None]
    /\ fin = [f \in Files |-> None]
    /\ content = [i \in Inodes |-> <<>>]
    /\ deleting = {}
    /\ uploads = 0 /\ downloads = 0
    /\ spoiled = {}

-----------------------------------------------------------------------------
(* Requests on the control connection *)

Register(r, t) ==
    /\ r \notin drawn
    /\ drawn' = drawn \cup {r}
    /\ registry' = [registry EXCEPT ![r] = t]
    /\ UNCHANGED <<h, files, deleting, stats, spoiled>>

\* The transfer is registered before the server looks for something to resume;
\* if there is nothing the client gets no answer.
HandleUploadFile(r, f, s, resume) ==
    /\ fin[f] = None
    /\ Register(r, [kind |-> "upload", file |-> f, src |-> s, resume |-> resume,
                    offset |-> IF resume /\ inc[f] # None
                               THEN Len(content[inc[f]]) ELSE 0,
                    items |-> 0, told |-> resume => inc[f] # None])

\* The files of a folder upload are named one by one on the second connection.
HandleUploadFolder(r, s, n) ==
    Register(r, [kind |-> "folder", file |-> None, src |-> s, resume |-> FALSE,
                 offset |-> 0, items |-> n, told |-> TRUE])

\* HandleDownloadFile and HandleDownloadFolder; the file need not exist.
HandleDownload(r, f) ==
    Register(r, [kind |-> "download", file |-> f, src |-> None, resume |-> FALSE,
                 offset |-> 0, items |-> 0, told |-> TRUE])

HandleDownloadBanner(r) ==
    Register(r, [kind |-> "banner", file |-> None, src |-> None,
                 resume |-> FALSE, offset |-> 0, items |-> 0, told |-> TRUE])

\* HandleDeleteFile removes the file, then its .incomplete file.
DeleteData(f) ==
    /\ f \notin deleting
    /\ fin[f] # None \/ inc[f] # None
    /\ fin' = [fin EXCEPT ![f] = None]
    /\ deleting' = deleting \cup {f}
    /\ UNCHANGED <<registry, drawn, h, inc, content, stats, spoiled>>

DeleteIncomplete(f) ==
    /\ f \in deleting
    /\ inc' = [inc EXCEPT ![f] = None]
    /\ deleting' = deleting \ {f}
    /\ UNCHANGED <<registry, drawn, h, fin, content, stats, spoiled>>

-----------------------------------------------------------------------------
(* handleFileTransfer *)

\* Nothing keeps a second connection from claiming the same number.
Claim(c, r) ==
    LET t == registry[r]
    IN  /\ h[c].pc = "idle"
        /\ t # None /\ t.told
        /\ h' = [h EXCEPT ![c] =
             [pc |-> CASE t.kind = "upload" -> "stat" [] t.kind = "folder" -> "item"
                       [] OTHER -> "send",
              ref |-> r, kind |-> t.kind, file |-> t.file, src |-> t.src,
              resume |-> t.resume, pos |-> t.offset, left |-> t.items,
              inode |-> None]]
        /\ uploads' = uploads + (IF t.kind \in {"upload", "folder"} THEN 1 ELSE 0)
        /\ downloads' = downloads + (IF t.kind = "download" THEN 1 ELSE 0)
        /\ UNCHANGED <<registry, drawn, files, deleting, spoiled>>

\* A step of connection c that only moves on.
Goto(c, from, to) ==
    /\ h[c].pc = from
    /\ h' = [h EXCEPT ![c].pc = to]
    /\ UNCHANGED <<registry, drawn, files, deleting, stats, spoiled>>

\* UploadHandler refuses when there is a file of that name.
StatFinal(c) ==
    Goto(c, "stat", IF fin[h[c].file] = None THEN "open" ELSE "decrement")

\* UploadFolderHandler: the client names the next file, and the server looks
\* for all of it and for a part of it.
NextItem(c, f) ==
    /\ h[c].pc = "item" /\ h[c].left > 0
    /\ h' = [h EXCEPT ![c].pc = IF fin[f] = None THEN "new" ELSE "full",
                      ![c].file = f, ![c].left = @ - 1]
    /\ UNCHANGED <<registry, drawn, files, deleting, stats, spoiled>>

NoMoreItems(c) == h[c].left = 0 /\ Goto(c, "item", "decrement")

\* The client is told to send the file, to resume it or to skip it: a part
\* counts for more than the whole file.
StatPartial(c) ==
    LET f == h[c].file
    IN  /\ h[c].pc \in {"new", "full"}
        /\ h' = [h EXCEPT ![c] =
             [@ EXCEPT !.resume = inc[f] # None,
                       !.pos = IF inc[f] = None THEN 0 ELSE Len(content[inc[f]]),
                       !.pc = IF inc[f] # None \/ h[c].pc = "new"
                              THEN "open" ELSE "item"]]
        /\ UNCHANGED <<registry, drawn, files, deleting, stats, spoiled>>

Writers(i) ==
    {c \in Handlers : h[c].inode = i /\ h[c].pc \in {"size", "recv", "rename"}}

\* The .incomplete file is opened for appending, and made if there is none.
\* It is spoiled if another connection has it open, or if what it holds is not
\* the beginning that the client was told of.
OpenIncomplete(c) ==
    LET f == h[c].file
        i == IF inc[f] = None THEN <<c, h[c].left>> ELSE inc[f]
    IN  /\ h[c].pc = "open"
        /\ h' = [h EXCEPT ![c].inode = i,
                          ![c].pc = IF h[c].kind = "folder" /\ h[c].resume
                                    THEN "size" ELSE "recv"]
        /\ inc' = [inc EXCEPT ![f] = i]
        /\ spoiled' = IF Writers(i) = {}
                         /\ content[i] = Part(h[c].src, h[c].pos)
                      THEN spoiled ELSE spoiled \cup {i}
        /\ UNCHANGED <<registry, drawn, fin, content, deleting, stats>>

\* A folder upload that resumes announces the offset and reads the size.
ReadSize(c) == Goto(c, "size", "recv")

\* receiveFile
Recv(c) ==
    /\ h[c].pc = "recv" /\ h[c].pos < Size
    /\ content' = [content EXCEPT ![h[c].inode] =
                     Append(@, <<h[c].src, h[c].pos + 1>>)]
    /\ h' = [h EXCEPT ![c].pos = @ + 1]
    /\ UNCHANGED <<registry, drawn, inc, fin, deleting, stats, spoiled>>

Received(c) == h[c].pos >= Size /\ Goto(c, "recv", "rename")

\* Mutant: an error of receiveFile is logged and the file renamed, as when an
\* item of a folder is resumed.
FailsRenamed(c) ==
    \/ Goto(c, "item", "decrement")
    \/ Goto(c, "open", "decrement")
    \/ Goto(c, "size", "decrement")
    \/ Goto(c, "recv", "rename") /\ ~(h[c].kind = "folder" /\ h[c].resume)

\* The connection breaks or a call fails: the handler returns.
Fails(c) ==
    \/ Goto(c, "item", "decrement")
    \/ Goto(c, "open", "decrement")
    \/ Goto(c, "size", "decrement")
    \/ Goto(c, "recv", "decrement") /\ ~(h[c].kind = "folder" /\ h[c].resume)

\* A folder upload that resumes logs the error and renames what it has.
ResumeFails(c) ==
    /\ h[c].pc = "recv" /\ h[c].kind = "folder" /\ h[c].resume
    /\ h' = [h EXCEPT ![c].pc = "rename"]
    /\ spoiled' = spoiled \cup {h[c].inode}
    /\ UNCHANGED <<registry, drawn, files, deleting, stats>>

\* The rename is by name: it replaces a file of the new name, and what is moved
\* need not be the inode that this connection wrote.
Rename(c) ==
    LET f == h[c].file
    IN  /\ h[c].pc = "rename" /\ inc[f] # None
        /\ fin' = [fin EXCEPT ![f] = inc[f]]
        /\ inc' = [inc EXCEPT ![f] = None]
        /\ spoiled' = IF inc[f] = h[c].inode THEN spoiled
                      ELSE spoiled \cup {inc[f]}
        /\ h' = [h EXCEPT ![c].pc = IF h[c].kind = "folder" THEN "item"
                                    ELSE "decrement"]
        /\ UNCHANGED <<registry, drawn, content, deleting, stats>>

\* Mutant: the decrement is not deferred, and an early return misses it.
RenameFailsUncounted(c) ==
    Goto(c, "rename", "forget") /\ inc[h[c].file] = None

RenameFails(c) ==
    Goto(c, "rename", "decrement") /\ inc[h[c].file] = None

\* Mutant: the decrement is deferred for every type of transfer.
SendAll(c) == Goto(c, "send", "decrement")

\* DownloadHandler, DownloadFolderHandler and the banner: all is sent, or not.
Send(c) ==
    Goto(c, "send", IF h[c].kind = "banner" THEN "forget" ELSE "decrement")

\* The deferred calls, last one first.
Decrement(c) ==
    /\ h[c].pc = "decrement"
    /\ h' = [h EXCEPT ![c].pc = "forget"]
    /\ IF h[c].kind = "download"
       THEN /\ downloads' = IF downloads > 0 THEN downloads - 1 ELSE downloads
            /\ UNCHANGED uploads
       ELSE /\ uploads' = IF uploads > 0 THEN uploads - 1 ELSE uploads
            /\ UNCHANGED downloads
    /\ UNCHANGED <<registry, drawn, files, deleting, spoiled>>

\* Mutant: an upload that failed stays registered, to be tried again.
ForgetUploads(c) ==
    /\ h[c].pc = "forget"
    /\ h' = [h EXCEPT ![c] = Ended(@.ref)]
    /\ registry' = IF h[c].kind \in {"upload", "folder"} /\ h[c].pos < Size
                   THEN registry ELSE [registry EXCEPT ![h[c].ref] = None]
    /\ UNCHANGED <<drawn, files, deleting, stats, spoiled>>

\* MemFileTransferMgr.Delete; when the transfer is gone already it panics, which
\* only ends this goroutine.
Forget(c) ==
    /\ h[c].pc = "forget"
    /\ h' = [h EXCEPT ![c] = Ended(@.ref)]
    /\ registry' = [registry EXCEPT ![h[c].ref] = None]
    /\ UNCHANGED <<drawn, files, deleting, stats, spoiled>>

\* The process is killed and started again: only the files remain.
Crash ==
    /\ \E c \in Handlers : h[c].pc \notin {"idle", "done"}
    /\ h' = [c \in Handlers |->
               IF h[c].pc = "idle" THEN h[c] ELSE Ended(h[c].ref)]
    /\ registry' = [r \in Refs |-> None]
    /\ deleting' = {}
    /\ uploads' = 0 /\ downloads' = 0
    /\ UNCHANGED <<drawn, files, spoiled>>

Next ==
    \/ \E r \in Refs :
         \/ \E f \in Files, s \in Sources, resume \in BOOLEAN :
              HandleUploadFile(r, f, s, resume)
         \/ \E s \in Sources, n \in 1 .. MaxItems : HandleUploadFolder(r, s, n)
         \/ \E f \in Files : HandleDownload(r, f)
         \/ HandleDownloadBanner(r)
         \/ \E c \in Handlers : Claim(c, r)
    \/ \E f \in Files : DeleteData(f) \/ DeleteIncomplete(f)
    \/ \E c \in Handlers :
         \/ StatFinal(c) \/ \E f \in Files : NextItem(c, f)
         \/ NoMoreItems(c) \/ StatPartial(c) \/ OpenIncomplete(c) \/ ReadSize(c)
         \/ Recv(c) \/ Received(c) \/ Fails(c) \/ ResumeFails(c)
         \/ Rename(c) \/ RenameFails(c) \/ Send(c) \/ Decrement(c) \/ Forget(c)
    \/ Crash

Spec == Init /\ [][Next]_vars

-----------------------------------------------------------------------------
(* Properties *)

\* A file that has its final name holds one source, whole and in order, however
\* many failed attempts, resumptions and restarts came before: unless two
\* connections wrote it at a time, an upload was appended to what it did not
\* continue, a failed resumption of a folder item was renamed all the same, or
\* another connection's file was renamed (UploadHandler, UploadFolderHandler).
UploadIntact ==
    \A f \in Files : fin[f] # None /\ fin[f] \notin spoiled =>
        \E s \in Sources : content[fin[f]] = Whole(s)

\* The statistics of transfers in progress are the numbers of connections that
\* have claimed one and have not run their deferred Decrement, whichever way
\* the transfer went (handleFileTransfer, Stats.Decrement).
InProgressCounts ==
    /\ uploads = Cardinality({c \in Handlers :
                   h[c].kind \in {"upload", "folder"} /\ h[c].pc \in Active})
    /\ downloads = Cardinality({c \in Handlers :
                   h[c].kind = "download" /\ h[c].pc \in Active})

\* Once a connection has ended, its reference number opens no other: it is out
\* of the registry even if the transfer failed or a second connection had
\* claimed the number too (MemFileTransferMgr.Delete).
FinishedIsForgotten ==
    \A c \in Handlers : h[c].pc = "done" => registry[h[c].ref] = None
=============================================================================
