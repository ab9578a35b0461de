-------------------------------- MODULE Files -------------------------------
(***************************************************************************)
(* The file area (hotline/file_wrapper.go and the file handlers of         *)
(* internal/mobius/transaction_handlers.go).  What a client takes for one  *)
(* file is up to four entries of a directory: the data, a partial upload,  *)
(* a resource fork and an information fork, which holds the comment.       *)
(* Moving, renaming and deleting handle one entry after the other, while   *)
(* other connections do the same; the server may crash in between.         *)
(***************************************************************************)
EXTENDS Integers, Sequences, FiniteSets

CONSTANTS
    Conns,         \* the connections whose requests are served
    Names,         \* names of files and folders
    Paths,         \* the folders a request may name: sequences of names
    Comments,
    Cut,           \* the content of an information fork that was truncated
    NoComment, Keep,  \* a file without one, a request that sets none
    Rights,        \* for each connection the pairs <<operation, kind>> allowed
    Preserve,      \* settings of PreserveResourceForks, which may be changed
    Tree,          \* the entries at the start
    MaxNodes,      \* bound: entries ever created
    MaxRequests    \* bound: requests served

ASSUME NamesAssumption == Names # {}
ASSUME PathsAssumption == Paths \subseteq {<<>>} \cup {<<n>> : n \in Names} /\ <<>> \in Paths
ASSUME BoundAssumption == MaxNodes \in Nat /\ MaxRequests \in Nat

VARIABLES
    node,     \* the entries, by number: [dir, name, fork, kind, of, text]
    next,     \* the number of the next entry
    req,      \* the request each connection is being served, and its place
    left,     \* requests left
    comment,  \* history: the comment a file was last given
    loose,    \* history: the files whose side entries may have gone astray
    makers    \* history: who was told to have created a folder

fileVars == <<node, next, req, left, comment, loose, makers>>

Forks == {"data", "incomplete", "rsrc", "info"}
Nodes == 1 .. MaxNodes
Root  == 0
Gone  == [dir |-> Root, name |-> CHOOSE n \in Names : TRUE, fork |-> "data",
          kind |-> "none", of |-> 0, text |-> NoComment]
NodeRec == [dir: {Root} \cup Nodes, name: Names, fork: Forks,
            kind: {"none", "file", "folder"}, of: {0} \cup Nodes,
            text: Comments \cup {Cut, NoComment}]

\* No request: the connection waits.
NoRequest == [op |-> "none", path |-> <<>>, name |-> Gone.name, to |-> <<>>,
              new |-> Gone.name, kind |-> "file", text |-> Keep, at |-> "idle",
              obj |-> 0, info |-> 0]
FileRequests == [op: {"none", "setinfo", "move", "delete", "upload", "newfolder"},
                 path: Paths, name: Names, to: Paths, new: Names,
                 kind: {"file", "folder"}, text: Comments \cup {Keep},
                 at: {"idle", "open", "write", "rename", "receive", "finish", "mkdir"} \cup Forks,
                 obj: {0} \cup Nodes, info: {0} \cup Nodes]

FilesTypeOK ==
    /\ node \in [Nodes -> NodeRec]
    /\ next \in 1 .. MaxNodes + 1
    /\ req \in [Conns -> FileRequests]
    /\ left \in 0 .. MaxRequests
    /\ comment \in [Nodes -> Comments \cup {NoComment}]
    /\ loose \subseteq Nodes
    /\ makers \in [Nodes -> SUBSET Conns]

-----------------------------------------------------------------------------
(* The file system *)

Entry(nd, d, n, f) ==
    {i \in Nodes : nd[i].kind # "none" /\ nd[i].dir = d
                   /\ nd[i].name = n /\ nd[i].fork = f}

Folder(p) == IF p = <<>> THEN {Root}
             ELSE {i \in Entry(node, Root, p[1], "data") : node[i].kind = "folder"}

At(p, n, f) == UNION {Entry(node, d, n, f) : d \in Folder(p)}

\* Two entries that make up one file: same folder, same name.
Beside(nd, i, j) == nd[i].dir = nd[j].dir /\ nd[i].name = nd[j].name

\* FileStore.Rename: missing entries, folders in the way, a folder that would
\* be put into itself, or else success, which replaces a file in the way.
RenameResult(p, n, f, q, m, g) ==
    LET src == At(p, n, f)
        dst == At(q, m, g)
    IN CASE src = {} -> "notexist"
         [] \E j \in dst : node[j].kind = "folder" -> "error"
         [] Folder(q) = {} -> "notexist"
         [] \E i \in src : node[i].kind = "folder"
                           /\ (dst # {} \/ i \in Folder(q)) -> "error"
         [] OTHER -> "ok"

Replaced(p, n, f, q, m, g) == At(q, m, g) \ At(p, n, f)

RenameEntry(p, n, f, q, m, g) ==
    LET src == At(p, n, f)
        lost == Replaced(p, n, f, q, m, g)
    IN node' = [i \in Nodes |->
                  CASE i \in src -> [node[i] EXCEPT !.dir = CHOOSE d \in Folder(q) : TRUE,
                                                   !.name = m, !.fork = g]
                    [] i \in lost -> Gone
                    [] OTHER -> node[i]]

\* The entries themselves, what is in them, what is in that, and so on.
Below(S) ==
    LET down[k \in 0 .. MaxNodes] ==
            IF k = 0 THEN S
            ELSE LET D == down[k - 1] IN D \cup {i \in Nodes : node[i].dir \in D}
    IN down[MaxNodes]

\* RemoveAll: entries and all that is below them.
RemoveAll(S) ==
    LET lost == Below(S)
    IN node' = [i \in Nodes |-> IF i \in lost THEN Gone ELSE node[i]]

Entered(d, n, f, k, o, t) ==
    [dir |-> d, name |-> n, fork |-> f, kind |-> k, of |-> o, text |-> t]

Objects(nd) == {i \in Nodes : nd[i].kind # "none" /\ nd[i].fork \in {"data", "incomplete"}}

\* At the start no two entries have one place, no two files one name, and what
\* is not a file or folder itself lies beside the one it belongs to.
ASSUME TreeAssumption ==
    /\ Tree \in Seq(NodeRec) /\ Len(Tree) <= MaxNodes
    /\ \A i \in DOMAIN Tree :
          /\ Tree[i].kind # "none"
          /\ Tree[i].dir \in {Root} \cup DOMAIN Tree
          /\ Tree[i].of \in {0} \cup DOMAIN Tree
          /\ \A j \in DOMAIN Tree \ {i} : Beside(Tree, i, j) =>
                /\ Tree[i].fork # Tree[j].fork
                /\ Tree[i].fork \in {"rsrc", "info"} \/ Tree[j].fork \in {"rsrc", "info"}
          /\ Tree[i].fork \in {"rsrc", "info"} =>
                /\ Tree[i].of \in DOMAIN Tree /\ Beside(Tree, i, Tree[i].of)
                /\ Tree[Tree[i].of].fork \in {"data", "incomplete"}
                /\ Tree[i].fork = "rsrc" => Tree[Tree[i].of].kind = "file"
                /\ Tree[i].fork = "info" => Tree[i].text \in Comments

-----------------------------------------------------------------------------
(* Which files may have lost track of their side entries *)

\* Two files under one name, or a file that came to lie beside what a loose
\* one left.
Caught(nd, L) ==
    {i \in Objects(nd) :
        \E k \in Nodes \ {i} : /\ Beside(nd, i, k)
                               /\ nd[k].kind # "none"
                               /\ \/ nd[k].fork \in {"data", "incomplete"}
                                  \/ nd[k].of # i /\ nd[k].of \in L}

Touches(r) == {<<r.path, r.name>>} \cup
              (IF r.op \in {"setinfo", "move"} THEN {<<r.to, r.new>>} ELSE {})

\* One request is about an entry of the other, or about the folder it is in.
Overlaps(r, s) ==
    \/ Touches(r) \cap Touches(s) # {}
    \/ \E x \in Touches(r), y \in Touches(s) :
          (x[1] = <<>> /\ y[1] = <<x[2]>>) \/ (y[1] = <<>> /\ x[1] = <<y[2]>>)

\* What lies where a request is about to do something.
Involved(r) == {i \in Objects(node) : \E x \in Touches(r) : i \in At(x[1], x[2], node[i].fork)}

\* The requests that overlap with another one.
Contending(rq) ==
    {rq[c] : c \in {c \in Conns : /\ rq[c].at # "idle"
                                  /\ \E e \in Conns \ {c} : /\ rq[e].at # "idle"
                                                             /\ Overlaps(rq[c], rq[e])}}

\* A step that gets hold of L, beside what requests contend for.
Loosen(L) ==
    LET S == Contending(req) \cup Contending(req')
        M == loose \cup L \cup ({s.obj : s \in S} \ {0}) \cup UNION {Involved(s)' : s \in S}
    IN loose' = M \cup Caught(node', M)

Ready(c) == left > 0 /\ req[c].at = "idle"

\* A connection that is ready is served request r.
Begin(c, r) ==
    /\ left' = left - 1
    /\ req' = [req EXCEPT ![c] = r]
    /\ Loosen({})

End(c) == req' = [req EXCEPT ![c] = NoRequest]
Go(c, step) == req' = [req EXCEPT ![c].at = step]

May(c, op, kind) == <<op, kind>> \in Rights[c]

-----------------------------------------------------------------------------
(* HandleSetFileInfo: the comment first, then the name *)

SetFileInfo(c, p, n, cm, m) ==
    \E i \in At(p, n, "data") :
        /\ cm # Keep \/ m # n
        /\ cm # Keep => May(c, "comment", node[i].kind)
        /\ UNCHANGED <<node, next, comment, makers>>
        /\ Begin(c, [op |-> "setinfo", path |-> p, name |-> n, to |-> p, new |-> m,
                     kind |-> node[i].kind, text |-> cm,
                     at |-> IF cm = Keep THEN "rename" ELSE "open",
                     obj |-> i, info |-> 0])

\* InfoForkWriter creates the fork or truncates it.
OpenInfo(c) ==
    LET r == req[c]
        k == IF At(r.path, r.name, "info") = {} THEN next
             ELSE CHOOSE x \in At(r.path, r.name, "info") : TRUE
    IN /\ r.at = "open"
       /\ UNCHANGED <<left, comment, makers>>
       /\ \/ /\ Folder(r.path) = {}
             /\ End(c)
             /\ UNCHANGED <<node, next, loose>>
          \/ /\ Folder(r.path) # {}
             /\ k <= MaxNodes
             /\ node' = [node EXCEPT ![k] = Entered(CHOOSE d \in Folder(r.path) : TRUE,
                                         r.name, "info", "file", r.obj, Cut)]
             /\ next' = IF k = next THEN next + 1 ELSE next
             /\ req' = [req EXCEPT ![c].at = "write", ![c].info = k]
             /\ Loosen({})

\* The content goes to the fork that was opened, wherever it is by now and
\* whatever it belongs to.
Fill(k, o, t) ==
    /\ node' = IF node[k].kind = "none" THEN node
               ELSE [node EXCEPT ![k].text = t, ![k].of = o]
    /\ comment' = [comment EXCEPT ![o] = t]

OthersFork(k, o) == IF k = 0 \/ node[k].of \in {0, o} THEN {} ELSE {node[k].of}

WriteInfo(c) ==
    LET r == req[c]
    IN /\ r.at = "write"
       /\ Fill(r.info, r.obj, r.text)
       /\ IF r.new = r.name THEN End(c) ELSE Go(c, "rename")
       /\ Loosen(OthersFork(r.info, r.obj))
       /\ UNCHANGED <<next, left, makers>>

\* The right to rename is looked at when the comment has been written.
RenameDenied(c) ==
    /\ req[c].at = "rename"
    /\ ~May(c, "rename", req[c].kind)
    /\ End(c)
    /\ UNCHANGED <<node, next, left, comment, loose, makers>>

\* Only the folder itself is renamed; its information fork stays.
RenameFolder(c) ==
    LET r == req[c]
    IN /\ r.at = "rename" /\ r.kind = "folder"
       /\ May(c, "rename", "folder")
       /\ End(c)
       /\ UNCHANGED <<next, left, comment, makers>>
       /\ \/ /\ RenameResult(r.path, r.name, "data", r.to, r.new, "data") = "ok"
             /\ RenameEntry(r.path, r.name, "data", r.to, r.new, "data")
             /\ Loosen(Replaced(r.path, r.name, "data", r.to, r.new, "data") \cup
                       IF At(r.path, r.name, "info") = {} THEN {} ELSE {r.obj})
          \/ /\ RenameResult(r.path, r.name, "data", r.to, r.new, "data") # "ok"
             /\ UNCHANGED <<node, loose>>

RenameFile(c) ==
    /\ req[c].at = "rename" /\ req[c].kind = "file"
    /\ May(c, "rename", "file")
    /\ Go(c, "data")
    /\ UNCHANGED <<node, next, left, comment, loose, makers>>

-----------------------------------------------------------------------------
(* HandleMoveFile and HandleDeleteFile, an entry at a time *)

\* DataFile: the data or else the partial upload.
DataFile(p, n) == IF At(p, n, "data") # {} THEN At(p, n, "data") ELSE At(p, n, "incomplete")

MoveFile(c, p, n, q) ==
    \E i \in DataFile(p, n) :
        /\ May(c, "move", node[i].kind)
        /\ UNCHANGED <<node, next, comment, makers>>
        /\ Begin(c, [op |-> "move", path |-> p, name |-> n, to |-> q, new |-> n,
                     kind |-> node[i].kind, text |-> Keep, at |-> "data",
                     obj |-> i, info |-> 0])

DeleteFile(c, p, n) ==
    \E i \in DataFile(p, n) :
        /\ May(c, "delete", node[i].kind)
        /\ UNCHANGED <<node, next, comment, makers>>
        /\ Begin(c, [op |-> "delete", path |-> p, name |-> n, to |-> p, new |-> n,
                     kind |-> node[i].kind, text |-> Keep, at |-> "data",
                     obj |-> i, info |-> 0])

After(f) == CASE f = "data"       -> "incomplete"
              [] f = "incomplete" -> "rsrc"
              [] f = "rsrc"       -> "info"
              [] f = "info"       -> "idle"

\* The next entry, or the end of the request.
Continue(c) == IF After(req[c].at) = "idle" THEN End(c) ELSE Go(c, After(req[c].at))

\* Mutant: side entries that are missing end the move.
MoveStopsEarly(c) ==
    LET r == req[c]
        result == RenameResult(r.path, r.name, r.at, r.to, r.new, r.at)
    IN /\ r.at \in Forks /\ r.op \in {"setinfo", "move"}
       /\ UNCHANGED <<next, left, comment, makers>>
       /\ \/ /\ result = "ok"
             /\ RenameEntry(r.path, r.name, r.at, r.to, r.new, r.at)
             /\ Continue(c)
             /\ Loosen({})
          \/ result # "ok" /\ End(c) /\ UNCHANGED <<node, loose>>

\* File.Move: a missing side entry is passed over, a missing file is not.  An
\* error ends the request; what has been moved by then stays moved.
Move(c) ==
    LET r == req[c]
        result == RenameResult(r.path, r.name, r.at, r.to, r.new, r.at)
        covered == Replaced(r.path, r.name, r.at, r.to, r.new, r.at)
    IN /\ r.at \in Forks /\ r.op \in {"setinfo", "move"}
       /\ UNCHANGED <<next, left, comment, makers>>
       /\ \/ /\ result = "ok"
             /\ RenameEntry(r.path, r.name, r.at, r.to, r.new, r.at)
             /\ Continue(c)
             /\ Loosen(IF r.at = "data" /\ covered # {} THEN covered \cup {r.obj} ELSE {})
          \/ /\ result = "notexist" /\ r.at # "data"
             /\ Continue(c)
             /\ UNCHANGED <<node, loose>>
          \/ /\ result = "error" \/ (result = "notexist" /\ r.at = "data")
             /\ End(c)
             /\ UNCHANGED node
             /\ Loosen(IF r.at = "data" THEN {} ELSE {r.obj})

\* File.Delete
Delete(c) ==
    LET r == req[c]
    IN /\ r.at \in Forks /\ r.op = "delete"
       /\ RemoveAll(At(r.path, r.name, r.at))
       /\ Continue(c)
       /\ Loosen({})
       /\ UNCHANGED <<next, left, comment, makers>>

-----------------------------------------------------------------------------
(* UploadHandler, as far as it concerns entries *)

\* Open, or create, the partial file and with preserved forks these, too.
Upload(c, p, n, cm) ==
    /\ At(p, n, "data") = {}
    /\ \E d \in Folder(p), keep \in Preserve :
        LET have(f) == At(p, n, f)
            new(f)  == IF have(f) = {} THEN 1 ELSE 0
            inc == IF have("incomplete") = {} THEN next
                   ELSE CHOOSE x \in have("incomplete") : TRUE
            res == IF have("rsrc") = {} THEN next + new("incomplete")
                   ELSE CHOOSE x \in have("rsrc") : TRUE
            inf == IF have("info") = {} THEN next + new("incomplete") + new("rsrc")
                   ELSE CHOOSE x \in have("info") : TRUE
            sum == next + new("incomplete")
                        + IF keep THEN new("rsrc") + new("info") ELSE 0
        IN /\ sum <= MaxNodes + 1
           /\ next' = sum
           /\ node' = [i \in Nodes |->
                CASE i = inc -> Entered(d, n, "incomplete", "file", 0, NoComment)
                  [] keep /\ i = res -> Entered(d, n, "rsrc", "file", inc, NoComment)
                  [] keep /\ i = inf -> Entered(d, n, "info", "file", inc, Cut)
                  [] OTHER -> node[i]]
           /\ Begin(c, [op |-> "upload", path |-> p, name |-> n, to |-> p, new |-> n,
                        kind |-> "file", text |-> cm, at |-> "receive",
                        obj |-> inc, info |-> IF keep THEN inf ELSE 0])
    /\ UNCHANGED <<comment, makers>>

Receive(c) ==
    LET r == req[c]
    IN /\ r.at = "receive"
       /\ IF r.info = 0 THEN UNCHANGED <<node, comment>> ELSE Fill(r.info, r.obj, r.text)
       /\ Go(c, "finish")
       /\ Loosen(OthersFork(r.info, r.obj))
       /\ UNCHANGED <<next, left, makers>>

\* The sender goes away; what has been received stays for a later upload.
BreakOff(c) ==
    /\ req[c].at = "receive"
    /\ End(c)
    /\ UNCHANGED <<node, next, left, comment, makers>>
    /\ Loosen({req[c].obj})

Finish(c) ==
    LET r == req[c]
        result == RenameResult(r.path, r.name, "incomplete", r.path, r.name, "data")
    IN /\ r.at = "finish"
       /\ End(c)
       /\ IF result = "ok" THEN RenameEntry(r.path, r.name, "incomplete", r.path, r.name, "data")
          ELSE UNCHANGED node
       /\ Loosen(IF result = "ok" THEN {} ELSE {r.obj})
       /\ UNCHANGED <<next, left, comment, makers>>

-----------------------------------------------------------------------------
(* HandleNewFolder: look, then create *)

NewFolder(c, p, n) ==
    /\ May(c, "create", "folder")
    /\ At(p, n, "data") = {}
    /\ UNCHANGED <<node, next, comment, makers>>
    /\ Begin(c, [op |-> "newfolder", path |-> p, name |-> n, to |-> p, new |-> n,
                 kind |-> "folder", text |-> Keep, at |-> "mkdir",
                 obj |-> 0, info |-> 0])

\* Mutant: MkdirAll is content with a folder that is there.
MkdirAll(c) ==
    LET r == req[c]
        made == IF At(r.path, r.name, "data") = {} THEN {next}
                ELSE At(r.path, r.name, "data")
    IN /\ r.at = "mkdir"
       /\ \E d \in Folder(r.path), i \in made \cap Nodes :
             /\ node' = IF i = next
                        THEN [node EXCEPT ![i] = Entered(d, r.name, "data", "folder",
                                                         0, NoComment)]
                        ELSE node
             /\ next' = IF i = next THEN next + 1 ELSE next
             /\ makers' = [makers EXCEPT ![i] = @ \cup {c}]
       /\ End(c)
       /\ UNCHANGED <<left, comment, loose>>

Mkdir(c) ==
    LET r == req[c]
    IN /\ r.at = "mkdir"
       /\ End(c)
       /\ UNCHANGED <<left, comment>>
       /\ \/ /\ Folder(r.path) = {} \/ At(r.path, r.name, "data") # {}
             /\ UNCHANGED <<node, next, loose, makers>>
          \/ /\ At(r.path, r.name, "data") = {}
             /\ next <= MaxNodes
             /\ \E d \in Folder(r.path) : node' =
                   [node EXCEPT ![next] = Entered(d, r.name, "data", "folder", 0, NoComment)]
             /\ next' = next + 1
             /\ makers' = [makers EXCEPT ![next] = {c}]
             /\ Loosen({})

-----------------------------------------------------------------------------
\* The process ends in the middle of what it was doing, and starts again.
ServerCrash ==
    /\ \E c \in Conns : req[c].at # "idle"
    /\ req' = [c \in Conns |-> NoRequest]
    /\ UNCHANGED <<node, next, left, comment, makers>>
    /\ Loosen({req[c].obj : c \in Conns} \ {0})

FilesInit ==
    /\ node = [i \in Nodes |-> IF i \in DOMAIN Tree THEN Tree[i] ELSE Gone]
    /\ next = Len(Tree) + 1
    /\ req = [c \in Conns |-> NoRequest]
    /\ left = MaxRequests
    /\ comment = [i \in Nodes |->
                    IF \E k \in DOMAIN Tree : Tree[k].fork = "info" /\ Tree[k].of = i
                    THEN Tree[CHOOSE k \in DOMAIN Tree : Tree[k].fork = "info"
                                                       /\ Tree[k].of = i].text
                    ELSE NoComment]
    /\ loose = {}
    /\ makers = [i \in Nodes |-> {}]

Step(c) ==
    \/ OpenInfo(c) \/ WriteInfo(c)
    \/ RenameDenied(c) \/ RenameFolder(c) \/ RenameFile(c)
    \/ Move(c) \/ Delete(c)
    \/ Receive(c) \/ BreakOff(c) \/ Finish(c)
    \/ Mkdir(c)

FilesNext ==
    \/ \E c \in Conns :
          /\ Ready(c)
          /\ \E p \in Paths, n \in Names :
                \/ \E cm \in Comments \cup {Keep}, m \in Names : SetFileInfo(c, p, n, cm, m)
                \/ \E q \in Paths : MoveFile(c, p, n, q)
                \/ DeleteFile(c, p, n)
                \/ \E cm \in Comments : Upload(c, p, n, cm)
                \/ NewFolder(c, p, n)
    \/ \E c \in Conns : Step(c)
    \/ ServerCrash

FilesSpec == FilesInit /\ [][FilesNext]_fileVars

-----------------------------------------------------------------------------
(* Properties *)

SideEntries(i) == {k \in Nodes : /\ node[k].kind # "none"
                                 /\ node[k].fork \in {"rsrc", "info"}
                                 /\ Beside(node, i, k) \/ node[k].of = i}

\* Whatever sequence of uploads, comments, renames, moves and deletions others
\* and it went through, a file or folder that no request is about has beside it
\* the comment it was last given, in an information fork of its own, and no
\* side entry of another one; none of its own is left behind elsewhere.
\* Excepted are those that overlapping requests, a crash in mid-request, a
\* file in the way or the renaming of a folder with a comment got hold of.
SideEntriesFollow ==
    \A i \in Objects(node) \ loose :
        (node[i].fork = "data" /\ \A c \in Conns : req[c].obj # i) =>
            /\ \A k \in SideEntries(i) :
                  /\ Beside(node, i, k) /\ node[k].of = i
                  /\ node[k].fork = "info" => node[k].text = comment[i]
            /\ comment[i] # NoComment =>
                  \E k \in SideEntries(i) : node[k].fork = "info"

\* Of several clients that create a folder of one name at the same time, one is
\* told that it did.
OneMaker == \A i \in Nodes : Cardinality(makers[i]) <= 1
=============================================================================
