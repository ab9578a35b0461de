------------------------------ MODULE MCFiles -------------------------------
(* Instances of Files for TLC. *)
EXTENDS Files

CONSTANTS c1, c2, a, b, hello

Two == {c1, c2}
TheNames == {a, b}
ThePaths == {<<>>, <<a>>}
Everything == ({"comment", "rename", "move", "delete"} \X {"file", "folder"})
              \cup {<<"create", "folder">>}
TheRights == [c \in Conns |-> IF c = c1 THEN Everything
                              ELSE Everything \ {<<"rename", "file">>}]

\* Folder a with a comment and a file b in it, and a file b beside it, with a
\* comment and a resource fork.
TheTree ==
    << Entered(Root, a, "data", "folder", 0, NoComment),
       Entered(1, b, "data", "file", 0, NoComment),
       Entered(Root, b, "data", "file", 0, NoComment),
       Entered(Root, b, "info", "file", 3, hello),
       Entered(Root, b, "rsrc", "file", 3, NoComment) >>
=============================================================================
