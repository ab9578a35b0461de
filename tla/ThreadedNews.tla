---------------------------- MODULE ThreadedNews ----------------------------
(***************************************************************************)
(* Threaded news (internal/mobius/threaded_news.go): bundles, categories   *)
(* and articles in one tree in memory, saved as a whole to                 *)
(* ThreadedNews.yaml through a temporary file and a rename.  A call whose  *)
(* save fails undoes its change.  Articles are numbered within a category  *)
(* and linked by number: previous, next, parent and first child.           *)
(***************************************************************************)
EXTENDS Integers, FiniteSets

CONSTANTS
    Groups,    \* paths of bundles and categories
    Up,        \* the path above each, Root for the top level
    Root,
    None,      \* nothing there
    Nil,       \* a map key whose value is a nil pointer
    MaxID,     \* bound: articles of a category
    MaxPosts,  \* bound: articles posted
    MaxFaults  \* bound: failed saves, panics and crashes

ASSUME GroupsAssumption ==
    /\ Root \notin Groups /\ None \notin Groups
    /\ Up \in [Groups -> Groups \cup {Root}]
    /\ \A g \in Groups : Up[g] # Root => Up[Up[g]] = Root  \* bound: two levels
ASSUME BoundsAssumption ==
    MaxID \in Nat /\ MaxPosts \in Nat /\ MaxFaults \in Nat

IDs   == 1 .. MaxID
Links == 0 .. MaxID + 1

\* uid and of are history: which post this is, and which one it answers.
Article == [parent: Links, prev: Links, next: Links, child: Links,
            uid: 0 .. MaxPosts, of: 0 .. MaxPosts]

Types == {"bundle", "category", "zero"}

\* hasArts and hasSubs: the Articles and SubCats maps are not nil.
Node  == [type: Types, arts: [IDs -> Article \cup {None, Nil}],
          hasArts: BOOLEAN, hasSubs: BOOLEAN]

ASSUME NilAssumption == None # Nil /\ {None, Nil} \cap (Article \cup Node) = {}

VARIABLES
    news,     \* ThreadedNews.Categories
    file,     \* the content of ThreadedNews.yaml
    checked,  \* items a deletion has been authorized for
    up,       \* the server runs
    drift,    \* history: a fault left memory and file different
    pruned,   \* history: categories that lost an article
    posts,    \* articles posted so far
    faults    \* faults so far

vars == <<news, file, checked, up, drift, pruned, posts, faults>>

TypeOK ==
    /\ news \in [Groups -> Node \cup {None}]
    /\ file \in [Groups -> Node \cup {None}]
    /\ checked \subseteq Groups
    /\ up \in BOOLEAN
    /\ drift \in BOOLEAN
    /\ pruned \subseteq Groups
    /\ posts \in 0 .. MaxPosts
    /\ faults \in 0 .. MaxFaults

NoArts == [i \in IDs |-> None]
Empty(t) == [type |-> t, arts |-> NoArts, hasArts |-> TRUE, hasSubs |-> TRUE]

\* The zero value a lookup of a missing key yields.
Zero == [type |-> "zero", arts |-> NoArts, hasArts |-> FALSE, hasSubs |-> FALSE]

\* YAML writes a nil map as an empty one.
Encode(n) ==
    [g \in Groups |-> IF n[g] = None THEN None
                      ELSE [n[g] EXCEPT !.hasArts = TRUE, !.hasSubs = TRUE]]

Init ==
    /\ news = [g \in Groups |-> None]
    /\ file = news
    /\ checked = {}
    /\ up = TRUE
    /\ drift = FALSE
    /\ pruned = {}
    /\ posts = 0
    /\ faults = 0

-----------------------------------------------------------------------------
(* Saving *)

Fault == faults < MaxFaults /\ faults' = faults + 1

\* getCatByPath(newsPath up to the last name): not a nil map.
HasMap(g) == Up[g] # Root => news[Up[g]] # None /\ news[Up[g]].hasSubs

\* cats[name] = node, or delete: what was below g goes with it.
Replace(g, node) ==
    [h \in Groups |-> IF h = g THEN node ELSE IF Up[h] = g THEN None ELSE news[h]]

Saved(n) ==
    /\ news' = n
    /\ file' = Encode(n)
    /\ drift' = FALSE
    /\ UNCHANGED <<up, faults>>

\* The save fails and the call leaves n in memory.
Unsaved(n, lossy) ==
    /\ Fault
    /\ news' = n
    /\ drift' = (drift \/ lossy)
    /\ UNCHANGED <<file, up>>

\* The process dies before or after the rename.
Dies(n) ==
    /\ Fault
    /\ file' \in {file, Encode(n)}
    /\ up' = FALSE
    /\ UNCHANGED <<news, drift>>

\* What a saved call put in place of g has lost no article yet.
Forget(g) == pruned' = IF file' = file \/ ~up' THEN pruned
                       ELSE pruned \ {h \in Groups : g \in {h, Up[h]}}

\* One call that wants n in memory and file, and leaves undone in memory if
\* it cannot be saved; lossy when that is known not to be what was there.
Call(n, undone, lossy) == up /\ (Saved(n) \/ Unsaved(undone, lossy) \/ Dies(n))

-----------------------------------------------------------------------------
(* Groupings *)

\* An existing item of that name is replaced, and lost when the save fails.
CreateGrouping(g, t) ==
    /\ HasMap(g)
    /\ Call(Replace(g, Empty(t)), Replace(g, None), news[g] # None)
    /\ Forget(g)
    /\ UNCHANGED <<checked, posts>>

\* HandleDelNewsItem looks at the type of the item to see which right it needs ...
CheckDelete(g) ==
    /\ up
    /\ checked' = checked \cup {g}
    /\ UNCHANGED <<news, file, up, drift, pruned, posts, faults>>

\* ... and then deletes what has the path by now.  Undoing the deletion of
\* nothing makes a nameless item.
DeleteNewsItem(g) ==
    /\ g \in checked
    /\ checked' = checked \ {g}
    /\ \/ /\ HasMap(g)
          /\ Call(Replace(g, None),
                  IF news[g] = None THEN Replace(g, Zero) ELSE news,
                  news[g] = None)
          /\ Forget(g)
       \/ ~HasMap(g) /\ Call(news, news, FALSE) /\ UNCHANGED pruned
    /\ UNCHANGED posts

-----------------------------------------------------------------------------
(* Articles *)

Keys(A) == {i \in IDs : A[i] # None}
Last(A) == IF Keys(A) = {} THEN 0
           ELSE CHOOSE i \in Keys(A) : \A j \in Keys(A) : j <= i

\* The category an article goes to; a missing one is made on the spot.
Category(g) == [(IF news[g] = None THEN Zero ELSE news[g]) EXCEPT !.hasArts = TRUE]

\* The last article gets a successor.
Linked(A) == IF Last(A) = 0 THEN A ELSE [A EXCEPT ![Last(A)].next = Last(A) + 1]

\* The article itself under number n, and the first answer of its parent.
PostedAs(A, par, n) ==
    LET B == [Linked(A) EXCEPT ![n] =
               [parent |-> par, prev |-> Last(A), next |-> 0, child |-> 0,
                uid |-> posts + 1, of |-> IF par = 0 THEN 0 ELSE A[par].uid]]
    IN  IF par # 0 /\ A[par].child = 0 THEN [B EXCEPT ![par].child = n] ELSE B

\* Mutant: the lowest free number is taken.
PostedLowest(A, par) ==
    PostedAs(A, par, CHOOSE i \in IDs \ Keys(A) :
                        \A j \in IDs \ Keys(A) : i <= j)

Posted(A, par) == PostedAs(A, par, Last(A) + 1)

With(g, node, A) == [news EXCEPT ![g] = [node EXCEPT !.arts = A]]

\* A post that leaves undone in the category when it cannot be saved.
Post(g, par, undone) ==
    LET cat == Category(g)
    IN  /\ Last(cat.arts) < MaxID /\ posts < MaxPosts
        /\ HasMap(g)
        /\ Last(cat.arts) # 0 => cat.arts[Last(cat.arts)] # Nil
        /\ par # 0 => cat.arts[par] \notin {None, Nil}
        /\ Call(With(g, cat, Posted(cat.arts, par)), With(g, cat, undone),
                news[g] = None)
        /\ posts' = posts + 1
        /\ UNCHANGED <<checked, pruned>>

\* Mutant: only the article itself is taken back.
PostNotUnlinked(g, par) ==
    LET A == Category(g).arts
    IN  Post(g, par, [Posted(A, par) EXCEPT ![Last(A) + 1] = None])

PostArticle(g, par) == Post(g, par, Category(g).arts)

\* An answer to an article that is not there panics after the link was set.
PostPanics(g, par) ==
    /\ up /\ HasMap(g)
    /\ news[g] # None
    /\ Fault
    /\ Last(news[g].arts) \in 1 .. MaxID - 1
    /\ news[g].arts[Last(news[g].arts)] # Nil
    /\ par # 0 /\ news[g].arts[par] \in {None, Nil}
    /\ news' = With(g, news[g], Linked(news[g].arts))
    /\ drift' = (drift \/ news' # news)
    /\ UNCHANGED <<file, checked, up, pruned, posts>>

\* What a failed save of a deletion leaves: the entry is put back, as a nil
\* one if there was none.  Without an Articles map that panics.
Undeleted(g, i) ==
    IF news[g] = None THEN [news EXCEPT ![g] = Zero]
    ELSE IF news[g].hasArts /\ news[g].arts[i] = None
    THEN [news EXCEPT ![g].arts[i] = Nil]
    ELSE news

\* Nothing is said to the neighbours, the parent or the answers of the article.
DeleteArticle(g, i) ==
    /\ HasMap(g)
    /\ Call(IF news[g] = None THEN [news EXCEPT ![g] = Zero]
            ELSE [news EXCEPT ![g].arts[i] = None],
            Undeleted(g, i), news[g] = None \/ news[g].arts[i] = None)
    /\ pruned' = pruned \cup {g}
    /\ UNCHANGED <<checked, posts>>

-----------------------------------------------------------------------------
\* At start and on a reload.
Load ==
    /\ news' = file
    /\ drift' = FALSE
    /\ up' = TRUE
    /\ checked' = IF up THEN checked ELSE {}
    /\ UNCHANGED <<file, pruned, posts, faults>>

Crash ==
    /\ up
    /\ Fault
    /\ up' = FALSE
    /\ UNCHANGED <<news, file, checked, drift, pruned, posts>>

Next ==
    \/ \E g \in Groups :
         \/ \E t \in {"bundle", "category"} : CreateGrouping(g, t)
         \/ CheckDelete(g) \/ DeleteNewsItem(g)
         \/ \E par \in 0 .. MaxID : PostArticle(g, par) \/ PostPanics(g, par)
         \/ \E i \in IDs : DeleteArticle(g, i)
    \/ Load \/ Crash

Spec == Init /\ [][Next]_vars

-----------------------------------------------------------------------------
(* Properties *)

IsArticle(g, i) == news[g] # None /\ news[g].arts[i] \notin {None, Nil}

\* A rolled back call leaves no trace: as long as no panic hit a half-done post
\* and no rollback was one of those known not to restore what was there (a
\* grouping over an existing one, a post to a missing category, the deletion of
\* something missing), memory and file hold the same news after any sequence of posts,
\* deletions, failed saves and restarts.
MemoryIsFile == up /\ ~drift => Encode(news) = file

\* Threads are forests, and the links of a category never lead in a circle,
\* although numbers are reused, articles deleted without telling their
\* neighbours, and posts undone.
LinksAreOrdered ==
    \A g \in Groups, i \in IDs :
        IsArticle(g, i) =>
            LET a == news[g].arts[i]
            IN  /\ a.parent < i /\ a.prev < i
                /\ a.next = 0 \/ a.next > i
                /\ a.child = 0 \/ a.child > i

\* In a category that has lost no article, previous and next are inverse to
\* each other and every article that has answers leads to the first of them,
\* whatever posts failed or panicked.
ThreadsAreComplete ==
    \A g \in Groups \ pruned, i \in IDs :
        up /\ IsArticle(g, i) =>
            LET A == news[g].arts
                answers == {j \in IDs : IsArticle(g, j) /\ A[j].parent = i}
            IN  /\ i < Last(A) => A[i].next = i + 1 /\ A[i + 1].prev = i
                /\ i = Last(A) => A[i].next \in {0, i + 1}
                /\ IF answers = {} THEN A[i].child = 0
                   ELSE A[i].child \in answers /\ \A j \in answers : A[i].child <= j

\* "ID of parent article": the article that has the number an answer names as
\* its parent is the one it was posted as an answer to, although the numbers of
\* deleted articles are given out again.
ParentIsParent ==
    \A g \in Groups, i \in IDs :
        IsArticle(g, i) =>
            LET p == news[g].arts[i].parent
            IN  p \in IDs /\ IsArticle(g, p)
                  => news[g].arts[p].uid = news[g].arts[i].of
=============================================================================
