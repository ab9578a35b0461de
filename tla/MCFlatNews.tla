----------------------------- MODULE MCFlatNews -----------------------------
(* Instances of FlatNews for TLC. *)
EXTENDS FlatNews, TLC

CONSTANTS p1, p2, p3

\* Two short posts and a long one.
MCSize == p1 :> 1 @@ p2 :> 1 @@ p3 :> 3

NewsSymmetry == Permutations(Readers) \cup Permutations({p1, p2})
=============================================================================
