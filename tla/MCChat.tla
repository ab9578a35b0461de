------------------------------- MODULE MCChat -------------------------------
(* Instances of Chat for TLC. *)
EXTENDS Chat, TLC

ConnSymmetry == Permutations(Conns \ Refusers) \cup Permutations(Subjects)
=============================================================================
