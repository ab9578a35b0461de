---------------------------- MODULE MCTransfers -----------------------------
(* Symmetry of the Transfers instances. *)
EXTENDS Transfers, TLC

MCSymmetry == Permutations(Refs) \cup Permutations(Handlers)
                  \cup Permutations(Files) \cup Permutations(Sources)
=============================================================================
