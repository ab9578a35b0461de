----------------------------- MODULE MCAccounts -----------------------------
(* Constants of the Accounts instances. *)
EXTENDS Accounts, TLC

\* Creation only, and everything.
MCGrants == {{Create}, {Create, Modify, Delete}}

\* Sessions are interchangeable.
MCSymmetry == Permutations(Conns)
=============================================================================
