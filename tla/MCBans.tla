------------------------------- MODULE MCBans -------------------------------
(* Constants of the Bans instance. *)
EXTENDS Bans, TLC

\* Addresses are interchangeable.
MCSymmetry == Permutations(IPs)
=============================================================================
