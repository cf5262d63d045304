----------------------------- MODULE MCAccounts -----------------------------
(* Accounts for TLC. *)
EXTENDS Accounts, TLC

CONSTANTS u1, s1, s2, n1, n2, l1

Symmetry == Permutations(Slots)
=============================================================================
