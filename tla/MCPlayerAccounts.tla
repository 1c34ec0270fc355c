-------------------------- MODULE MCPlayerAccounts --------------------------
(***************************************************************************)
(* PlayerAccounts on small instances.                                      *)
(***************************************************************************)
EXTENDS PlayerAccounts, TLC

Symmetry ==
    Permutations(Threads) \cup Permutations(Emails) \cup Permutations(Designs)
=============================================================================
