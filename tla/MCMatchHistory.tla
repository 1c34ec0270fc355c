--------------------------- MODULE MCMatchHistory ---------------------------
(***************************************************************************)
(* MatchHistory and its pages, on small instances.                         *)
(***************************************************************************)
EXTENDS PlayerPages, TLC

Symmetry == Permutations(Regs)
=============================================================================
