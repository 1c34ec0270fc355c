-------------------------- MODULE MCEvidenceStore --------------------------
(***************************************************************************)
(* EvidenceStore on small instances.                                       *)
(***************************************************************************)
EXTENDS EvidenceStore, TLC

Symmetry == Permutations(Workers)
=============================================================================
