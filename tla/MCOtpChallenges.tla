-------------------------- MODULE MCOtpChallenges --------------------------
(***************************************************************************)
(* OtpChallenges on small instances.                                       *)
(***************************************************************************)
EXTENDS OtpChallenges, TLC

Symmetry == Permutations(Workers)
=============================================================================
