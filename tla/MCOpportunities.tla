-------------------------- MODULE MCOpportunities --------------------------
(***************************************************************************)
(* A small instance of Opportunities for TLC.                              *)
(***************************************************************************)
EXTENDS Opportunities, TLC

Symmetry == Permutations(Skills) \cup Permutations(Sessions)
=============================================================================
