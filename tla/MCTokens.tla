------------------------------ MODULE MCTokens ------------------------------
(***************************************************************************)
(* A small instance of Tokens for TLC.  Tokens of different users have     *)
(* nothing in common, so there is one user.                                *)
(***************************************************************************)
EXTENDS Tokens, TLC

EveryStep == {"check", "read", "access", "refresh"}

Symmetry == Permutations(Sessions)
=============================================================================
