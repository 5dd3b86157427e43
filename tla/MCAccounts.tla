----------------------------- MODULE MCAccounts -----------------------------
(***************************************************************************)
(* A small instance of Accounts for TLC: two names of skills whose slugs   *)
(* differ, and a third one that is written otherwise but has the first     *)
(* one's slug.                                                             *)
(***************************************************************************)
EXTENDS Accounts, TLC

CONSTANTS sql, SQL, go, slug1, slug2

SlugOf == (sql :> slug1) @@ (SQL :> slug1) @@ (go :> slug2)

Lists == {{sql}, {SQL}, {sql, go}}

Writes == {"commit", "store"}

Symmetry == Permutations(Sessions) \cup Permutations(Ids) \cup Permutations(Passwords)
=============================================================================
