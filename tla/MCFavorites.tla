---------------------------- MODULE MCFavorites ----------------------------
(***************************************************************************)
(* A small instance of Favorites for TLC.                                  *)
(***************************************************************************)
EXTENDS Favorites, TLC

CONSTANTS o1, o2, c1

(* Everything at once, and a list of one opportunity and one company. *)
TwoLists == {{o1, o2, c1}, {o1, c1}}

(* The counters' transactions and the last COMMIT of a sync may fail. *)
SomeSteps == {"refresh", "count", "uncount", "tally", "commit"}

Symmetry == Permutations(Users) \cup Permutations(Sessions)
=============================================================================
