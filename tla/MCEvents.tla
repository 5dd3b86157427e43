------------------------------ MODULE MCEvents ------------------------------
(***************************************************************************)
(* Small instances of Events for TLC.                                      *)
(***************************************************************************)
EXTENDS Events, TLC

(* Every step that talks to the database may fail ... *)
AnyStep == {"check", "insert", "find", "delete", "pick", "promote", "spot", "checkin"}

(* ... or none does. *)
NoStep == {}

Symmetry == Permutations(Profiles) \cup Permutations(Sessions)
=============================================================================
