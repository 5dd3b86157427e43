--------------------------- MODULE MCApplications ---------------------------
(***************************************************************************)
(* Small instances of Applications for TLC.                                *)
(***************************************************************************)
EXTENDS Applications, TLC

CONSTANTS company

(* Every opportunity is the one company's. *)
OneCompany == {company}
OwnedByOne == [o \in Opportunities |-> company]

(* Ids, applicants, texts and sessions are interchangeable. *)
Symmetry ==
  Permutations(Ids) \cup Permutations(Applicants) \cup Permutations(Comments)
    \cup Permutations(Sessions)
=============================================================================
