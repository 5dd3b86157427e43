------------------------ MODULE MCCompanyVerification ------------------------
(* Instances of CompanyVerification for TLC. *)
EXTENDS CompanyVerification, TLC

Symmetry ==
  Permutations(Employers) \cup Permutations(Sessions) \cup Permutations(KnownInns)
=============================================================================
