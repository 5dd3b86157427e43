----------------------------- MODULE MCContacts -----------------------------
(***************************************************************************)
(* A small instance of Contacts for TLC: an employer, a curator and one    *)
(* applicant.                                                              *)
(***************************************************************************)
EXTENDS Contacts, TLC

CONSTANTS employer, curator, applicant

OneOfEach ==
  (employer :> "EMPLOYER") @@ (curator :> "CURATOR") @@ (applicant :> "APPLICANT")

(* What an applicant may send: each of the two leaves out one key, and     *)
(* neither is what a new profile has.                                      *)
Hide == [public_profile |-> FALSE]
Open == [show_contacts |-> TRUE]
HideOrOpen == {Hide, Open}

EveryStep == {"store", "flush", "announce", "check"}

Symmetry == Permutations(Sessions)
=============================================================================
