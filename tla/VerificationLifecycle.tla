----------------------- MODULE VerificationLifecycle -----------------------
(***************************************************************************)
(* What verification promises an employer and the curators, as the flow    *)
(* documented in services/company.py and models/company.py states it: a    *)
(* company is registered once, its employer adds documents until it is     *)
(* approved, a rejected one may be submitted again, and a curator decides  *)
(* on all there is.  The employer sees the comment of the last decision    *)
(* and is told of it, and no document is ever lost.                        *)
(*                                                                         *)
(* There is one record per company and every move is one step: requests,   *)
(* transactions and the two tables are CompanyVerification's business.     *)
(***************************************************************************)
CONSTANTS
  Companies, \* records with an owner and an inn
  Verdicts, Comments, Documents

VARIABLE dossier \* dossier[k]: what there is of company k

Unknown == [status |-> "NONE", comment |-> "none", documents |-> {}, told |-> "none"]

Known(k) == dossier[k].status # "NONE"

Init == dossier = [k \in Companies |-> Unknown]

(* One company per owner and per INN. *)
Register(k) ==
  /\ \A j \in Companies : Known(j) => j.owner # k.owner /\ j.inn # k.inn
  /\ \E links \in SUBSET Documents :
       dossier' = [dossier EXCEPT ![k] =
                     [status |-> "PENDING", comment |-> "none",
                      documents |-> links, told |-> @.told]]

(* A company that waits shows no comment of an old decision. *)
Submit(k) ==
  /\ dossier[k].status \in {"PENDING", "REJECTED"}
  /\ \E sent \in SUBSET Documents :
       dossier' = [dossier EXCEPT ![k] =
                     [status |-> "PENDING", comment |-> "none",
                      documents |-> @.documents \cup sent, told |-> @.told]]

Review(k) ==
  /\ Known(k)
  /\ \E verdict \in Verdicts, comment \in Comments :
       dossier' = [dossier EXCEPT ![k] =
                     [status |-> verdict, comment |-> comment,
                      documents |-> @.documents, told |-> verdict]]

Next == \E k \in Companies : Register(k) \/ Submit(k) \/ Review(k)

Spec == Init /\ [][Next]_dossier
=============================================================================
