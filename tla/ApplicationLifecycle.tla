------------------------ MODULE ApplicationLifecycle ------------------------
(***************************************************************************)
(* The status machine of an application, as the program enforces it: the   *)
(* transition table of ApplicationService._validate_status_transition for  *)
(* the employer, and the check of withdraw_application (its docstring:     *)
(* "Разрешено только если статус PENDING или VIEWED") for the applicant.   *)
(* A pending application may be viewed, then decided (or decided at once), *)
(* or withdrawn; a decided or withdrawn one never changes again.           *)
(*                                                                         *)
(* Two other texts allow the applicant more: "Любые → WITHDRAWN" in the    *)
(* docstring of the table, and "на любом этапе до ACCEPTED" in             *)
(* models/application.py.  The code refuses it, and so does this module.   *)
(*                                                                         *)
(* Nothing here knows of requests, sessions or transactions: the module is *)
(* what Applications.tla is compared with.                                 *)
(***************************************************************************)
CONSTANT Ids    \* identifiers of applications

VARIABLE status \* status[a]: the status of application a, "NONE" before it exists

Decisions == {"ACCEPTED", "REJECTED", "RESERVE"}
Undecided == {"PENDING", "VIEWED"}
Statuses  == Undecided \cup Decisions \cup {"WITHDRAWN"}

(* The rows of the transition table, and the applicant's own move as its   *)
(* check allows it.                                                        *)
NextStatuses(st) ==
  CASE st = "NONE"    -> {"PENDING"}
    [] st = "PENDING" -> {"VIEWED", "WITHDRAWN"} \cup Decisions
    [] st = "VIEWED"  -> {"WITHDRAWN"} \cup Decisions
    [] OTHER          -> {}

Init == status = [a \in Ids |-> "NONE"]

Move(a) ==
  \E st \in NextStatuses(status[a]) : status' = [status EXCEPT ![a] = st]

Next == \E a \in Ids : Move(a)

Spec == Init /\ [][Next]_status
=============================================================================
