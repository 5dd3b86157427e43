---------------------------- MODULE Opportunities ----------------------------
(***************************************************************************)
(* One opportunity from draft to closing: OpportunityService, its          *)
(* repository, and the tables opportunities and opportunity_skills.        *)
(*                                                                         *)
(* The employer edits, publishes and closes it while curators review it.   *)
(* As elsewhere a request is a process on a session of its own: it reads   *)
(* the row, checks, and later commits the columns it has changed, without  *)
(* a lock in between.  Opportunities share no state, so the module is      *)
(* about one; its tags are a second list treated exactly as the skills.    *)
(***************************************************************************)
EXTENDS FiniteSets

CONSTANTS
  Skills,
  Sessions,  \* requests served at the same time
  NoRequest  \* the session is not in use

VARIABLES
  opportunity,  \* the row, as committed
  skills,       \* its rows of opportunity_skills, as committed
  notification, \* committed notifications to the employer
  pc,           \* pc[s]: where the request of session s stands
  request,      \* request[s]: what session s was asked
  loaded,       \* loaded[s]: the row as session s read it
  snapshot,     \* snapshot[s]: the stored skill rows its DELETE statement saw
  removed       \* removed[s]: the skill rows it has deleted and not committed

table   == <<opportunity, skills, notification>>
session == <<pc, request, loaded, snapshot, removed>>
vars    == <<table, session>>

-----------------------------------------------------------------------------
Statuses == {"DRAFT", "PLANNED", "ACTIVE", "PAUSED", "CLOSED"}

(* The columns the rules look at.  description stands for the fields an    *)
(* edit may change and _validate_draft_for_publish requires.               *)
Texts == {"empty", "filled"}

Opportunity == [status : Statuses, is_moderated : BOOLEAN,
                description : Texts, moderated_by : BOOLEAN]

(* "replace" is an update that carries a list of skills. *)
Request ==
       [op : {"update"}, text : Texts]
  \cup [op : {"replace"}, skill_ids : SUBSET Skills]
  \cup [op : {"delete", "publish", "approve", "reject"}]

ASSUME NoRequestAssumption == NoRequest \notin Request

(* _base_public_query, for a company that is active. *)
Public == opportunity.status = "ACTIVE" /\ opportunity.is_moderated

(* get_pending_moderation_list. *)
Pending == opportunity.status = "PLANNED" /\ ~opportunity.is_moderated

Goto(s, label) == pc' = [pc EXCEPT ![s] = label]

Answer(s) ==
  /\ Goto(s, "idle")
  /\ request' = [request EXCEPT ![s] = NoRequest]
  /\ loaded' = [loaded EXCEPT ![s] = NoRequest]
  /\ snapshot' = [snapshot EXCEPT ![s] = {}]
  /\ removed' = [removed EXCEPT ![s] = {}]

(* The first read and its checks; a refused request is a disabled step. *)
Load(s, r, label) ==
  /\ pc[s] = "idle"
  /\ request' = [request EXCEPT ![s] = r]
  /\ loaded' = [loaded EXCEPT ![s] = opportunity]
  /\ Goto(s, label)
  /\ UNCHANGED <<table, snapshot, removed>>

-----------------------------------------------------------------------------
UpdateOpportunity(s, d) == Load(s, [op |-> "update", text |-> d], "write")

ReplaceSkills(s, S) == Load(s, [op |-> "replace", skill_ids |-> S], "replace")

DeleteOpportunity(s) == Load(s, [op |-> "delete"], "write")

(* A draft must have its required fields; an ACTIVE opportunity is         *)
(* answered at once; every other status, CLOSED included, goes through.    *)
PublishOpportunity(s) ==
  /\ opportunity.status # "ACTIVE"
  /\ opportunity.status = "DRAFT" => opportunity.description = "filled"
  /\ Load(s, [op |-> "publish"], "write")

(* Variant: the employer is told before the rejection is committed. *)
ReviewOpportunity_TellFirst(s, approve) ==
  /\ Pending /\ pc[s] = "idle"
  /\ request' = [request EXCEPT ![s] = [op |-> IF approve THEN "approve" ELSE "reject"]]
  /\ loaded' = [loaded EXCEPT ![s] = opportunity]
  /\ notification' = notification \cup (IF approve THEN {} ELSE {"rejected"})
  /\ Goto(s, "write")
  /\ UNCHANGED <<opportunity, skills, snapshot, removed>>

ReviewOpportunity(s, approve) ==
  /\ Pending
  /\ Load(s, [op |-> IF approve THEN "approve" ELSE "reject"], "write")

(* update_opportunity sends DELETE FROM opportunity_skills: the statement  *)
(* sees the rows committed when it starts ...                              *)
DeleteSkills(s) ==
  /\ pc[s] = "replace"
  /\ snapshot' = [snapshot EXCEPT ![s] = skills]
  /\ Goto(s, "deleting")
  /\ UNCHANGED <<table, request, loaded, removed>>

(* Variant: it passes over the rows another transaction is deleting. *)
SkillsDeleted_SkipLocked(s) ==
  /\ pc[s] = "deleting"
  /\ removed' = [removed EXCEPT ![s] =
                   snapshot[s] \ UNION {removed[t] : t \in Sessions \ {s}}]
  /\ Goto(s, "write")
  /\ UNCHANGED <<table, request, loaded, snapshot>>

(* ... waits for those another transaction is deleting, and removes what   *)
(* is left of them.  Rows inserted since are not its business.             *)
SkillsDeleted(s) ==
  /\ pc[s] = "deleting"
  /\ \A t \in Sessions \ {s} : removed[t] \cap snapshot[s] = {}
  /\ removed' = [removed EXCEPT ![s] = snapshot[s]]
  /\ Goto(s, "write")
  /\ UNCHANGED <<table, request, loaded, snapshot>>

(* The new list is inserted with the commit. *)
Inserted(s) == IF request[s].op = "replace" THEN request[s].skill_ids ELSE {}

(* A column is written when the object's attribute has changed. *)
Column(new, was, inRow) == IF new = was THEN inRow ELSE new

(* Variant: an edit writes the whole loaded object back. *)
Edited_WholeRow(r, was, row) ==
  [was EXCEPT !.description = Column(r.text, was.description, @)]

Edited(r, was, row) ==
  [row EXCEPT !.description = Column(r.text, was.description, @)]

(* Variant: the moderation flag of the last round is left as it was. *)
Published_FlagKept(was, row) ==
  [row EXCEPT !.status = Column("PLANNED", was.status, @)]

Published(was, row) ==
  [row EXCEPT !.status       = Column("PLANNED", was.status, @),
              !.is_moderated = Column(FALSE, was.is_moderated, @)]

(* Variant: a rejection sets the status the README names. *)
Rejected_Named(was, row) ==
  [row EXCEPT !.status = "REJECTED", !.moderated_by = TRUE]

Rejected(was, row) ==
  [row EXCEPT !.status       = Column("DRAFT", was.status, @),
              !.is_moderated = Column(FALSE, was.is_moderated, @),
              !.moderated_by = TRUE]

RowWritten(r, was, row) ==
  CASE r.op = "update"  -> Edited(r, was, row)
    [] r.op = "replace" -> row
    [] r.op = "delete"  -> [row EXCEPT !.status = Column("CLOSED", was.status, @)]
    [] r.op = "publish" -> Published(was, row)
    [] r.op = "reject"  -> Rejected(was, row)

(* Rows deleted for good are no longer there for anybody: one with the    *)
(* same skill that is inserted afterwards is another row.                  *)
Forget(s) == [t \in Sessions |-> IF t = s THEN {} ELSE snapshot[t] \ removed[s]]

(* The commit of update, delete, publish and reject.  A new skill whose    *)
(* row another replacement has inserted meanwhile breaks the primary key:  *)
(* then nothing is written (RequestFails).                                 *)
CommitWrite(s) ==
  /\ pc[s] = "write" /\ request[s].op # "approve"
  /\ Inserted(s) \cap (skills \ removed[s]) = {}
  /\ opportunity' = RowWritten(request[s], loaded[s], opportunity)
  /\ skills' = (skills \ removed[s]) \cup Inserted(s)
  /\ IF request[s].op = "reject"
     THEN /\ Goto(s, "notify")
          /\ UNCHANGED <<request, loaded>>
     ELSE /\ Goto(s, "idle")
          /\ request' = [request EXCEPT ![s] = NoRequest]
          /\ loaded' = [loaded EXCEPT ![s] = NoRequest]
  /\ snapshot' = Forget(s)
  /\ removed' = [removed EXCEPT ![s] = {}]
  /\ UNCHANGED notification

(* approve_opportunity evaluates datetime.now(datetime.UTC) on the         *)
(* imported class: the request ends in an error and nothing is written.    *)
ApproveOpportunity(s) ==
  /\ pc[s] = "write" /\ request[s].op = "approve"
  /\ Answer(s)
  /\ UNCHANGED table

(* _create_moderation_notification commits on its own; its failure is      *)
(* only logged.                                                            *)
NotifyVerdict(s) ==
  /\ pc[s] = "notify"
  /\ notification' \in {notification, notification \cup {"rejected"}}
  /\ Answer(s)
  /\ UNCHANGED <<opportunity, skills>>

(* (An approval always fails, above.)                                      *)
RequestFails(s) ==
  /\ pc[s] \in {"replace", "deleting", "write"} /\ request[s].op # "approve"
  /\ Answer(s)
  /\ UNCHANGED table

-----------------------------------------------------------------------------
(* create_opportunity stores a draft.  Opportunities that are ACTIVE and   *)
(* moderated are there from the start: no request makes one.               *)
Init ==
  /\ opportunity \in
       [status : {"DRAFT"}, is_moderated : {FALSE}, description : Texts,
        moderated_by : {FALSE}]
       \cup
       [status : {"ACTIVE"}, is_moderated : {TRUE}, description : {"filled"},
        moderated_by : {TRUE}]
  /\ skills \in SUBSET Skills
  /\ notification = {}
  /\ pc = [s \in Sessions |-> "idle"]
  /\ request = [s \in Sessions |-> NoRequest]
  /\ loaded = [s \in Sessions |-> NoRequest]
  /\ snapshot = [s \in Sessions |-> {}]
  /\ removed = [s \in Sessions |-> {}]

Ask(s) ==
  \/ \E d \in Texts : UpdateOpportunity(s, d)
  \/ \E S \in SUBSET Skills : ReplaceSkills(s, S)
  \/ DeleteOpportunity(s)
  \/ PublishOpportunity(s)
  \/ \E approve \in BOOLEAN : ReviewOpportunity(s, approve)

Serve(s) ==
  \/ DeleteSkills(s) \/ SkillsDeleted(s)
  \/ CommitWrite(s) \/ ApproveOpportunity(s) \/ NotifyVerdict(s)
  \/ RequestFails(s)

Next == \E s \in Sessions : Ask(s) \/ Serve(s)

Spec == Init /\ [][Next]_vars

-----------------------------------------------------------------------------
TypeOK ==
  /\ opportunity \in Opportunity
  /\ skills \subseteq Skills
  /\ notification \subseteq {"rejected"}
  /\ pc \in [Sessions -> {"idle", "replace", "deleting", "write", "notify"}]
  /\ request \in [Sessions -> Request \cup {NoRequest}]
  /\ loaded \in [Sessions -> Opportunity \cup {NoRequest}]
  /\ snapshot \in [Sessions -> SUBSET Skills]
  /\ removed \in [Sessions -> SUBSET Skills]

(* The two columns that say where the opportunity stands never disagree,   *)
(* though each writer leaves out the one it did not change: whatever is    *)
(* sent for moderation shows up in the curators' queue, whatever is ACTIVE *)
(* in the catalogue.                                                       *)
StatusAgreesWithFlag ==
  /\ opportunity.status \in {"DRAFT", "PLANNED"} => ~opportunity.is_moderated
  /\ opportunity.status = "ACTIVE" => opportunity.is_moderated

ApprovalEnds(s) ==
  pc[s] = "write" /\ request[s].op = "approve" /\ pc'[s] = "idle"

(* "Закрытые вакансии не отображаются в публичном каталоге": once it has   *)
(* left the catalogue, no late write of a request that still holds the     *)
(* ACTIVE row puts it back; only a curator's approval may.                 *)
ReturnsOnlyByApproval ==
  [][~Public /\ Public' => \E s \in Sessions : ApprovalEnds(s)]_vars

(* The employer is told of a rejection only when there has been one, and a *)
(* rejected opportunity no longer is what the catalogue shows.             *)
VerdictBeforeNotice ==
  "rejected" \in notification => opportunity.moderated_by /\ ~Public

(* "Навыки и теги (полная замена списков)": none of the rows a replacement *)
(* found is left when it commits, also when another one was deleting them  *)
(* at the same time and gave up.  (Rows inserted meanwhile do stay.)       *)
FoundSkillsAreGone ==
  [][\A s \in Sessions :
       CommitWrite(s) /\ request[s].op = "replace" =>
         skills' \cap snapshot[s] \subseteq request[s].skill_ids]_vars

=============================================================================
