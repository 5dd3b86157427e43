------------------------- MODULE OpportunitiesProofs -------------------------
(***************************************************************************)
(* Proofs about Opportunities, for any number of requests at a time and    *)
(* any set of skills.                                                      *)
(*                                                                         *)
(* A request may write what it computed from an old row.  It does no harm  *)
(* because the row only moves one way: once it is not ACTIVE, or not       *)
(* moderated, it stays so.  What a request saw gone is gone when it writes *)
(* (Past).                                                                 *)
(***************************************************************************)
EXTENDS Opportunities, TLAPS

(* What a request that is being served may rely on.                        *)
Past(s) ==
  /\ pc[s] # "idle" => request[s] \in Request
  /\ pc[s] \in {"replace", "deleting", "write"} =>
       /\ loaded[s] \in Opportunity
       /\ loaded[s].status # "ACTIVE" => opportunity.status # "ACTIVE"
       /\ ~loaded[s].is_moderated => ~opportunity.is_moderated
       /\ loaded[s].status = "PLANNED" => ~loaded[s].is_moderated
  /\ pc[s] = "write" =>
       /\ request[s].op = "publish" => loaded[s].status # "ACTIVE"
       /\ request[s].op \in {"approve", "reject"} => loaded[s].status = "PLANNED"
  /\ pc[s] \in {"replace", "deleting"} => request[s].op = "replace"
  /\ pc[s] = "notify" => opportunity.moderated_by /\ ~Public

IInv ==
  /\ TypeOK
  /\ StatusAgreesWithFlag
  /\ VerdictBeforeNotice
  /\ \A s \in Sessions : Past(s)

(* No step makes the row ACTIVE, moderated, or reviewed by nobody again.   *)
OneWay ==
  /\ opportunity.status # "ACTIVE" => opportunity'.status # "ACTIVE"
  /\ ~opportunity.is_moderated => ~opportunity'.is_moderated
  /\ opportunity.moderated_by => opportunity'.moderated_by

LEMMA InitIInv == Init => IInv
<1> SUFFICES ASSUME Init PROVE IInv
  OBVIOUS
<1>1. TypeOK
  BY DEF Init, TypeOK, Opportunity, Statuses, Texts
<1>2. StatusAgreesWithFlag
  BY DEF Init, StatusAgreesWithFlag
<1>3. VerdictBeforeNotice /\ \A s \in Sessions : Past(s)
  BY DEF Init, VerdictBeforeNotice, Past
<1> QED
  BY <1>1, <1>2, <1>3 DEF IInv

(* What one of the four writes leaves in the row, when the copy it was     *)
(* computed from is past.                                                  *)
LEMMA RowWrittenFacts ==
  ASSUME NEW r \in Request, NEW was \in Opportunity, NEW row \in Opportunity,
         r.op # "approve",
         was.status # "ACTIVE" => row.status # "ACTIVE",
         ~was.is_moderated => ~row.is_moderated,
         was.status = "PLANNED" => ~was.is_moderated,
         r.op = "publish" => was.status # "ACTIVE",
         r.op = "reject" => was.status = "PLANNED",
         row.status \in {"DRAFT", "PLANNED"} => ~row.is_moderated,
         row.status = "ACTIVE" => row.is_moderated
  PROVE  LET out == RowWritten(r, was, row) IN
         /\ out \in Opportunity
         /\ row.status # "ACTIVE" => out.status # "ACTIVE"
         /\ ~row.is_moderated => ~out.is_moderated
         /\ row.moderated_by => out.moderated_by
         /\ out.status \in {"DRAFT", "PLANNED"} => ~out.is_moderated
         /\ out.status = "ACTIVE" => out.is_moderated
         /\ r.op = "reject" => out.moderated_by /\ ~out.is_moderated
<1> DEFINE out == RowWritten(r, was, row)
<1>1. CASE r.op = "update"
  <2>1. out = Edited(r, was, row) /\ r.text \in Texts
    BY <1>1 DEF RowWritten, Request
  <2> QED
    BY <1>1, <2>1 DEF Edited, Column, Opportunity
<1>2. CASE r.op = "replace"
  <2>1. out = row
    BY <1>2 DEF RowWritten
  <2> QED
    BY <1>2, <2>1
<1>3. CASE r.op = "delete"
  <2>1. out = [row EXCEPT !.status = Column("CLOSED", was.status, @)]
    BY <1>3 DEF RowWritten
  <2> QED
    BY <1>3, <2>1 DEF Column, Opportunity, Statuses
<1>4. CASE r.op = "publish"
  <2>1. out = Published(was, row)
    BY <1>4 DEF RowWritten
  <2> QED
    BY <1>4, <2>1 DEF Published, Column, Opportunity, Statuses
<1>5. CASE r.op = "reject"
  <2>1. out = Rejected(was, row)
    BY <1>5 DEF RowWritten
  <2> QED
    BY <1>5, <2>1 DEF Rejected, Column, Opportunity, Statuses
<1> QED
  BY <1>1, <1>2, <1>3, <1>4, <1>5 DEF Request

(* What the other requests rely on survives a step that moves the row one  *)
(* way only.                                                               *)
LEMMA OtherRequests ==
  ASSUME IInv, NEW s \in Sessions, OneWay,
         \A t \in Sessions \ {s} :
           pc'[t] = pc[t] /\ request'[t] = request[t] /\ loaded'[t] = loaded[t]
  PROVE  \A t \in Sessions \ {s} : Past(t)'
BY DEF IInv, Past, OneWay, Public

(* A step that leaves the tables alone.                                    *)
LEMMA GoOnKeepsIInv ==
  ASSUME IInv, NEW s \in Sessions, UNCHANGED table, TypeOK',
         \A t \in Sessions \ {s} :
           pc'[t] = pc[t] /\ request'[t] = request[t] /\ loaded'[t] = loaded[t],
         Past(s)'
  PROVE  IInv'
<1>1. OneWay
  BY DEF OneWay, table
<1>2. \A t \in Sessions : Past(t)'
  BY <1>1, OtherRequests
<1> QED
  BY <1>2 DEF IInv, StatusAgreesWithFlag, VerdictBeforeNotice, Public, table

(* The end of a request.                                                   *)
LEMMA AnswerFacts ==
  ASSUME TypeOK, NEW s \in Sessions, Answer(s)
  PROVE  /\ pc' \in [Sessions -> {"idle", "replace", "deleting", "write", "notify"}]
         /\ request' \in [Sessions -> Request \cup {NoRequest}]
         /\ loaded' \in [Sessions -> Opportunity \cup {NoRequest}]
         /\ snapshot' \in [Sessions -> SUBSET Skills]
         /\ removed' \in [Sessions -> SUBSET Skills]
         /\ \A t \in Sessions \ {s} :
              pc'[t] = pc[t] /\ request'[t] = request[t] /\ loaded'[t] = loaded[t]
         /\ Past(s)'
BY DEF Answer, Goto, TypeOK, Past

LEMMA AnswerKeepsIInv ==
  ASSUME IInv, NEW s \in Sessions, Answer(s), UNCHANGED table
  PROVE  IInv'
<1>1. TypeOK'
  BY AnswerFacts DEF IInv, TypeOK, table
<1> QED
  BY <1>1, AnswerFacts, GoOnKeepsIInv DEF IInv

-----------------------------------------------------------------------------
LEMMA LoadKeepsIInv ==
  ASSUME IInv, NEW s \in Sessions, NEW r \in Request,
         NEW label \in {"replace", "write"},
         Load(s, r, label),
         label = "replace" => r.op = "replace",
         r.op = "publish" => opportunity.status # "ACTIVE",
         r.op \in {"approve", "reject"} => opportunity.status = "PLANNED"
  PROVE  IInv'
<1>1. /\ pc'[s] = label /\ request'[s] = r /\ loaded'[s] = opportunity
      /\ UNCHANGED table
  BY DEF Load, Goto, IInv, TypeOK
<1>2. TypeOK'
  BY DEF Load, Goto, IInv, TypeOK, table
<1>3. Past(s)'
  BY <1>1 DEF Past, IInv, TypeOK, StatusAgreesWithFlag, table
<1> QED
  BY <1>1, <1>2, <1>3, GoOnKeepsIInv DEF Load, Goto, IInv, TypeOK

LEMMA AskKeepsIInv ==
  ASSUME IInv, NEW s \in Sessions, Ask(s)
  PROVE  IInv'
<1>1. ASSUME NEW d \in Texts, UpdateOpportunity(s, d) PROVE IInv'
  <2>1. [op |-> "update", text |-> d] \in Request
    BY DEF Request
  <2> QED
    BY <1>1, <2>1, LoadKeepsIInv DEF UpdateOpportunity
<1>2. ASSUME NEW S \in SUBSET Skills, ReplaceSkills(s, S) PROVE IInv'
  <2>1. [op |-> "replace", skill_ids |-> S] \in Request
    BY DEF Request
  <2> QED
    BY <1>2, <2>1, LoadKeepsIInv DEF ReplaceSkills
<1>3. CASE DeleteOpportunity(s)
  <2>1. [op |-> "delete"] \in Request
    BY DEF Request
  <2> QED
    BY <1>3, <2>1, LoadKeepsIInv DEF DeleteOpportunity
<1>4. CASE PublishOpportunity(s)
  <2>1. [op |-> "publish"] \in Request
    BY DEF Request
  <2> QED
    BY <1>4, <2>1, LoadKeepsIInv DEF PublishOpportunity
<1>5. ASSUME NEW approve \in BOOLEAN, ReviewOpportunity(s, approve) PROVE IInv'
  <2> DEFINE r == [op |-> IF approve THEN "approve" ELSE "reject"]
  <2>1. r \in Request
    BY DEF Request
  <2> QED
    BY <1>5, <2>1, LoadKeepsIInv DEF ReviewOpportunity, Pending
<1> QED
  BY <1>1, <1>2, <1>3, <1>4, <1>5 DEF Ask

(* The DELETE of the old skills, in its two steps.                         *)
LEMMA DeleteSkillsKeepsIInv ==
  ASSUME IInv, NEW s \in Sessions, DeleteSkills(s) \/ SkillsDeleted(s)
  PROVE  IInv'
<1>1. UNCHANGED table /\ request' = request /\ loaded' = loaded
  BY DEF DeleteSkills, SkillsDeleted
<1>2. TypeOK'
  BY DEF DeleteSkills, SkillsDeleted, Goto, IInv, TypeOK, table
<1>3. CASE DeleteSkills(s)
  <2>1. pc[s] = "replace" /\ pc'[s] = "deleting"
    BY <1>3 DEF DeleteSkills, Goto, IInv, TypeOK
  <2>2. Past(s)'
    BY <1>1, <2>1 DEF IInv, Past, table
  <2> QED
    BY <1>1, <1>2, <1>3, <2>2, GoOnKeepsIInv DEF DeleteSkills, Goto, IInv, TypeOK
<1>4. CASE SkillsDeleted(s)
  <2>1. pc[s] = "deleting" /\ pc'[s] = "write"
    BY <1>4 DEF SkillsDeleted, Goto, IInv, TypeOK
  <2>2. Past(s)'
    BY <1>1, <2>1 DEF IInv, Past, table
  <2> QED
    BY <1>1, <1>2, <1>4, <2>2, GoOnKeepsIInv DEF SkillsDeleted, Goto, IInv, TypeOK
<1> QED
  BY <1>3, <1>4

LEMMA CommitWriteKeepsIInv ==
  ASSUME IInv, NEW s \in Sessions, CommitWrite(s)
  PROVE  IInv'
<1> DEFINE r == request[s]  was == loaded[s]
<1>1. /\ r \in Request /\ was \in Opportunity /\ opportunity \in Opportunity
      /\ r.op # "approve"
      /\ opportunity' = RowWritten(r, was, opportunity)
      /\ notification' = notification
  BY DEF CommitWrite, IInv, Past, TypeOK
<1>2. /\ was.status # "ACTIVE" => opportunity.status # "ACTIVE"
      /\ ~was.is_moderated => ~opportunity.is_moderated
      /\ was.status = "PLANNED" => ~was.is_moderated
      /\ r.op = "publish" => was.status # "ACTIVE"
      /\ r.op = "reject" => was.status = "PLANNED"
      /\ opportunity.status \in {"DRAFT", "PLANNED"} => ~opportunity.is_moderated
      /\ opportunity.status = "ACTIVE" => opportunity.is_moderated
  BY DEF CommitWrite, IInv, Past, StatusAgreesWithFlag
<1>3. /\ opportunity' \in Opportunity
      /\ OneWay
      /\ StatusAgreesWithFlag'
      /\ r.op = "reject" => opportunity'.moderated_by /\ ~opportunity'.is_moderated
  <2> HIDE DEF r, was
  <2> QED
    BY <1>1, <1>2, RowWrittenFacts DEF OneWay, StatusAgreesWithFlag
<1>4. VerdictBeforeNotice'
  BY <1>1, <1>3 DEF IInv, VerdictBeforeNotice, Public, OneWay
<1>5. skills' \subseteq Skills
  <2>1. Inserted(s) \subseteq Skills
    BY <1>1 DEF Inserted, Request
  <2> QED
    BY <2>1 DEF CommitWrite, IInv, TypeOK
<1>5a. snapshot' \in [Sessions -> SUBSET Skills] /\ removed' \in [Sessions -> SUBSET Skills]
  BY DEF CommitWrite, Forget, IInv, TypeOK
<1>6. CASE r.op = "reject"
  <2>1. /\ pc'[s] = "notify" /\ request'[s] = r
        /\ \A t \in Sessions \ {s} :
             pc'[t] = pc[t] /\ request'[t] = request[t] /\ loaded'[t] = loaded[t]
    BY <1>6 DEF CommitWrite, Goto, IInv, TypeOK
  <2>2. TypeOK'
    BY <1>1, <1>3, <1>5, <1>6, <1>5a DEF CommitWrite, Goto, IInv, TypeOK
  <2>3. Past(s)'
    BY <1>1, <1>3, <1>6, <2>1 DEF Past, Public
  <2> QED
    BY <1>3, <1>4, <2>1, <2>2, <2>3, OtherRequests DEF IInv
<1>7. CASE r.op # "reject"
  <2>1. /\ pc'[s] = "idle"
        /\ \A t \in Sessions \ {s} :
             pc'[t] = pc[t] /\ request'[t] = request[t] /\ loaded'[t] = loaded[t]
    BY <1>7 DEF CommitWrite, Goto, IInv, TypeOK
  <2>2. TypeOK'
    BY <1>1, <1>3, <1>5, <1>7, <1>5a DEF CommitWrite, Goto, IInv, TypeOK
  <2>3. Past(s)'
    BY <2>1 DEF Past
  <2> QED
    BY <1>3, <1>4, <2>1, <2>2, <2>3, OtherRequests DEF IInv
<1> QED
  BY <1>6, <1>7

LEMMA NotifyVerdictKeepsIInv ==
  ASSUME IInv, NEW s \in Sessions, NotifyVerdict(s)
  PROVE  IInv'
<1>1. Answer(s) /\ UNCHANGED <<opportunity, skills>>
  BY DEF NotifyVerdict
<1>2. notification' \subseteq {"rejected"} /\ VerdictBeforeNotice'
  BY DEF NotifyVerdict, IInv, TypeOK, Past, VerdictBeforeNotice, Public
<1>3. TypeOK'
  BY <1>1, <1>2, AnswerFacts DEF IInv, TypeOK
<1>4. OneWay /\ StatusAgreesWithFlag'
  BY <1>1 DEF OneWay, StatusAgreesWithFlag, IInv
<1> QED
  BY <1>1, <1>2, <1>3, <1>4, AnswerFacts, OtherRequests DEF IInv

LEMMA ServeKeepsIInv ==
  ASSUME IInv, NEW s \in Sessions, Serve(s)
  PROVE  IInv'
BY DeleteSkillsKeepsIInv, CommitWriteKeepsIInv, NotifyVerdictKeepsIInv,
   AnswerKeepsIInv
   DEF Serve, ApproveOpportunity, RequestFails

LEMMA NextIInv == IInv /\ [Next]_vars => IInv'
<1> SUFFICES ASSUME IInv, [Next]_vars PROVE IInv'
  OBVIOUS
<1>1. ASSUME NEW s \in Sessions, Ask(s) PROVE IInv'
  BY <1>1, AskKeepsIInv
<1>2. ASSUME NEW s \in Sessions, Serve(s) PROVE IInv'
  BY <1>2, ServeKeepsIInv
<1>3. CASE UNCHANGED vars
  BY <1>3 DEF vars, table, session, IInv, TypeOK, StatusAgreesWithFlag,
     VerdictBeforeNotice, Past, Public
<1> QED
  BY <1>1, <1>2, <1>3 DEF Next

(* No step puts into the catalogue what was not there.                     *)
LEMMA NeverMadePublic == IInv /\ [Next]_vars => (Public' => Public)
<1> SUFFICES ASSUME IInv, [Next]_vars PROVE Public' => Public
  OBVIOUS
<1>1. ASSUME NEW s \in Sessions, CommitWrite(s) PROVE Public' => Public
  <2>1. /\ request[s] \in Request /\ loaded[s] \in Opportunity
        /\ opportunity \in Opportunity
        /\ request[s].op # "approve"
        /\ opportunity' = RowWritten(request[s], loaded[s], opportunity)
    BY <1>1 DEF CommitWrite, IInv, Past, TypeOK
  <2>2. /\ loaded[s].status # "ACTIVE" => opportunity.status # "ACTIVE"
        /\ ~loaded[s].is_moderated => ~opportunity.is_moderated
        /\ loaded[s].status = "PLANNED" => ~loaded[s].is_moderated
        /\ request[s].op = "publish" => loaded[s].status # "ACTIVE"
        /\ request[s].op = "reject" => loaded[s].status = "PLANNED"
        /\ opportunity.status \in {"DRAFT", "PLANNED"} => ~opportunity.is_moderated
        /\ opportunity.status = "ACTIVE" => opportunity.is_moderated
    BY <1>1 DEF CommitWrite, IInv, Past, StatusAgreesWithFlag
  <2>3. /\ opportunity.status # "ACTIVE" => opportunity'.status # "ACTIVE"
        /\ ~opportunity.is_moderated => ~opportunity'.is_moderated
    BY <2>1, <2>2, RowWrittenFacts
  <2> QED
    BY <2>3 DEF Public
<1>2. CASE opportunity' = opportunity
  BY <1>2 DEF Public
<1> QED
  BY <1>1, <1>2
     DEF Next, Ask, UpdateOpportunity, ReplaceSkills, DeleteOpportunity,
         PublishOpportunity, ReviewOpportunity, Load, Serve, DeleteSkills,
         SkillsDeleted, ApproveOpportunity, NotifyVerdict, RequestFails,
         table, session, vars

-----------------------------------------------------------------------------
(* What replacements under way know of the skill rows: those a DELETE saw  *)
(* are still stored until it has removed them, and no two of them remove   *)
(* the same row.                                                           *)
Deletions ==
  /\ \A s \in Sessions :
       /\ snapshot[s] \subseteq skills
       /\ removed[s] \subseteq snapshot[s]
       /\ pc[s] # "write" => removed[s] = {}
       /\ pc[s] = "write" /\ request[s].op = "replace" => removed[s] = snapshot[s]
  /\ \A s, t \in Sessions : s # t => removed[s] \cap removed[t] = {}

LEMMA NextDeletions == IInv /\ Deletions /\ [Next]_vars => Deletions'
<1> SUFFICES ASSUME IInv, Deletions, [Next]_vars PROVE Deletions'
  OBVIOUS
<1>0. TypeOK
  BY DEF IInv
<1>1. ASSUME NEW s \in Sessions, Ask(s) PROVE Deletions'
  <2>1. /\ UNCHANGED <<skills, snapshot, removed>>
        /\ pc[s] = "idle"
        /\ pc'[s] = "write" => request'[s].op # "replace"
        /\ \A t \in Sessions \ {s} : pc'[t] = pc[t] /\ request'[t] = request[t]
    BY <1>0, <1>1
       DEF Ask, UpdateOpportunity, ReplaceSkills, DeleteOpportunity, PublishOpportunity,
           ReviewOpportunity, Load, Goto, table, TypeOK
  <2> QED
    BY <2>1 DEF Deletions
<1>2. ASSUME NEW s \in Sessions, DeleteSkills(s) PROVE Deletions'
  <2>1. /\ UNCHANGED <<skills, removed, request>>
        /\ pc[s] = "replace" /\ pc'[s] = "deleting"
        /\ snapshot'[s] = skills
        /\ \A t \in Sessions \ {s} : pc'[t] = pc[t] /\ snapshot'[t] = snapshot[t]
    BY <1>0, <1>2 DEF DeleteSkills, Goto, table, TypeOK
  <2> QED
    BY <2>1 DEF Deletions
<1>3. ASSUME NEW s \in Sessions, SkillsDeleted(s) PROVE Deletions'
  <2>1. /\ UNCHANGED <<skills, snapshot, request>>
        /\ pc'[s] = "write"
        /\ removed'[s] = snapshot[s]
        /\ \A t \in Sessions \ {s} : removed[t] \cap snapshot[s] = {}
        /\ \A t \in Sessions \ {s} : pc'[t] = pc[t] /\ removed'[t] = removed[t]
    BY <1>0, <1>3 DEF SkillsDeleted, Goto, table, TypeOK
  <2>2. \A t \in Sessions :
          /\ snapshot'[t] \subseteq skills'
          /\ removed'[t] \subseteq snapshot'[t]
          /\ pc'[t] # "write" => removed'[t] = {}
          /\ pc'[t] = "write" /\ request'[t].op = "replace" => removed'[t] = snapshot'[t]
    BY <2>1 DEF Deletions
  <2>3. \A t, u \in Sessions : t # u => removed'[t] \cap removed'[u] = {}
    BY <2>1 DEF Deletions
  <2> QED
    BY <2>2, <2>3 DEF Deletions
<1>4. ASSUME NEW s \in Sessions, CommitWrite(s) PROVE Deletions'
  <2>1. /\ skills' = (skills \ removed[s]) \cup Inserted(s)
        /\ pc'[s] # "write"
        /\ snapshot'[s] = {} /\ removed'[s] = {}
        /\ \A t \in Sessions \ {s} :
             /\ pc'[t] = pc[t] /\ request'[t] = request[t]
             /\ snapshot'[t] = snapshot[t] \ removed[s] /\ removed'[t] = removed[t]
    BY <1>0, <1>4 DEF CommitWrite, Forget, Goto, TypeOK
  <2>2. ASSUME NEW t \in Sessions, t # s
        PROVE  /\ snapshot'[t] \subseteq skills'
               /\ removed'[t] \subseteq snapshot'[t]
               /\ pc'[t] # "write" => removed'[t] = {}
               /\ pc'[t] = "write" /\ request'[t].op = "replace" =>
                    removed'[t] = snapshot'[t]
    <3>1. removed[t] \cap removed[s] = {}
      BY <2>2 DEF Deletions
    <3>2. /\ snapshot[t] \subseteq skills
          /\ removed[t] \subseteq snapshot[t]
          /\ pc[t] # "write" => removed[t] = {}
          /\ pc[t] = "write" /\ request[t].op = "replace" => removed[t] = snapshot[t]
      BY DEF Deletions
    <3>3. /\ skills \ removed[s] \subseteq skills'
          /\ pc'[t] = pc[t] /\ request'[t] = request[t]
          /\ snapshot'[t] = snapshot[t] \ removed[s] /\ removed'[t] = removed[t]
      BY <2>1, <2>2
    <3>4. removed[t] \subseteq snapshot[t] \ removed[s]
      BY <3>1, <3>2
    <3> QED
      BY <3>2, <3>3, <3>4
  <2>3. \A t, u \in Sessions : t # u => removed'[t] \cap removed'[u] = {}
    BY <2>1 DEF Deletions
  <2> QED
    BY <2>1, <2>2, <2>3 DEF Deletions
<1>5. ASSUME NEW s \in Sessions,
             ApproveOpportunity(s) \/ NotifyVerdict(s) \/ RequestFails(s)
      PROVE  Deletions'
  <2>1. /\ skills' = skills /\ pc'[s] = "idle"
        /\ snapshot'[s] = {} /\ removed'[s] = {}
        /\ \A t \in Sessions \ {s} :
             /\ pc'[t] = pc[t] /\ request'[t] = request[t]
             /\ snapshot'[t] = snapshot[t] /\ removed'[t] = removed[t]
    BY <1>0, <1>5
       DEF ApproveOpportunity, NotifyVerdict, RequestFails, Answer, Goto, table, TypeOK
  <2> QED
    BY <2>1 DEF Deletions
<1>6. CASE UNCHANGED vars
  BY <1>6 DEF vars, table, session, Deletions
<1> QED
  BY <1>1, <1>2, <1>3, <1>4, <1>5, <1>6 DEF Next, Serve

-----------------------------------------------------------------------------
(* The inductive invariant holds in every reachable state.                 *)
THEOREM Invariance == Spec => []IInv
BY InitIInv, NextIInv, PTL DEF Spec

(* Every variable keeps its type, whatever the requests write.             *)
THEOREM TypeCorrect == Spec => []TypeOK
<1>1. IInv => TypeOK
  BY DEF IInv
<1> QED
  BY <1>1, Invariance, PTL

(* Status and moderation flag agree, though edits, closings, publications  *)
(* and reviews each write only the columns they changed in the copy they   *)
(* read (OpportunityService, OpportunityRepository).                       *)
THEOREM StatusAndFlag == Spec => []StatusAgreesWithFlag
<1>1. IInv => StatusAgreesWithFlag
  BY DEF IInv
<1> QED
  BY <1>1, Invariance, PTL

(* The employer reads of a rejection only after a curator's write, and     *)
(* what was rejected is not in the catalogue (reject_opportunity).         *)
THEOREM Notice == Spec => []VerdictBeforeNotice
<1>1. IInv => VerdictBeforeNotice
  BY DEF IInv
<1> QED
  BY <1>1, Invariance, PTL

(* No request, however late it writes, brings an opportunity back into the *)
(* public catalogue (_base_public_query).                                  *)
THEOREM OnlyApprovalReturns == Spec => ReturnsOnlyByApproval
<1>1. IInv /\ [Next]_vars => [Public' => Public]_vars
  BY NeverMadePublic
<1> QED
  BY <1>1, Invariance, PTL DEF Spec, ReturnsOnlyByApproval

(* A replacement that commits leaves none of the skill rows its DELETE     *)
(* found, however many replacements overlap and whichever of them fail     *)
(* (update_opportunity).                                                   *)
THEOREM FoundAreGone == Spec => FoundSkillsAreGone
<1> DEFINE Gone ==
      \A s \in Sessions :
        CommitWrite(s) /\ request[s].op = "replace" =>
          skills' \cap snapshot[s] \subseteq request[s].skill_ids
<1>1. Init => Deletions
  BY DEF Init, Deletions
<1>2. IInv /\ Deletions /\ [Next]_vars => [Gone]_vars
  <2> SUFFICES ASSUME Deletions, NEW s \in Sessions,
                      CommitWrite(s), request[s].op = "replace"
               PROVE  skills' \cap snapshot[s] \subseteq request[s].skill_ids
    OBVIOUS
  <2> QED
    BY DEF Deletions, CommitWrite, Inserted
<1> QED
  BY <1>1, <1>2, Invariance, NextDeletions, PTL DEF Spec, FoundSkillsAreGone
=============================================================================
