------------------------- MODULE ApplicationsProofs -------------------------
(***************************************************************************)
(* Proofs about Applications, for any number of sessions, applications,    *)
(* opportunities, applicants and companies.                                *)
(*                                                                         *)
(* One inductive invariant carries everything: types, who holds which key  *)
(* while a creation is under way (CreationsOwnTheirKey), how a stale copy  *)
(* relates to its row (LoadedIsPast), and the three facts about rows.      *)
(***************************************************************************)
EXTENDS Applications, TLAPS

(* A fresh application is a row. *)
LEMMA NewApplicationType ==
  ASSUME NEW p \in Applicants, NEW o \in Opportunities
  PROVE  /\ NewApplication(p, o) \in Application
         /\ NewApplication(p, o) # NoApplication
         /\ NewApplication(p, o).opportunity_id = o
         /\ NewApplication(p, o).applicant_id = p
         /\ NewApplication(p, o).status = "PENDING"
         /\ NewApplication(p, o).status_history = <<>>
<1>1. <<>> \in Seq(Statuses)
  OBVIOUS
<1>2. NewApplication(p, o) \in Application
  BY <1>1 DEF NewApplication, Application, Statuses, Undecided
<1> QED
  BY <1>2, NoApplicationAssumption DEF NewApplication

(* The timeline after a status change is never empty. *)
LEMMA HistoryWrittenType ==
  ASSUME NEW was \in Application, NEW row \in Application, NEW new \in Statuses,
         was.status_history # <<>> => row.status_history # <<>>
  PROVE  /\ HistoryWritten(was, row, new) \in Seq(Statuses)
         /\ HistoryWritten(was, row, new) # <<>>
<1>1. <<new>> \in Seq(Statuses) /\ <<new>> # <<>>
  OBVIOUS
<1>2. row.status_history \in Seq(Statuses)
  BY DEF Application
<1> QED
  BY <1>1, <1>2 DEF HistoryWritten

(* What any of the four UPDATEs leaves in the row: whose application it is *)
(* stays, stamps are never cleared, and a moved application has a timeline *)
(* and the stamp its status calls for -- provided the copy loaded earlier  *)
(* was not ahead of the row.                                               *)
LEMMA RowWrittenFacts ==
  ASSUME NEW req \in Request, NEW was \in Application, NEW row \in Application,
         req.op # "create",
         was.viewed_at => row.viewed_at,
         was.responded_at => row.responded_at,
         was.status_history # <<>> => row.status_history # <<>>,
         req.op = "status" => req.new \in {"VIEWED"} \cup Decisions
  PROVE  LET out == RowWritten(req, was, row)
         IN  /\ out \in Application
             /\ out.opportunity_id = row.opportunity_id
             /\ out.applicant_id = row.applicant_id
             /\ row.viewed_at => out.viewed_at
             /\ row.responded_at => out.responded_at
             /\ row.status_history # <<>> => out.status_history # <<>>
             /\ \/ out.employer_comment = row.employer_comment
                \/ /\ req.op \in {"status", "feedback"}
                   /\ out.employer_comment = req.comment
             /\ \/ out.is_shortlisted = row.is_shortlisted
                \/ req.op = "shortlist" /\ out.is_shortlisted = req.flag
             /\ \/ /\ out.status = row.status
                   /\ out.status_history = row.status_history
                \/ /\ out.status # "PENDING" /\ out.status_history # <<>>
                   /\ out.status \in Decisions => out.responded_at
                   /\ out.status = "VIEWED" => out.viewed_at
<1> DEFINE out == RowWritten(req, was, row)
<1>0. /\ row.status \in Statuses /\ row.status_history \in Seq(Statuses)
      /\ row.viewed_at \in BOOLEAN /\ row.responded_at \in BOOLEAN
      /\ row.employer_comment \in Comments \cup {NoComment}
      /\ row.is_shortlisted \in BOOLEAN
      /\ row.opportunity_id \in Opportunities /\ row.applicant_id \in Applicants
  BY DEF Application
<1>1. CASE req.op = "status"
  <2>1. req.new \in Statuses /\ req.comment \in Comments \cup {NoComment}
    BY <1>1 DEF Request
  <2>2. /\ HistoryWritten(was, row, req.new) \in Seq(Statuses)
        /\ HistoryWritten(was, row, req.new) # <<>>
    BY <2>1, HistoryWrittenType
  <2>3. out = StatusUpdated(was, row, req.new, req.comment)
    BY <1>1 DEF RowWritten
  <2>4. CommentWritten(was, row, req.comment) \in {row.employer_comment, req.comment}
    BY DEF CommentWritten
  <2> QED
    BY <1>0, <1>1, <2>1, <2>2, <2>3, <2>4
    DEF StatusUpdated, Application, Statuses, Decisions, Undecided
<1>2. CASE req.op = "withdraw"
  <2>1. "WITHDRAWN" \in Statuses
    BY DEF Statuses
  <2>2. /\ HistoryWritten(was, row, "WITHDRAWN") \in Seq(Statuses)
        /\ HistoryWritten(was, row, "WITHDRAWN") # <<>>
    BY <2>1, HistoryWrittenType
  <2>3. out = Withdrawn(was, row)
    BY <1>2 DEF RowWritten
  <2> QED
    BY <1>0, <2>1, <2>2, <2>3 DEF Withdrawn, Application, Statuses, Decisions, Undecided
<1>3. CASE req.op = "feedback"
  <2>1. out = [row EXCEPT !.employer_comment = CommentWritten(was, row, req.comment)]
    BY <1>3 DEF RowWritten
  <2>2. CommentWritten(was, row, req.comment) \in {row.employer_comment, req.comment}
    BY DEF CommentWritten
  <2>3. req.comment \in Comments
    BY <1>3 DEF Request
  <2> QED
    BY <1>0, <1>3, <2>1, <2>2, <2>3 DEF Application
<1>4. CASE req.op = "shortlist"
  <2>1. req.flag \in BOOLEAN
    BY <1>4 DEF Request
  <2>2. out = [row EXCEPT !.is_shortlisted =
                            IF req.flag = was.is_shortlisted THEN @ ELSE req.flag]
    BY <1>4 DEF RowWritten
  <2> QED
    BY <1>0, <1>4, <2>1, <2>2 DEF Application
<1> QED
  BY <1>1, <1>2, <1>3, <1>4 DEF Request

-----------------------------------------------------------------------------
(* The inductive invariant.  Rows is what it says of the tables. *)
Rows == /\ OneApplicationPerPair
        /\ StampsMatchStatus
        /\ TimelineStarted
        /\ EmployerToldOfEveryApplication

IInv == TypeOK /\ CreationsOwnTheirKey /\ LoadedIsPast /\ Rows

LEMMA InitIInv == Init => IInv
<1> SUFFICES ASSUME Init PROVE IInv
  OBVIOUS
<1>1. TypeOK
  BY DEF Init, TypeOK
<1>2. CreationsOwnTheirKey
  BY DEF Init, CreationsOwnTheirKey, Creating, Exists
<1>3. LoadedIsPast
  BY DEF Init, LoadedIsPast
<1>4. Rows
  BY DEF Init, Rows, OneApplicationPerPair, StampsMatchStatus, TimelineStarted,
         EmployerToldOfEveryApplication, Exists
<1> QED
  BY <1>1, <1>2, <1>3, <1>4 DEF IInv

(* What the invariant says of a session that is serving a request. *)
LEMMA BusySession ==
  ASSUME TypeOK, NEW s \in Sessions, pc[s] # "idle"
  PROVE  /\ request[s] \in Request
         /\ request[s].id \in Ids
         /\ pc[s] \in {"write", "reload"} <=> request[s].op # "create"
         /\ pc[s] \notin {"write", "reload"} =>
              request[s].by \in Applicants /\ request[s].opportunity_id \in Opportunities
<1>1. request[s] \in Request /\ (pc[s] \in {"write", "reload"} <=> request[s].op # "create")
  BY DEF TypeOK
<1> QED
  BY <1>1 DEF Request

(* A step that touches no table keeps what the invariant says of them. *)
LEMMA TablesUnchanged ==
  ASSUME Rows, UNCHANGED <<application, notification>>
  PROVE  Rows'
BY DEF Rows, OneApplicationPerPair, StampsMatchStatus, TimelineStarted,
       EmployerToldOfEveryApplication, Exists

(* Ending a request keeps the invariant: it only gives things up. *)
LEMMA AnswerKeepsIInv ==
  ASSUME IInv, NEW s \in Sessions, Answer(s),
         UNCHANGED <<application, issued, notification>>,
         accepting' \subseteq Opportunities,
         applications_count' \in [Opportunities -> Nat]
  PROVE  IInv'
<1> USE DEF IInv
<1>0. pc' = [pc EXCEPT ![s] = "idle"] /\ pc \in [Sessions -> {"idle", "validate",
        "insert", "commit", "created", "write", "reload"}]
  BY DEF Answer, Goto, TypeOK
<1>1. TypeOK'
  BY <1>0 DEF TypeOK, Answer
<1>2. CreationsOwnTheirKey'
  <2>1. \A t \in Sessions : pc'[t] # "idle" =>
          t # s /\ pc'[t] = pc[t] /\ request'[t] = request[t] /\ loaded'[t] = loaded[t]
    BY <1>0 DEF TypeOK, Answer
  <2>2. \A t \in Sessions : KeyLocked(t)' /\ pc'[t] # "idle" => KeyLocked(t)
    BY <2>1 DEF KeyLocked
  <2> QED
    BY <2>1, <2>2 DEF CreationsOwnTheirKey, Creating, Exists, check_duplicate
<1>3. LoadedIsPast'
  BY <1>0 DEF TypeOK, Answer, LoadedIsPast, Exists
<1>4. Rows'
  BY TablesUnchanged
<1> QED
  BY <1>1, <1>2, <1>3, <1>4

-----------------------------------------------------------------------------
(* Each step of a creation keeps the invariant. *)
LEMMA CreateApplicationKeepsIInv ==
  ASSUME IInv, NEW s \in Sessions, NEW a \in Ids, NEW p \in Applicants,
         NEW o \in Opportunities, CreateApplication(s, a, p, o)
  PROVE  IInv'
<1> USE DEF IInv
<1> DEFINE r == [op |-> "create", id |-> a, by |-> p, opportunity_id |-> o]
<1>0. /\ pc[s] = "idle" /\ a \notin issued
      /\ pc' = [pc EXCEPT ![s] = "validate"]
      /\ request' = [request EXCEPT ![s] = r]
      /\ issued' = issued \cup {a}
      /\ UNCHANGED <<application, notification, applications_count, accepting, loaded>>
  BY DEF CreateApplication, Goto
<1>1. r \in Request /\ r # NoRequest /\ r.op = "create" /\ r.id = a
  BY NoRequestAssumption DEF Request
<1>2. TypeOK'
  BY <1>0, <1>1 DEF TypeOK
<1>3. CreationsOwnTheirKey'
  <2>1. ~Exists(a)
    BY <1>0 DEF CreationsOwnTheirKey
  <2>2. \A t \in Sessions : Creating(t) => request[t].id # a
    BY <1>0 DEF CreationsOwnTheirKey
  <2>3. pc'[s] = "validate" /\ request'[s] = r
    BY <1>0 DEF TypeOK
  <2>4. \A t \in Sessions \ {s} :
          pc'[t] = pc[t] /\ request'[t] = request[t] /\ loaded'[t] = loaded[t]
    BY <1>0 DEF TypeOK
  <2>5. \A t \in Sessions : t # s /\ KeyLocked(t)' => KeyLocked(t)
    BY <2>3, <2>4 DEF KeyLocked
  <2> QED
    BY <1>0, <1>1, <2>1, <2>2, <2>3, <2>4, <2>5
    DEF CreationsOwnTheirKey, Creating, Exists, check_duplicate
<1>4. LoadedIsPast'
  BY <1>0 DEF TypeOK, LoadedIsPast, Exists
<1>5. Rows'
  BY <1>0, TablesUnchanged
<1> QED
  BY <1>2, <1>3, <1>4, <1>5

LEMMA ValidateOpportunityKeepsIInv ==
  ASSUME IInv, NEW s \in Sessions, ValidateOpportunity(s)
  PROVE  IInv'
<1> USE DEF IInv
<1>1. CASE Answer(s)
  BY <1>1, AnswerKeepsIInv DEF ValidateOpportunity, table, TypeOK
<1>2. CASE Goto(s, "insert") /\ UNCHANGED <<request, loaded>>
  <2>0. /\ pc[s] = "validate" /\ pc' = [pc EXCEPT ![s] = "insert"]
        /\ UNCHANGED <<table, accepting, request, loaded>>
    BY <1>2 DEF ValidateOpportunity, Goto
  <2>1. TypeOK'
    BY <2>0 DEF TypeOK, table
  <2>2. CreationsOwnTheirKey'
    <3>1. \A t \in Sessions : Creating(t)' <=> Creating(t)
      BY <2>0 DEF TypeOK, Creating
    <3>2. \A t \in Sessions : pc'[t] = "commit" <=> pc[t] = "commit"
      BY <2>0 DEF TypeOK
    <3>3. \A t \in Sessions : KeyLocked(t)' <=> KeyLocked(t)
      BY <2>0, <3>2 DEF KeyLocked
    <3> QED
      BY <2>0, <3>1, <3>2, <3>3 DEF CreationsOwnTheirKey, Exists, check_duplicate, table
  <2>3. LoadedIsPast'
    BY <2>0 DEF TypeOK, LoadedIsPast, Exists, table
  <2>4. Rows'
    BY <2>0, TablesUnchanged DEF table
  <2> QED
    BY <2>1, <2>2, <2>3, <2>4
<1> QED
  BY <1>1, <1>2 DEF ValidateOpportunity

LEMMA InsertApplicationKeepsIInv ==
  ASSUME IInv, NEW s \in Sessions, InsertApplication(s)
  PROVE  IInv'
<1> USE DEF IInv
<1> DEFINE p == request[s].by
           o == request[s].opportunity_id
<1>0. pc[s] = "insert" /\ ~KeyLocked(s) /\ UNCHANGED <<table, accepting>>
  BY DEF InsertApplication
<1>1. CASE Answer(s)
  BY <1>0, <1>1, AnswerKeepsIInv DEF table, TypeOK
<1>2. CASE /\ ~check_duplicate(o, p)
           /\ loaded' = [loaded EXCEPT ![s] = NewApplication(p, o)]
           /\ Goto(s, "commit")
           /\ UNCHANGED request
  <2>0. pc' = [pc EXCEPT ![s] = "commit"]
    BY <1>2 DEF Goto
  <2>1. p \in Applicants /\ o \in Opportunities
    BY <1>0, BusySession
  <2>2. NewApplication(p, o) \in Application
    BY <2>1, NewApplicationType
  <2>3. TypeOK'
    BY <1>0, <1>2, <2>0, <2>2 DEF TypeOK, table
  <2>4. CreationsOwnTheirKey'
    <3>1. \A t \in Sessions : Creating(t)' <=> Creating(t)
      BY <1>0, <2>0 DEF TypeOK, Creating
    <3>2. \A t \in Sessions \ {s} : pc'[t] = pc[t] /\ loaded'[t] = loaded[t]
      BY <1>2, <2>0 DEF TypeOK
    <3>3. loaded'[s] = NewApplication(p, o)
      BY <1>2 DEF TypeOK
    <3>4. \A t \in Sessions \ {s} :
            ~(pc[t] = "commit" /\ request[t].opportunity_id = o /\ request[t].by = p)
      BY <1>0 DEF KeyLocked
    <3>5. \A t \in Sessions : pc'[t] = "commit" => ~KeyLocked(t)'
      <4> SUFFICES ASSUME NEW t \in Sessions, pc'[t] = "commit", KeyLocked(t)'
                   PROVE  FALSE
        OBVIOUS
      <4>1. PICK u \in Sessions \ {t} :
              /\ pc'[u] = "commit"
              /\ request[u].opportunity_id = request[t].opportunity_id
              /\ request[u].by = request[t].by
        BY <1>2 DEF KeyLocked
      <4>2. CASE t = s
        BY <4>1, <4>2, <3>2, <3>4
      <4>3. CASE u = s
        BY <4>1, <4>3, <3>2, <3>4
      <4>4. CASE t # s /\ u # s
        BY <4>1, <4>4, <3>2 DEF CreationsOwnTheirKey, KeyLocked
      <4> QED
        BY <4>2, <4>3, <4>4
    <3> QED
      BY <1>0, <1>2, <3>1, <3>2, <3>3, <3>5
      DEF CreationsOwnTheirKey, Exists, check_duplicate, table
  <2>5. LoadedIsPast'
    BY <1>0, <1>2, <2>0 DEF TypeOK, LoadedIsPast, Exists, table
  <2>6. Rows'
    BY <1>0, TablesUnchanged DEF table
  <2> QED
    BY <2>3, <2>4, <2>5, <2>6
<1> QED
  BY <1>1, <1>2 DEF InsertApplication

LEMMA CommitApplicationKeepsIInv ==
  ASSUME IInv, NEW s \in Sessions, CommitApplication(s)
  PROVE  IInv'
<1> USE DEF IInv
<1> DEFINE a == request[s].id
           new == loaded[s]
<1>0. /\ pc[s] = "commit" /\ pc' = [pc EXCEPT ![s] = "created"]
      /\ UNCHANGED <<issued, applications_count, accepting, request, loaded>>
  BY DEF CommitApplication, Goto
<1>1. /\ request[s] \in Request /\ a \in Ids /\ request[s].op = "create"
      /\ request[s].by \in Applicants /\ request[s].opportunity_id \in Opportunities
  BY <1>0, BusySession
<1>2. /\ ~Exists(a) /\ a \in issued
      /\ new = NewApplication(request[s].by, request[s].opportunity_id)
      /\ ~check_duplicate(request[s].opportunity_id, request[s].by)
      /\ ~KeyLocked(s)
  BY <1>0 DEF CreationsOwnTheirKey, Creating
<1>3. /\ new \in Application /\ new # NoApplication
      /\ new.opportunity_id = request[s].opportunity_id
      /\ new.applicant_id = request[s].by
      /\ new.status = "PENDING" /\ new.status_history = <<>>
  BY <1>1, <1>2, NewApplicationType
<1>4. \A t \in Sessions \ {s} : pc'[t] = pc[t]
  BY <1>0 DEF TypeOK
<1>5. pc'[s] = "created"
  BY <1>0 DEF TypeOK
<1>6. \A t \in Sessions : KeyLocked(t)' => KeyLocked(t)
  BY <1>0, <1>4, <1>5 DEF KeyLocked
<1>7. CASE UNCHANGED <<application, notification>>
  <2>1. TypeOK'
    BY <1>0, <1>1, <1>4, <1>7 DEF TypeOK
  <2>2. CreationsOwnTheirKey'
    BY <1>0, <1>4, <1>5, <1>6, <1>7
    DEF CreationsOwnTheirKey, Creating, Exists, check_duplicate
  <2>3. LoadedIsPast'
    BY <1>0, <1>4, <1>5, <1>7 DEF LoadedIsPast, Exists
  <2>4. Rows'
    BY <1>7, TablesUnchanged
  <2> QED
    BY <2>1, <2>2, <2>3, <2>4
<1>8. CASE /\ application' = [application EXCEPT ![a] = new]
           /\ notification' = notification \cup {[id |-> a, type |-> "NEW_APPLICATION"]}
  <2>0. /\ application'[a] = new
        /\ \A b \in Ids \ {a} : application'[b] = application[b]
    BY <1>1, <1>8 DEF TypeOK
  <2>1. TypeOK'
    <3>1. application' \in [Ids -> Application \cup {NoApplication}]
      BY <1>1, <1>3, <1>8 DEF TypeOK
    <3>2. notification' \subseteq
            [type : {"NEW_APPLICATION"}, id : Ids]
      BY <1>1, <1>8 DEF TypeOK
    <3> QED
      BY <1>0, <1>1, <1>4, <3>1, <3>2 DEF TypeOK
  <2>2. CreationsOwnTheirKey'
    <3>1. \A b \in Ids : Exists(b)' => b \in issued'
      BY <1>0, <1>2, <2>0 DEF CreationsOwnTheirKey, Exists
    <3>2. ASSUME NEW t \in Sessions, Creating(t)'
          PROVE  (/\ request[t].id \in issued
                  /\ ~Exists(request[t].id)
                  /\ \A u \in Sessions \ {t} : Creating(u) => request[u].id # request[t].id)'
      <4>1. t # s /\ Creating(t) /\ Creating(s) /\ pc[t] # "idle"
        BY <1>0, <1>4, <1>5, <3>2 DEF Creating
      <4>2. request[t].id # a /\ request[t].id \in issued /\ ~Exists(request[t].id)
        BY <4>1 DEF CreationsOwnTheirKey
      <4>3. request[t].id \in Ids
        BY <4>1, BusySession
      <4>4. \A u \in Sessions : Creating(u)' => Creating(u)
        BY <1>4, <1>5 DEF Creating
      <4>5. \A u \in Sessions \ {t} : Creating(u)' => request[u].id # request[t].id
        BY <4>1, <4>4 DEF CreationsOwnTheirKey
      <4> QED
        BY <1>0, <2>0, <4>2, <4>3, <4>5 DEF Exists
    <3>3. ASSUME NEW t \in Sessions, pc'[t] = "commit"
          PROVE  (/\ loaded[t] = NewApplication(request[t].by, request[t].opportunity_id)
                  /\ ~check_duplicate(request[t].opportunity_id, request[t].by)
                  /\ ~KeyLocked(t))'
      <4>1. t # s /\ pc[t] = "commit"
        BY <1>4, <1>5, <3>3
      <4>2. /\ loaded[t] = NewApplication(request[t].by, request[t].opportunity_id)
            /\ ~check_duplicate(request[t].opportunity_id, request[t].by)
            /\ ~KeyLocked(t)
        BY <4>1 DEF CreationsOwnTheirKey
      <4>3. ~(/\ request[t].opportunity_id = request[s].opportunity_id
              /\ request[t].by = request[s].by)
        BY <1>2, <4>1 DEF KeyLocked
      <4>4. ASSUME NEW b \in Ids,
                   Exists(b)',
                   application'[b].opportunity_id = request[t].opportunity_id,
                   application'[b].applicant_id = request[t].by
            PROVE  FALSE
        <5>1. CASE b = a
          BY <1>3, <2>0, <4>3, <4>4, <5>1
        <5>2. CASE b # a
          BY <2>0, <4>2, <4>4, <5>2 DEF check_duplicate, Exists
        <5> QED
          BY <5>1, <5>2
      <4>5. ~check_duplicate(request[t].opportunity_id, request[t].by)'
        BY <1>0, <4>4 DEF check_duplicate
      <4> QED
        BY <1>0, <1>6, <4>2, <4>5
    <3> QED
      BY <3>1, <3>2, <3>3 DEF CreationsOwnTheirKey
  <2>3. LoadedIsPast'
    <3>1. ASSUME NEW t \in Sessions, pc'[t] = "write"
          PROVE  /\ pc[t] = "write" /\ request'[t] = request[t] /\ loaded'[t] = loaded[t]
                 /\ application'[request[t].id] = application[request[t].id]
      <4>1. pc[t] = "write" /\ request[t].id \in Ids
        BY <1>4, <1>5, <3>1, BusySession
      <4>2. request[t].id # a
        BY <1>2, <4>1 DEF LoadedIsPast
      <4> QED
        BY <1>0, <2>0, <4>1, <4>2
    <3> QED
      BY <3>1 DEF LoadedIsPast, Exists
  <2>4. Rows'
    <3>0. ASSUME NEW b \in Ids, Exists(b)',
                 application'[b].opportunity_id = new.opportunity_id,
                 application'[b].applicant_id = new.applicant_id
          PROVE  b = a
      BY <1>2, <1>3, <2>0, <3>0 DEF check_duplicate, Exists
    <3>1. OneApplicationPerPair'
      <4> SUFFICES ASSUME NEW b \in Ids, NEW c \in Ids, Exists(b)', Exists(c)',
                          application'[b].opportunity_id = application'[c].opportunity_id,
                          application'[b].applicant_id = application'[c].applicant_id
                   PROVE  b = c
        BY DEF OneApplicationPerPair
      <4>1. CASE b = a \/ c = a
        BY <2>0, <3>0, <4>1
      <4>2. CASE b # a /\ c # a
        BY <2>0, <4>2 DEF Rows, OneApplicationPerPair, Exists
      <4> QED
        BY <4>1, <4>2
    <3>2. StampsMatchStatus' /\ TimelineStarted'
      BY <1>3, <2>0 DEF Rows, StampsMatchStatus, TimelineStarted, Exists, Decisions
    <3>3. EmployerToldOfEveryApplication'
      BY <1>1, <1>3, <1>8, <2>0 DEF Rows, EmployerToldOfEveryApplication, Exists
    <3> QED
      BY <3>1, <3>2, <3>3 DEF Rows
  <2> QED
    BY <2>1, <2>2, <2>3, <2>4
<1> QED
  BY <1>7, <1>8 DEF CommitApplication

-----------------------------------------------------------------------------
(* A request that has read its row starts with a copy equal to the row. *)
LEMMA LoadKeepsIInv ==
  ASSUME IInv, NEW s \in Sessions, NEW r \in Request,
         pc[s] = "idle", r.op # "create", Exists(r.id),
         r.op = "status" => r.new \in {"VIEWED"} \cup Decisions,
         Load(s, r)
  PROVE  IInv'
<1> USE DEF IInv
<1>0. /\ request' = [request EXCEPT ![s] = r]
      /\ loaded' = [loaded EXCEPT ![s] = application[r.id]]
      /\ pc' = [pc EXCEPT ![s] = "write"]
      /\ UNCHANGED <<table, accepting>>
  BY DEF Load, Goto
<1>1. /\ r # NoRequest /\ r.id \in Ids
      /\ application[r.id] \in Application
  BY NoRequestAssumption DEF Request, TypeOK, Exists
<1>2. TypeOK'
  BY <1>0, <1>1 DEF TypeOK, table
<1>3. /\ pc'[s] = "write" /\ request'[s] = r /\ loaded'[s] = application[r.id]
      /\ \A t \in Sessions \ {s} :
           pc'[t] = pc[t] /\ request'[t] = request[t] /\ loaded'[t] = loaded[t]
  BY <1>0 DEF TypeOK
<1>4. CreationsOwnTheirKey'
  <2>1. \A t \in Sessions : KeyLocked(t)' /\ t # s => KeyLocked(t)
    BY <1>3 DEF KeyLocked
  <2> QED
    BY <1>0, <1>3, <2>1 DEF CreationsOwnTheirKey, Creating, Exists, check_duplicate, table
<1>5. LoadedIsPast'
  BY <1>0, <1>1, <1>3 DEF LoadedIsPast, Exists, table
<1>6. Rows'
  BY <1>0, TablesUnchanged DEF table
<1> QED
  BY <1>2, <1>4, <1>5, <1>6

LEMMA WriteApplicationKeepsIInv ==
  ASSUME IInv, NEW s \in Sessions, WriteApplication(s)
  PROVE  IInv'
<1> USE DEF IInv
<1> DEFINE a   == request[s].id
           out == RowWritten(request[s], loaded[s], application[a])
<1>0. /\ pc[s] = "write" /\ pc' = [pc EXCEPT ![s] = "reload"]
      /\ application' = [application EXCEPT ![a] = out]
      /\ UNCHANGED <<issued, notification, applications_count, accepting, request, loaded>>
  BY DEF WriteApplication, Goto
<1>1. request[s] \in Request /\ a \in Ids /\ request[s].op # "create"
  BY <1>0, BusySession
<1>2. /\ Exists(a) /\ application[a] \in Application /\ loaded[s] \in Application
      /\ loaded[s].viewed_at => application[a].viewed_at
      /\ loaded[s].responded_at => application[a].responded_at
      /\ loaded[s].status_history # <<>> => application[a].status_history # <<>>
      /\ request[s].op = "status" => request[s].new \in {"VIEWED"} \cup Decisions
  BY <1>0, <1>1 DEF LoadedIsPast, TypeOK, Exists
<1>3. /\ out \in Application
      /\ out.opportunity_id = application[a].opportunity_id
      /\ out.applicant_id = application[a].applicant_id
      /\ application[a].viewed_at => out.viewed_at
      /\ application[a].responded_at => out.responded_at
      /\ application[a].status_history # <<>> => out.status_history # <<>>
      /\ \/ /\ out.status = application[a].status
            /\ out.status_history = application[a].status_history
         \/ /\ out.status # "PENDING" /\ out.status_history # <<>>
            /\ out.status \in Decisions => out.responded_at
            /\ out.status = "VIEWED" => out.viewed_at
  BY <1>1, <1>2, RowWrittenFacts
<1>4. /\ application'[a] = out
      /\ out # NoApplication
      /\ \A b \in Ids \ {a} : application'[b] = application[b]
  BY <1>0, <1>1, <1>3, NoApplicationAssumption DEF TypeOK
<1>5. \A b \in Ids :
        /\ Exists(b)' <=> Exists(b)
        /\ Exists(b) => /\ application'[b].opportunity_id = application[b].opportunity_id
                        /\ application'[b].applicant_id = application[b].applicant_id
  BY <1>2, <1>3, <1>4 DEF Exists
<1>6. /\ pc'[s] = "reload"
      /\ \A t \in Sessions \ {s} : pc'[t] = pc[t]
  BY <1>0 DEF TypeOK
<1>7. TypeOK'
  BY <1>0, <1>1, <1>3, <1>6 DEF TypeOK
<1>8. CreationsOwnTheirKey'
  <2>1. \A t \in Sessions : KeyLocked(t)' => KeyLocked(t)
    BY <1>0, <1>6 DEF KeyLocked
  <2>2. \A o, p : check_duplicate(o, p)' <=> check_duplicate(o, p)
    BY <1>5 DEF check_duplicate
  <2>3. \A t \in Sessions : Creating(t)' => Creating(t) /\ request[t].id \in Ids
    BY <1>6, BusySession DEF Creating
  <2>4. ASSUME NEW t \in Sessions, Creating(t)'
        PROVE  (/\ request[t].id \in issued
                /\ ~Exists(request[t].id)
                /\ \A u \in Sessions \ {t} : Creating(u) => request[u].id # request[t].id)'
    BY <1>0, <1>5, <2>3, <2>4 DEF CreationsOwnTheirKey
  <2>5. ASSUME NEW t \in Sessions, pc'[t] = "commit"
        PROVE  (/\ loaded[t] = NewApplication(request[t].by, request[t].opportunity_id)
                /\ ~check_duplicate(request[t].opportunity_id, request[t].by)
                /\ ~KeyLocked(t))'
    <3>1. pc[t] = "commit"
      BY <1>6, <2>5
    <3>2. ~check_duplicate(request[t].opportunity_id, request[t].by)'
      BY <1>0, <1>5, <3>1 DEF CreationsOwnTheirKey, check_duplicate
    <3> QED
      BY <1>0, <2>1, <3>1, <3>2 DEF CreationsOwnTheirKey
  <2>6. \A b \in Ids : Exists(b)' => b \in issued'
    BY <1>0, <1>5 DEF CreationsOwnTheirKey
  <2> QED
    BY <2>4, <2>5, <2>6 DEF CreationsOwnTheirKey
<1>9. LoadedIsPast'
  <2> SUFFICES ASSUME NEW t \in Sessions, pc'[t] = "write"
               PROVE  (/\ Exists(request[t].id) /\ loaded[t] # NoApplication
                       /\ loaded[t].viewed_at => application[request[t].id].viewed_at
                       /\ loaded[t].responded_at => application[request[t].id].responded_at
                       /\ loaded[t].status_history # <<>> =>
                            application[request[t].id].status_history # <<>>
                       /\ request[t].op = "status" =>
                            request[t].new \in {"VIEWED"} \cup Decisions)'
    BY DEF LoadedIsPast
  <2>1. pc[t] = "write" /\ request[t].id \in Ids
    BY <1>6, BusySession
  <2>2. CASE request[t].id = a
    BY <1>0, <1>3, <1>4, <2>1, <2>2 DEF LoadedIsPast, Exists
  <2>3. CASE request[t].id # a
    BY <1>0, <1>4, <2>1, <2>3 DEF LoadedIsPast, Exists
  <2> QED
    BY <2>2, <2>3
<1>10. Rows'
  <2>1. OneApplicationPerPair'
    BY <1>5 DEF Rows, OneApplicationPerPair
  <2>2. StampsMatchStatus'
    BY <1>2, <1>3, <1>4, <1>5 DEF Rows, StampsMatchStatus
  <2>3. TimelineStarted'
    BY <1>2, <1>3, <1>4, <1>5 DEF Rows, TimelineStarted
  <2>4. EmployerToldOfEveryApplication'
    BY <1>0, <1>5 DEF Rows, EmployerToldOfEveryApplication
  <2> QED
    BY <2>1, <2>2, <2>3, <2>4 DEF Rows
<1> QED
  BY <1>7, <1>8, <1>9, <1>10

(* What the clients ask keeps the invariant: one case per operation. *)
LEMMA AskKeepsIInv ==
  ASSUME IInv, NEW s \in Sessions, Ask(s)
  PROVE  IInv'
<1>1. PICK a \in Ids :
        \/ \E p \in Applicants, o \in Opportunities : CreateApplication(s, a, p, o)
        \/ \E p \in Applicants : WithdrawApplication(s, a, p)
        \/ \E c \in Companies, new \in Statuses, comment \in Comments \cup {NoComment} :
             UpdateApplicationStatus(s, a, c, new, comment)
        \/ \E c \in Companies, comment \in Comments :
             UpdateApplicationFeedback(s, a, c, comment)
        \/ \E c \in Companies, flag \in BOOLEAN : ToggleApplicationShortlist(s, a, c, flag)
  BY DEF Ask
<1>2. ASSUME NEW p \in Applicants, NEW o \in Opportunities, CreateApplication(s, a, p, o)
      PROVE  IInv'
  BY <1>2, CreateApplicationKeepsIInv
<1>3. ASSUME NEW p \in Applicants, WithdrawApplication(s, a, p)
      PROVE  IInv'
  <2> DEFINE r == [op |-> "withdraw", id |-> a, by |-> p]
  <2>1. r \in Request /\ r.op = "withdraw" /\ r.id = a
    BY DEF Request
  <2> QED
    BY <1>3, <2>1, LoadKeepsIInv DEF WithdrawApplication
<1>4. ASSUME NEW c \in Companies, NEW new \in Statuses,
             NEW comment \in Comments \cup {NoComment},
             UpdateApplicationStatus(s, a, c, new, comment)
      PROVE  IInv'
  <2> DEFINE r == [op |-> "status", id |-> a, by |-> c, new |-> new, comment |-> comment]
  <2>1. r \in Request /\ r.op = "status" /\ r.id = a /\ r.new = new
    BY DEF Request
  <2>2. new \in {"VIEWED"} \cup Decisions
    BY <1>4 DEF UpdateApplicationStatus, validate_status_transition
  <2>3. pc[s] = "idle" /\ Exists(a) /\ Load(s, r)
    BY <1>4 DEF UpdateApplicationStatus, VisibleToEmployer
  <2> QED
    BY <2>1, <2>2, <2>3, LoadKeepsIInv
<1>5. ASSUME NEW c \in Companies, NEW comment \in Comments,
             UpdateApplicationFeedback(s, a, c, comment)
      PROVE  IInv'
  <2> DEFINE r == [op |-> "feedback", id |-> a, by |-> c, comment |-> comment]
  <2>1. r \in Request /\ r.op = "feedback" /\ r.id = a
    BY DEF Request
  <2> QED
    BY <1>5, <2>1, LoadKeepsIInv DEF UpdateApplicationFeedback, VisibleToEmployer
<1>6. ASSUME NEW c \in Companies, NEW flag \in BOOLEAN,
             ToggleApplicationShortlist(s, a, c, flag)
      PROVE  IInv'
  <2> DEFINE r == [op |-> "shortlist", id |-> a, by |-> c, flag |-> flag]
  <2>1. r \in Request /\ r.op = "shortlist" /\ r.id = a
    BY DEF Request
  <2> QED
    BY <1>6, <2>1, LoadKeepsIInv DEF ToggleApplicationShortlist, VisibleToEmployer
<1> QED
  BY <1>1, <1>2, <1>3, <1>4, <1>5, <1>6

(* How a request runs on keeps the invariant. *)
LEMMA ServeKeepsIInv ==
  ASSUME IInv, NEW s \in Sessions, Serve(s)
  PROVE  IInv'
<1>1. TypeOK
  BY DEF IInv
<1>2. CASE ValidateOpportunity(s)
  BY <1>2, ValidateOpportunityKeepsIInv
<1>3. CASE InsertApplication(s)
  BY <1>3, InsertApplicationKeepsIInv
<1>4. CASE CommitApplication(s)
  BY <1>4, CommitApplicationKeepsIInv
<1>5. CASE IncrementApplicationsCount(s)
  <2>1. request[s].opportunity_id \in Opportunities
    BY <1>1, <1>5, BusySession DEF IncrementApplicationsCount
  <2>2. applications_count' \in [Opportunities -> Nat]
    BY <1>1, <1>5, <2>1 DEF IncrementApplicationsCount, TypeOK
  <2> QED
    BY <1>1, <1>5, <2>2, AnswerKeepsIInv DEF IncrementApplicationsCount, TypeOK
<1>6. CASE WriteApplication(s)
  BY <1>6, WriteApplicationKeepsIInv
<1>7. CASE FinishUpdate(s)
  BY <1>1, <1>7, AnswerKeepsIInv DEF FinishUpdate, table, TypeOK
<1>8. CASE RequestFails(s)
  BY <1>1, <1>8, AnswerKeepsIInv DEF RequestFails, table, TypeOK
<1> QED
  BY <1>2, <1>3, <1>4, <1>5, <1>6, <1>7, <1>8 DEF Serve, Proceed

(* Steps outside the requests: the world changes what accepts              *)
(* applications, or nothing happens.                                       *)
LEMMA OutsideKeepsIInv ==
  ASSUME IInv, UNCHANGED <<table, session>>, accepting' \subseteq Opportunities
  PROVE  IInv'
<1> USE DEF IInv, table, session
<1>1. TypeOK'
  BY DEF TypeOK
<1>2. CreationsOwnTheirKey'
  BY DEF CreationsOwnTheirKey, Creating, KeyLocked, check_duplicate, Exists
<1>3. LoadedIsPast'
  BY DEF LoadedIsPast, Exists
<1>4. Rows'
  BY TablesUnchanged
<1> QED
  BY <1>1, <1>2, <1>3, <1>4

LEMMA NextIInv == IInv /\ [Next]_vars => IInv'
<1> SUFFICES ASSUME IInv, [Next]_vars PROVE IInv'
  OBVIOUS
<1>1. ASSUME NEW s \in Sessions, Ask(s) PROVE IInv'
  BY <1>1, AskKeepsIInv
<1>2. ASSUME NEW s \in Sessions, Serve(s) PROVE IInv'
  BY <1>2, ServeKeepsIInv
<1>3. ASSUME NEW o \in Opportunities, EligibilityChanges(o) PROVE IInv'
  <2>1. accepting' \subseteq Opportunities
    BY <1>3 DEF EligibilityChanges, IInv, TypeOK
  <2> QED
    BY <1>3, <2>1, OutsideKeepsIInv DEF EligibilityChanges
<1>4. CASE UNCHANGED vars
  BY <1>4, OutsideKeepsIInv DEF vars, IInv, TypeOK
<1> QED
  BY <1>1, <1>2, <1>3, <1>4 DEF Next

(* The invariant holds in every reachable state, with any number of        *)
(* requests served at once.                                                *)
THEOREM Invariance == Spec => []IInv
<1> QED
  BY InitIInv, NextIInv, PTL DEF Spec

-----------------------------------------------------------------------------
(* Types, whatever the constants. *)
THEOREM TypeCorrect == Spec => []TypeOK
BY Invariance, PTL DEF IInv

(* uq_application_once and the key lock leave no second application of an  *)
(* applicant to an opportunity, however many creations race.               *)
THEOREM Uniqueness == Spec => []OneApplicationPerPair
BY Invariance, PTL DEF IInv, Rows

(* No interleaving of stale writers leaves a decided application without   *)
(* its answer date or a viewed one without its view date.                  *)
THEOREM Stamps == Spec => []StampsMatchStatus
BY Invariance, PTL DEF IInv, Rows

(* A moved application always has a timeline entry, a pending one none. *)
THEOREM Timeline == Spec => []TimelineStarted
BY Invariance, PTL DEF IInv, Rows

(* The row and the employer's notification are durable together. *)
THEOREM CreationIsAtomic == Spec => []EmployerToldOfEveryApplication
BY Invariance, PTL DEF IInv, Rows

(* What a step may do to a stored row: nothing, or one of the four UPDATEs *)
(* with the facts of RowWrittenFacts.                                      *)
LEMMA RowStep ==
  ASSUME IInv, [Next]_vars, NEW a \in Ids, Exists(a)
  PROVE  \/ application'[a] = application[a]
         \/ \E s \in Sessions :
              /\ Writes(s, a)
              /\ application'[a] \in Application
              /\ application'[a].opportunity_id = application[a].opportunity_id
              /\ application'[a].applicant_id = application[a].applicant_id
              /\ \/ application'[a].employer_comment = application[a].employer_comment
                 \/ /\ request[s].op \in {"status", "feedback"}
                    /\ application'[a].employer_comment = request[s].comment
              /\ \/ application'[a].is_shortlisted = application[a].is_shortlisted
                 \/ /\ request[s].op = "shortlist"
                    /\ application'[a].is_shortlisted = request[s].flag
              /\ \/ application'[a].status = application[a].status
                 \/ application'[a].status # "PENDING"
<1> USE DEF IInv
<1>1. ASSUME NEW s \in Sessions, Ask(s) PROVE application' = application
  BY <1>1 DEF Ask, CreateApplication, WithdrawApplication, UpdateApplicationStatus,
              UpdateApplicationFeedback, ToggleApplicationShortlist, Load, table
<1>2. ASSUME NEW s \in Sessions, WriteApplication(s), request[s].id = a
      PROVE  /\ Writes(s, a)
             /\ application'[a] \in Application
             /\ application'[a].opportunity_id = application[a].opportunity_id
             /\ application'[a].applicant_id = application[a].applicant_id
             /\ \/ application'[a].employer_comment = application[a].employer_comment
                \/ /\ request[s].op \in {"status", "feedback"}
                   /\ application'[a].employer_comment = request[s].comment
             /\ \/ application'[a].is_shortlisted = application[a].is_shortlisted
                \/ /\ request[s].op = "shortlist"
                   /\ application'[a].is_shortlisted = request[s].flag
             /\ \/ application'[a].status = application[a].status
                \/ application'[a].status # "PENDING"
  <2>0. pc[s] = "write" /\ Writes(s, a)
    BY <1>2 DEF WriteApplication, Writes, Goto, TypeOK
  <2>1. request[s] \in Request /\ request[s].op # "create"
    BY <2>0, BusySession
  <2>2. /\ application[a] \in Application /\ loaded[s] \in Application
        /\ loaded[s].viewed_at => application[a].viewed_at
        /\ loaded[s].responded_at => application[a].responded_at
        /\ loaded[s].status_history # <<>> => application[a].status_history # <<>>
        /\ request[s].op = "status" => request[s].new \in {"VIEWED"} \cup Decisions
    BY <1>2, <2>0 DEF LoadedIsPast, TypeOK, Exists
  <2>3. application'[a] = RowWritten(request[s], loaded[s], application[a])
    BY <1>2 DEF WriteApplication, TypeOK
  <2> QED
    BY <2>0, <2>1, <2>2, <2>3, RowWrittenFacts
<1>3. ASSUME NEW s \in Sessions, WriteApplication(s), request[s].id # a
      PROVE  application'[a] = application[a]
  BY <1>3 DEF WriteApplication, TypeOK
<1>4. ASSUME NEW s \in Sessions, CommitApplication(s)
      PROVE  application'[a] = application[a]
  <2>1. request[s].id # a
    BY <1>4 DEF CommitApplication, CreationsOwnTheirKey, Creating
  <2> QED
    BY <1>4, <2>1 DEF CommitApplication, TypeOK
<1>5. ASSUME NEW s \in Sessions,
             \/ ValidateOpportunity(s) \/ InsertApplication(s)
             \/ IncrementApplicationsCount(s) \/ FinishUpdate(s) \/ RequestFails(s)
      PROVE  application' = application
  BY <1>5 DEF ValidateOpportunity, InsertApplication, IncrementApplicationsCount,
              FinishUpdate, RequestFails, table
<1>6. ASSUME NEW o \in Opportunities, EligibilityChanges(o)
      PROVE  application' = application
  BY <1>6 DEF EligibilityChanges, table
<1>7. CASE UNCHANGED vars
  BY <1>7 DEF vars, table
<1> QED
  BY <1>1, <1>2, <1>3, <1>4, <1>5, <1>6, <1>7 DEF Next, Serve, Proceed

(* Feedback and the shortlist flag of a row become only what a request     *)
(* asked to change them carries: no withdrawal, and no change of status    *)
(* without a comment, undoes what others have committed since its read.    *)
THEOREM RequestedColumns == Spec => OnlyRequestedColumns
<1>1. ASSUME IInv, [Next]_vars, NEW a \in Ids, Exists(a)
      PROVE  /\ application'[a].employer_comment # application[a].employer_comment =>
                  \E s \in Sessions :
                    /\ Writes(s, a) /\ request[s].op \in {"status", "feedback"}
                    /\ application'[a].employer_comment = request[s].comment
             /\ application'[a].is_shortlisted # application[a].is_shortlisted =>
                  \E s \in Sessions :
                    /\ Writes(s, a) /\ request[s].op = "shortlist"
                    /\ application'[a].is_shortlisted = request[s].flag
  BY <1>1, RowStep
<1>2. IInv /\ [Next]_vars =>
        \A a \in Ids : Exists(a) =>
          /\ application'[a].employer_comment # application[a].employer_comment =>
               \E s \in Sessions :
                 /\ Writes(s, a) /\ request[s].op \in {"status", "feedback"}
                 /\ application'[a].employer_comment = request[s].comment
          /\ application'[a].is_shortlisted # application[a].is_shortlisted =>
               \E s \in Sessions :
                 /\ Writes(s, a) /\ request[s].op = "shortlist"
                 /\ application'[a].is_shortlisted = request[s].flag
  BY <1>1
<1> QED
  BY <1>2, Invariance, PTL DEF Spec, OnlyRequestedColumns

(* A stored application is never deleted, re-assigned or made pending      *)
(* again.                                                                  *)
THEOREM Kept == Spec => ApplicationsAreKept
<1>1. ASSUME IInv, [Next]_vars, NEW a \in Ids, Exists(a)
      PROVE  /\ Exists(a)'
             /\ application'[a].opportunity_id = application[a].opportunity_id
             /\ application'[a].applicant_id = application[a].applicant_id
             /\ application'[a].status = "PENDING" => application[a].status = "PENDING"
  <2>1. CASE application'[a] = application[a]
    BY <1>1, <2>1 DEF Exists
  <2>2. CASE application'[a] # application[a]
    BY <1>1, <2>2, RowStep, NoApplicationAssumption DEF Exists
  <2> QED
    BY <2>1, <2>2
<1>2. IInv /\ [Next]_vars =>
        \A a \in Ids : Exists(a) =>
          /\ Exists(a)'
          /\ application'[a].opportunity_id = application[a].opportunity_id
          /\ application'[a].applicant_id = application[a].applicant_id
          /\ application'[a].status = "PENDING" => application[a].status = "PENDING"
  BY <1>1
<1> QED
  BY <1>2, Invariance, PTL DEF Spec, ApplicationsAreKept

-----------------------------------------------------------------------------
(* One request at a time: with a single session the service implements the *)
(* status machine of its checks.  The extra invariant is that a request    *)
(* still finds at its commit the row it read.                              *)
CheckHoldsAtCommit ==
  \A s \in Sessions : pc[s] = "write" =>
    LET row == application[request[s].id]
    IN  /\ loaded[s] = row
        /\ request[s].op = "withdraw" => row.status \in Undecided
        /\ request[s].op = "status" =>
             validate_status_transition(row.status, request[s].new)

LEMMA AloneKeepsCheck ==
  ASSUME NEW s, Sessions = {s}, IInv, CheckHoldsAtCommit, [Next]_vars
  PROVE  CheckHoldsAtCommit'
<1> USE DEF IInv
<1> SUFFICES ASSUME pc'[s] = "write"
             PROVE  (/\ loaded[s] = application[request[s].id]
                     /\ request[s].op = "withdraw" =>
                          application[request[s].id].status \in Undecided
                     /\ request[s].op = "status" =>
                          validate_status_transition(application[request[s].id].status,
                                                     request[s].new))'
  BY DEF CheckHoldsAtCommit
<1>0. pc \in [Sessions -> {"idle", "validate", "insert", "commit", "created",
                           "write", "reload"}]
      /\ request \in [Sessions -> Request \cup {NoRequest}]
      /\ loaded \in [Sessions -> Application \cup {NoApplication}]
  BY DEF TypeOK
<1>1. ASSUME NEW r, Load(s, r)
      PROVE  request'[s] = r /\ loaded'[s] = application[r.id] /\ application' = application
  BY <1>0, <1>1 DEF Load, table
<1>2. CASE Ask(s)
  <2>1. PICK a \in Ids :
          \/ \E p \in Applicants, o \in Opportunities : CreateApplication(s, a, p, o)
          \/ \E p \in Applicants : WithdrawApplication(s, a, p)
          \/ \E c \in Companies, new \in Statuses, comment \in Comments \cup {NoComment} :
               UpdateApplicationStatus(s, a, c, new, comment)
          \/ \E c \in Companies, comment \in Comments :
               UpdateApplicationFeedback(s, a, c, comment)
          \/ \E c \in Companies, flag \in BOOLEAN :
               ToggleApplicationShortlist(s, a, c, flag)
    BY <1>2 DEF Ask
  <2>2. CASE \E p \in Applicants, o \in Opportunities : CreateApplication(s, a, p, o)
    BY <1>0, <2>2 DEF CreateApplication, Goto
  <2>3. CASE \E p \in Applicants : WithdrawApplication(s, a, p)
    BY <1>1, <2>3 DEF WithdrawApplication
  <2>4. CASE \E c \in Companies, new \in Statuses, comment \in Comments \cup {NoComment} :
               UpdateApplicationStatus(s, a, c, new, comment)
    BY <1>1, <2>4 DEF UpdateApplicationStatus, validate_status_transition
  <2>5. CASE \E c \in Companies, comment \in Comments :
               UpdateApplicationFeedback(s, a, c, comment)
    BY <1>1, <2>5 DEF UpdateApplicationFeedback
  <2>6. CASE \E c \in Companies, flag \in BOOLEAN :
               ToggleApplicationShortlist(s, a, c, flag)
    BY <1>1, <2>6 DEF ToggleApplicationShortlist
  <2> QED
    BY <2>1, <2>2, <2>3, <2>4, <2>5, <2>6
<1>3. CASE Serve(s)
  BY <1>0, <1>3 DEF Serve, Proceed, ValidateOpportunity, InsertApplication, CommitApplication,
       IncrementApplicationsCount, WriteApplication, FinishUpdate, RequestFails,
       Answer, Goto
<1>4. CASE \E o \in Opportunities : EligibilityChanges(o)
  BY <1>4 DEF EligibilityChanges, CheckHoldsAtCommit, validate_status_transition,
              table, session
<1>5. CASE UNCHANGED vars
  BY <1>5 DEF vars, CheckHoldsAtCommit, validate_status_transition, table, session
<1> QED
  BY <1>2, <1>3, <1>4, <1>5 DEF Next

(* The status the table shows for application a. *)
Shown(a) == IF Exists(a) THEN application[a].status ELSE "NONE"

(* A step that leaves the table alone is a stutter of the lifecycle. *)
LEMMA SameTableStutters ==
  ASSUME application' = application
  PROVE  UNCHANGED [a \in Ids |-> Shown(a)]
BY DEF Shown, Exists

LEMMA AloneStepsFollow ==
  ASSUME NEW s, Sessions = {s}, IInv, IInv', CheckHoldsAtCommit, [Next]_vars
  PROVE  [Lifecycle!Next]_([a \in Ids |-> Shown(a)])
<1> USE DEF IInv
<1> DEFINE st == [a \in Ids |-> Shown(a)]
<1>1. ASSUME NEW a \in Ids, NEW new \in Lifecycle!NextStatuses(Shown(a)),
             Shown(a)' = new, \A b \in Ids \ {a} : Shown(b)' = Shown(b)
      PROVE  Lifecycle!Next
  <2>1. st' = [st EXCEPT ![a] = new]
    BY <1>1
  <2>2. st[a] = Shown(a)
    OBVIOUS
  <2> QED
    BY <1>1, <2>1, <2>2 DEF Lifecycle!Next, Lifecycle!Move, Shown
<1>2. CASE CommitApplication(s) /\ application' # application
  <2>0. request[s].id \in Ids
    BY <1>2, BusySession DEF CommitApplication
  <2>a. PICK a \in Ids : a = request[s].id
    BY <2>0
  <2>1. /\ pc[s] = "commit" /\ ~Exists(a)
        /\ application' = [application EXCEPT ![a] = loaded[s]]
        /\ loaded[s] = NewApplication(request[s].by, request[s].opportunity_id)
        /\ request[s].by \in Applicants /\ request[s].opportunity_id \in Opportunities
    BY <1>2, <2>a, BusySession DEF CommitApplication, CreationsOwnTheirKey, Creating
  <2>2. Shown(a) = "NONE" /\ Shown(a)' = "PENDING"
    BY <2>1, NewApplicationType DEF Shown, Exists, TypeOK
  <2>3. \A b \in Ids \ {a} : Shown(b)' = Shown(b)
    BY <2>1 DEF Shown, Exists, TypeOK
  <2>4. "PENDING" \in Lifecycle!NextStatuses(Shown(a))
    BY <2>2 DEF Lifecycle!NextStatuses
  <2> QED
    BY <1>1, <2>1, <2>2, <2>3, <2>4
<1>3. CASE WriteApplication(s)
  <2>0. /\ pc[s] = "write" /\ request[s] \in Request /\ request[s].id \in Ids
        /\ request[s].op # "create"
    BY <1>3, BusySession DEF WriteApplication
  <2>a. PICK a \in Ids : a = request[s].id
    BY <2>0
  <2> DEFINE row == application[a]
             out == RowWritten(request[s], row, row)
  <2>1. /\ Exists(a) /\ row \in Application
        /\ request[s].op = "status" => request[s].new \in {"VIEWED"} \cup Decisions
    BY <2>0, <2>a DEF LoadedIsPast, TypeOK, Exists
  <2>2. /\ loaded[s] = row
        /\ request[s].op = "withdraw" => row.status \in Undecided
        /\ request[s].op = "status" =>
             validate_status_transition(row.status, request[s].new)
    BY <2>0, <2>a DEF CheckHoldsAtCommit
  <2>3. application' = [application EXCEPT ![a] = out]
    BY <1>3, <2>a, <2>2 DEF WriteApplication
  <2>4. out \in Application /\ out # NoApplication
    BY <2>0, <2>1, RowWrittenFacts, NoApplicationAssumption
  <2>5. Shown(a) = row.status /\ Shown(a)' = out.status
    BY <2>0, <2>1, <2>3, <2>4 DEF Shown, Exists, TypeOK
  <2>6. \A b \in Ids \ {a} : Shown(b)' = Shown(b)
    BY <2>0, <2>3 DEF Shown, Exists, TypeOK
  <2>7. CASE request[s].op = "status"
    <3>1. out.status = request[s].new
      BY <2>1, <2>7 DEF RowWritten, StatusUpdated, Application
    <3>2. request[s].new \in Lifecycle!NextStatuses(row.status)
      BY <2>2, <2>7 DEF validate_status_transition, Decisions,
                        Lifecycle!NextStatuses, Lifecycle!Decisions
    <3> QED
      BY <1>1, <2>0, <2>5, <2>6, <3>1, <3>2
  <2>8. CASE request[s].op = "withdraw"
    <3>1. out.status = "WITHDRAWN"
      BY <2>1, <2>8 DEF RowWritten, Withdrawn, Application
    <3>2. "WITHDRAWN" \in Lifecycle!NextStatuses(row.status)
      BY <2>2, <2>8 DEF Undecided, Lifecycle!NextStatuses
    <3> QED
      BY <1>1, <2>0, <2>5, <2>6, <3>1, <3>2
  <2>9. CASE request[s].op \in {"feedback", "shortlist"}
    <3>1. out.status = row.status
      BY <2>1, <2>9 DEF RowWritten, Application
    <3>2. \A b \in Ids : Shown(b)' = Shown(b)
      BY <2>5, <2>6, <3>1
    <3> QED
      BY <3>2
  <2> QED
    BY <2>0, <2>7, <2>8, <2>9 DEF Request
<1>4. CASE application' = application
  BY <1>4, SameTableStutters
<1>5. \/ application' = application
      \/ CommitApplication(s)
      \/ WriteApplication(s)
  <2>1. ASSUME Ask(s) PROVE application' = application
    BY <2>1 DEF Ask, CreateApplication, WithdrawApplication, UpdateApplicationStatus,
                UpdateApplicationFeedback, ToggleApplicationShortlist, Load, table
  <2>2. CASE Serve(s)
    BY <2>2 DEF Serve, Proceed, ValidateOpportunity, InsertApplication,
                IncrementApplicationsCount, FinishUpdate, RequestFails, table
  <2>3. CASE \E o \in Opportunities : EligibilityChanges(o)
    BY <2>3 DEF EligibilityChanges, table
  <2>4. CASE UNCHANGED vars
    BY <2>4 DEF vars, table
  <2> QED
    BY <2>1, <2>2, <2>3, <2>4 DEF Next
<1> QED
  BY <1>2, <1>3, <1>4, <1>5

(* Served one at a time, requests implement ApplicationLifecycle: nothing  *)
(* but overlap breaks the status machine of the program's checks.          *)
THEOREM AloneFollowsLifecycle ==
  ASSUME NEW s, Sessions = {s}
  PROVE  Spec => FollowsLifecycle
<1>1. Init => Lifecycle!Init
  BY DEF Init, Lifecycle!Init, Exists
<1>2. Init => CheckHoldsAtCommit
  BY DEF Init, CheckHoldsAtCommit
<1>3. IInv /\ CheckHoldsAtCommit /\ [Next]_vars => CheckHoldsAtCommit'
  BY AloneKeepsCheck
<1>4. IInv /\ IInv' /\ CheckHoldsAtCommit /\ [Next]_vars =>
        [Lifecycle!Next]_([a \in Ids |-> IF Exists(a) THEN application[a].status ELSE "NONE"])
  BY AloneStepsFollow DEF Shown
<1> QED
  BY <1>1, <1>2, <1>3, <1>4, Invariance, PTL DEF Spec, FollowsLifecycle, Lifecycle!Spec
=============================================================================
