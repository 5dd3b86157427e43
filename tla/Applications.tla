---------------------------- MODULE Applications ----------------------------
(***************************************************************************)
(* Applications to opportunities: ApplicationService, its repository and   *)
(* the applications table.                                                 *)
(*                                                                         *)
(* An HTTP request owns one database session for its whole life, and every *)
(* await on that session is a point where other requests run.  A request   *)
(* is therefore a process with one action per await that matters: what it  *)
(* reads and checks, what it flushes, what it commits, what it answers.    *)
(* PostgreSQL runs at READ COMMITTED: a read sees the committed rows, an   *)
(* UPDATE writes only the columns the ORM object has changed, and an       *)
(* INSERT waits for an uncommitted INSERT of the same unique key.          *)
(***************************************************************************)
EXTENDS Naturals, Sequences, FiniteSets

CONSTANTS
  Ids,           \* primary keys new applications may get
  Opportunities,
  Applicants,    \* applicants' profiles
  Companies,
  CompanyOf,     \* CompanyOf[o]: the company that owns opportunity o
  Sessions,      \* requests served at the same time
  Comments,      \* texts an employer may leave to the applicant
  NoComment,     \* null: no text given, none stored
  NoApplication, \* "no row": the key is unused, or its insert was rolled back
  NoRequest      \* the session is not in use

VARIABLES
  application,        \* the applications table: committed rows by primary key
  issued,             \* primary keys already handed out
  notification,       \* the notifications table: committed rows
  applications_count, \* Opportunity.applications_count
  accepting,          \* opportunities that are ACTIVE, of an approved, active company
  pc,                 \* pc[s]: where the request of session s stands
  request,            \* request[s]: what session s was asked
  loaded              \* loaded[s]: the ORM object in the session's identity map

table   == <<application, issued, notification, applications_count>>
session == <<pc, request, loaded>>
vars    == <<table, accepting, session>>

-----------------------------------------------------------------------------
Decisions == {"ACCEPTED", "REJECTED", "RESERVE"}
Undecided == {"PENDING", "VIEWED"}
Statuses  == Undecided \cup Decisions \cup {"WITHDRAWN"}

(* Requests; id is the row asked for or, for "create", the UUID of the new *)
(* row.                                                                    *)
Request ==
       [op : {"create"}, id : Ids, by : Applicants, opportunity_id : Opportunities]
  \cup [op : {"withdraw"}, id : Ids, by : Applicants]
  \cup [op : {"status"}, id : Ids, by : Companies, new : Statuses,
        comment : Comments \cup {NoComment}]
  \cup [op : {"feedback"}, id : Ids, by : Companies, comment : Comments]
  \cup [op : {"shortlist"}, id : Ids, by : Companies, flag : BOOLEAN]

(* A row.  Timestamps are reduced to whether they are set; employer_note   *)
(* is a second text column, which only feedback writes and as it writes    *)
(* the comment.                                                            *)
Application ==
  [ opportunity_id   : Opportunities,
    applicant_id     : Applicants,
    status           : Statuses,
    status_history   : Seq(Statuses),
    viewed_at        : BOOLEAN,
    responded_at     : BOOLEAN,
    employer_comment : Comments \cup {NoComment},
    is_shortlisted   : BOOLEAN ]

(* The null values are none of the values they stand in for. *)
ASSUME NoApplicationAssumption == NoApplication \notin Application
ASSUME NoRequestAssumption == NoRequest \notin Request
ASSUME NoCommentAssumption == NoComment \notin Comments

NewApplication(p, o) ==
  [ opportunity_id |-> o, applicant_id |-> p,
    status |-> "PENDING", status_history |-> <<>>,
    viewed_at |-> FALSE, responded_at |-> FALSE,
    employer_comment |-> NoComment, is_shortlisted |-> FALSE ]

Exists(a) == application[a] # NoApplication

(* ApplicationRepository.check_duplicate. *)
check_duplicate(o, p) ==
  \E a \in Ids : /\ Exists(a)
                 /\ application[a].opportunity_id = o
                 /\ application[a].applicant_id = p

(* get_by_id_for_employer: the row, when its opportunity is the company's. *)
VisibleToEmployer(a, c) ==
  Exists(a) /\ CompanyOf[application[a].opportunity_id] = c

(* Variant: a viewed application may be put back to pending. *)
validate_status_transition_Back(current, new) ==
  \/ current = "PENDING" /\ new \in {"VIEWED"} \cup Decisions
  \/ current = "VIEWED"  /\ new \in {"PENDING"} \cup Decisions

(* ApplicationService._validate_status_transition. *)
validate_status_transition(current, new) ==
  \/ current = "PENDING" /\ new \in {"VIEWED"} \cup Decisions
  \/ current = "VIEWED"  /\ new \in Decisions

-----------------------------------------------------------------------------
(* Steps of a request.  Goto moves it on; Answer ends it, with a result or *)
(* an error, and closes the session, dropping what was flushed and not     *)
(* committed.                                                              *)
Goto(s, label) == pc' = [pc EXCEPT ![s] = label]

Answer(s) ==
  /\ Goto(s, "idle")
  /\ request' = [request EXCEPT ![s] = NoRequest]
  /\ loaded' = [loaded EXCEPT ![s] = NoApplication]

(* The first read found the row of request r and the checks passed.  (A    *)
(* request its first read refuses changes nothing: it is a disabled step.) *)
Load(s, r) ==
  /\ request' = [request EXCEPT ![s] = r]
  /\ loaded' = [loaded EXCEPT ![s] = application[r.id]]
  /\ Goto(s, "write")
  /\ UNCHANGED <<table, accepting>>

(* create_application, up to the duplicate check. *)
CreateApplication(s, a, p, o) ==
  /\ pc[s] = "idle" /\ a \notin issued
  /\ ~check_duplicate(o, p)
  /\ request' = [request EXCEPT ![s] =
                   [op |-> "create", id |-> a, by |-> p, opportunity_id |-> o]]
  /\ issued' = issued \cup {a}
  /\ Goto(s, "validate")
  /\ UNCHANGED <<application, notification, applications_count, accepting, loaded>>

(* validate_opportunity_for_application, then the profile's CV is read. *)
ValidateOpportunity(s) ==
  /\ pc[s] = "validate"
  /\ \/ /\ request[s].opportunity_id \in accepting
        /\ Goto(s, "insert")
        /\ UNCHANGED <<request, loaded>>
     \/ /\ request[s].opportunity_id \notin accepting
        /\ Answer(s)
  /\ UNCHANGED <<table, accepting>>

(* Another session has inserted the same (opportunity, applicant) and not  *)
(* committed yet: PostgreSQL makes a second insert of the key wait.        *)
KeyLocked(s) ==
  \E t \in Sessions \ {s} :
    /\ pc[t] = "commit"
    /\ request[t].opportunity_id = request[s].opportunity_id
    /\ request[t].by = request[s].by

(* Variant: no uq_application_once; the service's check is the only one. *)
InsertApplication_NoConstraint(s) ==
  /\ pc[s] = "insert"
  /\ loaded' = [loaded EXCEPT ![s] =
                  NewApplication(request[s].by, request[s].opportunity_id)]
  /\ Goto(s, "commit")
  /\ UNCHANGED <<request, table, accepting>>

(* create_with_cv_snapshot: the INSERT is flushed; uq_application_once     *)
(* turns a committed duplicate into a rollback and an error.               *)
InsertApplication(s) ==
  /\ pc[s] = "insert" /\ ~KeyLocked(s)
  /\ \/ /\ ~check_duplicate(request[s].opportunity_id, request[s].by)
        /\ loaded' = [loaded EXCEPT ![s] =
                        NewApplication(request[s].by, request[s].opportunity_id)]
        /\ Goto(s, "commit")
        /\ UNCHANGED request
     \/ /\ check_duplicate(request[s].opportunity_id, request[s].by)
        /\ Answer(s)
  /\ UNCHANGED <<table, accepting>>

(* Variant: the row is committed before the notification is added. *)
CommitApplication_RowFirst(s) ==
  /\ pc[s] = "commit"
  /\ application' = [application EXCEPT ![request[s].id] = loaded[s]]
  /\ \/ notification' =
          notification \cup {[id |-> request[s].id, type |-> "NEW_APPLICATION"]}
     \/ UNCHANGED notification
  /\ Goto(s, "created")
  /\ UNCHANGED <<issued, applications_count, accepting, request, loaded>>

(* _create_employer_notification: the only commit of a creation, and it    *)
(* swallows its exceptions: when COMMIT itself fails, the row and the      *)
(* notification are gone and the request still answers 201 with the row.   *)
(* At "created" that answer is on its way.                                 *)
CommitApplication(s) ==
  /\ pc[s] = "commit"
  /\ \/ /\ application' = [application EXCEPT ![request[s].id] = loaded[s]]
        /\ notification' =
             notification \cup {[id |-> request[s].id, type |-> "NEW_APPLICATION"]}
     \/ UNCHANGED <<application, notification>>
  /\ Goto(s, "created")
  /\ UNCHANGED <<issued, applications_count, accepting, request, loaded>>

(* Variant: the counter goes the wrong way. *)
IncrementApplicationsCount_Down(s) ==
  /\ pc[s] = "created"
  /\ applications_count' =
       [applications_count EXCEPT ![request[s].opportunity_id] = @ - 1]
  /\ Answer(s)
  /\ UNCHANGED <<application, issued, notification, accepting>>

(* increment_applications_count runs as a detached task on the session the *)
(* request is using; whether its UPDATE goes through depends on what that  *)
(* session is doing, and its failure is only logged.                       *)
IncrementApplicationsCount(s) ==
  /\ pc[s] = "created"
  /\ \/ applications_count' =
          [applications_count EXCEPT ![request[s].opportunity_id] = @ + 1]
     \/ UNCHANGED applications_count
  /\ Answer(s)
  /\ UNCHANGED <<application, issued, notification, accepting>>

-----------------------------------------------------------------------------
(* withdraw_application: read, ownership and status checks. *)
WithdrawApplication(s, a, p) ==
  /\ pc[s] = "idle"
  /\ Exists(a) /\ application[a].applicant_id = p
  /\ application[a].status \in Undecided
  /\ Load(s, [op |-> "withdraw", id |-> a, by |-> p])

(* update_application_status: read through the company, transition check. *)
UpdateApplicationStatus(s, a, c, new, comment) ==
  /\ pc[s] = "idle"
  /\ VisibleToEmployer(a, c)
  /\ validate_status_transition(application[a].status, new)
  /\ Load(s, [op |-> "status", id |-> a, by |-> c, new |-> new, comment |-> comment])

UpdateApplicationFeedback(s, a, c, comment) ==
  /\ pc[s] = "idle"
  /\ VisibleToEmployer(a, c)
  /\ Load(s, [op |-> "feedback", id |-> a, by |-> c, comment |-> comment])

ToggleApplicationShortlist(s, a, c, flag) ==
  /\ pc[s] = "idle"
  /\ VisibleToEmployer(a, c)
  /\ Load(s, [op |-> "shortlist", id |-> a, by |-> c, flag |-> flag])

(* The list is appended to in place: a non-empty list is still the object  *)
(* the session loaded, so the ORM sees no change and omits the column;     *)
(* only the new list made for an empty history is written.                 *)
HistoryWritten(was, inRow, new) ==
  IF was.status_history = <<>> THEN <<new>> ELSE inRow.status_history

(* A text is assigned when one is given, and its column written when it is *)
(* not the text loaded; it replaces whatever the row has become.           *)
CommentWritten(was, inRow, comment) ==
  IF comment \in {NoComment, was.employer_comment}
    THEN inRow.employer_comment
    ELSE comment

(* Variant: a reserve is not counted as an answer. *)
StatusUpdated_ReserveUnanswered(was, inRow, new, comment) ==
  [inRow EXCEPT
     !.status           = new,
     !.status_history   = HistoryWritten(was, inRow, new),
     !.viewed_at        = @ \/ (new = "VIEWED" /\ ~was.viewed_at),
     !.responded_at     = @ \/ (new \in {"ACCEPTED", "REJECTED"} /\ ~was.responded_at),
     !.employer_comment = CommentWritten(was, inRow, comment)]

(* ApplicationRepository.update_status: the columns that changed with      *)
(* respect to the loaded object, on top of the row as it is now.           *)
StatusUpdated(was, inRow, new, comment) ==
  [inRow EXCEPT
     !.status           = new,
     !.status_history   = HistoryWritten(was, inRow, new),
     !.viewed_at        = @ \/ (new = "VIEWED" /\ ~was.viewed_at),
     !.responded_at     = @ \/ (new \in Decisions /\ ~was.responded_at),
     !.employer_comment = CommentWritten(was, inRow, comment)]

(* Variant: a withdrawal leaves no timeline entry. *)
Withdrawn_NoEntry(was, inRow) == [inRow EXCEPT !.status = "WITHDRAWN"]

(* Variant: the whole loaded object is written back. *)
Withdrawn_WholeRow(was, inRow) ==
  [was EXCEPT
     !.status         = "WITHDRAWN",
     !.status_history = HistoryWritten(was, inRow, "WITHDRAWN")]

(* ApplicationRepository.withdraw_application. *)
Withdrawn(was, inRow) ==
  [inRow EXCEPT
     !.status         = "WITHDRAWN",
     !.status_history = HistoryWritten(was, inRow, "WITHDRAWN")]

(* The row a request's UPDATE leaves, whatever the operation. *)
RowWritten(req, was, inRow) ==
  CASE req.op = "status"    -> StatusUpdated(was, inRow, req.new, req.comment)
    [] req.op = "withdraw"  -> Withdrawn(was, inRow)
    [] req.op = "feedback"  ->
         [inRow EXCEPT !.employer_comment = CommentWritten(was, inRow, req.comment)]
    [] req.op = "shortlist" ->
         [inRow EXCEPT !.is_shortlisted =
                         IF req.flag = was.is_shortlisted THEN @ ELSE req.flag]

(* The commit of update_status, withdraw_application, update_feedback and  *)
(* toggle_shortlist.  The row is not read or locked again.                 *)
WriteApplication(s) ==
  /\ pc[s] = "write"
  /\ application' = [application EXCEPT ![request[s].id] =
                       RowWritten(request[s], loaded[s], @)]
  /\ Goto(s, "reload")
  /\ UNCHANGED <<issued, notification, applications_count, accepting, request, loaded>>

(* The row is read back and answered.  A status change first flushes the   *)
(* applicant's notification inside a savepoint; nothing commits it, so it  *)
(* goes with the session.                                                  *)
FinishUpdate(s) ==
  /\ pc[s] = "reload"
  /\ Answer(s)
  /\ UNCHANGED <<table, accepting>>

(* The database fails a statement: the transaction is rolled back and the  *)
(* request ends in an error.                                               *)
RequestFails(s) ==
  /\ pc[s] \in {"validate", "insert", "commit", "write", "reload"}
  /\ Answer(s)
  /\ UNCHANGED <<table, accepting>>

-----------------------------------------------------------------------------
(* Other components open and close opportunities, and approve or reject    *)
(* companies, at any time (delete_opportunity, curator_review, ...).       *)
EligibilityChanges(o) ==
  /\ accepting' = IF o \in accepting THEN accepting \ {o} ELSE accepting \cup {o}
  /\ UNCHANGED <<table, session>>

Init ==
  /\ application = [a \in Ids |-> NoApplication]
  /\ issued = {}
  /\ notification = {}
  /\ applications_count = [o \in Opportunities |-> 0]
  /\ accepting \in SUBSET Opportunities
  /\ pc = [s \in Sessions |-> "idle"]
  /\ request = [s \in Sessions |-> NoRequest]
  /\ loaded = [s \in Sessions |-> NoApplication]

(* A client asks session s for something. *)
Ask(s) ==
  \E a \in Ids :
    \/ \E p \in Applicants, o \in Opportunities : CreateApplication(s, a, p, o)
    \/ \E p \in Applicants : WithdrawApplication(s, a, p)
    \/ \E c \in Companies :
         \/ \E new \in Statuses, comment \in Comments \cup {NoComment} :
              UpdateApplicationStatus(s, a, c, new, comment)
         \/ \E comment \in Comments : UpdateApplicationFeedback(s, a, c, comment)
         \/ \E flag \in BOOLEAN : ToggleApplicationShortlist(s, a, c, flag)

(* The request of session s, once asked, runs on ... *)
Proceed(s) ==
  \/ ValidateOpportunity(s)
  \/ InsertApplication(s)
  \/ CommitApplication(s)
  \/ IncrementApplicationsCount(s)
  \/ WriteApplication(s)
  \/ FinishUpdate(s)

(* ... unless the database fails it. *)
Serve(s) == Proceed(s) \/ RequestFails(s)

Next ==
  \/ \E s \in Sessions : Ask(s) \/ Serve(s)
  \/ \E o \in Opportunities : EligibilityChanges(o)

Spec == Init /\ [][Next]_vars

-----------------------------------------------------------------------------
TypeOK ==
  /\ application \in [Ids -> Application \cup {NoApplication}]
  /\ issued \subseteq Ids
  /\ notification \subseteq [id : Ids, type : {"NEW_APPLICATION"}]
  /\ applications_count \in [Opportunities -> Nat]
  /\ accepting \subseteq Opportunities
  /\ pc \in [Sessions -> {"idle", "validate", "insert", "commit", "created",
                          "write", "reload"}]
  /\ request \in [Sessions -> Request \cup {NoRequest}]
  /\ loaded \in [Sessions -> Application \cup {NoApplication}]
  /\ \A s \in Sessions : pc[s] # "idle" =>
       /\ request[s] # NoRequest
       /\ pc[s] \in {"write", "reload"} <=> request[s].op # "create"

(* An applicant has at most one application to an opportunity, however     *)
(* many create requests race past check_duplicate.                         *)
OneApplicationPerPair ==
  \A a, b \in Ids :
    /\ Exists(a) /\ Exists(b)
    /\ application[a].opportunity_id = application[b].opportunity_id
    /\ application[a].applicant_id = application[b].applicant_id
    => a = b

(* A decided application has its answer date and a viewed one its view     *)
(* date, though update_status sets each only when the copy it loaded,      *)
(* perhaps long ago, has none.                                             *)
StampsMatchStatus ==
  \A a \in Ids : Exists(a) =>
    /\ application[a].status \in Decisions => application[a].responded_at
    /\ application[a].status = "VIEWED" => application[a].viewed_at

(* The timeline is empty exactly while nobody has moved the application:   *)
(* no interleaving of writers leaves a moved one without any entry.        *)
TimelineStarted ==
  \A a \in Ids : Exists(a) =>
    (application[a].status = "PENDING" <=> application[a].status_history = <<>>)

(* The row and the employer's notification become durable together: the    *)
(* employer hears of every stored application and of no lost one.          *)
EmployerToldOfEveryApplication ==
  \A a \in Ids :
    Exists(a) <=> [id |-> a, type |-> "NEW_APPLICATION"] \in notification

(* A request creating an application holds a key no row and no other       *)
(* request has, and between flush and commit it is alone with its          *)
(* (opportunity, applicant): nobody has that application or is about to.   *)
Creating(s) == pc[s] \in {"validate", "insert", "commit"}

CreationsOwnTheirKey ==
  /\ \A a \in Ids : Exists(a) => a \in issued
  /\ \A s \in Sessions : Creating(s) =>
       /\ request[s].id \in issued
       /\ ~Exists(request[s].id)
       /\ \A t \in Sessions \ {s} : Creating(t) => request[t].id # request[s].id
  /\ \A s \in Sessions : pc[s] = "commit" =>
       /\ loaded[s] = NewApplication(request[s].by, request[s].opportunity_id)
       /\ ~check_duplicate(request[s].opportunity_id, request[s].by)
       /\ ~KeyLocked(s)

(* The copy a writer loaded may be stale but never runs ahead of the row:  *)
(* the row exists, and every stamp and timeline the copy has the row has   *)
(* too.  So the columns update_status leaves out are already set.          *)
LoadedIsPast ==
  \A s \in Sessions : pc[s] = "write" =>
    LET a   == request[s].id
        row == application[a]
    IN  /\ Exists(a) /\ loaded[s] # NoApplication
        /\ loaded[s].viewed_at => row.viewed_at
        /\ loaded[s].responded_at => row.responded_at
        /\ loaded[s].status_history # <<>> => row.status_history # <<>>
        /\ request[s].op = "status" => request[s].new \in {"VIEWED"} \cup Decisions

(* Feedback and the shortlist flag change only to what a request that was  *)
(* asked to change them carries, when that request commits: a withdrawal,  *)
(* or a change of status without a comment, takes back nothing that others *)
(* have committed since it read the row.  (One that has a comment does     *)
(* replace theirs.)                                                        *)
Writes(s, a) == pc[s] = "write" /\ pc'[s] = "reload" /\ request[s].id = a

OnlyRequestedColumns ==
  [][\A a \in Ids : Exists(a) =>
       /\ application'[a].employer_comment # application[a].employer_comment =>
            \E s \in Sessions :
              /\ Writes(s, a) /\ request[s].op \in {"status", "feedback"}
              /\ application'[a].employer_comment = request[s].comment
       /\ application'[a].is_shortlisted # application[a].is_shortlisted =>
            \E s \in Sessions :
              /\ Writes(s, a) /\ request[s].op = "shortlist"
              /\ application'[a].is_shortlisted = request[s].flag]_vars

(* A stored application stays, with its opportunity and applicant, and     *)
(* never becomes pending again.                                            *)
ApplicationsAreKept ==
  [][\A a \in Ids : Exists(a) =>
       /\ Exists(a)'
       /\ application'[a].opportunity_id = application[a].opportunity_id
       /\ application'[a].applicant_id = application[a].applicant_id
       /\ application'[a].status = "PENDING" => application[a].status = "PENDING"]_vars

-----------------------------------------------------------------------------
(* Applied one request at a time (a single session), the service           *)
(* implements the status machine of its own checks.                        *)
Lifecycle == INSTANCE ApplicationLifecycle WITH
  status <- [a \in Ids |-> IF Exists(a) THEN application[a].status ELSE "NONE"]

FollowsLifecycle == Lifecycle!Spec

=============================================================================
