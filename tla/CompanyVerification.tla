------------------------- MODULE CompanyVerification -------------------------
(***************************************************************************)
(* How an employer's company gets verified: CompanyService and its         *)
(* repository, the tables companies and company_verifications, and the     *)
(* Redis sessions that carry a checked INN from step 1 to step 2.          *)
(*                                                                         *)
(* Employers register and send documents, curators decide.  A request is a *)
(* process on a database session of its own: it reads the company, then    *)
(* its verification, and later commits the columns it has changed; nothing *)
(* is locked in between.                                                   *)
(***************************************************************************)
CONSTANTS
  Employers,
  Inns,      \* what an employer may enter
  KnownInns, \* those Dadata finds as operating companies
  Tokens,    \* session tokens of step 1
  Documents,
  Sessions,  \* requests served at the same time
  NoToken, NoRow, NoRequest

ASSUME KnownInnsAssumption == KnownInns \subseteq Inns

VARIABLES
  companies,     \* companies[k]: verification_status of a committed company
  verifications, \* verifications[k]: its committed verification
  notice,        \* notice[k]: the last verdict its owner was notified of
  redis,         \* redis[t]: the INN a token stands for
  pc,            \* pc[s]: where the request of session s stands
  request,       \* request[s]: what session s was asked
  company,       \* company[s]: the status as session s read it
  verification   \* verification[s]: the verification as session s read it

table   == <<companies, verifications, notice>>
session == <<pc, request, company, verification>>
vars    == <<table, redis, session>>

-----------------------------------------------------------------------------
VerificationStatus == {"PENDING", "APPROVED", "REJECTED"}
Verdicts == {"APPROVED", "REJECTED"}
Comments == {"none", "given"}

(* A company is known by its owner and its INN. *)
Key == [owner : Employers, inn : Inns]

(* Links and documents are lists treated alike: one set stands for both. *)
Verification ==
  [status : VerificationStatus, curator_comment : Comments,
   documents : SUBSET Documents]

Request ==
       [op : {"register"}, key : Key, token : Tokens \cup {NoToken}]
  \cup [op : {"submit"}, key : Key, sent : SUBSET Documents]
  \cup [op : {"review"}, key : Key, verdict : Verdicts, comment : Comments]

ASSUME NoRequestAssumption ==
  NoRequest \notin Request /\ NoRow \notin Verification \cup VerificationStatus

Registered == DOMAIN companies

(* Variant: only the INN is declared unique. *)
Conflict_InnOnly(j, k) == j.inn = k.inn

(* owner_id and inn are unique. *)
Conflict(j, k) == j.owner = k.owner \/ j.inn = k.inn

Inserted(rows, k, row) ==
  [j \in DOMAIN rows \cup {k} |-> IF j = k THEN row ELSE rows[j]]

Goto(s, label) == pc' = [pc EXCEPT ![s] = label]

Answer(s) ==
  /\ Goto(s, "idle")
  /\ request' = [request EXCEPT ![s] = NoRequest]
  /\ company' = [company EXCEPT ![s] = NoRow]
  /\ verification' = [verification EXCEPT ![s] = NoRow]

-----------------------------------------------------------------------------
(* Variant: the INN is kept before Dadata has answered for it. *)
VerifyInn_Unchecked(inn, t) ==
  /\ redis[t] = NoToken
  /\ redis' = [redis EXCEPT ![t] = inn]
  /\ UNCHANGED <<table, session>>

(* Step 1. The answer carries a token under which Redis keeps the result.  *)
VerifyInn(inn, t) ==
  /\ inn \in KnownInns
  /\ redis[t] = NoToken
  /\ redis' = [redis EXCEPT ![t] = inn]
  /\ UNCHANGED <<table, session>>

(* INN_SESSION_TTL has passed. *)
TokenExpires(t) ==
  /\ redis[t] # NoToken
  /\ redis' = [redis EXCEPT ![t] = NoToken]
  /\ UNCHANGED <<table, session>>

(* Step 2. get_by_owner and get_by_inn are queries of their own. *)
RegisterCompany(s, k, t) ==
  /\ pc[s] = "idle"
  /\ \A j \in Registered : j.owner # k.owner
  /\ request' = [request EXCEPT ![s] = [op |-> "register", key |-> k, token |-> t]]
  /\ Goto(s, "get_by_inn")
  /\ UNCHANGED <<table, redis, company, verification>>

GetByInn(s) ==
  /\ pc[s] = "get_by_inn"
  /\ \A j \in Registered : j.inn # request[s].key.inn
  /\ Goto(s, "resolve")
  /\ UNCHANGED <<table, redis, request, company, verification>>

(* Variant: an expired session is trusted for the INN it is sent with. *)
Resolved_Trusting(inn, t) ==
  IF t = NoToken THEN {inn} \cap KnownInns
  ELSE IF redis[t] = NoToken THEN {inn} ELSE {redis[t]}

(* _resolve_dadata: what the token stands for, or a lookup without one (or *)
(* without Redis, when a token is ignored).                                *)
Resolved(inn, t) ==
  IF t = NoToken THEN {inn} \cap KnownInns ELSE {redis[t]} \ {NoToken}

ResolveDadata(s) ==
  /\ pc[s] = "resolve"
  /\ request[s].key.inn \in Resolved(request[s].key.inn, request[s].token)
  /\ Goto(s, "insert")
  /\ UNCHANGED <<table, redis, request, company, verification>>

(* Variant: the company is committed before its verification is added. *)
InsertCompany_CommitsFirst(s) ==
  /\ pc[s] = "insert"
  /\ \A j \in Registered : ~Conflict(j, request[s].key)
  /\ companies' = Inserted(companies, request[s].key, "PENDING")
  /\ Goto(s, "commit")
  /\ UNCHANGED <<verifications, notice, redis, request, company, verification>>

(* The INSERT of the company, flushed: it waits for an uncommitted INSERT  *)
(* of the same owner or INN, and fails if either is taken (RequestFails).  *)
InsertCompany(s) ==
  /\ pc[s] = "insert"
  /\ \A j \in Registered : ~Conflict(j, request[s].key)
  /\ \A t \in Sessions \ {s} :
       pc[t] = "commit" => ~Conflict(request[t].key, request[s].key)
  /\ Goto(s, "commit")
  /\ UNCHANGED <<table, redis, request, company, verification>>

CommitRegistration(s) ==
  /\ pc[s] = "commit"
  /\ companies' = Inserted(companies, request[s].key, "PENDING")
  /\ \E links \in SUBSET Documents :
       verifications' = Inserted(verifications, request[s].key,
         [status |-> "PENDING", curator_comment |-> "none", documents |-> links])
  /\ Goto(s, "forget")
  /\ UNCHANGED <<notice, redis, request, company, verification>>

(* The token is deleted when everything is committed. *)
ForgetToken(s) ==
  /\ pc[s] = "forget"
  /\ redis' = IF request[s].token = NoToken THEN redis
              ELSE [redis EXCEPT ![request[s].token] = NoToken]
  /\ Answer(s)
  /\ UNCHANGED table

-----------------------------------------------------------------------------
LoadCompany(s, r) ==
  /\ pc[s] = "idle"
  /\ r.key \in Registered
  /\ request' = [request EXCEPT ![s] = r]
  /\ company' = [company EXCEPT ![s] = companies[r.key]]
  /\ Goto(s, "get_latest_verification")
  /\ UNCHANGED <<table, redis, verification>>

(* Variant: documents are taken for an approved company as well. *)
SubmitDocuments_Always(s, k, D) ==
  LoadCompany(s, [op |-> "submit", key |-> k, sent |-> D])

(* Step 3. *)
SubmitDocuments(s, k, D) ==
  /\ LoadCompany(s, [op |-> "submit", key |-> k, sent |-> D])
  /\ companies[k] # "APPROVED"

(* The curator's decision: whatever the company's status is. *)
CuratorReview(s, k, verdict, comment) ==
  LoadCompany(s, [op |-> "review", key |-> k, verdict |-> verdict, comment |-> comment])

GetLatestVerification(s) ==
  /\ pc[s] = "get_latest_verification"
  /\ verification' = [verification EXCEPT ![s] = verifications[request[s].key]]
  /\ Goto(s, "write")
  /\ UNCHANGED <<table, redis, request, company>>

(* A column is written when the object's attribute has changed. *)
Column(new, was, inRow) == IF new = was THEN inRow ELSE new

Accumulated(was, sent) == was \cup sent

(* Variant: only the company goes back to PENDING. *)
DocumentsWritten_CompanyOnly(r, readStatus, was, row) ==
  [row EXCEPT !.documents = Column(Accumulated(was.documents, r.sent), was.documents, @)]

DocumentsWritten(r, readStatus, was, row) ==
  LET sent == Column(Accumulated(was.documents, r.sent), was.documents, row.documents) IN
  IF readStatus = "REJECTED"
  THEN [status          |-> Column("PENDING", was.status, row.status),
        curator_comment |-> Column("none", was.curator_comment, row.curator_comment),
        documents       |-> sent]
  ELSE [row EXCEPT !.documents = sent]

CommitDocuments(s) ==
  LET r == request[s] IN
  /\ pc[s] = "write" /\ r.op = "submit"
  /\ companies' =
       IF company[s] = "REJECTED" THEN [companies EXCEPT ![r.key] = "PENDING"]
       ELSE companies
  /\ verifications' = [verifications EXCEPT ![r.key] =
                         DocumentsWritten(r, company[s], verification[s], @)]
  /\ Answer(s)
  /\ UNCHANGED <<notice, redis>>

VerdictWritten(r, was, row) ==
  [row EXCEPT !.status          = Column(r.verdict, was.status, @),
              !.curator_comment = Column(r.comment, was.curator_comment, @)]

(* Variant: the owner is told of an approval only. *)
Notified_ApprovalOnly(r, last) == IF r.verdict = "APPROVED" THEN r.verdict ELSE last

Notified(r, last) == r.verdict

(* The verdict and the owner's notification, in one commit. *)
CommitVerdict(s) ==
  LET r == request[s] IN
  /\ pc[s] = "write" /\ r.op = "review"
  /\ companies' = [companies EXCEPT ![r.key] = Column(r.verdict, company[s], @)]
  /\ verifications' = [verifications EXCEPT ![r.key] = VerdictWritten(r, verification[s], @)]
  /\ notice' = [notice EXCEPT ![r.key] = Notified(r, @)]
  /\ Answer(s)
  /\ UNCHANGED redis

(* A refusal, a failure or a broken connection: nothing uncommitted stays. *)
RequestFails(s) ==
  /\ pc[s] # "idle"
  /\ Answer(s)
  /\ UNCHANGED <<table, redis>>

-----------------------------------------------------------------------------
Init ==
  /\ companies = [k \in {} |-> "PENDING"]
  /\ verifications = [k \in {} |-> NoRow]
  /\ notice = [k \in Key |-> "none"]
  /\ redis = [t \in Tokens |-> NoToken]
  /\ pc = [s \in Sessions |-> "idle"]
  /\ request = [s \in Sessions |-> NoRequest]
  /\ company = [s \in Sessions |-> NoRow]
  /\ verification = [s \in Sessions |-> NoRow]

Ask(s) ==
  \/ \E k \in Key, t \in Tokens \cup {NoToken} : RegisterCompany(s, k, t)
  \/ \E k \in Registered :
       \/ \E D \in SUBSET Documents : SubmitDocuments(s, k, D)
       \/ \E v \in Verdicts, c \in Comments : CuratorReview(s, k, v, c)

Serve(s) ==
  \/ GetByInn(s) \/ ResolveDadata(s) \/ InsertCompany(s)
  \/ CommitRegistration(s) \/ ForgetToken(s)
  \/ GetLatestVerification(s) \/ CommitDocuments(s) \/ CommitVerdict(s)
  \/ RequestFails(s)

Next ==
  \/ \E s \in Sessions : Ask(s) \/ Serve(s)
  \/ \E t \in Tokens : TokenExpires(t) \/ \E inn \in Inns : VerifyInn(inn, t)

Spec == Init /\ [][Next]_vars

-----------------------------------------------------------------------------
TypeOK ==
  /\ Registered \subseteq Key /\ companies \in [Registered -> VerificationStatus]
  /\ DOMAIN verifications \subseteq Key
  /\ verifications \in [DOMAIN verifications -> Verification]
  /\ notice \in [Key -> Verdicts \cup {"none"}]
  /\ redis \in [Tokens -> KnownInns \cup {NoToken}]
  /\ pc \in [Sessions -> {"idle", "get_by_inn", "resolve", "insert", "commit",
                          "forget", "get_latest_verification", "write"}]
  /\ request \in [Sessions -> Request \cup {NoRequest}]
  /\ company \in [Sessions -> VerificationStatus \cup {NoRow}]
  /\ verification \in [Sessions -> Verification \cup {NoRow}]

(* "Один пользователь с ролью EMPLOYER = одна компания", and one INN is    *)
(* registered once, whatever requests pass the two checks together and     *)
(* whichever of them share a token.                                        *)
OneCompanyPerOwnerAndInn ==
  \A j, k \in Registered : j # k => j.owner # k.owner /\ j.inn # k.inn

(* A registered company has an INN Dadata knows, though the session of     *)
(* step 1 may expire, or be spent by another request, at any moment.       *)
InnWasLookedUp == \A k \in Registered : k.inn \in KnownInns

(* No company without its verification: the curators' list is a join of    *)
(* the two, and every later step needs both.                               *)
RegisteredWithVerification == Registered = DOMAIN verifications

(* The owner is told of every verdict by the commit that makes it the      *)
(* company's status.                                                       *)
VerdictIsAnnounced ==
  [][\A k \in Registered :
       companies'[k] # companies[k] /\ companies'[k] \in Verdicts =>
         notice'[k] = companies'[k]]_vars

(* With one request at a time the two records of a company's status agree, *)
(* a decided company is what its owner was last told, and a company that   *)
(* waits for a decision shows no comment of an old one.                    *)
StatusesAgree ==
  \A k \in Registered :
    /\ companies[k] = verifications[k].status
    /\ companies[k] \in Verdicts => notice[k] = companies[k]
    /\ companies[k] = "PENDING" => verifications[k].curator_comment = "none"

(* Applied one request at a time, the two tables, the notices and the      *)
(* several steps of a request implement the flow that is documented for    *)
(* them: one record per company, moved in single steps.                    *)
Lifecycle == INSTANCE VerificationLifecycle WITH
  Companies <- Key,
  dossier <- [k \in Key |->
    [status    |-> IF k \in Registered THEN companies[k] ELSE "NONE",
     comment   |-> IF k \in Registered THEN verifications[k].curator_comment ELSE "none",
     documents |-> IF k \in Registered THEN verifications[k].documents ELSE {},
     told      |-> notice[k]]]

FollowsVerificationLifecycle == Lifecycle!Spec
=============================================================================
