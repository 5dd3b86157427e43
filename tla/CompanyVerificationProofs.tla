---------------------- MODULE CompanyVerificationProofs ----------------------
(***************************************************************************)
(* Proofs about CompanyVerification, for any number of employers, INNs,    *)
(* tokens, documents and requests at a time.                               *)
(*                                                                         *)
(* The unique keys alone do not give the result: what is inductive is that *)
(* an INSERT that has been flushed holds its owner and its INN against     *)
(* every row and every other flushed INSERT (InProgress).                  *)
(***************************************************************************)
EXTENDS CompanyVerification, TLAPS

(* What a request that is being served may rely on.                        *)
Served(s) ==
  /\ pc[s] # "idle" => request[s] \in Request
  /\ pc[s] \in {"get_by_inn", "resolve", "insert", "commit", "forget"} =>
       request[s].op = "register"
  /\ pc[s] \in {"get_latest_verification", "write"} =>
       /\ request[s].op \in {"submit", "review"}
       /\ request[s].key \in Registered
       /\ company[s] \in VerificationStatus
  /\ pc[s] = "write" => verification[s] \in Verification
  /\ pc[s] \in {"insert", "commit"} => request[s].key.inn \in KnownInns

(* A flushed INSERT has its owner and its INN to itself.                   *)
HoldsItsKey(s) ==
  pc[s] = "commit" =>
    /\ \A j \in Registered : ~Conflict(j, request[s].key)
    /\ \A t \in Sessions \ {s} :
         pc[t] = "commit" => ~Conflict(request[t].key, request[s].key)

InProgress == \A s \in Sessions : Served(s) /\ HoldsItsKey(s)

IInv ==
  /\ TypeOK
  /\ RegisteredWithVerification
  /\ OneCompanyPerOwnerAndInn
  /\ InnWasLookedUp
  /\ InProgress

(* No company, no request: everything holds.                               *)
LEMMA InitIInv == Init => IInv
<1> SUFFICES ASSUME Init PROVE IInv
  OBVIOUS
<1>1. Registered = {} /\ DOMAIN verifications = {}
  BY DEF Init, Registered
<1>2. TypeOK
  BY <1>1 DEF Init, TypeOK, Key
<1>3. InProgress
  BY DEF Init, InProgress, Served, HoldsItsKey
<1> QED
  BY <1>1, <1>2, <1>3 DEF IInv, RegisteredWithVerification,
     OneCompanyPerOwnerAndInn, InnWasLookedUp

(* What the other sessions rely on is not disturbed by one that changes    *)
(* its own state and registers nothing.                                    *)
LEMMA OtherSessions ==
  ASSUME IInv, NEW s \in Sessions,
         DOMAIN companies' = DOMAIN companies,
         \A t \in Sessions \ {s} :
           /\ pc'[t] = pc[t] /\ request'[t] = request[t]
           /\ company'[t] = company[t] /\ verification'[t] = verification[t],
         Served(s)', HoldsItsKey(s)'
  PROVE  InProgress'
<1> SUFFICES ASSUME NEW t \in Sessions PROVE Served(t)' /\ HoldsItsKey(t)'
  BY DEF InProgress
<1>1. CASE t = s
  BY <1>1
<1>2. CASE t # s
  <2>1. Served(t)'
    BY <1>2 DEF IInv, InProgress, Served, Registered
  <2>2. HoldsItsKey(t)'
    BY <1>2 DEF IInv, InProgress, HoldsItsKey, Registered, Conflict
  <2> QED
    BY <2>1, <2>2
<1> QED
  BY <1>1, <1>2

(* A request that ends without touching a table.                           *)
LEMMA AnswerKeepsIInv ==
  ASSUME IInv, NEW s \in Sessions, Answer(s), UNCHANGED table,
         redis' \in [Tokens -> KnownInns \cup {NoToken}]
  PROVE  IInv'
<1>1. pc'[s] = "idle"
  BY DEF Answer, Goto, IInv, TypeOK
<1>2. TypeOK'
  BY DEF Answer, Goto, IInv, TypeOK, table, Registered
<1>3. Served(s)' /\ HoldsItsKey(s)'
  BY <1>1 DEF Served, HoldsItsKey
<1>4. InProgress'
  BY <1>3, OtherSessions DEF Answer, Goto, IInv, TypeOK, table
<1> QED
  BY <1>2, <1>4 DEF IInv, table, RegisteredWithVerification,
     OneCompanyPerOwnerAndInn, InnWasLookedUp, Registered

(* A request that goes on without touching a table.                        *)
LEMMA GoOnKeepsIInv ==
  ASSUME IInv, NEW s \in Sessions, UNCHANGED <<table, redis>>,
         pc' \in [Sessions -> {"idle", "get_by_inn", "resolve", "insert", "commit",
                              "forget", "get_latest_verification", "write"}],
         request' \in [Sessions -> Request \cup {NoRequest}],
         company' \in [Sessions -> VerificationStatus \cup {NoRow}],
         verification' \in [Sessions -> Verification \cup {NoRow}],
         \A t \in Sessions \ {s} :
           /\ pc'[t] = pc[t] /\ request'[t] = request[t]
           /\ company'[t] = company[t] /\ verification'[t] = verification[t],
         Served(s)', HoldsItsKey(s)'
  PROVE  IInv'
<1>1. TypeOK'
  BY DEF IInv, TypeOK, table, Registered
<1>2. InProgress'
  BY OtherSessions DEF table
<1> QED
  BY <1>1, <1>2 DEF IInv, table, RegisteredWithVerification,
     OneCompanyPerOwnerAndInn, InnWasLookedUp, Registered

(* The session tokens: nothing else depends on which are still there.      *)
LEMMA TokensKeepIInv ==
  ASSUME IInv, UNCHANGED <<table, session>>,
         redis' \in [Tokens -> KnownInns \cup {NoToken}]
  PROVE  IInv'
<1>1. TypeOK'
  BY DEF IInv, TypeOK, table, session, Registered
<1>2. InProgress'
  BY DEF IInv, InProgress, Served, HoldsItsKey, table, session, Registered
<1> QED
  BY <1>1, <1>2 DEF IInv, table, RegisteredWithVerification,
     OneCompanyPerOwnerAndInn, InnWasLookedUp, Registered

-----------------------------------------------------------------------------
(* Step 1 and the expiry of its token.                                     *)
LEMMA TokenStepsKeepIInv ==
  ASSUME IInv, NEW t \in Tokens,
         TokenExpires(t) \/ \E inn \in Inns : VerifyInn(inn, t)
  PROVE  IInv'
<1>1. redis' \in [Tokens -> KnownInns \cup {NoToken}]
  BY DEF IInv, TypeOK, TokenExpires, VerifyInn
<1>2. UNCHANGED <<table, session>>
  BY DEF TokenExpires, VerifyInn
<1> QED
  BY <1>1, <1>2, TokensKeepIInv

(* The look-ups of step 2: the request comes to hold an INN Dadata knows.  *)
LEMMA LookUpsKeepIInv ==
  ASSUME IInv, NEW s \in Sessions,
         \/ \E k \in Key, t \in Tokens \cup {NoToken} : RegisterCompany(s, k, t)
         \/ GetByInn(s) \/ ResolveDadata(s)
  PROVE  IInv'
<1>1. CASE \E k \in Key, t \in Tokens \cup {NoToken} : RegisterCompany(s, k, t)
  <2> PICK k \in Key, t \in Tokens \cup {NoToken} : RegisterCompany(s, k, t)
    BY <1>1
  <2> DEFINE r == [op |-> "register", key |-> k, token |-> t]
  <2>1. r \in Request
    BY DEF Request
  <2>2. pc'[s] = "get_by_inn" /\ request'[s] = r
    BY DEF RegisterCompany, Goto, IInv, TypeOK
  <2>3. Served(s)' /\ HoldsItsKey(s)'
    BY <2>1, <2>2 DEF Served, HoldsItsKey
  <2> QED
    BY <2>1, <2>3, GoOnKeepsIInv DEF RegisterCompany, Goto, IInv, TypeOK
<1>2. CASE GetByInn(s)
  <2>1. pc'[s] = "resolve" /\ request' = request
    BY <1>2 DEF GetByInn, Goto, IInv, TypeOK
  <2>2. Served(s)' /\ HoldsItsKey(s)'
    BY <1>2, <2>1 DEF GetByInn, IInv, InProgress, Served, HoldsItsKey
  <2> QED
    BY <1>2, <2>2, GoOnKeepsIInv DEF GetByInn, Goto, IInv, TypeOK
<1>3. CASE ResolveDadata(s)
  <2>1. pc'[s] = "insert" /\ request' = request
    BY <1>3 DEF ResolveDadata, Goto, IInv, TypeOK
  <2>2. /\ request[s] \in Request /\ request[s].op = "register"
        /\ request[s].token \in Tokens \cup {NoToken}
    BY <1>3 DEF ResolveDadata, IInv, InProgress, Served, Request
  <2>3. request[s].key.inn \in KnownInns
    BY <1>3, <2>2 DEF ResolveDadata, Resolved, IInv, TypeOK
  <2>4. Served(s)' /\ HoldsItsKey(s)'
    BY <2>1, <2>2, <2>3 DEF Served, HoldsItsKey
  <2> QED
    BY <1>3, <2>4, GoOnKeepsIInv DEF ResolveDadata, Goto, IInv, TypeOK
<1> QED
  BY <1>1, <1>2, <1>3

(* The flushed INSERT takes its owner and its INN.                         *)
LEMMA InsertKeepsIInv ==
  ASSUME IInv, NEW s \in Sessions, InsertCompany(s)
  PROVE  IInv'
<1>1. pc'[s] = "commit" /\ request' = request /\ UNCHANGED table
  BY DEF InsertCompany, Goto, IInv, TypeOK
<1>2. Served(s)'
  BY <1>1 DEF InsertCompany, IInv, InProgress, Served
<1>3. HoldsItsKey(s)'
  BY <1>1 DEF InsertCompany, Goto, IInv, TypeOK, HoldsItsKey, table, Registered
<1> QED
  BY <1>2, <1>3, GoOnKeepsIInv DEF InsertCompany, Goto, IInv, TypeOK

(* The commit adds the company and its verification.                       *)
LEMMA CommitRegistrationKeepsIInv ==
  ASSUME IInv, NEW s \in Sessions, CommitRegistration(s)
  PROVE  IInv'
<1> DEFINE k == request[s].key
<1>1. pc[s] = "commit" /\ request[s] \in Request /\ k \in Key /\ k.inn \in KnownInns
  BY DEF CommitRegistration, IInv, InProgress, Served, Request
<1>2. /\ \A j \in Registered : ~Conflict(j, k)
      /\ \A t \in Sessions \ {s} : pc[t] = "commit" => ~Conflict(request[t].key, k)
  BY <1>1 DEF IInv, InProgress, HoldsItsKey
<1>3. companies' = Inserted(companies, k, "PENDING")
  BY DEF CommitRegistration
<1>4. PICK links \in SUBSET Documents :
        verifications' = Inserted(verifications, k,
          [status |-> "PENDING", curator_comment |-> "none", documents |-> links])
  BY DEF CommitRegistration
<1>5. /\ Registered' = Registered \cup {k}
      /\ DOMAIN verifications' = DOMAIN verifications \cup {k}
  <2>1. Registered' = Registered \cup {k}
    BY <1>3 DEF Inserted, Registered
  <2>2. DOMAIN verifications' = DOMAIN verifications \cup {k}
    BY <1>4 DEF Inserted
  <2> QED
    BY <2>1, <2>2
<1>6. companies' \in [Registered' -> VerificationStatus]
  BY <1>3 DEF Inserted, IInv, TypeOK, Registered, VerificationStatus
<1>7. verifications' \in [DOMAIN verifications' -> Verification]
  <2>1. [status |-> "PENDING", curator_comment |-> "none", documents |-> links] \in Verification
    BY DEF Verification, VerificationStatus, Comments
  <2> QED
    BY <1>4, <2>1 DEF Inserted, IInv, TypeOK
<1>8. pc' = [pc EXCEPT ![s] = "forget"] /\ UNCHANGED <<notice, redis, request, company, verification>>
  BY DEF CommitRegistration, Goto
<1>9. TypeOK'
  BY <1>1, <1>5, <1>6, <1>7, <1>8 DEF IInv, TypeOK
<1>10. InProgress'
  <2> SUFFICES ASSUME NEW t \in Sessions PROVE Served(t)' /\ HoldsItsKey(t)'
    BY DEF InProgress
  <2>1. CASE t = s
    BY <1>1, <1>8, <2>1 DEF Served, HoldsItsKey, IInv, InProgress, TypeOK
  <2>2. CASE t # s
    <3>1. pc'[t] = pc[t]
      BY <1>8, <2>2 DEF IInv, TypeOK
    <3>2. Served(t)'
      BY <1>5, <1>8, <3>1 DEF IInv, InProgress, Served
    <3>3. HoldsItsKey(t)'
      BY <1>1, <1>2, <1>5, <1>8, <2>2, <3>1 DEF IInv, TypeOK, InProgress, HoldsItsKey, Conflict
    <3> QED
      BY <3>2, <3>3
  <2> QED
    BY <2>1, <2>2
<1>11. OneCompanyPerOwnerAndInn'
  BY <1>2, <1>5 DEF IInv, OneCompanyPerOwnerAndInn, Conflict
<1> QED
  BY <1>1, <1>5, <1>9, <1>10, <1>11 DEF IInv, RegisteredWithVerification, InnWasLookedUp

(* Documents and verdicts: the two reads.                                  *)
LEMMA ReadsKeepIInv ==
  ASSUME IInv, NEW s \in Sessions,
         \/ \E r \in Request : r.op \in {"submit", "review"} /\ LoadCompany(s, r)
         \/ GetLatestVerification(s)
  PROVE  IInv'
<1>1. CASE \E r \in Request : r.op \in {"submit", "review"} /\ LoadCompany(s, r)
  <2> PICK r \in Request : r.op \in {"submit", "review"} /\ LoadCompany(s, r)
    BY <1>1
  <2>1. /\ pc'[s] = "get_latest_verification" /\ request'[s] = r
        /\ company'[s] \in VerificationStatus
        /\ r.key \in Registered /\ Registered' = Registered
    BY DEF LoadCompany, Goto, IInv, TypeOK, table, Registered
  <2>2. Served(s)' /\ HoldsItsKey(s)'
    BY <2>1 DEF Served, HoldsItsKey
  <2> QED
    BY <2>1, <2>2, GoOnKeepsIInv DEF LoadCompany, Goto, IInv, TypeOK
<1>2. CASE GetLatestVerification(s)
  <2>1. /\ pc'[s] = "write" /\ request' = request /\ company' = company
        /\ Registered' = Registered
    BY <1>2 DEF GetLatestVerification, Goto, IInv, TypeOK, table, Registered
  <2>2. request[s].key \in DOMAIN verifications
    BY <1>2 DEF GetLatestVerification, IInv, InProgress, Served, RegisteredWithVerification
  <2>3. verification'[s] \in Verification
    BY <1>2, <2>2 DEF GetLatestVerification, IInv, TypeOK
  <2>4. Served(s)' /\ HoldsItsKey(s)'
    BY <1>2, <2>1, <2>3 DEF GetLatestVerification, IInv, InProgress, Served, HoldsItsKey
  <2> QED
    BY <1>2, <2>3, <2>4, GoOnKeepsIInv DEF GetLatestVerification, Goto, IInv, TypeOK
<1> QED
  BY <1>1, <1>2

(* An UPDATE of a registered company and its verification, which ends the  *)
(* request.                                                                *)
LEMMA UpdateKeepsIInv ==
  ASSUME IInv, NEW s \in Sessions, Answer(s), UNCHANGED redis,
         companies' \in [Registered -> VerificationStatus],
         verifications' \in [DOMAIN verifications -> Verification],
         notice' \in [Key -> Verdicts \cup {"none"}]
  PROVE  IInv'
<1>1. Registered' = Registered /\ DOMAIN verifications' = DOMAIN verifications
  BY DEF Registered
<1>2. TypeOK'
  BY <1>1 DEF Answer, Goto, IInv, TypeOK
<1>3. Served(s)' /\ HoldsItsKey(s)'
  BY DEF Answer, Goto, IInv, TypeOK, Served, HoldsItsKey
<1>4. InProgress'
  BY <1>1, <1>3, OtherSessions DEF Answer, Goto, IInv, TypeOK, Registered
<1> QED
  BY <1>1, <1>2, <1>4 DEF IInv, RegisteredWithVerification,
     OneCompanyPerOwnerAndInn, InnWasLookedUp

LEMMA CommitsKeepIInv ==
  ASSUME IInv, NEW s \in Sessions, CommitDocuments(s) \/ CommitVerdict(s)
  PROVE  IInv'
<1> DEFINE r == request[s]
           k == r.key
<1>1. /\ r \in Request /\ k \in Registered /\ company[s] \in VerificationStatus
      /\ verification[s] \in Verification
  BY DEF CommitDocuments, CommitVerdict, IInv, InProgress, Served
<1>2. k \in DOMAIN verifications /\ verifications[k] \in Verification
  BY <1>1 DEF IInv, TypeOK, RegisteredWithVerification
<1>3. CASE CommitDocuments(s)
  <2>1. r.op = "submit" /\ r.sent \in SUBSET Documents
    BY <1>1, <1>3 DEF CommitDocuments, Request
  <2>2. Accumulated(verification[s].documents, r.sent) \in SUBSET Documents
    BY <1>1, <2>1 DEF Accumulated, Verification
  <2>3. DocumentsWritten(r, company[s], verification[s], verifications[k]) \in Verification
    BY <1>1, <1>2, <2>2 DEF DocumentsWritten, Column, Verification, VerificationStatus, Comments
  <2>4. verifications' \in [DOMAIN verifications -> Verification]
    BY <1>3, <2>3 DEF CommitDocuments, IInv, TypeOK
  <2>5. companies' \in [Registered -> VerificationStatus]
    BY <1>3 DEF CommitDocuments, IInv, TypeOK, VerificationStatus
  <2> QED
    BY <1>3, <2>4, <2>5, UpdateKeepsIInv DEF CommitDocuments, IInv, TypeOK
<1>4. CASE CommitVerdict(s)
  <2>1. r.op = "review" /\ r.verdict \in Verdicts /\ r.comment \in Comments
    BY <1>1, <1>4 DEF CommitVerdict, Request
  <2>2. VerdictWritten(r, verification[s], verifications[k]) \in Verification
    BY <1>1, <1>2, <2>1 DEF VerdictWritten, Column, Verification, VerificationStatus, Verdicts
  <2>3. verifications' \in [DOMAIN verifications -> Verification]
    BY <1>4, <2>2 DEF CommitVerdict, IInv, TypeOK
  <2>4. companies' \in [Registered -> VerificationStatus]
    BY <1>1, <1>4, <2>1 DEF CommitVerdict, Column, IInv, TypeOK, VerificationStatus, Verdicts
  <2>5. notice' \in [Key -> Verdicts \cup {"none"}]
    BY <1>4, <2>1 DEF CommitVerdict, Notified, IInv, TypeOK
  <2> QED
    BY <1>4, <2>3, <2>4, <2>5, UpdateKeepsIInv DEF CommitVerdict
<1> QED
  BY <1>3, <1>4

(* What the employer and the curators send is a request.                   *)
LEMMA AskKeepsIInv ==
  ASSUME IInv, NEW s \in Sessions, Ask(s)
  PROVE  IInv'
<1>1. CASE \E k \in Key, t \in Tokens \cup {NoToken} : RegisterCompany(s, k, t)
  BY <1>1, LookUpsKeepIInv
<1>2. ASSUME NEW k \in Registered, NEW D \in SUBSET Documents, SubmitDocuments(s, k, D)
      PROVE  IInv'
  <2>1. [op |-> "submit", key |-> k, sent |-> D] \in Request
    BY <1>2 DEF Request, IInv, TypeOK
  <2> QED
    BY <1>2, <2>1, ReadsKeepIInv DEF SubmitDocuments
<1>3. ASSUME NEW k \in Registered, NEW v \in Verdicts, NEW c \in Comments,
             CuratorReview(s, k, v, c)
      PROVE  IInv'
  <2>1. [op |-> "review", key |-> k, verdict |-> v, comment |-> c] \in Request
    BY <1>3 DEF Request, IInv, TypeOK
  <2> QED
    BY <1>3, <2>1, ReadsKeepIInv DEF CuratorReview
<1> QED
  BY <1>1, <1>2, <1>3 DEF Ask

LEMMA ServeKeepsIInv ==
  ASSUME IInv, NEW s \in Sessions, Serve(s)
  PROVE  IInv'
<1>1. CASE GetByInn(s) \/ ResolveDadata(s)
  BY <1>1, LookUpsKeepIInv
<1>2. CASE ForgetToken(s)
  <2>1. redis' \in [Tokens -> KnownInns \cup {NoToken}]
    BY <1>2 DEF ForgetToken, IInv, TypeOK
  <2> QED
    BY <1>2, <2>1, AnswerKeepsIInv DEF ForgetToken
<1>3. CASE RequestFails(s)
  BY <1>3, AnswerKeepsIInv DEF RequestFails, IInv, TypeOK
<1> QED
  BY <1>1, <1>2, <1>3, InsertKeepsIInv, CommitRegistrationKeepsIInv,
     ReadsKeepIInv, CommitsKeepIInv DEF Serve

LEMMA NextIInv == IInv /\ [Next]_vars => IInv'
<1> SUFFICES ASSUME IInv, [Next]_vars PROVE IInv'
  OBVIOUS
<1>1. CASE \E s \in Sessions : Ask(s) \/ Serve(s)
  BY <1>1, AskKeepsIInv, ServeKeepsIInv
<1>2. CASE \E t \in Tokens : TokenExpires(t) \/ \E inn \in Inns : VerifyInn(inn, t)
  BY <1>2, TokenStepsKeepIInv
<1>3. CASE UNCHANGED vars
  BY <1>3, TokensKeepIInv DEF vars, IInv, TypeOK
<1> QED
  BY <1>1, <1>2, <1>3 DEF Next

-----------------------------------------------------------------------------
(* The invariant that carries the others: what each request in progress    *)
(* may rely on, together with the facts about the tables.                  *)
THEOREM Invariance == Spec => []IInv
BY InitIInv, NextIInv, PTL DEF Spec

(* Types, for any constants. *)
THEOREM TypeCorrect == Spec => []TypeOK
<1>1. IInv => TypeOK
  BY DEF IInv
<1> QED
  BY <1>1, Invariance, PTL

(* One company per employer and per INN, however many registrations race.  *)
THEOREM Uniqueness == Spec => []OneCompanyPerOwnerAndInn
<1>1. IInv => OneCompanyPerOwnerAndInn
  BY DEF IInv
<1> QED
  BY <1>1, Invariance, PTL

(* No INN gets registered that Dadata does not know.                       *)
THEOREM LookedUp == Spec => []InnWasLookedUp
<1>1. IInv => InnWasLookedUp
  BY DEF IInv
<1> QED
  BY <1>1, Invariance, PTL

(* A company and its verification become durable together.                 *)
THEOREM RegistrationIsAtomic == Spec => []RegisteredWithVerification
<1>1. IInv => RegisteredWithVerification
  BY DEF IInv
<1> QED
  BY <1>1, Invariance, PTL

(* Only a curator's commit moves a company to a verdict, and it tells the  *)
(* owner.                                                                  *)
LEMMA VerdictStep ==
  ASSUME IInv, [Next]_vars, NEW k \in Registered,
         companies'[k] # companies[k], companies'[k] \in Verdicts
  PROVE  notice'[k] = companies'[k]
<1>1. ~ UNCHANGED companies
  OBVIOUS
<1>2. PICK s \in Sessions : CommitRegistration(s) \/ CommitDocuments(s) \/ CommitVerdict(s)
  BY <1>1 DEF Next, vars, table, Ask, Serve, RegisterCompany, GetByInn, ResolveDadata,
     InsertCompany, ForgetToken, LoadCompany, SubmitDocuments, CuratorReview,
     GetLatestVerification, RequestFails, TokenExpires, VerifyInn
<1>3. ~ CommitRegistration(s)
  <2> SUFFICES ASSUME CommitRegistration(s) PROVE FALSE
    OBVIOUS
  <2>1. k # request[s].key
    BY DEF CommitRegistration, IInv, InProgress, HoldsItsKey, Conflict
  <2> QED
    BY <2>1 DEF CommitRegistration, Inserted, Registered
<1>4. ~ CommitDocuments(s)
  BY DEF CommitDocuments, Verdicts, IInv, TypeOK, Registered
<1>5. CommitVerdict(s)
  BY <1>2, <1>3, <1>4
<1>6. /\ request[s] \in Request /\ request[s].op = "review"
      /\ request[s].key \in Key
  BY <1>5 DEF CommitVerdict, IInv, InProgress, Served, Request
<1>7. k = request[s].key /\ companies'[k] = request[s].verdict
  BY <1>5 DEF CommitVerdict, Column, IInv, TypeOK, Registered
<1> QED
  BY <1>5, <1>6, <1>7 DEF CommitVerdict, Notified, IInv, TypeOK

(* The owner is told of every verdict by the commit that makes it. *)
THEOREM Announced == Spec => VerdictIsAnnounced
<1>1. IInv /\ [Next]_vars =>
        [\A k \in Registered :
           companies'[k] # companies[k] /\ companies'[k] \in Verdicts =>
             notice'[k] = companies'[k]]_vars
  BY VerdictStep
<1> QED
  BY <1>1, Invariance, PTL DEF Spec, VerdictIsAnnounced

-----------------------------------------------------------------------------
(* With one request at a time, what it has read is still what is stored    *)
(* when it writes, and documents are not taken for an approved company.    *)
CopiesHold ==
  \A s \in Sessions : pc[s] \in {"get_latest_verification", "write"} =>
    /\ company[s] = companies[request[s].key]
    /\ pc[s] = "write" => verification[s] = verifications[request[s].key]
    /\ request[s].op = "submit" => company[s] # "APPROVED"

(* Three commits write the tables. *)
LEMMA TableSteps ==
  ASSUME NEW s, Sessions = {s}, [Next]_vars
  PROVE  \/ UNCHANGED table
         \/ CommitRegistration(s) \/ CommitDocuments(s) \/ CommitVerdict(s)
BY DEF Next, vars, Ask, Serve, RegisterCompany, GetByInn, ResolveDadata,
   InsertCompany, ForgetToken, LoadCompany, SubmitDocuments, CuratorReview,
   GetLatestVerification, RequestFails, TokenExpires, VerifyInn

LEMMA AloneKeepsCopies ==
  ASSUME NEW s, Sessions = {s}, IInv, CopiesHold, [Next]_vars
  PROVE  CopiesHold'
<1> DEFINE Copies == pc[s] \in {"get_latest_verification", "write"} =>
             /\ company[s] = companies[request[s].key]
             /\ pc[s] = "write" => verification[s] = verifications[request[s].key]
             /\ request[s].op = "submit" => company[s] # "APPROVED"
<1> SUFFICES Copies'
  BY DEF CopiesHold
<1>0. Copies /\ TypeOK
  BY DEF CopiesHold, IInv
<1>1. ASSUME pc'[s] \notin {"get_latest_verification", "write"} PROVE Copies'
  BY <1>1
<1>2. CASE \E r \in Request : LoadCompany(s, r) /\ (r.op = "submit" => companies[r.key] # "APPROVED")
  BY <1>0, <1>2 DEF LoadCompany, Goto, TypeOK, table
<1>3. CASE GetLatestVerification(s)
  BY <1>0, <1>3 DEF GetLatestVerification, Goto, TypeOK, table
<1>4. ASSUME Answer(s) PROVE Copies'
  BY <1>0, <1>1, <1>4 DEF Answer, Goto, TypeOK
<1>5. CASE Ask(s)
  <2>1. CASE \E k \in Key, t \in Tokens \cup {NoToken} : RegisterCompany(s, k, t)
    BY <1>0, <1>1, <2>1 DEF RegisterCompany, Goto, TypeOK
  <2>2. ASSUME NEW k \in Registered, NEW D \in SUBSET Documents, SubmitDocuments(s, k, D)
        PROVE  Copies'
    <3>1. [op |-> "submit", key |-> k, sent |-> D] \in Request
      BY <1>0 DEF Request, TypeOK
    <3> QED
      BY <1>2, <2>2, <3>1 DEF SubmitDocuments
  <2>3. ASSUME NEW k \in Registered, NEW v \in Verdicts, NEW c \in Comments,
               CuratorReview(s, k, v, c)
        PROVE  Copies'
    <3>1. [op |-> "review", key |-> k, verdict |-> v, comment |-> c] \in Request
      BY <1>0 DEF Request, TypeOK
    <3> QED
      BY <1>2, <2>3, <3>1 DEF CuratorReview
  <2> QED
    BY <1>5, <2>1, <2>2, <2>3 DEF Ask
<1>6. CASE GetByInn(s) \/ ResolveDadata(s) \/ InsertCompany(s) \/ CommitRegistration(s)
  BY <1>0, <1>1, <1>6 DEF GetByInn, ResolveDadata, InsertCompany, CommitRegistration, Goto, TypeOK
<1>7. CASE ForgetToken(s) \/ CommitDocuments(s) \/ CommitVerdict(s) \/ RequestFails(s)
  BY <1>4, <1>7 DEF ForgetToken, CommitDocuments, CommitVerdict, RequestFails
<1>8. CASE UNCHANGED <<table, session>>
  BY <1>0, <1>8 DEF table, session
<1> QED
  BY <1>3, <1>5, <1>6, <1>7, <1>8 DEF Next, Serve, vars, TokenExpires, VerifyInn

(* What a registration commits is a company that was not there.            *)
LEMMA AloneKeepsStatuses ==
  ASSUME NEW s, Sessions = {s}, IInv, CopiesHold, StatusesAgree, [Next]_vars
  PROVE  StatusesAgree'
<1> DEFINE r == request[s]
           Agree(k) == /\ companies[k] = verifications[k].status
                       /\ companies[k] \in Verdicts => notice[k] = companies[k]
                       /\ companies[k] = "PENDING" => verifications[k].curator_comment = "none"
<1>0. /\ TypeOK /\ \A k \in Registered : Agree(k)
      /\ Registered = DOMAIN verifications
  BY DEF IInv, StatusesAgree, RegisteredWithVerification
<1>1. CASE UNCHANGED table
  BY <1>0, <1>1 DEF StatusesAgree, table, Registered
<1>2. CASE CommitRegistration(s)
  <2>1. PICK links \in SUBSET Documents :
          verifications' = Inserted(verifications, r.key,
            [status |-> "PENDING", curator_comment |-> "none", documents |-> links])
    BY <1>2 DEF CommitRegistration
  <2>2. companies' = Inserted(companies, r.key, "PENDING") /\ notice' = notice
    BY <1>2 DEF CommitRegistration
  <2> QED
    BY <1>0, <2>1, <2>2 DEF StatusesAgree, Inserted, Registered, Verdicts
<1>3. CASE CommitDocuments(s)
  <2>1. /\ r \in Request /\ r.op = "submit" /\ r.key \in Registered
        /\ company[s] = companies[r.key] /\ verification[s] = verifications[r.key]
        /\ company[s] \in {"PENDING", "REJECTED"}
    BY <1>0, <1>3 DEF CommitDocuments, CopiesHold, IInv, InProgress, Served, TypeOK,
       VerificationStatus
  <2>2. /\ companies' = IF company[s] = "REJECTED" THEN [companies EXCEPT ![r.key] = "PENDING"]
                        ELSE companies
        /\ verifications' = [verifications EXCEPT ![r.key] =
             DocumentsWritten(r, company[s], verification[s], verifications[r.key])]
        /\ notice' = notice
    BY <1>3 DEF CommitDocuments
  <2>3. verifications[r.key] \in Verification
    BY <1>0, <2>1 DEF TypeOK
  <2> DEFINE new == DocumentsWritten(r, company[s], verification[s], verifications[r.key])
  <2>4. /\ company[s] = "REJECTED" => new.status = "PENDING" /\ new.curator_comment = "none"
        /\ company[s] = "PENDING" =>
             /\ new.status = verifications[r.key].status
             /\ new.curator_comment = verifications[r.key].curator_comment
    BY <2>1, <2>3 DEF DocumentsWritten, Column, Verification
  <2>5. \A k \in Registered \ {r.key} :
          companies'[k] = companies[k] /\ verifications'[k] = verifications[k]
    BY <1>0, <2>1, <2>2 DEF TypeOK
  <2>6. /\ Registered' = Registered /\ verifications'[r.key] = new
        /\ companies'[r.key] = "PENDING"
    BY <1>0, <2>1, <2>2 DEF TypeOK, Registered
  <2>7. new.status = "PENDING" /\ new.curator_comment = "none"
    BY <1>0, <2>1, <2>4
  <2>8. ASSUME NEW k \in Registered PROVE Agree(k)'
    BY <1>0, <2>2, <2>5, <2>6, <2>7 DEF Verdicts
  <2> QED
    BY <2>6, <2>8 DEF StatusesAgree
<1>4. CASE CommitVerdict(s)
  <2>1. /\ r \in Request /\ r.op = "review" /\ r.key \in Registered
        /\ company[s] = companies[r.key] /\ verification[s] = verifications[r.key]
    BY <1>4 DEF CommitVerdict, CopiesHold, IInv, InProgress, Served
  <2>2. /\ companies' = [companies EXCEPT ![r.key] = Column(r.verdict, company[s], @)]
        /\ verifications' = [verifications EXCEPT ![r.key] =
             VerdictWritten(r, verification[s], @)]
        /\ notice' = [notice EXCEPT ![r.key] = r.verdict]
    BY <1>4 DEF CommitVerdict, Notified
  <2>3. verifications[r.key] \in Verification /\ r.verdict \in Verdicts /\ r.key \in Key
    BY <1>0, <2>1 DEF TypeOK, Request
  <2>4. /\ Registered' = Registered
        /\ companies'[r.key] = r.verdict /\ notice'[r.key] = r.verdict
        /\ verifications'[r.key].status = r.verdict
    BY <1>0, <2>1, <2>2, <2>3 DEF TypeOK, Registered, Column, VerdictWritten, Verification
  <2>5. \A k \in Registered \ {r.key} :
          /\ companies'[k] = companies[k] /\ verifications'[k] = verifications[k]
          /\ notice'[k] = notice[k]
    BY <1>0, <2>1, <2>2 DEF TypeOK
  <2>6. ASSUME NEW k \in Registered PROVE Agree(k)'
    BY <1>0, <2>3, <2>4, <2>5 DEF Verdicts
  <2> QED
    BY <2>4, <2>6 DEF StatusesAgree
<1> QED
  BY <1>1, <1>2, <1>3, <1>4, TableSteps

LEMMA InitAlone == Init => CopiesHold /\ StatusesAgree
BY DEF Init, CopiesHold, StatusesAgree, Registered

(* One request at a time: the two records of a company's status, and what  *)
(* its owner was told, never part.                                         *)
THEOREM AloneStatusesAgree ==
  ASSUME NEW s, Sessions = {s}
  PROVE  Spec => []StatusesAgree
<1>1. IInv /\ CopiesHold /\ StatusesAgree /\ [Next]_vars => (CopiesHold /\ StatusesAgree)'
  BY AloneKeepsCopies, AloneKeepsStatuses
<1> QED
  BY <1>1, InitAlone, Invariance, PTL DEF Spec

-----------------------------------------------------------------------------
(* The refinement.  What the documented flow sees of company k.            *)
Shown(k) ==
  [status    |-> IF k \in Registered THEN companies[k] ELSE "NONE",
   comment   |-> IF k \in Registered THEN verifications[k].curator_comment ELSE "none",
   documents |-> IF k \in Registered THEN verifications[k].documents ELSE {},
   told      |-> notice[k]]

(* Tables that stay as they are show what they showed. *)
LEMMA SameTableStutters ==
  ASSUME UNCHANGED table
  PROVE  UNCHANGED [k \in Key |-> Shown(k)]
BY DEF Shown, table, Registered

LEMMA AloneStepsFollow ==
  ASSUME NEW s, Sessions = {s}, IInv, CopiesHold, StatusesAgree, [Next]_vars
  PROVE  [Lifecycle!Next]_([k \in Key |-> Shown(k)])
<1> DEFINE r == request[s]
           d == [k \in Key |-> Shown(k)]
<1>0. /\ TypeOK /\ Registered \subseteq Key
      /\ Registered = DOMAIN verifications
      /\ \A j \in Registered : verifications[j] \in Verification
  BY DEF IInv, TypeOK, RegisteredWithVerification
<1>1. ASSUME NEW k \in Key, NEW new, Shown(k)' = new,
             \A j \in Key \ {k} : Shown(j)' = Shown(j)
      PROVE  d' = [d EXCEPT ![k] = new]
  BY <1>1
<1>2. CASE UNCHANGED table
  BY <1>2, SameTableStutters
<1>3. CASE CommitRegistration(s)
  <2>1. /\ r.key \in Key /\ \A j \in Registered : ~Conflict(j, r.key)
    BY <1>3 DEF CommitRegistration, IInv, InProgress, Served, HoldsItsKey, Request
  <2>k. PICK k \in Key : k = r.key
    BY <1>0, <2>1
  <2>2. PICK links \in SUBSET Documents :
          verifications' = Inserted(verifications, r.key,
            [status |-> "PENDING", curator_comment |-> "none", documents |-> links])
    BY <1>3 DEF CommitRegistration
  <2>3. companies' = Inserted(companies, r.key, "PENDING") /\ notice' = notice
    BY <1>3 DEF CommitRegistration
  <2>4. Registered' = Registered \cup {r.key} /\ r.key \notin Registered
    BY <2>1, <2>3 DEF Inserted, Registered, Conflict
  <2>5. Shown(k)' = [status |-> "PENDING", comment |-> "none",
                         documents |-> links, told |-> d[k].told]
    <3>1. /\ r.key \in Registered' /\ companies'[r.key] = "PENDING"
          /\ verifications'[r.key].curator_comment = "none"
          /\ verifications'[r.key].documents = links
      BY <2>k, <2>2, <2>3, <2>4 DEF Inserted
    <3>2. d[k].told = notice[r.key]
      BY <2>k, <2>1 DEF Shown
    <3> QED
      BY <2>k, <2>3, <3>1, <3>2 DEF Shown
  <2>6. \A j \in Key \ {k} : Shown(j)' = Shown(j)
    BY <2>k, <1>0, <2>2, <2>3, <2>4 DEF Shown, Inserted, Registered
  <2>7. d' = [d EXCEPT ![k] = [status |-> "PENDING", comment |-> "none",
                                   documents |-> links, told |-> @.told]]
    BY <2>k, <1>1, <2>1, <2>5, <2>6
  <2>8. \A j \in Key : d[j].status # "NONE" => j.owner # r.key.owner /\ j.inn # r.key.inn
    BY <2>k, <2>1 DEF Shown, Conflict
  <2> QED
    BY <2>k, <2>1, <2>7, <2>8 DEF Lifecycle!Next, Lifecycle!Register, Lifecycle!Known, Shown
<1>4. CASE CommitDocuments(s)
  <2>1. /\ r \in Request /\ r.op = "submit" /\ r.key \in Registered /\ r.sent \in SUBSET Documents
        /\ company[s] = companies[r.key] /\ verification[s] = verifications[r.key]
        /\ companies[r.key] \in {"PENDING", "REJECTED"}
        /\ companies[r.key] = "PENDING" => verifications[r.key].curator_comment = "none"
    <3>1. /\ r \in Request /\ r.op = "submit" /\ r.key \in Registered
          /\ company[s] = companies[r.key] /\ verification[s] = verifications[r.key]
          /\ company[s] # "APPROVED"
      BY <1>4 DEF CommitDocuments, CopiesHold, IInv, InProgress, Served
    <3>2. companies[r.key] \in VerificationStatus
      BY <1>0, <3>1 DEF TypeOK
    <3> QED
      BY <3>1, <3>2 DEF VerificationStatus, StatusesAgree, Request
  <2>k. PICK k \in Key : k = r.key
    BY <1>0, <2>1
  <2>2. /\ companies' = IF company[s] = "REJECTED" THEN [companies EXCEPT ![r.key] = "PENDING"]
                        ELSE companies
        /\ verifications' = [verifications EXCEPT ![r.key] =
             DocumentsWritten(r, company[s], verification[s], verifications[r.key])]
        /\ notice' = notice
    BY <1>4 DEF CommitDocuments
  <2> DEFINE new == DocumentsWritten(r, company[s], verification[s], verifications[r.key])
  <2>3. new.curator_comment = "none" /\ new.documents = verifications[r.key].documents \cup r.sent
    BY <1>0, <2>1 DEF DocumentsWritten, Column, Accumulated, Verification
  <2>4. /\ Registered' = Registered /\ verifications'[r.key] = new /\ companies'[r.key] = "PENDING"
        /\ \A j \in Registered \ {r.key} :
             companies'[j] = companies[j] /\ verifications'[j] = verifications[j]
    BY <1>0, <2>1, <2>2 DEF TypeOK, Registered
  <2>5. Shown(k)' = [status |-> "PENDING", comment |-> "none",
                         documents |-> d[k].documents \cup r.sent, told |-> d[k].told]
    <3>1. d[k].documents = verifications[r.key].documents /\ d[k].told = notice[r.key]
      BY <2>k, <1>0, <2>1 DEF Shown
    <3> QED
      BY <2>k, <2>1, <2>2, <2>3, <2>4, <3>1 DEF Shown
  <2>6. \A j \in Key \ {k} : Shown(j)' = Shown(j)
    BY <2>k, <2>2, <2>4 DEF Shown
  <2>7. /\ r.key \in Key
        /\ d' = [d EXCEPT ![k] = [status |-> "PENDING", comment |-> "none",
                                       documents |-> @.documents \cup r.sent, told |-> @.told]]
    BY <2>k, <1>0, <1>1, <2>1, <2>5, <2>6
  <2>8. d[k].status \in {"PENDING", "REJECTED"}
    BY <2>k, <2>1, <2>7 DEF Shown
  <2> QED
    BY <2>k, <2>1, <2>7, <2>8 DEF Lifecycle!Next, Lifecycle!Submit, Shown
<1>5. CASE CommitVerdict(s)
  <2>1. /\ r \in Request /\ r.op = "review" /\ r.key \in Registered
        /\ r.verdict \in Verdicts /\ r.comment \in Comments
        /\ company[s] = companies[r.key] /\ verification[s] = verifications[r.key]
    BY <1>5 DEF CommitVerdict, CopiesHold, IInv, InProgress, Served, Request
  <2>k. PICK k \in Key : k = r.key
    BY <1>0, <2>1
  <2>2. /\ companies' = [companies EXCEPT ![r.key] = Column(r.verdict, company[s], @)]
        /\ verifications' = [verifications EXCEPT ![r.key] =
             VerdictWritten(r, verification[s], @)]
        /\ notice' = [notice EXCEPT ![r.key] = r.verdict]
    BY <1>5 DEF CommitVerdict, Notified
  <2>3. /\ Registered' = Registered /\ r.key \in Key
        /\ companies'[r.key] = r.verdict /\ notice'[r.key] = r.verdict
        /\ verifications'[r.key].curator_comment = r.comment
        /\ verifications'[r.key].documents = verifications[r.key].documents
    BY <1>0, <2>1, <2>2 DEF TypeOK, Registered, Column, VerdictWritten, Verification
  <2>4. /\ \A j \in Registered \ {r.key} :
             companies'[j] = companies[j] /\ verifications'[j] = verifications[j]
        /\ \A j \in Key \ {r.key} : notice'[j] = notice[j]
    BY <1>0, <2>1, <2>2 DEF TypeOK
  <2>5. Shown(k)' = [status |-> r.verdict, comment |-> r.comment,
                         documents |-> d[k].documents, told |-> r.verdict]
    <3>1. d[k].documents = verifications[r.key].documents
      BY <2>k, <2>1, <2>3 DEF Shown
    <3> QED
      BY <2>k, <2>1, <2>3, <3>1 DEF Shown
  <2>6. \A j \in Key \ {k} : Shown(j)' = Shown(j)
    BY <2>k, <2>3, <2>4 DEF Shown
  <2>7. d' = [d EXCEPT ![k] = [status |-> r.verdict, comment |-> r.comment,
                                   documents |-> @.documents, told |-> r.verdict]]
    BY <2>k, <1>1, <2>3, <2>5, <2>6
  <2>8. d[k].status # "NONE"
    <3>1. companies[r.key] \in VerificationStatus
      BY <2>k, <1>0, <2>1 DEF TypeOK
    <3> QED
      BY <2>k, <2>1, <2>3, <3>1 DEF Shown, VerificationStatus
  <2>9. \E verdict \in Verdicts, comment \in Comments :
          d' = [d EXCEPT ![k] = [status |-> verdict, comment |-> comment,
                                 documents |-> @.documents, told |-> verdict]]
    BY <2>1, <2>7
  <2> QED
    BY <2>8, <2>9 DEF Lifecycle!Next, Lifecycle!Review, Lifecycle!Known, Shown
<1> QED
  BY <1>2, <1>3, <1>4, <1>5, TableSteps

(* Served one at a time, requests implement the documented flow, with one  *)
(* record per company: nothing but overlap parts the two tables or takes   *)
(* a document.                                                             *)
THEOREM AloneFollowsLifecycle ==
  ASSUME NEW s, Sessions = {s}
  PROVE  Spec => FollowsVerificationLifecycle
<1>1. Init => Lifecycle!Init
  BY DEF Init, Lifecycle!Init, Lifecycle!Unknown, Registered
<1>2. IInv /\ CopiesHold /\ StatusesAgree /\ [Next]_vars => (CopiesHold /\ StatusesAgree)'
  BY AloneKeepsCopies, AloneKeepsStatuses
<1>3. IInv /\ CopiesHold /\ StatusesAgree /\ [Next]_vars =>
        [Lifecycle!Next]_([k \in Key |->
          [status    |-> IF k \in Registered THEN companies[k] ELSE "NONE",
           comment   |-> IF k \in Registered THEN verifications[k].curator_comment ELSE "none",
           documents |-> IF k \in Registered THEN verifications[k].documents ELSE {},
           told      |-> notice[k]]])
  BY AloneStepsFollow DEF Shown
<1> QED
  BY <1>1, <1>2, <1>3, InitAlone, Invariance, PTL
     DEF Spec, FollowsVerificationLifecycle, Lifecycle!Spec
=============================================================================
