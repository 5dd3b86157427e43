--------------------------- MODULE AccountsProofs ---------------------------
(***************************************************************************)
(* Proofs about Accounts, for any users, e-mails, skills and number of     *)
(* requests at a time.                                                     *)
(*                                                                         *)
(* A flushed INSERT holds its e-mail against every row and every other     *)
(* flushed INSERT (Holding).  A request that nobody has outdated still     *)
(* finds what it has loaded, so the difference it computed from that is    *)
(* the difference to what is stored (Fresh).                               *)
(***************************************************************************)
EXTENDS Accounts, TLAPS

Updating == {"lookup", "create", "delete", "relate", "store"}

(* A request that is being served is one of the right kind for its step.   *)
Serving(s) ==
  /\ pc[s] # "idle" => request[s] \in Request
  /\ pc[s] \in {"insert", "commit"} => request[s].op = "create"
  /\ pc[s] = "save" => request[s].op \in {"password", "verify"}
  /\ pc[s] \in Updating => request[s].op = "update"
  /\ pc[s] = "answer" => request[s].op \in {"password", "verify", "update"}
  /\ pc[s] \in Updating \cup {"save", "answer"} =>
       loaded[s] \in Loaded /\ account[Id(s)] # NoRow

Holding(s) ==
  /\ inserted[s] # NoId <=> pc[s] = "commit"
  /\ pc[s] = "commit" =>
       /\ account[inserted[s]] = NoRow
       /\ ~email_exists(request[s].email)
       /\ \A t \in Sessions \ {s} : pc[t] = "commit" =>
            inserted[t] # inserted[s] /\ request[t].email # request[s].email

Fresh(s) ==
  /\ pc[s] \in Updating /\ ~stale[s] => skills[Id(s)] = loaded[s].skills
  /\ pc[s] = "store" => related[s] = ToAdd(s)
  /\ pc[s] = "store" \/ (pc[s] = "relate" /\ Missing(s) # {}) =>
       (~stale[s] => removed[s] = ToRemove(s))
  /\ pc[s] = "save" /\ ~stale[s] /\ request[s].op = "verify" =>
       account[Id(s)].is_verified = loaded[s].row.is_verified

(* AnsweredAsAsked, of one request.                                        *)
Answered(s) ==
  pc[s] = "answer" /\ ~stale[s] =>
    /\ request[s].op = "password" => account[Id(s)].password = request[s].password
    /\ request[s].op = "verify" => account[Id(s)].is_verified = request[s].is_verified
    /\ request[s].op = "update" => skills[Id(s)] = request[s].skills

Sound(s) == Serving(s) /\ Holding(s) /\ Fresh(s) /\ Answered(s)

IInv == TypeOK /\ AccountsWhole /\ \A s \in Sessions : Sound(s)

-----------------------------------------------------------------------------
LEMMA CreateFacts ==
  ASSUME NEW r \in Request, r.op = "create"
  PROVE  r.email \in Emails /\ r.role \in Roles /\ r.password \in Passwords
BY DEF Request

LEMMA IdFacts ==
  ASSUME NEW r \in Request, r.op \in {"password", "verify", "update"}
  PROVE  /\ r.id \in Ids
         /\ r.op = "password" => r.password \in Passwords
         /\ r.op = "verify" => r.is_verified \in BOOLEAN
         /\ r.op = "update" => r.skills \subseteq Names
BY SkillListsAssumption DEF Request

LEMMA InitIInv == Init => IInv
<1> SUFFICES ASSUME Init PROVE IInv
  OBVIOUS
<1>1. TypeOK
  BY DEF Init, TypeOK, Labels
<1>2. AccountsWhole
  BY DEF Init, AccountsWhole
<1>3. \A s \in Sessions : Sound(s)
  BY DEF Init, Sound, Serving, Holding, Fresh, Answered, Updating
<1> QED
  BY <1>1, <1>2, <1>3 DEF IInv

OthersSame(s) ==
  \A t \in Sessions \ {s} :
    /\ pc'[t] = pc[t] /\ request'[t] = request[t] /\ inserted'[t] = inserted[t]
    /\ loaded'[t] = loaded[t] /\ found'[t] = found[t] /\ related'[t] = related[t]
    /\ removed'[t] = removed[t]

(* A step of session s that stores nothing.                                *)
LEMMA OneRequest ==
  ASSUME IInv, NEW s \in Sessions, OthersSame(s), TypeOK', UNCHANGED table,
         \A t \in Sessions \ {s} : stale'[t] = stale[t],
         Sound(s)'
  PROVE  IInv'
<1>1. AccountsWhole'
  BY DEF IInv, AccountsWhole, table
<1>2. ASSUME NEW t \in Sessions \ {s} PROVE Sound(t)'
  <2>1. /\ pc'[t] = pc[t] /\ request'[t] = request[t] /\ inserted'[t] = inserted[t]
        /\ loaded'[t] = loaded[t] /\ found'[t] = found[t] /\ related'[t] = related[t]
        /\ removed'[t] = removed[t] /\ stale'[t] = stale[t]
        /\ Serving(t) /\ Holding(t) /\ Fresh(t) /\ Answered(t)
    BY DEF OthersSame, IInv, Sound
  <2>2. Serving(t)'
    BY <2>1 DEF Serving, Id, table
  <2>3. Holding(t)'
    <3>1. ASSUME pc'[t] = "commit", NEW u \in Sessions \ {t}, pc'[u] = "commit"
          PROVE  inserted'[u] # inserted'[t] /\ request'[u].email # request'[t].email
      <4>1. CASE u = s
        BY <3>1, <4>1, <2>1 DEF Sound, Holding
      <4>2. CASE u # s
        BY <3>1, <4>2, <2>1 DEF OthersSame, Holding
      <4> QED
        BY <4>1, <4>2
    <3>2. pc'[t] = "commit" => account'[inserted'[t]] = NoRow /\ ~email_exists(request[t].email)'
      BY <2>1 DEF Holding, email_exists, table
    <3> QED
      BY <2>1, <3>1, <3>2 DEF Holding, email_exists
  <2>4. Fresh(t)'
    BY <2>1 DEF Fresh, Id, ToAdd, ToRemove, Missing, table
  <2>5. Answered(t)'
    BY <2>1 DEF Answered, Id, table
  <2> QED
    BY <2>2, <2>3, <2>4, <2>5 DEF Sound
<1> QED
  BY <1>1, <1>2 DEF IInv

(* The end of a request.                                                   *)
LEMMA AnswerFacts ==
  ASSUME TypeOK, NEW s \in Sessions, Answer(s)
  PROVE  /\ pc' \in [Sessions -> Labels]
         /\ request' \in [Sessions -> Request \cup {NoRequest}]
         /\ inserted' \in [Sessions -> Ids \cup {NoId}]
         /\ loaded' \in [Sessions -> Loaded \cup {NoRow}]
         /\ found' \in [Sessions -> SUBSET Names]
         /\ created' \in [Sessions -> SUBSET Names]
         /\ related' \in [Sessions -> SUBSET Names]
         /\ removed' \in [Sessions -> SUBSET Names]
         /\ stale' \in [Sessions -> BOOLEAN]
         /\ OthersSame(s) /\ \A t \in Sessions \ {s} : stale'[t] = stale[t]
         /\ pc'[s] = "idle" /\ Sound(s)'
<1>1. pc'[s] = "idle" /\ inserted'[s] = NoId
  BY DEF Answer, Goto, TypeOK
<1>2. Sound(s)'
  BY <1>1 DEF Sound, Serving, Holding, Fresh, Answered, Updating
<1>3. OthersSame(s) /\ \A t \in Sessions \ {s} : stale'[t] = stale[t]
  BY DEF Answer, Goto, TypeOK, OthersSame
<1> QED
  BY <1>1, <1>2, <1>3 DEF Answer, Goto, TypeOK, Labels

LEMMA AnswerKeepsIInv ==
  ASSUME IInv, NEW s \in Sessions, Answer(s), UNCHANGED table
  PROVE  IInv'
<1>1. TypeOK'
  BY AnswerFacts DEF IInv, TypeOK, table
<1> QED
  BY <1>1, AnswerFacts, OneRequest DEF IInv

-----------------------------------------------------------------------------
(* Registrations. *)
LEMMA CreateUserKeepsIInv ==
  ASSUME IInv, NEW s \in Sessions, NEW e \in Emails, NEW r \in Roles, NEW w \in Passwords,
         CreateUser(s, e, r, w)
  PROVE  IInv'
<1> DEFINE q == [op |-> "create", email |-> e, role |-> r, password |-> w]
<1>1. /\ TypeOK /\ pc[s] = "idle" /\ pc' = [pc EXCEPT ![s] = "insert"]
      /\ request' = [request EXCEPT ![s] = q]
      /\ UNCHANGED <<table, inserted, loaded, found, created, related, removed, stale>>
  BY DEF CreateUser, Goto, IInv
<1>2. q \in Request /\ q.op = "create"
  BY DEF Request
<1> HIDE DEF q
<1>3. TypeOK'
  BY <1>1, <1>2 DEF TypeOK, Labels, table
<1>4. pc'[s] = "insert" /\ request'[s] = q /\ OthersSame(s)
  BY <1>1 DEF TypeOK, OthersSame
<1>5. inserted'[s] = NoId
  BY <1>1 DEF IInv, Sound, Holding
<1>6. Sound(s)'
  BY <1>2, <1>4, <1>5 DEF Sound, Serving, Holding, Fresh, Answered, Updating
<1> QED
  BY <1>1, <1>3, <1>4, <1>6, OneRequest

(* The new user's e-mail is held by nobody else. *)
LEMMA InsertUserKeepsIInv ==
  ASSUME IInv, NEW s \in Sessions, InsertUser(s)
  PROVE  IInv'
<1>1. /\ TypeOK /\ Serving(s) /\ pc[s] = "insert" /\ UNCHANGED table
      /\ \A t \in Sessions : inserted[t] # NoId => request[t].email # request[s].email
  BY DEF InsertUser, IInv, Sound
<1>2. CASE Answer(s)
  BY <1>1, <1>2, AnswerKeepsIInv
<1>3. ASSUME NEW i \in FreshIds, inserted' = [inserted EXCEPT ![s] = i],
             ~email_exists(request[s].email), Goto(s, "commit"),
             UNCHANGED <<request, loaded, found, created, related, removed, stale>>
      PROVE  IInv'
  <2>1. i \in Ids /\ i # NoId /\ account[i] = NoRow /\ \A t \in Sessions : inserted[t] # i
    BY NullsAssumption DEF FreshIds
  <2>2. TypeOK'
    BY <1>1, <1>3, <2>1 DEF TypeOK, Goto, Labels, table
  <2>3. pc'[s] = "commit" /\ inserted'[s] = i /\ OthersSame(s)
    BY <1>1, <1>3 DEF TypeOK, Goto, OthersSame
  <2>4. Serving(s)'
    BY <1>1, <1>3, <2>3 DEF Serving, Updating
  <2>5. \A t \in Sessions \ {s} : pc'[t] = "commit" =>
          inserted'[t] # i /\ request'[t].email # request'[s].email
    <3>1. \A t \in Sessions \ {s} : pc'[t] = "commit" => pc[t] = "commit" /\ inserted[t] # NoId
      BY <2>3 DEF OthersSame, IInv, Sound, Holding
    <3> QED
      BY <1>1, <1>3, <2>1, <2>3, <3>1 DEF OthersSame
  <2>6. Holding(s)'
    BY <1>1, <1>3, <2>1, <2>3, <2>5 DEF Holding, email_exists, table
  <2>7. Fresh(s)' /\ Answered(s)'
    BY <2>3 DEF Fresh, Answered, Updating
  <2> QED
    BY <1>1, <1>3, <2>2, <2>3, <2>4, <2>6, <2>7, OneRequest DEF Sound
<1> QED
  BY <1>2, <1>3 DEF InsertUser

LEMMA NewRowFacts ==
  ASSUME NEW s \in Sessions, request[s] \in Request, request[s].op = "create"
  PROVE  NewRow(s) \in Row /\ NewRow(s) # NoRow /\ NewRow(s).email = request[s].email
<1>1. request[s].email \in Emails /\ request[s].role \in Roles /\ request[s].password \in Passwords
  BY CreateFacts
<1>2. NewRow(s) \in Row
  BY <1>1 DEF NewRow, Row
<1> QED
  BY <1>2, NullsAssumption DEF NewRow

LEMMA CommitUserKeepsIInv ==
  ASSUME IInv, NEW s \in Sessions, CommitUser(s)
  PROVE  IInv'
<1>1. /\ TypeOK /\ AccountsWhole /\ Serving(s) /\ Holding(s)
      /\ pc[s] = "commit" /\ Answer(s) /\ UNCHANGED <<catalogue, skills>>
  BY DEF CommitUser, IInv, Sound
<1>2. /\ NewRow(s) \in Row /\ NewRow(s) # NoRow /\ NewRow(s).email = request[s].email
  BY <1>1, NewRowFacts DEF Serving
<1>3. PICK i \in Ids : i = inserted[s] /\ account[i] = NoRow /\ i \notin profile
  BY <1>1 DEF Holding, TypeOK, AccountsWhole
<1>4. PICK row \in Row : row = NewRow(s)
  BY <1>2
<1>5. account' = [account EXCEPT ![i] = row] /\ profile' = profile \cup {i}
  BY <1>3, <1>4 DEF CommitUser
<1>6. \A j \in Ids : account'[j] = IF j = i THEN row ELSE account[j]
  BY <1>1, <1>5 DEF TypeOK
<1>7. \A j \in Ids : account[j] # NoRow => account[j].email # row.email
  BY <1>1, <1>2, <1>4 DEF Holding, email_exists
<1>8. TypeOK'
  BY <1>1, <1>5, AnswerFacts DEF TypeOK
<1>9. AccountsWhole'
  <2>1. \A j \in Ids : account'[j] # NoRow <=> j \in profile'
    BY <1>1, <1>2, <1>4, <1>5, <1>6 DEF AccountsWhole
  <2>2. profile \subseteq Ids
    BY <1>1 DEF TypeOK
  <2>3. ASSUME NEW j \in profile', NEW k \in profile', account'[j].email = account'[k].email
        PROVE  j = k
    BY <1>1, <1>5, <1>6, <1>7, <2>2, <2>3 DEF AccountsWhole
  <2> QED
    BY <2>1, <2>3 DEF AccountsWhole
<1>10. OthersSame(s) /\ (\A t \in Sessions \ {s} : stale'[t] = stale[t])
       /\ pc'[s] = "idle" /\ Sound(s)'
  BY <1>1, AnswerFacts
<1>11. ASSUME NEW t \in Sessions \ {s} PROVE Sound(t)'
  <2>1. /\ pc'[t] = pc[t] /\ request'[t] = request[t] /\ inserted'[t] = inserted[t]
        /\ loaded'[t] = loaded[t] /\ found'[t] = found[t] /\ related'[t] = related[t]
        /\ removed'[t] = removed[t] /\ stale'[t] = stale[t] /\ skills' = skills
        /\ Serving(t) /\ Holding(t) /\ Fresh(t) /\ Answered(t)
    BY <1>1, <1>10 DEF OthersSame, IInv, Sound
  <2>2. pc[t] \in Updating \cup {"save", "answer"} => account'[Id(t)] = account[Id(t)]
    <3>1. pc[t] \in Updating \cup {"save", "answer"} => Id(t) \in Ids /\ account[Id(t)] # NoRow
      BY <2>1, IdFacts DEF Serving, Updating, Id
    <3> QED
      BY <1>3, <1>6, <3>1
  <2>3. Serving(t)'
    BY <2>1, <2>2 DEF Serving, Id
  <2>4. Holding(t)'
    <3>1. ASSUME pc[t] = "commit"
          PROVE  /\ account'[inserted[t]] = NoRow
                 /\ \A j \in Ids : account'[j] # NoRow => account'[j].email # request[t].email
      <4>1. inserted[t] # i /\ request[t].email # row.email
        BY <1>1, <1>2, <1>3, <1>4, <2>1, <3>1 DEF Holding
      <4>2. account[inserted[t]] = NoRow /\ inserted[t] \in Ids
        BY <1>1, <2>1, <3>1 DEF Holding, TypeOK
      <4>3. \A j \in Ids : account[j] # NoRow => account[j].email # request[t].email
        BY <2>1, <3>1 DEF Holding, email_exists
      <4> QED
        BY <1>6, <4>1, <4>2, <4>3
    <3>2. ASSUME pc[t] = "commit", NEW u \in Sessions \ {t}, pc'[u] = "commit"
          PROVE  inserted'[u] # inserted[t] /\ request'[u].email # request[t].email
      BY <1>10, <2>1, <3>2 DEF OthersSame, Holding
    <3>3. pc[t] = "commit" => ~email_exists(request[t].email)'
      BY <3>1, <2>1 DEF email_exists
    <3> QED
      BY <2>1, <3>1, <3>2, <3>3 DEF Holding, email_exists
  <2>5. Fresh(t)'
    BY <2>1, <2>2 DEF Fresh, Id, ToAdd, ToRemove, Missing
  <2>6. Answered(t)'
    BY <2>1, <2>2 DEF Answered, Id
  <2> QED
    BY <2>3, <2>4, <2>5, <2>6 DEF Sound
<1> QED
  BY <1>8, <1>9, <1>10, <1>11 DEF IInv

-----------------------------------------------------------------------------
(* Requests about a user. *)
LEMMA ReadKeepsIInv ==
  ASSUME IInv, NEW s \in Sessions, NEW i \in Ids, NEW r \in Request,
         NEW label \in {"save", "lookup"}, Read(s, i, r, label), r.id = i,
         label = "save" => r.op \in {"password", "verify"},
         label = "lookup" => r.op = "update"
  PROVE  IInv'
<1> DEFINE l == [row |-> account[i], skills |-> skills[i]]
<1>1. /\ TypeOK /\ pc[s] = "idle" /\ account[i] # NoRow
      /\ pc' = [pc EXCEPT ![s] = label] /\ request' = [request EXCEPT ![s] = r]
      /\ loaded' = [loaded EXCEPT ![s] = l]
      /\ UNCHANGED <<table, inserted, found, created, related, removed, stale>>
  BY DEF Read, Goto, IInv
<1>2. l \in Loaded
  BY <1>1 DEF TypeOK, Loaded
<1>3. l.row = account[i] /\ l.skills = skills[i]
  OBVIOUS
<1> HIDE DEF l
<1>4. TypeOK'
  BY <1>1, <1>2 DEF TypeOK, Labels, table
<1>5. pc'[s] = label /\ request'[s] = r /\ loaded'[s] = l /\ OthersSame(s)
  BY <1>1 DEF TypeOK, OthersSame
<1>6. inserted'[s] = NoId
  BY <1>1 DEF IInv, Sound, Holding
<1>7. Serving(s)'
  BY <1>1, <1>2, <1>5 DEF Serving, Updating, Id, table
<1>8. Holding(s)'
  BY <1>5, <1>6 DEF Holding
<1>9. Fresh(s)'
  BY <1>1, <1>3, <1>5 DEF Fresh, Id, table
<1>10. Answered(s)'
  BY <1>5 DEF Answered
<1> QED
  BY <1>1, <1>4, <1>5, <1>7, <1>8, <1>9, <1>10, OneRequest DEF Sound

LEMMA AskKeepsIInv ==
  ASSUME IInv, NEW s \in Sessions, NEW i \in Ids
  PROVE  /\ \A old, new \in Passwords : ChangePassword(s, i, old, new) => IInv'
         /\ \A list \in SkillLists : UpdateUserProfile(s, i, list) => IInv'
         /\ \A v \in BOOLEAN : VerifyEmployer(s, i, v) => IInv'
<1>1. ASSUME NEW old \in Passwords, NEW new \in Passwords, ChangePassword(s, i, old, new)
      PROVE  IInv'
  <2>1. [op |-> "password", id |-> i, password |-> new] \in Request
    BY DEF Request
  <2> QED
    BY <1>1, <2>1, ReadKeepsIInv DEF ChangePassword
<1>2. ASSUME NEW list \in SkillLists, UpdateUserProfile(s, i, list) PROVE IInv'
  <2>1. [op |-> "update", id |-> i, skills |-> list] \in Request
    BY DEF Request
  <2> QED
    BY <1>2, <2>1, ReadKeepsIInv DEF UpdateUserProfile
<1>3. ASSUME NEW v \in BOOLEAN, VerifyEmployer(s, i, v) PROVE IInv'
  <2>1. [op |-> "verify", id |-> i, is_verified |-> v] \in Request
    BY DEF Request
  <2> QED
    BY <1>3, <2>1, ReadKeepsIInv DEF VerifyEmployer
<1> QED
  BY <1>1, <1>2, <1>3

(* Only a request that asks for something else is left up to date.         *)
LEMMA OutdateFacts ==
  ASSUME TypeOK, NEW s \in Sessions, Outdate(s)
  PROVE  /\ stale' \in [Sessions -> BOOLEAN]
         /\ stale'[s] <=> stale[s]
         /\ \A t \in Sessions \ {s} : ~stale'[t] =>
              /\ ~stale[t]
              /\ \/ pc[t] = "idle"
                 \/ request[t].op # request[s].op
                 \/ request[t].id # request[s].id
<1>1. stale' \in [Sessions -> BOOLEAN]
  BY DEF Outdate, TypeOK
<1>2. \A t \in Sessions : stale'[t] <=>
        \/ stale[t]
        \/ /\ t # s /\ pc[t] # "idle"
           /\ request[t].op = request[s].op /\ request[t].id = request[s].id
  BY DEF Outdate
<1> QED
  BY <1>1, <1>2

(* A column of the row of user i is written, for a request that has to     *)
(* outdate the others of its kind.                                         *)
LEMMA RowWrittenKeepsIInv ==
  ASSUME IInv, NEW s \in Sessions, NEW row \in Row, pc[s] = "save",
         row.email = account[Id(s)].email,
         request[s].op = "password" =>
           /\ row.password = request[s].password
           /\ row.is_verified = account[Id(s)].is_verified,
         request[s].op = "verify" =>
           /\ row.is_verified = request[s].is_verified
           /\ row.password = account[Id(s)].password,
         account' = [account EXCEPT ![Id(s)] = row], Outdate(s), Goto(s, "answer"),
         UNCHANGED <<profile, catalogue, skills, request, inserted, loaded, found, created,
                     related, removed>>
  PROVE  IInv'
<1>1. TypeOK /\ Sound(s) /\ request[s] \in Request /\ request[s].op \in {"password", "verify"}
      /\ account[Id(s)] # NoRow
  BY DEF IInv, Sound, Serving
<1>2. PICK i \in Ids : i = Id(s)
  BY <1>1, IdFacts DEF Id
<1>3. row # NoRow
  BY NullsAssumption
<1>4. \A j \in Ids : account'[j] = IF j = i THEN row ELSE account[j]
  BY <1>1, <1>2 DEF TypeOK
<1>5. /\ stale' \in [Sessions -> BOOLEAN]
      /\ stale'[s] <=> stale[s]
      /\ \A t \in Sessions \ {s} : ~stale'[t] =>
           /\ ~stale[t]
           /\ pc[t] = "idle" \/ request[t].op # request[s].op \/ request[t].id # i
  BY <1>1, <1>2, OutdateFacts DEF Id
<1>6. TypeOK'
  BY <1>1, <1>2, <1>5 DEF TypeOK, Goto, Labels
<1>7. AccountsWhole'
  <2>1. \A j \in Ids : /\ account'[j] # NoRow <=> account[j] # NoRow
                       /\ account'[j].email = account[j].email
    BY <1>1, <1>2, <1>3, <1>4
  <2>2. profile \subseteq Ids
    BY <1>1 DEF TypeOK
  <2> QED
    BY <2>1, <2>2 DEF IInv, AccountsWhole
<1>8. pc'[s] = "answer" /\ \A t \in Sessions \ {s} : pc'[t] = pc[t]
  BY <1>1 DEF TypeOK, Goto
<1>9. ASSUME NEW t \in Sessions PROVE Serving(t)' /\ Holding(t)'
  <2>1. Serving(t) /\ Holding(t) /\ Serving(s) /\ Holding(s)
    BY DEF IInv, Sound
  <2>2. Serving(t)'
    <3>1. pc[t] \in Updating \cup {"save", "answer"} => Id(t) \in Ids
      BY <2>1, IdFacts DEF Serving, Updating, Id
    <3>2. pc[t] \in Updating \cup {"save", "answer"} => account'[Id(t)] # NoRow
      BY <1>3, <1>4, <2>1, <3>1 DEF Serving
    <3>3. pc'[t] \in Updating \cup {"save", "answer"} => pc[t] \in Updating \cup {"save", "answer"}
      BY <1>8
    <3> QED
      BY <1>1, <1>8, <2>1, <3>2, <3>3 DEF Serving, Id, Updating
  <2>3. Holding(t)'
    <3>1. \A u \in Sessions : pc'[u] = "commit" <=> pc[u] = "commit"
      BY <1>8
    <3>2. pc[t] = "commit" => inserted[t] \in Ids
      BY <1>1, <2>1 DEF Holding, TypeOK
    <3>3. pc[t] = "commit" =>
            account'[inserted[t]] = NoRow /\ ~email_exists(request[t].email)'
      <4>1. \A j \in Ids : /\ account'[j] # NoRow <=> account[j] # NoRow
                           /\ account'[j].email = account[j].email
        BY <1>1, <1>2, <1>3, <1>4
      <4> QED
        BY <2>1, <3>2, <4>1 DEF Holding, email_exists
    <3> QED
      BY <2>1, <3>1, <3>3 DEF Holding, email_exists
  <2> QED
    BY <2>2, <2>3
<1>10. ASSUME NEW t \in Sessions \ {s} PROVE Fresh(t)' /\ Answered(t)'
  <2>1. pc'[t] = pc[t] /\ Serving(t) /\ Fresh(t) /\ Answered(t) /\ (~stale'[t] => ~stale[t])
    BY <1>5, <1>8 DEF IInv, Sound
  <2>2. ASSUME pc[t] \in {"save", "answer"}, ~stale'[t]
        PROVE  /\ request[t].op = "password" =>
                    account'[Id(t)].password = account[Id(t)].password
               /\ request[t].op = "verify" =>
                    account'[Id(t)].is_verified = account[Id(t)].is_verified
    <3>1. request[t].op # request[s].op \/ Id(t) # i
      BY <1>5, <2>2 DEF Id
    <3>2. Id(t) \in Ids
      BY <2>1, <2>2, IdFacts DEF Serving, Id
    <3> QED
      BY <1>1, <1>2, <1>4, <3>1, <3>2
  <2>3. Fresh(t)'
    BY <2>1, <2>2 DEF Fresh, Id, ToAdd, ToRemove, Missing
  <2>4. Answered(t)'
    BY <2>1, <2>2 DEF Answered, Id
  <2> QED
    BY <2>3, <2>4
<1>11. Fresh(s)' /\ Answered(s)'
  <2>1. account'[Id(s)] = row
    BY <1>2, <1>4
  <2> QED
    BY <1>1, <1>8, <2>1 DEF Fresh, Answered, Updating, Id
<1> QED
  BY <1>6, <1>7, <1>9, <1>10, <1>11 DEF IInv, Sound

LEMMA SaveKeepsIInv ==
  ASSUME IInv, NEW s \in Sessions, Save(s)
  PROVE  IInv'
<1>1. /\ TypeOK /\ Sound(s) /\ pc[s] = "save" /\ Goto(s, "answer")
      /\ UNCHANGED <<profile, catalogue, skills, request, inserted, loaded, found, created,
                     related, removed>>
  BY DEF Save, IInv
<1>2. /\ request[s] \in Request /\ request[s].op \in {"password", "verify"}
      /\ account[Id(s)] # NoRow
  BY <1>1 DEF Sound, Serving
<1>3. /\ Id(s) \in Ids
      /\ request[s].op = "password" => request[s].password \in Passwords
      /\ request[s].op = "verify" => request[s].is_verified \in BOOLEAN
  BY <1>2, IdFacts DEF Id
<1>4. account[Id(s)] \in Row
  BY <1>1, <1>2, <1>3 DEF TypeOK
<1>5. CASE /\ request[s].op = "password"
           /\ account' = [account EXCEPT ![Id(s)].password = request[s].password]
           /\ Outdate(s)
  <2> DEFINE row == [account[Id(s)] EXCEPT !.password = request[s].password]
  <2>1. row \in Row /\ row.email = account[Id(s)].email /\ row.password = request[s].password
        /\ row.is_verified = account[Id(s)].is_verified
    BY <1>3, <1>4, <1>5 DEF Row
  <2>2. account' = [account EXCEPT ![Id(s)] = row]
    BY <1>5
  <2> HIDE DEF row
  <2> QED
    BY <1>1, <1>5, <2>1, <2>2, RowWrittenKeepsIInv
<1>6. CASE /\ request[s].op = "verify"
           /\ account' = [account EXCEPT ![Id(s)].is_verified = request[s].is_verified]
           /\ Outdate(s)
  <2> DEFINE row == [account[Id(s)] EXCEPT !.is_verified = request[s].is_verified]
  <2>1. row \in Row /\ row.email = account[Id(s)].email /\ row.password = account[Id(s)].password
        /\ row.is_verified = request[s].is_verified
    BY <1>3, <1>4, <1>6 DEF Row
  <2>2. account' = [account EXCEPT ![Id(s)] = row]
    BY <1>6
  <2> HIDE DEF row
  <2> QED
    BY <1>1, <1>6, <2>1, <2>2, RowWrittenKeepsIInv
<1>7. CASE /\ request[s].op = "verify"
           /\ request[s].is_verified = loaded[s].row.is_verified
           /\ UNCHANGED <<account, stale>>
  <2>1. TypeOK' /\ pc'[s] = "answer" /\ OthersSame(s)
    BY <1>1, <1>7 DEF TypeOK, Goto, Labels, OthersSame
  <2>2. Serving(s)' /\ Holding(s)'
    BY <1>1, <1>7, <2>1 DEF Sound, Serving, Holding, Updating, Id
  <2>3. Fresh(s)' /\ Answered(s)'
    BY <1>1, <1>7, <2>1 DEF Sound, Fresh, Answered, Updating, Id
  <2> QED
    BY <1>1, <1>7, <2>1, <2>2, <2>3, OneRequest DEF Sound, table
<1> QED
  BY <1>5, <1>6, <1>7 DEF Save

-----------------------------------------------------------------------------
(* The update of the skills. *)
LEMMA SkillsFacts ==
  ASSUME IInv, NEW s \in Sessions, pc[s] \in Updating
  PROVE  /\ request[s] \in Request /\ request[s].op = "update" /\ Id(s) \in Ids
         /\ account[Id(s)] # NoRow
         /\ request[s].skills \subseteq Names /\ loaded[s].skills \subseteq Names
         /\ loaded[s] \in Loaded
         /\ ToAdd(s) \subseteq Names /\ ToRemove(s) \subseteq Names
<1>1. /\ request[s] \in Request /\ request[s].op = "update" /\ loaded[s] \in Loaded
      /\ account[Id(s)] # NoRow
  BY DEF IInv, Sound, Serving, Updating
<1>2. request[s].id \in Ids /\ request[s].skills \subseteq Names
  BY <1>1, IdFacts
<1>3. loaded[s].skills \subseteq Names
  BY <1>1 DEF Loaded
<1> QED
  BY <1>1, <1>2, <1>3 DEF Id, ToAdd, ToRemove

(* A step of an update that is not its last.                               *)
LEMMA UpdatingKeepsIInv ==
  ASSUME IInv, NEW s \in Sessions, NEW label \in Updating, pc[s] \in Updating,
         TypeOK', pc' = [pc EXCEPT ![s] = label],
         \A t \in Sessions \ {s} :
           found'[t] = found[t] /\ related'[t] = related[t] /\ removed'[t] = removed[t],
         UNCHANGED <<table, request, inserted, loaded, stale>>,
         Fresh(s)'
  PROVE  IInv'
<1>1. pc'[s] = label /\ OthersSame(s)
  BY DEF IInv, TypeOK, OthersSame
<1>2. Serving(s)'
  BY <1>1, SkillsFacts DEF Serving, Updating, Id, table
<1>3. Holding(s)' /\ Answered(s)'
  BY <1>1 DEF IInv, Sound, Holding, Answered, Updating
<1> QED
  BY <1>1, <1>2, <1>3, OneRequest DEF Sound

LEMMA LookupKeepsIInv ==
  ASSUME IInv, NEW s \in Sessions, Lookup(s)
  PROVE  IInv'
<1>1. /\ TypeOK /\ Fresh(s) /\ pc[s] = "lookup" /\ pc[s] \in Updating
      /\ found' = [found EXCEPT ![s] = ToAdd(s) \cap catalogue]
      /\ UNCHANGED <<table, request, inserted, loaded, created, related, removed, stale>>
  BY DEF Lookup, IInv, Sound, Updating
<1>2. PICK label \in {"delete", "relate", "create"} :
        /\ pc' = [pc EXCEPT ![s] = label]
        /\ label = "relate" => ToAdd(s) \subseteq catalogue
  BY DEF Lookup, Goto
<1>3. TypeOK'
  BY <1>1, <1>2 DEF TypeOK, Labels, table
<1>4. found'[s] = ToAdd(s) \cap catalogue /\ pc'[s] = label
  BY <1>1, <1>2 DEF TypeOK
<1>5. label = "relate" => ToAdd(s) \ found'[s] = {}
  BY <1>2, <1>4
<1>6. Fresh(s)'
  BY <1>1, <1>4, <1>5 DEF Fresh, Missing, ToAdd, Id, Updating, table
<1> QED
  BY <1>1, <1>2, <1>3, <1>6, UpdatingKeepsIInv DEF TypeOK, Updating

LEMMA CreateSkillKeepsIInv ==
  ASSUME IInv, NEW s \in Sessions, CreateSkill(s)
  PROVE  IInv'
<1>1. /\ TypeOK /\ Fresh(s) /\ pc[s] = "create" /\ pc[s] \in Updating /\ UNCHANGED table
  BY DEF CreateSkill, IInv, Sound, Updating
<1>2. CASE Answer(s)
  BY <1>1, <1>2, AnswerKeepsIInv
<1>3. ASSUME NEW n \in Missing(s), created' = [created EXCEPT ![s] = @ \cup {n}],
             Goto(s, IF created'[s] = Missing(s) THEN "delete" ELSE "create"),
             UNCHANGED <<request, inserted, loaded, found, related, removed, stale>>
      PROVE  IInv'
  <2>1. PICK label \in {"delete", "create"} : pc' = [pc EXCEPT ![s] = label]
    BY <1>3 DEF Goto
  <2>2. n \in Names
    BY <1>1, SkillsFacts DEF Missing
  <2>3. TypeOK'
    BY <1>1, <1>3, <2>1, <2>2 DEF TypeOK, Labels, table
  <2>4. pc'[s] = label
    BY <1>1, <2>1 DEF TypeOK
  <2>5. Fresh(s)'
    BY <1>1, <1>3, <2>4 DEF Fresh, Id, Updating, table
  <2> QED
    BY <1>1, <1>3, <2>1, <2>3, <2>5, UpdatingKeepsIInv DEF Updating
<1> QED
  BY <1>2, <1>3 DEF CreateSkill

LEMMA DeleteSkillsKeepsIInv ==
  ASSUME IInv, NEW s \in Sessions, DeleteSkills(s)
  PROVE  IInv'
<1>1. /\ TypeOK /\ Fresh(s) /\ pc[s] = "delete" /\ pc[s] \in Updating
      /\ removed' = [removed EXCEPT ![s] = ToRemove(s) \cap skills[Id(s)]]
      /\ UNCHANGED <<table, request, inserted, loaded, found, created, related, stale>>
  BY DEF DeleteSkills, IInv, Sound, Updating
<1>2. PICK label \in {"store", "relate"} :
        /\ pc' = [pc EXCEPT ![s] = label]
        /\ label = "store" => related[s] = ToAdd(s)
  BY DEF DeleteSkills, Goto
<1>3. ToRemove(s) \cap skills[Id(s)] \subseteq Names
  BY <1>1, SkillsFacts
<1>4. TypeOK'
  BY <1>1, <1>2, <1>3 DEF TypeOK, Labels, table
<1>5. removed'[s] = ToRemove(s) \cap skills[Id(s)] /\ pc'[s] = label
  BY <1>1, <1>2 DEF TypeOK
<1>6. ~stale[s] => skills[Id(s)] = loaded[s].skills /\ removed'[s] = ToRemove(s)
  BY <1>1, <1>5 DEF Fresh, ToRemove
<1>7. Fresh(s)'
  BY <1>1, <1>2, <1>5, <1>6 DEF Fresh, ToAdd, ToRemove, Id, Updating, table
<1> QED
  BY <1>1, <1>2, <1>4, <1>7, UpdatingKeepsIInv DEF TypeOK, Updating

LEMMA RelateSkillsKeepsIInv ==
  ASSUME IInv, NEW s \in Sessions, RelateSkills(s)
  PROVE  IInv'
<1>1. /\ TypeOK /\ Fresh(s) /\ pc[s] = "relate" /\ pc[s] \in Updating /\ UNCHANGED table
  BY DEF RelateSkills, IInv, Sound, Updating
<1>2. CASE Answer(s)
  BY <1>1, <1>2, AnswerKeepsIInv
<1>3. CASE /\ related' = [related EXCEPT ![s] = ToAdd(s)]
           /\ Goto(s, IF Missing(s) = {} THEN "delete" ELSE "store")
           /\ UNCHANGED <<request, inserted, loaded, found, created, removed, stale>>
  <2>1. PICK label \in {"delete", "store"} :
          /\ pc' = [pc EXCEPT ![s] = label]
          /\ label = "store" => Missing(s) # {}
    BY <1>3 DEF Goto
  <2>2. ToAdd(s) \subseteq Names
    BY <1>1, SkillsFacts
  <2>3. TypeOK'
    BY <1>1, <1>3, <2>1, <2>2 DEF TypeOK, Labels, table
  <2>4. related'[s] = ToAdd(s) /\ pc'[s] = label
    BY <1>1, <1>3, <2>1 DEF TypeOK
  <2>5. Fresh(s)'
    BY <1>1, <1>3, <2>1, <2>4 DEF Fresh, ToAdd, ToRemove, Id, Updating, table
  <2> QED
    BY <1>1, <1>3, <2>1, <2>3, <2>5, UpdatingKeepsIInv DEF TypeOK, Updating
<1> QED
  BY <1>2, <1>3 DEF RelateSkills

(* What was loaded, less what went, with what came, is what was asked. *)
LEMMA StoreProfileKeepsIInv ==
  ASSUME IInv, NEW s \in Sessions, StoreProfile(s)
  PROVE  IInv'
<1>1. /\ TypeOK /\ Fresh(s) /\ pc[s] = "store" /\ pc[s] \in Updating
      /\ catalogue' = catalogue \cup created[s]
      /\ skills' = [skills EXCEPT ![Id(s)] = (@ \ removed[s]) \cup related[s]]
      /\ created' = [created EXCEPT ![s] = {}]
      /\ related' = [related EXCEPT ![s] = {}]
      /\ removed' = [removed EXCEPT ![s] = {}]
      /\ Outdate(s) /\ Goto(s, "answer")
      /\ UNCHANGED <<account, profile, request, inserted, loaded, found>>
  BY DEF StoreProfile, IInv, Sound, Updating
<1>2. PICK i \in Ids : i = Id(s)
  BY <1>1, SkillsFacts
<1>3. \A j \in Ids : skills'[j] =
        IF j = i THEN (skills[j] \ removed[s]) \cup related[s] ELSE skills[j]
  BY <1>1, <1>2 DEF TypeOK
<1>4. /\ stale' \in [Sessions -> BOOLEAN]
      /\ stale'[s] <=> stale[s]
      /\ \A t \in Sessions \ {s} : ~stale'[t] =>
           /\ ~stale[t]
           /\ pc[t] = "idle" \/ request[t].op # "update" \/ request[t].id # i
  BY <1>1, <1>2, OutdateFacts, SkillsFacts DEF Id
<1>5. TypeOK'
  <2>1. catalogue' \subseteq Names /\ skills' \in [Ids -> SUBSET Names]
    BY <1>1, <1>2 DEF TypeOK
  <2> QED
    BY <1>1, <1>4, <2>1 DEF TypeOK, Goto, Labels
<1>6. AccountsWhole'
  BY <1>1 DEF IInv, AccountsWhole
<1>7. pc'[s] = "answer" /\ OthersSame(s)
  BY <1>1 DEF TypeOK, Goto, OthersSame
<1>8. ASSUME NEW t \in Sessions PROVE Serving(t)' /\ Holding(t)'
  <2>1. Serving(t) /\ Holding(t)
    BY DEF IInv, Sound
  <2>2. pc'[t] = pc[t] \/ (t = s /\ pc'[t] = "answer")
    BY <1>7 DEF OthersSame
  <2>3. Serving(t)'
    BY <1>1, <2>1, <2>2 DEF Serving, Id, Updating
  <2>4. \A u \in Sessions : pc'[u] = "commit" <=> pc[u] = "commit"
    BY <1>1, <1>7 DEF OthersSame
  <2>5. Holding(t)'
    BY <1>1, <2>1, <2>4 DEF Holding, email_exists
  <2> QED
    BY <2>3, <2>5
<1>9. ASSUME NEW t \in Sessions \ {s} PROVE Fresh(t)' /\ Answered(t)'
  <2>1. /\ pc'[t] = pc[t] /\ related'[t] = related[t] /\ removed'[t] = removed[t]
        /\ Serving(t) /\ Fresh(t) /\ Answered(t) /\ (~stale'[t] => ~stale[t])
    BY <1>4, <1>7 DEF OthersSame, IInv, Sound
  <2>2. ASSUME pc[t] \in Updating \cup {"answer"}, request[t].op = "update", ~stale'[t]
        PROVE  skills'[Id(t)] = skills[Id(t)]
    <3>1. Id(t) \in Ids /\ Id(t) # i
      BY <1>4, <2>1, <2>2, IdFacts DEF Serving, Updating, Id
    <3> QED
      BY <1>3, <3>1
  <2>3. Fresh(t)'
    <3>1. pc[t] \in Updating => request[t].op = "update"
      BY <2>1 DEF Serving
    <3> QED
      BY <1>1, <2>1, <2>2, <3>1 DEF Fresh, Id, ToAdd, ToRemove, Missing
  <2>4. Answered(t)'
    BY <1>1, <2>1, <2>2 DEF Answered, Id
  <2> QED
    BY <2>3, <2>4
<1>10. Fresh(s)' /\ Answered(s)'
  <2>1. ~stale[s] => skills'[i] = request[s].skills
    <3>1. ~stale[s] => /\ skills[i] = loaded[s].skills
                       /\ removed[s] = loaded[s].skills \ request[s].skills
                       /\ related[s] = request[s].skills \ loaded[s].skills
      BY <1>1, <1>2 DEF Fresh, ToAdd, ToRemove
    <3> QED
      BY <1>3, <3>1
  <2>2. request[s].op = "update"
    BY <1>1, SkillsFacts
  <2> QED
    BY <1>1, <1>2, <1>4, <1>7, <2>1, <2>2 DEF Fresh, Answered, Updating, Id
<1> QED
  BY <1>5, <1>6, <1>8, <1>9, <1>10 DEF IInv, Sound

-----------------------------------------------------------------------------
LEMMA ServeKeepsIInv ==
  ASSUME IInv, NEW s \in Sessions, Serve(s)
  PROVE  IInv'
<1>1. CASE InsertUser(s) \/ CommitUser(s)
  BY <1>1, InsertUserKeepsIInv, CommitUserKeepsIInv
<1>2. CASE Save(s)
  BY <1>2, SaveKeepsIInv
<1>3. CASE Lookup(s) \/ CreateSkill(s)
  BY <1>3, LookupKeepsIInv, CreateSkillKeepsIInv
<1>4. CASE DeleteSkills(s) \/ RelateSkills(s) \/ StoreProfile(s)
  BY <1>4, DeleteSkillsKeepsIInv, RelateSkillsKeepsIInv, StoreProfileKeepsIInv
<1>5. CASE Reload(s) \/ StepFails(s) \/ BreakDeadlock(s)
  BY <1>5, AnswerKeepsIInv DEF Reload, StepFails, BreakDeadlock
<1> QED
  BY <1>1, <1>2, <1>3, <1>4, <1>5 DEF Serve

(* The default administrator's e-mail is one of the e-mails.               *)
LEMMA NextKeepsIInv == IInv /\ [Next]_vars => IInv'
<1> SUFFICES ASSUME IInv, [Next]_vars PROVE IInv'
  OBVIOUS
<1>1. CASE UNCHANGED vars
  BY <1>1 DEF vars, table, session, IInv, TypeOK, AccountsWhole, Sound, Serving, Holding, Fresh,
     Answered, email_exists, Id, ToAdd, ToRemove, Missing
<1>2. ASSUME NEW s \in Sessions, RegisterNewUser(s) \/ CreateDefaultAdmin(s) PROVE IInv'
  BY <1>2, CreateUserKeepsIInv, AdminEmailAssumption DEF RegisterNewUser, CreateDefaultAdmin, Roles
<1>3. ASSUME NEW s \in Sessions, AskUsers(s) \/ AskCurators(s) PROVE IInv'
  BY <1>3, AskKeepsIInv, CreateUserKeepsIInv DEF AskUsers, AskCurators, CreateCurator, Roles
<1> QED
  BY <1>1, <1>2, <1>3, ServeKeepsIInv DEF Next

(* IInv holds of every state that can be reached.                          *)
THEOREM Invariance == Spec => []IInv
BY InitIInv, NextKeepsIInv, PTL DEF Spec

(* Every variable keeps its type.                                          *)
THEOREM TypeCorrect == Spec => []TypeOK
<1>1. IInv => TypeOK
  BY DEF IInv
<1> QED
  BY Invariance, <1>1, PTL

(* An account has a profile and an e-mail of its own, however many         *)
(* registrations and starting processes race for it.                       *)
THEOREM Whole == Spec => []AccountsWhole
<1>1. IInv => AccountsWhole
  BY DEF IInv
<1> QED
  BY Invariance, <1>1, PTL

(* What is answered as stored is stored, unless a request for the same has *)
(* been answered since.                                                    *)
THEOREM AsAsked == Spec => []AnsweredAsAsked
<1>1. IInv => AnsweredAsAsked
  <2> SUFFICES ASSUME IInv, NEW s \in Sessions, pc[s] = "answer", ~stale[s]
               PROVE  CASE request[s].op = "password" ->
                             account[Id(s)].password = request[s].password
                        [] request[s].op = "verify" ->
                             account[Id(s)].is_verified = request[s].is_verified
                        [] request[s].op = "update" -> skills[Id(s)] = request[s].skills
    BY DEF AnsweredAsAsked
  <2>1. request[s].op \in {"password", "verify", "update"} /\ Answered(s)
    BY DEF IInv, Sound, Serving
  <2> QED
    BY <2>1 DEF Answered
<1> QED
  BY Invariance, <1>1, PTL
=============================================================================
