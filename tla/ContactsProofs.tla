--------------------------- MODULE ContactsProofs ---------------------------
(***************************************************************************)
(* Proofs about Contacts, for any users, roles and number of requests at a *)
(* time.                                                                   *)
(*                                                                         *)
(* Contacts only move on, and those who have been contacts stay so, if     *)
(* only as a contact broken off: what a recommendation was allowed by has  *)
(* left its trace when it is stored.  What a viewer has loaded, or found,  *)
(* is something that was true at a moment of its request, and seen         *)
(* remembers it (Viewing), whichever keys the settings have.               *)
(***************************************************************************)
EXTENDS Contacts, FiniteSetTheorems, TLAPS

Accepted(u, v) == contact[u][v] = "ACCEPTED" \/ contact[v][u] = "ACCEPTED"

Trace(u, v) ==
  contact[u][v] \in {"ACCEPTED", "BLOCKED"} \/ contact[v][u] \in {"ACCEPTED", "BLOCKED"}

(* A request that is being served is one of the right kind for its step.   *)
Serving(s) ==
  /\ pc[s] # "idle" => request[s] \in Request
  /\ pc[s] = "store" => request[s].op = "contact"
  /\ pc[s] \in {"flush", "announce"} =>
       /\ request[s].op = "recommend"
       /\ request[s].by # request[s].to
       /\ Trace(request[s].by, request[s].to)
  /\ pc[s] = "check" => request[s].op \in {"search", "detail"}
  /\ pc[s] = "show" => request[s].op \in Views
  /\ pc[s] = "mark" => request[s].op = "mark"

(* The key of a recommendation on its way is nobody else's.                *)
Keys ==
  /\ \A i \in Ids : recommendation[i] # NoRow => i \in issued
  /\ \A s \in Sessions : pc[s] = "announce" =>
       /\ flushed[s] \in issued
       /\ recommendation[flushed[s]] = NoRow
       /\ \A t \in Sessions \ {s} : pc[t] = "announce" => flushed[t] # flushed[s]

Viewing(s) ==
  /\ pc[s] \in {"check", "show"} =>
       /\ request[s].op \in {"search", "list"} => seen[s].listed
       /\ IsPublic(loaded[s]) => seen[s].public
       /\ ShowsDetail(request[s].by, loaded[s]) /\ ShowsContacts(loaded[s]) => seen[s].open
       /\ Accepted(request[s].by, request[s].to) => seen[s].contact
  /\ is_contact[s] => pc[s] = "show" /\ seen[s].contact

IInv ==
  /\ TypeOK
  /\ StoredIsAnnounced
  /\ RecommendedByContacts
  /\ Keys
  /\ \A s \in Sessions : Serving(s) /\ Viewing(s)

-----------------------------------------------------------------------------
LEMMA AcceptedFacts ==
  ASSUME NEW u \in Users, NEW v \in Users
  PROVE  AcceptedBetween(u, v) # {} <=> Accepted(u, v)
<1>1. <<u, v>>[1] = u /\ <<u, v>>[2] = v /\ <<v, u>>[1] = v /\ <<v, u>>[2] = u
  OBVIOUS
<1>2. CASE contact[u][v] = "ACCEPTED"
  <2>1. <<u, v>> \in AcceptedBetween(u, v)
    BY <1>1, <1>2 DEF AcceptedBetween, RowsBetween
  <2> QED
    BY <1>2, <2>1 DEF Accepted
<1>3. CASE contact[v][u] = "ACCEPTED"
  <2>1. <<v, u>> \in AcceptedBetween(u, v)
    BY <1>1, <1>3 DEF AcceptedBetween, RowsBetween
  <2> QED
    BY <1>3, <2>1 DEF Accepted
<1>4. ASSUME NEW p \in AcceptedBetween(u, v) PROVE Accepted(u, v)
  <2>1. p \in {<<u, v>>, <<v, u>>} /\ contact[p[1]][p[2]] = "ACCEPTED"
    BY <1>4 DEF AcceptedBetween, RowsBetween
  <2> QED
    BY <1>1, <2>1 DEF Accepted
<1> QED
  BY <1>2, <1>3, <1>4 DEF Accepted

LEMMA TraceFacts ==
  ASSUME NEW u \in Users, NEW v \in Users
  PROVE  WereContacts(u, v) <=> Trace(u, v)
<1>1. <<u, v>>[1] = u /\ <<u, v>>[2] = v /\ <<v, u>>[1] = v /\ <<v, u>>[2] = u
  OBVIOUS
<1>2. ASSUME Trace(u, v) PROVE WereContacts(u, v)
  <2>1. CASE contact[u][v] \in {"ACCEPTED", "BLOCKED"}
    <3>1. <<u, v>> \in RowsBetween(u, v)
      BY <1>1, <2>1 DEF RowsBetween
    <3> QED
      BY <1>1, <2>1, <3>1 DEF WereContacts
  <2>2. CASE contact[v][u] \in {"ACCEPTED", "BLOCKED"}
    <3>1. <<v, u>> \in RowsBetween(u, v)
      BY <1>1, <2>2 DEF RowsBetween
    <3> QED
      BY <1>1, <2>2, <3>1 DEF WereContacts
  <2> QED
    BY <1>2, <2>1, <2>2 DEF Trace
<1>3. ASSUME WereContacts(u, v) PROVE Trace(u, v)
  <2>1. PICK p \in RowsBetween(u, v) : contact[p[1]][p[2]] \in {"ACCEPTED", "BLOCKED"}
    BY <1>3 DEF WereContacts
  <2>2. p = <<u, v>> \/ p = <<v, u>>
    BY <2>1 DEF RowsBetween
  <2> QED
    BY <1>1, <2>1, <2>2 DEF Trace
<1> QED
  BY <1>2, <1>3

LEMMA OneAccepted ==
  ASSUME NEW u \in Users, NEW v \in Users, Cardinality(AcceptedBetween(u, v)) = 1
  PROVE  Accepted(u, v)
<1>1. AcceptedBetween(u, v) # {}
  BY FS_EmptySet
<1> QED
  BY <1>1, AcceptedFacts

(* What the settings say is true or false. *)
LEMMA SettingsFacts ==
  ASSUME NEW p \in Settings
  PROVE  /\ IsPublic(p) \in BOOLEAN /\ Listed(p) \in BOOLEAN /\ ShowsContacts(p) \in BOOLEAN
         /\ Listed(p) => IsPublic(p)
<1>1. PICK K \in SUBSET {"public_profile", "show_contacts"} : p \in [K -> BOOLEAN]
  BY DEF Settings
<1> QED
  BY <1>1 DEF IsPublic, Listed, ShowsContacts, Says

LEMMA ByAndTo ==
  ASSUME NEW r \in Request, r.op # "mark"
  PROVE  r.by \in Users /\ r.to \in Users
BY DEF Request, Recruiters, Applicants

LEMMA ToApplicant ==
  ASSUME NEW r \in Request, r.op \in Views \cup {"recommend"}
  PROVE  r.by \in Users /\ r.to \in Applicants
BY DEF Request, Views, Recruiters, Applicants

LEMMA InitIInv == Init => IInv
<1> SUFFICES ASSUME Init PROVE IInv
  OBVIOUS
<1>1. TypeOK
  <2>1. [key \in {"public_profile", "show_contacts"} |-> key = "public_profile"] \in Settings
    <3>1. [key \in {"public_profile", "show_contacts"} |-> key = "public_profile"]
            \in [{"public_profile", "show_contacts"} -> BOOLEAN]
      OBVIOUS
    <3>2. {"public_profile", "show_contacts"} \in SUBSET {"public_profile", "show_contacts"}
      OBVIOUS
    <3> QED
      BY <3>1, <3>2, Zenon DEF Settings
  <2> QED
    BY <2>1 DEF Init, TypeOK, Statuses, Labels, Unseen, Moments
<1>2. StoredIsAnnounced /\ RecommendedByContacts
  BY DEF Init, StoredIsAnnounced, RecommendedByContacts
<1>3. Keys /\ \A s \in Sessions : Serving(s) /\ Viewing(s)
  BY DEF Init, Keys, Serving, Viewing
<1> QED
  BY <1>1, <1>2, <1>3 DEF IInv

(* What the answer of a request shows, from what it has loaded and found.  *)
LEMMA ShownFacts ==
  ASSUME IInv, NEW s \in Sessions, pc[s] = "show", request[s].by # request[s].to
  PROVE  /\ Fields(s) # {} =>
              IF request[s].op \in {"search", "list"} THEN seen[s].listed
              ELSE \/ seen[s].public
                   \/ request[s].op = "detail" /\ Role[request[s].by] = "CURATOR"
         /\ Fields(s) \cap {"contacts", "cv"} # {} => seen[s].open \/ seen[s].contact
<1>1. /\ request[s].op \in Views
      /\ request[s].op \in {"search", "list"} => seen[s].listed
      /\ IsPublic(loaded[s]) => seen[s].public
      /\ ShowsDetail(request[s].by, loaded[s]) /\ ShowsContacts(loaded[s]) => seen[s].open
      /\ is_contact[s] => seen[s].contact
  BY DEF IInv, Serving, Viewing
<1>2. CASE request[s].op = "search"
  <2>1. Fields(s) = SearchItem(s)
    BY <1>2 DEF Fields
  <2> QED
    BY <1>1, <1>2, <2>1 DEF SearchItem
<1>3. CASE request[s].op = "list"
  <2>1. Fields(s) = {"name"}
    BY <1>3 DEF Fields
  <2> QED
    BY <1>1, <1>3, <2>1
<1>4. CASE request[s].op = "detail"
  <2>1. Fields(s) = DetailFields(s)
    BY <1>4 DEF Fields
  <2>2. ASSUME NEW f \in Fields(s)
        PROVE  /\ seen[s].public \/ Role[request[s].by] = "CURATOR"
               /\ f \in {"contacts", "cv"} => seen[s].open \/ seen[s].contact
    BY <1>1, <2>1, <2>2 DEF DetailFields, ShowsDetail
  <2> QED
    BY <1>4, <2>2
<1>5. CASE request[s].op = "public"
  <2>1. Fields(s) = apply_privacy_filters(s)
    BY <1>5 DEF Fields
  <2>2. ASSUME NEW f \in Fields(s)
        PROVE  /\ seen[s].public
               /\ f \in {"contacts", "cv"} => seen[s].open
    BY <1>1, <2>1, <2>2 DEF apply_privacy_filters, ShowsDetail
  <2> QED
    BY <1>5, <2>2
<1> QED
  BY <1>1, <1>2, <1>3, <1>4, <1>5 DEF Views

(* RecommendedByContacts, put without sets of rows.                        *)
Recommended ==
  \A i \in Ids : recommendation[i] # NoRow =>
    /\ recommendation[i].sender_id # recommendation[i].recipient_id
    /\ Trace(recommendation[i].sender_id, recommendation[i].recipient_id)

LEMMA RecommendedFacts == TypeOK => (RecommendedByContacts <=> Recommended)
<1> SUFFICES ASSUME TypeOK, NEW i \in Ids, recommendation[i] # NoRow
             PROVE  WereContacts(recommendation[i].sender_id, recommendation[i].recipient_id)
                      <=> Trace(recommendation[i].sender_id, recommendation[i].recipient_id)
  BY DEF RecommendedByContacts, Recommended
<1>1. recommendation[i].sender_id \in Users /\ recommendation[i].recipient_id \in Users
  BY DEF TypeOK, Recommendation, Applicants
<1> QED
  BY <1>1, TraceFacts

LEMMA RecommendedAfter == (TypeOK => (RecommendedByContacts <=> Recommended))'
BY RecommendedFacts, PTL

-----------------------------------------------------------------------------
OthersSame(s) ==
  \A u \in Sessions \ {s} :
    /\ pc'[u] = pc[u] /\ request'[u] = request[u] /\ loaded'[u] = loaded[u]
    /\ is_contact'[u] = is_contact[u] /\ seen'[u] = seen[u] /\ flushed'[u] = flushed[u]

(* A step of session s after which the same users are contacts: what the   *)
(* other requests rely on is left alone.                                   *)
LEMMA OneRequest ==
  ASSUME IInv, NEW s \in Sessions, OthersSame(s), TypeOK',
         \A u, v \in Users : Accepted(u, v)' <=> Accepted(u, v),
         \A u, v \in Users : Trace(u, v) => Trace(u, v)',
         StoredIsAnnounced', RecommendedByContacts', Keys',
         Serving(s)', Viewing(s)'
  PROVE  IInv'
<1>1. ASSUME NEW u \in Sessions \ {s} PROVE Serving(u)' /\ Viewing(u)'
  <2>1. /\ pc'[u] = pc[u] /\ request'[u] = request[u] /\ loaded'[u] = loaded[u]
        /\ is_contact'[u] = is_contact[u] /\ seen'[u] = seen[u]
        /\ Serving(u) /\ Viewing(u)
    BY DEF OthersSame, IInv
  <2>2. pc[u] \in {"flush", "announce", "check", "show"} =>
          request[u].by \in Users /\ request[u].to \in Users
    BY <2>1, ByAndTo DEF Serving, Views
  <2>3. pc[u] \in {"flush", "announce", "check", "show"} =>
          /\ Accepted(request[u].by, request[u].to)' <=> Accepted(request[u].by, request[u].to)
          /\ Trace(request[u].by, request[u].to) => Trace(request[u].by, request[u].to)'
    BY <2>1, <2>2 DEF Accepted, Trace
  <2>4. Serving(u)'
    BY <2>1, <2>3 DEF Serving
  <2>5. Viewing(u)'
    BY <2>1, <2>3 DEF Viewing
  <2> QED
    BY <2>4, <2>5
<1> QED
  BY <1>1 DEF IInv

(* A step of session s that leaves the tables alone.                       *)
LEMMA GoOnKeepsIInv ==
  ASSUME IInv, NEW s \in Sessions, OthersSame(s), TypeOK', UNCHANGED table,
         pc'[s] # "announce",
         Serving(s)', Viewing(s)'
  PROVE  IInv'
<1>1. \A u, v \in Users :
        (Accepted(u, v)' <=> Accepted(u, v)) /\ (Trace(u, v) => Trace(u, v)')
  BY DEF Accepted, Trace, table
<1>2. StoredIsAnnounced'
  BY DEF IInv, StoredIsAnnounced, table
<1>3. RecommendedByContacts'
  BY DEF IInv, RecommendedByContacts, WereContacts, RowsBetween, table
<1>4. Keys'
  BY DEF IInv, Keys, OthersSame, table
<1> QED
  BY <1>1, <1>2, <1>3, <1>4, OneRequest

(* The end of a request.                                                   *)
LEMMA AnswerFacts ==
  ASSUME TypeOK, NEW s \in Sessions, Answer(s)
  PROVE  /\ flushed' \in [Sessions -> Ids \cup {NoRow}]
         /\ pc' \in [Sessions -> Labels]
         /\ request' \in [Sessions -> Request \cup {NoRequest}]
         /\ loaded' \in [Sessions -> Settings \cup {NoRow}]
         /\ is_contact' \in [Sessions -> BOOLEAN]
         /\ seen' \in [Sessions -> Moments]
         /\ OthersSame(s) /\ pc'[s] = "idle"
         /\ Serving(s)' /\ Viewing(s)'
<1>1. pc'[s] = "idle" /\ ~is_contact'[s]
  BY DEF Answer, Goto, TypeOK
<1>2. Serving(s)' /\ Viewing(s)'
  BY <1>1 DEF Serving, Viewing
<1> QED
  BY <1>1, <1>2 DEF Answer, Goto, TypeOK, Labels, Unseen, Moments, OthersSame

LEMMA AnswerKeepsIInv ==
  ASSUME IInv, NEW s \in Sessions, Answer(s), UNCHANGED <<table, privacy>>
  PROVE  IInv'
<1>1. TypeOK'
  BY AnswerFacts DEF IInv, TypeOK, table
<1> QED
  BY <1>1, AnswerFacts, GoOnKeepsIInv DEF IInv

(* A request comes in that is not a view.                                  *)
LEMMA BeginKeepsIInv ==
  ASSUME IInv, NEW s \in Sessions, NEW r \in Request, NEW label \in {"store", "flush", "mark"},
         Begin(s, r, label),
         UNCHANGED <<table, privacy, flushed, loaded, is_contact, seen>>,
         label = "store" => r.op = "contact",
         label = "mark" => r.op = "mark",
         label = "flush" => r.op = "recommend" /\ r.by # r.to /\ Trace(r.by, r.to)
  PROVE  IInv'
<1>1. /\ pc[s] = "idle" /\ pc'[s] = label /\ request'[s] = r
      /\ OthersSame(s)
  BY DEF Begin, Goto, IInv, TypeOK, OthersSame
<1>2. TypeOK'
  BY DEF Begin, Goto, IInv, TypeOK, table, Labels
<1>3. Serving(s)'
  BY <1>1 DEF Serving, Trace, table
<1>4. Viewing(s)'
  <2>1. ~is_contact[s]
    BY <1>1 DEF IInv, Viewing
  <2> QED
    BY <1>1, <2>1 DEF Viewing
<1> QED
  BY <1>1, <1>2, <1>3, <1>4, GoOnKeepsIInv

LEMMA AskKeepsIInv ==
  ASSUME IInv, NEW s \in Sessions, NEW u \in Users
  PROVE  /\ \A a \in Users : u \in Recruiters /\ SendContactRequest(s, u, a) => IInv'
         /\ \A v \in Users : CreateRecommendation(s, u, v) => IInv'
         /\ \A id \in Ids : MarkAsRead(s, u, id) => IInv'
<1>1. ASSUME NEW a \in Users, u \in Recruiters, SendContactRequest(s, u, a) PROVE IInv'
  <2>1. [op |-> "contact", by |-> u, to |-> a] \in Request
    BY <1>1 DEF Request
  <2> QED
    BY <1>1, <2>1, BeginKeepsIInv DEF SendContactRequest
<1>2. ASSUME NEW v \in Users, CreateRecommendation(s, u, v) PROVE IInv'
  <2>1. [op |-> "recommend", by |-> u, to |-> v] \in Request
    BY <1>2 DEF Request, CreateRecommendation
  <2>2. Trace(u, v)
    BY <1>2, OneAccepted DEF CreateRecommendation, check_contact_relationship, Accepted, Trace
  <2> QED
    BY <1>2, <2>1, <2>2, BeginKeepsIInv DEF CreateRecommendation
<1>3. ASSUME NEW id \in Ids, MarkAsRead(s, u, id) PROVE IInv'
  <2>1. [op |-> "mark", by |-> u, id |-> id] \in Request
    BY DEF Request
  <2> QED
    BY <1>3, <2>1, BeginKeepsIInv DEF MarkAsRead
<1> QED
  BY <1>1, <1>2, <1>3

-----------------------------------------------------------------------------
(* The tables. *)
LEMMA StoreContactKeepsIInv ==
  ASSUME IInv, NEW s \in Sessions, StoreContact(s)
  PROVE  IInv'
<1>1. /\ pc[s] = "store" /\ Answer(s) /\ UNCHANGED <<recommendation, issued, privacy>>
      /\ request[s] \in Request /\ request[s].op = "contact"
      /\ TypeOK
  BY DEF StoreContact, IInv, Serving
<1>2. PICK r \in Users, a \in Users : r = request[s].by /\ a = request[s].to
  BY <1>1, ByAndTo
<1>3. CASE UNCHANGED <<contact, notification>>
  BY <1>1, <1>3, AnswerKeepsIInv DEF table
<1>4. CASE /\ contact[r][a] = "NONE"
           /\ contact' = [contact EXCEPT ![r][a] = "PENDING"]
           /\ notification' = notification \cup
                {[type |-> "CONTACT_REQUEST", from |-> r, to |-> a]}
  <2>1. \A u, v \in Users :
          contact'[u][v] = IF u = r /\ v = a THEN "PENDING" ELSE contact[u][v]
    BY <1>1, <1>4 DEF TypeOK
  <2>2. contact' \in [Users -> [Users -> Statuses]]
    BY <1>1, <1>4 DEF TypeOK, Statuses
  <2>3. notification' \subseteq Notification
    BY <1>1, <1>4 DEF TypeOK, Notification
  <2>4. TypeOK'
    BY <1>1, <2>2, <2>3, AnswerFacts DEF TypeOK
  <2>5. \A u, v \in Users :
          (Accepted(u, v)' <=> Accepted(u, v)) /\ (Trace(u, v) => Trace(u, v)')
    BY <1>4, <2>1 DEF Accepted, Trace
  <2>6. StoredIsAnnounced'
    <3>1. \A u, v \in Users :
            [type |-> "CONTACT_REQUEST", from |-> u, to |-> v] \in notification' <=>
              [type |-> "CONTACT_REQUEST", from |-> u, to |-> v] \in notification
              \/ (u = r /\ v = a)
      BY <1>4
    <3>2. \A u \in Users, i \in Ids :
            [type |-> "RECOMMENDATION", to |-> u, id |-> i] \in notification' <=>
              [type |-> "RECOMMENDATION", to |-> u, id |-> i] \in notification
      BY <1>4
    <3> QED
      BY <1>1, <1>4, <2>1, <3>1, <3>2 DEF IInv, StoredIsAnnounced
  <2>7. RecommendedByContacts'
    <3>1. Recommended
      BY RecommendedFacts DEF IInv
    <3>2. \A i \in Ids : recommendation[i] # NoRow =>
            recommendation[i].sender_id \in Users /\ recommendation[i].recipient_id \in Users
      BY <1>1 DEF TypeOK, Recommendation, Applicants
    <3>3. Recommended'
      BY <1>1, <2>5, <3>1, <3>2 DEF Recommended
    <3> QED
      BY <2>4, <3>3, RecommendedAfter
  <2>8. Keys'
    <3>1. OthersSame(s) /\ pc'[s] = "idle"
      BY <1>1, AnswerFacts
    <3> QED
      BY <1>1, <3>1 DEF IInv, Keys, OthersSame
  <2> QED
    BY <1>1, <2>4, <2>5, <2>6, <2>7, <2>8, AnswerFacts, OneRequest
<1> QED
  BY <1>2, <1>3, <1>4 DEF StoreContact

(* The new key has not been handed out before. *)
LEMMA FlushRecommendationKeepsIInv ==
  ASSUME IInv, NEW s \in Sessions, FlushRecommendation(s)
  PROVE  IInv'
<1>1. PICK id \in Ids \ issued :
        issued' = issued \cup {id} /\ flushed' = [flushed EXCEPT ![s] = id]
  BY DEF FlushRecommendation
<1>2. /\ TypeOK /\ pc[s] = "flush" /\ Goto(s, "announce")
      /\ UNCHANGED <<contact, recommendation, notification, privacy, request, loaded,
                     is_contact, seen>>
  BY DEF FlushRecommendation, IInv
<1>3. /\ pc'[s] = "announce" /\ flushed'[s] = id
      /\ OthersSame(s)
  BY <1>1, <1>2 DEF Goto, TypeOK, OthersSame
<1>4. TypeOK'
  BY <1>1, <1>2 DEF Goto, TypeOK, Labels
<1>5. /\ StoredIsAnnounced'
      /\ \A u, v \in Users :
           (Accepted(u, v)' <=> Accepted(u, v)) /\ (Trace(u, v) => Trace(u, v)')
  BY <1>2 DEF IInv, StoredIsAnnounced, Accepted, Trace
<1>6. RecommendedByContacts'
  BY <1>2 DEF IInv, RecommendedByContacts, WereContacts, RowsBetween
<1>7. Keys'
  BY <1>1, <1>2, <1>3 DEF IInv, Keys, OthersSame
<1>8. Serving(s)'
  BY <1>2, <1>3 DEF IInv, Serving, Trace
<1>9. Viewing(s)'
  <2>1. ~is_contact[s]
    BY <1>2 DEF IInv, Viewing
  <2> QED
    BY <1>2, <1>3, <2>1 DEF Viewing
<1> QED
  BY <1>3, <1>4, <1>5, <1>6, <1>7, <1>8, <1>9, OneRequest

(* One COMMIT makes the recommendation and its notification durable.       *)
LEMMA AnnounceRecommendationKeepsIInv ==
  ASSUME IInv, NEW s \in Sessions, AnnounceRecommendation(s)
  PROVE  IInv'
<1>1. /\ TypeOK /\ pc[s] = "announce" /\ Answer(s)
      /\ UNCHANGED <<contact, issued, privacy>>
      /\ request[s] \in Request /\ request[s].op = "recommend"
      /\ request[s].by # request[s].to /\ Trace(request[s].by, request[s].to)
      /\ flushed[s] \in issued /\ recommendation[flushed[s]] = NoRow
  BY DEF AnnounceRecommendation, IInv, Serving, Keys
<1>2. PICK u \in Users, v \in Applicants : u = request[s].by /\ v = request[s].to
  BY <1>1, ToApplicant
<1>3. PICK id \in Ids : id = flushed[s]
  BY <1>1 DEF TypeOK
<1>4. v \in Users
  BY DEF Applicants
<1> DEFINE row  == [sender_id |-> u, recipient_id |-> v, is_read |-> FALSE]
           note == [type |-> "RECOMMENDATION", to |-> v, id |-> id]
<1>5. /\ recommendation' = [recommendation EXCEPT ![id] = row]
      /\ notification' = notification \cup {note}
  BY <1>2, <1>3 DEF AnnounceRecommendation
<1>6. row \in Recommendation /\ note \in Notification /\ row # NoRow
  <2>1. row \in Recommendation
    BY DEF Recommendation
  <2>2. note \in Notification
    BY <1>4 DEF Notification
  <2>3. row # NoRow
    BY <2>1, NoRowAssumption
  <2> QED
    BY <2>1, <2>2, <2>3
<1>7. \A i \in Ids : recommendation'[i] = IF i = id THEN row ELSE recommendation[i]
  BY <1>1, <1>5 DEF TypeOK
<1>8. TypeOK'
  BY <1>1, <1>5, <1>6, AnswerFacts DEF TypeOK
<1>9. StoredIsAnnounced'
  <2>1. \A r, a \in Users :
          [type |-> "CONTACT_REQUEST", from |-> r, to |-> a] \in notification' <=>
            [type |-> "CONTACT_REQUEST", from |-> r, to |-> a] \in notification
    BY <1>5
  <2>2. \A i \in Ids, w \in Users :
          [type |-> "RECOMMENDATION", to |-> w, id |-> i] \in notification' <=>
            [type |-> "RECOMMENDATION", to |-> w, id |-> i] \in notification
            \/ (i = id /\ w = v)
    BY <1>5
  <2>3. row.recipient_id = v
    OBVIOUS
  <2> HIDE DEF row, note
  <2>4. \A r, a \in Users :
          contact[r][a] # "NONE" <=>
            [type |-> "CONTACT_REQUEST", from |-> r, to |-> a] \in notification'
    BY <2>1 DEF IInv, StoredIsAnnounced
  <2>5. ASSUME NEW i \in Ids, NEW w \in Users
        PROVE  recommendation'[i] # NoRow /\ recommendation'[i].recipient_id = w <=>
                 [type |-> "RECOMMENDATION", to |-> w, id |-> i] \in notification'
    <3>1. CASE i = id
      <4>1. [type |-> "RECOMMENDATION", to |-> w, id |-> i] \notin notification
        BY <1>1, <1>3, <3>1 DEF IInv, StoredIsAnnounced
      <4> QED
        BY <1>6, <1>7, <2>2, <2>3, <3>1, <4>1
    <3>2. CASE i # id
      BY <1>7, <2>2, <3>2 DEF IInv, StoredIsAnnounced
    <3> QED
      BY <3>1, <3>2
  <2> QED
    BY <1>1, <2>4, <2>5 DEF StoredIsAnnounced
<1>10. RecommendedByContacts'
  <2>1. Recommended
    BY RecommendedFacts DEF IInv
  <2>2. Recommended'
    BY <1>1, <1>2, <1>7, <2>1 DEF Recommended, Trace
  <2> QED
    BY <1>8, <2>2, RecommendedAfter
<1>11. OthersSame(s) /\ pc'[s] = "idle" /\ Serving(s)' /\ Viewing(s)'
  BY <1>1, AnswerFacts
<1>12. Keys'
  <2>1. \A t \in Sessions \ {s} : pc[t] = "announce" => flushed[t] # id /\ flushed[t] \in issued
    BY <1>1, <1>3 DEF IInv, Keys
  <2>2. issued \subseteq Ids
    BY <1>1 DEF TypeOK
  <2>3. ASSUME NEW t \in Sessions, pc'[t] = "announce"
        PROVE  /\ t # s /\ pc[t] = "announce" /\ flushed'[t] = flushed[t]
               /\ flushed[t] \in issued /\ flushed[t] # id
               /\ recommendation'[flushed[t]] = NoRow
               /\ \A q \in Sessions \ {t} : pc'[q] = "announce" => flushed'[q] # flushed[t]
    <3>1. t # s /\ pc[t] = "announce" /\ flushed'[t] = flushed[t]
      BY <1>11, <2>3 DEF OthersSame
    <3>2. /\ flushed[t] \in issued /\ recommendation[flushed[t]] = NoRow
          /\ \A q \in Sessions \ {t} : pc[q] = "announce" => flushed[q] # flushed[t]
      BY <3>1 DEF IInv, Keys
    <3>3. \A q \in Sessions : pc'[q] = "announce" => pc[q] = "announce" /\ flushed'[q] = flushed[q]
      BY <1>11 DEF OthersSame
    <3> QED
      BY <1>7, <2>1, <2>2, <3>1, <3>2, <3>3
  <2>4. \A i \in Ids : recommendation'[i] # NoRow => i \in issued
    BY <1>1, <1>3, <1>7 DEF IInv, Keys
  <2> QED
    BY <1>1, <2>3, <2>4 DEF Keys
<1>13. \A p, q \in Users :
         (Accepted(p, q)' <=> Accepted(p, q)) /\ (Trace(p, q) => Trace(p, q)')
  BY <1>1 DEF Accepted, Trace
<1> QED
  BY <1>8, <1>9, <1>10, <1>11, <1>12, <1>13, OneRequest
-----------------------------------------------------------------------------
(* The views.  A request that is let in has seen what it has loaded.       *)
LEMMA LookFacts ==
  ASSUME NEW r \in Request, r.op \in Views,
         NEW old \in Moments,
         NEW p \in [Applicants -> Settings], NEW c
  PROVE  /\ Look(old, r, p, c) \in Moments
         /\ old.listed \/ Listed(p[r.to]) => Look(old, r, p, c).listed
         /\ old.public \/ IsPublic(p[r.to]) => Look(old, r, p, c).public
         /\ old.open \/ (ShowsDetail(r.by, p[r.to]) /\ ShowsContacts(p[r.to])) =>
              Look(old, r, p, c).open
         /\ old.contact \/ c[r.by][r.to] = "ACCEPTED" \/ c[r.to][r.by] = "ACCEPTED" =>
              Look(old, r, p, c).contact
<1>1. /\ IsPublic(p[r.to]) \in BOOLEAN /\ Listed(p[r.to]) \in BOOLEAN
      /\ ShowsContacts(p[r.to]) \in BOOLEAN
  BY ToApplicant, SettingsFacts
<1>2. ShowsDetail(r.by, p[r.to]) \in BOOLEAN
  BY <1>1 DEF ShowsDetail
<1> QED
  BY <1>1, <1>2 DEF Look, Moments

LEMMA ViewKeepsIInv ==
  ASSUME IInv, NEW s \in Sessions, NEW r \in Request, NEW label \in {"check", "show"},
         r.op \in Views, label = "check" => r.op \in {"search", "detail"},
         r.op \in {"search", "list"} => Listed(privacy[r.to]),
         View(s, r, label)
  PROVE  IInv'
<1>1. /\ TypeOK /\ pc[s] = "idle" /\ pc' = [pc EXCEPT ![s] = label]
      /\ request' = [request EXCEPT ![s] = r]
      /\ loaded' = [loaded EXCEPT ![s] = privacy[r.to]]
      /\ seen' = [seen EXCEPT ![s] = Look(Unseen, r, privacy, contact)]
      /\ UNCHANGED <<table, privacy, flushed, is_contact>>
  BY DEF View, Begin, Goto, IInv
<1>2. Unseen \in Moments
  BY DEF Unseen, Moments
<1>3. privacy \in [Applicants -> Settings] /\ privacy[r.to] \in Settings
  BY <1>1, ToApplicant DEF TypeOK
<1>4. /\ Look(Unseen, r, privacy, contact) \in
           Moments
      /\ Listed(privacy[r.to]) => Look(Unseen, r, privacy, contact).listed
      /\ IsPublic(privacy[r.to]) => Look(Unseen, r, privacy, contact).public
      /\ ShowsDetail(r.by, privacy[r.to]) /\ ShowsContacts(privacy[r.to]) =>
           Look(Unseen, r, privacy, contact).open
      /\ Accepted(r.by, r.to) => Look(Unseen, r, privacy, contact).contact
  BY <1>2, <1>3, LookFacts DEF Accepted
<1>5. TypeOK'
  BY <1>1, <1>3, <1>4 DEF TypeOK, Labels, table
<1>6. /\ pc'[s] = label /\ request'[s] = r /\ loaded'[s] = privacy[r.to]
      /\ seen'[s] = Look(Unseen, r, privacy, contact)
      /\ OthersSame(s)
  BY <1>1 DEF TypeOK, OthersSame
<1>7. Serving(s)'
  BY <1>6 DEF Serving
<1>8. Viewing(s)'
  <2>1. ~is_contact'[s]
    BY <1>1 DEF IInv, Viewing
  <2>2. Accepted(r.by, r.to)' => Look(Unseen, r, privacy, contact).contact
    BY <1>1, <1>4 DEF Accepted, table
  <2> QED
    BY <1>3, <1>4, <1>6, <2>1, <2>2 DEF Viewing, Accepted
<1> QED
  BY <1>1, <1>5, <1>6, <1>7, <1>8, GoOnKeepsIInv

LEMMA ViewsKeepIInv ==
  ASSUME IInv, NEW s \in Sessions, NEW v \in Users, NEW u \in Applicants
  PROVE  /\ v \in Recruiters /\ SearchApplicants(s, v, u) => IInv'
         /\ v \in Recruiters /\ GetApplicantDetail(s, v, u) => IInv'
         /\ ListApplicants(s, v, u) => IInv'
         /\ GetPublicProfile(s, v, u) => IInv'
<1>1. ASSUME v \in Recruiters, SearchApplicants(s, v, u) PROVE IInv'
  <2>1. [op |-> "search", by |-> v, to |-> u] \in Request
    BY <1>1 DEF Request
  <2> QED
    BY <1>1, <2>1, ViewKeepsIInv DEF SearchApplicants, Views
<1>2. ASSUME v \in Recruiters, GetApplicantDetail(s, v, u) PROVE IInv'
  <2>1. [op |-> "detail", by |-> v, to |-> u] \in Request
    BY <1>2 DEF Request
  <2>2. \/ View(s, [op |-> "detail", by |-> v, to |-> u], "check")
        \/ View(s, [op |-> "detail", by |-> v, to |-> u], "show")
    BY <1>2 DEF GetApplicantDetail
  <2> QED
    BY <2>1, <2>2, ViewKeepsIInv DEF Views
<1>3. ASSUME ListApplicants(s, v, u) PROVE IInv'
  <2>1. [op |-> "list", by |-> v, to |-> u] \in Request
    BY <1>3 DEF Request, ListApplicants
  <2> QED
    BY <1>3, <2>1, ViewKeepsIInv DEF ListApplicants, Views
<1>4. ASSUME GetPublicProfile(s, v, u) PROVE IInv'
  <2>1. [op |-> "public", by |-> v, to |-> u] \in Request
    BY DEF Request
  <2> QED
    BY <1>4, <2>1, ViewKeepsIInv DEF GetPublicProfile, Views
<1> QED
  BY <1>1, <1>2, <1>3, <1>4

(* A contact that is found has been seen.                                  *)
LEMMA CheckContactStatusKeepsIInv ==
  ASSUME IInv, NEW s \in Sessions, CheckContactStatus(s)
  PROVE  IInv'
<1>1. /\ TypeOK /\ Serving(s) /\ Viewing(s) /\ pc[s] = "check" /\ Goto(s, "show")
      /\ UNCHANGED <<table, privacy, flushed, request, loaded, seen>>
  BY DEF CheckContactStatus, IInv
<1>2. request[s].op \in Views /\ request[s] \in Request
  BY <1>1 DEF Serving, Views
<1>3. PICK u \in Users, v \in Users : u = request[s].by /\ v = request[s].to
  BY <1>2, ByAndTo DEF Views
<1>4. ~is_contact[s]
  BY <1>1 DEF Viewing
<1>5. \/ is_contact' = [is_contact EXCEPT ![s] = Cardinality(AcceptedBetween(u, v)) = 1]
      \/ UNCHANGED is_contact
  BY <1>3 DEF CheckContactStatus
<1>6. is_contact' \in [Sessions -> BOOLEAN] /\ \A t \in Sessions \ {s} : is_contact'[t] = is_contact[t]
  BY <1>1, <1>5, Zenon DEF TypeOK
<1>7. is_contact'[s] => Cardinality(AcceptedBetween(u, v)) = 1
  BY <1>1, <1>4, <1>5, Zenon DEF TypeOK
<1>8. is_contact'[s] => seen[s].contact
  BY <1>1, <1>3, <1>7, OneAccepted DEF Viewing
<1>9. /\ pc' \in [Sessions -> Labels] /\ pc'[s] = "show"
      /\ \A t \in Sessions \ {s} : pc'[t] = pc[t]
  BY <1>1 DEF Goto, TypeOK, Labels
<1>10. TypeOK' /\ OthersSame(s)
  BY <1>1, <1>6, <1>9 DEF TypeOK, OthersSame, table
<1>11. Serving(s)'
  BY <1>1, <1>2, <1>9 DEF Serving
<1>12. Viewing(s)'
  <2>1. Accepted(request[s].by, request[s].to)' <=> Accepted(request[s].by, request[s].to)
    BY <1>1 DEF Accepted, table
  <2> QED
    BY <1>1, <1>8, <1>9, <2>1 DEF Viewing
<1> QED
  BY <1>1, <1>9, <1>10, <1>11, <1>12, GoOnKeepsIInv

-----------------------------------------------------------------------------
(* Steps of the users, outside the requests: every view under way sees the *)
(* tables as they become.                                                  *)
SeenStays(s) ==
  /\ seen[s].listed => seen'[s].listed
  /\ seen[s].public => seen'[s].public
  /\ seen[s].open => seen'[s].open
  /\ seen[s].contact => seen'[s].contact

LEMMA EveryoneLooksFacts ==
  ASSUME IInv, NEW p \in [Applicants -> Settings], NEW c, EveryoneLooks(p, c)
  PROVE  /\ seen' \in [Sessions -> Moments]
         /\ \A s \in Sessions :
              /\ SeenStays(s)
              /\ pc[s] \in {"check", "show"}
                 /\ (c[request[s].by][request[s].to] = "ACCEPTED"
                     \/ c[request[s].to][request[s].by] = "ACCEPTED") => seen'[s].contact
<1>1. ASSUME NEW s \in Sessions
      PROVE  /\ seen'[s] \in Moments
             /\ SeenStays(s)
             /\ pc[s] \in {"check", "show"}
                /\ (c[request[s].by][request[s].to] = "ACCEPTED"
                    \/ c[request[s].to][request[s].by] = "ACCEPTED") => seen'[s].contact
  <2>1. /\ Serving(s) /\ seen[s] \in Moments
    BY DEF IInv, TypeOK
  <2>2. CASE pc[s] # "idle" /\ request[s].op \in Views
    <3>1. seen'[s] = Look(seen[s], request[s], p, c) /\ request[s] \in Request
      BY <2>1, <2>2 DEF EveryoneLooks, Serving
    <3> QED
      BY <2>1, <2>2, <3>1, LookFacts DEF SeenStays
  <2>3. CASE ~(pc[s] # "idle" /\ request[s].op \in Views)
    <3>1. seen'[s] = seen[s] /\ pc[s] \notin {"check", "show"}
      BY <2>1, <2>3 DEF EveryoneLooks, Serving, Views
    <3> QED
      BY <2>1, <3>1 DEF SeenStays
  <2> QED
    BY <2>2, <2>3
<1>2. seen' = [s \in Sessions |-> seen'[s]]
  BY DEF EveryoneLooks
<1> QED
  BY <1>1, <1>2

LEMMA UpdatePrivacyKeepsIInv ==
  ASSUME IInv, NEW u \in Applicants, UpdatePrivacy(u)
  PROVE  IInv'
<1>1. PICK settings \in Settings : privacy' = [privacy EXCEPT ![u] = settings]
  BY PatchesAssumption DEF UpdatePrivacy
<1>2. /\ TypeOK /\ EveryoneLooks(privacy', contact)
      /\ UNCHANGED <<table, flushed, pc, request, loaded, is_contact>>
  BY DEF UpdatePrivacy, IInv
<1>3. privacy' \in [Applicants -> Settings]
  BY <1>1, <1>2 DEF TypeOK
<1>4. /\ seen' \in [Sessions -> Moments]
      /\ \A s \in Sessions :
           /\ SeenStays(s)
  BY <1>2, <1>3, EveryoneLooksFacts
<1>5. TypeOK'
  BY <1>2, <1>3, <1>4 DEF TypeOK, table
<1>6. StoredIsAnnounced' /\ RecommendedByContacts' /\ Keys'
  BY <1>2 DEF IInv, StoredIsAnnounced, RecommendedByContacts, WereContacts, RowsBetween,
     Keys, table
<1>7. ASSUME NEW s \in Sessions PROVE Serving(s)' /\ Viewing(s)'
  <2>1. /\ Serving(s) /\ Viewing(s)
        /\ Accepted(request[s].by, request[s].to)' <=> Accepted(request[s].by, request[s].to)
        /\ Trace(request[s].by, request[s].to)' <=> Trace(request[s].by, request[s].to)
    BY <1>2 DEF IInv, Accepted, Trace, table
  <2>2. Serving(s)'
    BY <1>2, <2>1 DEF Serving
  <2>3. Viewing(s)'
    BY <1>2, <1>4, <2>1 DEF Viewing, SeenStays
  <2> QED
    BY <2>2, <2>3
<1> QED
  BY <1>5, <1>6, <1>7 DEF IInv

(* A contact moves on: it may cease to be accepted, not to have been. *)
LEMMA MoveContactKeepsIInv ==
  ASSUME IInv, NEW r \in Users, NEW a \in Users, MoveContact(r, a)
  PROVE  IInv'
<1>1. PICK new \in Statuses :
        /\ <<contact[r][a], new>> \in
             {<<"PENDING", "ACCEPTED">>, <<"PENDING", "REJECTED">>, <<"ACCEPTED", "BLOCKED">>}
        /\ contact' = [contact EXCEPT ![r][a] = new]
  BY DEF MoveContact
<1>2. /\ TypeOK
      /\ EveryoneLooks(privacy, contact')
      /\ UNCHANGED <<recommendation, issued, notification, privacy, flushed, pc, request,
                     loaded, is_contact>>
  BY DEF MoveContact, IInv
<1>3. /\ contact[r][a] \in {"PENDING", "ACCEPTED"} /\ new # "NONE"
      /\ contact[r][a] = "ACCEPTED" => new = "BLOCKED"
      /\ \A u, v \in Users :
           contact'[u][v] = IF u = r /\ v = a THEN new ELSE contact[u][v]
  <2>1. \/ contact[r][a] = "PENDING" /\ new = "ACCEPTED"
        \/ contact[r][a] = "PENDING" /\ new = "REJECTED"
        \/ contact[r][a] = "ACCEPTED" /\ new = "BLOCKED"
    BY <1>1
  <2> QED
    BY <1>1, <1>2, <2>1 DEF TypeOK
<1>4. privacy \in [Applicants -> Settings]
  BY <1>2 DEF TypeOK
<1>5. /\ seen' \in [Sessions -> Moments]
      /\ \A s \in Sessions :
           /\ SeenStays(s)
           /\ pc[s] \in {"check", "show"} /\ Accepted(request[s].by, request[s].to)' =>
                seen'[s].contact
  <2>1. \A s \in Sessions :
          Accepted(request[s].by, request[s].to)' <=>
            \/ contact'[request[s].by][request[s].to] = "ACCEPTED"
            \/ contact'[request[s].to][request[s].by] = "ACCEPTED"
    BY <1>2 DEF Accepted
  <2> QED
    BY <1>2, <1>4, <2>1, EveryoneLooksFacts
<1>6. TypeOK'
  <2>1. contact' \in [Users -> [Users -> Statuses]]
    BY <1>1, <1>2 DEF TypeOK
  <2> QED
    BY <1>2, <1>5, <2>1 DEF TypeOK
<1>7. StoredIsAnnounced'
  BY <1>2, <1>3 DEF IInv, StoredIsAnnounced
<1>8. Keys'
  BY <1>2 DEF IInv, Keys
<1>9. \A u, v \in Users : Trace(u, v) => Trace(u, v)'
  <2>1. ASSUME NEW u \in Users, NEW v \in Users, contact[u][v] \in {"ACCEPTED", "BLOCKED"}
        PROVE  contact'[u][v] \in {"ACCEPTED", "BLOCKED"}
    BY <1>3, <2>1
  <2> QED
    BY <2>1 DEF Trace
<1>10. RecommendedByContacts'
  <2>1. Recommended
    BY RecommendedFacts DEF IInv
  <2>2. \A i \in Ids : recommendation[i] # NoRow =>
          recommendation[i].sender_id \in Users /\ recommendation[i].recipient_id \in Users
    BY <1>2 DEF TypeOK, Recommendation, Applicants
  <2>3. Recommended'
    BY <1>2, <1>9, <2>1, <2>2 DEF Recommended
  <2> QED
    BY <1>6, <2>3, RecommendedAfter
<1>11. ASSUME NEW s \in Sessions PROVE Serving(s)' /\ Viewing(s)'
  <2>1. Serving(s) /\ Viewing(s)
    BY DEF IInv
  <2>2. pc[s] \in {"flush", "announce"} => request[s].by \in Users /\ request[s].to \in Users
    BY <2>1, ByAndTo DEF Serving
  <2>3. pc[s] \in {"flush", "announce"} => Trace(request[s].by, request[s].to)'
    BY <1>2, <1>9, <2>1, <2>2 DEF Serving, Trace
  <2>4. Serving(s)'
    BY <1>2, <2>1, <2>3 DEF Serving
  <2>5. Viewing(s)'
    BY <1>2, <1>5, <2>1 DEF Viewing, SeenStays
  <2> QED
    BY <2>4, <2>5
<1> QED
  BY <1>6, <1>7, <1>8, <1>10, <1>11 DEF IInv

-----------------------------------------------------------------------------
LEMMA ServeKeepsIInv ==
  ASSUME IInv, NEW s \in Sessions, Serve(s)
  PROVE  IInv'
<1>1. CASE StoreContact(s)
  BY <1>1, StoreContactKeepsIInv
<1>2. CASE FlushRecommendation(s)
  BY <1>2, FlushRecommendationKeepsIInv
<1>3. CASE AnnounceRecommendation(s)
  BY <1>3, AnnounceRecommendationKeepsIInv
<1>4. CASE CheckContactStatus(s)
  BY <1>4, CheckContactStatusKeepsIInv
<1>5. CASE FinishMark(s) \/ Show(s) \/ StepFails(s)
  BY <1>5, AnswerKeepsIInv DEF FinishMark, Show, StepFails
<1> QED
  BY <1>1, <1>2, <1>3, <1>4, <1>5 DEF Serve

LEMMA NextKeepsIInv == IInv /\ [Next]_vars => IInv'
<1> SUFFICES ASSUME IInv, [Next]_vars PROVE IInv'
  OBVIOUS
<1>1. CASE UNCHANGED vars
  BY <1>1 DEF vars, table, session, IInv, TypeOK, StoredIsAnnounced, RecommendedByContacts,
     WereContacts, RowsBetween, Keys, Serving, Viewing, Accepted, Trace
<1>2. ASSUME NEW s \in Sessions, AskApplicants(s) PROVE IInv'
  <2>1. PICK v \in Recruiters :
          \/ \E a \in Users : SendContactRequest(s, v, a)
          \/ \E u \in Applicants : SearchApplicants(s, v, u) \/ GetApplicantDetail(s, v, u)
    BY <1>2 DEF AskApplicants
  <2>2. v \in Users
    BY DEF Recruiters
  <2> QED
    BY <2>1, <2>2, AskKeepsIInv, ViewsKeepIInv
<1>3. ASSUME NEW s \in Sessions, AskUsers(s) PROVE IInv'
  BY <1>3, ViewsKeepIInv DEF AskUsers
<1>4. ASSUME NEW s \in Sessions, AskRecommendations(s) PROVE IInv'
  BY <1>4, AskKeepsIInv DEF AskRecommendations
<1> QED
  BY <1>1, <1>2, <1>3, <1>4, ServeKeepsIInv, MoveContactKeepsIInv, UpdatePrivacyKeepsIInv
     DEF Next

(* IInv holds of every state that can be reached.                          *)
THEOREM Invariance == Spec => []IInv
BY InitIInv, NextKeepsIInv, PTL DEF Spec

(* Every variable keeps its type.                                          *)
THEOREM TypeCorrect == Spec => []TypeOK
<1>1. IInv => TypeOK
  BY DEF IInv
<1> QED
  BY Invariance, <1>1, PTL

(* A contact request or recommendation is stored exactly when its          *)
(* addressee has been notified of it.                                      *)
THEOREM Announced == Spec => []StoredIsAnnounced
<1>1. IInv => StoredIsAnnounced
  BY DEF IInv
<1> QED
  BY Invariance, <1>1, PTL

(* A recommendation goes from one side of a contact to the applicant on    *)
(* the other: accepted, or since broken off, never one only asked for or   *)
(* rejected, however long ago the check was made.                          *)
THEOREM AmongContacts == Spec => []RecommendedByContacts
<1>1. IInv => RecommendedByContacts
  BY DEF IInv
<1> QED
  BY Invariance, <1>1, PTL

(* What a view is about to answer is what the owner's settings, or a       *)
(* contact, opened to this viewer at a moment of the request, for every    *)
(* dictionary the settings may be (_to_search_item, _to_detail_response,   *)
(* apply_privacy_filters).                                                 *)
THEOREM Consent == Spec => []ShownByConsent
<1>1. IInv => ShownByConsent
  BY ShownFacts DEF ShownByConsent
<1> QED
  BY Invariance, <1>1, PTL
=============================================================================
