------------------------------ MODULE Contacts ------------------------------
(***************************************************************************)
(* Contacts between users, the recommendations they allow and the parts of *)
(* an applicant's profile they open: the contact request endpoint,         *)
(* RecommendationService, ApplicantService and PrivacyFilterService.       *)
(*                                                                         *)
(* A request is a process that runs from one await to the next on its own  *)
(* session.  No code of the program accepts, rejects or blocks a contact;  *)
(* that is written into the table from outside, as the tests do.           *)
(***************************************************************************)
EXTENDS FiniteSets

CONSTANTS
  Users,
  Role,       \* Role[u]: "APPLICANT", "EMPLOYER" or "CURATOR"
  Ids,        \* primary keys new recommendations may get
  Patches,    \* the dictionaries an applicant may send as privacy_settings
  Sessions,   \* requests served at the same time
  Failing,    \* labels of the steps at which the database may fail
  NoRow,
  NoRequest

Applicants == {u \in Users : Role[u] = "APPLICANT"}
Recruiters == {u \in Users : Role[u] \in {"EMPLOYER", "CURATOR"}}

ASSUME RoleAssumption == Role \in [Users -> {"APPLICANT", "EMPLOYER", "CURATOR"}]

VARIABLES
  contact,        \* contact[r][a]: status of the row with requester r, addressee a
  recommendation, \* the recommendations table: committed rows by primary key
  issued,         \* keys already handed out
  notification,   \* committed notifications
  privacy,        \* privacy[u]: Profile.privacy_settings of an applicant
  flushed,        \* flushed[s]: key of the recommendation inserted and not committed
  pc,             \* pc[s]: where the request of session s stands
  request,        \* request[s]: what it was asked
  loaded,         \* loaded[s]: the settings of the profile the session has read
  is_contact,     \* is_contact[s]: the outcome of its look for a contact
  seen            \* auxiliary: what has been true at some moment of the request

table   == <<contact, recommendation, issued, notification>>
session == <<flushed, pc, request, loaded, is_contact, seen>>
vars    == <<table, privacy, session>>

Labels   == {"idle", "store", "flush", "announce", "mark", "check", "show"}
Statuses == {"NONE", "PENDING", "ACCEPTED", "REJECTED", "BLOCKED"}

(* privacy_settings is a free dictionary: either key may be missing.       *)
Settings == UNION {[K -> BOOLEAN] : K \in SUBSET {"public_profile", "show_contacts"}}

ASSUME PatchesAssumption == Patches \subseteq Settings

Says(settings, key, default) == IF key \in DOMAIN settings THEN settings[key] ELSE default

(* What a missing key means: the views of one profile take it to be        *)
(* public, the queries of the two searches do not.                         *)
IsPublic(settings) == Says(settings, "public_profile", TRUE)
Listed(settings) == Says(settings, "public_profile", FALSE)
ShowsContacts(settings) == Says(settings, "show_contacts", FALSE)

(* get_applicant_detail answers at once for a hidden profile, unless a     *)
(* curator asks.                                                           *)
ShowsDetail(v, settings) == IsPublic(settings) \/ Role[v] = "CURATOR"

Request ==
       [op : {"contact"}, by : Recruiters, to : Users]
  \cup [op : {"recommend"}, by : Users, to : Applicants]
  \cup [op : {"mark"}, by : Users, id : Ids]
  \cup [op : {"search", "detail", "list"}, by : Recruiters, to : Applicants]
  \cup [op : {"public"}, by : Users, to : Applicants]

Recommendation == [sender_id : Users, recipient_id : Applicants, is_read : BOOLEAN]

ASSUME NoRowAssumption == NoRow \notin Recommendation \cup Ids

Notification ==
       [type : {"CONTACT_REQUEST"}, from : Users, to : Users]
  \cup [type : {"RECOMMENDATION"}, to : Users, id : Ids]

(* The rows between two users, in either direction. *)
RowsBetween(u, v) ==
  {p \in {<<u, v>>, <<v, u>>} : contact[p[1]][p[2]] # "NONE"}
AcceptedBetween(u, v) ==
  {p \in RowsBetween(u, v) : contact[p[1]][p[2]] = "ACCEPTED"}

(* Contacts, or users who have been contacts. *)
WereContacts(u, v) ==
  \E p \in RowsBetween(u, v) : contact[p[1]][p[2]] \in {"ACCEPTED", "BLOCKED"}

Goto(s, label) == pc' = [pc EXCEPT ![s] = label]

Moments == [listed : BOOLEAN, public : BOOLEAN, open : BOOLEAN, contact : BOOLEAN]

Unseen == [listed |-> FALSE, public |-> FALSE, open |-> FALSE, contact |-> FALSE]

(* The request ends; what was not committed is dropped with its session. *)
Answer(s) ==
  /\ Goto(s, "idle")
  /\ request' = [request EXCEPT ![s] = NoRequest]
  /\ loaded' = [loaded EXCEPT ![s] = NoRow]
  /\ is_contact' = [is_contact EXCEPT ![s] = FALSE]
  /\ flushed' = [flushed EXCEPT ![s] = NoRow]
  /\ seen' = [seen EXCEPT ![s] = Unseen]

(* What holds for request r at the moment the tables hold the settings p   *)
(* and the contacts c; added to what has held at earlier moments of it.    *)
Look(old, r, p, c) ==
  [ listed  |-> old.listed \/ Listed(p[r.to]),
    public  |-> old.public \/ IsPublic(p[r.to]),
    open    |-> old.open \/ (ShowsDetail(r.by, p[r.to]) /\ ShowsContacts(p[r.to])),
    contact |-> old.contact \/ "ACCEPTED" \in {c[r.by][r.to], c[r.to][r.by]} ]

Views == {"search", "detail", "list", "public"}

EveryoneLooks(p, c) ==
  seen' = [s \in Sessions |-> IF pc[s] # "idle" /\ request[s].op \in Views
                              THEN Look(seen[s], request[s], p, c)
                              ELSE seen[s]]

Begin(s, r, label) ==
  /\ pc[s] = "idle"
  /\ Goto(s, label)
  /\ request' = [request EXCEPT ![s] = r]

-----------------------------------------------------------------------------
(* send_contact_request: not to oneself, and neither direction may exist.  *)
SendContactRequest(s, r, a) ==
  /\ r # a /\ RowsBetween(r, a) = {}
  /\ Begin(s, [op |-> "contact", by |-> r, to |-> a], "store")
  /\ UNCHANGED <<table, privacy, flushed, loaded, is_contact, seen>>

(* The row and its notification are one COMMIT.  The unique key holds the  *)
(* ordered pair: a second row of the same direction is an error, one of    *)
(* the other direction is stored.                                          *)
StoreContact(s) ==
  /\ pc[s] = "store"
  /\ LET r == request[s].by
         a == request[s].to
     IN  \/ /\ contact[r][a] = "NONE"
            /\ contact' = [contact EXCEPT ![r][a] = "PENDING"]
            /\ notification' = notification \cup
                 {[type |-> "CONTACT_REQUEST", from |-> r, to |-> a]}
         \/ contact[r][a] # "NONE" /\ UNCHANGED <<contact, notification>>
  /\ Answer(s)
  /\ UNCHANGED <<recommendation, issued, privacy>>

(* Contact's status machine, outside the program: the addressee accepts or *)
(* rejects a request, and an accepted contact is broken off.               *)
MoveContact(r, a) ==
  /\ \E new \in Statuses :
       /\ <<contact[r][a], new>> \in
            {<<"PENDING", "ACCEPTED">>, <<"PENDING", "REJECTED">>, <<"ACCEPTED", "BLOCKED">>}
       /\ contact' = [contact EXCEPT ![r][a] = new]
  /\ EveryoneLooks(privacy, contact')
  /\ UNCHANGED <<recommendation, issued, notification, privacy, flushed, pc, request,
                 loaded, is_contact>>

-----------------------------------------------------------------------------
(* Variant: every contact request allows recommendations. *)
check_contact_relationship_AnyStatus(u, v) == RowsBetween(u, v) # {}

(* scalar_one_or_none: two accepted rows are an error, not a contact. *)
check_contact_relationship(u, v) == Cardinality(AcceptedBetween(u, v)) = 1

(* Variant: the recipient's role is not looked at. *)
CreateRecommendation_Anyone(s, u, v) ==
  /\ u # v
  /\ check_contact_relationship(u, v)
  /\ Begin(s, [op |-> "recommend", by |-> u, to |-> v], "flush")
  /\ UNCHANGED <<table, privacy, flushed, loaded, is_contact, seen>>

(* create_recommendation: the checks.  Any ACTIVE opportunity will do. *)
CreateRecommendation(s, u, v) ==
  /\ u # v /\ v \in Applicants
  /\ check_contact_relationship(u, v)
  /\ Begin(s, [op |-> "recommend", by |-> u, to |-> v], "flush")
  /\ UNCHANGED <<table, privacy, flushed, loaded, is_contact, seen>>

(* RecommendationRepository.create_recommendation: an INSERT, no COMMIT. *)
FlushRecommendation(s) ==
  /\ pc[s] = "flush"
  /\ \E id \in Ids \ issued :
       /\ issued' = issued \cup {id}
       /\ flushed' = [flushed EXCEPT ![s] = id]
  /\ Goto(s, "announce")
  /\ UNCHANGED <<contact, recommendation, notification, privacy, request, loaded, is_contact, seen>>

(* Variant: the repository commits the recommendation itself. *)
AnnounceRecommendation_Unfinished(s) ==
  /\ pc[s] = "announce"
  /\ recommendation' = [recommendation EXCEPT ![flushed[s]] =
       [sender_id |-> request[s].by, recipient_id |-> request[s].to, is_read |-> FALSE]]
  /\ \/ notification' = notification \cup
          {[type |-> "RECOMMENDATION", to |-> request[s].to, id |-> flushed[s]]}
     \/ UNCHANGED notification
  /\ Answer(s)
  /\ UNCHANGED <<contact, issued, privacy>>

(* _create_recommendation_notification adds the notification and commits   *)
(* both rows.                                                              *)
AnnounceRecommendation(s) ==
  /\ pc[s] = "announce"
  /\ recommendation' = [recommendation EXCEPT ![flushed[s]] =
       [sender_id |-> request[s].by, recipient_id |-> request[s].to, is_read |-> FALSE]]
  /\ notification' = notification \cup
       {[type |-> "RECOMMENDATION", to |-> request[s].to, id |-> flushed[s]]}
  /\ Answer(s)
  /\ UNCHANGED <<contact, issued, privacy>>

(* mark_recommendation_as_read, by its recipient: is_read is flushed ...   *)
MarkAsRead(s, u, id) ==
  /\ recommendation[id] # NoRow
  /\ recommendation[id].recipient_id = u
  /\ Begin(s, [op |-> "mark", by |-> u, id |-> id], "mark")
  /\ UNCHANGED <<table, privacy, flushed, loaded, is_contact, seen>>

(* ... and the session is closed without a commit. *)
FinishMark(s) ==
  /\ pc[s] = "mark"
  /\ Answer(s)
  /\ UNCHANGED <<table, privacy>>

-----------------------------------------------------------------------------
(* What every view reads first.  The queries of the two searches find only *)
(* profiles whose settings say that they are public.                       *)
View(s, r, label) ==
  /\ Begin(s, r, label)
  /\ loaded' = [loaded EXCEPT ![s] = privacy[r.to]]
  /\ seen' = [seen EXCEPT ![s] = Look(Unseen, r, privacy, contact)]
  /\ UNCHANGED <<table, privacy, flushed, is_contact>>

SearchApplicants(s, v, u) ==
  /\ Listed(privacy[u])
  /\ View(s, [op |-> "search", by |-> v, to |-> u], "check")

GetApplicantDetail(s, v, u) ==
  View(s, [op |-> "detail", by |-> v, to |-> u],
       IF ShowsDetail(v, privacy[u]) THEN "check" ELSE "show")

(* UserRepository.search_applicants: the same search without contacts. *)
ListApplicants(s, v, u) ==
  /\ v \in Recruiters /\ Listed(privacy[u])
  /\ View(s, [op |-> "list", by |-> v, to |-> u], "show")

(* get_public_user_profile asks for no contact. *)
GetPublicProfile(s, v, u) == View(s, [op |-> "public", by |-> v, to |-> u], "show")

(* Variant: a contact request is taken for a contact. *)
CheckContactStatus_AnyStatus(s) ==
  /\ pc[s] = "check"
  /\ is_contact' = [is_contact EXCEPT ![s] = RowsBetween(request[s].by, request[s].to) # {}]
  /\ Goto(s, "show")
  /\ UNCHANGED <<table, privacy, flushed, request, loaded, seen>>

(* ApplicantRepository.check_contact_status: a failure, and the error that *)
(* two accepted rows are, mean no contact.                                 *)
CheckContactStatus(s) ==
  /\ pc[s] = "check"
  /\ \/ is_contact' = [is_contact EXCEPT ![s] =
            Cardinality(AcceptedBetween(request[s].by, request[s].to)) = 1]
     \/ "check" \in Failing /\ UNCHANGED is_contact
  /\ Goto(s, "show")
  /\ UNCHANGED <<table, privacy, flushed, request, loaded, seen>>

(* The answer is built from what the session has loaded. *)
Show(s) ==
  /\ pc[s] = "show"
  /\ Answer(s)
  /\ UNCHANGED <<table, privacy>>

(* "name" stands for all that goes with a name, portfolio_url included;    *)
(* "contacts" for phone and social_links, "cv" for cv_url.  (The avatar is *)
(* in every answer.)                                                       *)
Everything == {"name", "contacts", "cv"}

(* ApplicantService._to_search_item, _to_private_profile and               *)
(* _to_detail_response; PrivacyFilterService.apply_privacy_filters.        *)
SearchItem(s) == {f \in {"name"} : IsPublic(loaded[s])}
DetailFields(s) ==
  {f \in Everything :
     /\ ShowsDetail(request[s].by, loaded[s])
     /\ f \in {"contacts", "cv"} => ShowsContacts(loaded[s]) \/ is_contact[s]}
apply_privacy_filters(s) ==
  {f \in Everything :
     \/ request[s].by = request[s].to
     \/ /\ f # "cv" /\ IsPublic(loaded[s])
        /\ f = "contacts" => ShowsContacts(loaded[s])}

(* What the request is about to answer. *)
Fields(s) ==
  CASE request[s].op = "search" -> SearchItem(s)
    [] request[s].op = "list"   -> {"name"}
    [] request[s].op = "detail" -> DetailFields(s)
    [] request[s].op = "public" -> apply_privacy_filters(s)

(* update_user_profile: the dictionary sent takes the place of the stored  *)
(* one; a setting it leaves out is gone.                                   *)
UpdatePrivacy(u) ==
  /\ \E settings \in Patches \ {privacy[u]} :
       privacy' = [privacy EXCEPT ![u] = settings]
  /\ EveryoneLooks(privacy', contact)
  /\ UNCHANGED <<table, flushed, pc, request, loaded, is_contact>>

(* A failure ends the request with nothing stored; that of a notification  *)
(* is swallowed, and the recommendation answered as if it were stored.     *)
StepFails(s) ==
  /\ pc[s] \in Failing \cap {"store", "flush", "announce"}
  /\ Answer(s)
  /\ UNCHANGED <<table, privacy>>

-----------------------------------------------------------------------------
Init ==
  /\ contact = [r \in Users |-> [a \in Users |-> "NONE"]]
  /\ recommendation = [i \in Ids |-> NoRow]
  /\ issued = {}
  /\ notification = {}
  /\ privacy = [u \in Applicants |->
       [key \in {"public_profile", "show_contacts"} |-> key = "public_profile"]]
  /\ flushed = [s \in Sessions |-> NoRow]
  /\ pc = [s \in Sessions |-> "idle"]
  /\ request = [s \in Sessions |-> NoRequest]
  /\ loaded = [s \in Sessions |-> NoRow]
  /\ is_contact = [s \in Sessions |-> FALSE]
  /\ seen = [s \in Sessions |-> Unseen]

AskApplicants(s) ==
  \E v \in Recruiters :
    \/ \E a \in Users : SendContactRequest(s, v, a)
    \/ \E u \in Applicants : SearchApplicants(s, v, u) \/ GetApplicantDetail(s, v, u)

AskUsers(s) ==
  \E v \in Users, u \in Applicants : GetPublicProfile(s, v, u) \/ ListApplicants(s, v, u)

AskRecommendations(s) ==
  \E u \in Users :
    \/ \E v \in Users : CreateRecommendation(s, u, v)
    \/ \E id \in Ids : MarkAsRead(s, u, id)

Serve(s) ==
  \/ StoreContact(s) \/ FlushRecommendation(s) \/ AnnounceRecommendation(s) \/ FinishMark(s)
  \/ CheckContactStatus(s) \/ Show(s) \/ StepFails(s)

Next ==
  \/ \E s \in Sessions : AskApplicants(s) \/ AskUsers(s) \/ AskRecommendations(s) \/ Serve(s)
  \/ \E r, a \in Users : MoveContact(r, a)
  \/ \E u \in Applicants : UpdatePrivacy(u)

Spec == Init /\ [][Next]_vars

-----------------------------------------------------------------------------
TypeOK ==
  /\ contact \in [Users -> [Users -> Statuses]]
  /\ recommendation \in [Ids -> Recommendation \cup {NoRow}]
  /\ issued \subseteq Ids
  /\ notification \subseteq Notification
  /\ privacy \in [Applicants -> Settings]
  /\ flushed \in [Sessions -> Ids \cup {NoRow}]
  /\ pc \in [Sessions -> Labels]
  /\ request \in [Sessions -> Request \cup {NoRequest}]
  /\ loaded \in [Sessions -> Settings \cup {NoRow}]
  /\ is_contact \in [Sessions -> BOOLEAN]
  /\ seen \in [Sessions -> Moments]

(* A contact request, and a recommendation, is stored exactly when its     *)
(* addressee has been notified of it, whatever collides or fails between   *)
(* the two INSERTs: nobody is announced a request that does not exist, and *)
(* no request waits unseen.                                                *)
StoredIsAnnounced ==
  /\ \A r, a \in Users :
       contact[r][a] # "NONE" <=>
         [type |-> "CONTACT_REQUEST", from |-> r, to |-> a] \in notification
  /\ \A i \in Ids, u \in Users :
       recommendation[i] # NoRow /\ recommendation[i].recipient_id = u <=>
         [type |-> "RECOMMENDATION", to |-> u, id |-> i] \in notification

(* Only an accepted contact may recommend: every recommendation goes from  *)
(* one side of a contact to an applicant on the other, though the contact  *)
(* may be broken off between check_contact_relationship and the commit.    *)
RecommendedByContacts ==
  \A i \in Ids : recommendation[i] # NoRow =>
    LET u == recommendation[i].sender_id
        v == recommendation[i].recipient_id
    IN  u # v /\ WereContacts(u, v)

(* "public_profile=false: большинство полей скрыты", "show_contacts=false: *)
(* контакты скрыты (телефон, соцсети, CV)": four filters written at four   *)
(* places, on settings and contacts read at different moments, show        *)
(*   - in a search: only a profile whose settings said it was public;      *)
(*   - elsewhere: only one whose settings did not say it was hidden, but a *)
(*     curator sees the detail of any;                                     *)
(*   - phone, social links and CV: only if the settings said so while they *)
(*     let the viewer in, or the viewer was an accepted contact,           *)
(* each at some moment of the request.  A change of the settings while it  *)
(* is under way, a failed look for the contact, a missing key, a contact   *)
(* asked for or broken off never open what was closed all along.           *)
ShownByConsent ==
  \A s \in Sessions : pc[s] = "show" /\ request[s].by # request[s].to =>
    /\ Fields(s) # {} =>
         IF request[s].op \in {"search", "list"} THEN seen[s].listed
         ELSE \/ seen[s].public
              \/ request[s].op = "detail" /\ Role[request[s].by] = "CURATOR"
    /\ Fields(s) \cap {"contacts", "cv"} # {} => seen[s].open \/ seen[s].contact
=============================================================================
