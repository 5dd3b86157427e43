------------------------------ MODULE Accounts ------------------------------
(***************************************************************************)
(* Accounts, profiles and the skills of a profile: the registration of     *)
(* AuthService, UserService, UserRepository and the default administrator. *)
(*                                                                         *)
(* A request is a process that runs from one await to the next on its own  *)
(* session.  A column of a row is written only if the session changes it.  *)
(* A password stands for its hash; the plain columns of a profile, which   *)
(* no rule relates to anything, are left out, and so is who may ask what,  *)
(* which is the matter of Tokens and of the roles of the endpoints.        *)
(***************************************************************************)
EXTENDS Naturals

CONSTANTS
  Ids,        \* primary keys of users
  Emails,
  AdminEmail, \* DEFAULT_ADMIN_EMAIL
  Passwords,
  Names,      \* names of skills
  Slug,       \* Slug[n]: name.lower().replace(" ", "-")
  SkillLists, \* the lists of skills a request may send
  Sessions,   \* requests served, or processes started, at the same time
  Failing,    \* labels of the steps at which the database may fail
  NoRow,
  NoId,
  NoRequest

Roles == {"APPLICANT", "EMPLOYER", "CURATOR"}

ASSUME SkillListsAssumption == SkillLists \subseteq SUBSET Names
ASSUME AdminEmailAssumption == AdminEmail \in Emails

VARIABLES
  account,   \* the users table: account[i] is a row or NoRow
  profile,   \* ids of the users that have a row in profiles
  catalogue, \* names in the skills table
  skills,    \* skills[i]: names in the profile_skills rows of user i
  pc,        \* pc[s]: where the request of session s stands
  request,   \* request[s]: what it was asked
  inserted,  \* inserted[s]: the user inserted and not committed
  loaded,    \* loaded[s]: the user as the session has read it
  found,     \* found[s]: skills of the request the catalogue had
  created,   \* created[s]: skills inserted and not committed
  related,   \* related[s]: skills of the profile inserted and not committed
  removed,   \* removed[s]: skills of the profile deleted and not committed
  stale      \* auxiliary: another request has stored the same since s began

table   == <<account, profile, catalogue, skills>>
session == <<request, inserted, loaded, found, created, related, removed, stale>>
vars    == <<table, pc, session>>

Labels == {"idle", "insert", "commit", "save", "lookup", "create", "delete",
           "relate", "store", "answer"}

Row == [email : Emails, role : Roles, password : Passwords, is_verified : BOOLEAN]

ASSUME NullsAssumption == NoRow \notin Row /\ NoId \notin Ids

Request ==
       [op : {"create"}, email : Emails, role : Roles, password : Passwords]
  \cup [op : {"password"}, id : Ids, password : Passwords]
  \cup [op : {"verify"}, id : Ids, is_verified : BOOLEAN]
  \cup [op : {"update"}, id : Ids, skills : SkillLists]

Loaded == [row : Row, skills : SUBSET Names]

email_exists(e) == \E i \in Ids : account[i] # NoRow /\ account[i].email = e

(* Both columns of a skill are unique. *)
Clash(m, n) == m = n \/ Slug[m] = Slug[n]

(* _update_profile_skills: what is to go, to come and to be created first. *)
Id(s)       == request[s].id
ToRemove(s) == loaded[s].skills \ request[s].skills
ToAdd(s)    == request[s].skills \ loaded[s].skills
Missing(s)  == ToAdd(s) \ found[s]

Goto(s, label) == pc' = [pc EXCEPT ![s] = label]

(* The request ends; what was not committed is dropped with its session. *)
Answer(s) ==
  /\ Goto(s, "idle")
  /\ request' = [request EXCEPT ![s] = NoRequest]
  /\ inserted' = [inserted EXCEPT ![s] = NoId]
  /\ loaded' = [loaded EXCEPT ![s] = NoRow]
  /\ found' = [found EXCEPT ![s] = {}]
  /\ created' = [created EXCEPT ![s] = {}]
  /\ related' = [related EXCEPT ![s] = {}]
  /\ removed' = [removed EXCEPT ![s] = {}]
  /\ stale' = [stale EXCEPT ![s] = FALSE]

-----------------------------------------------------------------------------
(* register_new_user, create_curator and create_default_admin: the e-mail  *)
(* is free, so the user can be inserted.                                   *)
CreateUser(s, e, role, w) ==
  /\ pc[s] = "idle"
  /\ ~email_exists(e)
  /\ Goto(s, "insert")
  /\ request' = [request EXCEPT ![s] =
       [op |-> "create", email |-> e, role |-> role, password |-> w]]
  /\ UNCHANGED <<table, inserted, loaded, found, created, related, removed, stale>>

RegisterNewUser(s)    == \E e \in Emails, r \in Roles, w \in Passwords : CreateUser(s, e, r, w)
CreateCurator(s)      == \E e \in Emails, w \in Passwords : CreateUser(s, e, "CURATOR", w)
CreateDefaultAdmin(s) == \E w \in Passwords : CreateUser(s, AdminEmail, "CURATOR", w)

FreshIds == {i \in Ids : account[i] = NoRow /\ \A t \in Sessions : inserted[t] # i}

(* Only employers have to be verified. *)
NewRow(s) == [ email       |-> request[s].email,
               role        |-> request[s].role,
               password    |-> request[s].password,
               is_verified |-> request[s].role # "EMPLOYER" ]

(* Variant: the user is committed before its profile. *)
InsertUser_Committed(s) ==
  /\ pc[s] = "insert"
  /\ ~email_exists(request[s].email)
  /\ \E i \in FreshIds :
       /\ inserted' = [inserted EXCEPT ![s] = i]
       /\ account' = [account EXCEPT ![i] = NewRow(s)]
  /\ Goto(s, "commit")
  /\ UNCHANGED <<profile, catalogue, skills, request, loaded, found, created, related, removed, stale>>

(* Variant: no flush gives the user its id. *)
InsertUser_Unflushed(s) ==
  /\ pc[s] = "insert"
  /\ ~email_exists(request[s].email)
  /\ Goto(s, "commit")
  /\ UNCHANGED <<table, request, inserted, loaded, found, created, related, removed, stale>>

(* The flush: the unique e-mail makes it wait for another session that has *)
(* inserted it, and fail once it is committed.                             *)
InsertUser(s) ==
  /\ pc[s] = "insert"
  /\ \A t \in Sessions : inserted[t] # NoId => request[t].email # request[s].email
  /\ \/ /\ ~email_exists(request[s].email)
        /\ \E i \in FreshIds : inserted' = [inserted EXCEPT ![s] = i]
        /\ Goto(s, "commit")
        /\ UNCHANGED <<request, loaded, found, created, related, removed, stale>>
     \/ email_exists(request[s].email) /\ Answer(s)
  /\ UNCHANGED table

(* The COMMIT, of the profile with its user. *)
CommitUser(s) ==
  /\ pc[s] = "commit"
  /\ account' = [account EXCEPT ![inserted[s]] = NewRow(s)]
  /\ profile' = profile \cup {inserted[s]}
  /\ Answer(s)
  /\ UNCHANGED <<catalogue, skills>>

-----------------------------------------------------------------------------
(* A request about user i reads it first. *)
Read(s, i, r, label) ==
  /\ pc[s] = "idle"
  /\ account[i] # NoRow
  /\ Goto(s, label)
  /\ request' = [request EXCEPT ![s] = r]
  /\ loaded' = [loaded EXCEPT ![s] = [row |-> account[i], skills |-> skills[i]]]
  /\ UNCHANGED <<table, inserted, found, created, related, removed, stale>>

(* change_password: the old password is that of the row read. *)
ChangePassword(s, i, old, new) ==
  /\ account[i] # NoRow
  /\ account[i].password = old
  /\ Read(s, i, [op |-> "password", id |-> i, password |-> new], "save")

(* verify_employer, by a curator. *)
VerifyEmployer(s, i, v) ==
  /\ account[i] # NoRow
  /\ account[i].role = "EMPLOYER"
  /\ Read(s, i, [op |-> "verify", id |-> i, is_verified |-> v], "save")

UpdateUserProfile(s, i, list) ==
  Read(s, i, [op |-> "update", id |-> i, skills |-> list], "lookup")

(* What session s stores outdates the requests that do the same. *)
Outdate(s) ==
  stale' = [t \in Sessions |->
    \/ stale[t]
    \/ /\ t # s /\ pc[t] # "idle"
       /\ request[t].op = request[s].op /\ request[t].id = request[s].id]

(* Variant: the whole row is written back as it was read. *)
Save_WholeRow(s) ==
  /\ pc[s] = "save"
  /\ account' = [account EXCEPT ![Id(s)] =
       IF request[s].op = "password"
       THEN [loaded[s].row EXCEPT !.password = request[s].password]
       ELSE [loaded[s].row EXCEPT !.is_verified = request[s].is_verified]]
  /\ Outdate(s)
  /\ Goto(s, "answer")
  /\ UNCHANGED <<profile, catalogue, skills, request, inserted, loaded, found, created, related, removed>>

(* The COMMIT.  A new hash always differs; is_verified is written only if  *)
(* the row that was read had the other value.                              *)
Save(s) ==
  /\ pc[s] = "save"
  /\ \/ /\ request[s].op = "password"
        /\ account' = [account EXCEPT ![Id(s)].password = request[s].password]
        /\ Outdate(s)
     \/ /\ request[s].op = "verify"
        /\ request[s].is_verified # loaded[s].row.is_verified
        /\ account' = [account EXCEPT ![Id(s)].is_verified = request[s].is_verified]
        /\ Outdate(s)
     \/ /\ request[s].op = "verify"
        /\ request[s].is_verified = loaded[s].row.is_verified
        /\ UNCHANGED <<account, stale>>
  /\ Goto(s, "answer")
  /\ UNCHANGED <<profile, catalogue, skills, request, inserted, loaded, found, created, related, removed>>

-----------------------------------------------------------------------------
(* SELECT of the skills to add by name. *)
Lookup(s) ==
  /\ pc[s] = "lookup"
  /\ found' = [found EXCEPT ![s] = ToAdd(s) \cap catalogue]
  /\ Goto(s, IF ToAdd(s) = {} THEN "delete"
             ELSE IF ToAdd(s) \subseteq catalogue THEN "relate" ELSE "create")
  /\ UNCHANGED <<table, request, inserted, loaded, created, related, removed, stale>>

(* One row of the first flush.  Names that another session has inserted    *)
(* make it wait; names in the table, even if only their slug is, make the  *)
(* update fail.                                                            *)
CreateSkill(s) ==
  /\ pc[s] = "create"
  /\ \E n \in Missing(s) \ created[s] :
       /\ \A t \in Sessions \ {s} : \A m \in created[t] : ~Clash(m, n)
       /\ \/ /\ \A m \in catalogue \cup created[s] : ~Clash(m, n)
             /\ created' = [created EXCEPT ![s] = @ \cup {n}]
             /\ Goto(s, IF created'[s] = Missing(s) THEN "delete" ELSE "create")
             /\ UNCHANGED <<request, inserted, loaded, found, related, removed, stale>>
          \/ /\ \E m \in catalogue \cup created[s] : Clash(m, n)
             /\ Answer(s)
  /\ UNCHANGED table

SameProfile(s) ==
  {t \in Sessions \ {s} : pc[t] # "idle" /\ request[t].op = "update" /\ Id(t) = Id(s)}

(* The DELETE that ends a flush: of the first one, or of the only one. *)
DeleteSkills(s) ==
  /\ pc[s] = "delete"
  /\ \A t \in SameProfile(s) : removed[t] \cap ToRemove(s) = {}
  /\ removed' = [removed EXCEPT ![s] = ToRemove(s) \cap skills[Id(s)]]
  /\ Goto(s, IF related[s] = ToAdd(s) THEN "store" ELSE "relate")
  /\ UNCHANGED <<table, request, inserted, loaded, found, created, related, stale>>

(* INSERT INTO profile_skills. *)
RelateSkills(s) ==
  /\ pc[s] = "relate"
  /\ \A t \in SameProfile(s) : (related[t] \cup removed[t]) \cap ToAdd(s) = {}
  /\ \/ /\ ToAdd(s) \cap skills[Id(s)] = {}
        /\ related' = [related EXCEPT ![s] = ToAdd(s)]
        /\ Goto(s, IF Missing(s) = {} THEN "delete" ELSE "store")
        /\ UNCHANGED <<request, inserted, loaded, found, created, removed, stale>>
     \/ ToAdd(s) \cap skills[Id(s)] # {} /\ Answer(s)
  /\ UNCHANGED table

(* The COMMIT. *)
StoreProfile(s) ==
  /\ pc[s] = "store"
  /\ catalogue' = catalogue \cup created[s]
  /\ skills' = [skills EXCEPT ![Id(s)] = (@ \ removed[s]) \cup related[s]]
  /\ created' = [created EXCEPT ![s] = {}]
  /\ related' = [related EXCEPT ![s] = {}]
  /\ removed' = [removed EXCEPT ![s] = {}]
  /\ Outdate(s)
  /\ Goto(s, "answer")
  /\ UNCHANGED <<account, profile, request, inserted, loaded, found>>

(* The row is read again and answered. *)
Reload(s) ==
  /\ pc[s] = "answer"
  /\ Answer(s)
  /\ UNCHANGED table

-----------------------------------------------------------------------------
(* A failure ends the request with nothing stored. *)
StepFails(s) ==
  /\ pc[s] \in Failing
  /\ Answer(s)
  /\ UNCHANGED table

WaitsFor(s, t) ==
  \/ /\ pc[s] = "create"
     /\ \E n \in Missing(s) \ created[s], m \in created[t] : Clash(m, n)
  \/ /\ pc[s] = "delete" /\ t \in SameProfile(s)
     /\ removed[t] \cap ToRemove(s) # {}
  \/ /\ pc[s] = "relate" /\ t \in SameProfile(s)
     /\ (related[t] \cup removed[t]) \cap ToAdd(s) # {}

(* PostgreSQL makes one of a circle of waiting sessions fail. *)
BreakDeadlock(s) ==
  /\ \E C \in SUBSET Sessions :
       /\ s \in C
       /\ \A c \in C : /\ \E d \in C \ {c} : WaitsFor(c, d)
                       /\ \E d \in C \ {c} : WaitsFor(d, c)
  /\ Answer(s)
  /\ UNCHANGED table

-----------------------------------------------------------------------------
Init ==
  /\ account = [i \in Ids |-> NoRow]
  /\ profile = {}
  /\ catalogue = {}
  /\ skills = [i \in Ids |-> {}]
  /\ pc = [s \in Sessions |-> "idle"]
  /\ request = [s \in Sessions |-> NoRequest]
  /\ inserted = [s \in Sessions |-> NoId]
  /\ loaded = [s \in Sessions |-> NoRow]
  /\ found = [s \in Sessions |-> {}]
  /\ created = [s \in Sessions |-> {}]
  /\ related = [s \in Sessions |-> {}]
  /\ removed = [s \in Sessions |-> {}]
  /\ stale = [s \in Sessions |-> FALSE]

(* The endpoints for one's own account and for curators. *)
AskUsers(s) ==
  \E i \in Ids :
    \/ \E old, new \in Passwords : ChangePassword(s, i, old, new)
    \/ \E list \in SkillLists : UpdateUserProfile(s, i, list)
AskCurators(s) ==
  \/ CreateCurator(s)
  \/ \E i \in Ids, v \in BOOLEAN : VerifyEmployer(s, i, v)

Serve(s) ==
  \/ InsertUser(s) \/ CommitUser(s) \/ Save(s)
  \/ Lookup(s) \/ CreateSkill(s) \/ DeleteSkills(s) \/ RelateSkills(s) \/ StoreProfile(s)
  \/ Reload(s) \/ StepFails(s) \/ BreakDeadlock(s)

Next ==
  \E s \in Sessions :
    RegisterNewUser(s) \/ CreateDefaultAdmin(s) \/ AskUsers(s) \/ AskCurators(s) \/ Serve(s)

Spec == Init /\ [][Next]_vars

-----------------------------------------------------------------------------
TypeOK ==
  /\ account \in [Ids -> Row \cup {NoRow}]
  /\ profile \subseteq Ids
  /\ catalogue \subseteq Names
  /\ skills \in [Ids -> SUBSET Names]
  /\ pc \in [Sessions -> Labels]
  /\ request \in [Sessions -> Request \cup {NoRequest}]
  /\ inserted \in [Sessions -> Ids \cup {NoId}]
  /\ loaded \in [Sessions -> Loaded \cup {NoRow}]
  /\ found \in [Sessions -> SUBSET Names]
  /\ created \in [Sessions -> SUBSET Names]
  /\ related \in [Sessions -> SUBSET Names]
  /\ removed \in [Sessions -> SUBSET Names]
  /\ stale \in [Sessions -> BOOLEAN]

(* "Атомарно создаёт пользователя и его профиль": an account and its       *)
(* profile exist together or not at all, and an e-mail, the default        *)
(* administrator's too, belongs to one account, whichever registrations,   *)
(* curators and starting processes race for it and whatever fails.         *)
AccountsWhole ==
  /\ \A i \in Ids : account[i] # NoRow <=> i \in profile
  /\ \A i, j \in profile : account[i].email = account[j].email => i = j

(* What a request of a user answers as stored is stored: the new password, *)
(* the verdict on an employer, exactly the skills of the list.  No request *)
(* for something else undoes it, and only another one for the same may.    *)
AnsweredAsAsked ==
  \A s \in Sessions : pc[s] = "answer" /\ ~stale[s] =>
    CASE request[s].op = "password" -> account[Id(s)].password = request[s].password
      [] request[s].op = "verify"   -> account[Id(s)].is_verified = request[s].is_verified
      [] request[s].op = "update"   -> skills[Id(s)] = request[s].skills
=============================================================================
