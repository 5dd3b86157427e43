----------------------------- MODULE Favorites -----------------------------
(***************************************************************************)
(* Favourite opportunities and companies: FavoriteService,                 *)
(* FavoriteCompanyService, their repositories and the counter              *)
(* Opportunity.favorites_count.                                            *)
(*                                                                         *)
(* A request is a process that runs from one await to the next on its own  *)
(* session.  The two repositories are the same code but for the counter,   *)
(* so both kinds of item are served by the same actions.  Whether an       *)
(* opportunity is ACTIVE (a company, active) is other components'          *)
(* business: here every answer to that question is possible.               *)
(***************************************************************************)
EXTENDS Naturals, Sequences, FiniteSets

CONSTANTS
  Users,
  Opportunities,
  Companies,
  Sessions,    \* requests served at the same time
  SyncLists,   \* the lists of ids a browser may send
  MaxCount,    \* bound: no request adds an opportunity that is counted this often
  Failing,     \* labels of the steps at which the database may fail
  NoRequest    \* the session is not in use

Items == Opportunities \cup Companies
Kinds == {"opportunity", "company"}

Request ==
       [op : {"add", "remove"}, by : Users, ids : {{i} : i \in Items}]
  \cup [op : {"sync"}, by : Users, ids : SyncLists]

ASSUME KindsAssumption == Opportunities \cap Companies = {}
ASSUME SyncListsAssumption ==
  SyncLists \subseteq SUBSET Items /\ \A ids \in SyncLists : IsFiniteSet(ids)
ASSUME MaxCountAssumption == MaxCount \in Nat \ {0}
ASSUME NoRequestAssumption == NoRequest \notin Request

VARIABLES
  favorite,        \* committed rows of favorites and favorite_companies
  favorites_count, \* Opportunity.favorites_count
  pc,              \* pc[s]: where the request of session s stands
  request,         \* request[s]: what it was asked
  gone,            \* gone[s]: the row that s found or stored has been deleted since
  kind,            \* sync: which of the two lists is being synchronised
  existing,        \* sync: existing_ids, the rows of the user it has read
  valid,           \* sync: valid_opportunities or valid_companies, as the SELECT returned them
  at,              \* sync: the next position of valid to insert or to count
  pending,         \* sync: rows inserted and not committed
  excused          \* auxiliary: items two requests of one user handled at once,
                   \* or whose counter the database failed to write

table   == <<favorite, favorites_count>>
sync    == <<kind, existing, valid, at, pending>>
session == <<request, gone, sync>>
vars    == <<table, pc, session, excused>>

Labels == {"idle", "store", "refresh", "count", "delete", "uncount",
           "read", "insert", "tally", "commit"}

User(s)    == request[s].by
Item(s)    == CHOOSE i \in Items : request[s].ids = {i}
OfKind(k)  == IF k = "opportunity" THEN Opportunities ELSE Companies
RowsOf(u)  == {i \in Items : <<u, i>> \in favorite}
FavoritedBy(o) == {u \in Users : <<u, o>> \in favorite}

(* The distinct ids of S in some order. *)
OrdersOf(S) ==
  {q \in [1..Cardinality(S) -> S] : \A i \in S : \E n \in DOMAIN q : q[n] = i}

Goto(s, label) == pc' = [pc EXCEPT ![s] = label]

EndSync(s) ==
  /\ kind' = [kind EXCEPT ![s] = "opportunity"]
  /\ existing' = [existing EXCEPT ![s] = {}]
  /\ valid' = [valid EXCEPT ![s] = <<>>]
  /\ at' = [at EXCEPT ![s] = 1]
  /\ pending' = [pending EXCEPT ![s] = {}]

(* The request ends; what was not committed is dropped with its session. *)
Answer(s) ==
  /\ Goto(s, "idle")
  /\ request' = [request EXCEPT ![s] = NoRequest]
  /\ gone' = [gone EXCEPT ![s] = FALSE]
  /\ EndSync(s)

(* A request comes in while other requests of its user may be in progress. *)
Begin(s, r, label) ==
  /\ pc[s] = "idle"
  /\ Goto(s, label)
  /\ request' = [request EXCEPT ![s] = r]
  /\ excused' = excused \cup
       UNION {request[t].ids \cup r.ids :
                t \in {t \in Sessions : pc[t] # "idle" /\ User(t) = r.by}}
  /\ UNCHANGED <<table, gone, sync>>

(* Counters are bounded where requests come in. *)
MayCount(ids) == \A o \in ids \cap Opportunities : favorites_count[o] < MaxCount

-----------------------------------------------------------------------------
(* add_to_favorites and add_company_to_favorites: the item is read, then   *)
(* the row is looked for.  One that exists is the answer.                  *)
Add(s, u, i) ==
  /\ <<u, i>> \notin favorite /\ MayCount({i})
  /\ Begin(s, [op |-> "add", by |-> u, ids |-> {i}], "store")

Stored(u, i) == <<u, i>> \in favorite

(* Another session has inserted the row and not committed it. *)
Locked(s, i) == \E t \in Sessions \ {s} :
                  pc[t] # "idle" /\ User(t) = User(s) /\ i \in pending[t]

(* INSERT and COMMIT; the unique key turns a second row into an error.     *)
StoreFavorite(s) ==
  /\ pc[s] = "store" /\ ~Locked(s, Item(s))
  /\ \/ /\ Stored(User(s), Item(s))
        /\ Answer(s) /\ UNCHANGED favorite
     \/ /\ ~Stored(User(s), Item(s))
        /\ favorite' = favorite \cup {<<User(s), Item(s)>>}
        /\ Goto(s, "refresh")
        /\ UNCHANGED session
  /\ UNCHANGED <<favorites_count, excused>>

(* refresh raises when the new row is already deleted: the error leaves    *)
(* the row uncounted.  A company has no counter.                           *)
RefreshFavorite(s) ==
  /\ pc[s] = "refresh"
  /\ \/ /\ ~gone[s] /\ Item(s) \in Opportunities
        /\ Goto(s, "count") /\ UNCHANGED session
     \/ /\ gone[s] \/ Item(s) \in Companies
        /\ Answer(s)
  /\ UNCHANGED <<table, excused>>

Increment(o) == favorites_count' = [favorites_count EXCEPT ![o] = @ + 1]

(* _increment_favorites_count, in a transaction of its own. *)
CountFavorite(s) ==
  /\ pc[s] = "count"
  /\ Increment(Item(s))
  /\ Answer(s)
  /\ UNCHANGED <<favorite, excused>>

-----------------------------------------------------------------------------
(* remove_from_favorites and remove_company_from_favorites, up to the row. *)
Remove(s, u, i) ==
  /\ <<u, i>> \in favorite
  /\ Begin(s, [op |-> "remove", by |-> u, ids |-> {i}], "delete")

(* Whoever holds the row of user u and item i now holds a deleted one. *)
Orphan(s, u, i) ==
  gone' = [t \in Sessions |->
             IF /\ pc[t] \in {"refresh", "count", "delete", "uncount"}
                /\ User(t) = u /\ Item(t) = i
             THEN TRUE ELSE gone[t]]

(* DELETE by primary key, and COMMIT.  Finding nothing to delete is only a *)
(* warning: the counter goes down all the same.                            *)
DeleteFavorite(s) ==
  /\ pc[s] = "delete"
  /\ IF gone[s]
     THEN UNCHANGED <<favorite, gone>>
     ELSE favorite' = favorite \ {<<User(s), Item(s)>>} /\ Orphan(s, User(s), Item(s))
  /\ Goto(s, "uncount")
  /\ UNCHANGED <<favorites_count, request, sync, excused>>

(* Variant: the counter has no floor. *)
UncountFavorite_NoFloor(s) ==
  /\ pc[s] = "uncount"
  /\ IF Item(s) \in Opportunities
     THEN favorites_count' = [favorites_count EXCEPT ![Item(s)] = @ - 1]
     ELSE UNCHANGED favorites_count
  /\ Answer(s)
  /\ UNCHANGED <<favorite, excused>>

(* _decrement_favorites_count: greatest(favorites_count - 1, 0). *)
UncountFavorite(s) ==
  /\ pc[s] = "uncount"
  /\ IF Item(s) \in Opportunities
     THEN favorites_count' = [favorites_count EXCEPT ![Item(s)] = IF @ > 0 THEN @ - 1 ELSE 0]
     ELSE UNCHANGED favorites_count
  /\ Answer(s)
  /\ UNCHANGED <<favorite, excused>>

-----------------------------------------------------------------------------
(* sync_favorites: first the opportunities, then the companies. *)
Sync(s, u, ids) ==
  /\ MayCount(ids)
  /\ Begin(s, [op |-> "sync", by |-> u, ids |-> ids], "read")

FinishList(s) ==
  \/ /\ kind[s] = "opportunity"
     /\ kind' = [kind EXCEPT ![s] = "company"]
     /\ existing' = [existing EXCEPT ![s] = {}]
     /\ valid' = [valid EXCEPT ![s] = <<>>]
     /\ at' = [at EXCEPT ![s] = 1]
     /\ pending' = [pending EXCEPT ![s] = {}]
     /\ Goto(s, "read")
     /\ UNCHANGED <<request, gone>>
  \/ /\ kind[s] = "company"
     /\ Answer(s)

(* Variant: ids the user already has are inserted, and counted, again. *)
ReadExisting_All(s) ==
  /\ pc[s] = "read"
  /\ LET wanted == request[s].ids \cap OfKind(kind[s])
         mine   == RowsOf(User(s)) \cap OfKind(kind[s])
     IN  \/ wanted = {} /\ FinishList(s)
         \/ /\ wanted # {}
            /\ \E found \in SUBSET wanted : \E order \in OrdersOf(found) :
                 /\ valid' = [valid EXCEPT ![s] = order]
                 /\ Goto(s, IF found = {} THEN "commit" ELSE "insert")
            /\ existing' = [existing EXCEPT ![s] = mine]
            /\ UNCHANGED <<request, gone, kind, at, pending>>
  /\ UNCHANGED <<table, excused>>

(* The rows of the user, then those of the missing ids that may be added.  *)
(* An empty list is answered at once.                                      *)
ReadExisting(s) ==
  /\ pc[s] = "read"
  /\ LET wanted == request[s].ids \cap OfKind(kind[s])
         mine   == RowsOf(User(s)) \cap OfKind(kind[s])
     IN  \/ wanted = {} /\ FinishList(s)
         \/ /\ wanted # {}
            /\ \E found \in SUBSET (wanted \ mine) : \E order \in OrdersOf(found) :
                 /\ valid' = [valid EXCEPT ![s] = order]
                 /\ Goto(s, IF found = {} THEN "commit" ELSE "insert")
            /\ existing' = [existing EXCEPT ![s] = mine]
            /\ UNCHANGED <<request, gone, kind, at, pending>>
  /\ UNCHANGED <<table, excused>>

AtLast(s) == at[s] = Len(valid[s])

(* INSERT ... ON CONFLICT DO NOTHING goes through its rows in order; a row *)
(* another session has inserted and not committed makes it wait.           *)
InsertRow(s) ==
  /\ pc[s] = "insert"
  /\ LET i == valid[s][at[s]]
     IN  /\ ~Locked(s, i)
         /\ pending' = [pending EXCEPT ![s] =
                          IF Stored(User(s), i) THEN @ ELSE @ \cup {i}]
  /\ IF AtLast(s)
     THEN /\ at' = [at EXCEPT ![s] = 1]
          /\ Goto(s, IF kind[s] = "opportunity" THEN "tally" ELSE "commit")
     ELSE at' = [at EXCEPT ![s] = @ + 1] /\ UNCHANGED pc
  /\ UNCHANGED <<table, request, gone, kind, existing, valid, excused>>

(* What COMMIT makes of the rows session s has inserted. *)
CommitPending(s) ==
  /\ favorite' = favorite \cup {<<User(s), i>> : i \in pending[s]}
  /\ pending' = [pending EXCEPT ![s] = {}]

TallyNext(s) ==
  IF AtLast(s) THEN Goto(s, "commit") /\ UNCHANGED at
               ELSE at' = [at EXCEPT ![s] = @ + 1] /\ UNCHANGED pc

(* One _increment_favorites_count per id: the first one's COMMIT is also   *)
(* that of the rows.                                                       *)
Tally(s) ==
  /\ pc[s] = "tally"
  /\ CommitPending(s)
  /\ Increment(valid[s][at[s]])
  /\ TallyNext(s)
  /\ UNCHANGED <<request, gone, kind, existing, valid, excused>>

(* Variant: the companies are never committed. *)
CommitSync_Dropped(s) ==
  /\ pc[s] = "commit"
  /\ FinishList(s)
  /\ UNCHANGED <<table, excused>>

(* The last COMMIT of a list, and its answer: existing and new ids. *)
CommitSync(s) ==
  /\ pc[s] = "commit"
  /\ favorite' = favorite \cup {<<User(s), i>> : i \in pending[s]}
  /\ FinishList(s)
  /\ UNCHANGED <<favorites_count, excused>>

SyncAnswer(s) == existing[s] \cup {valid[s][n] : n \in DOMAIN valid[s]}

-----------------------------------------------------------------------------
(* Failures.  A counter's are swallowed after a rollback, which also takes *)
(* the rows of a sync that no COMMIT has stored yet ...                    *)
CountFails(s) ==
  /\ pc[s] \in Failing
  /\ \/ pc[s] \in {"count", "uncount"} /\ Answer(s)
     \/ /\ pc[s] = "tally"
        /\ pending' = [pending EXCEPT ![s] = {}]
        /\ TallyNext(s)
        /\ UNCHANGED <<request, gone, kind, existing, valid>>
  /\ excused' = excused \cup request[s].ids
  /\ UNCHANGED table

(* ... a failed refresh leaves the stored row uncounted ...                *)
RefreshFails(s) ==
  /\ pc[s] = "refresh" /\ "refresh" \in Failing
  /\ Answer(s)
  /\ excused' = excused \cup request[s].ids
  /\ UNCHANGED table

(* ... and any other failure ends the request with nothing more written.   *)
StepFails(s) ==
  /\ pc[s] \in Failing \cap {"store", "delete", "read", "insert", "commit"}
  /\ Answer(s)
  /\ UNCHANGED <<table, excused>>

WaitsFor(s, t) ==
  /\ pc[s] = "insert"
  /\ pc[t] # "idle" /\ User(t) = User(s)
  /\ valid[s][at[s]] \in pending[t]

(* Session s and others wait for each other in a circle. *)
InCircle(s) ==
  \E C \in SUBSET Sessions :
    /\ s \in C
    /\ \A c \in C : /\ \E d \in C : WaitsFor(c, d)
                    /\ \E d \in C : WaitsFor(d, c)

(* Variant: the statement of the victim is tried again on the same session. *)
BreakDeadlock_Retried(s) == InCircle(s) /\ UNCHANGED vars

(* PostgreSQL makes one of a circle fail. *)
BreakDeadlock(s) ==
  /\ InCircle(s)
  /\ Answer(s)
  /\ UNCHANGED <<table, excused>>

-----------------------------------------------------------------------------
Init ==
  /\ favorite = {}
  /\ favorites_count = [o \in Opportunities |-> 0]
  /\ pc = [s \in Sessions |-> "idle"]
  /\ request = [s \in Sessions |-> NoRequest]
  /\ gone = [s \in Sessions |-> FALSE]
  /\ kind = [s \in Sessions |-> "opportunity"]
  /\ existing = [s \in Sessions |-> {}]
  /\ valid = [s \in Sessions |-> <<>>]
  /\ at = [s \in Sessions |-> 1]
  /\ pending = [s \in Sessions |-> {}]
  /\ excused = {}

(* The endpoints. *)
AskSync(s) == \E u \in Users, ids \in SyncLists : Sync(s, u, ids)
AskOneOf(s, S) == \E u \in Users, i \in S : Add(s, u, i) \/ Remove(s, u, i)
AskOpportunities(s) == AskOneOf(s, Opportunities)
AskCompanies(s) == AskOneOf(s, Companies)

Ask(s) == AskSync(s) \/ AskOpportunities(s) \/ AskCompanies(s)

Serve(s) ==
  \/ StoreFavorite(s) \/ RefreshFavorite(s) \/ CountFavorite(s)
  \/ DeleteFavorite(s) \/ UncountFavorite(s)
  \/ ReadExisting(s) \/ InsertRow(s)
  \/ Tally(s) \/ CommitSync(s)
  \/ BreakDeadlock(s)

Fail(s) == CountFails(s) \/ RefreshFails(s) \/ StepFails(s)

Next == \E s \in Sessions : Ask(s) \/ Serve(s) \/ Fail(s)

Spec == Init /\ [][Next]_vars

(* The event loop runs every request whose await is over, and the database *)
(* finds its deadlocks.  A key's waiters are woken when the transaction    *)
(* that holds it ends, so none is passed over for ever: strong fairness    *)
(* for the steps that may wait.                                            *)
Fairness ==
  \A s \in Sessions :
    /\ WF_vars(Serve(s))
    /\ SF_vars(StoreFavorite(s) \/ InsertRow(s))
FairSpec == Spec /\ Fairness

-----------------------------------------------------------------------------
TypeOK ==
  /\ favorite \subseteq Users \X Items
  /\ favorites_count \in [Opportunities -> Nat]
  /\ pc \in [Sessions -> Labels]
  /\ request \in [Sessions -> Request \cup {NoRequest}]
  /\ gone \in [Sessions -> BOOLEAN]
  /\ kind \in [Sessions -> Kinds]
  /\ existing \in [Sessions -> SUBSET Items]
  /\ valid \in [Sessions -> Seq(Items)]
  /\ at \in [Sessions -> Nat \ {0}]
  /\ pending \in [Sessions -> SUBSET Items]
  /\ excused \subseteq Items

(* Between requests for it, an opportunity's favorites_count is the number *)
(* of users who have it as a favourite, whatever requests of other users   *)
(* and for other items overlapped: only two requests of one user at once,  *)
(* or a failure of the counter's own transaction, can part them.           *)
CounterFollowsRows ==
  \A o \in Opportunities \ excused :
    (\A s \in Sessions : pc[s] # "idle" => o \notin request[s].ids) =>
      favorites_count[o] = Cardinality(FavoritedBy(o))

(* "Возвращает итоговый список синхронизированных ID": when a list has     *)
(* been synchronised, what is answered for it is stored; with the same two *)
(* exceptions.                                                             *)
SyncAnswersStored ==
  [][\A s \in Sessions :
       CommitSync(s) => \A i \in SyncAnswer(s) \ excused : <<User(s), i>> \in favorite']_vars

(* Every request is answered, also when two syncs insert the same rows in  *)
(* opposite orders.                                                        *)
RequestsEnd == \A s \in Sessions : pc[s] # "idle" ~> pc[s] = "idle"
=============================================================================
