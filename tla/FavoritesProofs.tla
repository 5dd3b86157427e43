--------------------------- MODULE FavoritesProofs ---------------------------
(***************************************************************************)
(* Proofs about Favorites, for any users, items, lists and number of       *)
(* requests at a time, and whatever steps may fail.                        *)
(*                                                                         *)
(* A row and its counter are written in two transactions, so in between    *)
(* they differ.  What is always true is that the counter is the number of  *)
(* users it stands for (Counted): those who have the row stored, but for   *)
(* those whose request has still to count it (Uncounted), and those whose  *)
(* request has deleted the row and has still to count it down.  An item    *)
(* that is not excused is in the hands of one request of each user only,   *)
(* so every step changes this set by one user at most.                     *)
(***************************************************************************)
EXTENDS Favorites, FiniteSetTheorems, TLAPS

Busy(s)      == pc[s] # "idle"
Has(u, i)    == <<u, i>> \in favorite
Wanted(s)    == {valid[s][n] : n \in DOMAIN valid[s]}

(* A request that is being served is one of the right kind for its step.   *)
Serving(s) ==
  /\ Busy(s) => request[s] \in Request
  /\ pc[s] \in {"store", "refresh", "count"} => request[s].op = "add"
  /\ pc[s] \in {"delete", "uncount"} => request[s].op = "remove"
  /\ pc[s] \in {"read", "insert", "tally", "commit"} => request[s].op = "sync"
  /\ pc[s] = "count" => request[s].ids \subseteq Opportunities

(* Two requests of one user at once excuse all they are about.             *)
Overlapping ==
  \A s, t \in Sessions :
    s # t /\ Busy(s) /\ Busy(t) /\ User(s) = User(t) =>
      request[s].ids \subseteq excused /\ request[t].ids \subseteq excused

(* Nobody else has touched the row of a request's item, unless excused.    *)
Holding(s) ==
  /\ gone[s] => pc[s] \in {"refresh", "count", "delete", "uncount"}
  /\ Busy(s) => \A i \in request[s].ids \ excused :
       /\ pc[s] \in {"refresh", "count", "delete"} => Has(User(s), i) /\ ~gone[s]
       /\ pc[s] = "uncount" => ~Has(User(s), i)

(* How far a sync has come: which of the ids it found are inserted, stored *)
(* and counted.                                                            *)
Syncing(s) ==
  /\ pc[s] \notin {"insert", "tally", "commit"} => at[s] = 1 /\ pending[s] = {}
  /\ pc[s] \in {"insert", "tally", "commit"} =>
       /\ Wanted(s) \subseteq request[s].ids \cap OfKind(kind[s])
       /\ pending[s] \subseteq Wanted(s)
       /\ \A i \in existing[s] \ excused : Has(User(s), i)
  /\ pc[s] \in {"insert", "tally"} =>
       /\ at[s] \in DOMAIN valid[s]
       /\ \A m, n \in DOMAIN valid[s] : valid[s][m] = valid[s][n] => m = n
  /\ pc[s] = "insert" =>
       /\ \A i \in Wanted(s) \ excused : ~Has(User(s), i)
       /\ \A n \in DOMAIN valid[s] : n < at[s] => valid[s][n] \in pending[s] \cup excused
  /\ pc[s] = "tally" =>
       /\ kind[s] = "opportunity"
       /\ at[s] = 1 => /\ \A i \in Wanted(s) \ excused : ~Has(User(s), i)
                       /\ Wanted(s) \subseteq pending[s] \cup excused
       /\ at[s] # 1 => /\ pending[s] = {}
                       /\ \A i \in Wanted(s) \ excused : Has(User(s), i)
  /\ pc[s] = "commit" =>
       /\ kind[s] = "opportunity" => pending[s] = {}
       /\ \A i \in Wanted(s) \ excused : Has(User(s), i) \/ i \in pending[s]

(* What session s has stored, and has still to count. *)
Uncounted(s) ==
  CASE pc[s] \in {"refresh", "count"} -> request[s].ids
    [] pc[s] = "tally" -> {valid[s][n] : n \in {m \in DOMAIN valid[s] : at[s] <= m}} \ pending[s]
    [] OTHER -> {}

Counted(o) ==
  {u \in Users :
     \/ Has(u, o) /\ \A s \in Sessions : o \in Uncounted(s) => User(s) # u
     \/ \E s \in Sessions : pc[s] = "uncount" /\ User(s) = u /\ o \in request[s].ids}

CountersAgree ==
  \A o \in Opportunities \ excused :
    IsFiniteSet(Counted(o)) /\ favorites_count[o] = Cardinality(Counted(o))

IInv ==
  /\ TypeOK
  /\ Overlapping
  /\ \A s \in Sessions : Serving(s) /\ Holding(s) /\ Syncing(s)
  /\ CountersAgree

-----------------------------------------------------------------------------
LEMMA SmallerSet ==
  ASSUME NEW S, NEW T, IsFiniteSet(T), S \subseteq T
  PROVE  /\ IsFiniteSet(S)
         /\ Cardinality(S) \in Nat /\ Cardinality(T) \in Nat
         /\ Cardinality(S) <= Cardinality(T)
BY FS_Subset, FS_CardinalityType

LEMMA RequestFacts ==
  ASSUME NEW r \in Request
  PROVE  /\ r.by \in Users /\ r.ids \subseteq Items
         /\ r.op \in {"add", "remove", "sync"}
         /\ r.op = "sync" => r.ids \in SyncLists
         /\ r.op # "sync" => r.ids \in {{i} : i \in Items}
BY SyncListsAssumption DEF Request

LEMMA ItemFacts ==
  ASSUME NEW s \in Sessions, request[s] \in Request, request[s].op # "sync"
  PROVE  Item(s) \in Items /\ request[s].ids = {Item(s)}
<1>1. PICK i \in Items : request[s].ids = {i}
  BY RequestFacts
<1> QED
  BY <1>1 DEF Item

LEMMA UncountedFacts ==
  ASSUME NEW s
  PROVE  /\ pc[s] \in {"refresh", "count"} => Uncounted(s) = request[s].ids
         /\ pc[s] = "tally" => Uncounted(s) =
              {valid[s][n] : n \in {m \in DOMAIN valid[s] : at[s] <= m}} \ pending[s]
         /\ pc[s] \notin {"refresh", "count", "tally"} => Uncounted(s) = {}
BY DEF Uncounted

LEMMA UncountedFactsPrime ==
  ASSUME NEW s
  PROVE  /\ pc'[s] \in {"refresh", "count"} => Uncounted(s)' = request'[s].ids
         /\ pc'[s] = "tally" => Uncounted(s)' =
              {valid'[s][n] : n \in {m \in DOMAIN valid'[s] : at'[s] <= m}} \ pending'[s]
         /\ pc'[s] \notin {"refresh", "count", "tally"} => Uncounted(s)' = {}
BY DEF Uncounted

LEMMA UncountedWithin ==
  ASSUME NEW s \in Sessions, Syncing(s)
  PROVE  /\ Uncounted(s) \subseteq request[s].ids
         /\ Uncounted(s) # {} => Busy(s)
BY UncountedFacts DEF Syncing, Wanted, Busy

LEMMA InitIInv == Init => IInv
<1> SUFFICES ASSUME Init PROVE IInv
  OBVIOUS
<1>1. TypeOK
  BY DEF Init, TypeOK, Labels, Kinds
<1>2. Overlapping /\ \A s \in Sessions : Serving(s) /\ Holding(s) /\ Syncing(s)
  BY DEF Init, Overlapping, Serving, Holding, Syncing, Busy
<1>3. ASSUME NEW o \in Opportunities PROVE Counted(o) = {}
  BY DEF Init, Counted, Has
<1>4. CountersAgree
  BY <1>3, FS_EmptySet DEF CountersAgree, Init
<1> QED
  BY <1>1, <1>2, <1>4 DEF IInv

-----------------------------------------------------------------------------
(* A step of a request in progress: other sessions are where they were,    *)
(* and only rows of its own user and items change.                         *)
Confined(s) ==
  /\ Busy(s)
  /\ \A t \in Sessions \ {s} :
       /\ pc'[t] = pc[t] /\ request'[t] = request[t] /\ kind'[t] = kind[t]
       /\ existing'[t] = existing[t] /\ valid'[t] = valid[t]
       /\ at'[t] = at[t] /\ pending'[t] = pending[t]
       /\ gone'[t] = gone[t] \/
            (pc[t] \in {"refresh", "count", "delete", "uncount"} /\ User(t) = User(s))
  /\ request'[s] = request[s] \/ pc'[s] = "idle"
  /\ excused \subseteq excused'
  /\ \A u \in Users, i \in Items :
       Has(u, i)' # Has(u, i) => u = User(s) /\ i \in request[s].ids

(* The counter of an item of session s stands for its user, too. *)
Stands(s, o) ==
  \/ Has(User(s), o) /\ o \notin Uncounted(s)
  \/ pc[s] = "uncount"
StandsAfter(s, o) ==
  \/ <<User(s), o>> \in favorite' /\ o \notin Uncounted(s)'
  \/ pc'[s] = "uncount"

(* The counter follows what it stands for. *)
CountsAlong(s) ==
  /\ \A o \in Opportunities \ request[s].ids : favorites_count'[o] = favorites_count[o]
  /\ \A o \in (Opportunities \cap request[s].ids) \ excused' :
       \/ (Stands(s, o) <=> StandsAfter(s, o)) /\ favorites_count'[o] = favorites_count[o]
       \/ /\ ~Stands(s, o) /\ StandsAfter(s, o)
          /\ favorites_count'[o] = favorites_count[o] + 1
       \/ /\ Stands(s, o) /\ ~StandsAfter(s, o)
          /\ favorites_count'[o] = IF favorites_count[o] > 0 THEN favorites_count[o] - 1 ELSE 0

LEMMA CountedLocally ==
  ASSUME IInv, NEW s \in Sessions, Confined(s), Syncing(s)',
         NEW o \in Opportunities \ excused'
  PROVE  /\ \A u \in Users : u # User(s) \/ o \notin request[s].ids =>
              (u \in Counted(o)' <=> u \in Counted(o))
         /\ o \in request[s].ids =>
              /\ User(s) \in Counted(o) <=> Stands(s, o)
              /\ User(s) \in Counted(o)' <=> StandsAfter(s, o)
<1>0. /\ o \notin excused /\ o \in Items /\ User(s) \in Users
      /\ request[s] \in Request
  <2>1. request[s] \in Request
    BY DEF IInv, Confined, Serving
  <2> QED
    BY <2>1, RequestFacts DEF Confined, Items, User
<1>1. Uncounted(s) \subseteq request[s].ids
  BY UncountedWithin DEF IInv
<1>2. Uncounted(s)' \subseteq request[s].ids /\ (Uncounted(s)' # {} => pc'[s] # "idle")
  <2>1. Wanted(s)' = {valid'[s][n] : n \in DOMAIN valid'[s]}
    BY DEF Wanted
  <2>2. pc'[s] = "tally" => Wanted(s)' \subseteq request'[s].ids
    BY DEF Syncing
  <2>3. Uncounted(s)' # {} => pc'[s] \in {"refresh", "count", "tally"}
    BY UncountedFactsPrime
  <2>4. pc'[s] # "idle" => request'[s] = request[s]
    BY DEF Confined
  <2>5. pc'[s] = "tally" => Uncounted(s)' \subseteq Wanted(s)'
    <3> SUFFICES ASSUME pc'[s] = "tally", NEW i \in Uncounted(s)' PROVE i \in Wanted(s)'
      OBVIOUS
    <3>1. PICK n \in {m \in DOMAIN valid'[s] : at'[s] <= m} : i = valid'[s][n]
      BY UncountedFactsPrime
    <3> QED
      BY <2>1, <3>1
  <2>6. pc'[s] \in {"refresh", "count"} => Uncounted(s)' = request'[s].ids
    BY UncountedFactsPrime
  <2> QED
    BY <2>2, <2>3, <2>4, <2>5, <2>6
<1>3. \A t \in Sessions \ {s} :
        /\ Uncounted(t)' = Uncounted(t)
        /\ pc'[t] = pc[t] /\ request'[t] = request[t]
  <2> SUFFICES ASSUME NEW t \in Sessions \ {s}
               PROVE  /\ Uncounted(t)' = Uncounted(t)
                      /\ pc'[t] = pc[t] /\ request'[t] = request[t]
    OBVIOUS
  <2>1. /\ pc'[t] = pc[t] /\ request'[t] = request[t] /\ valid'[t] = valid[t]
        /\ at'[t] = at[t] /\ pending'[t] = pending[t]
    BY DEF Confined
  <2>2. Uncounted(t)' = Uncounted(t)
    BY <2>1 DEF Uncounted
  <2> QED
    BY <2>1, <2>2
<1>4. pc'[s] # "idle" => request'[s] = request[s]
  BY DEF Confined
<1>5. \A u \in Users : u # User(s) \/ o \notin request[s].ids => Has(u, o)' = Has(u, o)
  BY <1>0 DEF Confined, Has
<1>6. ASSUME NEW u \in Users, u # User(s) \/ o \notin request[s].ids
      PROVE  u \in Counted(o)' <=> u \in Counted(o)
  <2>1. /\ o \in Uncounted(s)' => User(s)' # u
        /\ o \in Uncounted(s) => User(s) # u
    BY <1>1, <1>2, <1>4, <1>6 DEF User
  <2>2. /\ ~(pc'[s] = "uncount" /\ User(s)' = u /\ o \in request'[s].ids)
        /\ ~(pc[s] = "uncount" /\ User(s) = u /\ o \in request[s].ids)
    BY <1>4, <1>6 DEF User
  <2>3. \A t \in Sessions :
          (o \in Uncounted(t)' => User(t)' # u) <=> (o \in Uncounted(t) => User(t) # u)
    BY <1>3, <2>1 DEF User
  <2>4. \A t \in Sessions :
          (pc'[t] = "uncount" /\ User(t)' = u /\ o \in request'[t].ids)
            <=> (pc[t] = "uncount" /\ User(t) = u /\ o \in request[t].ids)
    BY <1>3, <2>2 DEF User
  <2> QED
    BY <1>5, <1>6, <2>3, <2>4 DEF Counted
<1>7. ASSUME o \in request[s].ids
      PROVE  /\ User(s) \in Counted(o) <=> Stands(s, o)
             /\ User(s) \in Counted(o)' <=> StandsAfter(s, o)
  <2>1. \A t \in Sessions \ {s} : Busy(t) /\ o \in request[t].ids => User(t) # User(s)
    BY <1>0, <1>7 DEF IInv, Overlapping, Confined
  <2>2. \A t \in Sessions \ {s} : o \in Uncounted(t) => User(t) # User(s)
    BY <2>1, UncountedWithin DEF IInv
  <2>3. \A t \in Sessions \ {s} : pc[t] = "uncount" /\ o \in request[t].ids => User(t) # User(s)
    BY <2>1 DEF Busy
  <2>4. User(s) \in Counted(o) <=> Stands(s, o)
    BY <1>0, <1>7, <2>2, <2>3 DEF Counted, Stands
  <2>5. /\ o \in Uncounted(s)' => User(s)' = User(s)
        /\ pc'[s] = "uncount" => User(s)' = User(s) /\ o \in request'[s].ids
    BY <1>2, <1>4, <1>7 DEF User
  <2>6. \A t \in Sessions \ {s} : o \in Uncounted(t)' => User(t)' # User(s)
    BY <1>3, <2>2 DEF User
  <2>7. \A t \in Sessions \ {s} :
          pc'[t] = "uncount" /\ o \in request'[t].ids => User(t)' # User(s)
    BY <1>3, <2>3 DEF User
  <2>8. User(s) \in Counted(o)' <=> StandsAfter(s, o)
    BY <1>0, <1>7, <2>5, <2>6, <2>7 DEF Counted, StandsAfter, Has
  <2> QED
    BY <2>4, <2>8
<1> QED
  BY <1>6, <1>7

LEMMA CountersFollow ==
  ASSUME IInv, TypeOK', NEW s \in Sessions, Confined(s), Syncing(s)', CountsAlong(s)
  PROVE  CountersAgree'
<1> SUFFICES ASSUME NEW o \in Opportunities \ excused'
             PROVE  /\ IsFiniteSet(Counted(o)')
                    /\ favorites_count'[o] = Cardinality(Counted(o)')
  BY DEF CountersAgree
<1> DEFINE u == User(s)
<1>0. /\ IsFiniteSet(Counted(o)) /\ favorites_count[o] = Cardinality(Counted(o))
      /\ Cardinality(Counted(o)) \in Nat
      /\ Counted(o) \subseteq Users /\ Counted(o)' \subseteq Users
  BY FS_CardinalityType DEF IInv, CountersAgree, Confined, Counted
<1>1. /\ \A v \in Users : v # u \/ o \notin request[s].ids =>
           (v \in Counted(o)' <=> v \in Counted(o))
      /\ o \in request[s].ids =>
           (u \in Counted(o) <=> Stands(s, o)) /\ (u \in Counted(o)' <=> StandsAfter(s, o))
  BY CountedLocally
<1>2. CASE /\ o \in request[s].ids => (Stands(s, o) <=> StandsAfter(s, o))
           /\ favorites_count'[o] = favorites_count[o]
  <2>1. Counted(o)' = Counted(o)
    BY <1>0, <1>1, <1>2
  <2> QED
    BY <1>0, <1>2, <2>1
<1>3. CASE /\ o \in request[s].ids /\ ~Stands(s, o) /\ StandsAfter(s, o)
           /\ favorites_count'[o] = favorites_count[o] + 1
  <2>1. Counted(o)' = Counted(o) \cup {u} /\ u \notin Counted(o)
    BY <1>0, <1>1, <1>3
  <2> QED
    BY <1>0, <1>3, <2>1, FS_AddElement
<1>4. CASE /\ o \in request[s].ids /\ Stands(s, o) /\ ~StandsAfter(s, o)
           /\ favorites_count'[o] = IF favorites_count[o] > 0 THEN favorites_count[o] - 1 ELSE 0
  <2>1. Counted(o)' = Counted(o) \ {u} /\ u \in Counted(o)
    BY <1>0, <1>1, <1>4
  <2>2. Cardinality(Counted(o)) # 0
    BY <1>0, <2>1, FS_EmptySet
  <2> QED
    BY <1>0, <1>4, <2>1, <2>2, FS_RemoveElement
<1> QED
  BY <1>2, <1>3, <1>4 DEF CountsAlong

(* What is left to show of a step: what holds of its own session.          *)
LEMMA StepKeepsIInv ==
  ASSUME IInv, TypeOK', NEW s \in Sessions, Confined(s),
         Serving(s)', Holding(s)', Syncing(s)', CountsAlong(s)
  PROVE  IInv'
<1>1. CountersAgree'
  BY CountersFollow
<1>2. \A t \in Sessions : pc'[t] # "idle" => Busy(t) /\ request'[t] = request[t]
  BY DEF Confined, Busy
<1>3. Overlapping'
  <2>1. excused \subseteq excused'
    BY DEF Confined
  <2> QED
    BY <1>2, <2>1 DEF IInv, Overlapping, Busy, User
<1>4. ASSUME NEW t \in Sessions \ {s}, Busy(t), NEW i \in Items \ excused'
      PROVE  Has(User(t), i)' = Has(User(t), i)
  <2>1. request[t] \in Request /\ request'[t] = request[t] /\ i \notin excused
    BY <1>4 DEF IInv, Serving, Confined
  <2>2. User(t) \in Users /\ User(t)' = User(t)
    BY <2>1, RequestFacts DEF User
  <2>3. User(t) = User(s) => request[s].ids \subseteq excused
    BY <1>4 DEF IInv, Overlapping, Confined
  <2>4. (<<User(t), i>> \in favorite') = (<<User(t), i>> \in favorite)
    BY <2>1, <2>2, <2>3 DEF Confined, Has
  <2> QED
    BY <2>2, <2>4 DEF Has
<1>5. ASSUME NEW t \in Sessions \ {s} PROVE Serving(t)' /\ Holding(t)' /\ Syncing(t)'
  <2>0. /\ pc'[t] = pc[t] /\ request'[t] = request[t] /\ kind'[t] = kind[t]
        /\ existing'[t] = existing[t] /\ valid'[t] = valid[t]
        /\ at'[t] = at[t] /\ pending'[t] = pending[t]
        /\ gone'[t] = gone[t] \/
             (pc[t] \in {"refresh", "count", "delete", "uncount"} /\ User(t) = User(s))
        /\ excused \subseteq excused'
        /\ OfKind(kind'[t]) = OfKind(kind[t])
    BY DEF Confined
  <2>1. Serving(t)'
    BY <2>0 DEF IInv, Serving, Busy
  <2>2. Busy(t) => request[t].ids \subseteq Items
    BY RequestFacts DEF IInv, Serving
  <2>3. Holding(t)'
    <3>1. gone'[t] # gone[t] => request[t].ids \subseteq excused
      BY <2>0 DEF IInv, Overlapping, Confined, Busy
    <3>2. gone'[t] => pc'[t] \in {"refresh", "count", "delete", "uncount"}
      BY <2>0 DEF IInv, Holding
    <3>3. ASSUME Busy(t), NEW i \in request[t].ids \ excused'
          PROVE  /\ pc[t] \in {"refresh", "count", "delete"} => Has(User(t), i)' /\ ~gone'[t]
                 /\ pc[t] = "uncount" => ~Has(User(t), i)'
      <4>1. i \in Items \ excused' /\ i \in request[t].ids \ excused
        BY <2>0, <2>2, <3>3
      <4>2. Has(User(t), i)' = Has(User(t), i)
        BY <1>4, <3>3, <4>1
      <4>3. gone'[t] = gone[t]
        BY <3>1, <4>1
      <4> QED
        BY <3>3, <4>1, <4>2, <4>3 DEF IInv, Holding
    <3> QED
      BY <2>0, <3>2, <3>3 DEF Holding, Busy
  <2>4. Syncing(t)'
    <3>0. Wanted(t)' = Wanted(t)
      BY <2>0 DEF Wanted
    <3>1. Syncing(t) /\ existing[t] \subseteq Items
      BY DEF IInv, TypeOK
    <3>2. CASE pc[t] \in {"insert", "tally", "commit"}
      <4>1. Busy(t) /\ Wanted(t) \subseteq Items
        BY <2>2, <3>1, <3>2 DEF Busy, Syncing
      <4>2. \A i \in (Wanted(t) \cup existing[t]) \ excused' :
              i \notin excused /\ Has(User(t), i)' = Has(User(t), i)
        BY <1>4, <2>0, <3>1, <4>1
      <4> QED
        BY <2>0, <3>0, <3>1, <3>2, <4>2 DEF Syncing
    <3>3. CASE pc[t] \notin {"insert", "tally", "commit"}
      BY <2>0, <3>1, <3>3 DEF Syncing
    <3> QED
      BY <3>2, <3>3
  <2> QED
    BY <2>1, <2>3, <2>4
<1> QED
  BY <1>1, <1>3, <1>5 DEF IInv

-----------------------------------------------------------------------------
(* A request comes in: it has done nothing yet.                            *)
LEMMA BeginKeepsIInv ==
  ASSUME IInv, NEW s \in Sessions, NEW r \in Request, NEW label, Begin(s, r, label),
         \/ label = "store" /\ r.op = "add"
         \/ label = "delete" /\ r.op = "remove" /\ \A i \in r.ids : Has(r.by, i)
         \/ label = "read" /\ r.op = "sync"
  PROVE  IInv'
<1> USE DEF IInv
<1>0. /\ pc[s] = "idle" /\ pc' = [pc EXCEPT ![s] = label] /\ pc'[s] = label
      /\ request' = [request EXCEPT ![s] = r] /\ request'[s] = r
      /\ label \in {"store", "delete", "read"}
      /\ UNCHANGED <<favorite, favorites_count, gone, kind, existing, valid, at, pending>>
      /\ \A t \in Sessions \ {s} : pc'[t] = pc[t] /\ request'[t] = request[t]
      /\ r.ids \subseteq Items
  BY RequestFacts DEF Begin, Goto, table, sync, TypeOK
<1>1. /\ excused \subseteq excused'
      /\ \A t \in Sessions : Busy(t) /\ User(t) = r.by =>
           request[t].ids \subseteq excused' /\ r.ids \subseteq excused'
      /\ excused' \subseteq Items
  <2>1. \A t \in Sessions : Busy(t) => request[t].ids \subseteq Items
    BY RequestFacts DEF Serving
  <2> QED
    BY <1>0, <2>1 DEF Begin, Busy, TypeOK
<1>2. TypeOK'
  BY <1>0, <1>1 DEF TypeOK, Labels
<1>3. Overlapping'
  BY <1>0, <1>1 DEF Overlapping, Busy, User
<1>4. ASSUME NEW t \in Sessions PROVE Serving(t)' /\ Holding(t)' /\ Syncing(t)'
  <2>1. CASE t = s
    <3>1. ~gone[s] /\ at[s] = 1 /\ pending[s] = {}
      BY <1>0 DEF Holding, Syncing
    <3>2. Serving(s)'
      BY <1>0 DEF Serving, Busy
    <3>3. Holding(s)'
      BY <1>0, <3>1 DEF Holding, Busy, Has, User
    <3>4. Syncing(s)'
      BY <1>0, <3>1 DEF Syncing
    <3> QED
      BY <2>1, <3>2, <3>3, <3>4
  <2>2. CASE t # s
    <3>1. Serving(t)'
      BY <1>0, <2>2 DEF Serving, Busy
    <3>2. Holding(t)'
      BY <1>0, <1>1, <2>2 DEF Holding, Busy, Has, User
    <3>3. Wanted(t)' = Wanted(t) /\ User(t)' = User(t) /\ OfKind(kind[t])' = OfKind(kind[t])
      BY <1>0, <2>2 DEF Wanted, User, OfKind
    <3>4. Syncing(t)'
      BY <1>0, <1>1, <2>2, <3>3 DEF Syncing, Has
    <3> QED
      BY <3>1, <3>2, <3>4
  <2> QED
    BY <2>1, <2>2
<1>5. CountersAgree'
  <2>1. \A t \in Sessions \ {s} : Uncounted(t)' = Uncounted(t) /\ User(t)' = User(t)
    BY <1>0 DEF Uncounted, User
  <2>2. Uncounted(s) = {} /\ Uncounted(s)' = {}
    BY <1>0, UncountedFacts, UncountedFactsPrime
  <2>3. ASSUME NEW o \in Opportunities PROVE Counted(o)' = Counted(o)
    BY <1>0, <2>1, <2>2 DEF Counted, Has
  <2> QED
    BY <1>0, <1>1, <2>3 DEF CountersAgree
<1> QED
  BY <1>2, <1>3, <1>4, <1>5

LEMMA AskKeepsIInv ==
  ASSUME IInv, NEW s \in Sessions, Ask(s)
  PROVE  IInv'
<1>1. ASSUME NEW u \in Users, NEW i \in Items, Add(s, u, i) PROVE IInv'
  <2> DEFINE r == [op |-> "add", by |-> u, ids |-> {i}]
  <2>1. r \in Request /\ r.op = "add" /\ Begin(s, r, "store")
    BY <1>1 DEF Add, Request
  <2> QED
    BY <2>1, BeginKeepsIInv
<1>2. ASSUME NEW u \in Users, NEW i \in Items, Remove(s, u, i) PROVE IInv'
  <2> DEFINE r == [op |-> "remove", by |-> u, ids |-> {i}]
  <2>1. /\ r \in Request /\ r.op = "remove" /\ Begin(s, r, "delete")
        /\ \A j \in r.ids : Has(r.by, j)
    BY <1>2 DEF Remove, Request, Has
  <2> QED
    BY <2>1, BeginKeepsIInv
<1>3. ASSUME NEW u \in Users, NEW ids \in SyncLists, Sync(s, u, ids) PROVE IInv'
  <2> DEFINE r == [op |-> "sync", by |-> u, ids |-> ids]
  <2>1. r \in Request /\ r.op = "sync" /\ Begin(s, r, "read")
    BY <1>3 DEF Sync, Request
  <2> QED
    BY <2>1, BeginKeepsIInv
<1> QED
  BY <1>1, <1>2, <1>3 DEF Ask, AskSync, AskOpportunities, AskCompanies, AskOneOf, Items

-----------------------------------------------------------------------------
(* An order of a finite set is a sequence of its elements without repeats. *)
LEMMA OrderFacts ==
  ASSUME NEW S, IsFiniteSet(S), NEW q \in OrdersOf(S)
  PROVE  /\ \A T : S \subseteq T => q \in Seq(T)
         /\ DOMAIN q \subseteq Nat \ {0}
         /\ S # {} => 1 \in DOMAIN q
         /\ S = {q[n] : n \in DOMAIN q}
         /\ \A m, n \in DOMAIN q : q[m] = q[n] => m = n
<1>1. PICK k \in Nat : k = Cardinality(S)
  BY FS_CardinalityType
<1>2. q \in [1..k -> S] /\ \A i \in S : \E n \in 1..k : q[n] = i
  BY <1>1 DEF OrdersOf
<1>3. IsFiniteSet(1..k) /\ Cardinality(1..k) = k
  BY FS_Interval
<1>4. q \in Surjection(1..k, S)
  BY <1>2 DEF Surjection
<1>5. q \in Injection(1..k, S)
  BY <1>1, <1>3, <1>4, FS_SurjSameCardinalityImpliesInj
<1>6. \A m, n \in 1..k : q[m] = q[n] => m = n
  BY <1>5 DEF Injection, IsInjective
<1>7. S # {} => k # 0
  BY <1>1, FS_EmptySet
<1>8. ASSUME NEW T, S \subseteq T PROVE q \in Seq(T)
  <2>1. q \in [1..k -> T]
    BY <1>2, <1>8
  <2> QED
    BY <2>1
<1> QED
  BY <1>2, <1>6, <1>7, <1>8

(* Session variables of a step of s: typed, and the others' as they were.  *)
OwnStep(s) ==
  /\ pc' \in [Sessions -> Labels]
  /\ request' \in [Sessions -> Request \cup {NoRequest}]
  /\ gone' \in [Sessions -> BOOLEAN]
  /\ kind' \in [Sessions -> Kinds]
  /\ existing' \in [Sessions -> SUBSET Items]
  /\ valid' \in [Sessions -> Seq(Items)]
  /\ at' \in [Sessions -> Nat \ {0}]
  /\ pending' \in [Sessions -> SUBSET Items]
  /\ request'[s] = request[s] \/ pc'[s] = "idle"
  /\ \A t \in Sessions \ {s} :
       /\ pc'[t] = pc[t] /\ request'[t] = request[t] /\ kind'[t] = kind[t]
       /\ existing'[t] = existing[t] /\ valid'[t] = valid[t] /\ gone'[t] = gone[t]
       /\ at'[t] = at[t] /\ pending'[t] = pending[t]

LEMMA OwnStepConfined ==
  ASSUME NEW s \in Sessions, Busy(s), OwnStep(s), excused \subseteq excused',
         \A u \in Users, i \in Items :
           Has(u, i)' # Has(u, i) => u = User(s) /\ i \in request[s].ids
  PROVE  Confined(s)
BY DEF OwnStep, Confined

LEMMA AnswerFacts ==
  ASSUME IInv, NEW s \in Sessions, Answer(s)
  PROVE  /\ OwnStep(s) /\ pc'[s] = "idle"
         /\ Serving(s)' /\ Holding(s)' /\ Syncing(s)'
         /\ Uncounted(s)' = {}
<1>0. TypeOK
  BY DEF IInv
<1>1. OwnStep(s)
  BY <1>0 DEF Answer, EndSync, Goto, TypeOK, OwnStep, Labels, Kinds
<1>2. pc'[s] = "idle" /\ gone'[s] = FALSE /\ at'[s] = 1 /\ pending'[s] = {}
  BY <1>0 DEF Answer, EndSync, Goto, TypeOK
<1>3. Serving(s)' /\ Holding(s)' /\ Syncing(s)'
  BY <1>2 DEF Serving, Holding, Syncing, Busy
<1>4. Uncounted(s)' = {}
  BY <1>2, UncountedFactsPrime
<1> QED
  BY <1>1, <1>2, <1>3, <1>4

(* A request ends and leaves the tables alone.                             *)
LEMMA AnswerKeepsIInv ==
  ASSUME IInv, NEW s \in Sessions, Busy(s), Answer(s), UNCHANGED table,
         excused \subseteq excused', excused' \subseteq excused \cup request[s].ids,
         pc[s] \in {"refresh", "count", "uncount", "tally"} =>
           request[s].ids \cap Opportunities \subseteq excused'
  PROVE  IInv'
<1>1. /\ OwnStep(s) /\ pc'[s] = "idle" /\ Serving(s)' /\ Holding(s)' /\ Syncing(s)'
      /\ Uncounted(s)' = {}
  BY AnswerFacts
<1>2. request[s].ids \subseteq Items
  BY RequestFacts DEF IInv, Serving
<1>3. TypeOK'
  BY <1>1, <1>2 DEF OwnStep, IInv, TypeOK, table
<1>4. Confined(s)
  BY <1>1, OwnStepConfined DEF table, Has
<1>5. CountsAlong(s)
  <2>1. pc[s] \notin {"refresh", "count", "uncount", "tally"} => Uncounted(s) = {}
    BY UncountedFacts
  <2> QED
    BY <1>1, <2>1 DEF CountsAlong, Stands, StandsAfter, table, Has
<1> QED
  BY <1>1, <1>3, <1>4, <1>5, StepKeepsIInv

-----------------------------------------------------------------------------
LEMMA StoreKeepsIInv ==
  ASSUME IInv, NEW s \in Sessions, StoreFavorite(s)
  PROVE  IInv'
<1>0. /\ Busy(s) /\ pc[s] = "store" /\ request[s] \in Request /\ request[s].op = "add"
      /\ Item(s) \in Items /\ request[s].ids = {Item(s)} /\ User(s) \in Users
      /\ ~gone[s] /\ TypeOK /\ Syncing(s)
  BY ItemFacts, RequestFacts DEF StoreFavorite, IInv, Serving, Holding, Busy, User
<1>1. CASE Stored(User(s), Item(s))
  BY <1>0, <1>1, AnswerKeepsIInv DEF StoreFavorite, table
<1>2. CASE ~Stored(User(s), Item(s))
  <2>1. /\ favorite' = favorite \cup {<<User(s), Item(s)>>}
        /\ pc' = [pc EXCEPT ![s] = "refresh"] /\ pc'[s] = "refresh"
        /\ UNCHANGED <<session, favorites_count, excused>>
    BY <1>0, <1>2 DEF StoreFavorite, Goto, TypeOK
  <2>2. TypeOK' /\ OwnStep(s)
    BY <1>0, <2>1 DEF TypeOK, Labels, OwnStep, session, sync
  <2>3. Confined(s)
    BY <1>0, <2>1, <2>2, OwnStepConfined DEF Has
  <2>4. Serving(s)' /\ Holding(s)' /\ Syncing(s)'
    BY <1>0, <2>1 DEF Serving, Holding, Syncing, Busy, Has, User, session, sync
  <2>5. CountsAlong(s)
    <3>1. Uncounted(s)' = request[s].ids /\ Uncounted(s) = {}
      BY <1>0, <2>1, UncountedFacts, UncountedFactsPrime DEF session
    <3> QED
      BY <1>0, <1>2, <2>1, <3>1 DEF CountsAlong, Stands, StandsAfter, Has, Stored
  <2> QED
    BY <2>2, <2>3, <2>4, <2>5, StepKeepsIInv
<1> QED
  BY <1>1, <1>2

LEMMA RefreshKeepsIInv ==
  ASSUME IInv, NEW s \in Sessions, RefreshFavorite(s)
  PROVE  IInv'
<1>0. /\ Busy(s) /\ pc[s] = "refresh" /\ request[s] \in Request /\ request[s].op = "add"
      /\ Item(s) \in Items /\ request[s].ids = {Item(s)} /\ User(s) \in Users
      /\ TypeOK /\ Syncing(s) /\ Holding(s)
  BY ItemFacts, RequestFacts DEF RefreshFavorite, IInv, Serving, Busy, User
<1>1. CASE Answer(s) /\ (gone[s] \/ Item(s) \in Companies)
  <2>1. request[s].ids \cap Opportunities \subseteq excused
    BY <1>0, <1>1, KindsAssumption DEF Holding, Busy
  <2> QED
    BY <1>0, <1>1, <2>1, AnswerKeepsIInv DEF RefreshFavorite, table
<1>2. CASE ~gone[s] /\ Item(s) \in Opportunities /\ Goto(s, "count") /\ UNCHANGED session
  <2>1. /\ pc' = [pc EXCEPT ![s] = "count"] /\ pc'[s] = "count"
        /\ UNCHANGED <<session, favorite, favorites_count, excused>>
    BY <1>0, <1>2 DEF RefreshFavorite, Goto, TypeOK, table
  <2>2. TypeOK' /\ OwnStep(s)
    BY <1>0, <2>1 DEF TypeOK, Labels, OwnStep, session, sync
  <2>3. Confined(s)
    BY <1>0, <2>1, <2>2, OwnStepConfined DEF Has
  <2>4. Serving(s)' /\ Holding(s)' /\ Syncing(s)'
    BY <1>0, <1>2, <2>1 DEF Serving, Holding, Syncing, Busy, Has, User, session, sync
  <2>5. CountsAlong(s)
    <3>1. Uncounted(s)' = request[s].ids /\ Uncounted(s) = request[s].ids
      BY <1>0, <2>1, UncountedFacts, UncountedFactsPrime DEF session
    <3> QED
      BY <1>0, <2>1, <3>1 DEF CountsAlong, Stands, StandsAfter
  <2> QED
    BY <2>2, <2>3, <2>4, <2>5, StepKeepsIInv
<1> QED
  BY <1>1, <1>2 DEF RefreshFavorite

LEMMA CountKeepsIInv ==
  ASSUME IInv, NEW s \in Sessions, CountFavorite(s)
  PROVE  IInv'
<1>0. /\ Busy(s) /\ pc[s] = "count" /\ request[s] \in Request /\ request[s].op = "add"
      /\ Item(s) \in Opportunities /\ request[s].ids = {Item(s)} /\ User(s) \in Users
      /\ TypeOK /\ Holding(s)
  BY ItemFacts, RequestFacts DEF CountFavorite, IInv, Serving, Busy, User
<1>1. /\ OwnStep(s) /\ pc'[s] = "idle" /\ Serving(s)' /\ Holding(s)' /\ Syncing(s)'
      /\ Uncounted(s)' = {}
  BY AnswerFacts DEF CountFavorite
<1>2. /\ favorites_count' = [favorites_count EXCEPT ![Item(s)] = @ + 1]
      /\ UNCHANGED <<favorite, excused>>
  BY DEF CountFavorite, Increment
<1>3. TypeOK'
  BY <1>0, <1>1, <1>2 DEF TypeOK, OwnStep
<1>4. Confined(s)
  BY <1>0, <1>1, <1>2, OwnStepConfined DEF Has
<1>5. CountsAlong(s)
  <2>1. Uncounted(s) = request[s].ids
    BY <1>0, UncountedFacts
  <2>2. Item(s) \notin excused => Has(User(s), Item(s))
    BY <1>0 DEF Holding, Busy
  <2> QED
    BY <1>0, <1>1, <1>2, <2>1, <2>2 DEF CountsAlong, Stands, StandsAfter, TypeOK, Has
<1> QED
  BY <1>1, <1>3, <1>4, <1>5, StepKeepsIInv

(* DELETE: whoever else holds the row is excused.                          *)
LEMMA DeleteKeepsIInv ==
  ASSUME IInv, NEW s \in Sessions, DeleteFavorite(s)
  PROVE  IInv'
<1>0. /\ Busy(s) /\ pc[s] = "delete" /\ request[s] \in Request /\ request[s].op = "remove"
      /\ Item(s) \in Items /\ request[s].ids = {Item(s)} /\ User(s) \in Users
      /\ TypeOK /\ Syncing(s) /\ Holding(s)
  BY ItemFacts, RequestFacts DEF DeleteFavorite, IInv, Serving, Busy, User
<1>1. /\ pc' = [pc EXCEPT ![s] = "uncount"] /\ pc'[s] = "uncount"
      /\ UNCHANGED <<favorites_count, request, kind, existing, valid, at, pending, excused>>
      /\ favorite' = favorite \/ (~gone[s] /\ favorite' = favorite \ {<<User(s), Item(s)>>})
      /\ ~gone[s] => favorite' = favorite \ {<<User(s), Item(s)>>}
      /\ gone' \in [Sessions -> BOOLEAN]
      /\ \A t \in Sessions : gone'[t] # gone[t] =>
           pc[t] \in {"refresh", "count", "delete", "uncount"} /\ User(t) = User(s)
  BY <1>0 DEF DeleteFavorite, Orphan, Goto, TypeOK, sync
<1>2. TypeOK'
  BY <1>0, <1>1 DEF TypeOK, Labels
<1>3. Confined(s)
  BY <1>0, <1>1 DEF Confined, Has
<1>4. Serving(s)' /\ Holding(s)' /\ Syncing(s)'
  <2>1. Serving(s)' /\ Syncing(s)'
    BY <1>0, <1>1 DEF Serving, Syncing, Busy
  <2>2. ASSUME NEW i \in request[s].ids \ excused PROVE ~Has(User(s), i)'
    BY <1>0, <1>1, <2>2 DEF Holding, Busy, Has, User
  <2> QED
    BY <1>1, <2>1, <2>2 DEF Holding, Busy
<1>5. CountsAlong(s)
  <2>1. Uncounted(s) = {}
    BY <1>0, UncountedFacts
  <2>2. Item(s) \notin excused => Has(User(s), Item(s))
    BY <1>0 DEF Holding, Busy
  <2> QED
    BY <1>0, <1>1, <2>1, <2>2 DEF CountsAlong, Stands, StandsAfter
<1> QED
  BY <1>2, <1>3, <1>4, <1>5, StepKeepsIInv

LEMMA UncountKeepsIInv ==
  ASSUME IInv, NEW s \in Sessions, UncountFavorite(s)
  PROVE  IInv'
<1>0. /\ Busy(s) /\ pc[s] = "uncount" /\ request[s] \in Request /\ request[s].op = "remove"
      /\ Item(s) \in Items /\ request[s].ids = {Item(s)} /\ User(s) \in Users
      /\ TypeOK /\ Holding(s)
  BY ItemFacts, RequestFacts DEF UncountFavorite, IInv, Serving, Busy, User
<1>1. /\ OwnStep(s) /\ pc'[s] = "idle" /\ Serving(s)' /\ Holding(s)' /\ Syncing(s)'
      /\ Uncounted(s)' = {}
  BY AnswerFacts DEF UncountFavorite
<1>2. /\ favorites_count' =
           IF Item(s) \in Opportunities
           THEN [favorites_count EXCEPT ![Item(s)] = IF @ > 0 THEN @ - 1 ELSE 0]
           ELSE favorites_count
      /\ UNCHANGED <<favorite, excused>>
  BY DEF UncountFavorite
<1>3. TypeOK'
  BY <1>0, <1>1, <1>2 DEF TypeOK, OwnStep
<1>4. Confined(s)
  BY <1>0, <1>1, <1>2, OwnStepConfined DEF Has
<1>5. CountsAlong(s)
  <2>1. Item(s) \notin excused => ~Has(User(s), Item(s))
    BY <1>0 DEF Holding, Busy
  <2> QED
    BY <1>0, <1>1, <1>2, <2>1 DEF CountsAlong, Stands, StandsAfter, TypeOK, Has
<1> QED
  BY <1>1, <1>3, <1>4, <1>5, StepKeepsIInv

-----------------------------------------------------------------------------
(* sync_favorites.  A list that is done with, and the answer.              *)
LEMMA FinishListFacts ==
  ASSUME IInv, NEW s \in Sessions, Busy(s), request[s].op = "sync",
         ~gone[s], FinishList(s)
  PROVE  /\ OwnStep(s) /\ pc'[s] \in {"idle", "read"}
         /\ Serving(s)' /\ Holding(s)' /\ Syncing(s)'
         /\ Uncounted(s)' = {}
<1>0. TypeOK /\ request[s] \in Request
  BY DEF IInv, Serving
<1>1. CASE Answer(s)
  BY <1>1, AnswerFacts
<1>2. CASE ~Answer(s)
  <2>1. /\ pc' = [pc EXCEPT ![s] = "read"] /\ pc'[s] = "read"
        /\ kind' = [kind EXCEPT ![s] = "company"]
        /\ existing' = [existing EXCEPT ![s] = {}]
        /\ valid' = [valid EXCEPT ![s] = <<>>]
        /\ at' = [at EXCEPT ![s] = 1] /\ at'[s] = 1
        /\ pending' = [pending EXCEPT ![s] = {}] /\ pending'[s] = {}
        /\ UNCHANGED <<request, gone>>
    BY <1>0, <1>2 DEF FinishList, Goto, TypeOK
  <2>2. OwnStep(s)
    BY <1>0, <2>1 DEF OwnStep, TypeOK, Labels, Kinds
  <2>3. Serving(s)' /\ Holding(s)' /\ Syncing(s)'
    BY <1>0, <2>1 DEF Serving, Holding, Syncing, Busy
  <2>4. Uncounted(s)' = {}
    BY <2>1, UncountedFactsPrime
  <2> QED
    BY <2>1, <2>2, <2>3, <2>4
<1> QED
  BY <1>1, <1>2

(* A step of a sync that changes no row and no counter.                    *)
LEMMA SyncStepKeepsIInv ==
  ASSUME IInv, NEW s \in Sessions, Busy(s), UNCHANGED <<table, excused>>, OwnStep(s),
         pc[s] # "uncount", pc'[s] # "uncount",
         \A o \in request[s].ids \ excused : o \notin Uncounted(s) \/ ~Has(User(s), o),
         \A o \in request[s].ids \ excused : o \notin Uncounted(s)' \/ ~Has(User(s), o),
         Serving(s)', Holding(s)', Syncing(s)'
  PROVE  IInv'
<1>1. TypeOK'
  BY DEF IInv, TypeOK, OwnStep, table
<1>2. Confined(s)
  BY OwnStepConfined DEF table, Has
<1>3. CountsAlong(s)
  BY DEF CountsAlong, Stands, StandsAfter, table, Has
<1> QED
  BY <1>1, <1>2, <1>3, StepKeepsIInv

(* What the SELECTs return is not stored, and is taken up once.            *)
LEMMA ReadKeepsIInv ==
  ASSUME IInv, NEW s \in Sessions, ReadExisting(s)
  PROVE  IInv'
<1>0. /\ Busy(s) /\ pc[s] = "read" /\ request[s] \in Request /\ request[s].op = "sync"
      /\ request[s].ids \subseteq Items /\ IsFiniteSet(request[s].ids)
      /\ User(s) \in Users /\ ~gone[s] /\ at[s] = 1 /\ pending[s] = {}
      /\ TypeOK /\ UNCHANGED <<table, excused>>
      /\ Uncounted(s) = {}
  BY RequestFacts, SyncListsAssumption, UncountedFacts
     DEF ReadExisting, IInv, Serving, Holding, Syncing, Busy, User
<1> DEFINE wanted == request[s].ids \cap OfKind(kind[s])
           mine   == RowsOf(User(s)) \cap OfKind(kind[s])
<1>1. CASE FinishList(s)
  <2>1. /\ OwnStep(s) /\ pc'[s] \in {"idle", "read"}
        /\ Serving(s)' /\ Holding(s)' /\ Syncing(s)' /\ Uncounted(s)' = {}
    BY <1>0, <1>1, FinishListFacts
  <2> QED
    BY <1>0, <2>1, SyncStepKeepsIInv
<1>2. CASE ~FinishList(s)
  <2>0. PICK found \in SUBSET (wanted \ mine) : \E order \in OrdersOf(found) :
          /\ valid' = [valid EXCEPT ![s] = order]
          /\ Goto(s, IF found = {} THEN "commit" ELSE "insert")
          /\ existing' = [existing EXCEPT ![s] = mine]
          /\ UNCHANGED <<request, gone, kind, at, pending>>
    BY <1>2 DEF ReadExisting
  <2>1. PICK order \in OrdersOf(found) :
          /\ valid' = [valid EXCEPT ![s] = order]
          /\ Goto(s, IF found = {} THEN "commit" ELSE "insert")
          /\ existing' = [existing EXCEPT ![s] = mine]
          /\ UNCHANGED <<request, gone, kind, at, pending>>
    BY <2>0
  <2>2. IsFiniteSet(found)
    BY <1>0, FS_Subset
  <2>3. /\ found \subseteq Items => order \in Seq(Items)
        /\ DOMAIN order \subseteq Nat \ {0}
        /\ found # {} => 1 \in DOMAIN order
        /\ found = {order[n] : n \in DOMAIN order}
        /\ \A m, n \in DOMAIN order : order[m] = order[n] => m = n
    BY <2>2, OrderFacts
  <2>4. order \in Seq(Items) /\ found \subseteq Items /\ mine \subseteq Items
    <3>1. found \subseteq Items /\ mine \subseteq Items
      BY <1>0 DEF RowsOf
    <3> QED
      BY <2>3, <3>1
  <2>5. /\ pc'[s] = IF found = {} THEN "commit" ELSE "insert"
        /\ valid'[s] = order /\ existing'[s] = mine /\ at'[s] = 1 /\ pending'[s] = {}
        /\ kind'[s] = kind[s] /\ request'[s] = request[s]
    BY <1>0, <2>1, <2>4 DEF Goto, TypeOK
  <2>6. OwnStep(s)
    BY <1>0, <2>1, <2>4 DEF OwnStep, TypeOK, Labels, Goto
  <2>7. Serving(s)' /\ Holding(s)'
    BY <1>0, <2>1, <2>5 DEF Serving, Holding, Busy
  <2>8. Wanted(s)' = found /\ User(s)' = User(s)
    <3>1. Wanted(s)' = {order[n] : n \in DOMAIN order}
      BY <2>5 DEF Wanted
    <3> QED
      BY <2>3, <2>5, <3>1 DEF User
  <2>9. \A i \in Items : Has(User(s), i)' = Has(User(s), i) /\ (Has(User(s), i) <=> i \in RowsOf(User(s)))
    BY <1>0, <2>8 DEF Has, RowsOf, table
  <2>11. Syncing(s)'
    <3>1. /\ found \subseteq request[s].ids \cap OfKind(kind[s])
          /\ \A i \in mine : Has(User(s), i)
          /\ \A i \in found : ~Has(User(s), i)
      BY <2>4, <2>9
    <3>2. OfKind(kind[s])' = OfKind(kind[s])
      BY <2>5 DEF OfKind
    <3>3. \A n \in DOMAIN order : ~(n < 1)
      <4>1. \A n \in Nat \ {0} : ~(n < 1)
        OBVIOUS
      <4> QED
        BY <2>3, <4>1
    <3> QED
      BY <1>0, <2>3, <2>4, <2>5, <2>8, <2>9, <3>1, <3>2, <3>3 DEF Syncing
  <2>12. Uncounted(s)' = {}
    BY <2>5, UncountedFactsPrime
  <2> QED
    BY <1>0, <2>5, <2>6, <2>7, <2>11, <2>12, SyncStepKeepsIInv
<1> QED
  BY <1>1, <1>2

(* The INSERT skips what is stored: excused, if nobody had it before.      *)
LEMMA InsertRowKeepsIInv ==
  ASSUME IInv, NEW s \in Sessions, InsertRow(s)
  PROVE  IInv'
<1> DEFINE i == valid[s][at[s]]
           D == DOMAIN valid[s]
<1>0. /\ Busy(s) /\ pc[s] = "insert" /\ request[s] \in Request /\ request[s].op = "sync"
      /\ request[s].ids \subseteq Items /\ User(s) \in Users /\ ~gone[s]
      /\ TypeOK /\ Syncing(s) /\ UNCHANGED <<table, excused>>
      /\ UNCHANGED <<request, gone, kind, existing, valid>>
      /\ Uncounted(s) = {}
      /\ valid[s] \in Seq(Items) /\ D = 1..Len(valid[s]) /\ Len(valid[s]) \in Nat
      /\ at[s] \in D /\ i \in Wanted(s) /\ i \in Items
  <2>1. /\ Busy(s) /\ pc[s] = "insert" /\ request[s] \in Request /\ request[s].op = "sync"
        /\ request[s].ids \subseteq Items /\ User(s) \in Users /\ ~gone[s]
        /\ TypeOK /\ Syncing(s) /\ UNCHANGED <<table, excused>>
        /\ UNCHANGED <<request, gone, kind, existing, valid>>
        /\ Uncounted(s) = {}
    BY RequestFacts, UncountedFacts DEF InsertRow, IInv, Serving, Holding, Busy, User
  <2>2. valid[s] \in Seq(Items) /\ D = 1..Len(valid[s]) /\ Len(valid[s]) \in Nat
    BY <2>1 DEF TypeOK
  <2>3. at[s] \in D
    BY <2>1 DEF Syncing
  <2> QED
    BY <2>1, <2>2, <2>3 DEF Wanted
<1>1. /\ pending' = [pending EXCEPT ![s] = IF Stored(User(s), i) THEN @ ELSE @ \cup {i}]
      /\ pending'[s] = IF Stored(User(s), i) THEN pending[s] ELSE pending[s] \cup {i}
  BY <1>0 DEF InsertRow, TypeOK
<1>2. i \in pending'[s] \cup excused /\ pending[s] \subseteq pending'[s]
  BY <1>0, <1>1 DEF Syncing, Stored, Has
<1>3. \A n \in D : n <= at[s] => valid[s][n] \in pending'[s] \cup excused
  <2> SUFFICES ASSUME NEW n \in D, n <= at[s] PROVE valid[s][n] \in pending'[s] \cup excused
    OBVIOUS
  <2>1. CASE n = at[s]
    BY <1>2, <2>1
  <2>2. CASE n < at[s]
    BY <1>0, <1>2, <2>2 DEF Syncing
  <2> QED
    BY <1>0, <2>1, <2>2
<1>4. /\ pending'[s] \subseteq Wanted(s) /\ Wanted(s) \subseteq request[s].ids \cap OfKind(kind[s])
      /\ \A j \in Wanted(s) \ excused : ~Has(User(s), j)
      /\ \A j \in existing[s] \ excused : Has(User(s), j)
      /\ \A m, n \in D : valid[s][m] = valid[s][n] => m = n
  BY <1>0, <1>1 DEF Syncing
<1>5. /\ Wanted(s)' = Wanted(s) /\ User(s)' = User(s) /\ OfKind(kind[s])' = OfKind(kind[s])
      /\ \A j : Has(User(s), j)' = Has(User(s), j)
  BY <1>0 DEF Wanted, User, OfKind, Has, table
<1>6. CASE AtLast(s)
  <2>1. /\ at' = [at EXCEPT ![s] = 1] /\ at'[s] = 1
        /\ pc' = [pc EXCEPT ![s] = IF kind[s] = "opportunity" THEN "tally" ELSE "commit"]
        /\ pc'[s] = IF kind[s] = "opportunity" THEN "tally" ELSE "commit"
    BY <1>0, <1>6 DEF InsertRow, Goto, TypeOK
  <2>2. OwnStep(s)
    BY <1>0, <1>1, <2>1 DEF OwnStep, TypeOK, Labels
  <2>3. Wanted(s) \subseteq pending'[s] \cup excused
    BY <1>0, <1>3, <1>6 DEF AtLast, Wanted
  <2>4. Serving(s)' /\ Holding(s)'
    BY <1>0, <2>1 DEF Serving, Holding, Busy
  <2>5. Syncing(s)'
    BY <1>0, <1>4, <1>5, <2>1, <2>3 DEF Syncing
  <2>6. \A o \in request[s].ids \ excused : o \notin Uncounted(s)' \/ ~Has(User(s), o)
    <3>1. pc'[s] = "tally" => Uncounted(s)' \subseteq Wanted(s)
      BY <1>0, UncountedFactsPrime DEF Wanted
    <3>2. pc'[s] = "commit" => Uncounted(s)' = {}
      BY UncountedFactsPrime
    <3> QED
      BY <1>4, <2>1, <3>1, <3>2
  <2> QED
    BY <1>0, <2>1, <2>2, <2>4, <2>5, <2>6, SyncStepKeepsIInv
<1>7. CASE ~AtLast(s)
  <2>1. /\ at' = [at EXCEPT ![s] = @ + 1] /\ at'[s] = at[s] + 1
        /\ pc' = pc
    BY <1>0, <1>7 DEF InsertRow, TypeOK
  <2>2. OwnStep(s)
    BY <1>0, <1>1, <2>1 DEF OwnStep, TypeOK
  <2>3. Serving(s)' /\ Holding(s)'
    BY <1>0, <2>1 DEF Serving, Holding, Busy
  <2>4. at'[s] \in D
    BY <1>0, <1>7, <2>1 DEF AtLast
  <2>5. \A n \in D : n < at'[s] => valid[s][n] \in pending'[s] \cup excused
    BY <1>0, <1>3, <2>1
  <2>6. Syncing(s)'
    BY <1>0, <1>4, <1>5, <2>1, <2>4, <2>5 DEF Syncing
  <2>7. Uncounted(s)' = {}
    BY <1>0, <2>1, UncountedFactsPrime
  <2> QED
    BY <1>0, <2>1, <2>2, <2>3, <2>6, <2>7, SyncStepKeepsIInv
<1> QED
  BY <1>6, <1>7

(* One id further in the loop that counts, with nothing left to commit.    *)
LEMMA TallyNextFacts ==
  ASSUME IInv, NEW s \in Sessions, pc[s] = "tally",
         pending' = [pending EXCEPT ![s] = {}], TallyNext(s),
         UNCHANGED <<request, gone, kind, existing, valid>>,
         \A i \in (Wanted(s) \cup existing[s]) \ excused' : Has(User(s), i)'
  PROVE  /\ OwnStep(s) /\ Serving(s)' /\ Holding(s)' /\ Syncing(s)'
         /\ pc'[s] \in {"tally", "commit"}
         /\ Uncounted(s)' =
              {valid[s][m] : m \in {m \in DOMAIN valid[s] : at[s] < m}}
<1> DEFINE D == DOMAIN valid[s]
<1>0. /\ TypeOK /\ Syncing(s) /\ at[s] \in D /\ kind[s] = "opportunity"
      /\ D = 1..Len(valid[s]) /\ Len(valid[s]) \in Nat /\ at[s] \in Nat
      /\ request[s] \in Request /\ request[s].op = "sync" /\ ~gone[s]
      /\ pending'[s] = {}
  <2>1. /\ TypeOK /\ Syncing(s) /\ at[s] \in D /\ kind[s] = "opportunity"
        /\ request[s] \in Request /\ request[s].op = "sync" /\ ~gone[s]
    BY DEF IInv, Serving, Holding, Syncing, Busy
  <2>2. valid[s] \in Seq(Items) /\ pending'[s] = {} /\ at[s] \in Nat
    BY <2>1 DEF TypeOK
  <2> QED
    BY <2>1, <2>2
<1>1. /\ Wanted(s)' = Wanted(s) /\ User(s)' = User(s) /\ OfKind(kind[s])' = OfKind(kind[s])
  BY <1>0 DEF Wanted, User, OfKind
<1>2. CASE AtLast(s)
  <2>1. pc' = [pc EXCEPT ![s] = "commit"] /\ pc'[s] = "commit" /\ at' = at
    BY <1>0, <1>2 DEF TallyNext, Goto, TypeOK
  <2>2. OwnStep(s)
    BY <1>0, <2>1 DEF OwnStep, TypeOK, Labels
  <2>3. Serving(s)' /\ Holding(s)'
    BY <1>0, <2>1 DEF Serving, Holding, Busy
  <2>4. Syncing(s)'
    BY <1>0, <1>1, <2>1 DEF Syncing
  <2>5. {m \in D : at[s] < m} = {}
    BY <1>0, <1>2 DEF AtLast
  <2>6. Uncounted(s)' = {}
    BY <2>1, UncountedFactsPrime
  <2> QED
    BY <2>1, <2>2, <2>3, <2>4, <2>5, <2>6
<1>3. CASE ~AtLast(s)
  <2>1. pc' = pc /\ at' = [at EXCEPT ![s] = @ + 1] /\ at'[s] = at[s] + 1
    BY <1>0, <1>3 DEF TallyNext, TypeOK
  <2>2. OwnStep(s)
    BY <1>0, <2>1 DEF OwnStep, TypeOK
  <2>3. Serving(s)' /\ Holding(s)'
    BY <1>0, <2>1 DEF Serving, Holding, Busy
  <2>4. at'[s] \in D /\ at'[s] # 1
    BY <1>0, <1>3, <2>1 DEF AtLast
  <2>5. Syncing(s)'
    BY <1>0, <1>1, <2>1, <2>4 DEF Syncing
  <2>6. {m \in D : at'[s] <= m} = {m \in D : at[s] < m}
    BY <1>0, <2>1
  <2>7. Uncounted(s)' = {valid[s][m] : m \in {m \in D : at'[s] <= m}}
    BY <1>0, <2>1, UncountedFactsPrime
  <2> QED
    BY <2>1, <2>2, <2>3, <2>5, <2>6, <2>7
<1> QED
  BY <1>2, <1>3

(* The first id's COMMIT stores the rows of all; each step counts one.     *)
LEMMA TallyKeepsIInv ==
  ASSUME IInv, NEW s \in Sessions, Tally(s)
  PROVE  IInv'
<1> DEFINE V == valid[s]
           D == DOMAIN valid[s]
           n == at[s]
<1>0. /\ Busy(s) /\ pc[s] = "tally" /\ request[s] \in Request
      /\ request[s].ids \subseteq Items /\ User(s) \in Users
      /\ TypeOK /\ Syncing(s)
      /\ Wanted(s) \subseteq request[s].ids \cap Opportunities
      /\ pending[s] \subseteq Wanted(s)
      /\ n \in D /\ D \subseteq Nat \ {0} /\ V[n] \in Wanted(s)
  <2>1. /\ Busy(s) /\ pc[s] = "tally" /\ request[s] \in Request
        /\ TypeOK /\ Syncing(s)
    BY DEF Tally, IInv, Serving, Busy
  <2>2. /\ Wanted(s) \subseteq request[s].ids \cap Opportunities
        /\ pending[s] \subseteq Wanted(s) /\ n \in D
    BY <2>1 DEF Syncing, OfKind
  <2>3. D \subseteq Nat \ {0}
    <3>1. V \in Seq(Items)
      BY <2>1 DEF TypeOK
    <3> QED
      BY <3>1
  <2>4. request[s].ids \subseteq Items /\ User(s) \in Users
    BY <2>1, RequestFacts DEF User
  <2> QED
    BY <2>1, <2>2, <2>3, <2>4 DEF Wanted
<1>1. /\ favorite' = favorite \cup {<<User(s), i>> : i \in pending[s]}
      /\ pending' = [pending EXCEPT ![s] = {}]
      /\ favorites_count' = [favorites_count EXCEPT ![V[n]] = @ + 1]
      /\ TallyNext(s)
      /\ UNCHANGED <<request, gone, kind, existing, valid, excused>>
  BY DEF Tally, CommitPending, Increment
<1>2. /\ \A i : Has(User(s), i)' <=> Has(User(s), i) \/ i \in pending[s]
      /\ \A u \in Users, i \in Items :
           Has(u, i)' # Has(u, i) => u = User(s) /\ i \in pending[s]
  BY <1>1 DEF Has, User
<1>3. \A i \in Wanted(s) \ excused : Has(User(s), i)'
  BY <1>0, <1>2 DEF Syncing
<1>4. /\ OwnStep(s) /\ Serving(s)' /\ Holding(s)' /\ Syncing(s)'
      /\ pc'[s] \in {"tally", "commit"}
      /\ Uncounted(s)' = {V[m] : m \in {m \in D : n < m}}
  <2>1. \A i \in (Wanted(s) \cup existing[s]) \ excused' : Has(User(s), i)'
    BY <1>0, <1>1, <1>2, <1>3 DEF Syncing
  <2> QED
    BY <1>0, <1>1, <2>1, TallyNextFacts
<1>5. TypeOK'
  <2>1. favorite' \subseteq Users \X Items
    BY <1>0, <1>1 DEF TypeOK
  <2>2. favorites_count' \in [Opportunities -> Nat]
    BY <1>0, <1>1 DEF TypeOK
  <2> QED
    BY <1>0, <1>1, <1>4, <2>1, <2>2 DEF TypeOK, OwnStep
<1>6. Confined(s)
  <2>1. \A u \in Users, i \in Items :
          Has(u, i)' # Has(u, i) => u = User(s) /\ i \in request[s].ids
    BY <1>0, <1>2
  <2> QED
    BY <1>0, <1>1, <1>4, <2>1, OwnStepConfined
<1>7. ASSUME NEW m \in D, V[m] \notin excused
      PROVE  /\ Stands(s, V[m]) <=> m < n
             /\ StandsAfter(s, V[m]) <=> m <= n
  <2>1. /\ V[m] \in Wanted(s) /\ m \in Nat /\ n \in Nat
        /\ \A k \in D : V[k] = V[m] => k = m
    BY <1>0, <1>7 DEF Wanted, Syncing
  <2>2. V[m] \in Uncounted(s)' <=> n < m
    BY <1>4, <2>1
  <2>3. StandsAfter(s, V[m]) <=> m <= n
    <3>1. <<User(s), V[m]>> \in favorite'
      BY <1>1, <1>3, <1>7, <2>1 DEF Has, User
    <3>2. pc'[s] # "uncount"
      BY <1>4
    <3>3. m \in Nat /\ n \in Nat
      BY <2>1
    <3> QED
      BY <2>2, <3>1, <3>2, <3>3 DEF StandsAfter
  <2>4. Stands(s, V[m]) <=> Has(User(s), V[m]) /\ V[m] \notin Uncounted(s)
    BY <1>0 DEF Stands
  <2>5. Uncounted(s) = {V[k] : k \in {k \in D : n <= k}} \ pending[s]
    BY <1>0, UncountedFacts
  <2>6. CASE n = 1
    <3>1. ~Has(User(s), V[m])
      BY <1>0, <1>7, <2>1, <2>6 DEF Syncing
    <3>2. ~(m < n)
      BY <1>0, <2>6
    <3> QED
      BY <2>3, <2>4, <3>1, <3>2
  <2>7. CASE n # 1
    <3>1. Has(User(s), V[m]) /\ pending[s] = {}
      BY <1>0, <1>7, <2>1, <2>7 DEF Syncing
    <3>2. V[m] \in Uncounted(s) <=> n <= m
      BY <2>1, <2>5, <3>1
    <3> QED
      BY <2>1, <2>3, <2>4, <3>1, <3>2
  <2> QED
    BY <2>6, <2>7
<1>8. ASSUME NEW o \in request[s].ids \ Wanted(s)
      PROVE  Stands(s, o) <=> StandsAfter(s, o)
  <2>1. Uncounted(s) \subseteq Wanted(s) /\ Uncounted(s)' \subseteq Wanted(s)
    BY <1>0, <1>4, UncountedFacts DEF Wanted
  <2>2. <<User(s), o>> \in favorite' <=> Has(User(s), o)
    BY <1>0, <1>1 DEF Has
  <2> QED
    BY <1>0, <1>4, <2>1, <2>2 DEF Stands, StandsAfter
<1>9. CountsAlong(s)
  <2>1. /\ \A o \in Opportunities : favorites_count'[o] =
             IF o = V[n] THEN favorites_count[o] + 1 ELSE favorites_count[o]
        /\ V[n] \in request[s].ids
    BY <1>0, <1>1 DEF TypeOK
  <2>2. \A o \in Opportunities \ request[s].ids : favorites_count'[o] = favorites_count[o]
    BY <2>1
  <2>3. ASSUME NEW o \in (Opportunities \cap request[s].ids) \ excused', o \notin Wanted(s)
        PROVE  /\ Stands(s, o) <=> StandsAfter(s, o)
               /\ favorites_count'[o] = favorites_count[o]
    BY <1>0, <1>8, <2>1, <2>3
  <2>4. ASSUME NEW o \in (Opportunities \cap request[s].ids) \ excused', o \in Wanted(s)
        PROVE  \/ /\ Stands(s, o) <=> StandsAfter(s, o)
                  /\ favorites_count'[o] = favorites_count[o]
               \/ /\ ~Stands(s, o) /\ StandsAfter(s, o)
                  /\ favorites_count'[o] = favorites_count[o] + 1
    <3>1. PICK m \in D : o = V[m]
      BY <2>4 DEF Wanted
    <3>2. (Stands(s, o) <=> m < n) /\ (StandsAfter(s, o) <=> m <= n)
      BY <1>1, <1>7, <2>4, <3>1
    <3>3. m = n <=> o = V[n]
      BY <1>0, <3>1 DEF Syncing
    <3>4. m \in Nat /\ n \in Nat
      BY <1>0
    <3> QED
      BY <2>1, <3>2, <3>3, <3>4
  <2> QED
    BY <2>2, <2>3, <2>4 DEF CountsAlong
<1> QED
  BY <1>4, <1>5, <1>6, <1>9, StepKeepsIInv

(* The last COMMIT of a list: that of the companies stores their rows.     *)
LEMMA CommitSyncKeepsIInv ==
  ASSUME IInv, NEW s \in Sessions, CommitSync(s)
  PROVE  IInv'
<1>0. /\ Busy(s) /\ pc[s] = "commit" /\ request[s] \in Request /\ request[s].op = "sync"
      /\ request[s].ids \subseteq Items /\ User(s) \in Users /\ ~gone[s]
      /\ TypeOK /\ Syncing(s) /\ Uncounted(s) = {}
      /\ favorite' = favorite \cup {<<User(s), i>> : i \in pending[s]}
      /\ UNCHANGED <<favorites_count, excused>>
  BY RequestFacts, UncountedFacts DEF CommitSync, IInv, Serving, Holding, Busy, User
<1>1. /\ OwnStep(s) /\ pc'[s] \in {"idle", "read"}
      /\ Serving(s)' /\ Holding(s)' /\ Syncing(s)' /\ Uncounted(s)' = {}
  BY <1>0, FinishListFacts DEF CommitSync
<1>2. pending[s] \subseteq request[s].ids /\ pending[s] \cap Opportunities = {}
  <2>1. kind[s] \in Kinds /\ pending[s] \subseteq request[s].ids \cap OfKind(kind[s])
    BY <1>0 DEF Syncing, TypeOK
  <2> QED
    BY <1>0, <2>1, KindsAssumption DEF Syncing, Kinds, OfKind
<1>3. TypeOK'
  <2>1. favorite' \subseteq Users \X Items
    BY <1>0, <1>2 DEF TypeOK
  <2> QED
    BY <1>0, <1>1, <2>1 DEF TypeOK, OwnStep
<1>4. Confined(s)
  BY <1>0, <1>1, <1>2, OwnStepConfined DEF Has
<1>5. CountsAlong(s)
  <2>1. \A o \in Opportunities : <<User(s), o>> \in favorite' <=> Has(User(s), o)
    BY <1>0, <1>2 DEF Has
  <2> QED
    BY <1>0, <1>1, <2>1 DEF CountsAlong, Stands, StandsAfter
<1> QED
  BY <1>1, <1>3, <1>4, <1>5, StepKeepsIInv

-----------------------------------------------------------------------------
(* Failures.  A counter that could not be written excuses the request's    *)
(* items; in a sync the loop goes on without the rows it has rolled back.  *)
LEMMA CountFailsKeepsIInv ==
  ASSUME IInv, NEW s \in Sessions, CountFails(s)
  PROVE  IInv'
<1>0. /\ Busy(s) /\ request[s] \in Request /\ request[s].ids \subseteq Items
      /\ TypeOK /\ Syncing(s) /\ UNCHANGED table
      /\ excused' = excused \cup request[s].ids
  BY RequestFacts DEF CountFails, IInv, Serving, Busy
<1>1. CASE Answer(s)
  BY <1>0, <1>1, AnswerKeepsIInv
<1>2. CASE ~Answer(s)
  <2>1. /\ pc[s] = "tally" /\ pending' = [pending EXCEPT ![s] = {}]
        /\ TallyNext(s)
        /\ UNCHANGED <<request, gone, kind, existing, valid>>
    BY <1>2 DEF CountFails
  <2>2. \A i \in (Wanted(s) \cup existing[s]) \ excused' : Has(User(s), i)'
    BY <1>0, <2>1 DEF Syncing, Has, User, table
  <2>3. OwnStep(s) /\ Serving(s)' /\ Holding(s)' /\ Syncing(s)'
    BY <2>1, <2>2, TallyNextFacts
  <2>4. TypeOK'
    BY <1>0, <2>3 DEF TypeOK, OwnStep, table
  <2>5. Confined(s)
    BY <1>0, <2>3, OwnStepConfined DEF Has, table
  <2>6. CountsAlong(s)
    BY <1>0 DEF CountsAlong, table
  <2> QED
    BY <2>3, <2>4, <2>5, <2>6, StepKeepsIInv
<1> QED
  BY <1>1, <1>2

LEMMA FailureKeepsIInv ==
  ASSUME IInv, NEW s \in Sessions, RefreshFails(s) \/ StepFails(s) \/ BreakDeadlock(s)
  PROVE  IInv'
<1>1. CASE RefreshFails(s)
  BY <1>1, AnswerKeepsIInv DEF RefreshFails, Busy
<1>2. CASE StepFails(s)
  BY <1>2, AnswerKeepsIInv DEF StepFails, Busy
<1>3. CASE BreakDeadlock(s)
  <2>1. pc[s] = "insert"
    BY <1>3 DEF BreakDeadlock, InCircle, WaitsFor
  <2> QED
    BY <1>3, <2>1, AnswerKeepsIInv DEF BreakDeadlock, Busy
<1> QED
  BY <1>1, <1>2, <1>3

LEMMA NextIInv == IInv /\ [Next]_vars => IInv'
<1> SUFFICES ASSUME IInv, [Next]_vars PROVE IInv'
  OBVIOUS
<1>1. CASE UNCHANGED vars
  <2>1. /\ UNCHANGED <<favorite, favorites_count, pc, request, gone, kind>>
        /\ UNCHANGED <<existing, valid, at, pending, excused>>
    BY <1>1 DEF vars, session, sync, table
  <2>2. TypeOK' /\ Overlapping'
    BY <2>1 DEF IInv, TypeOK, Overlapping, Busy, User
  <2>3. ASSUME NEW s \in Sessions PROVE Serving(s)' /\ Holding(s)' /\ Syncing(s)'
    <3>1. Serving(s)' /\ Holding(s)'
      BY <2>1 DEF IInv, Serving, Holding, Busy, Has, User
    <3>2. Wanted(s)' = Wanted(s) /\ User(s)' = User(s) /\ OfKind(kind[s])' = OfKind(kind[s])
      BY <2>1 DEF Wanted, User, OfKind
    <3>3. Syncing(s)'
      BY <2>1, <3>2 DEF IInv, Syncing, Has
    <3> QED
      BY <3>1, <3>3
  <2>4. CountersAgree'
    <3>1. \A s \in Sessions : Uncounted(s)' = Uncounted(s) /\ User(s)' = User(s)
      BY <2>1 DEF Uncounted, User
    <3>2. ASSUME NEW o \in Opportunities PROVE Counted(o)' = Counted(o)
      BY <2>1, <3>1 DEF Counted, Has
    <3> QED
      BY <2>1, <3>2 DEF IInv, CountersAgree
  <2> QED
    BY <2>2, <2>3, <2>4 DEF IInv
<1>2. ASSUME NEW s \in Sessions, Ask(s) \/ Serve(s) \/ Fail(s) PROVE IInv'
  <2>1. CASE Ask(s)
    BY <2>1, AskKeepsIInv
  <2>2. CASE Serve(s)
    BY <2>2, StoreKeepsIInv, RefreshKeepsIInv, CountKeepsIInv, DeleteKeepsIInv,
       UncountKeepsIInv, ReadKeepsIInv, InsertRowKeepsIInv, TallyKeepsIInv,
       CommitSyncKeepsIInv, FailureKeepsIInv DEF Serve
  <2>3. CASE Fail(s)
    BY <2>3, CountFailsKeepsIInv, FailureKeepsIInv DEF Fail
  <2> QED
    BY <1>2, <2>1, <2>2, <2>3
<1> QED
  BY <1>1, <1>2 DEF Next

-----------------------------------------------------------------------------
(* However the requests overlap and fail, the counter of an opportunity    *)
(* that is not excused is the number of users it stands for.               *)
THEOREM Invariance == Spec => []IInv
BY InitIInv, NextIInv, PTL DEF Spec

(* Rows, counters and requests are of their types throughout; the floor    *)
(* under the counter keeps it a natural number.                            *)
THEOREM TypeCorrect == Spec => []TypeOK
<1>1. IInv => TypeOK
  BY DEF IInv
<1> QED
  BY <1>1, Invariance, PTL

(* When no request for it is in progress, what an opportunity's counter    *)
(* stands for is exactly who has it as a favourite.                        *)
LEMMA CountedAtRest ==
  ASSUME IInv, NEW o \in Opportunities, \A s \in Sessions : Busy(s) => o \notin request[s].ids
  PROVE  Counted(o) = FavoritedBy(o)
<1>1. \A s \in Sessions : o \notin Uncounted(s)
  BY UncountedWithin DEF IInv
<1>2. \A s \in Sessions : ~(pc[s] = "uncount" /\ o \in request[s].ids)
  BY DEF Busy
<1> QED
  BY <1>1, <1>2 DEF Counted, FavoritedBy, Has

(* Between requests for it, an opportunity's counter is the number of      *)
(* users who have it as a favourite, unless it is excused.                 *)
THEOREM CounterFollows == Spec => []CounterFollowsRows
<1>1. IInv => CounterFollowsRows
  <2> SUFFICES ASSUME IInv, NEW o \in Opportunities \ excused,
                      \A s \in Sessions : Busy(s) => o \notin request[s].ids
               PROVE  favorites_count[o] = Cardinality(FavoritedBy(o))
    BY DEF CounterFollowsRows, Busy
  <2> QED
    BY CountedAtRest DEF IInv, CountersAgree
<1> QED
  BY <1>1, Invariance, PTL

(* What a sync answers for a list is stored when it answers.               *)
THEOREM AnswersStored == Spec => SyncAnswersStored
<1>1. ASSUME IInv, NEW s \in Sessions, CommitSync(s), NEW i \in SyncAnswer(s) \ excused
      PROVE  <<User(s), i>> \in favorite'
  <2>1. /\ Syncing(s) /\ pc[s] = "commit"
        /\ favorite' = favorite \cup {<<User(s), j>> : j \in pending[s]}
        /\ i \in existing[s] \cup Wanted(s)
    BY <1>1 DEF IInv, CommitSync, SyncAnswer, Wanted
  <2>2. Has(User(s), i) \/ i \in pending[s]
    BY <1>1, <2>1 DEF Syncing
  <2> QED
    BY <2>1, <2>2 DEF Has
<1>2. IInv =>
        \A s \in Sessions :
          CommitSync(s) => \A i \in SyncAnswer(s) \ excused : <<User(s), i>> \in favorite'
  BY <1>1
<1> QED
  BY <1>2, Invariance, PTL DEF SyncAnswersStored

(* One request at a time, and no failure of a counter: nothing is ever     *)
(* excused, so between requests every counter is exact.                    *)
THEOREM AloneExact ==
  ASSUME NEW s, Sessions = {s}, Failing \cap {"refresh", "count", "uncount", "tally"} = {}
  PROVE  Spec => [](pc[s] = "idle" =>
                      \A o \in Opportunities : favorites_count[o] = Cardinality(FavoritedBy(o)))
<1>1. Init => excused = {}
  BY DEF Init
<1>2. excused = {} /\ [Next]_vars => (excused = {})'
  <2> SUFFICES ASSUME excused = {}, [Next]_vars PROVE excused' = {}
    OBVIOUS
  <2>1. ASSUME NEW r, NEW label, Begin(s, r, label) PROVE excused' = {}
    BY <2>1 DEF Begin
  <2>2. CASE Ask(s)
    BY <2>1, <2>2 DEF Ask, AskSync, AskOpportunities, AskCompanies, AskOneOf, Add, Remove, Sync
  <2>3. CASE Serve(s)
    BY <2>3 DEF Serve, StoreFavorite, RefreshFavorite, CountFavorite, DeleteFavorite,
       UncountFavorite, ReadExisting, InsertRow, Tally, CommitSync, BreakDeadlock
  <2>4. CASE Fail(s)
    BY <2>4 DEF Fail, CountFails, RefreshFails, StepFails
  <2> QED
    BY <2>2, <2>3, <2>4 DEF Next, vars
<1>3. IInv /\ excused = {} =>
        (pc[s] = "idle" =>
           \A o \in Opportunities : favorites_count[o] = Cardinality(FavoritedBy(o)))
  BY CountedAtRest DEF IInv, CountersAgree, Busy
<1> QED
  BY <1>1, <1>2, <1>3, Invariance, PTL DEF Spec
=============================================================================
