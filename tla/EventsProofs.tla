---------------------------- MODULE EventsProofs ----------------------------
(***************************************************************************)
(* Proofs about Events, for any profiles, any number of places and of      *)
(* requests at a time, and whatever steps may fail.                        *)
(*                                                                         *)
(* That the counter never exceeds the confirmed rows is not inductive: a   *)
(* cancellation that loaded its row on the waitlist deletes it without     *)
(* counting down, though the row may have been promoted meanwhile.  The    *)
(* promotion did not count it up either, so the counter stays within the   *)
(* confirmed rows no cancellation has loaded as waiting (Settled).         *)
(*                                                                         *)
(* That nobody is overtaken rests on times of arrival too: those a row has *)
(* ahead of it are over, so nobody can take one of their places again      *)
(* after the row was picked (Queue).                                       *)
(***************************************************************************)
EXTENDS Events, FiniteSetTheorems, TLAPS

Serving(s) == pc[s] # "idle" => profile[s] \in Profiles /\ loaded[s] \in Registration

(* A row is known by its time of arrival: no arrival is still to come ...  *)
Issued ==
  /\ \A p \in Profiles : Registered(p) => registration[p].created_at <= arrivals
  /\ \A n \in notification : n.created_at <= arrivals
  /\ \A p \in Profiles : \A k \in ahead[p] : k <= arrivals
  /\ \A s \in Sessions : pc[s] # "idle" => loaded[s].created_at <= arrivals

(* ... and that of a row not inserted yet is nobody else's.                *)
New(s) ==
  pc[s] \in {"check", "insert"} =>
    /\ \A p \in Profiles : Registered(p) => registration[p].created_at # loaded[s].created_at
    /\ \A n \in notification : n.created_at # loaded[s].created_at
    /\ \A p \in Profiles : loaded[s].created_at \notin ahead[p]
    /\ \A t \in Sessions \ {s} :
         pc[t] # "idle" => loaded[t].created_at # loaded[s].created_at

(* A row that was loaded, or made, confirmed is still confirmed.           *)
Copied(s) ==
  /\ pc[s] \in {"find", "delete"} /\ StillThere(s) /\ loaded[s].status = "confirmed" =>
       registration[profile[s]].status = "confirmed"
  /\ pc[s] = "spot" /\ StillThere(s) => registration[profile[s]].status = "confirmed"

(* Confirmed rows that a cancellation under way takes for waiting ones.    *)
TakenForWaiting(s, p) ==
  /\ pc[s] \in {"find", "delete"} /\ profile[s] = p
  /\ loaded[s].status = "waitlist" /\ StillThere(s)
Settled == {p \in Confirmed : \A s \in Sessions : ~TakenForWaiting(s, p)}

(* Who was ahead of a row arrived before it, and nobody who still waits    *)
(* was ahead of a row that was picked.                                     *)
Queue ==
  /\ \A p \in Profiles : Registered(p) =>
       \A k \in ahead[p] : k < registration[p].created_at
  /\ \A s \in Sessions : pc[s] = "promote" /\ StillThere(s) =>
       \A q \in Waiting : registration[q].created_at \notin ahead[profile[s]]

Earliest(p) ==
  p \in Waiting /\ \A q \in Waiting : registration[p].created_at <= registration[q].created_at

CounterWithinSettled ==
  IsFiniteSet(Confirmed) /\ current_participants <= Cardinality(Settled)

IInv ==
  /\ TypeOK
  /\ Issued
  /\ \A s \in Sessions : Serving(s) /\ New(s) /\ Copied(s)
  /\ CounterWithinSettled
  /\ SpotNoticeFollowsPromotion
  /\ Queue

-----------------------------------------------------------------------------
LEMMA SmallerSet ==
  ASSUME NEW S, NEW T, IsFiniteSet(T), S \subseteq T
  PROVE  /\ IsFiniteSet(S)
         /\ Cardinality(S) \in Nat /\ Cardinality(T) \in Nat
         /\ Cardinality(S) <= Cardinality(T)
BY FS_Subset, FS_CardinalityType

LEMMA ConfirmedIsWaitlistOrNot ==
  ASSUME NEW r \in Registration
  PROVE  /\ r # NoRegistration
         /\ r.created_at \in Nat
         /\ r.status = "confirmed" \/ r.status = "waitlist"
BY NoRegistrationAssumption, MaxArrivalsAssumption DEF Registration

LEMMA InitIInv == Init => IInv
<1> SUFFICES ASSUME Init PROVE IInv
  OBVIOUS
<1>1. TypeOK
  BY MaxArrivalsAssumption DEF Init, TypeOK, Labels
<1>2. Confirmed = {} /\ Settled = {}
  BY DEF Init, Confirmed, Settled, Registered
<1>3. CounterWithinSettled
  BY <1>2, FS_EmptySet DEF CounterWithinSettled, Init
<1>4. Issued /\ SpotNoticeFollowsPromotion
  BY DEF Init, Issued, SpotNoticeFollowsPromotion, Registered
<1>6. Queue
  BY DEF Init, Queue, Registered
<1>5. \A s \in Sessions : Serving(s) /\ New(s) /\ Copied(s)
  BY DEF Init, Serving, New, Copied
<1> QED
  BY <1>1, <1>3, <1>4, <1>5, <1>6 DEF IInv

-----------------------------------------------------------------------------
(* The other sessions are where they were.                                 *)
Apart(s) ==
  \A t \in Sessions \ {s} :
    pc'[t] = pc[t] /\ profile'[t] = profile[t] /\ loaded'[t] = loaded[t]

(* What a step of session s that writes no table may do to the session:    *)
(* end the request, take in a new registration, load a row, or go on.      *)
Ends(s) == pc'[s] = "idle" /\ arrivals' = arrivals
Arrives(s) ==
  /\ pc'[s] = "check"
  /\ arrivals' = arrivals + 1 /\ arrivals' <= MaxArrivals
  /\ profile'[s] \in Profiles /\ loaded'[s] \in Registration
  /\ loaded'[s].created_at = arrivals'
Loads(s) ==
  /\ pc'[s] \in {"find", "delete", "promote", "checkin"}
  /\ arrivals' = arrivals
  /\ profile'[s] \in Profiles /\ Registered(profile'[s])
  /\ loaded'[s] = registration[profile'[s]]
  /\ pc'[s] = "promote" => Earliest(profile'[s])
GoesOn(s) ==
  /\ pc[s] # "idle" /\ pc'[s] \in {"insert", "delete", "pick"}
  /\ pc'[s] = "insert" => pc[s] = "check"
  /\ pc'[s] = "delete" => pc[s] = "find"
  /\ arrivals' = arrivals
  /\ profile'[s] = profile[s] /\ loaded'[s] = loaded[s]

LEMMA SessionStepKeepsIInv ==
  ASSUME IInv, TypeOK', UNCHANGED table, NEW s \in Sessions, Apart(s),
         Ends(s) \/ Arrives(s) \/ Loads(s) \/ GoesOn(s)
  PROVE  IInv'
<1> USE DEF IInv
<1>0. /\ arrivals \in Nat /\ arrivals' \in Nat /\ arrivals <= arrivals'
      /\ registration' = registration /\ notification' = notification
      /\ current_participants' = current_participants /\ ahead' = ahead
      /\ \A p \in Profiles : Registered(p) => registration[p] \in Registration
      /\ \A p \in Profiles : \A k \in ahead[p] : k \in Nat
      /\ \A p : Registered(p)' = Registered(p)
  BY MaxArrivalsAssumption DEF TypeOK, table, Registered, Ends, Arrives, Loads, GoesOn
<1>1. ASSUME NEW t \in Sessions PROVE Serving(t)'
  <2>1. CASE t = s
    BY <2>1, <1>0 DEF Serving, Ends, Arrives, Loads, GoesOn
  <2>2. CASE t # s
    BY <2>2 DEF Apart, Serving
  <2> QED
    BY <2>1, <2>2
<1>2. \A r \in Registration : r.created_at \in Nat
  BY ConfirmedIsWaitlistOrNot
<1>3. Issued'
  <2>1. \A n \in notification : n.created_at \in Nat
    BY MaxArrivalsAssumption DEF TypeOK
  <2>2. ASSUME NEW p \in Profiles, Registered(p) PROVE registration[p].created_at <= arrivals'
    BY <1>0, <1>2, <2>2 DEF Issued
  <2>3. ASSUME NEW n \in notification PROVE n.created_at <= arrivals'
    BY <1>0, <2>1 DEF Issued
  <2>4. ASSUME NEW t \in Sessions, pc'[t] # "idle" PROVE loaded'[t].created_at <= arrivals'
    <3>1. CASE t # s
      BY <3>1, <2>4, <1>0, <1>2 DEF Issued, Apart, Serving
    <3>2. CASE t = s
      BY <3>2, <2>4, <1>0, <1>2, <2>2 DEF Issued, Serving, Ends, Arrives, Loads, GoesOn
    <3> QED
      BY <3>1, <3>2
  <2>5. ASSUME NEW p \in Profiles, NEW k \in ahead[p] PROVE k <= arrivals'
    BY <1>0 DEF Issued
  <2> QED
    BY <1>0, <2>2, <2>3, <2>4, <2>5 DEF Issued
(* The time of arrival of another session's new row is not that of s.      *)
<1>4. ASSUME NEW t \in Sessions PROVE New(t)'
  <2> SUFFICES ASSUME pc'[t] \in {"check", "insert"}
               PROVE  /\ \A p \in Profiles :
                           Registered(p) => registration[p].created_at # loaded'[t].created_at
                      /\ \A n \in notification : n.created_at # loaded'[t].created_at
                      /\ \A p \in Profiles : loaded'[t].created_at \notin ahead[p]
                      /\ \A u \in Sessions \ {t} :
                           pc'[u] # "idle" => loaded'[u].created_at # loaded'[t].created_at
    BY <1>0 DEF New
  <2>1. CASE t # s
    <3>1. New(t) /\ pc[t] \in {"check", "insert"} /\ loaded'[t] = loaded[t]
      BY <2>1 DEF Apart
    <3>2. ASSUME NEW u \in Sessions \ {t}, pc'[u] # "idle"
          PROVE  loaded'[u].created_at # loaded[t].created_at
      <4>1. CASE u # s
        BY <4>1, <3>1, <3>2 DEF Apart, New
      <4>2. CASE u = s
        <5>1. loaded[t].created_at \in Nat /\ loaded[t].created_at <= arrivals
          BY <3>1, <1>2 DEF Serving, Issued
        <5> QED
          BY <5>1, <4>2, <3>1, <3>2, <1>0 DEF New, Ends, Arrives, Loads, GoesOn
      <4> QED
        BY <4>1, <4>2
    <3> QED
      BY <3>1, <3>2 DEF New
  <2>2. CASE t = s /\ Arrives(s)
    <3>1. loaded'[t].created_at = arrivals + 1
      BY <2>2 DEF Arrives
    <3>2. \A n \in notification : n.created_at \in Nat
      BY MaxArrivalsAssumption DEF TypeOK
    <3>3. ASSUME NEW p \in Profiles, Registered(p)
          PROVE  registration[p].created_at # arrivals + 1
      BY <1>0, <1>2, <3>3 DEF Issued
    <3>4. ASSUME NEW n \in notification PROVE n.created_at # arrivals + 1
      BY <1>0, <3>2 DEF Issued
    <3>5. ASSUME NEW u \in Sessions \ {t}, pc'[u] # "idle"
          PROVE  loaded'[u].created_at # arrivals + 1
      BY <1>0, <1>2, <2>2, <3>5 DEF Issued, Serving, Apart
    <3>6. ASSUME NEW p \in Profiles PROVE arrivals + 1 \notin ahead[p]
      BY <1>0 DEF Issued
    <3> QED
      BY <3>1, <3>3, <3>4, <3>5, <3>6
  <2>3. CASE t = s /\ ~Arrives(s)
    <3>1. pc[s] = "check" /\ loaded'[s] = loaded[s]
      BY <2>3 DEF Ends, Loads, GoesOn
    <3> QED
      BY <2>3, <3>1 DEF New, Apart
  <2> QED
    BY <2>1, <2>2, <2>3
<1>5. ASSUME NEW t \in Sessions PROVE Copied(t)'
  <2>1. CASE t # s
    BY <2>1, <1>0 DEF Apart, Copied, StillThere
  <2>2. CASE t = s
    BY <2>2, <1>0 DEF Copied, StillThere, Ends, Arrives, Loads, GoesOn
  <2> QED
    BY <2>1, <2>2
<1>6. CounterWithinSettled'
  <2>1. Confirmed' = Confirmed
    BY <1>0 DEF Confirmed
  <2>2. ASSUME NEW p \in Confirmed, NEW t \in Sessions, TakenForWaiting(t, p)'
        PROVE  TakenForWaiting(t, p)
    <3>1. CASE t # s
      BY <3>1, <2>2, <1>0 DEF Apart, TakenForWaiting, StillThere
    <3>2. CASE t = s
      BY <3>2, <2>2, <1>0 DEF TakenForWaiting, StillThere, Confirmed, Ends, Arrives, Loads, GoesOn
    <3> QED
      BY <3>1, <3>2
  <2>3. Settled \subseteq Settled' /\ Settled' \subseteq Confirmed'
    BY <2>1, <2>2 DEF Settled
  <2>4. /\ IsFiniteSet(Confirmed') /\ IsFiniteSet(Settled')
        /\ Cardinality(Settled) \in Nat /\ Cardinality(Settled') \in Nat
        /\ Cardinality(Settled) <= Cardinality(Settled')
    BY <2>1, <2>3, SmallerSet DEF CounterWithinSettled
  <2>5. current_participants \in Nat
    BY DEF TypeOK
  <2> QED
    BY <1>0, <2>4, <2>5 DEF CounterWithinSettled
<1>7. SpotNoticeFollowsPromotion'
  BY <1>0 DEF SpotNoticeFollowsPromotion
<1>8. Queue'
  <2>1. Waiting' = Waiting
    BY <1>0 DEF Waiting
  <2>2. ASSUME NEW t \in Sessions, pc'[t] = "promote", StillThere(t)', NEW q \in Waiting
        PROVE  registration[q].created_at \notin ahead[profile'[t]]
    <3>1. CASE t # s
      BY <3>1, <2>2, <1>0 DEF Apart, Queue, StillThere
    <3>2. CASE t = s
      <4>1. Earliest(profile'[s]) /\ profile'[s] \in Profiles /\ Registered(profile'[s])
        BY <3>2, <2>2 DEF Ends, Arrives, Loads, GoesOn
      <4>2. /\ registration[profile'[s]].created_at \in Nat
            /\ registration[q].created_at \in Nat
            /\ registration[profile'[s]].created_at <= registration[q].created_at
        BY <4>1, <1>0, <1>2 DEF Earliest, Waiting
      <4>3. \A k \in ahead[profile'[s]] :
              k \in Nat /\ k < registration[profile'[s]].created_at
        BY <4>1, <1>0 DEF Queue
      <4> QED
        BY <3>2, <4>2, <4>3
    <3> QED
      BY <3>1, <3>2
  <2> QED
    BY <1>0, <2>1, <2>2 DEF Queue
<1> QED
  BY <1>1, <1>3, <1>4, <1>5, <1>6, <1>7, <1>8

-----------------------------------------------------------------------------
(* The steps that write no table, each of one of the four kinds.           *)
LEMMA ReadingStepsKeepIInv ==
  ASSUME IInv, NEW s \in Sessions,
         \/ \E p \in Profiles : Register(s, p) \/ Cancel(s, p) \/ CheckIn(s, p)
         \/ CheckExisting(s) \/ NotifyEmployer(s) \/ FindRegistration(s)
         \/ DecrementFails(s) \/ PickWaiting(s) \/ RecordCheckIn(s) \/ StepFails(s)
  PROVE  IInv'
<1> USE DEF IInv
<1>0. /\ pc \in [Sessions -> Labels] /\ profile \in [Sessions -> Profiles \cup {NoProfile}]
      /\ loaded \in [Sessions -> Registration \cup {NoRegistration}]
      /\ was_confirmed \in [Sessions -> BOOLEAN] /\ arrivals \in 0..MaxArrivals
      /\ registration \in [Profiles -> Registration \cup {NoRegistration}]
      /\ MaxArrivals \in Nat
      /\ \A p \in Profiles : Registered(p) => registration[p] \in Registration
  BY MaxArrivalsAssumption DEF TypeOK, Registered
<1>1. ASSUME NEW p \in Profiles, Register(s, p) PROVE IInv'
  <2>1. UNCHANGED table /\ Apart(s) /\ TypeOK'
    BY <1>0, <1>1 DEF Register, Goto, Apart, TypeOK, table, event, Labels, Registration
  <2>2. Arrives(s)
    BY <1>0, <1>1 DEF Register, Goto, Arrives, Registration
  <2> QED
    BY <2>1, <2>2, SessionStepKeepsIInv
<1>2. ASSUME NEW p \in Profiles, Cancel(s, p) \/ CheckIn(s, p) PROVE IInv'
  <2>1. UNCHANGED table /\ Apart(s) /\ TypeOK'
    BY <1>0, <1>2 DEF Cancel, CheckIn, Goto, Apart, TypeOK, table, event, Labels
  <2>2. Loads(s)
    BY <1>0, <1>2 DEF Cancel, CheckIn, Goto, Loads
  <2> QED
    BY <2>1, <2>2, SessionStepKeepsIInv
(* A request that ends, or goes on with what it has loaded.                *)
<1>3. ASSUME Answer(s), UNCHANGED <<table, event, arrivals>> PROVE IInv'
  <2>1. Apart(s) /\ TypeOK' /\ Ends(s)
    BY <1>0, <1>3 DEF Answer, Goto, Apart, TypeOK, table, event, Labels, Ends
  <2> QED
    BY <1>3, <2>1, SessionStepKeepsIInv
<1>4. ASSUME pc[s] # "idle", AfterCancel(s), UNCHANGED <<table, event, arrivals>> PROVE IInv'
  <2>1. CASE was_confirmed[s] /\ Goto(s, "pick") /\ Keep
    <3>1. Apart(s) /\ TypeOK' /\ GoesOn(s)
      BY <1>0, <1>4, <2>1 DEF Goto, Keep, Apart, TypeOK, table, event, Labels, GoesOn
    <3> QED
      BY <1>4, <3>1, SessionStepKeepsIInv
  <2> QED
    BY <1>3, <1>4, <2>1 DEF AfterCancel
<1>5. ASSUME CheckExisting(s) PROVE IInv'
  <2>1. CASE ~Registered(profile[s]) /\ Goto(s, "insert") /\ Keep
    <3>1. Apart(s) /\ TypeOK' /\ GoesOn(s) /\ UNCHANGED table
      BY <1>0, <1>5, <2>1 DEF CheckExisting, Goto, Keep, Apart, TypeOK, table, event, Labels, GoesOn
    <3> QED
      BY <3>1, SessionStepKeepsIInv
  <2> QED
    BY <1>3, <1>5, <2>1 DEF CheckExisting
<1>6. ASSUME FindRegistration(s) PROVE IInv'
  <2>1. CASE ~Registered(profile[s]) /\ AfterCancel(s)
    BY <1>4, <1>6, <2>1 DEF FindRegistration
  <2>2. CASE /\ Registered(profile[s])
             /\ loaded' = [loaded EXCEPT ![s] =
                             IF StillThere(s) THEN @ ELSE registration[profile[s]]]
             /\ Goto(s, "delete")
             /\ UNCHANGED <<profile, was_confirmed>>
    <3>1. profile[s] \in Profiles /\ registration[profile[s]] \in Registration
      BY <1>0, <1>6, <2>2 DEF Serving, FindRegistration
    <3>2. Apart(s) /\ TypeOK' /\ UNCHANGED table
      BY <1>0, <1>6, <2>2, <3>1 DEF FindRegistration, Goto, Apart, TypeOK, table, event, Labels
    <3>3. Loads(s) \/ GoesOn(s)
      BY <1>0, <1>6, <2>2, <3>1 DEF FindRegistration, Goto, Loads, GoesOn
    <3> QED
      BY <3>2, <3>3, SessionStepKeepsIInv
  <2> QED
    BY <1>6, <2>1, <2>2 DEF FindRegistration
<1>7. ASSUME PickWaiting(s) PROVE IInv'
  <2>1. ASSUME NEW p \in Waiting,
               profile' = [profile EXCEPT ![s] = p],
               loaded' = [loaded EXCEPT ![s] = registration[p]],
               \A q \in Waiting : registration[p].created_at <= registration[q].created_at,
               Goto(s, "promote"), UNCHANGED was_confirmed
        PROVE  IInv'
    <3>1. Apart(s) /\ TypeOK' /\ UNCHANGED table
      BY <1>0, <1>7, <2>1 DEF PickWaiting, Waiting, Goto, Apart, TypeOK, table, event, Labels
    <3>2. Loads(s)
      BY <1>0, <1>7, <2>1 DEF PickWaiting, Waiting, Goto, Loads, Earliest
    <3> QED
      BY <3>1, <3>2, SessionStepKeepsIInv
  <2> QED
    BY <1>3, <1>7, <2>1 DEF PickWaiting
<1>8. ASSUME DecrementFails(s) PROVE IInv'
  BY <1>4, <1>8 DEF DecrementFails
<1>9. ASSUME NotifyEmployer(s) \/ RecordCheckIn(s) \/ StepFails(s) PROVE IInv'
  BY <1>3, <1>9 DEF NotifyEmployer, RecordCheckIn, StepFails
<1> QED
  BY <1>1, <1>2, <1>5, <1>6, <1>7, <1>8, <1>9

-----------------------------------------------------------------------------
(* The INSERT: the new row's time of arrival is in nobody's copy.          *)
LEMMA InsertKeepsIInv ==
  ASSUME IInv, NEW s \in Sessions, InsertRegistration(s)
  PROVE  IInv'
<1> USE DEF IInv
<1> DEFINE p == profile[s]
<1>0. /\ pc \in [Sessions -> Labels] /\ profile \in [Sessions -> Profiles \cup {NoProfile}]
      /\ loaded \in [Sessions -> Registration \cup {NoRegistration}]
      /\ registration \in [Profiles -> Registration \cup {NoRegistration}]
      /\ current_participants \in Nat
      /\ pc[s] = "insert" /\ p \in Profiles /\ loaded[s] \in Registration
      /\ loaded[s] # NoRegistration
  BY NoRegistrationAssumption DEF TypeOK, Serving, InsertRegistration
<1>1. CASE Registered(p)
  <2>1. Apart(s) /\ TypeOK' /\ Ends(s) /\ UNCHANGED table
    BY <1>0, <1>1 DEF InsertRegistration, Answer, Goto, Apart, TypeOK, table, event, Labels, Ends
  <2> QED
    BY <2>1, SessionStepKeepsIInv
<1>2. CASE ~Registered(p)
  <2>1. /\ registration' = [registration EXCEPT ![p] = loaded[s]]
        /\ current_participants' =
             current_participants + (IF loaded[s].status = "confirmed" THEN 1 ELSE 0)
        /\ pc' = [pc EXCEPT ![s] = "notify"]
        /\ ahead' = [ahead EXCEPT ![p] = WaitingBefore(loaded[s].created_at)]
        /\ UNCHANGED <<profile, loaded, was_confirmed, notification, event, arrivals>>
    BY <1>2 DEF InsertRegistration, Goto, Keep
  <2>0. WaitingBefore(loaded[s].created_at) =
          {registration[q].created_at :
             q \in {r \in Waiting : registration[r].created_at < loaded[s].created_at}}
    BY DEF WaitingBefore
  <2>a. ASSUME NEW k \in WaitingBefore(loaded[s].created_at)
        PROVE  /\ k \in 1..MaxArrivals /\ k <= arrivals /\ k < loaded[s].created_at
               /\ \E q \in Waiting : k = registration[q].created_at
    <3>1. PICK q \in Waiting :
            registration[q].created_at < loaded[s].created_at /\ k = registration[q].created_at
      BY <2>0, <2>a
    <3>2. registration[q] \in Registration /\ Registered(q) /\ q \in Profiles
      BY <1>0 DEF Waiting, Registered
    <3> QED
      BY <3>1, <3>2 DEF Registration, Issued
  <2>b. \A q \in Profiles :
          ahead'[q] = IF q = p THEN WaitingBefore(loaded[s].created_at) ELSE ahead[q]
    BY <1>0, <2>1 DEF TypeOK
  <2>2. TypeOK'
    <3>1. ahead' \in [Profiles -> SUBSET (1..MaxArrivals)]
      BY <2>1, <2>a DEF TypeOK
    <3> QED
      BY <1>0, <2>1, <3>1 DEF TypeOK, Labels, event
  <2>3. Issued' /\ \A t \in Sessions : Serving(t)'
    <3>1. \A q \in Profiles : \A k \in ahead'[q] : k <= arrivals
      BY <2>a, <2>b DEF Issued
    <3> QED
      BY <1>0, <2>1, <3>1 DEF Issued, Serving, Registered
  <2>4. New(s)
    OBVIOUS
  <2>5. \A t \in Sessions \ {s} :
          pc[t] # "idle" => loaded[t].created_at # loaded[s].created_at
    BY <1>0, <2>4 DEF New
  <2>c. ASSUME NEW t \in Sessions, pc'[t] \in {"check", "insert"}, NEW q \in Profiles
        PROVE  loaded[t].created_at \notin ahead'[q]
    <3>1. pc[t] \in {"check", "insert"} /\ New(t)
      BY <1>0, <2>1, <2>c
    <3> QED
      BY <3>1, <2>a, <2>b DEF New, Waiting
  <2>6. \A t \in Sessions : New(t)'
    BY <1>0, <2>1, <2>5, <2>c DEF New, Registered
  <2>7. \A t \in Sessions : pc'[t] \in {"find", "delete", "spot"} =>
          /\ t # s /\ pc[t] = pc'[t]
          /\ StillThere(t)' => profile[t] # p /\ StillThere(t)
    BY <1>0, <2>1, <2>5 DEF StillThere, Registered
  <2>8. \A t \in Sessions : Copied(t)'
    BY <1>0, <2>1, <2>7 DEF Copied, Serving
  <2>9. SpotNoticeFollowsPromotion'
    BY <1>0, <2>1, <2>4 DEF SpotNoticeFollowsPromotion, New, TypeOK, Registered
  <2>10. CounterWithinSettled'
    <3>1. Confirmed' = IF loaded[s].status = "confirmed" THEN Confirmed \cup {p} ELSE Confirmed
      BY <1>0, <1>2, <2>1 DEF Confirmed, Registered
    <3>2. ASSUME NEW q \in Profiles, NEW t \in Sessions, TakenForWaiting(t, q)'
          PROVE  q # p /\ TakenForWaiting(t, q)
      BY <2>1, <2>7, <3>2 DEF TakenForWaiting
    <3>3. /\ Settled \subseteq Settled'
          /\ loaded[s].status = "confirmed" => p \in Settled'
          /\ Settled' \subseteq Confirmed' /\ Settled \subseteq Confirmed
          /\ p \notin Settled
      BY <1>0, <1>2, <3>1, <3>2 DEF Settled, Confirmed
    <3>4. IsFiniteSet(Confirmed') /\ IsFiniteSet(Settled) /\ IsFiniteSet(Settled')
      BY <3>1, <3>3, FS_AddElement, SmallerSet DEF CounterWithinSettled
    <3>5. CASE loaded[s].status = "confirmed"
      <4>1. /\ IsFiniteSet(Settled \cup {p}) /\ Cardinality(Settled) \in Nat
            /\ Cardinality(Settled \cup {p}) = Cardinality(Settled) + 1
        BY <3>3, <3>4, FS_AddElement, FS_CardinalityType
      <4>2. Settled \cup {p} \subseteq Settled'
        BY <3>3, <3>5
      <4>3. /\ Cardinality(Settled') \in Nat
            /\ Cardinality(Settled \cup {p}) <= Cardinality(Settled')
        BY <3>4, <4>2, SmallerSet
      <4> QED
        BY <1>0, <2>1, <3>4, <3>5, <4>1, <4>3 DEF CounterWithinSettled
    <3>6. CASE loaded[s].status # "confirmed"
      <4>1. /\ Cardinality(Settled) \in Nat /\ Cardinality(Settled') \in Nat
            /\ Cardinality(Settled) <= Cardinality(Settled')
        BY <3>3, <3>4, SmallerSet
      <4> QED
        BY <1>0, <2>1, <3>4, <3>6, <4>1 DEF CounterWithinSettled
    <3> QED
      BY <3>5, <3>6
  <2>11. Queue'
    <3>1. ASSUME NEW q \in Profiles, Registered(q)', NEW k \in ahead'[q]
          PROVE  k < registration'[q].created_at
      BY <1>0, <2>1, <2>a, <2>b, <3>1 DEF Queue, Registered
    <3>2. ASSUME NEW t \in Sessions, pc'[t] = "promote", StillThere(t)', NEW q \in Waiting'
          PROVE  registration'[q].created_at \notin ahead'[profile[t]]
      <4>1. t # s /\ pc[t] = "promote" /\ profile[t] \in Profiles
        BY <1>0, <2>1, <3>2 DEF Serving
      <4>2. profile[t] # p /\ StillThere(t)
        BY <1>0, <2>1, <2>5, <3>2, <4>1 DEF StillThere, Registered
      <4>3. ahead'[profile[t]] = ahead[profile[t]]
        BY <2>b, <4>1, <4>2
      <4>4. CASE q = p
        BY <1>0, <2>1, <2>4, <4>1, <4>3, <4>4 DEF New
      <4>5. CASE q # p
        BY <1>0, <2>1, <3>2, <4>1, <4>2, <4>3, <4>5 DEF Queue, Waiting, Registered
      <4> QED
        BY <4>4, <4>5
    <3> QED
      BY <2>1, <3>1, <3>2 DEF Queue
  <2> QED
    BY <2>2, <2>3, <2>6, <2>8, <2>9, <2>10, <2>11
<1> QED
  BY <1>1, <1>2
-----------------------------------------------------------------------------
(* The DELETE: the counter goes down with the row, unless the row was      *)
(* loaded on the waitlist, and then it is not among the settled ones.      *)
LEMMA DeleteKeepsIInv ==
  ASSUME IInv, NEW s \in Sessions, DeleteRegistration(s)
  PROVE  IInv'
<1> USE DEF IInv
<1> DEFINE p == profile[s]
<1>0. /\ pc \in [Sessions -> Labels] /\ profile \in [Sessions -> Profiles \cup {NoProfile}]
      /\ loaded \in [Sessions -> Registration \cup {NoRegistration}]
      /\ was_confirmed \in [Sessions -> BOOLEAN]
      /\ registration \in [Profiles -> Registration \cup {NoRegistration}]
      /\ current_participants \in Nat
      /\ pc[s] = "delete" /\ p \in Profiles /\ loaded[s] \in Registration
  BY DEF TypeOK, Serving, DeleteRegistration
<1>1. /\ pc' = [pc EXCEPT ![s] = pc'[s]] /\ pc'[s] \in {"pick", "idle"}
      /\ Apart(s)
      /\ pc'[s] # "idle" => profile'[s] = profile[s] /\ loaded'[s] = loaded[s]
      /\ profile' \in [Sessions -> Profiles \cup {NoProfile}]
      /\ loaded' \in [Sessions -> Registration \cup {NoRegistration}]
      /\ was_confirmed' \in [Sessions -> BOOLEAN]
      /\ UNCHANGED <<notification, ahead, event, arrivals>>
  BY <1>0 DEF DeleteRegistration, AfterCancel, Answer, Goto, Keep, Apart
<1>2. /\ registration' = IF StillThere(s) THEN [registration EXCEPT ![p] = NoRegistration]
                         ELSE registration
      /\ current_participants' =
           IF loaded[s].status = "confirmed" /\ current_participants > 0
           THEN current_participants - 1 ELSE current_participants
  BY DEF DeleteRegistration
<1>3. TypeOK'
  BY <1>0, <1>1, <1>2 DEF TypeOK, Labels, event
<1>4. \A q \in Profiles : Registered(q)' =>
        registration'[q] = registration[q] /\ Registered(q)
  BY <1>0, <1>2 DEF Registered
<1>5. Issued' /\ \A t \in Sessions : Serving(t)'
  BY <1>0, <1>1, <1>4 DEF Issued, Serving, Apart
<1>6. \A t \in Sessions : New(t)'
  BY <1>0, <1>1, <1>4 DEF New, Apart
<1>7. \A t \in Sessions : pc'[t] \in {"find", "delete", "spot"} =>
        /\ t # s /\ pc[t] = pc'[t] /\ profile'[t] = profile[t] /\ loaded'[t] = loaded[t]
        /\ StillThere(t)' => StillThere(t) /\ registration'[profile[t]] = registration[profile[t]]
  <2> SUFFICES ASSUME NEW t \in Sessions, pc'[t] \in {"find", "delete", "spot"}
               PROVE  /\ t # s /\ pc[t] = pc'[t]
                      /\ profile'[t] = profile[t] /\ loaded'[t] = loaded[t]
                      /\ StillThere(t)' => StillThere(t) /\
                           registration'[profile[t]] = registration[profile[t]]
    OBVIOUS
  <2>1. t # s /\ pc[t] = pc'[t] /\ profile'[t] = profile[t] /\ loaded'[t] = loaded[t]
    BY <1>1 DEF Apart
  <2>2. profile[t] \in Profiles
    BY <2>1 DEF Serving
  <2> QED
    BY <2>1, <2>2, <1>4 DEF StillThere
<1>8. \A t \in Sessions : Copied(t)'
  BY <1>7 DEF Copied
<1>9. SpotNoticeFollowsPromotion'
  BY <1>1, <1>4 DEF SpotNoticeFollowsPromotion, TypeOK
<1>10. CounterWithinSettled'
  <2>1. Confirmed' \subseteq Confirmed /\ IsFiniteSet(Confirmed')
    <3>1. Confirmed' \subseteq Confirmed
      BY <1>4 DEF Confirmed
    <3> QED
      BY <3>1, SmallerSet DEF CounterWithinSettled
  <2>2. ASSUME NEW q \in Profiles, NEW t \in Sessions, TakenForWaiting(t, q)'
        PROVE  TakenForWaiting(t, q)
    BY <1>7, <2>2 DEF TakenForWaiting
  <2>3. ASSUME NEW q \in Settled, q # p \/ ~StillThere(s) PROVE q \in Settled'
    <3>1. q \in Profiles /\ registration'[q] = registration[q]
      BY <1>0, <1>2, <2>3 DEF Settled, Confirmed
    <3> QED
      BY <2>2, <3>1 DEF Settled, Confirmed, Registered
  <2>4. StillThere(s) /\ loaded[s].status # "confirmed" => p \notin Settled
    BY <1>0, ConfirmedIsWaitlistOrNot DEF Settled, TakenForWaiting
  <2>5. IsFiniteSet(Settled) /\ IsFiniteSet(Settled')
    BY <2>1, SmallerSet DEF Settled, CounterWithinSettled
  <2>6. CASE loaded[s].status = "confirmed"
    <3>1. Settled \ {p} \subseteq Settled'
      BY <2>3
    <3>2. /\ Cardinality(Settled) \in Nat /\ Cardinality(Settled') \in Nat
          /\ Cardinality(Settled \ {p}) \in Nat
          /\ Cardinality(Settled \ {p}) >= Cardinality(Settled) - 1
          /\ Cardinality(Settled \ {p}) <= Cardinality(Settled')
      BY <2>5, <3>1, FS_RemoveElement, FS_CardinalityType, SmallerSet
    <3> QED
      BY <1>0, <1>2, <2>1, <2>6, <3>2 DEF CounterWithinSettled
  <2>7. CASE loaded[s].status # "confirmed"
    <3>1. Settled \subseteq Settled'
      BY <2>3, <2>4, <2>7
    <3>2. /\ Cardinality(Settled) \in Nat /\ Cardinality(Settled') \in Nat
          /\ Cardinality(Settled) <= Cardinality(Settled')
      BY <2>5, <3>1, SmallerSet
    <3> QED
      BY <1>0, <1>2, <2>1, <2>7, <3>2 DEF CounterWithinSettled
  <2> QED
    BY <2>6, <2>7
<1>11. Queue'
  <2>1. Waiting' \subseteq Waiting
    BY <1>4 DEF Waiting
  <2>2. ASSUME NEW t \in Sessions, pc'[t] = "promote", StillThere(t)', NEW q \in Waiting'
        PROVE  registration'[q].created_at \notin ahead[profile'[t]]
    <3>1. t # s /\ pc[t] = "promote" /\ profile'[t] = profile[t] /\ loaded'[t] = loaded[t]
      BY <1>1, <2>2 DEF Apart
    <3>2. StillThere(t)
      BY <1>4, <2>2, <3>1 DEF StillThere, Serving
    <3>3. q \in Waiting /\ registration'[q] = registration[q]
      BY <1>4, <2>1, <2>2 DEF Waiting
    <3> QED
      BY <3>1, <3>2, <3>3 DEF Queue
  <2> QED
    BY <1>1, <1>4, <2>2 DEF Queue
<1> QED
  BY <1>3, <1>5, <1>6, <1>8, <1>9, <1>10, <1>11

-----------------------------------------------------------------------------
(* The promotion adds a confirmed row and leaves the counter alone.        *)
LEMMA PromoteKeepsIInv ==
  ASSUME IInv, NEW s \in Sessions, PromoteFromWaitlist(s)
  PROVE  IInv'
<1> USE DEF IInv
<1> DEFINE p == profile[s]
<1>0. /\ pc \in [Sessions -> Labels] /\ profile \in [Sessions -> Profiles \cup {NoProfile}]
      /\ loaded \in [Sessions -> Registration \cup {NoRegistration}]
      /\ registration \in [Profiles -> Registration \cup {NoRegistration}]
      /\ current_participants \in Nat
      /\ pc[s] = "promote" /\ p \in Profiles /\ loaded[s] \in Registration
  BY DEF TypeOK, Serving, PromoteFromWaitlist
<1>1. CASE ~StillThere(s)
  <2>1. Apart(s) /\ TypeOK' /\ Ends(s) /\ UNCHANGED table
    BY <1>0, <1>1 DEF PromoteFromWaitlist, Answer, Goto, Apart, TypeOK, table, event, Labels, Ends
  <2> QED
    BY <2>1, SessionStepKeepsIInv
<1>2. CASE StillThere(s)
  <2>1. /\ registration' = [registration EXCEPT ![p].status = "confirmed"]
        /\ pc' = [pc EXCEPT ![s] = "spot"]
        /\ UNCHANGED <<profile, loaded, was_confirmed, current_participants,
                       notification, ahead, event, arrivals>>
    BY <1>2 DEF PromoteFromWaitlist, Goto, Keep
  <2>2. registration[p] \in Registration /\ registration'[p] \in Registration
    BY <1>0, <1>2, <2>1 DEF StillThere, Registered, Registration
  <2>3. \A q \in Profiles :
          /\ Registered(q)' = Registered(q)
          /\ Registered(q) => registration'[q].created_at = registration[q].created_at
          /\ registration'[q].status = IF q = p THEN "confirmed" ELSE registration[q].status
    BY <1>0, <1>2, <2>1, <2>2, NoRegistrationAssumption DEF Registered, Registration, StillThere
  <2>4. TypeOK'
    BY <1>0, <2>1, <2>2 DEF TypeOK, Labels, event
  <2>5. Issued' /\ \A t \in Sessions : Serving(t)' /\ New(t)'
    BY <1>0, <2>1, <2>3 DEF Issued, Serving, New
  <2>6. \A t \in Sessions : pc[t] # "idle" => StillThere(t)' = StillThere(t)
    BY <2>1, <2>3 DEF StillThere, Serving
  <2>7. \A t \in Sessions : Copied(t)'
    BY <1>0, <2>1, <2>3, <2>6 DEF Copied, Serving
  <2>8. SpotNoticeFollowsPromotion'
    BY <2>1, <2>3 DEF SpotNoticeFollowsPromotion, TypeOK
  <2>9. CounterWithinSettled'
    <3>1. Confirmed \subseteq Confirmed' /\ Confirmed' \subseteq Confirmed \cup {p}
      BY <2>3 DEF Confirmed
    <3>2. ASSUME NEW q \in Profiles, NEW t \in Sessions, TakenForWaiting(t, q)'
          PROVE  TakenForWaiting(t, q)
      BY <1>0, <2>1, <2>6, <3>2 DEF TakenForWaiting
    <3>3. Settled \subseteq Settled' /\ Settled' \subseteq Confirmed'
      BY <3>1, <3>2 DEF Settled, Confirmed
    <3>4. IsFiniteSet(Confirmed')
      BY <3>1, FS_AddElement, SmallerSet DEF CounterWithinSettled
    <3>5. /\ Cardinality(Settled) \in Nat /\ Cardinality(Settled') \in Nat
          /\ Cardinality(Settled) <= Cardinality(Settled')
      BY <3>3, <3>4, SmallerSet
    <3> QED
      BY <1>0, <2>1, <3>4, <3>5 DEF CounterWithinSettled
  <2>10. Queue'
    <3>1. Waiting' \subseteq Waiting
      BY <2>3 DEF Waiting
    <3>2. \A t \in Sessions : pc'[t] = "promote" => pc[t] = "promote"
      BY <1>0, <2>1
    <3>3. \A q \in Waiting : registration'[q].created_at = registration[q].created_at
      BY <2>3 DEF Waiting
    <3> QED
      BY <2>1, <2>3, <2>6, <3>1, <3>2, <3>3 DEF Queue
  <2> QED
    BY <2>4, <2>5, <2>7, <2>8, <2>9, <2>10
<1> QED
  BY <1>1, <1>2

(* The notification is about the row just promoted, or one that is gone.   *)
LEMMA NotifySpotKeepsIInv ==
  ASSUME IInv, NEW s \in Sessions, NotifySpot(s)
  PROVE  IInv'
<1> USE DEF IInv
<1> DEFINE n == [created_at |-> loaded[s].created_at, to |-> profile[s], about |-> "spot"]
<1>0. /\ pc[s] = "spot" /\ profile[s] \in Profiles /\ loaded[s] \in Registration
      /\ pc \in [Sessions -> Labels] /\ profile \in [Sessions -> Profiles \cup {NoProfile}]
      /\ loaded \in [Sessions -> Registration \cup {NoRegistration}]
      /\ was_confirmed \in [Sessions -> BOOLEAN]
  BY DEF NotifySpot, Serving, TypeOK
<1>1. /\ notification' = notification \cup {n}
      /\ UNCHANGED <<registration, current_participants, ahead, event, arrivals>>
      /\ Apart(s) /\ pc'[s] = "idle"
  BY <1>0 DEF NotifySpot, Answer, Goto, Apart
<1>2. TypeOK'
  BY <1>0, <1>1 DEF NotifySpot, Answer, Goto, TypeOK, Labels, Registration, event
<1>3. n.created_at = loaded[s].created_at /\ n.to = profile[s]
  OBVIOUS
<1>4. Issued' /\ \A t \in Sessions : Serving(t)'
  BY <1>0, <1>1, <1>3 DEF Issued, Serving, Apart, Registered
<1>5. \A t \in Sessions : New(t)'
  BY <1>0, <1>1, <1>3 DEF New, Apart, Registered
<1>6. \A t \in Sessions : Copied(t)'
  BY <1>1 DEF Copied, StillThere, Registered, Apart
<1>7. SpotNoticeFollowsPromotion'
  <2>1. Copied(s)
    OBVIOUS
  <2> QED
    BY <1>0, <1>1, <1>3, <2>1 DEF SpotNoticeFollowsPromotion, Copied, StillThere, Registered
<1>8. CounterWithinSettled'
  <2>1. \A q \in Profiles, t \in Sessions : TakenForWaiting(t, q)' => TakenForWaiting(t, q)
    BY <1>1 DEF TakenForWaiting, StillThere, Registered, Apart
  <2>2. Confirmed' = Confirmed /\ Settled \subseteq Settled' /\ Settled' \subseteq Confirmed'
    BY <1>1, <2>1 DEF Confirmed, Settled, Registered
  <2>3. /\ Cardinality(Settled) \in Nat /\ Cardinality(Settled') \in Nat
        /\ Cardinality(Settled) <= Cardinality(Settled')
    BY <2>2, SmallerSet DEF CounterWithinSettled
  <2> QED
    BY <1>1, <2>2, <2>3 DEF CounterWithinSettled, TypeOK
<1>9. Queue'
  <2>1. \A t \in Sessions : pc'[t] = "promote" =>
          pc[t] = "promote" /\ profile'[t] = profile[t] /\ loaded'[t] = loaded[t]
    BY <1>1 DEF Apart
  <2> QED
    BY <1>1, <2>1 DEF Queue, Waiting, StillThere, Registered
<1> QED
  BY <1>2, <1>4, <1>5, <1>6, <1>7, <1>8, <1>9

LEMMA NextIInv == IInv /\ [Next]_vars => IInv'
<1> SUFFICES ASSUME IInv, [Next]_vars PROVE IInv'
  OBVIOUS
<1>1. ASSUME NEW s \in Sessions, Ask(s) \/ Serve(s) PROVE IInv'
  BY <1>1, ReadingStepsKeepIInv, InsertKeepsIInv, DeleteKeepsIInv, PromoteKeepsIInv,
     NotifySpotKeepsIInv DEF Ask, Serve
<1>2. CASE \/ ActivityChanges \/ UNCHANGED vars
           \/ \E limit \in Limits : LimitChanges(limit)
  <2>1. UNCHANGED <<table, arrivals, session>> /\ TypeOK'
    BY <1>2 DEF ActivityChanges, LimitChanges, vars, event, table, session, IInv, TypeOK
  <2>2. Confirmed' = Confirmed /\ Settled' = Settled /\ Waiting' = Waiting
    BY <2>1 DEF Confirmed, Waiting, Settled, Registered, TakenForWaiting, StillThere,
       table, session
  <2> QED
    BY <2>1, <2>2 DEF IInv, Issued, Serving, New, Copied, StillThere, Registered,
       CounterWithinSettled, SpotNoticeFollowsPromotion, Queue, table, session
<1> QED
  BY <1>1, <1>2 DEF Next
-----------------------------------------------------------------------------
(* The inductive invariant.                                                *)
THEOREM Invariance == Spec => []IInv
BY InitIInv, NextIInv, PTL DEF Spec

(* Rows, sessions and notifications are of their types throughout; the     *)
(* floor under the counter keeps it a natural number.                      *)
THEOREM TypeCorrect == Spec => []TypeOK
<1>1. IInv => TypeOK
  BY DEF IInv
<1> QED
  BY <1>1, Invariance, PTL

(* However cancellations, promotions and failures overlap, the counter     *)
(* never exceeds the confirmed registrations.                              *)
THEOREM Counter == Spec => []CounterNeverOverstates
<1>1. IInv => CounterNeverOverstates
  <2> SUFFICES ASSUME IInv PROVE CounterNeverOverstates
    OBVIOUS
  <2>1. Settled \subseteq Confirmed
    BY DEF Settled
  <2>2. /\ Cardinality(Settled) \in Nat /\ Cardinality(Confirmed) \in Nat
        /\ Cardinality(Settled) <= Cardinality(Confirmed)
    BY <2>1, SmallerSet DEF IInv, CounterWithinSettled
  <2> QED
    BY <2>2 DEF IInv, TypeOK, CounterWithinSettled, CounterNeverOverstates
<1> QED
  BY <1>1, Invariance, PTL

(* Who has been told of a free place is not waiting any more.              *)
THEOREM SpotNotice == Spec => []SpotNoticeFollowsPromotion
<1>1. IInv => SpotNoticeFollowsPromotion
  BY DEF IInv
<1> QED
  BY <1>1, Invariance, PTL

(* A registration becomes confirmed only by its own INSERT, or by the      *)
(* promotion that picked this very row.                                    *)
THEOREM PickedRow == Spec => PromotionHitsPickedRow
<1>1. ASSUME IInv, [Next]_vars, NEW p \in Profiles,
             Registered(p)', registration'[p].status = "confirmed", p \notin Confirmed
      PROVE  \/ \E s \in Sessions : pc[s] = "insert" /\ profile[s] = p
             \/ /\ Registered(p)
                /\ \E s \in Sessions : pc[s] = "promote" /\ profile[s] = p
                     /\ loaded[s].created_at = registration[p].created_at
  <2>0. registration \in [Profiles -> Registration \cup {NoRegistration}]
    BY <1>1 DEF IInv, TypeOK
  <2>1. registration' # registration
    BY <1>1 DEF Confirmed, Registered
  <2>2. PICK s \in Sessions :
          InsertRegistration(s) \/ DeleteRegistration(s) \/ PromoteFromWaitlist(s)
    BY <1>1, <2>1 DEF Next, Ask, Serve, vars, table, Register, Cancel, CheckIn, CheckExisting,
       NotifyEmployer, FindRegistration, DecrementFails, PickWaiting, NotifySpot,
       RecordCheckIn, StepFails, ActivityChanges, LimitChanges
  <2>3. CASE InsertRegistration(s)
    BY <1>1, <2>0, <2>1, <2>3 DEF InsertRegistration, Confirmed, Registered
  <2>4. CASE DeleteRegistration(s)
    BY <1>1, <2>0, <2>1, <2>4 DEF DeleteRegistration, Confirmed, Registered
  <2>5. CASE PromoteFromWaitlist(s)
    BY <1>1, <2>0, <2>1, <2>5 DEF PromoteFromWaitlist, Confirmed, Registered, StillThere
  <2> QED
    BY <2>2, <2>3, <2>4, <2>5
<1>2. IInv /\ [Next]_vars =>
        \A p \in Profiles :
          Registered(p)' /\ registration'[p].status = "confirmed" /\ p \notin Confirmed =>
            \/ \E s \in Sessions : pc[s] = "insert" /\ profile[s] = p
            \/ /\ Registered(p)
               /\ \E s \in Sessions : pc[s] = "promote" /\ profile[s] = p
                    /\ loaded[s].created_at = registration[p].created_at
  BY <1>1
<1> QED
  BY <1>2, Invariance, PTL DEF Spec, PromotionHitsPickedRow

(* Nobody who was waiting before a promoted participant registered, and    *)
(* still waits, is overtaken, whatever overlaps or fails.                  *)
THEOREM NotOvertaken == Spec => NobodyOvertaken
<1>1. ASSUME IInv, [Next]_vars, NEW p \in Waiting,
             Registered(p)', registration'[p].status = "confirmed", NEW q \in Waiting
      PROVE  registration[q].created_at \notin ahead[p]
  <2>0. /\ registration \in [Profiles -> Registration \cup {NoRegistration}]
        /\ p \in Profiles /\ Registered(p) /\ registration[p].status = "waitlist"
    BY <1>1 DEF IInv, TypeOK, Waiting
  <2>1. registration' # registration
    BY <1>1, <2>0
  <2>2. PICK s \in Sessions :
          InsertRegistration(s) \/ DeleteRegistration(s) \/ PromoteFromWaitlist(s)
    BY <1>1, <2>1 DEF Next, Ask, Serve, vars, table, Register, Cancel, CheckIn, CheckExisting,
       NotifyEmployer, FindRegistration, DecrementFails, PickWaiting, NotifySpot,
       RecordCheckIn, StepFails, ActivityChanges, LimitChanges
  <2>3. CASE InsertRegistration(s) \/ DeleteRegistration(s)
    BY <1>1, <2>0, <2>3 DEF InsertRegistration, DeleteRegistration, Registered
  <2>4. CASE PromoteFromWaitlist(s)
    <3>1. p = profile[s] /\ pc[s] = "promote" /\ StillThere(s)
      BY <1>1, <2>0, <2>1, <2>4 DEF PromoteFromWaitlist
    <3> QED
      BY <1>1, <3>1 DEF IInv, Queue
  <2> QED
    BY <2>2, <2>3, <2>4
<1>2. IInv /\ [Next]_vars =>
        \A p \in Waiting : Registered(p)' /\ registration'[p].status = "confirmed" =>
          \A q \in Waiting : registration[q].created_at \notin ahead[p]
  BY <1>1
<1> QED
  BY <1>2, Invariance, PTL DEF Spec, NobodyOvertaken

-----------------------------------------------------------------------------
(* One request at a time: what is loaded is what is stored, and who was    *)
(* picked is still first.                                                  *)
CopyIsRow ==
  \A s \in Sessions :
    /\ pc[s] \in {"find", "delete", "promote"} =>
         Registered(profile[s]) /\ loaded[s] = registration[profile[s]]
    /\ pc[s] \in {"find", "delete"} => was_confirmed[s] = (loaded[s].status = "confirmed")
    /\ pc[s] = "promote" => Earliest(profile[s])

(* While somebody waits the places are taken, but for the one that the     *)
(* request under way has freed and is about to fill.                       *)
PlacesTaken ==
  /\ \A s \in Sessions : pc[s] \in {"check", "insert"} /\ loaded[s].status = "waitlist" =>
       max_participants <= Cardinality(Confirmed)
  /\ Waiting # {} =>
       IF \E s \in Sessions : pc[s] \in {"pick", "promote"}
       THEN max_participants <= Cardinality(Confirmed) + 1
       ELSE max_participants <= Cardinality(Confirmed)

LEMMA AloneKeepsCopy ==
  ASSUME NEW s, Sessions = {s}, IInv, CopyIsRow, [Next]_vars
  PROVE  CopyIsRow'
<1> USE DEF IInv
<1>0. /\ s \in Sessions /\ pc \in [Sessions -> Labels]
      /\ profile \in [Sessions -> Profiles \cup {NoProfile}]
      /\ loaded \in [Sessions -> Registration \cup {NoRegistration}]
      /\ was_confirmed \in [Sessions -> BOOLEAN]
      /\ registration \in [Profiles -> Registration \cup {NoRegistration}]
  BY DEF TypeOK
<1>1. ASSUME pc'[s] \notin {"find", "delete", "promote"} PROVE CopyIsRow'
  BY <1>1 DEF CopyIsRow
<1>2. ASSUME NEW p \in Profiles, Register(s, p) \/ CheckIn(s, p) PROVE CopyIsRow'
  BY <1>0, <1>1, <1>2 DEF Register, CheckIn, Goto
<1>3. ASSUME NEW p \in Profiles, Cancel(s, p) PROVE CopyIsRow'
  BY <1>0, <1>3 DEF Cancel, Goto, CopyIsRow, table, Registered
<1>4. ASSUME Answer(s) PROVE CopyIsRow'
  BY <1>0, <1>1, <1>4 DEF Answer, Goto
<1>5. ASSUME AfterCancel(s) PROVE CopyIsRow'
  BY <1>0, <1>1, <1>4, <1>5 DEF AfterCancel, Goto
<1>6. CASE CheckExisting(s) \/ InsertRegistration(s) \/ PromoteFromWaitlist(s)
  BY <1>0, <1>1, <1>4, <1>6 DEF CheckExisting, InsertRegistration, PromoteFromWaitlist, Goto
<1>7. CASE FindRegistration(s)
  <2>1. /\ Registered(profile[s]) /\ loaded[s] = registration[profile[s]]
        /\ was_confirmed[s] = (loaded[s].status = "confirmed")
        /\ StillThere(s)
    BY <1>0, <1>7 DEF FindRegistration, CopyIsRow, StillThere
  <2> QED
    BY <1>0, <1>7, <2>1 DEF FindRegistration, Goto, CopyIsRow, table, Registered
<1>8. CASE PickWaiting(s)
  <2>1. ASSUME NEW p \in Waiting,
               \A q \in Waiting : registration[p].created_at <= registration[q].created_at,
               profile' = [profile EXCEPT ![s] = p],
               loaded' = [loaded EXCEPT ![s] = registration[p]],
               Goto(s, "promote"), UNCHANGED table
        PROVE  CopyIsRow'
    BY <1>0, <2>1 DEF Goto, CopyIsRow, Earliest, Waiting, table, Registered
  <2> QED
    BY <1>4, <1>8, <2>1 DEF PickWaiting
<1>9. CASE \/ NotifyEmployer(s) \/ DeleteRegistration(s) \/ DecrementFails(s)
           \/ NotifySpot(s) \/ RecordCheckIn(s) \/ StepFails(s)
  BY <1>4, <1>5, <1>9 DEF NotifyEmployer, DeleteRegistration, DecrementFails, NotifySpot,
     RecordCheckIn, StepFails
<1>10. CASE \/ ActivityChanges \/ UNCHANGED vars
            \/ \E limit \in Limits : LimitChanges(limit)
  BY <1>10 DEF ActivityChanges, LimitChanges, vars, table, session, CopyIsRow, Earliest, Waiting, Registered
<1> QED
  BY <1>2, <1>3, <1>6, <1>7, <1>8, <1>9, <1>10 DEF Next, Ask, Serve

(* A session alone that changes no row keeps the places taken, unless it   *)
(* stops filling the place it has freed.                                   *)
LEMMA RowsSamePlaces ==
  ASSUME NEW s, Sessions = {s}, PlacesTaken, registration' = registration,
         pc'[s] \notin {"check", "insert"},
         pc[s] \in {"pick", "promote"} => pc'[s] \in {"pick", "promote"} \/ Waiting = {},
         max_participants \in Nat, max_participants' = max_participants,
         Cardinality(Confirmed) \in Nat
  PROVE  PlacesTaken'
<1>1. Confirmed' = Confirmed /\ Waiting' = Waiting
  BY DEF Confirmed, Waiting, Registered
<1> QED
  BY <1>1 DEF PlacesTaken

LEMMA AloneKeepsPlaces ==
  ASSUME NEW s, Sessions = {s}, NEW l, Limits = {l}, Failing = {},
         IInv, IInv', CopyIsRow, PlacesTaken, [Next]_vars
  PROVE  PlacesTaken'
<1> USE DEF IInv
<1>0. /\ s \in Sessions /\ pc \in [Sessions -> Labels]
      /\ profile \in [Sessions -> Profiles \cup {NoProfile}]
      /\ loaded \in [Sessions -> Registration \cup {NoRegistration}]
      /\ registration \in [Profiles -> Registration \cup {NoRegistration}]
      /\ max_participants \in Nat /\ max_participants' = max_participants
      /\ current_participants \in Nat
      /\ IsFiniteSet(Confirmed) /\ Cardinality(Confirmed) \in Nat
      /\ pc[s] # "idle" => profile[s] \in Profiles /\ loaded[s] \in Registration
  BY LimitsAssumption, FS_CardinalityType DEF TypeOK, CounterWithinSettled, Serving
<1>1. current_participants <= Cardinality(Confirmed)
  <2>1. Settled \subseteq Confirmed
    BY DEF Settled
  <2> QED
    BY <1>0, <2>1, SmallerSet DEF CounterWithinSettled
<1>2. ASSUME NEW p \in Profiles, Register(s, p) PROVE PlacesTaken'
  <2>1. /\ Confirmed' = Confirmed /\ Waiting' = Waiting
        /\ pc[s] = "idle" /\ pc'[s] = "check"
        /\ loaded'[s].status = "waitlist" => max_participants <= current_participants
    BY <1>0, <1>2 DEF Register, Goto, Confirmed, Waiting, Registered, table
  <2> QED
    BY <1>0, <1>1, <2>1 DEF PlacesTaken
<1>3. ASSUME NEW p \in Profiles, Cancel(s, p) \/ CheckIn(s, p) PROVE PlacesTaken'
  <2>1. registration' = registration /\ pc[s] = "idle" /\ pc'[s] \in {"find", "checkin"}
    BY <1>0, <1>3 DEF Cancel, CheckIn, Goto, table
  <2> QED
    BY <1>0, <2>1, RowsSamePlaces
<1>4. ASSUME Answer(s), registration' = registration,
             pc[s] \notin {"pick", "promote"} \/ Waiting = {}
      PROVE  PlacesTaken'
  <2>1. pc'[s] = "idle"
    BY <1>0, <1>4 DEF Answer, Goto
  <2> QED
    BY <1>0, <1>4, <2>1, RowsSamePlaces
<1>5. CASE CheckExisting(s)
  <2>1. CASE Answer(s)
    BY <1>4, <1>5, <2>1 DEF CheckExisting, table
  <2>2. CASE Goto(s, "insert") /\ Keep
    <3>1. /\ Confirmed' = Confirmed /\ Waiting' = Waiting
          /\ pc[s] = "check" /\ pc'[s] = "insert" /\ loaded'[s] = loaded[s]
      BY <1>0, <1>5, <2>2 DEF CheckExisting, Goto, Keep, Confirmed, Waiting, Registered, table
    <3> QED
      BY <1>0, <3>1 DEF PlacesTaken
  <2> QED
    BY <1>5, <2>1, <2>2 DEF CheckExisting
<1>6. CASE InsertRegistration(s)
  <2>1. CASE Registered(profile[s])
    BY <1>4, <1>6, <2>1 DEF InsertRegistration
  <2>2. CASE ~Registered(profile[s])
    <3>1. /\ registration' = [registration EXCEPT ![profile[s]] = loaded[s]]
          /\ pc[s] = "insert" /\ pc'[s] = "notify"
          /\ profile[s] \in Profiles /\ loaded[s] \in Registration
          /\ loaded[s] # NoRegistration
          /\ loaded[s].status = "confirmed" \/ loaded[s].status = "waitlist"
      BY <1>0, <1>6, <2>2, ConfirmedIsWaitlistOrNot DEF InsertRegistration, Goto
    <3>2. CASE loaded[s].status = "confirmed"
      <4>1. Confirmed' = Confirmed \cup {profile[s]} /\ Waiting' = Waiting
        BY <1>0, <2>2, <3>1, <3>2 DEF Confirmed, Waiting, Registered
      <4>2. /\ Cardinality(Confirmed') \in Nat
            /\ Cardinality(Confirmed) <= Cardinality(Confirmed')
        BY <1>0, <4>1, FS_AddElement, FS_CardinalityType, SmallerSet
      <4> QED
        BY <1>0, <3>1, <4>1, <4>2 DEF PlacesTaken
    <3>3. CASE loaded[s].status = "waitlist"
      <4>1. Confirmed' = Confirmed
        BY <1>0, <2>2, <3>1, <3>3 DEF Confirmed, Registered
      <4> QED
        BY <1>0, <3>1, <3>3, <4>1 DEF PlacesTaken
    <3> QED
      BY <3>1, <3>2, <3>3
  <2> QED
    BY <2>1, <2>2
<1>7. CASE NotifyEmployer(s) \/ RecordCheckIn(s) \/ NotifySpot(s)
  BY <1>4, <1>7 DEF NotifyEmployer, RecordCheckIn, NotifySpot, table
<1>8. CASE FindRegistration(s)
  <2>1. registration' = registration /\ pc[s] = "find" /\ pc'[s] = "delete"
    BY <1>0, <1>8 DEF FindRegistration, CopyIsRow, Goto, table
  <2> QED
    BY <1>0, <2>1, RowsSamePlaces
(* A confirmed row goes: the request now fills its place, if anybody waits *)
<1>9. CASE DeleteRegistration(s)
  <2>1. /\ pc[s] = "delete" /\ profile[s] \in Profiles /\ loaded[s] \in Registration
        /\ Registered(profile[s]) /\ loaded[s] = registration[profile[s]]
        /\ was_confirmed[s] = (loaded[s].status = "confirmed")
        /\ registration' = [registration EXCEPT ![profile[s]] = NoRegistration]
        /\ loaded[s].status = "confirmed" \/ loaded[s].status = "waitlist"
    BY <1>0, <1>9, ConfirmedIsWaitlistOrNot DEF DeleteRegistration, CopyIsRow, StillThere
  <2>2. pc'[s] = IF loaded[s].status = "confirmed" THEN "pick" ELSE "idle"
    BY <1>0, <1>9, <2>1 DEF DeleteRegistration, AfterCancel, Answer, Goto
  <2>3. CASE loaded[s].status = "confirmed"
    <3>1. Confirmed' = Confirmed \ {profile[s]} /\ Waiting' = Waiting
      BY <1>0, <2>1, <2>3 DEF Confirmed, Waiting, Registered
    <3>2. /\ IsFiniteSet(Confirmed \ {profile[s]})
          /\ Cardinality(Confirmed \ {profile[s]}) =
               IF profile[s] \in Confirmed THEN Cardinality(Confirmed) - 1
               ELSE Cardinality(Confirmed)
      BY <1>0, FS_RemoveElement
    <3>3. Cardinality(Confirmed') \in Nat /\ Cardinality(Confirmed) <= Cardinality(Confirmed') + 1
      BY <1>0, <3>1, <3>2, FS_CardinalityType
    <3> QED
      BY <1>0, <2>1, <2>2, <2>3, <3>1, <3>3 DEF PlacesTaken
  <2>4. CASE loaded[s].status = "waitlist"
    <3>1. Confirmed' = Confirmed /\ Waiting' \subseteq Waiting
      BY <1>0, <2>1, <2>4 DEF Confirmed, Waiting, Registered
    <3> QED
      BY <1>0, <2>1, <2>2, <2>4, <3>1 DEF PlacesTaken
  <2> QED
    BY <2>1, <2>3, <2>4
<1>10. CASE PickWaiting(s)
  <2>1. CASE Waiting = {} /\ Answer(s)
    BY <1>4, <1>10, <2>1 DEF PickWaiting, table
  <2>2. CASE Goto(s, "promote")
    <3>1. registration' = registration /\ pc[s] = "pick" /\ pc'[s] = "promote"
      BY <1>0, <1>10, <2>2 DEF PickWaiting, Goto, table
    <3> QED
      BY <1>0, <3>1, RowsSamePlaces
  <2> QED
    BY <1>10, <2>1, <2>2 DEF PickWaiting
<1>11. CASE PromoteFromWaitlist(s)
  <2>1. /\ pc[s] = "promote" /\ profile[s] \in Profiles
        /\ StillThere(s) /\ profile[s] \in Waiting
    BY <1>0, <1>11 DEF PromoteFromWaitlist, CopyIsRow, StillThere, Earliest
  <2>2. /\ registration' = [registration EXCEPT ![profile[s]].status = "confirmed"]
        /\ pc'[s] = "spot"
    BY <1>0, <1>11, <2>1 DEF PromoteFromWaitlist, Goto
  <2>3. profile[s] \notin Confirmed /\ Waiting # {}
    BY <2>1 DEF Waiting, Confirmed
  <2>4. registration[profile[s]] \in Registration
    BY <1>0, <2>1 DEF Waiting, Registered
  <2>5. /\ registration'[profile[s]] \in Registration
        /\ registration'[profile[s]].status = "confirmed"
    BY <1>0, <2>1, <2>2, <2>4 DEF Registration
  <2>6. Confirmed' = Confirmed \cup {profile[s]}
    <3>1. \A q \in Profiles : q # profile[s] => registration'[q] = registration[q]
      BY <1>0, <2>2
    <3> QED
      BY <2>1, <2>5, <3>1, ConfirmedIsWaitlistOrNot DEF Confirmed, Registered
  <2>7. Cardinality(Confirmed') = Cardinality(Confirmed) + 1
    BY <1>0, <2>3, <2>6, FS_AddElement
  <2> QED
    BY <1>0, <2>1, <2>2, <2>3, <2>7 DEF PlacesTaken
<1>12. CASE DecrementFails(s) \/ StepFails(s)
  BY <1>12 DEF DecrementFails, StepFails
<1>13. CASE \/ ActivityChanges \/ UNCHANGED vars
            \/ \E limit \in Limits : LimitChanges(limit)
  BY <1>0, <1>13 DEF ActivityChanges, LimitChanges, vars, table, session, PlacesTaken, Confirmed, Waiting, Registered
<1> QED
  BY <1>2, <1>3, <1>5, <1>6, <1>7, <1>8, <1>9, <1>10, <1>11, <1>12, <1>13 DEF Next, Ask, Serve

LEMMA InitAlone == Init => CopyIsRow /\ PlacesTaken
BY DEF Init, CopyIsRow, PlacesTaken, Waiting, Registered

(* One request at a time, no failures and a limit that stays: between      *)
(* requests nobody waits while a place is free, for any number of places   *)
(* and participants.                                                       *)
THEOREM AloneNobodyWaits ==
  ASSUME NEW s, Sessions = {s}, NEW l, Limits = {l}, Failing = {}
  PROVE  Spec => []NobodyWaitsForFreePlace
<1>1. CopyIsRow /\ PlacesTaken /\ IInv /\ IInv' /\ [Next]_vars => (CopyIsRow /\ PlacesTaken)'
  BY AloneKeepsCopy, AloneKeepsPlaces
<1>2. IInv /\ PlacesTaken => NobodyWaitsForFreePlace
  <2> SUFFICES ASSUME IInv, PlacesTaken, Quiet, Waiting # {}
               PROVE  Cardinality(Confirmed) >= max_participants
    BY DEF NobodyWaitsForFreePlace
  <2>1. Cardinality(Confirmed) \in Nat /\ max_participants \in Nat
    BY LimitsAssumption, FS_CardinalityType DEF IInv, TypeOK, CounterWithinSettled
  <2> QED
    BY <2>1 DEF PlacesTaken, Quiet
<1> QED
  BY <1>1, <1>2, InitAlone, Invariance, PTL DEF Spec
=============================================================================
