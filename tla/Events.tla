------------------------------- MODULE Events -------------------------------
(***************************************************************************)
(* Registration for one event: EventService, EventRegistrationRepository   *)
(* and the event_registrations table.                                      *)
(*                                                                         *)
(* As in Applications, a request is a process that runs from one await to  *)
(* the next on its own session.  Events do not share state, so the module  *)
(* is about one of them, whose employer may change its limit.              *)
(*                                                                         *)
(* created_at is now() of the inserting transaction, which PostgreSQL      *)
(* fixes when the request starts talking to the database: it is the order  *)
(* of arrival, and it identifies a row (the primary key is a fresh UUID).  *)
(***************************************************************************)
EXTENDS Naturals, FiniteSets

CONSTANTS
  Profiles,        \* applicants' profiles
  Sessions,        \* requests served at the same time
  Limits,          \* values the employer may give to max_participants
  MaxArrivals,     \* bound on the register requests of a behaviour
  Failing,         \* labels of the steps at which the database may fail
  NoRegistration,  \* no row for this profile
  NoProfile

(* The schema has max_participants at least 1.  No limit at all behaves as *)
(* one that MaxArrivals registrations do not reach.                        *)
ASSUME LimitsAssumption == Limits \subseteq Nat \ {0}
ASSUME MaxArrivalsAssumption == MaxArrivals \in Nat

VARIABLES
  registration,         \* event_registrations: the row of each profile, unique per profile
  current_participants, \* Opportunity.current_participants
  notification,         \* committed notifications
  active,               \* the opportunity is ACTIVE
  max_participants,     \* Opportunity.max_participants
  arrivals,             \* register requests so far
  pc,                   \* pc[s]: where the request of session s stands
  profile,              \* profile[s]: whose registration it works on
  loaded,               \* loaded[s]: the ORM object, or the row to be inserted
  was_confirmed,        \* cancel: what the service remembers of its first read
  ahead                 \* auxiliary: ahead[p] is the arrivals of those who were waiting,
                        \* and had arrived earlier, when the row of p was inserted

table   == <<registration, current_participants, notification, ahead>>
event   == <<active, max_participants>>
session == <<pc, profile, loaded, was_confirmed>>
vars    == <<table, event, arrivals, session>>

Labels == {"idle", "check", "insert", "notify", "find", "delete", "pick",
           "promote", "spot", "checkin"}

Registration == [created_at : 1..MaxArrivals, status : {"confirmed", "waitlist"},
                 checked_in : BOOLEAN]

ASSUME NoRegistrationAssumption == NoRegistration \notin Registration

Registered(p) == registration[p] # NoRegistration

(* The row the session loaded is still there. *)
StillThere(s) ==
  /\ Registered(profile[s])
  /\ registration[profile[s]].created_at = loaded[s].created_at

Confirmed == {p \in Profiles : Registered(p) /\ registration[p].status = "confirmed"}
Waiting   == {p \in Profiles : Registered(p) /\ registration[p].status = "waitlist"}

WaitingBefore(time) ==
  {registration[q].created_at : q \in {r \in Waiting : registration[r].created_at < time}}

Goto(s, label) == pc' = [pc EXCEPT ![s] = label]

(* The request ends; its session is closed. *)
Answer(s) ==
  /\ Goto(s, "idle")
  /\ profile' = [profile EXCEPT ![s] = NoProfile]
  /\ loaded' = [loaded EXCEPT ![s] = NoRegistration]
  /\ was_confirmed' = [was_confirmed EXCEPT ![s] = FALSE]

Keep == UNCHANGED <<profile, loaded, was_confirmed>>

-----------------------------------------------------------------------------
(* register_for_event: the event is read, and whether there is a place     *)
(* left is decided from that read.                                         *)
Register(s, p) ==
  /\ pc[s] = "idle" /\ active /\ arrivals < MaxArrivals
  /\ arrivals' = arrivals + 1
  /\ profile' = [profile EXCEPT ![s] = p]
  /\ loaded' = [loaded EXCEPT ![s] =
       [created_at |-> arrivals + 1,
        status |-> IF current_participants < max_participants THEN "confirmed" ELSE "waitlist",
        checked_in |-> FALSE]]
  /\ Goto(s, "check")
  /\ UNCHANGED <<table, event, was_confirmed>>

(* The service refuses a profile that is already registered. *)
CheckExisting(s) ==
  /\ pc[s] = "check"
  /\ \/ ~Registered(profile[s]) /\ Goto(s, "insert") /\ Keep
     \/ Registered(profile[s]) /\ Answer(s)
  /\ UNCHANGED <<table, event, arrivals>>

(* Variant: the waitlist is counted among the participants. *)
InsertRegistration_CountAll(s) ==
  /\ pc[s] = "insert"
  /\ \/ /\ ~Registered(profile[s])
        /\ registration' = [registration EXCEPT ![profile[s]] = loaded[s]]
        /\ ahead' = [ahead EXCEPT ![profile[s]] = WaitingBefore(loaded[s].created_at)]
        /\ current_participants' = current_participants + 1
        /\ Goto(s, "notify")
        /\ Keep
     \/ /\ Registered(profile[s])
        /\ Answer(s)
        /\ UNCHANGED <<registration, current_participants, ahead>>
  /\ UNCHANGED <<notification, event, arrivals>>

(* The repository's INSERT, counter and COMMIT are one transaction.  A row *)
(* committed since the check is met by the repository's own check or by    *)
(* uq_event_registration_once: nothing is written and the request ends.    *)
InsertRegistration(s) ==
  /\ pc[s] = "insert"
  /\ \/ /\ ~Registered(profile[s])
        /\ registration' = [registration EXCEPT ![profile[s]] = loaded[s]]
        /\ ahead' = [ahead EXCEPT ![profile[s]] = WaitingBefore(loaded[s].created_at)]
        /\ current_participants' =
             current_participants + (IF loaded[s].status = "confirmed" THEN 1 ELSE 0)
        /\ Goto(s, "notify")
        /\ Keep
     \/ /\ Registered(profile[s])
        /\ Answer(s)
        /\ UNCHANGED <<registration, current_participants, ahead>>
  /\ UNCHANGED <<notification, event, arrivals>>

(* The employer's id is read from event.company, which get_event_info did  *)
(* not load: a lazy load outside a database call raises, the request       *)
(* ends in an error and no notification is written.                        *)
NotifyEmployer(s) ==
  /\ pc[s] = "notify"
  /\ Answer(s)
  /\ UNCHANGED <<table, event, arrivals>>

-----------------------------------------------------------------------------
(* cancel_registration in the service: the first read. *)
Cancel(s, p) ==
  /\ pc[s] = "idle" /\ Registered(p)
  /\ profile' = [profile EXCEPT ![s] = p]
  /\ loaded' = [loaded EXCEPT ![s] = registration[p]]
  /\ was_confirmed' = [was_confirmed EXCEPT ![s] = registration[p].status = "confirmed"]
  /\ Goto(s, "find")
  /\ UNCHANGED <<table, event, arrivals>>

(* Variant: the waitlist is not looked at after a cancellation. *)
AfterCancel_NoPromotion(s) == Answer(s)

(* Back in the service: a place was freed if the first read said so. *)
AfterCancel(s) ==
  \/ was_confirmed[s] /\ Goto(s, "pick") /\ Keep
  \/ ~was_confirmed[s] /\ Answer(s)

(* The repository reads the row again.  A row that is still there is the   *)
(* object already loaded, with the status it had then; another row of the  *)
(* profile is loaded afresh; no row at all is a quiet return.              *)
FindRegistration(s) ==
  /\ pc[s] = "find"
  /\ \/ ~Registered(profile[s]) /\ AfterCancel(s)
     \/ /\ Registered(profile[s])
        /\ loaded' = [loaded EXCEPT ![s] =
                        IF StillThere(s) THEN @ ELSE registration[profile[s]]]
        /\ Goto(s, "delete")
        /\ UNCHANGED <<profile, was_confirmed>>
  /\ UNCHANGED <<table, event, arrivals>>

(* Variant: the counter has no floor at 0. *)
DeleteRegistration_NoFloor(s) ==
  /\ pc[s] = "delete"
  /\ registration' = IF StillThere(s)
                     THEN [registration EXCEPT ![profile[s]] = NoRegistration]
                     ELSE registration
  /\ current_participants' =
       current_participants - (IF loaded[s].status = "confirmed" THEN 1 ELSE 0)
  /\ AfterCancel(s)
  /\ UNCHANGED <<notification, ahead, event, arrivals>>

(* DELETE, _decrement_participants_count and COMMIT.  A DELETE that finds  *)
(* no row is only a warning, and the counter goes down all the same.       *)
DeleteRegistration(s) ==
  /\ pc[s] = "delete"
  /\ registration' = IF StillThere(s)
                     THEN [registration EXCEPT ![profile[s]] = NoRegistration]
                     ELSE registration
  /\ current_participants' =
       IF loaded[s].status = "confirmed" /\ current_participants > 0
       THEN current_participants - 1 ELSE current_participants
  /\ AfterCancel(s)
  /\ UNCHANGED <<notification, ahead, event, arrivals>>

(* _decrement_participants_count swallows the database's failure after a   *)
(* rollback that also forgets the DELETE: the service goes on as if the    *)
(* registration were gone.                                                 *)
DecrementFails(s) ==
  /\ pc[s] = "delete" /\ "delete" \in Failing
  /\ loaded[s].status = "confirmed"
  /\ AfterCancel(s)
  /\ UNCHANGED <<table, event, arrivals>>

(* Variant: anybody on the waitlist may be next. *)
PickWaiting_Unordered(s) ==
  /\ pc[s] = "pick"
  /\ \/ Waiting = {} /\ Answer(s)
     \/ \E p \in Waiting :
          /\ profile' = [profile EXCEPT ![s] = p]
          /\ loaded' = [loaded EXCEPT ![s] = registration[p]]
          /\ Goto(s, "promote")
          /\ UNCHANGED was_confirmed
  /\ UNCHANGED <<table, event, arrivals>>

(* Variant: the participant is told before the promotion is committed. *)
PickWaiting_TellFirst(s) ==
  /\ pc[s] = "pick"
  /\ \/ Waiting = {} /\ Answer(s) /\ UNCHANGED notification
     \/ \E p \in Waiting :
          /\ \A q \in Waiting : registration[p].created_at <= registration[q].created_at
          /\ profile' = [profile EXCEPT ![s] = p]
          /\ loaded' = [loaded EXCEPT ![s] = registration[p]]
          /\ notification' = notification \cup
               {[created_at |-> registration[p].created_at, to |-> p, about |-> "spot"]}
          /\ Goto(s, "promote")
          /\ UNCHANGED was_confirmed
  /\ UNCHANGED <<registration, current_participants, ahead, event, arrivals>>

(* get_waitlist_next: whoever of the waiting arrived first. *)
PickWaiting(s) ==
  /\ pc[s] = "pick"
  /\ \/ Waiting = {} /\ Answer(s)
     \/ \E p \in Waiting :
          /\ \A q \in Waiting : registration[p].created_at <= registration[q].created_at
          /\ profile' = [profile EXCEPT ![s] = p]
          /\ loaded' = [loaded EXCEPT ![s] = registration[p]]
          /\ Goto(s, "promote")
          /\ UNCHANGED was_confirmed
  /\ UNCHANGED <<table, event, arrivals>>

(* Variant: the UPDATE names the profile, not the row that was picked. *)
PromoteFromWaitlist_ByProfile(s) ==
  /\ pc[s] = "promote"
  /\ \/ /\ Registered(profile[s])
        /\ registration' = [registration EXCEPT ![profile[s]].status = "confirmed"]
        /\ Goto(s, "spot")
        /\ Keep
     \/ ~Registered(profile[s]) /\ Answer(s) /\ UNCHANGED registration
  /\ UNCHANGED <<current_participants, notification, ahead, event, arrivals>>

(* promote_from_waitlist: the counter is not touched.  An UPDATE that      *)
(* finds no row raises, and _promote_next_from_waitlist swallows it.       *)
PromoteFromWaitlist(s) ==
  /\ pc[s] = "promote"
  /\ \/ /\ StillThere(s)
        /\ registration' = [registration EXCEPT ![profile[s]].status = "confirmed"]
        /\ Goto(s, "spot")
        /\ Keep
     \/ ~StillThere(s) /\ Answer(s) /\ UNCHANGED registration
  /\ UNCHANGED <<current_participants, notification, ahead, event, arrivals>>

(* _create_spot_available_notification, in a transaction of its own. *)
NotifySpot(s) ==
  /\ pc[s] = "spot"
  /\ notification' = notification \cup
       {[created_at |-> loaded[s].created_at, to |-> profile[s], about |-> "spot"]}
  /\ Answer(s)
  /\ UNCHANGED <<registration, current_participants, ahead, event, arrivals>>

-----------------------------------------------------------------------------
(* check_in_participant finds the row by its code ...                      *)
CheckIn(s, p) ==
  /\ pc[s] = "idle" /\ Registered(p)
  /\ profile' = [profile EXCEPT ![s] = p]
  /\ loaded' = [loaded EXCEPT ![s] = registration[p]]
  /\ Goto(s, "checkin")
  /\ UNCHANGED <<table, event, arrivals, was_confirmed>>

(* ... and computes datetime.now(datetime.UTC): the imported class has no  *)
(* UTC, the request ends in an error before the row is written.            *)
RecordCheckIn(s) ==
  /\ pc[s] = "checkin"
  /\ Answer(s)
  /\ UNCHANGED <<table, event, arrivals>>

(* The database fails a step, which leaves nothing behind; the failure of  *)
(* a promotion is swallowed, any other answered.                           *)
StepFails(s) ==
  /\ pc[s] \in Failing
  /\ pc[s] = "delete" => loaded[s].status = "waitlist"
  /\ Answer(s)
  /\ UNCHANGED <<table, event, arrivals>>

(* Other components close and re-open the opportunity. *)
ActivityChanges ==
  active' = ~active /\ UNCHANGED <<table, max_participants, arrivals, session>>

(* The employer edits max_participants (update_opportunity), whatever the  *)
(* counter and the waitlist have come to.                                  *)
LimitChanges(limit) ==
  max_participants' = limit /\ UNCHANGED <<table, active, arrivals, session>>

Init ==
  /\ registration = [p \in Profiles |-> NoRegistration]
  /\ current_participants = 0
  /\ notification = {}
  /\ ahead = [p \in Profiles |-> {}]
  /\ active = TRUE
  /\ max_participants \in Limits
  /\ arrivals = 0
  /\ pc = [s \in Sessions |-> "idle"]
  /\ profile = [s \in Sessions |-> NoProfile]
  /\ loaded = [s \in Sessions |-> NoRegistration]
  /\ was_confirmed = [s \in Sessions |-> FALSE]

Ask(s) == \E p \in Profiles : Register(s, p) \/ Cancel(s, p) \/ CheckIn(s, p)

Serve(s) ==
  \/ CheckExisting(s) \/ InsertRegistration(s) \/ NotifyEmployer(s)
  \/ FindRegistration(s) \/ DeleteRegistration(s) \/ DecrementFails(s)
  \/ PickWaiting(s) \/ PromoteFromWaitlist(s) \/ NotifySpot(s)
  \/ RecordCheckIn(s)
  \/ StepFails(s)

Next ==
  \/ \E s \in Sessions : Ask(s) \/ Serve(s)
  \/ ActivityChanges
  \/ \E limit \in Limits : LimitChanges(limit)

Spec == Init /\ [][Next]_vars

-----------------------------------------------------------------------------
TypeOK ==
  /\ registration \in [Profiles -> Registration \cup {NoRegistration}]
  /\ current_participants \in Nat
  /\ notification \subseteq [created_at : 1..MaxArrivals, to : Profiles, about : {"spot"}]
  /\ ahead \in [Profiles -> SUBSET (1..MaxArrivals)]
  /\ active \in BOOLEAN
  /\ max_participants \in Limits
  /\ arrivals \in 0..MaxArrivals
  /\ pc \in [Sessions -> Labels]
  /\ profile \in [Sessions -> Profiles \cup {NoProfile}]
  /\ loaded \in [Sessions -> Registration \cup {NoRegistration}]
  /\ was_confirmed \in [Sessions -> BOOLEAN]

(* The counter never exceeds the confirmed rows, whatever cancels and      *)
(* promotions overlap or fail: nobody is put on the waitlist, and no       *)
(* visitor told there is no place, because of participants who are gone.   *)
CounterNeverOverstates == current_participants <= Cardinality(Confirmed)

(* Nobody still waiting has been told of a free place, not even when the   *)
(* promotion it announces finds its row gone or fails.                     *)
SpotNoticeFollowsPromotion ==
  \A n \in notification :
    Registered(n.to) /\ registration[n.to].created_at = n.created_at =>
      registration[n.to].status = "confirmed"

(* A promotion hits the very registration that was picked: a participant   *)
(* who left in between is not brought back, and one who left and came back *)
(* does not jump the queue.                                                *)
PromotionHitsPickedRow ==
  [][\A p \in Profiles :
       Registered(p)' /\ registration'[p].status = "confirmed" /\ p \notin Confirmed =>
         \/ \E s \in Sessions : pc[s] = "insert" /\ profile[s] = p
         \/ /\ Registered(p)
            /\ \E s \in Sessions : pc[s] = "promote" /\ profile[s] = p
                 /\ loaded[s].created_at = registration[p].created_at]_vars

Quiet == \A s \in Sessions : pc[s] = "idle"

(* "При отмене участник из waitlist автоматически продвигается": between   *)
(* requests, nobody waits while a place is free.  (The limit is fixed: an  *)
(* employer who raises it promotes nobody.)                                *)
NobodyWaitsForFreePlace ==
  Quiet /\ Waiting # {} => Cardinality(Confirmed) >= max_participants

(* Whoever a promotion confirms overtakes nobody who was waiting before    *)
(* them when they registered and still waits, however many cancellations   *)
(* promote at once, and whoever leaves and comes back meanwhile.  (Of those*)
(* who register directly into a free place it says nothing.)               *)
NobodyOvertaken ==
  [][\A p \in Waiting : Registered(p)' /\ registration'[p].status = "confirmed" =>
       \A q \in Waiting : registration[q].created_at \notin ahead[p]]_vars
=============================================================================
