------------------------------- MODULE Tokens -------------------------------
(***************************************************************************)
(* Tokens and their blacklist: AuthService, core/security, TokenBlacklist  *)
(* and the dependencies that let a request in.                             *)
(*                                                                         *)
(* A token is what its signature covers: whose, of which type, until which *)
(* whole second.  Two issued within one second are the same token.  The    *)
(* clock counts half seconds: the code truncates to seconds, and less than *)
(* one is what that may lose.  Nothing in the program clears is_active, so *)
(* the row of a user that a token names is always found, and active.       *)
(***************************************************************************)
EXTENDS Integers

CONSTANTS
  Users,
  Sessions,    \* requests served at the same time
  AccessLife,  \* ACCESS_TOKEN_EXPIRE_MINUTES, in seconds
  RefreshLife, \* REFRESH_TOKEN_EXPIRE_MINUTES, in seconds
  MaxTime,     \* bound: the clock stops here
  Failing,     \* labels of the steps at which Redis or the database may fail
  NoRequest    \* the session is not in use

ASSUME LifeAssumption == AccessLife \in Nat \ {0} /\ RefreshLife \in Nat \ {0}
ASSUME MaxTimeAssumption == MaxTime \in Nat

VARIABLES
  clock,     \* half seconds since the start
  issued,    \* the tokens the program has given out
  blacklist, \* blacklist[t]: when Redis drops the key of t; 0 if there is none
  pc,        \* pc[s]: where the request of session s stands
  request,   \* request[s]: what it was asked
  ttl,       \* ttl[s]: access_ttl and refresh_ttl of a logout, in seconds
  revoked,   \* auxiliary: tokens of logouts that have been answered
  late       \* auxiliary: the token of s had been revoked when s began

vars == <<clock, issued, blacklist, pc, request, ttl, revoked, late>>

Labels  == {"idle", "check", "read", "inside", "issue", "revoke", "access", "refresh"}
Life    == [access |-> AccessLife, refresh |-> RefreshLife]
Seconds == 1 .. (MaxTime + AccessLife + RefreshLife)
Token   == [sub : Users, type : {"access", "refresh"}, exp : Seconds]
Ttl     == 0 .. (MaxTime + AccessLife + RefreshLife)

Request ==
       [op : {"login"}, sub : Users]
  \cup [op : {"use", "visit", "refresh"}, token : Token]
  \cup [op : {"logout"}, token : Token, refresh : Token]

ASSUME NoRequestAssumption == NoRequest \notin Request

NoTtl == [access |-> 0, refresh |-> 0]

create_tokens(u) ==
  {[sub |-> u, type |-> k, exp |-> clock \div 2 + Life[k]] : k \in {"access", "refresh"}}

(* PyJWT refuses a token from the very moment it expires. *)
Valid(t) == clock < 2 * t.exp
decode_token(t, type) == Valid(t) /\ t.type = type

is_blacklisted(t) == clock < blacklist[t]

(* The whole seconds left to a token. *)
Remaining(t) == (2 * t.exp - clock) \div 2

Goto(s, label) == pc' = [pc EXCEPT ![s] = label]

Answer(s) ==
  /\ Goto(s, "idle")
  /\ request' = [request EXCEPT ![s] = NoRequest]
  /\ ttl' = [ttl EXCEPT ![s] = NoTtl]
  /\ late' = [late EXCEPT ![s] = FALSE]

Begin(s, r, label, isLate) ==
  /\ pc[s] = "idle"
  /\ Goto(s, label)
  /\ request' = [request EXCEPT ![s] = r]
  /\ late' = [late EXCEPT ![s] = isLate]
  /\ UNCHANGED <<clock, issued, blacklist, ttl, revoked>>

-----------------------------------------------------------------------------
(* authenticate, and register_new_user for an account just stored: tokens  *)
(* follow once the password is verified.                                   *)
Login(s, u) == Begin(s, [op |-> "login", sub |-> u], "issue", FALSE)

(* get_current_user: decode, then the blacklist, then the user. *)
Use(s, t) ==
  /\ decode_token(t, "access")
  /\ Begin(s, [op |-> "use", token |-> t], "check", t \in revoked)

(* get_current_user_optional asks the blacklist first. *)
Visit(s, t) == Begin(s, [op |-> "visit", token |-> t], "check", t \in revoked)

(* refresh_tokens takes the same steps with a refresh token. *)
Refresh(s, t) ==
  /\ decode_token(t, "refresh")
  /\ Begin(s, [op |-> "refresh", token |-> t], "check", t \in revoked)

(* logout: let in by its access token, it brings the refresh token too; of *)
(* which type the second one is, nobody asks.                              *)
Logout(s, t, r) ==
  /\ decode_token(t, "access")
  /\ Begin(s, [op |-> "logout", token |-> t, refresh |-> r], "check", t \in revoked)

CheckBlacklist(s) ==
  /\ pc[s] = "check"
  /\ \/ is_blacklisted(request[s].token) /\ Answer(s)
     \/ /\ ~is_blacklisted(request[s].token)
        /\ Goto(s, "read")
        /\ UNCHANGED <<request, ttl, late>>
  /\ UNCHANGED <<clock, issued, blacklist, revoked>>

After == [use |-> "inside", visit |-> "inside", refresh |-> "issue", logout |-> "revoke"]

(* The user is read; a visitor's token is decoded only now. *)
ReadUser(s) ==
  /\ pc[s] = "read"
  /\ \/ /\ request[s].op = "visit" => decode_token(request[s].token, "access")
        /\ Goto(s, After[request[s].op])
        /\ UNCHANGED <<request, ttl, late>>
     \/ /\ request[s].op = "visit" /\ ~decode_token(request[s].token, "access")
        /\ Answer(s)
  /\ UNCHANGED <<clock, issued, blacklist, revoked>>

(* The request does what its user may do. *)
Serve(s) ==
  /\ pc[s] = "inside"
  /\ Answer(s)
  /\ UNCHANGED <<clock, issued, blacklist, revoked>>

Subject(s) == IF request[s].op = "login" THEN request[s].sub ELSE request[s].token.sub

(* The pair is signed and answered; the old one stays valid. *)
Issue(s) ==
  /\ pc[s] = "issue"
  /\ issued' = issued \cup create_tokens(Subject(s))
  /\ Answer(s)
  /\ UNCHANGED <<clock, blacklist, revoked>>

(* Variant: the time to live is counted in the clock's own unit. *)
Revoke_Unconverted(s) ==
  /\ pc[s] = "revoke"
  /\ LET t == request[s].token
         r == request[s].refresh
     IN  \/ /\ Valid(t) /\ Valid(r)
            /\ ttl' = [ttl EXCEPT ![s] = [access |-> 2 * t.exp - clock,
                                          refresh |-> 2 * (2 * r.exp - clock)]]
            /\ Goto(s, "access")
            /\ UNCHANGED <<request, late>>
         \/ ~(Valid(t) /\ Valid(r)) /\ Answer(s)
  /\ UNCHANGED <<clock, issued, blacklist, revoked>>

(* AuthService.logout: both tokens must still decode; what is left of them *)
(* is measured once.                                                       *)
Revoke(s) ==
  /\ pc[s] = "revoke"
  /\ LET t == request[s].token
         r == request[s].refresh
     IN  \/ /\ Valid(t) /\ Valid(r)
            /\ ttl' = [ttl EXCEPT ![s] = [access |-> Remaining(t), refresh |-> Remaining(r)]]
            /\ Goto(s, "access")
            /\ UNCHANGED <<request, late>>
         \/ ~(Valid(t) /\ Valid(r)) /\ Answer(s)
  /\ UNCHANGED <<clock, issued, blacklist, revoked>>

(* SETEX, which starts a key's time anew; a token with less than a second  *)
(* left gets none.                                                         *)
add_token(t, seconds) ==
  blacklist' = IF seconds > 0
               THEN [blacklist EXCEPT ![t] = clock + 2 * seconds]
               ELSE blacklist

AddAccess(s) ==
  /\ pc[s] = "access"
  /\ add_token(request[s].token, ttl[s].access)
  /\ Goto(s, "refresh")
  /\ UNCHANGED <<clock, issued, request, ttl, revoked, late>>

(* Variant: the access token is added twice. *)
AddRefresh_SameToken(s) ==
  /\ pc[s] = "refresh"
  /\ add_token(request[s].token, ttl[s].refresh)
  /\ revoked' = revoked \cup {request[s].token, request[s].refresh}
  /\ Answer(s)
  /\ UNCHANGED <<clock, issued>>

AddRefresh(s) ==
  /\ pc[s] = "refresh"
  /\ add_token(request[s].refresh, ttl[s].refresh)
  /\ revoked' = revoked \cup {request[s].token, request[s].refresh}
  /\ Answer(s)
  /\ UNCHANGED <<clock, issued>>

(* An error ends the request; a logout may have blacklisted one token. *)
StepFails(s) ==
  /\ pc[s] \in Failing \cap {"check", "read", "access", "refresh"}
  /\ Answer(s)
  /\ UNCHANGED <<clock, issued, blacklist, revoked>>

(* Time passes, and Redis drops the keys whose time is over. *)
Tick ==
  /\ clock < MaxTime
  /\ clock' = clock + 1
  /\ blacklist' = [t \in Token |-> IF blacklist[t] <= clock' THEN 0 ELSE blacklist[t]]
  /\ UNCHANGED <<issued, pc, request, ttl, revoked, late>>

-----------------------------------------------------------------------------
Init ==
  /\ clock = 0
  /\ issued = {}
  /\ blacklist = [t \in Token |-> 0]
  /\ pc = [s \in Sessions |-> "idle"]
  /\ request = [s \in Sessions |-> NoRequest]
  /\ ttl = [s \in Sessions |-> NoTtl]
  /\ revoked = {}
  /\ late = [s \in Sessions |-> FALSE]

(* The endpoints. *)
Ask(s) ==
  \/ \E u \in Users : Login(s, u)
  \/ \E t \in issued :
       \/ Use(s, t) \/ Visit(s, t) \/ Refresh(s, t)
       \/ \E r \in issued : Logout(s, t, r)

Step(s) ==
  \/ CheckBlacklist(s) \/ ReadUser(s) \/ Serve(s) \/ Issue(s)
  \/ Revoke(s) \/ AddAccess(s) \/ AddRefresh(s)
  \/ StepFails(s)

Next ==
  \/ Tick
  \/ \E s \in Sessions : Ask(s) \/ Step(s)

Spec == Init /\ [][Next]_vars

-----------------------------------------------------------------------------
TypeOK ==
  /\ clock \in 0 .. MaxTime
  /\ issued \subseteq Token
  /\ blacklist \in [Token -> Nat]
  /\ pc \in [Sessions -> Labels]
  /\ request \in [Sessions -> Request \cup {NoRequest}]
  /\ ttl \in [Sessions -> [access : Ttl, refresh : Ttl]]
  /\ revoked \subseteq Token
  /\ late \in [Sessions -> BOOLEAN]

Admitted(s) == pc[s] \in {"read", "inside", "issue", "revoke", "access", "refresh"}

LastSecond(t) == clock >= 2 * t.exp - 1

(* "Добавляет токены в blacklist для предотвращения повторного             *)
(* использования": once a logout has been answered, no request that begins *)
(* later is let in, or given a new pair, by either of its tokens, however  *)
(* the two keys were set and time passed in between.  Only in the last     *)
(* second of its life, which the truncated time to live leaves open, a     *)
(* token may be taken again.                                               *)
LoggedOutIsRefused ==
  \A s \in Sessions : late[s] /\ Admitted(s) => LastSecond(request[s].token)
=============================================================================
