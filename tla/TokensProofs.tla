---------------------------- MODULE TokensProofs ----------------------------
(***************************************************************************)
(* Proofs about Tokens, for any users, lives of tokens and number of       *)
(* requests at a time.                                                     *)
(*                                                                         *)
(* The blacklist must hold a token until its last second (Held).  What a   *)
(* logout has measured stays enough however late its two SETEX come,       *)
(* because the time to live starts anew with each of them (Measured).      *)
(***************************************************************************)
EXTENDS Tokens, TLAPS

Held(t) == LastSecond(t) \/ blacklist[t] >= 2 * t.exp - 1

Measured(t, seconds) == clock + 2 * seconds >= 2 * t.exp - 1

(* A request that is being served is one of the right kind for its step.   *)
Serving(s) ==
  /\ pc[s] # "idle" => request[s] \in Request
  /\ pc[s] \in {"check", "read"} => request[s].op # "login"
  /\ pc[s] \in {"revoke", "access", "refresh"} => request[s].op = "logout"
  /\ late[s] => request[s].op # "login"

Revoking(s) ==
  /\ pc[s] = "access" => Measured(request[s].token, ttl[s].access)
  /\ pc[s] = "refresh" => Held(request[s].token)
  /\ pc[s] \in {"access", "refresh"} => Measured(request[s].refresh, ttl[s].refresh)

IInv ==
  /\ TypeOK
  /\ \A t \in revoked : Held(t)
  /\ \A s \in Sessions : Serving(s) /\ Revoking(s)
  /\ \A s \in Sessions : late[s] /\ pc[s] = "check" => request[s].token \in revoked
  /\ LoggedOutIsRefused

-----------------------------------------------------------------------------
LEMMA Spans ==
  /\ AccessLife \in Nat /\ RefreshLife \in Nat /\ MaxTime \in Nat
  /\ MaxTime + AccessLife + RefreshLife \in Nat
BY LifeAssumption, MaxTimeAssumption

LEMMA TokenOf ==
  ASSUME NEW r \in Request, r.op # "login"
  PROVE  r.token \in Token
BY DEF Request

LEMMA RefreshOf ==
  ASSUME NEW r \in Request, r.op = "logout"
  PROVE  r.token \in Token /\ r.refresh \in Token
BY DEF Request

LEMMA ExpOf ==
  ASSUME NEW t \in Token
  PROVE  t.exp \in Nat /\ t.exp >= 1 /\ t.exp <= MaxTime + AccessLife + RefreshLife
BY Spans DEF Token, Seconds

LEMMA ClockIsNat == TypeOK => clock \in Nat
BY Spans DEF TypeOK

(* Both tokens of a new pair expire within the bounds of the model.        *)
LEMMA NewTokens ==
  ASSUME TypeOK, NEW u \in Users
  PROVE  create_tokens(u) \subseteq Token
<1>1. /\ clock \div 2 \in Nat
      /\ clock \div 2 <= MaxTime
  BY Spans DEF TypeOK
<1>2. \A k \in {"access", "refresh"} : Life[k] \in Nat \ {0} /\ Life[k] <= AccessLife + RefreshLife
  BY LifeAssumption DEF Life
<1>3. ASSUME NEW k \in {"access", "refresh"}
      PROVE  clock \div 2 + Life[k] \in Seconds
  BY <1>1, <1>2, Spans DEF Seconds
<1> QED
  BY <1>3 DEF create_tokens, Token

(* The whole seconds left to a token fall short of it by less than one.    *)
LEMMA RemainingFacts ==
  ASSUME TypeOK, NEW t \in Token, Valid(t)
  PROVE  Remaining(t) \in Ttl /\ Measured(t, Remaining(t))
<1>1. clock \in Nat /\ t.exp \in Nat /\ clock < 2 * t.exp
      /\ t.exp <= MaxTime + AccessLife + RefreshLife
  BY ClockIsNat, ExpOf DEF Valid
<1>2. PICK n \in Nat : n = 2 * t.exp - clock
  BY <1>1
<1>3. n \div 2 \in Nat /\ 2 * (n \div 2) <= n /\ 2 * (n \div 2) >= n - 1
  OBVIOUS
<1> QED
  BY <1>1, <1>2, <1>3, Spans DEF Remaining, Measured, Ttl

-----------------------------------------------------------------------------
LEMMA InitIInv == Init => IInv
<1> SUFFICES ASSUME Init PROVE IInv
  OBVIOUS
<1>1. TypeOK
  BY Spans DEF Init, TypeOK, Labels, NoTtl, Ttl
<1> QED
  BY <1>1 DEF Init, IInv, Serving, Revoking, LoggedOutIsRefused

(* A step of session s, at one moment, after which whatever was on the     *)
(* blacklist long enough still is: the other requests do not notice it.    *)
LEMMA OneRequest ==
  ASSUME IInv, NEW s \in Sessions, TypeOK', clock' = clock,
         \A t \in Token : Held(t) => Held(t)',
         revoked \subseteq revoked',
         \A t \in revoked' \ revoked : Held(t)',
         \A u \in Sessions \ {s} :
           pc'[u] = pc[u] /\ request'[u] = request[u] /\ ttl'[u] = ttl[u] /\ late'[u] = late[u],
         Serving(s)', Revoking(s)',
         late'[s] /\ pc'[s] = "check" => request'[s].token \in revoked',
         late'[s] /\ Admitted(s)' => LastSecond(request[s].token)'
  PROVE  IInv'
<1>1. \A t \in revoked' : Held(t)'
  BY DEF IInv, TypeOK
<1>2. ASSUME NEW u \in Sessions \ {s} PROVE Serving(u)' /\ Revoking(u)'
  <2>1. Serving(u) /\ Revoking(u)
    BY DEF IInv
  <2>2. Serving(u)'
    BY <2>1 DEF Serving
  <2>3. pc[u] = "refresh" => request[u].token \in Token
    BY <2>1, RefreshOf DEF Serving
  <2>4. pc[u] = "refresh" => Held(request[u].token)'
    BY <2>1, <2>3 DEF Revoking
  <2> QED
    BY <2>1, <2>2, <2>4 DEF Revoking, Measured, Held, LastSecond
<1>3. \A u \in Sessions \ {s} : late'[u] /\ pc'[u] = "check" => request'[u].token \in revoked'
  BY DEF IInv
<1>4. \A u \in Sessions \ {s} : late'[u] /\ Admitted(u)' => LastSecond(request[u].token)'
  BY DEF IInv, LoggedOutIsRefused, Admitted, LastSecond
<1> QED
  BY <1>1, <1>2, <1>3, <1>4 DEF IInv, LoggedOutIsRefused

(* The end of a request. *)
LEMMA AnswerFacts ==
  ASSUME TypeOK, NEW s \in Sessions, Answer(s)
  PROVE  /\ pc' \in [Sessions -> Labels]
         /\ request' \in [Sessions -> Request \cup {NoRequest}]
         /\ ttl' \in [Sessions -> [access : Ttl, refresh : Ttl]]
         /\ late' \in [Sessions -> BOOLEAN]
         /\ \A u \in Sessions \ {s} :
              pc'[u] = pc[u] /\ request'[u] = request[u] /\ ttl'[u] = ttl[u] /\ late'[u] = late[u]
         /\ Serving(s)' /\ Revoking(s)' /\ ~late'[s]
BY Spans DEF Answer, Goto, TypeOK, Labels, NoTtl, Ttl, Serving, Revoking

LEMMA AnswerKeepsIInv ==
  ASSUME IInv, NEW s \in Sessions, Answer(s), UNCHANGED <<clock, blacklist, revoked>>,
         issued' \subseteq Token
  PROVE  IInv'
<1>1. TypeOK'
  BY AnswerFacts DEF IInv, TypeOK
<1>2. \A t \in Token : Held(t) => Held(t)'
  BY DEF Held, LastSecond
<1> QED
  BY <1>1, <1>2, AnswerFacts, OneRequest DEF IInv

(* A request comes in, of a token that may have been revoked before. *)
Comes(s, r, label) ==
  /\ pc' = [pc EXCEPT ![s] = label]
  /\ request' = [request EXCEPT ![s] = r]
  /\ late' \in [Sessions -> BOOLEAN]
  /\ \A u \in Sessions \ {s} : late'[u] = late[u]
  /\ late'[s] => label = "check" /\ r.token \in revoked
  /\ UNCHANGED <<clock, issued, blacklist, ttl, revoked>>

LEMMA LateFacts ==
  ASSUME TypeOK, NEW s \in Sessions, NEW t \in Token,
         late' = [late EXCEPT ![s] = (t \in revoked)]
  PROVE  /\ late' \in [Sessions -> BOOLEAN]
         /\ \A u \in Sessions \ {s} : late'[u] = late[u]
         /\ late'[s] => t \in revoked
<1>1. (t \in revoked) \in BOOLEAN
  OBVIOUS
<1>2. late \in [Sessions -> BOOLEAN]
  BY DEF TypeOK
<1>3. late'[s] = (t \in revoked)
  BY <1>2, Zenon
<1>4. \A u \in Sessions \ {s} : late'[u] = late[u]
  BY <1>2, Zenon
<1>5. late' \in [Sessions -> BOOLEAN]
  BY <1>1, <1>2, Zenon
<1> QED
  BY <1>3, <1>4, <1>5, Zenon

LEMMA ComesKeepsIInv ==
  ASSUME IInv, NEW s \in Sessions, NEW r \in Request, NEW label \in {"issue", "check"},
         label = "check" => r.op # "login",
         Comes(s, r, label)
  PROVE  IInv'
<1>1. /\ pc'[s] = label /\ request'[s] = r
      /\ UNCHANGED <<clock, issued, blacklist, ttl, revoked>>
      /\ \A u \in Sessions \ {s} :
           pc'[u] = pc[u] /\ request'[u] = request[u] /\ ttl'[u] = ttl[u] /\ late'[u] = late[u]
  BY DEF Comes, IInv, TypeOK
<1>2. TypeOK'
  BY DEF Comes, IInv, TypeOK, Labels
<1>3. Serving(s)' /\ Revoking(s)'
  BY <1>1 DEF Comes, Serving, Revoking
<1>4. late'[s] => r.token \in revoked /\ ~Admitted(s)'
  BY <1>1 DEF Comes, Admitted
<1>5. \A t \in Token : Held(t) => Held(t)'
  BY <1>1 DEF Held, LastSecond
<1> QED
  BY <1>1, <1>2, <1>3, <1>4, <1>5, OneRequest

LEMMA AskKeepsIInv ==
  ASSUME IInv, NEW s \in Sessions, Ask(s)
  PROVE  IInv'
<1>0. issued \subseteq Token /\ TypeOK
  BY DEF IInv, TypeOK
<1>1. ASSUME NEW u \in Users, Login(s, u) PROVE IInv'
  <2> DEFINE q == [op |-> "login", sub |-> u]
  <2>1. q \in Request
    BY DEF Request
  <2>2. Comes(s, q, "issue")
    BY <1>0, <1>1 DEF Login, Begin, Goto, Comes, TypeOK
  <2> QED
    BY <2>1, <2>2, ComesKeepsIInv
<1>2. ASSUME NEW t \in Token, Use(s, t) PROVE IInv'
  <2> DEFINE q == [op |-> "use", token |-> t]
  <2>1. q \in Request
    BY DEF Request
  <2>2. late' = [late EXCEPT ![s] = (t \in revoked)]
    BY <1>2, Zenon DEF Use, Begin
  <2>3. /\ late' \in [Sessions -> BOOLEAN]
        /\ \A u \in Sessions \ {s} : late'[u] = late[u]
        /\ late'[s] => t \in revoked
    BY <1>0, <2>2, LateFacts, Zenon
  <2>4. Comes(s, q, "check")
    BY <1>2, <2>3 DEF Use, Begin, Goto, Comes
  <2> QED
    BY <2>1, <2>4, ComesKeepsIInv
<1>3. ASSUME NEW t \in Token, Visit(s, t) PROVE IInv'
  <2> DEFINE q == [op |-> "visit", token |-> t]
  <2>1. q \in Request
    BY DEF Request
  <2>2. late' = [late EXCEPT ![s] = (t \in revoked)]
    BY <1>3, Zenon DEF Visit, Begin
  <2>3. /\ late' \in [Sessions -> BOOLEAN]
        /\ \A u \in Sessions \ {s} : late'[u] = late[u]
        /\ late'[s] => t \in revoked
    BY <1>0, <2>2, LateFacts, Zenon
  <2>4. Comes(s, q, "check")
    BY <1>3, <2>3 DEF Visit, Begin, Goto, Comes
  <2> QED
    BY <2>1, <2>4, ComesKeepsIInv
<1>4. ASSUME NEW t \in Token, Refresh(s, t) PROVE IInv'
  <2> DEFINE q == [op |-> "refresh", token |-> t]
  <2>1. q \in Request
    BY DEF Request
  <2>2. late' = [late EXCEPT ![s] = (t \in revoked)]
    BY <1>4, Zenon DEF Refresh, Begin
  <2>3. /\ late' \in [Sessions -> BOOLEAN]
        /\ \A u \in Sessions \ {s} : late'[u] = late[u]
        /\ late'[s] => t \in revoked
    BY <1>0, <2>2, LateFacts, Zenon
  <2>4. Comes(s, q, "check")
    BY <1>4, <2>3 DEF Refresh, Begin, Goto, Comes
  <2> QED
    BY <2>1, <2>4, ComesKeepsIInv
<1>5. ASSUME NEW t \in Token, NEW r \in Token, Logout(s, t, r) PROVE IInv'
  <2> DEFINE q == [op |-> "logout", token |-> t, refresh |-> r]
  <2>1. q \in Request
    BY DEF Request
  <2>2. late' = [late EXCEPT ![s] = (t \in revoked)]
    BY <1>5, Zenon DEF Logout, Begin
  <2>3. /\ late' \in [Sessions -> BOOLEAN]
        /\ \A u \in Sessions \ {s} : late'[u] = late[u]
        /\ late'[s] => t \in revoked
    BY <1>0, <2>2, LateFacts, Zenon
  <2>4. Comes(s, q, "check")
    BY <1>5, <2>3 DEF Logout, Begin, Goto, Comes
  <2> QED
    BY <2>1, <2>4, ComesKeepsIInv
<1> QED
  BY <1>0, <1>1, <1>2, <1>3, <1>4, <1>5 DEF Ask

-----------------------------------------------------------------------------
(* A step of session s that only moves it on. *)
LEMMA GoOnKeepsIInv ==
  ASSUME IInv, NEW s \in Sessions, NEW label \in Labels,
         Goto(s, label),
         request' = request, late' = late,
         ttl' \in [Sessions -> [access : Ttl, refresh : Ttl]],
         \A u \in Sessions \ {s} : ttl'[u] = ttl[u],
         UNCHANGED <<clock, issued, blacklist, revoked>>,
         label \notin {"idle", "check"},
         Serving(s)', Revoking(s)',
         late[s] => LastSecond(request[s].token)
  PROVE  IInv'
<1>1. pc'[s] = label /\ \A u \in Sessions \ {s} : pc'[u] = pc[u]
  BY DEF Goto, IInv, TypeOK
<1>2. TypeOK'
  BY DEF Goto, IInv, TypeOK
<1>3. \A t \in Token : Held(t) => Held(t)'
  BY DEF Held, LastSecond
<1>4. late'[s] => LastSecond(request[s].token)'
  BY DEF LastSecond
<1> QED
  BY <1>1, <1>2, <1>3, <1>4, OneRequest

(* A token that has been revoked is on the blacklist until its last second.*)
LEMMA CheckBlacklistKeepsIInv ==
  ASSUME IInv, NEW s \in Sessions, CheckBlacklist(s)
  PROVE  IInv'
<1>0. /\ pc[s] = "check" /\ UNCHANGED <<clock, issued, blacklist, revoked>>
      /\ issued \subseteq Token
  BY DEF CheckBlacklist, IInv, TypeOK
<1>1. CASE Answer(s)
  BY <1>0, <1>1, AnswerKeepsIInv
<1>2. CASE /\ ~is_blacklisted(request[s].token)
           /\ Goto(s, "read")
           /\ UNCHANGED <<request, ttl, late>>
  <2>1. request[s] \in Request /\ request[s].op # "login"
    BY <1>0 DEF IInv, Serving
  <2>2. request[s].token \in Token
    BY <2>1, TokenOf
  <2>3. /\ clock \in Nat /\ blacklist[request[s].token] \in Nat
        /\ clock >= blacklist[request[s].token]
        /\ request[s].token.exp \in Nat
    BY <1>2, <2>2, ClockIsNat, ExpOf DEF IInv, TypeOK, is_blacklisted
  <2>4. late[s] => Held(request[s].token)
    BY <1>0 DEF IInv
  <2>5. late[s] => LastSecond(request[s].token)
    BY <2>3, <2>4 DEF Held, LastSecond
  <2>6. pc'[s] = "read"
    BY <1>2 DEF Goto, IInv, TypeOK
  <2>7. Serving(s)' /\ Revoking(s)'
    BY <1>2, <2>1, <2>6 DEF Serving, Revoking
  <2>8. /\ "read" \in Labels
        /\ ttl' \in [Sessions -> [access : Ttl, refresh : Ttl]]
        /\ \A u \in Sessions \ {s} : ttl'[u] = ttl[u]
    BY <1>2 DEF IInv, TypeOK, Labels
  <2> QED
    BY <1>0, <1>2, <2>5, <2>7, <2>8, GoOnKeepsIInv
<1> QED
  BY <1>1, <1>2 DEF CheckBlacklist

LEMMA ReadUserKeepsIInv ==
  ASSUME IInv, NEW s \in Sessions, ReadUser(s)
  PROVE  IInv'
<1>0. /\ pc[s] = "read" /\ UNCHANGED <<clock, issued, blacklist, revoked>>
      /\ issued \subseteq Token
      /\ request[s] \in Request /\ request[s].op # "login"
      /\ late[s] => LastSecond(request[s].token)
  BY DEF ReadUser, IInv, TypeOK, Serving, LoggedOutIsRefused, Admitted
<1>1. CASE Answer(s)
  BY <1>0, <1>1, AnswerKeepsIInv
<1>2. CASE Goto(s, After[request[s].op]) /\ UNCHANGED <<request, ttl, late>>
  <2> DEFINE label == After[request[s].op]
  <2>1. /\ label \in {"inside", "issue", "revoke"}
        /\ label = "revoke" => request[s].op = "logout"
    BY <1>0 DEF After, Request
  <2>2. pc'[s] = label
    BY <1>2 DEF Goto, IInv, TypeOK
  <2>3. Serving(s)' /\ Revoking(s)'
    BY <1>0, <1>2, <2>1, <2>2 DEF Serving, Revoking
  <2>4. /\ label \in Labels /\ label \notin {"idle", "check"}
        /\ ttl' \in [Sessions -> [access : Ttl, refresh : Ttl]]
        /\ \A u \in Sessions \ {s} : ttl'[u] = ttl[u]
    BY <1>2, <2>1 DEF IInv, TypeOK, Labels
  <2> HIDE DEF label
  <2> QED
    BY <1>0, <1>2, <2>3, <2>4, GoOnKeepsIInv DEF label
<1> QED
  BY <1>1, <1>2 DEF ReadUser

(* What a logout measures is enough at that moment, hence at any later one.*)
LEMMA RevokeKeepsIInv ==
  ASSUME IInv, NEW s \in Sessions, Revoke(s)
  PROVE  IInv'
<1> DEFINE t == request[s].token
           r == request[s].refresh
<1>0. /\ pc[s] = "revoke" /\ UNCHANGED <<clock, issued, blacklist, revoked>>
      /\ issued \subseteq Token
      /\ request[s] \in Request /\ request[s].op = "logout"
      /\ late[s] => LastSecond(t)
  BY DEF Revoke, IInv, TypeOK, Serving, LoggedOutIsRefused, Admitted
<1>1. CASE Answer(s)
  BY <1>0, <1>1, AnswerKeepsIInv
<1>2. CASE /\ Valid(t) /\ Valid(r)
           /\ ttl' = [ttl EXCEPT ![s] = [access |-> Remaining(t), refresh |-> Remaining(r)]]
           /\ Goto(s, "access")
           /\ UNCHANGED <<request, late>>
  <2>1. t \in Token /\ r \in Token
    BY <1>0, RefreshOf
  <2>2. /\ Remaining(t) \in Ttl /\ Measured(t, Remaining(t))
        /\ Remaining(r) \in Ttl /\ Measured(r, Remaining(r))
    BY <1>2, <2>1, RemainingFacts DEF IInv
  <2>3. /\ pc'[s] = "access"
        /\ ttl' \in [Sessions -> [access : Ttl, refresh : Ttl]]
        /\ ttl'[s].access = Remaining(t) /\ ttl'[s].refresh = Remaining(r)
        /\ \A u \in Sessions \ {s} : ttl'[u] = ttl[u]
    BY <1>2, <2>2 DEF Goto, IInv, TypeOK
  <2>4. Serving(s)'
    BY <1>0, <1>2, <2>3 DEF Serving
  <2>5. Revoking(s)'
    BY <1>0, <1>2, <2>2, <2>3 DEF Revoking, Measured
  <2>6. "access" \in Labels
    BY DEF Labels
  <2> QED
    BY <1>0, <1>2, <2>3, <2>4, <2>5, <2>6, GoOnKeepsIInv
<1> QED
  BY <1>1, <1>2 DEF Revoke

(* A SETEX keeps what was held, and holds the token it names.              *)
LEMMA add_tokenFacts ==
  ASSUME TypeOK, NEW t \in Token, NEW seconds \in Ttl, clock' = clock,
         Measured(t, seconds), add_token(t, seconds)
  PROVE  /\ blacklist' \in [Token -> Nat]
         /\ Held(t)'
         /\ \A u \in Token : Held(u) => Held(u)'
<1>1. clock \in Nat /\ seconds \in Nat /\ blacklist \in [Token -> Nat] /\ t.exp \in Nat
  BY ClockIsNat, ExpOf, Spans DEF TypeOK, Ttl
<1>2. CASE seconds > 0
  <2>1. blacklist' = [blacklist EXCEPT ![t] = clock + 2 * seconds]
    BY <1>2 DEF add_token
  <2>2. blacklist' \in [Token -> Nat]
    BY <1>1, <2>1
  <2>3. blacklist'[t] >= 2 * t.exp - 1
    BY <1>1, <2>1 DEF Measured
  <2>4. \A u \in Token \ {t} : blacklist'[u] = blacklist[u]
    BY <1>1, <2>1
  <2> QED
    BY <2>2, <2>3, <2>4 DEF Held, LastSecond
<1>3. CASE seconds = 0
  <2>1. blacklist' = blacklist
    BY <1>3 DEF add_token
  <2>2. LastSecond(t)
    BY <1>1, <1>3 DEF Measured, LastSecond
  <2> QED
    BY <1>1, <2>1, <2>2 DEF Held, LastSecond
<1> QED
  BY <1>1, <1>2, <1>3

LEMMA AddAccessKeepsIInv ==
  ASSUME IInv, NEW s \in Sessions, AddAccess(s)
  PROVE  IInv'
<1> DEFINE t == request[s].token
<1>1. /\ TypeOK
      /\ pc[s] = "access" /\ UNCHANGED <<clock, issued, request, ttl, revoked, late>>
      /\ request[s] \in Request /\ request[s].op = "logout"
      /\ ttl[s].access \in Ttl
      /\ Measured(t, ttl[s].access) /\ Measured(request[s].refresh, ttl[s].refresh)
      /\ late[s] => LastSecond(t)
  BY DEF AddAccess, IInv, TypeOK, Serving, Revoking, LoggedOutIsRefused, Admitted
<1>2. t \in Token
  BY <1>1, RefreshOf
<1>3. /\ blacklist' \in [Token -> Nat]
      /\ Held(t)'
      /\ \A u \in Token : Held(u) => Held(u)'
  <2>1. add_token(t, ttl[s].access)
    BY DEF AddAccess
  <2> QED
    BY <1>1, <1>2, <2>1, add_tokenFacts
<1>4. pc'[s] = "refresh" /\ \A u \in Sessions \ {s} : pc'[u] = pc[u]
  BY <1>1 DEF AddAccess, Goto, TypeOK
<1>5. TypeOK'
  BY <1>1, <1>3 DEF AddAccess, Goto, TypeOK, Labels
<1>6. Serving(s)' /\ Revoking(s)'
  BY <1>1, <1>3, <1>4 DEF Serving, Revoking, Measured
<1>7. late'[s] => LastSecond(request[s].token)'
  BY <1>1 DEF LastSecond
<1> QED
  BY <1>1, <1>3, <1>4, <1>5, <1>6, <1>7, OneRequest

(* The answer of a logout finds both its tokens held. *)
LEMMA AddRefreshKeepsIInv ==
  ASSUME IInv, NEW s \in Sessions, AddRefresh(s)
  PROVE  IInv'
<1>1. /\ TypeOK
      /\ pc[s] = "refresh" /\ UNCHANGED <<clock, issued>>
      /\ request[s] \in Request /\ request[s].op = "logout"
      /\ ttl[s].refresh \in Ttl
  BY DEF AddRefresh, IInv, TypeOK, Serving
<1>2. PICK t \in Token, r \in Token : t = request[s].token /\ r = request[s].refresh
  BY <1>1, RefreshOf
<1>3. /\ Answer(s) /\ revoked' = revoked \cup {t, r}
      /\ Held(t) /\ Measured(r, ttl[s].refresh)
  BY <1>1, <1>2 DEF AddRefresh, IInv, Revoking
<1>4. /\ blacklist' \in [Token -> Nat]
      /\ Held(r)'
      /\ \A u \in Token : Held(u) => Held(u)'
  <2>1. add_token(r, ttl[s].refresh)
    BY <1>2 DEF AddRefresh
  <2> QED
    BY <1>1, <1>3, <2>1, add_tokenFacts
<1>5. TypeOK'
  BY <1>1, <1>3, <1>4, AnswerFacts DEF TypeOK
<1>6. \A u \in revoked' \ revoked : Held(u)'
  BY <1>3, <1>4
<1> QED
  BY <1>1, <1>3, <1>4, <1>5, <1>6, AnswerFacts, OneRequest

LEMMA StepKeepsIInv ==
  ASSUME IInv, NEW s \in Sessions, Step(s)
  PROVE  IInv'
<1>1. CASE Issue(s)
  <2>1. Subject(s) \in Users
    <3>1. request[s] \in Request
      BY <1>1 DEF Issue, IInv, Serving
    <3>2. CASE request[s].op = "login"
      BY <3>1, <3>2 DEF Subject, Request
    <3>3. CASE request[s].op # "login"
      BY <3>1, <3>3, TokenOf DEF Subject, Token
    <3> QED
      BY <3>2, <3>3
  <2>2. issued' \subseteq Token
    BY <1>1, <2>1, NewTokens DEF Issue, IInv, TypeOK
  <2> QED
    BY <1>1, <2>2, AnswerKeepsIInv DEF Issue
<1>2. CASE Serve(s) \/ StepFails(s)
  BY <1>2, AnswerKeepsIInv DEF Serve, StepFails, IInv, TypeOK
<1> QED
  BY <1>1, <1>2, CheckBlacklistKeepsIInv, ReadUserKeepsIInv, RevokeKeepsIInv,
     AddAccessKeepsIInv, AddRefreshKeepsIInv DEF Step

(* Time passes: what drops off the blacklist is in its last second.        *)
LEMMA TickKeepsIInv ==
  ASSUME IInv, Tick
  PROVE  IInv'
<1>1. /\ clock \in Nat /\ clock' = clock + 1 /\ clock' \in 0 .. MaxTime
      /\ \A t \in Token : /\ blacklist[t] \in Nat /\ t.exp \in Nat
                         /\ blacklist'[t] = IF blacklist[t] <= clock' THEN 0 ELSE blacklist[t]
      /\ UNCHANGED <<issued, pc, request, ttl, revoked, late>>
  BY ClockIsNat, ExpOf, Spans DEF Tick, IInv, TypeOK
<1>2. blacklist' \in [Token -> Nat]
  BY <1>1 DEF Tick
<1>3. TypeOK'
  BY <1>1, <1>2 DEF IInv, TypeOK
<1>4. ASSUME NEW t \in Token, Held(t) PROVE Held(t)'
  BY <1>1, <1>4 DEF Held, LastSecond
<1>5. ASSUME NEW t \in Token, LastSecond(t) PROVE LastSecond(t)'
  BY <1>1, <1>5 DEF LastSecond
<1>6. ASSUME NEW t \in Token, NEW n \in Ttl, Measured(t, n) PROVE Measured(t, n)'
  BY <1>1, <1>6, Spans DEF Measured, Ttl
<1>7. ASSUME NEW s \in Sessions PROVE Serving(s)' /\ Revoking(s)'
  <2>1. Serving(s) /\ Revoking(s)
    BY DEF IInv
  <2>2. Serving(s)'
    BY <1>1, <2>1 DEF Serving
  <2>3. pc[s] \in {"access", "refresh"} => request[s].token \in Token /\ request[s].refresh \in Token
    BY <2>1, RefreshOf DEF Serving
  <2>4. ttl[s].access \in Ttl /\ ttl[s].refresh \in Ttl
    BY DEF IInv, TypeOK
  <2>5. pc[s] = "access" => Measured(request[s].token, ttl[s].access)'
    BY <1>1, <1>6, <2>1, <2>3, <2>4 DEF Revoking, Measured
  <2>6. pc[s] = "refresh" => Held(request[s].token)'
    BY <1>1, <1>4, <2>1, <2>3 DEF Revoking, Held, LastSecond
  <2>7. pc[s] \in {"access", "refresh"} => Measured(request[s].refresh, ttl[s].refresh)'
    BY <1>1, <1>6, <2>1, <2>3, <2>4 DEF Revoking, Measured
  <2> QED
    BY <1>1, <2>2, <2>5, <2>6, <2>7 DEF Revoking, Measured, Held, LastSecond
<1>8. LoggedOutIsRefused'
  <2> SUFFICES ASSUME NEW s \in Sessions, late[s], Admitted(s)
               PROVE  LastSecond(request[s].token)'
    BY <1>1 DEF LoggedOutIsRefused, Admitted, LastSecond
  <2>1. LastSecond(request[s].token)
    BY DEF IInv, LoggedOutIsRefused
  <2>2. request[s].token \in Token
    BY TokenOf DEF IInv, Serving, Admitted
  <2> QED
    BY <1>1, <1>5, <2>1, <2>2 DEF LastSecond
<1>9. \A t \in revoked' : Held(t)'
  BY <1>1, <1>4 DEF IInv, TypeOK
<1>10. \A s \in Sessions : late'[s] /\ pc'[s] = "check" => request'[s].token \in revoked'
  BY <1>1 DEF IInv
<1> QED
  BY <1>3, <1>7, <1>8, <1>9, <1>10 DEF IInv

LEMMA NextIInv == IInv /\ [Next]_vars => IInv'
<1> SUFFICES ASSUME IInv, [Next]_vars PROVE IInv'
  OBVIOUS
<1>1. CASE UNCHANGED vars
  BY <1>1 DEF vars, IInv, TypeOK, Held, LastSecond, Serving, Revoking, Measured,
     LoggedOutIsRefused, Admitted
<1> QED
  BY <1>1, TickKeepsIInv, AskKeepsIInv, StepKeepsIInv DEF Next

-----------------------------------------------------------------------------
(* The inductive invariant: revoked tokens are held, and what a logout in  *)
(* progress has measured will hold its tokens.                             *)
THEOREM Invariance == Spec => []IInv
BY InitIInv, NextIInv, PTL DEF Spec

(* Every variable keeps its type; in particular no time to live leaves the *)
(* range of whole seconds a token can have left (AuthService.logout).      *)
THEOREM TypeCorrect == Spec => []TypeOK
<1>1. IInv => TypeOK
  BY DEF IInv
<1> QED
  BY <1>1, Invariance, PTL

(* Once a logout has been answered, neither of its tokens lets a later     *)
(* request in before the last second of its life, for any lives of tokens  *)
(* and any number of requests (AuthService.logout, TokenBlacklist).        *)
THEOREM LoggedOut == Spec => []LoggedOutIsRefused
<1>1. IInv => LoggedOutIsRefused
  BY DEF IInv
<1> QED
  BY <1>1, Invariance, PTL
=============================================================================
