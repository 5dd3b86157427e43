CONSTANTS
  Employers = {e1, e2}
  Inns = {i1, i2}
  KnownInns = {i1, i2}
  Tokens = {t1}
  Documents = {d1, d2}
  Sessions = {s1}
  NoToken = NoToken
  NoRow = NoRow
  NoRequest = NoRequest
SPECIFICATION Spec
INVARIANT StatusesAgree
PROPERTY FollowsVerificationLifecycle
