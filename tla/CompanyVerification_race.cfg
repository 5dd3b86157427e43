CONSTANTS
  Employers = {e1, e2}
  Inns = {i1, i2, unknown}
  KnownInns = {i1, i2}
  Tokens = {t1}
  Documents = {}
  Sessions = {s1, s2}
  NoToken = NoToken
  NoRow = NoRow
  NoRequest = NoRequest
SPECIFICATION Spec
SYMMETRY Symmetry
INVARIANTS TypeOK OneCompanyPerOwnerAndInn InnWasLookedUp RegisteredWithVerification
PROPERTY VerdictIsAnnounced
