\* Two requests at a time; an access token lives one second, a refresh token two.
CONSTANTS
  Users = {u1}
  Sessions = {s1, s2}
  AccessLife = 1
  RefreshLife = 2
  MaxTime = 4
  Failing <- EveryStep
  NoRequest = NoRequest
SPECIFICATION Spec
SYMMETRY Symmetry
INVARIANTS
  TypeOK
  LoggedOutIsRefused
