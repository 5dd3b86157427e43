\* Two requests at a time, of one user or of two, over two opportunities.
CONSTANTS
  o1 = o1
  o2 = o2
  c1 = c1
  Users = {u1, u2}
  Opportunities = {o1, o2}
  Companies = {c1}
  Sessions = {s1, s2}
  SyncLists <- TwoLists
  MaxCount = 2
  Failing <- SomeSteps
  NoRequest = NoRequest
SPECIFICATION Spec
SYMMETRY Symmetry
INVARIANTS
  TypeOK
  CounterFollowsRows
PROPERTIES
  SyncAnswersStored
