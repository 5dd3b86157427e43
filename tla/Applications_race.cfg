\* Two requests at a time, two create attempts on the same opportunity.
CONSTANTS
  company = company
  Ids = {a1, a2}
  Opportunities = {o1}
  Applicants = {p1}
  Sessions = {s1, s2}
  Comments = {t1, t2}
  NoComment = NoComment
  Companies <- OneCompany
  CompanyOf <- OwnedByOne
  NoApplication = NoApplication
  NoRequest = NoRequest
SPECIFICATION Spec
SYMMETRY Symmetry
INVARIANTS
  TypeOK
  OneApplicationPerPair
  StampsMatchStatus
  TimelineStarted
  EmployerToldOfEveryApplication
PROPERTIES
  OnlyRequestedColumns
