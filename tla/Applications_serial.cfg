\* One request at a time: the next starts when the last has been served.
CONSTANTS
  company = company
  Ids = {a1, a2}
  Opportunities = {o1}
  Applicants = {p1, p2}
  Sessions = {s1}
  Comments = {t1}
  NoComment = NoComment
  Companies <- OneCompany
  CompanyOf <- OwnedByOne
  NoApplication = NoApplication
  NoRequest = NoRequest
SPECIFICATION Spec
PROPERTIES
  FollowsLifecycle
