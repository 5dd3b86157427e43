\* Two requests at a time while settings change, with failures of every step that the code goes on after.
CONSTANTS
  employer = employer
  curator = curator
  applicant = applicant
  Users = {employer, curator, applicant}
  Role <- OneOfEach
  Ids = {r1}
  Patches <- HideOrOpen
  Sessions = {s1, s2}
  Failing <- EveryStep
  NoRow = NoRow
  NoRequest = NoRequest
SPECIFICATION Spec
SYMMETRY Symmetry
INVARIANTS
  TypeOK
  StoredIsAnnounced
  RecommendedByContacts
  ShownByConsent
