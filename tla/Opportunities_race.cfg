\* Two requests at a time, employer and curators, on one opportunity.
CONSTANTS
  Skills = {k1, k2}
  Sessions = {s1, s2}
  NoRequest = NoRequest
SPECIFICATION Spec
SYMMETRY Symmetry
INVARIANTS
  TypeOK
  StatusAgreesWithFlag
  VerdictBeforeNotice
PROPERTIES
  ReturnsOnlyByApproval
  FoundSkillsAreGone
