\* Two requests at a time over one place or two, with database failures.
CONSTANTS
  Profiles = {p1, p2, p3}
  Sessions = {s1, s2}
  Limits = {1, 2}
  MaxArrivals = 4
  Failing <- AnyStep
  NoRegistration = NoRegistration
  NoProfile = NoProfile
SPECIFICATION Spec
SYMMETRY Symmetry
INVARIANTS
  TypeOK
  CounterNeverOverstates
  SpotNoticeFollowsPromotion
PROPERTIES
  PromotionHitsPickedRow
  NobodyOvertaken
