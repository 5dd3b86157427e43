\* One request at a time, no failures, two places.
CONSTANTS
  Profiles = {p1, p2, p3, p4}
  Sessions = {s1}
  Limits = {2}
  MaxArrivals = 6
  Failing <- NoStep
  NoRegistration = NoRegistration
  NoProfile = NoProfile
SPECIFICATION Spec
INVARIANTS
  NobodyWaitsForFreePlace
