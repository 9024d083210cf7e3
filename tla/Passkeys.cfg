\* Two users, two phones of which one counts its signatures, four challenges.
CONSTANTS
  User = {u1, u2}
  Phone = {p1, p2}
  Nobody = Nobody
  Counting = {p1}
  ChallengeTTL = 1
  Window = 1
  MaxChallenge = 4
SPECIFICATION Spec
INVARIANTS
  OneUse
  ScansAreFresh
PROPERTIES
  ImplementsRecentProof
