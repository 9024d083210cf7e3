\* Two requests and an administrator, one account, three passwords.
CONSTANTS
  User = {herm}
  Client = {phone}
  Request = {r1, r2}
  Admin = {a1}
  Token = {k1, k2}
  NoSession = NoSession
  MaxAttempts = 2
  Window = 2
  MaxPassword = 2
SPECIFICATION Spec
SYMMETRY Symmetry
INVARIANTS
  GuessesAreBounded
  SessionsAreAccountedFor
  LatestPasswordOpens
  OwesAChange
PROPERTIES
  LockoutEnds
