SPECIFICATION Spec
CONSTANTS
  Caller = {c1, c2}
  Poller = {p1, p2}
  Revoker = {r1, r2}
  Issuer = issuer
  None = None
  MaxRequests = 2
  SessionTtl = 2
  DeviceTtl = 1
  PollInterval = 1
  TokenLives = {1, 3}
  Skew = 1
  Horizon = 3
  MaxEvictions = 1
SYMMETRY Symmetry
INVARIANTS
  TypeOK
  BudgetHolds
  RevocationIsFinal
  RefreshTokenUsedOnce
  OneGuestToken
PROPERTIES
  NoCallAfterRevocation
CHECK_DEADLOCK FALSE
