SPECIFICATION Spec
CONSTANTS
  Caller = {}
  Poller = {p1}
  Revoker = {}
  Issuer = issuer
  None = None
  MaxRequests = 1
  SessionTtl = 1
  DeviceTtl = 1
  PollInterval = 1
  TokenLives = {1}
  Skew = 1
  Horizon = 2
  MaxEvictions = 1
INVARIANT RecordExpires
CHECK_DEADLOCK FALSE
