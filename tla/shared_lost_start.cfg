SPECIFICATION FairSpec
CONSTANTS
  Tab = {t1, t2}
  Request = {r1, r2}
  Session = {s1}
  Answer = {a1}
  MaxCached = 1
  None = None
  Methods = {"wizard.start"}
  Crashes = FALSE
  RpcTimeouts = FALSE
PROPERTY StartIsAnsweredByReadyOwner
CHECK_DEADLOCK FALSE
