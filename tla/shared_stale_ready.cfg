SPECIFICATION Spec
CONSTANTS
  Tab = {t1, t2}
  Request = {r1}
  Session = {s1}
  Answer = {a1}
  MaxCached = 1
  None = None
  Methods = {"wizard.start"}
  Crashes = FALSE
  RpcTimeouts = FALSE
SYMMETRY Symmetry
INVARIANT ReadyIsTheOwners
CHECK_DEADLOCK FALSE
