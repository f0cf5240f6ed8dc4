SPECIFICATION Spec
CONSTANTS
  Tab = {t1, t2}
  Request = {r1, r2, r3}
  Session = {s1, s2}
  Answer = {a1}
  MaxCached = 1
  None = None
  Methods = {"wizard.start", "wizard.next", "wizard.cancel", None}
  Crashes = TRUE
  RpcTimeouts = TRUE
SYMMETRY Symmetry
INVARIANTS
  TypeOK
  CoordinatorInv
  SingleRuntime
CHECK_DEADLOCK FALSE
