SPECIFICATION Spec
CONSTANTS
  Tab = {t1, t2}
  Request = {r1, r2, r3, r4}
  Session = {s1}
  Answer = {a1, a2}
  MaxCached = 1
  None = None
  Methods = {"wizard.start", "wizard.next", "wizard.cancel"}
  Crashes = FALSE
  RpcTimeouts = FALSE
SYMMETRY Symmetry
INVARIANTS
  RepliesMatchCalls
  AnswerAppliedOnce
  SnapshotIsCurrent
CHECK_DEADLOCK FALSE
