SPECIFICATION Spec
CONSTANTS
  c1 = c1
  c2 = c2
  wrong = wrong
  Call = {c1, c2, wrong}
  Good = {c1, c2}
  None = None
  Torn = Torn
  MaxFailures = 1
INVARIANTS
  TypeOK
  AnswersAreRight
  RepeatedOnlyAfterFailure
  ResponsesAreCollected
PROPERTIES
  MailboxDrains
  StopReturns
CHECK_DEADLOCK FALSE
