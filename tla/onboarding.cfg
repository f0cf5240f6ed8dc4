SPECIFICATION Spec
CONSTANTS
  f1 = f1
  f2 = f2
  Chain = {f1, f2}
  Main = Main
  Script <- MCScript
  MaxRecoveries = 2
  MaxCapabilities = 2
  MaxMishaps = 2
INVARIANTS
  TypeOK
PROPERTIES
  WizardStartsWithModel
  DoneIsConfigured
  PageComesToRest
CHECK_DEADLOCK FALSE
