SPECIFICATION BoundedSpec
CONSTANTS
  attach = attach
  configure = configure
  again = again
  wizard = wizard
  k = k
  Attach = {attach}
  Configure = {configure, again}
  Rpc = {wizard}
  Capability = {k}
  CapabilityOf <- Attached
  None = None
  MaxProbes = 2
  MaxWrites = 1
  MaxMishaps = 1
INVARIANTS
  TypeOK
  ConfiguredIsActive
  ExecutedOnce
PROPERTIES
  SettingsSurvive
  EveryOperationAnswered
CHECK_DEADLOCK FALSE
