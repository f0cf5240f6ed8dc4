SPECIFICATION Spec
CONSTANTS
  Rank <- Ranks
  Scripts = 2
  i1 = i1
  i2 = i2
  Leaves <- InstallOf
  db = db
  app = app
  config = config
  d1 = d1
  d2 = d2
  Client = {d1, d2}
  Installed = {db, app}
  File = {db, app, config}
  Database = db
  Config = config
  Installation = {i1, i2}
  Settings = settings
  Live = live
  Content = {i1, i2, settings, live}
  None = None
  Torn = Torn
  Damaged = Damaged
  MaxGenerations = 2
  MaxDamages = 1
  MaxClientAttempts = 2
  MaxMishaps = 1
  Launches <- Pairs
INVARIANTS
  TypeOK
  HeadIsComplete
  GatewayStartsWhole
  NoLiveStateSaved
PROPERTIES
  StoreIsAtomic
  WaitingTabsBoot
CHECK_DEADLOCK FALSE
