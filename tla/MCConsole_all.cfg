SPECIFICATION AllSpec
CONSTANTS
  Req = {r1, r2}
  None = None
  MaxRequests = 4
  MaxSmall = 3
  MaxErrors = 1
  App = {a1}
  MaxServers = 3
  StepKm = 2
  MaxKm = 4
  MaxTime = 5
  Order = {"o1", "o2"}
  SparePart = {"p1", "p2"}
  Stock = 2
  Items <- Lists
  ApiKey = {k1}
  EarlyDays = 2
  LastTime = 6
  MaxCalls = 1
  Tenant = {t1}
  DefaultApp = a1
  DefaultTenant = t1
  Pair = {x1, x2}
  Default = Default
  MaxIds = 5
  Mailbox = {"m1", "m2"}
  File <- Files
  MaxUsers = 3
  SettingKey = {"cookie", "hours"}
  Cookie = "cookie"
  TypeOf <- Types
  Value = {"strict", "none", "7"}
  Valid <- ValidValues
  DefaultValue <- Defaults
  Release = FALSE
  MaxRestarts = 2
  LogRow = {x1, x2}
  Forcer = {f1}
  Worker = Worker
  CleanupBatchSize = 1
  MaxRuns = 1
SYMMETRY Symmetry
CHECK_DEADLOCK FALSE
INVARIANTS
  ServersKept
  AlertsMatch
  PartsBalance
  KeysKept
  
  WaysInGuarded
  
  SettingsAgree
  CleanupsSound
