SPECIFICATION AllSpec
CONSTANTS
  Message = {e1, e2}
  Endpoint = {w1}
  MaxAttempts = 2
  PollLimit = 1
  MaxDeliveries = 5
  MaxToggles = 1
  MaxErrors = 1
  MaxCrashes = 1
  Entry = {x1, x2, x3}
  Capacity = 2
  MaxRetries = 2
  MaxFailures = 3
  NoEntry = NoEntry
  LogRow = {x1, x2}
  Forcer = {f1}
  Cleaner = Cleaner
  CleanupBatchSize = 1
  MaxRuns = 1
  App = {a, b}
  Account = {a, b}
  Req = {r1, r2}
  Token = {}
  Detectors = {"listener", "scanner"}
  MaxSessions = 2
  MaxRequests = 3
  MaxEvents = 0
  None = None
  Window = 2
  LockoutThreshold = 3
  LockoutDuration = 2
  Grace = 2
  MaxOutages = 0
CHECK_DEADLOCK FALSE
INVARIANTS
  AttemptsSound
  EntriesKept
PROPERTIES
  DeliveriesEnd
  QueueServed
  CleanupsFinish
  
  LetInAgain
