SPECIFICATION AllSpec
CONSTANTS
  Req = {r1, r2}
  None = None
  MaxRequests = 4
  MaxErrors = 1
  LockoutThreshold = 3
  CaptchaThreshold = 1
  LockoutWindow = 2
  LockoutDurations <- Durations
  LockoutTierTTL = 2
  DelayStartAfter = 1
  DelayMaxSeconds = 2
  DelayTierTTL = 1
  IntBits = 10
  MaxDelayTier = 1
  MaxNow = 2
  Entry = {x1, x2}
  MaxAttempts = 1
  Window = 1
  LockoutDuration = 1
  Grace = 1
  MaxOutages = 1
  Phone = {x1, x2}
  Backup = {b1}
  Secret = {s1}
  Temp = {x1, x2}
  Agent = {a1}
  BatchSize = 1
  MaxBatches = 2
  MaxMails = 2
  MaxDevices = 2
  User = {u1}
  Admin = {a1}
  Passkey = {k1}
  MaxChallenges = 3
  MaxSigned = 2
  MaxChanges = 1
SYMMETRY Symmetry
CHECK_DEADLOCK FALSE
INVARIANTS
  GuessesLimited
  WindowLimit
  VerifiedByOwner
  FactorsOnce
  PasskeysOnce
PROPERTIES
  LockHolds
  CountGrows
