SPECIFICATION AllSpec
CONSTANTS
  Req = {r1, r2}
  User = {u1, u2}
  None = None
  MaxErrors = 1
  Provider = {"google", "facebook", "github"}
  Token = {t1}
  MaxRequests = 4
  MaxChanges = 1
  App = {a1, a2}
  Account = {a1, a2}
  Detectors = {"listener"}
  MaxSessions = 2
  MaxEvents = 1
SYMMETRY Symmetry
CHECK_DEADLOCK FALSE
INVARIANTS
  OwnersIn
  
PROPERTIES
  SSOTokensAreOneTime
