SPECIFICATION Spec
CONSTANTS
  App = {a, b}
  Account = {a, b}
  Req = {r1, r2}
  Token = {t1}
  Detectors = {"scanner"}
  MaxSessions = 2
  MaxRequests = 2
  MaxEvents = 0
  None = None
CHECK_DEADLOCK FALSE
PROPERTIES GroupLogoutCompletes
