SPECIFICATION Spec
CONSTANTS
  Req = {r1, r2}
  Code = {c1, c2}
  Scope = {"openid", "offline_access", "roles"}
  DefaultScopes = {"openid"}
  MaxSessions = 3
  MaxRequests = 4
  MaxErrors = 0
  None = None
SYMMETRY Symmetry
CHECK_DEADLOCK FALSE
INVARIANTS RefreshedOnce
