SPECIFICATION AllSpec
CONSTANTS
  Req = {r1, r2}
  None = None
  MaxRequests = 4
  MaxErrors = 1
  MaxSessions = 2
  Code = {c1, c2}
  Scope = {"openid", "offline_access", "roles"}
  DefaultScopes = {"openid"}
  Role = {member, editor}
  System = {member}
  Perm = {p1}
  Rule = {allowed, blocked}
  Allow = {allowed}
  Matching = {allowed, blocked}
  User = {u1, u2}
  Address = {a1, a2}
  Agent = {g1}
  CountryOf <- Country
  Checks = {"address", "agent", "country", "hour"}
  Notify = {"brute_force", "new_device", "geo_change"}
  SessionWindow = 1
  Limit = 1
  BruteForceThreshold = 2
  HoursPerTick = 12
  MaxTime = 1
SYMMETRY Symmetry
CHECK_DEADLOCK FALSE
INVARIANTS
  
  
  NoveltyReported
PROPERTIES
  CodesAreOneTime
