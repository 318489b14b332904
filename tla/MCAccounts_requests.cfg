SPECIFICATION Spec
CONSTANTS
  None = None
  Email = {e1, e2}
  Home = e1
  Password = {p1, p2, p3}
  Token = {t1, t2, t3}
  Req = {r1, r2}
  Goals = {"register", "verify", "resend", "email", "sendLink", "linkLogin", "login", "sendReset", "reset", "change", "initial", "delete", "toggle"}
  HistoryCount = 2
  MaxRequests = 4
  MaxErrors = 1
SYMMETRY Symmetry
CHECK_DEADLOCK FALSE
INVARIANTS
  TypeOK
  TokensOnce
  VerifiedAddress
  NoRecentReuse
  
