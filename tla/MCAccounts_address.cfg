SPECIFICATION Spec
CONSTANTS
  None = None
  Email = {e1, e2, e3}
  Home = e1
  Password = {p1}
  Token = {t1, t2}
  Req = {r1, r2}
  Goals = {"verify", "email"}
  HistoryCount = 2
  MaxRequests = 3
  MaxErrors = 0
CHECK_DEADLOCK FALSE
INVARIANTS
  NewAddressIsVerified
