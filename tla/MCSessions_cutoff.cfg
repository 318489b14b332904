SPECIFICATION Spec
CONSTANTS
  NoSid = NoSid
  Sid = {s1}
  Req = {r1, r2}
  Goals = {"login", "refresh", "serve", "password", "delete", "adminAll", "reset", "adminOne"}
  AccessTTL = 3
  RefreshTTL = 3
  BlacklistTTL = 3
  IndexSlack = 0
  MaxNow = 3
  MaxErrors = 0
SYMMETRY Symmetry
CHECK_DEADLOCK FALSE
INVARIANTS
  
  HashOutlivesToken
