SPECIFICATION Spec
CONSTANTS
  NoSid = NoSid
  Sid = {s1}
  Req = {r1}
  Goals = {"login", "refresh", "reset"}
  AccessTTL = 1
  RefreshTTL = 2
  BlacklistTTL = 2
  IndexSlack = 1
  MaxNow = 2
  MaxErrors = 0
SYMMETRY Symmetry
CHECK_DEADLOCK FALSE
INVARIANTS
  PasswordChangeEndsSessions
