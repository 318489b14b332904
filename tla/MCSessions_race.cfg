SPECIFICATION Spec
CONSTANTS
  NoSid = NoSid
  Sid = {s1, s2}
  Req = {r1, r2}
  Goals = {"login", "refresh", "logout", "revoke", "others"}
  AccessTTL = 1
  RefreshTTL = 1
  BlacklistTTL = 1
  IndexSlack = 1
  MaxNow = 1
  MaxErrors = 1
SYMMETRY Symmetry
CHECK_DEADLOCK FALSE
INVARIANTS
  RevivedOnlyByRace
  TypeOK
  KeysExpire
