------------------------------ MODULE Sessions ------------------------------
(***************************************************************************)
(* Redis-backed sessions of one user in one application: internal/redis    *)
(* (session keys and blacklists), internal/session (service and handlers)  *)
(* and the authentication middleware that reads them.                      *)
(*                                                                         *)
(* HTTP handlers run concurrently and share nothing but Redis, whose       *)
(* commands are atomic, so every handler is a request slot that takes one  *)
(* Redis command per step.  A request that stops for ever stands for a     *)
(* process that crashed.  Time is a clock of whole seconds, the resolution *)
(* of the JWT claims; Redis drops a key at the instant its TTL ends.       *)
(*                                                                         *)
(* A token pair (access and refresh token) is <<sid, iat>>: a JWT carries  *)
(* no nonce, so two pairs of a session made in the same second are equal.  *)
(***************************************************************************)
EXTENDS Integers, FiniteSets

CONSTANTS
  Sid,           \* session identifiers (UUIDs), each handed out once
  Req,           \* slots for requests being served at the same time
  Goals,         \* the kinds of request this instance serves
  AccessTTL,     \* ACCESS_TOKEN_EXPIRATION_MINUTES
  RefreshTTL,    \* REFRESH_TOKEN_EXPIRATION_HOURS, also the session's TTL
  BlacklistTTL,  \* the 30 days of a user-wide blacklist entry
  IndexSlack,    \* the 24 hours the user index outlives a new session by
  MaxNow,        \* bound: the clock stops here
  MaxErrors,     \* bound: Redis commands that fail
  NoSid          \* no session identifier

ProtectedGoals == {"serve", "logout", "revoke", "others", "password", "delete"}
OpenGoals == {"login", "refresh", "reset", "adminOne", "adminAll"}

ASSUME SessionsAssumption ==
  /\ NoSid \notin Sid
  /\ Goals \subseteq ProtectedGoals \cup OpenGoals
  /\ AccessTTL \in Nat \ {0} /\ RefreshTTL \in Nat \ {0}
  /\ BlacklistTTL \in Nat /\ BlacklistTTL >= AccessTTL
  /\ IndexSlack \in Nat /\ MaxNow \in Nat /\ MaxErrors \in Nat

VARIABLES
  now,       \* the clock
  hash,      \* app:{app}:session:{sid}
  index,     \* app:{app}:user_sessions:{user}
  meta,      \* session_meta:{app}:{user}:{sid}, the instant it expires
  userBl,    \* app:{app}:blacklist_user:{user}, the instant it expires
  tokenBl,   \* app:{app}:blacklist_token:{token}
  issued,    \* token pairs returned to the client
  req,       \* the state of every request slot
  errors,    \* Redis commands that have failed so far
  used,      \* history: identifiers handed out
  ended,     \* history: sessions that were deleted or expired
  raced,     \* history: those that ended while a refresh was past its check
  cut        \* history: instant of the last user-wide revocation in force

redisVars == <<hash, index, meta, userBl, tokenBl>>
history == <<used, ended, raced, cut>>
vars == <<now, redisVars, issued, req, errors, history>>

Time == 0 .. MaxNow
Pair == Sid \X Time

(***************************************************************************)
(* A key that is absent expires at 0, one without a TTL at Forever.        *)
(***************************************************************************)
Forever == MaxNow + RefreshTTL + IndexSlack + BlacklistTTL + 1

NoToken == -1
Hash == [user : BOOLEAN, token : Time \cup {NoToken}, exp : 0 .. Forever]
Gone == [user |-> FALSE, token |-> NoToken, exp |-> 0]
Live(s) == hash[s].exp # 0

EmptyIndex == [members |-> {}, exp |-> 0]

CreateSteps == {"create_hash", "create_expire", "create_index",
                "create_meta", "clear_blacklist"}
RefreshSteps == {"refresh_set", "refresh_expire", "refresh_touch"}
AuthSteps == {"auth_user", "auth_session"}
DeleteSteps == {"del_hash", "del_index"}
DeleteAllSteps == {"list", "del_each", "drop_index", "keep_index"}
Steps == {"idle", "bl_token", "bl_user"} \cup CreateSteps \cup RefreshSteps
           \cup AuthSteps \cup DeleteSteps \cup DeleteAllSteps

Request ==
  [ pc     : Steps,
    goal   : Goals \cup {"none"},
    sid    : Sid \cup {NoSid},      \* session of the presented or new token
    iat    : Time \cup {NoToken},   \* the presented token
    fresh  : Time \cup {NoToken},   \* the pair generated by this request
    target : Sid \cup {NoSid},      \* session to delete, or to keep
    todo   : SUBSET Sid,            \* sessions still to delete
    cut    : Time \cup {NoToken} ]  \* history: cut when userBl was read

Idle == [pc |-> "idle", goal |-> "none", sid |-> NoSid, iat |-> NoToken,
         fresh |-> NoToken, target |-> NoSid, todo |-> {}, cut |-> NoToken]

Init ==
  /\ now = 0
  /\ hash = [s \in Sid |-> Gone]
  /\ index = EmptyIndex
  /\ meta = [s \in Sid |-> 0]
  /\ userBl = 0
  /\ tokenBl = {}
  /\ issued = {}
  /\ req = [r \in Req |-> Idle]
  /\ errors = 0
  /\ used = {} /\ ended = {} /\ raced = {}
  /\ cut = NoToken

-----------------------------------------------------------------------------
(* Redis commands on a session's hash.                                     *)

\* HSET creates the key, without a TTL, when it does not exist.
HSet(s, h) == IF Live(s) THEN h ELSE [h EXCEPT !.exp = Forever]

\* Mutants of Expire: the command is forgotten; its unit is mistaken.
ExpireForgotten(s) == hash
ExpireInWrongUnit(s) ==
  IF Live(s) THEN [hash EXCEPT ![s].exp = now + 60 * Forever] ELSE hash

\* EXPIRE does nothing to a key that does not exist.
Expire(s) ==
  IF Live(s) THEN [hash EXCEPT ![s].exp = now + RefreshTTL] ELSE hash

Begin(r, step, goal, sid, iat, fresh, target) ==
  req' = [req EXCEPT ![r] =
            [pc |-> step, goal |-> goal, sid |-> sid, iat |-> iat, fresh |-> fresh,
             target |-> target, todo |-> {}, cut |-> NoToken]]
Goto(r, step) == req' = [req EXCEPT ![r].pc = step]
Finish(r) == req' = [req EXCEPT ![r] = Idle]
Proceed(r, step) == IF step = "idle" THEN Finish(r) ELSE Goto(r, step)

\* Requests that will still write session s's hash because of a check made earlier.
Refreshing(s) == {r \in Req : req[r].pc \in RefreshSteps /\ req[r].sid = s}

End(S) ==
  /\ ended' = ended \cup S
  /\ raced' = raced \cup {s \in S : Refreshing(s) # {}}

-----------------------------------------------------------------------------
(* session.Service.CreateSession: any handler that has checked credentials. *)

Login(r, s) ==
  /\ "login" \in Goals
  /\ req[r].pc = "idle" /\ s \notin used
  /\ used' = used \cup {s}
  /\ Begin(r, "create_hash", "login", s, NoToken, now, NoSid)
  /\ UNCHANGED <<now, redisVars, issued, errors, ended, raced, cut>>

CreateHash(r) ==
  /\ req[r].pc = "create_hash"
  /\ hash' = [hash EXCEPT ![req[r].sid] =
                [user |-> TRUE, token |-> req[r].fresh, exp |-> Forever]]
  /\ Goto(r, "create_expire")
  /\ UNCHANGED <<now, index, meta, userBl, tokenBl, issued, errors, history>>

CreateExpire(r) ==
  /\ req[r].pc = "create_expire"
  /\ hash' = Expire(req[r].sid)
  /\ Goto(r, "create_index")
  /\ UNCHANGED <<now, index, meta, userBl, tokenBl, issued, errors, history>>

\* SADD and EXPIRE of the user index; the application's index gets the same pair.
CreateIndex(r) ==
  /\ req[r].pc = "create_index"
  /\ index' = [members |-> index.members \cup {req[r].sid},
               exp |-> now + RefreshTTL + IndexSlack]
  /\ Goto(r, "create_meta")
  /\ UNCHANGED <<now, hash, meta, userBl, tokenBl, issued, errors, history>>

CreateMeta(r) ==
  /\ req[r].pc = "create_meta"
  /\ meta' = [meta EXCEPT ![req[r].sid] = now + RefreshTTL]
  /\ Goto(r, "clear_blacklist")
  /\ UNCHANGED <<now, hash, index, userBl, tokenBl, issued, errors, history>>

ClearBlacklist(r) ==
  /\ req[r].pc = "clear_blacklist"
  /\ userBl' = 0
  /\ cut' = NoToken
  /\ issued' = issued \cup {<<req[r].sid, req[r].fresh>>}
  /\ Finish(r)
  /\ UNCHANGED <<now, hash, index, meta, tokenBl, errors, used, ended, raced>>

-----------------------------------------------------------------------------
(* session.Service.RefreshSession                                          *)

\* Mutant of Refreshable: the token is not compared with the stored one.
RefreshableUncompared(s, iat) == now < iat + RefreshTTL

\* The token parses, is a refresh token, and equals the one the hash stores.
Refreshable(s, iat) ==
  /\ now < iat + RefreshTTL
  /\ hash[s].token = iat

Refresh(r, s, iat) ==
  /\ "refresh" \in Goals
  /\ req[r].pc = "idle" /\ <<s, iat>> \in issued
  /\ Refreshable(s, iat)
  /\ Begin(r, "refresh_set", "refresh", s, iat, now, NoSid)
  /\ UNCHANGED <<now, redisVars, issued, errors, history>>

RefreshSet(r) ==
  LET s == req[r].sid IN
  /\ req[r].pc = "refresh_set"
  /\ hash' = [hash EXCEPT ![s] = HSet(s, [hash[s] EXCEPT !.token = req[r].fresh])]
  /\ Goto(r, "refresh_expire")
  /\ UNCHANGED <<now, index, meta, userBl, tokenBl, issued, errors, history>>

\* Mutant of RefreshExpire: the rotation does not slide the TTL.
RefreshExpireOmitted(r) ==
  /\ req[r].pc = "refresh_expire"
  /\ Goto(r, "refresh_touch")
  /\ UNCHANGED <<now, redisVars, issued, errors, history>>

RefreshExpire(r) ==
  /\ req[r].pc = "refresh_expire"
  /\ hash' = Expire(req[r].sid)
  /\ Goto(r, "refresh_touch")
  /\ UNCHANGED <<now, index, meta, userBl, tokenBl, issued, errors, history>>

\* TouchSession is an HSET too: it leaves the token field of the hash alone.
RefreshTouch(r) ==
  LET s == req[r].sid IN
  /\ req[r].pc = "refresh_touch"
  /\ hash' = [hash EXCEPT ![s] = HSet(s, hash[s])]
  /\ issued' = issued \cup {<<s, req[r].fresh>>}
  /\ Finish(r)
  /\ UNCHANGED <<now, index, meta, userBl, tokenBl, errors, history>>

-----------------------------------------------------------------------------
\* A client or an administrator can name session s: it has been indexed, so
\* it has been listed or its tokens have been returned.
Known(s) ==
  /\ s \in used
  /\ \A r \in Req : req[r].pc \in {"create_hash", "create_expire", "create_index"}
                   => req[r].sid # s

(* AuthMiddleware: three reads, each at an instant of its own.             *)

\* The access token parses and is not blacklisted itself.
Authenticate(r, s, iat, goal, target) ==
  /\ goal \in Goals \cap ProtectedGoals
  /\ req[r].pc = "idle" /\ <<s, iat>> \in issued
  /\ now < iat + AccessTTL
  /\ <<s, iat>> \notin tokenBl
  /\ goal = "revoke" => target # s /\ Known(target)
  /\ goal # "revoke" => target = s
  /\ Begin(r, "auth_user", goal, s, iat, NoToken, target)
  /\ UNCHANGED <<now, redisVars, issued, errors, history>>

\* The user is not blacklisted; a refusal ends the request.
AuthUser(r) ==
  /\ req[r].pc = "auth_user"
  /\ IF userBl = 0
       THEN req' = [req EXCEPT ![r].pc = "auth_session", ![r].cut = cut]
       ELSE Finish(r)
  /\ UNCHANGED <<now, redisVars, issued, errors, history>>

\* Where a handler starts once its request is authenticated.
FirstStep == [serve |-> "idle", logout |-> "del_hash", revoke |-> "del_hash",
              others |-> "list", delete |-> "list", password |-> "bl_user"]

\* The session's hash still exists; the handler proper begins.
AuthSession(r) ==
  /\ req[r].pc = "auth_session"
  /\ Proceed(r, IF Live(req[r].sid) THEN FirstStep[req[r].goal] ELSE "idle")
  /\ UNCHANGED <<now, redisVars, issued, errors, history>>

Accepts(r) == req[r].pc = "auth_session" /\ Live(req[r].sid)

-----------------------------------------------------------------------------
(* Entry points that do not go through AuthMiddleware: the password reset   *)
(* link and the admin console's session list.                               *)

ResetPassword(r) ==
  /\ "reset" \in Goals
  /\ req[r].pc = "idle"
  /\ Begin(r, "bl_user", "reset", NoSid, NoToken, NoToken, NoSid)
  /\ UNCHANGED <<now, redisVars, issued, errors, history>>

AdminRevokeOne(r, s) ==
  /\ "adminOne" \in Goals
  /\ req[r].pc = "idle" /\ Known(s) /\ Live(s)
  /\ Begin(r, "del_hash", "adminOne", NoSid, NoToken, NoToken, s)
  /\ UNCHANGED <<now, redisVars, issued, errors, history>>

AdminRevokeAll(r) ==
  /\ "adminAll" \in Goals
  /\ req[r].pc = "idle"
  /\ Begin(r, "list", "adminAll", NoSid, NoToken, NoToken, NoSid)
  /\ UNCHANGED <<now, redisVars, issued, errors, history>>

-----------------------------------------------------------------------------
(* redis.DeleteSession and redis.DeleteAllUserSessions                     *)

DelHash(r) ==
  LET s == req[r].target IN
  /\ req[r].pc = "del_hash"
  /\ hash' = [hash EXCEPT ![s] = Gone]
  /\ End({s})
  /\ Goto(r, "del_index")
  /\ UNCHANGED <<now, index, meta, userBl, tokenBl, issued, errors, used, cut>>

\* Redis deletes a set whose last member leaves.
Without(S) ==
  IF index.members \subseteq S THEN EmptyIndex
                               ELSE [index EXCEPT !.members = @ \ S]

AfterDelete == [logout |-> "bl_token", revoke |-> "idle", adminOne |-> "bl_user"]

\* SREM of the two indexes and DEL of the metadata key.
DelIndex(r) ==
  LET s == req[r].target IN
  /\ req[r].pc = "del_index"
  /\ index' = Without({s})
  /\ meta' = [meta EXCEPT ![s] = 0]
  /\ Proceed(r, AfterDelete[req[r].goal])
  /\ UNCHANGED <<now, hash, userBl, tokenBl, issued, errors, history>>

\* GetUserSessionIDs: members without a hash leave the index.
List(r) ==
  LET valid == {s \in index.members : Live(s)} IN
  /\ req[r].pc = "list"
  /\ index' = Without(index.members \ valid)
  /\ req' = [req EXCEPT ![r].pc = "del_each",
                        ![r].todo = IF req[r].goal = "others"
                                      THEN valid \ {req[r].target} ELSE valid]
  /\ UNCHANGED <<now, hash, meta, userBl, tokenBl, issued, errors, history>>

DelEach(r, s) ==
  /\ req[r].pc = "del_each" /\ s \in req[r].todo
  /\ hash' = [hash EXCEPT ![s] = Gone]
  /\ End({s})
  /\ req' = [req EXCEPT ![r].todo = @ \ {s}]
  /\ UNCHANGED <<now, index, meta, userBl, tokenBl, issued, errors, used, cut>>

AfterDrop(r) == IF req[r].goal = "others" THEN "keep_index" ELSE "bl_user"

\* The whole index goes, then the kept session is put back in a new one.
DropIndex(r) ==
  /\ req[r].pc = "del_each" /\ req[r].todo = {}
  /\ index' = EmptyIndex
  /\ Goto(r, AfterDrop(r))
  /\ UNCHANGED <<now, hash, meta, userBl, tokenBl, issued, errors, history>>

KeepIndex(r) ==
  /\ req[r].pc = "keep_index"
  /\ index' = [members |-> index.members \cup {req[r].target},
               exp |-> IF index.exp = 0 THEN Forever ELSE index.exp]
  /\ Finish(r)
  /\ UNCHANGED <<now, hash, meta, userBl, tokenBl, issued, errors, history>>

-----------------------------------------------------------------------------
(* Blacklists                                                              *)

\* LogoutSession: the presented access token, for what is left of its life.
BlacklistToken(r) ==
  /\ req[r].pc = "bl_token"
  /\ tokenBl' = IF now < req[r].iat + AccessTTL
                  THEN tokenBl \cup {<<req[r].sid, req[r].iat>>} ELSE tokenBl
  /\ Finish(r)
  /\ UNCHANGED <<now, hash, index, meta, userBl, issued, errors, history>>

\* Mutant of BlacklistFor: the minutes are taken for ticks.
BlacklistForTooShort(goal) == 1

\* Admin revocations block the user for the life of an access token, the
\* others for 30 days.
BlacklistFor(goal) ==
  IF goal \in {"adminOne", "adminAll"} THEN AccessTTL ELSE BlacklistTTL

BlacklistUser(r) ==
  /\ req[r].pc = "bl_user"
  /\ userBl' = now + BlacklistFor(req[r].goal)
  /\ cut' = now
  /\ Finish(r)
  /\ UNCHANGED <<now, hash, index, meta, tokenBl, issued, errors,
                 used, ended, raced>>

-----------------------------------------------------------------------------
(* A Redis command fails.  Most handlers then answer with an error; some   *)
(* commands are best effort and the handler goes on.                       *)

Aborts == {"create_hash", "create_expire", "create_index", "refresh_set",
           "auth_user", "auth_session", "del_hash"}

AfterWarning == [create_meta |-> "clear_blacklist", refresh_expire |-> "refresh_touch"]

Fail(r) ==
  /\ errors < MaxErrors
  /\ errors' = errors + 1
  /\ \/ /\ req[r].pc \in Aborts \cup {"bl_token", "bl_user", "keep_index"}
        /\ Finish(r)
        /\ UNCHANGED issued
     \/ /\ req[r].pc \in DOMAIN AfterWarning
        /\ Goto(r, AfterWarning[req[r].pc])
        /\ UNCHANGED issued
     \/ /\ req[r].pc \in {"clear_blacklist", "refresh_touch"}
        /\ issued' = issued \cup {<<req[r].sid, req[r].fresh>>}
        /\ Finish(r)
     \/ /\ req[r].pc = "del_index"
        /\ Proceed(r, AfterDelete[req[r].goal])
        /\ UNCHANGED issued
     \/ /\ req[r].pc = "list"
        /\ Proceed(r, IF req[r].goal = "delete" THEN "bl_user" ELSE "idle")
        /\ UNCHANGED issued
     \/ /\ req[r].pc = "del_each"
        /\ \E s \in req[r].todo : req' = [req EXCEPT ![r].todo = @ \ {s}]
        /\ UNCHANGED issued
     \/ /\ req[r].pc = "del_each" /\ req[r].todo = {}
        /\ Proceed(r, AfterDrop(r))
        /\ UNCHANGED issued
  /\ UNCHANGED <<now, redisVars, history>>

\* The clock moves and Redis drops the keys whose time has come.
Lapse(exp) == IF exp <= now + 1 THEN 0 ELSE exp

Tick ==
  LET lapsed == {s \in Sid : Live(s) /\ Lapse(hash[s].exp) = 0} IN
  /\ now < MaxNow
  /\ now' = now + 1
  /\ hash' = [s \in Sid |-> IF s \in lapsed THEN Gone ELSE hash[s]]
  /\ index' = IF Lapse(index.exp) = 0 THEN EmptyIndex ELSE index
  /\ meta' = [s \in Sid |-> Lapse(meta[s])]
  /\ userBl' = Lapse(userBl)
  /\ End(lapsed)
  /\ UNCHANGED <<tokenBl, issued, req, errors, used, cut>>

-----------------------------------------------------------------------------
Serve(r) ==
  \/ \E s \in Sid : Login(r, s)
  \/ CreateHash(r) \/ CreateExpire(r) \/ CreateIndex(r) \/ CreateMeta(r)
  \/ ClearBlacklist(r)
  \/ \E s \in Sid, iat \in Time : Refresh(r, s, iat)
  \/ RefreshSet(r) \/ RefreshExpire(r) \/ RefreshTouch(r)
  \/ \E s \in Sid, iat \in Time, goal \in Goals, target \in Sid :
       Authenticate(r, s, iat, goal, target)
  \/ AuthUser(r) \/ AuthSession(r)
  \/ ResetPassword(r) \/ AdminRevokeAll(r)
  \/ \E s \in Sid : AdminRevokeOne(r, s)
  \/ DelHash(r) \/ DelIndex(r)
  \/ List(r) \/ DropIndex(r) \/ KeepIndex(r)
  \/ \E s \in Sid : DelEach(r, s)
  \/ BlacklistToken(r) \/ BlacklistUser(r)
  \/ Fail(r)

Next == Tick \/ \E r \in Req : Serve(r)

Spec == Init /\ [][Next]_vars

-----------------------------------------------------------------------------
(* Properties                                                              *)

TypeOK ==
  /\ now \in Time
  /\ hash \in [Sid -> Hash]
  /\ index \in [members : SUBSET Sid, exp : 0 .. Forever]
  /\ meta \in [Sid -> 0 .. Forever]
  /\ userBl \in 0 .. Forever
  /\ tokenBl \subseteq Pair
  /\ issued \subseteq Pair
  /\ req \in [Req -> Request]
  /\ errors \in 0 .. MaxErrors
  /\ used \subseteq Sid /\ ended \subseteq Sid /\ raced \subseteq Sid
  /\ cut \in Time \cup {NoToken}

\* A session that was deleted or has expired stays unusable, whatever else
\* runs, unless it ended while a refresh of it had already passed its check:
\* that refresh's HSET is the only way to bring a session back.
RevivedOnlyByRace == \A s \in ended : Live(s) => s \in raced

\* SECURITY_PATCH_SUMMARY.md:33: a password change revokes all tokens, so no
\* refresh token made before it can be redeemed.
PasswordChangeEndsSessions ==
  \A p \in issued : p[2] < cut => ~Refreshable(p[1], p[2])

\* A session key without a TTL belongs to a CreateSession between its HSET
\* and its EXPIRE, or was revived by a refresh that raced the session's end,
\* or a Redis command has failed.
KeysExpire ==
  \A s \in Sid :
    Live(s) /\ hash[s].exp = Forever =>
      \/ \E r \in Req : req[r].pc = "create_expire" /\ req[r].sid = s
      \/ s \in raced
      \/ errors > 0

\* The sliding TTL of RefreshSession: a stored refresh token never outlives
\* the hash that stores it, except while a refresh is about to slide the TTL
\* or after that command has failed.
HashOutlivesToken ==
  \A s \in Sid :
    Live(s) /\ hash[s].token # NoToken =>
      \/ hash[s].exp >= hash[s].token + RefreshTTL
      \/ \E r \in Req : req[r].pc = "refresh_expire" /\ req[r].sid = s
      \/ errors > 0

\* Between a user-wide revocation and the next login, the middleware accepts
\* no unexpired access token made before the revocation, although the
\* blacklist entry has a TTL of its own and is read before the session is.
RevocationCutsOff ==
  \A r \in Req :
    req[r].pc = "auth_session" /\ now < req[r].iat + AccessTTL
      => req[r].iat >= req[r].cut
=============================================================================
