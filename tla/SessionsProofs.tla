--------------------------- MODULE SessionsProofs ---------------------------
(***************************************************************************)
(* Theorems about Sessions, for every set of sessions and request slots,    *)
(* every choice of lifetimes and any number of Redis failures.              *)
(***************************************************************************)
EXTENDS Sessions, TLAPS

\* What the handler a request has reached knows of it: its session, the pair
\* it presents or has generated, the session it deletes or keeps.
WellFormed(q) ==
  /\ q.pc \in CreateSteps \cup RefreshSteps => q.sid \in Sid /\ q.fresh \in Time
  /\ q.pc \in AuthSteps \cup {"bl_token"} => q.sid \in Sid /\ q.iat \in Time
  /\ q.pc \in AuthSteps => q.goal \in ProtectedGoals
  /\ q.pc \in AuthSteps \cup DeleteSteps \cup {"keep_index"} => q.target \in Sid
  /\ q.pc \in DeleteSteps => q.goal \in {"logout", "revoke", "adminOne"}
  /\ q.pc \in DeleteSteps /\ q.goal = "logout" => q.sid \in Sid /\ q.iat \in Time
  /\ q.pc \in DeleteAllSteps /\ q.goal = "others" => q.target \in Sid

Shape == \A r \in Req : WellFormed(req[r])

USE SessionsAssumption

-----------------------------------------------------------------------------
(* What the ways of updating a request slot do to its fields.              *)

LEMMA GotoEffect ==
  ASSUME req \in [Req -> Request], NEW r \in Req, NEW step \in Steps, Goto(r, step)
  PROVE  /\ req' \in [Req -> Request]
         /\ req'[r].pc = step
         /\ req'[r].goal = req[r].goal
         /\ req'[r].sid = req[r].sid
         /\ req'[r].iat = req[r].iat
         /\ req'[r].fresh = req[r].fresh
         /\ req'[r].target = req[r].target
         /\ req'[r].todo = req[r].todo
         /\ req'[r].cut = req[r].cut
         /\ \A q \in Req \ {r} : req'[q] = req[q]
BY DEF Goto, Request

LEMMA IdleTyped == Idle \in Request
BY DEF Idle, Request, Steps, NoToken

LEMMA FinishEffect ==
  ASSUME req \in [Req -> Request], NEW r \in Req, Finish(r)
  PROVE  /\ req' \in [Req -> Request]
         /\ req'[r] = Idle
         /\ \A q \in Req \ {r} : req'[q] = req[q]
BY IdleTyped DEF Finish

LEMMA TodoEffect ==
  ASSUME req \in [Req -> Request], NEW r \in Req, NEW step \in Steps,
         NEW todo \in SUBSET Sid,
         req' = [req EXCEPT ![r].pc = step, ![r].todo = todo]
  PROVE  /\ req' \in [Req -> Request]
         /\ req'[r].pc = step
         /\ req'[r].goal = req[r].goal
         /\ req'[r].sid = req[r].sid
         /\ req'[r].iat = req[r].iat
         /\ req'[r].fresh = req[r].fresh
         /\ req'[r].target = req[r].target
         /\ req'[r].todo = todo
         /\ \A q \in Req \ {r} : req'[q] = req[q]
<1>1. [req[r] EXCEPT !.pc = step, !.todo = todo] \in Request
  BY DEF Request
<1>2. req' = [req EXCEPT ![r] = [req[r] EXCEPT !.pc = step, !.todo = todo]]
  OBVIOUS
<1> QED
  BY <1>1, <1>2 DEF Request

LEMMA RemoveTodoEffect ==
  ASSUME req \in [Req -> Request], NEW r \in Req, NEW s,
         req' = [req EXCEPT ![r].todo = @ \ {s}]
  PROVE  /\ req' \in [Req -> Request]
         /\ req'[r].pc = req[r].pc
         /\ req'[r].goal = req[r].goal
         /\ req'[r].sid = req[r].sid
         /\ req'[r].iat = req[r].iat
         /\ req'[r].fresh = req[r].fresh
         /\ req'[r].target = req[r].target
         /\ req'[r].todo = req[r].todo \ {s}
         /\ \A q \in Req \ {r} : req'[q] = req[q]
BY DEF Request

LEMMA CutEffect ==
  ASSUME req \in [Req -> Request], NEW r \in Req, NEW step \in Steps,
         NEW c \in Time \cup {NoToken},
         req' = [req EXCEPT ![r].pc = step, ![r].cut = c]
  PROVE  /\ req' \in [Req -> Request]
         /\ req'[r].pc = step
         /\ req'[r].goal = req[r].goal
         /\ req'[r].sid = req[r].sid
         /\ req'[r].iat = req[r].iat
         /\ req'[r].fresh = req[r].fresh
         /\ req'[r].target = req[r].target
         /\ req'[r].todo = req[r].todo
         /\ req'[r].cut = c
         /\ \A q \in Req \ {r} : req'[q] = req[q]
BY DEF Request

LEMMA BeginEffect ==
  ASSUME req \in [Req -> Request], NEW r \in Req, NEW step \in Steps,
         NEW goal \in Goals, NEW sid \in Sid \cup {NoSid},
         NEW iat \in Time \cup {NoToken}, NEW fresh \in Time \cup {NoToken},
         NEW target \in Sid \cup {NoSid},
         Begin(r, step, goal, sid, iat, fresh, target)
  PROVE  /\ req' \in [Req -> Request]
         /\ req'[r] = [pc |-> step, goal |-> goal, sid |-> sid, iat |-> iat,
                       fresh |-> fresh, target |-> target, todo |-> {},
                       cut |-> NoToken]
         /\ \A q \in Req \ {r} : req'[q] = req[q]
BY DEF Begin, Request

-----------------------------------------------------------------------------
LEMMA ExpireTyped ==
  ASSUME TypeOK, NEW s \in Sid
  PROVE  Expire(s) \in [Sid -> Hash]
<1>1. now + RefreshTTL \in 0 .. Forever
  BY DEF TypeOK, Time, Forever
<1> QED
  BY <1>1 DEF TypeOK, Expire, Hash

LEMMA HSetTyped ==
  ASSUME NEW s \in Sid, NEW h \in Hash
  PROVE  HSet(s, h) \in Hash
BY DEF HSet, Hash, Forever, Time

\* A deletion goes on to what its goal asks for next.
LEMMA DeletedEffect ==
  ASSUME req \in [Req -> Request], Shape, NEW r \in Req, req[r].pc = "del_index",
         Proceed(r, AfterDelete[req[r].goal])
  PROVE  req' \in [Req -> Request] /\ Shape'
<1>1. req[r].goal \in {"logout", "revoke", "adminOne"}
  BY DEF Shape, WellFormed, DeleteSteps
<1>2. CASE req[r].goal = "revoke"
  <2>1. Finish(r)
    BY <1>2 DEF Proceed, AfterDelete
  <2> QED
    BY <2>1, FinishEffect DEF Shape, WellFormed, Idle, CreateSteps, RefreshSteps,
       AuthSteps, DeleteSteps, DeleteAllSteps
<1>3. CASE req[r].goal # "revoke"
  <2> DEFINE step == AfterDelete[req[r].goal]
  <2>1. /\ Goto(r, step)
        /\ step = IF req[r].goal = "logout" THEN "bl_token" ELSE "bl_user"
    BY <1>1, <1>3 DEF Proceed, AfterDelete
  <2>2. step \in Steps
    BY <2>1 DEF Steps
  <2> HIDE DEF step
  <2>3. /\ req' \in [Req -> Request]
        /\ req'[r].pc = step
        /\ req'[r].goal = req[r].goal
        /\ req'[r].sid = req[r].sid
        /\ req'[r].iat = req[r].iat
        /\ \A q \in Req \ {r} : req'[q] = req[q]
    BY <2>1, <2>2, GotoEffect
  <2> QED
    BY <1>1, <2>1, <2>3 DEF Shape, WellFormed, CreateSteps, RefreshSteps,
       AuthSteps, DeleteSteps, DeleteAllSteps
<1> QED
  BY <1>2, <1>3

LEMMA InitTyped == Init => TypeOK /\ Shape
BY DEF Init, TypeOK, Shape, WellFormed, Idle, Request, Hash, Gone, EmptyIndex,
       Time, Pair, Forever, NoToken, Steps, CreateSteps, RefreshSteps, AuthSteps,
       DeleteSteps, DeleteAllSteps

LEMMA NextTyped == TypeOK /\ Shape /\ [Next]_vars => TypeOK' /\ Shape'
<1> SUFFICES ASSUME TypeOK, Shape, [Next]_vars
             PROVE  TypeOK' /\ Shape'
  OBVIOUS
<1> USE DEF TypeOK, Shape, WellFormed, Hash, Gone, EmptyIndex,
            Time, Pair, Forever, NoToken, Steps, CreateSteps, RefreshSteps,
            AuthSteps, DeleteSteps, DeleteAllSteps, redisVars, history, vars,
            Proceed, Live
<1>1. CASE UNCHANGED vars
  BY <1>1
<1>2. CASE Tick
  BY <1>2 DEF Tick, Lapse, End, Refreshing
<1>3. ASSUME NEW r \in Req, NEW s \in Sid, Login(r, s)
      PROVE  TypeOK' /\ Shape'
  <2>1. /\ req' \in [Req -> Request]
        /\ req'[r] = [pc |-> "create_hash", goal |-> "login", sid |-> s, iat |-> NoToken,
                      fresh |-> now, target |-> NoSid, todo |-> {},
                      cut |-> NoToken]
        /\ \A q \in Req \ {r} : req'[q] = req[q]
    <3>1. Begin(r, "create_hash", "login", s, NoToken, now, NoSid)
      BY <1>3 DEF Login
    <3> QED
      BY <1>3, <3>1, BeginEffect DEF Login, OpenGoals
  <2>2. Shape'
    BY <2>1
  <2> QED
    BY <1>3, <2>1, <2>2 DEF Login
<1>4. ASSUME NEW r \in Req, CreateHash(r) PROVE TypeOK' /\ Shape'
  <2>1. /\ req' \in [Req -> Request]
        /\ req'[r].pc = "create_expire"
        /\ req'[r].goal = req[r].goal
        /\ req'[r].sid = req[r].sid
        /\ req'[r].iat = req[r].iat
        /\ req'[r].fresh = req[r].fresh
        /\ req'[r].target = req[r].target
        /\ \A q \in Req \ {r} : req'[q] = req[q]
    <3>1. Goto(r, "create_expire")
      BY <1>4 DEF CreateHash
    <3> QED
      BY <3>1, GotoEffect
  <2>2. req[r].pc = "create_hash" /\ req[r].sid \in Sid /\ req[r].fresh \in Time
    BY <1>4 DEF CreateHash
  <2>3. Shape'
    BY <2>1, <2>2
  <2>4. hash' \in [Sid -> Hash]
    BY <1>4, <2>2 DEF CreateHash
  <2> QED
    BY <1>4, <2>1, <2>3, <2>4 DEF CreateHash
<1>5. ASSUME NEW r \in Req, CreateExpire(r) PROVE TypeOK' /\ Shape'
  <2>1. /\ req' \in [Req -> Request]
        /\ req'[r].pc = "create_index"
        /\ req'[r].goal = req[r].goal
        /\ req'[r].sid = req[r].sid
        /\ req'[r].iat = req[r].iat
        /\ req'[r].fresh = req[r].fresh
        /\ req'[r].target = req[r].target
        /\ \A q \in Req \ {r} : req'[q] = req[q]
    <3>1. Goto(r, "create_index")
      BY <1>5 DEF CreateExpire
    <3> QED
      BY <3>1, GotoEffect
  <2>2. req[r].pc = "create_expire"
    BY <1>5 DEF CreateExpire
  <2>3. Shape'
    BY <2>1, <2>2
  <2>4. hash' \in [Sid -> Hash]
    BY <1>5, <2>2, ExpireTyped DEF CreateExpire
  <2> QED
    BY <1>5, <2>1, <2>3, <2>4 DEF CreateExpire
<1>6. ASSUME NEW r \in Req, CreateIndex(r) PROVE TypeOK' /\ Shape'
  BY <1>6, GotoEffect DEF CreateIndex
<1>7. ASSUME NEW r \in Req, CreateMeta(r) PROVE TypeOK' /\ Shape'
  BY <1>7, GotoEffect DEF CreateMeta
<1>8. ASSUME NEW r \in Req, ClearBlacklist(r) PROVE TypeOK' /\ Shape'
  BY <1>8, FinishEffect DEF ClearBlacklist, Idle
<1>9. ASSUME NEW r \in Req, NEW s \in Sid, NEW iat \in Time, Refresh(r, s, iat)
      PROVE  TypeOK' /\ Shape'
  <2>1. /\ req' \in [Req -> Request]
        /\ req'[r] = [pc |-> "refresh_set", goal |-> "refresh", sid |-> s, iat |-> iat,
                      fresh |-> now, target |-> NoSid, todo |-> {},
                      cut |-> NoToken]
        /\ \A q \in Req \ {r} : req'[q] = req[q]
    <3>1. Begin(r, "refresh_set", "refresh", s, iat, now, NoSid)
      BY <1>9 DEF Refresh
    <3> QED
      BY <1>9, <3>1, BeginEffect DEF Refresh, OpenGoals
  <2>2. Shape'
    BY <2>1
  <2> QED
    BY <1>9, <2>1, <2>2 DEF Refresh
<1>10. ASSUME NEW r \in Req, RefreshSet(r) PROVE TypeOK' /\ Shape'
  <2>1. /\ req' \in [Req -> Request]
        /\ req'[r].pc = "refresh_expire"
        /\ req'[r].goal = req[r].goal
        /\ req'[r].sid = req[r].sid
        /\ req'[r].iat = req[r].iat
        /\ req'[r].fresh = req[r].fresh
        /\ req'[r].target = req[r].target
        /\ \A q \in Req \ {r} : req'[q] = req[q]
    <3>1. Goto(r, "refresh_expire")
      BY <1>10 DEF RefreshSet
    <3> QED
      BY <3>1, GotoEffect
  <2>2. req[r].pc = "refresh_set"
    BY <1>10 DEF RefreshSet
  <2>3. Shape'
    BY <2>1, <2>2
  <2>5. req[r].sid \in Sid /\ req[r].fresh \in Time
    BY <2>2
  <2>6. HSet(req[r].sid, [hash[req[r].sid] EXCEPT !.token = req[r].fresh]) \in Hash
    <3>1. [hash[req[r].sid] EXCEPT !.token = req[r].fresh] \in Hash
      BY <2>5
    <3> QED
      BY <2>5, <3>1, HSetTyped
  <2>4. hash' \in [Sid -> Hash]
    BY <1>10, <2>5, <2>6 DEF RefreshSet
  <2> QED
    BY <1>10, <2>1, <2>3, <2>4 DEF RefreshSet
<1>11. ASSUME NEW r \in Req, RefreshExpire(r) PROVE TypeOK' /\ Shape'
  <2>1. /\ req' \in [Req -> Request]
        /\ req'[r].pc = "refresh_touch"
        /\ req'[r].goal = req[r].goal
        /\ req'[r].sid = req[r].sid
        /\ req'[r].iat = req[r].iat
        /\ req'[r].fresh = req[r].fresh
        /\ req'[r].target = req[r].target
        /\ \A q \in Req \ {r} : req'[q] = req[q]
    <3>1. Goto(r, "refresh_touch")
      BY <1>11 DEF RefreshExpire
    <3> QED
      BY <3>1, GotoEffect
  <2>2. req[r].pc = "refresh_expire"
    BY <1>11 DEF RefreshExpire
  <2>3. Shape'
    BY <2>1, <2>2
  <2>4. hash' \in [Sid -> Hash]
    BY <1>11, <2>2, ExpireTyped DEF RefreshExpire
  <2> QED
    BY <1>11, <2>1, <2>3, <2>4 DEF RefreshExpire
<1>12. ASSUME NEW r \in Req, RefreshTouch(r) PROVE TypeOK' /\ Shape'
  <2>1. /\ req' \in [Req -> Request]
        /\ req'[r] = Idle
        /\ \A q \in Req \ {r} : req'[q] = req[q]
    <3>1. Finish(r)
      BY <1>12 DEF RefreshTouch
    <3> QED
      BY <3>1, FinishEffect
  <2>2. Shape'
    BY <2>1 DEF Idle
  <2>3. req[r].sid \in Sid /\ req[r].fresh \in Time
    BY <1>12 DEF RefreshTouch
  <2>4. HSet(req[r].sid, hash[req[r].sid]) \in Hash
    BY <2>3, HSetTyped
  <2>5. hash' \in [Sid -> Hash]
    BY <1>12, <2>3, <2>4 DEF RefreshTouch
  <2> QED
    BY <1>12, <2>1, <2>2, <2>3, <2>5 DEF RefreshTouch
<1>13. ASSUME NEW r \in Req, NEW s \in Sid, NEW iat \in Time, NEW goal \in Goals,
              NEW target \in Sid, Authenticate(r, s, iat, goal, target)
       PROVE  TypeOK' /\ Shape'
  <2>1. /\ req' \in [Req -> Request]
        /\ req'[r] = [pc |-> "auth_user", goal |-> goal, sid |-> s, iat |-> iat,
                      fresh |-> NoToken, target |-> target, todo |-> {},
                      cut |-> NoToken]
        /\ \A q \in Req \ {r} : req'[q] = req[q]
    <3>1. Begin(r, "auth_user", goal, s, iat, NoToken, target)
      BY <1>13 DEF Authenticate
    <3> QED
      BY <1>13, <3>1, BeginEffect DEF Authenticate, OpenGoals
  <2>2. Shape'
    BY <2>1, <1>13 DEF Authenticate
  <2> QED
    BY <1>13, <2>1, <2>2 DEF Authenticate
<1>14. ASSUME NEW r \in Req, AuthUser(r) PROVE TypeOK' /\ Shape'
  <2>1. CASE userBl = 0
    <3>1. /\ req' = [req EXCEPT ![r].pc = "auth_session", ![r].cut = cut]
          /\ UNCHANGED <<now, redisVars, issued, errors, history>>
          /\ req[r].pc = "auth_user"
      BY <1>14, <2>1 DEF AuthUser
    <3>2. "auth_session" \in Steps /\ cut \in Time \cup {NoToken}
                /\ req \in [Req -> Request]
      OBVIOUS
    <3>3. /\ req' \in [Req -> Request]
          /\ req'[r].pc = "auth_session"
          /\ req'[r].goal = req[r].goal
          /\ req'[r].sid = req[r].sid
          /\ req'[r].iat = req[r].iat
          /\ req'[r].target = req[r].target
          /\ \A q \in Req \ {r} : req'[q] = req[q]
      <4> HIDE DEF TypeOK, Shape, WellFormed, Steps, NoToken, Time
      <4> QED
        BY <3>1, <3>2, CutEffect
    <3> QED
      BY <3>1, <3>3
  <2>2. CASE userBl # 0
    BY <1>14, <2>2, FinishEffect DEF AuthUser, Idle
  <2> QED
    BY <2>1, <2>2
<1>15. ASSUME NEW r \in Req, AuthSession(r) PROVE TypeOK' /\ Shape'
  <2>1. req[r].goal \in ProtectedGoals
    BY <1>15 DEF AuthSession
  <2>2. FirstStep[req[r].goal] \in {"idle", "del_hash", "list", "bl_user"}
    BY <2>1 DEF FirstStep, ProtectedGoals
  <2>3. FirstStep[req[r].goal] = "del_hash" => req[r].goal \in {"logout", "revoke"}
    BY <2>1 DEF FirstStep, ProtectedGoals
  <2>4. CASE Finish(r)
    BY <1>15, <2>4, FinishEffect DEF AuthSession, Idle
  <2>5. CASE Goto(r, FirstStep[req[r].goal])
    <3> DEFINE step == FirstStep[req[r].goal]
    <3>1. step \in Steps
      BY <2>2
    <3> HIDE DEF step
    <3>2. /\ req' \in [Req -> Request]
          /\ req'[r].pc = step
          /\ req'[r].goal = req[r].goal
          /\ req'[r].sid = req[r].sid
          /\ req'[r].iat = req[r].iat
          /\ req'[r].target = req[r].target
          /\ \A q \in Req \ {r} : req'[q] = req[q]
      BY <2>5, <3>1, GotoEffect DEF step
    <3>3. /\ req[r].pc = "auth_session"
          /\ UNCHANGED <<now, redisVars, issued, errors, history>>
      BY <1>15 DEF AuthSession
    <3>4. Shape'
      BY <2>2, <2>3, <3>2, <3>3 DEF step
    <3> QED
      BY <3>2, <3>3, <3>4
  <2> QED
    BY <1>15, <2>4, <2>5 DEF AuthSession
<1>16. ASSUME NEW r \in Req, ResetPassword(r) PROVE TypeOK' /\ Shape'
  <2>1. /\ req' \in [Req -> Request]
        /\ req'[r] = [pc |-> "bl_user", goal |-> "reset", sid |-> NoSid, iat |-> NoToken,
                      fresh |-> NoToken, target |-> NoSid, todo |-> {},
                      cut |-> NoToken]
        /\ \A q \in Req \ {r} : req'[q] = req[q]
    <3>1. Begin(r, "bl_user", "reset", NoSid, NoToken, NoToken, NoSid)
      BY <1>16 DEF ResetPassword
    <3> QED
      BY <1>16, <3>1, BeginEffect DEF ResetPassword, OpenGoals
  <2>2. Shape'
    BY <2>1
  <2> QED
    BY <1>16, <2>1, <2>2 DEF ResetPassword
<1>17. ASSUME NEW r \in Req, AdminRevokeAll(r) PROVE TypeOK' /\ Shape'
  <2>1. /\ req' \in [Req -> Request]
        /\ req'[r] = [pc |-> "list", goal |-> "adminAll", sid |-> NoSid, iat |-> NoToken,
                      fresh |-> NoToken, target |-> NoSid, todo |-> {},
                      cut |-> NoToken]
        /\ \A q \in Req \ {r} : req'[q] = req[q]
    <3>1. Begin(r, "list", "adminAll", NoSid, NoToken, NoToken, NoSid)
      BY <1>17 DEF AdminRevokeAll
    <3> QED
      BY <1>17, <3>1, BeginEffect DEF AdminRevokeAll, OpenGoals
  <2>2. Shape'
    BY <2>1
  <2> QED
    BY <1>17, <2>1, <2>2 DEF AdminRevokeAll
<1>18. ASSUME NEW r \in Req, NEW s \in Sid, AdminRevokeOne(r, s)
       PROVE  TypeOK' /\ Shape'
  <2>1. /\ req' \in [Req -> Request]
        /\ req'[r] = [pc |-> "del_hash", goal |-> "adminOne", sid |-> NoSid, iat |-> NoToken,
                      fresh |-> NoToken, target |-> s, todo |-> {},
                      cut |-> NoToken]
        /\ \A q \in Req \ {r} : req'[q] = req[q]
    <3>1. Begin(r, "del_hash", "adminOne", NoSid, NoToken, NoToken, s)
      BY <1>18 DEF AdminRevokeOne
    <3> QED
      BY <1>18, <3>1, BeginEffect DEF AdminRevokeOne, OpenGoals
  <2>2. Shape'
    BY <2>1
  <2> QED
    BY <1>18, <2>1, <2>2 DEF AdminRevokeOne
<1>19. ASSUME NEW r \in Req, DelHash(r) PROVE TypeOK' /\ Shape'
  <2>1. /\ req' \in [Req -> Request]
        /\ req'[r].pc = "del_index"
        /\ req'[r].goal = req[r].goal
        /\ req'[r].sid = req[r].sid
        /\ req'[r].iat = req[r].iat
        /\ req'[r].fresh = req[r].fresh
        /\ req'[r].target = req[r].target
        /\ \A q \in Req \ {r} : req'[q] = req[q]
    <3>1. Goto(r, "del_index")
      BY <1>19 DEF DelHash
    <3> QED
      BY <3>1, GotoEffect
  <2>2. req[r].pc = "del_hash"
    BY <1>19 DEF DelHash
  <2>3. Shape'
    BY <2>1, <2>2
  <2>4. hash' \in [Sid -> Hash]
    BY <1>19, <2>2 DEF DelHash
  <2> QED
    BY <1>19, <2>1, <2>3, <2>4 DEF DelHash, End, Refreshing
<1>20. ASSUME NEW r \in Req, DelIndex(r) PROVE TypeOK' /\ Shape'
  <2>1. /\ req[r].pc = "del_index"
        /\ req[r].goal \in {"logout", "revoke", "adminOne"}
        /\ UNCHANGED <<now, hash, userBl, tokenBl, issued, errors, history>>
        /\ Proceed(r, AfterDelete[req[r].goal])
    BY <1>20 DEF DelIndex
  <2>2. /\ index' \in [members : SUBSET Sid, exp : 0 .. Forever]
        /\ meta' \in [Sid -> 0 .. Forever]
    BY <1>20 DEF DelIndex, Without
  <2>3. req' \in [Req -> Request] /\ Shape'
    BY <2>1, DeletedEffect
  <2> QED
    BY <2>1, <2>2, <2>3
<1>21. ASSUME NEW r \in Req, List(r) PROVE TypeOK' /\ Shape'
  <2> DEFINE valid == {s \in index.members : Live(s)}
             left == IF req[r].goal = "others" THEN valid \ {req[r].target} ELSE valid
  <2>1. index' \in [members : SUBSET Sid, exp : 0 .. Forever]
    BY <1>21 DEF List, Without
  <2>4. req[r].pc = "list" /\ UNCHANGED <<now, hash, meta, userBl, tokenBl, issued,
                                           errors, history>>
    BY <1>21 DEF List
  <2>2. left \in SUBSET Sid
    OBVIOUS
  <2>3. req' = [req EXCEPT ![r].pc = "del_each", ![r].todo = left]
    BY <1>21 DEF List
  <2> HIDE DEF left
  <2> QED
    <3>1. /\ req' \in [Req -> Request]
          /\ req'[r].pc = "del_each"
          /\ req'[r].goal = req[r].goal
          /\ req'[r].target = req[r].target
          /\ \A q \in Req \ {r} : req'[q] = req[q]
      BY <2>2, <2>3, TodoEffect
    <3> QED
      BY <2>1, <2>4, <3>1
<1>22. ASSUME NEW r \in Req, NEW s \in Sid, DelEach(r, s) PROVE TypeOK' /\ Shape'
  <2>1. req[r].pc = "del_each" /\ req' = [req EXCEPT ![r].todo = @ \ {s}]
    BY <1>22 DEF DelEach
  <2>2. /\ req' \in [Req -> Request]
        /\ req'[r].pc = req[r].pc
        /\ req'[r].goal = req[r].goal
        /\ req'[r].target = req[r].target
        /\ \A q \in Req \ {r} : req'[q] = req[q]
    BY <2>1, RemoveTodoEffect
  <2> QED
    BY <1>22, <2>1, <2>2 DEF DelEach, End, Refreshing
<1>23. ASSUME NEW r \in Req, DropIndex(r) PROVE TypeOK' /\ Shape'
  <2> DEFINE step == AfterDrop(r)
  <2>1. /\ req[r].pc = "del_each"
        /\ step = IF req[r].goal = "others" THEN "keep_index" ELSE "bl_user"
    BY <1>23 DEF DropIndex, AfterDrop
  <2>2. step \in Steps
    BY <2>1
  <2> HIDE DEF step
  <2>3. /\ req' \in [Req -> Request]
        /\ req'[r].pc = step
        /\ req'[r].goal = req[r].goal
        /\ req'[r].target = req[r].target
        /\ \A q \in Req \ {r} : req'[q] = req[q]
    BY <1>23, <2>2, GotoEffect DEF DropIndex, step
  <2>4. Shape'
    BY <2>1, <2>3
  <2> QED
    BY <1>23, <2>3, <2>4 DEF DropIndex
<1>24. ASSUME NEW r \in Req, KeepIndex(r) PROVE TypeOK' /\ Shape'
  BY <1>24, FinishEffect DEF KeepIndex, Idle
<1>25. ASSUME NEW r \in Req, BlacklistToken(r) PROVE TypeOK' /\ Shape'
  BY <1>25, FinishEffect DEF BlacklistToken, Idle
<1>26. ASSUME NEW r \in Req, BlacklistUser(r) PROVE TypeOK' /\ Shape'
  BY <1>26, FinishEffect DEF BlacklistUser, Idle, BlacklistFor
<1>27. ASSUME NEW r \in Req, Fail(r) PROVE TypeOK' /\ Shape'
  <2>1. UNCHANGED <<now, redisVars, history>> /\ errors' \in 0 .. MaxErrors
    BY <1>27 DEF Fail
  <2>2. CASE Finish(r) /\ issued' = issued
    BY <2>1, <2>2, FinishEffect DEF Idle
  <2>3. CASE /\ req[r].pc \in {"clear_blacklist", "refresh_touch"}
             /\ issued' = issued \cup {<<req[r].sid, req[r].fresh>>}
             /\ Finish(r)
    BY <2>1, <2>3, FinishEffect DEF Idle
  <2>4. CASE /\ req[r].pc \in DOMAIN AfterWarning
             /\ Goto(r, AfterWarning[req[r].pc])
             /\ issued' = issued
    <3> DEFINE step == AfterWarning[req[r].pc]
    <3>1. step = IF req[r].pc = "create_meta" THEN "clear_blacklist" ELSE "refresh_touch"
      BY <2>4 DEF AfterWarning
    <3>2. step \in Steps
      BY <3>1
    <3> HIDE DEF step
    <3>3. /\ req' \in [Req -> Request]
          /\ req'[r].pc = step
          /\ req'[r].goal = req[r].goal
          /\ req'[r].sid = req[r].sid
          /\ req'[r].iat = req[r].iat
          /\ req'[r].fresh = req[r].fresh
          /\ req'[r].target = req[r].target
          /\ \A q \in Req \ {r} : req'[q] = req[q]
      BY <2>4, <3>2, GotoEffect DEF step
    <3>4. req[r].pc \in {"create_meta", "refresh_expire"}
      BY <2>4 DEF AfterWarning
    <3>5. Shape'
      BY <3>1, <3>3, <3>4
    <3> QED
      BY <2>1, <2>4, <3>3, <3>5
  <2>5. CASE /\ req[r].pc = "del_index"
             /\ Proceed(r, AfterDelete[req[r].goal])
             /\ issued' = issued
    BY <2>1, <2>5, DeletedEffect
  <2>6. CASE req[r].pc = "list" /\ Goto(r, "bl_user") /\ issued' = issued
    BY <2>1, <2>6, GotoEffect
  <2>7. CASE /\ req[r].pc = "del_each"
             /\ \E s \in req[r].todo : req' = [req EXCEPT ![r].todo = @ \ {s}]
             /\ issued' = issued
    <3>1. PICK s \in req[r].todo : req' = [req EXCEPT ![r].todo = @ \ {s}]
      BY <2>7
    <3>2. /\ req' \in [Req -> Request]
          /\ req'[r].pc = req[r].pc
          /\ req'[r].goal = req[r].goal
          /\ req'[r].target = req[r].target
          /\ \A q \in Req \ {r} : req'[q] = req[q]
      BY <3>1, RemoveTodoEffect
    <3> QED
      BY <2>1, <2>7, <3>2
  <2>8. CASE req[r].pc = "del_each" /\ Goto(r, AfterDrop(r)) /\ issued' = issued
    BY <2>1, <2>8, GotoEffect DEF AfterDrop
  <2> QED
    BY <1>27, <2>2, <2>3, <2>4, <2>5, <2>6, <2>7, <2>8 DEF Fail
<1> QED
  BY <1>1, <1>2, <1>3, <1>4, <1>5, <1>6, <1>7, <1>8, <1>9, <1>10, <1>11, <1>12,
     <1>13, <1>14, <1>15, <1>16, <1>17, <1>18, <1>19, <1>20, <1>21, <1>22, <1>23,
     <1>24, <1>25, <1>26, <1>27 DEF Next, Serve

\* Every variable keeps the type TypeOK gives it: the handlers never leave a
\* request or a Redis key in a shape the code does not expect.
THEOREM TypeCorrect == Spec => []TypeOK
<1>1. Spec => [](TypeOK /\ Shape)
  BY InitTyped, NextTyped, PTL DEF Spec
<1> QED
  BY <1>1, PTL

-----------------------------------------------------------------------------
(* User-wide revocations: RevocationCutsOff is inductive together with how  *)
(* long the blacklist entry lasts.                                         *)

\* The block a revocation leaves outlives every access token made before it.
CutBlocked ==
  cut # NoToken =>
    IF userBl = 0 THEN cut + AccessTTL <= now ELSE cut + AccessTTL <= userBl

CutInv == CutBlocked /\ RevocationCutsOff

\* Requests come to the last check of the middleware in AuthUser only.
LEMMA CutKept ==
  ASSUME CutInv, UNCHANGED <<now, userBl, cut>>,
         \A q \in Req : req'[q].pc = "auth_session" => req'[q] = req[q]
  PROVE  CutInv'
BY DEF CutInv, CutBlocked, RevocationCutsOff

LEMMA CutGoto ==
  ASSUME TypeOK, CutInv, UNCHANGED <<now, userBl, cut>>, NEW r \in Req,
         Finish(r) \/ \E step \in Steps \ {"auth_session"} : Goto(r, step)
  PROVE  CutInv'
<1>1. req \in [Req -> Request]
  BY DEF TypeOK
<1>2. CASE Finish(r)
  BY <1>1, <1>2, CutKept, FinishEffect DEF Idle
<1>3. CASE \E step \in Steps \ {"auth_session"} : Goto(r, step)
  BY <1>1, <1>3, CutKept, GotoEffect
<1> QED
  BY <1>2, <1>3

LEMMA CutBegin ==
  ASSUME TypeOK, CutInv, UNCHANGED <<now, userBl, cut>>, NEW r \in Req,
         NEW step \in Steps \ {"auth_session"}, NEW goal, NEW sid, NEW iat, NEW fresh,
         NEW target, Begin(r, step, goal, sid, iat, fresh, target)
  PROVE  CutInv'
<1>1. req \in [Req -> Request]
  BY DEF TypeOK
<1> QED
  BY <1>1, CutKept DEF Begin

LEMMA NextCut == TypeOK /\ Shape /\ CutInv /\ [Next]_vars => CutInv'
<1> SUFFICES ASSUME TypeOK, Shape, CutInv, [Next]_vars PROVE CutInv'
  OBVIOUS
<1> USE DEF redisVars, history, vars
<1>0. req \in [Req -> Request]
  BY DEF TypeOK
<1>1. CASE UNCHANGED vars
  BY <1>1, CutKept
<1>2. CASE Tick
  <2>1. /\ now' = now + 1 /\ req' = req /\ cut' = cut
        /\ userBl' = IF userBl <= now + 1 THEN 0 ELSE userBl
        /\ now \in Nat /\ userBl \in Nat /\ cut \in Int
    BY <1>2 DEF Tick, Lapse, TypeOK, Time, NoToken, Forever
  <2>2. CutBlocked'
    BY <2>1 DEF CutInv, CutBlocked, NoToken
  <2>3. ASSUME NEW q \in Req, req[q].pc = "auth_session",
               now + 1 < req[q].iat + AccessTTL
        PROVE  req[q].iat >= req[q].cut
    <3>1. req[q].iat \in Time
      BY <2>3 DEF Shape, WellFormed, AuthSteps
    <3> QED
      BY <2>1, <2>3, <3>1 DEF CutInv, RevocationCutsOff, Time
  <2> QED
    BY <2>1, <2>2, <2>3 DEF CutInv, RevocationCutsOff
<1>3. ASSUME NEW r \in Req, AuthUser(r) PROVE CutInv'
  <2>1. CASE userBl # 0
    BY <1>3, <2>1, CutGoto DEF AuthUser
  <2>2. CASE userBl = 0
    <3>1. /\ req[r].pc = "auth_user"
          /\ req' = [req EXCEPT ![r].pc = "auth_session", ![r].cut = cut]
          /\ UNCHANGED <<now, userBl, cut>>
      BY <1>3, <2>2 DEF AuthUser
    <3>2. /\ req'[r].iat = req[r].iat /\ req'[r].cut = cut
          /\ \A q \in Req \ {r} : req'[q] = req[q]
      BY ZenonT(60), <1>0, <3>1, CutEffect DEF TypeOK, Steps, AuthSteps
    <3>3. /\ req[r].iat \in Time /\ now \in Time
          /\ cut \in Time \cup {NoToken}
      BY <3>1 DEF Shape, WellFormed, AuthSteps, TypeOK
    <3>4. now < req[r].iat + AccessTTL => req[r].iat >= cut
      BY <2>2, <3>3 DEF CutInv, CutBlocked, Time, NoToken
    <3> QED
      BY <3>1, <3>2, <3>4 DEF CutInv, CutBlocked, RevocationCutsOff
  <2> QED
    BY <2>1, <2>2
<1>4. ASSUME NEW r \in Req, ClearBlacklist(r) PROVE CutInv'
  <2>1. /\ \A q \in Req : req'[q].pc = "auth_session" => req'[q] = req[q]
        /\ cut' = NoToken /\ now' = now
    BY <1>0, <1>4, FinishEffect DEF ClearBlacklist, Idle
  <2> QED
    BY <2>1 DEF CutInv, CutBlocked, RevocationCutsOff
<1>5. ASSUME NEW r \in Req, BlacklistUser(r) PROVE CutInv'
  <2>1. /\ \A q \in Req : req'[q].pc = "auth_session" => req'[q] = req[q]
        /\ cut' = now /\ now' = now /\ userBl' = now + BlacklistFor(req[r].goal)
    BY <1>0, <1>5, FinishEffect DEF BlacklistUser, Idle
  <2>2. /\ now \in Nat
        /\ BlacklistFor(req[r].goal) \in Nat /\ BlacklistFor(req[r].goal) >= AccessTTL
    BY DEF BlacklistFor, TypeOK, Time
  <2>3. userBl' # 0 /\ now + AccessTTL <= userBl'
    BY <2>1, <2>2
  <2> QED
    BY <2>1, <2>3 DEF CutInv, CutBlocked, RevocationCutsOff
<1>6. ASSUME NEW r \in Req,
             \/ \E s \in Sid : Login(r, s)
             \/ \E s \in Sid, iat \in Time : Refresh(r, s, iat)
             \/ \E s \in Sid, iat \in Time, goal \in Goals, target \in Sid :
                  Authenticate(r, s, iat, goal, target)
             \/ ResetPassword(r) \/ AdminRevokeAll(r)
             \/ \E s \in Sid : AdminRevokeOne(r, s)
      PROVE  CutInv'
  BY ZenonT(60), <1>6, CutBegin DEF Login, Refresh, Authenticate, ResetPassword, AdminRevokeAll,
     AdminRevokeOne, Steps, CreateSteps, RefreshSteps, AuthSteps, DeleteSteps, DeleteAllSteps
<1>7. ASSUME NEW r \in Req,
             \/ CreateHash(r) \/ CreateExpire(r) \/ CreateIndex(r) \/ CreateMeta(r)
             \/ RefreshSet(r) \/ RefreshExpire(r) \/ RefreshTouch(r) \/ DelHash(r)
             \/ DropIndex(r) \/ KeepIndex(r) \/ BlacklistToken(r)
      PROVE  CutInv'
  BY <1>7, CutGoto DEF CreateHash, CreateExpire, CreateIndex, CreateMeta, RefreshSet,
     RefreshExpire, RefreshTouch, DelHash, DropIndex, KeepIndex, BlacklistToken, AfterDrop,
     Steps, CreateSteps, RefreshSteps, DeleteSteps, DeleteAllSteps
<1>8. ASSUME NEW r \in Req, AuthSession(r) PROVE CutInv'
  <2>1. req[r].goal \in ProtectedGoals
    BY <1>8 DEF AuthSession, Shape, WellFormed, AuthSteps
  <2> QED
    BY <1>8, <2>1, CutGoto DEF AuthSession, Proceed, FirstStep, ProtectedGoals,
       Steps, DeleteSteps, DeleteAllSteps
<1>9. ASSUME NEW r \in Req, DelIndex(r) PROVE CutInv'
  <2>1. req[r].goal \in {"logout", "revoke", "adminOne"}
    BY <1>9 DEF DelIndex, Shape, WellFormed, DeleteSteps
  <2> QED
    BY <1>9, <2>1, CutGoto DEF DelIndex, Proceed, AfterDelete, Steps
<1>10. ASSUME NEW r \in Req, List(r) \/ \E s \in Sid : DelEach(r, s) PROVE CutInv'
  <2>1. CASE List(r)
    <3>1. \A q \in Req : req'[q].pc = "auth_session" => req'[q] = req[q]
      BY <1>0, <2>1 DEF List
    <3> QED
      BY <2>1, <3>1, CutKept DEF List
  <2>2. CASE \E s \in Sid : DelEach(r, s)
    <3>1. \A q \in Req : req'[q].pc = "auth_session" => req'[q] = req[q]
      BY <1>0, <2>2 DEF DelEach
    <3> QED
      BY <2>2, <3>1, CutKept DEF DelEach
  <2> QED
    BY <1>10, <2>1, <2>2
<1>11. ASSUME NEW r \in Req, Fail(r) PROVE CutInv'
  <2>1. CASE /\ req[r].pc = "del_each"
             /\ \E s \in req[r].todo : req' = [req EXCEPT ![r].todo = @ \ {s}]
    BY <1>0, <1>11, <2>1, CutKept DEF Fail
  <2>2. CASE req[r].pc = "del_index" /\ Proceed(r, AfterDelete[req[r].goal])
    <3>1. req[r].goal \in {"logout", "revoke", "adminOne"}
      BY <2>2 DEF Shape, WellFormed, DeleteSteps
    <3> QED
      BY <1>11, <2>2, <3>1, CutGoto DEF Fail, Proceed, AfterDelete, Steps
  <2>3. CASE req[r].pc \in DOMAIN AfterWarning /\ Goto(r, AfterWarning[req[r].pc])
    BY <1>11, <2>3, CutGoto DEF Fail, AfterWarning, Steps, CreateSteps, RefreshSteps
  <2>4. CASE Finish(r)
    BY <1>11, <2>4, CutGoto DEF Fail
  <2>5. CASE \/ Proceed(r, IF req[r].goal = "delete" THEN "bl_user" ELSE "idle")
             \/ Proceed(r, AfterDrop(r))
    BY <1>11, <2>5, CutGoto DEF Fail, Proceed, AfterDrop, Steps, DeleteAllSteps
  <2> QED
    BY <1>11, <2>1, <2>2, <2>3, <2>4, <2>5 DEF Fail
<1> QED
  BY <1>1, <1>2, <1>3, <1>4, <1>5, <1>6, <1>7, <1>8, <1>9, <1>10, <1>11 DEF Next, Serve

\* From a user-wide revocation to the next login the middleware lets no access token
\* through that was made before it: BlacklistUser leaves an entry at least as long as an
\* access token lives (session/service.go, gui_handler.go), so it cannot lapse between
\* the middleware's read of the blacklist and its read of the session.
THEOREM RevocationIsCutOff == Spec => []RevocationCutsOff
<1>1. Init => CutInv
  BY DEF Init, CutInv, CutBlocked, RevocationCutsOff, Idle
<1>2. Spec => [](TypeOK /\ Shape /\ CutInv)
  BY InitTyped, NextTyped, NextCut, <1>1, PTL DEF Spec
<1>3. CutInv => RevocationCutsOff
  BY DEF CutInv
<1> QED
  BY <1>2, <1>3, PTL

-----------------------------------------------------------------------------
(***************************************************************************)
(* RevivedOnlyByRace, KeysExpire and HashOutlivesToken of Sessions.        *)
(*                                                                         *)
(* The first is not inductive: a session could come back through a late    *)
(* CreateSession, or through a refresh whose presented token an ended hash *)
(* still stores.  RaceInv adds why neither happens: every identifier that  *)
(* a request, an issued token or a live hash names has been created once,  *)
(* and an ended hash stores nothing.                                       *)
(***************************************************************************)

\* Identifiers whose hash has been created.
Created ==
  {s \in used : \A r \in Req : req[r].pc = "create_hash" => req[r].sid # s}

\* The steps at which a request has a session of its own that was created.
Owning == (CreateSteps \ {"create_hash"}) \cup RefreshSteps \cup AuthSteps

Handles(q, C) ==
  /\ q.pc \in Owning => q.sid \in C
  /\ q.pc \in AuthSteps \cup {"del_hash"} => q.target \in C
  /\ q.todo \subseteq C

Quiet == ended \ raced

CreatedOnce ==
  \A r \in Req : req[r].pc = "create_hash" =>
    /\ req[r].sid \in used
    /\ \A q \in Req \ {r} : req[q].pc = "create_hash" => req[q].sid # req[r].sid
LiveCreated == \A s \in Sid : IF Live(s) THEN s \in Created ELSE hash[s] = Gone
IssuedCreated == \A p \in issued : p[1] \in Created
SlotsCreated == \A r \in Req : Handles(req[r], Created)
EndedQuiet == \A s \in Quiet : ~Live(s) /\ Refreshing(s) = {}

RaceInv ==
  /\ CreatedOnce /\ LiveCreated /\ IssuedCreated /\ SlotsCreated /\ EndedQuiet
  /\ ended \subseteq Created

-----------------------------------------------------------------------------
(* The three ways a step moves a request.                                  *)

\* Request r goes on, alone, and ends no session.
LEMMA SlotStep ==
  ASSUME TypeOK, RaceInv, NEW r \in Req,
         \A q \in Req \ {r} : req'[q] = req[q],
         UNCHANGED <<used, ended, raced>>,
         req'[r].pc # "create_hash",
         \A x \in Sid : \/ hash'[x] = hash[x]
                        \/ hash'[x].exp # 0 /\ x \in Created' /\ x \notin Quiet,
         \A p \in issued' : p \in issued \/ p[1] \in Created,
         Handles(req'[r], Created'),
         req'[r].pc \in RefreshSteps => req'[r].sid \notin Quiet
  PROVE  RaceInv'
<1>1. Created \subseteq Created'
  BY DEF Created
<1>2. CreatedOnce'
  BY DEF RaceInv, CreatedOnce
<1>3. LiveCreated'
  BY <1>1 DEF RaceInv, LiveCreated, Live
<1>4. IssuedCreated'
  BY <1>1 DEF RaceInv, IssuedCreated
<1>5. SlotsCreated'
  BY <1>1 DEF RaceInv, SlotsCreated, Handles
<1>6. EndedQuiet'
  <2> SUFFICES ASSUME NEW s \in Quiet PROVE ~Live(s)' /\ Refreshing(s)' = {}
    BY DEF EndedQuiet, Quiet
  <2>1. s \in Sid /\ ~Live(s) /\ Refreshing(s) = {}
    BY DEF RaceInv, EndedQuiet, TypeOK, Quiet
  <2>2. ~Live(s)'
    BY <2>1 DEF Live
  <2>3. Refreshing(s)' = {}
    BY <2>1 DEF Refreshing
  <2> QED
    BY <2>2, <2>3
<1>7. (ended \subseteq Created)'
  BY <1>1 DEF RaceInv
<1> QED
  BY <1>2, <1>3, <1>4, <1>5, <1>6, <1>7 DEF RaceInv

\* The sessions of S end; at most one request moves, and not a refresh.
LEMMA EndStep ==
  ASSUME TypeOK, RaceInv, NEW S \in SUBSET Created, End(S),
         hash' = [s \in Sid |-> IF s \in S THEN Gone ELSE hash[s]],
         UNCHANGED <<used, issued>>,
         \A q \in Req : \/ req'[q] = req[q]
                        \/ /\ Handles(req'[q], Created)
                           /\ req'[q].pc \notin RefreshSteps \cup {"create_hash"}
  PROVE  RaceInv'
<1>1. Created \subseteq Created'
  BY DEF Created
<1>2. CreatedOnce'
  BY DEF RaceInv, CreatedOnce
<1>3. LiveCreated'
  BY <1>1 DEF RaceInv, LiveCreated, Live, Gone
<1>4. IssuedCreated'
  BY <1>1 DEF RaceInv, IssuedCreated
<1>5. SlotsCreated'
  BY <1>1 DEF RaceInv, SlotsCreated, Handles
<1>6. EndedQuiet'
  <2> SUFFICES ASSUME NEW s \in Quiet' PROVE ~Live(s)' /\ Refreshing(s)' = {}
    BY DEF EndedQuiet
  <2>1. s \in Sid
    BY DEF Quiet, End, TypeOK, Created
  <2>2. s \in Quiet \/ (s \in S /\ Refreshing(s) = {})
    BY DEF Quiet, End
  <2>3. Refreshing(s) = {}
    BY <2>2 DEF RaceInv, EndedQuiet
  <2>4. ~Live(s)'
    BY <2>1, <2>2 DEF RaceInv, EndedQuiet, Live, Gone
  <2>5. Refreshing(s)' \subseteq Refreshing(s)
    BY DEF Refreshing
  <2> QED
    BY <2>3, <2>4, <2>5
<1>7. (ended \subseteq Created)'
  BY <1>1 DEF RaceInv, End
<1> QED
  BY <1>2, <1>3, <1>4, <1>5, <1>6, <1>7 DEF RaceInv

\* Request r finishes and leaves the hashes alone.
LEMMA FinishStep ==
  ASSUME TypeOK, RaceInv, NEW r \in Req, Finish(r),
         UNCHANGED <<hash, used, ended, raced>>,
         \A p \in issued' : p \in issued \/ p[1] \in Created
  PROVE  RaceInv'
<1>1. req'[r] = Idle /\ \A q \in Req \ {r} : req'[q] = req[q]
  BY FinishEffect DEF TypeOK
<1> QED
  BY <1>1, SlotStep DEF Idle, Handles, Owning, CreateSteps, RefreshSteps, AuthSteps

\* Request r goes on with the session, the target and the list it had.
LEMMA MoveStep ==
  ASSUME TypeOK, RaceInv, NEW r \in Req, NEW step \in Steps \ {"create_hash"},
         Goto(r, step),
         step \in Owning => req[r].pc \in Owning,
         step \in AuthSteps \cup {"del_hash"} => req[r].pc \in AuthSteps,
         step \in RefreshSteps => req[r].pc \in RefreshSteps,
         UNCHANGED <<issued, used, ended, raced>>,
         \A x \in Sid : \/ hash'[x] = hash[x]
                        \/ hash'[x].exp # 0 /\ x \in Created /\ x \notin Quiet
  PROVE  RaceInv'
<1>1. /\ req'[r].pc = step
      /\ req'[r].sid = req[r].sid
      /\ req'[r].target = req[r].target
      /\ req'[r].todo = req[r].todo
      /\ \A q \in Req \ {r} : req'[q] = req[q]
  BY GotoEffect DEF TypeOK
<1>2. Created \subseteq Created'
  BY <1>1 DEF Created
<1>3. Handles(req[r], Created)
  BY DEF RaceInv, SlotsCreated
<1>4. Handles(req'[r], Created')
  BY <1>1, <1>2, <1>3 DEF Handles
<1>5. req'[r].pc \in RefreshSteps => req'[r].sid \notin Quiet
  BY <1>1 DEF RaceInv, EndedQuiet, Refreshing
<1>6. \A x \in Sid : \/ hash'[x] = hash[x]
                     \/ hash'[x].exp # 0 /\ x \in Created' /\ x \notin Quiet
  BY <1>2
<1> QED
  BY <1>1, <1>4, <1>5, <1>6, SlotStep

\* An idle slot takes up a request for a session that was created.
LEMMA BeginStep ==
  ASSUME TypeOK, RaceInv, NEW r \in Req,
         \A q \in Req \ {r} : req'[q] = req[q],
         UNCHANGED <<hash, issued, used, ended, raced>>,
         req'[r].pc # "create_hash", req'[r].todo = {},
         req'[r].pc \in Owning => req'[r].sid \in Created,
         req'[r].pc \in AuthSteps \cup {"del_hash"} => req'[r].target \in Created,
         req'[r].pc \in RefreshSteps => req'[r].sid \notin Quiet
  PROVE  RaceInv'
<1>1. Created \subseteq Created'
  BY DEF Created
<1>2. Handles(req'[r], Created')
  BY <1>1 DEF Handles
<1> QED
  BY <1>2, SlotStep

-----------------------------------------------------------------------------
LEMMA InitRace == Init => RaceInv
BY DEF Init, RaceInv, CreatedOnce, LiveCreated, IssuedCreated, SlotsCreated,
       EndedQuiet, Handles, Created, Quiet, Refreshing, Live, Gone, Idle, Owning,
       CreateSteps, RefreshSteps, AuthSteps

\* The handlers that create or rotate a session.
LEMMA LoginRace ==
  ASSUME TypeOK, RaceInv, NEW r \in Req, NEW s \in Sid, Login(r, s)
  PROVE  RaceInv'
<1>1. /\ req'[r] = [pc |-> "create_hash", goal |-> "login", sid |-> s, iat |-> NoToken,
                    fresh |-> now, target |-> NoSid, todo |-> {}, cut |-> NoToken]
      /\ \A q \in Req \ {r} : req'[q] = req[q]
  <2>1. Begin(r, "create_hash", "login", s, NoToken, now, NoSid)
    BY DEF Login
  <2>2. /\ "login" \in Goals /\ "create_hash" \in Steps
        /\ NoToken \in Time \cup {NoToken} /\ now \in Time \cup {NoToken}
    BY DEF Login, Steps, CreateSteps, TypeOK
  <2>3. req \in [Req -> Request] /\ s \in Sid \cup {NoSid} /\ NoSid \in Sid \cup {NoSid}
    BY DEF TypeOK
  <2> QED
    BY <2>1, <2>2, <2>3, BeginEffect
<1>2. /\ s \notin used /\ used' = used \cup {s} /\ req[r].pc = "idle"
      /\ UNCHANGED <<hash, issued, ended, raced>>
  BY DEF Login, redisVars
<1>3. Created \subseteq Created'
  BY <1>1, <1>2 DEF Created
<1>4. CreatedOnce'
  BY <1>1, <1>2 DEF RaceInv, CreatedOnce
<1>5. LiveCreated' /\ IssuedCreated' /\ (ended \subseteq Created)'
  BY <1>2, <1>3 DEF RaceInv, LiveCreated, IssuedCreated, Live
<1>6. SlotsCreated'
  BY <1>1, <1>3 DEF RaceInv, SlotsCreated, Handles, Owning, CreateSteps,
     RefreshSteps, AuthSteps
<1>7. EndedQuiet'
  <2>1. \A q \in Req : req'[q] = req[q] \/ req'[q].pc \notin RefreshSteps
    BY <1>1 DEF RefreshSteps
  <2> QED
    BY <1>2, <2>1 DEF RaceInv, EndedQuiet, Quiet, Refreshing, Live
<1> QED
  BY <1>4, <1>5, <1>6, <1>7 DEF RaceInv

LEMMA CreateHashRace ==
  ASSUME TypeOK, Shape, RaceInv, NEW r \in Req, CreateHash(r)
  PROVE  RaceInv'
<1> DEFINE s == req[r].sid
<1>1. /\ req'[r].pc = "create_expire" /\ req'[r].sid = s
      /\ req'[r].todo = req[r].todo
      /\ \A q \in Req \ {r} : req'[q] = req[q]
  <2>1. Goto(r, "create_expire") /\ "create_expire" \in Steps
    BY DEF CreateHash, Steps, CreateSteps
  <2> QED
    BY <2>1, GotoEffect DEF TypeOK
<1>2. /\ req[r].pc = "create_hash" /\ s \in Sid
      /\ UNCHANGED <<issued, used, ended, raced>>
  BY DEF CreateHash, history, Shape, WellFormed, CreateSteps
<1>3. s \in Created' /\ Created \subseteq Created'
  BY <1>1, <1>2 DEF RaceInv, CreatedOnce, Created
<1>4. s \notin Quiet
  BY <1>2 DEF RaceInv, Created, Quiet
<1>5. \A x \in Sid : \/ hash'[x] = hash[x]
                     \/ hash'[x].exp # 0 /\ x \in Created' /\ x \notin Quiet
  <2>1. hash' = [hash EXCEPT ![s] = [user |-> TRUE, token |-> req[r].fresh, exp |-> Forever]]
    BY DEF CreateHash
  <2>2. Forever # 0
    BY SessionsAssumption DEF Forever
  <2> QED
    BY <1>2, <1>3, <1>4, <2>1, <2>2 DEF TypeOK
<1>6. Handles(req'[r], Created')
  BY <1>1, <1>3 DEF Handles, RaceInv, SlotsCreated, AuthSteps
<1> QED
  BY <1>1, <1>2, <1>5, <1>6, SlotStep DEF RefreshSteps

\* EXPIRE revives nothing.
LEMMA ExpireRace ==
  ASSUME TypeOK, RaceInv, NEW s \in Sid, hash' = Expire(s)
  PROVE  \A x \in Sid : \/ hash'[x] = hash[x]
                        \/ hash'[x].exp # 0 /\ x \in Created /\ x \notin Quiet
<1>1. now + RefreshTTL # 0
  BY SessionsAssumption DEF TypeOK, Time
<1>2. CASE Live(s)
  <2>1. s \in Created /\ s \notin Quiet
    BY <1>2 DEF RaceInv, LiveCreated, EndedQuiet
  <2>2. hash' = [hash EXCEPT ![s].exp = now + RefreshTTL]
    BY <1>2 DEF Expire
  <2>3. hash'[s].exp # 0
    BY <1>1, <2>2 DEF TypeOK, Hash
  <2> QED
    BY <2>1, <2>2, <2>3 DEF TypeOK
<1>3. CASE ~Live(s)
  BY <1>3 DEF Expire
<1> QED
  BY <1>2, <1>3

\* HSET by a refresh in flight.
LEMMA HSetRace ==
  ASSUME TypeOK, Shape, RaceInv, NEW r \in Req, req[r].pc \in RefreshSteps,
         NEW h \in Hash, h.exp = hash[req[r].sid].exp,
         hash' = [hash EXCEPT ![req[r].sid] = HSet(req[r].sid, h)]
  PROVE  \A x \in Sid : \/ hash'[x] = hash[x]
                        \/ hash'[x].exp # 0 /\ x \in Created /\ x \notin Quiet
<1> DEFINE s == req[r].sid
<1>1. s \in Sid /\ s \in Created /\ s \notin Quiet
  BY DEF Shape, WellFormed, RaceInv, SlotsCreated, Handles, Owning, EndedQuiet, Refreshing
<1>2. HSet(s, h).exp # 0
  <2>1. Forever # 0
    BY SessionsAssumption DEF Forever
  <2> QED
    BY <2>1 DEF HSet, Live, Hash
<1> QED
  BY <1>1, <1>2 DEF TypeOK

\* A deletion goes on to what its goal asks for next.
LEMMA DeletedRace ==
  ASSUME TypeOK, Shape, RaceInv, NEW r \in Req, req[r].pc = "del_index",
         Proceed(r, AfterDelete[req[r].goal]),
         UNCHANGED <<hash, issued, used, ended, raced>>
  PROVE  RaceInv'
<1>1. req[r].goal \in {"logout", "revoke", "adminOne"}
  BY DEF Shape, WellFormed, DeleteSteps
<1>2. Finish(r) \/ Goto(r, "bl_token") \/ Goto(r, "bl_user")
  BY <1>1 DEF Proceed, AfterDelete
<1>3. CASE Finish(r)
  BY <1>3, FinishStep
<1>4. CASE Goto(r, "bl_token") \/ Goto(r, "bl_user")
  BY <1>4, MoveStep DEF Steps, Owning, CreateSteps, RefreshSteps, AuthSteps
<1> QED
  BY <1>2, <1>3, <1>4

\* A Redis command fails.
LEMMA FailRace ==
  ASSUME TypeOK, Shape, RaceInv, NEW r \in Req, Fail(r)
  PROVE  RaceInv'
<1>1. UNCHANGED <<hash, used, ended, raced>>
  BY DEF Fail, redisVars, history
<1>2. CASE Finish(r) /\ issued' = issued
  BY <1>1, <1>2, FinishStep
<1>3. CASE /\ req[r].pc \in {"clear_blacklist", "refresh_touch"}
           /\ issued' = issued \cup {<<req[r].sid, req[r].fresh>>}
           /\ Finish(r)
  <2>1. req[r].sid \in Created
    BY <1>3 DEF RaceInv, SlotsCreated, Handles, Owning, CreateSteps, RefreshSteps
  <2> QED
    BY <1>1, <1>3, <2>1, FinishStep
<1>4. CASE /\ req[r].pc \in DOMAIN AfterWarning
           /\ Goto(r, AfterWarning[req[r].pc])
           /\ issued' = issued
  <2>1. \/ req[r].pc = "create_meta" /\ Goto(r, "clear_blacklist")
        \/ req[r].pc = "refresh_expire" /\ Goto(r, "refresh_touch")
    BY <1>4 DEF AfterWarning
  <2> QED
    BY <1>1, <1>4, <2>1, MoveStep DEF Steps, Owning, CreateSteps, RefreshSteps, AuthSteps
<1>5. CASE /\ req[r].pc = "del_index"
           /\ Proceed(r, AfterDelete[req[r].goal])
           /\ issued' = issued
  BY <1>1, <1>5, DeletedRace
<1>6. CASE /\ Goto(r, "bl_user") \/ Goto(r, "keep_index")
           /\ issued' = issued
  BY <1>1, <1>6, MoveStep
  DEF Steps, DeleteAllSteps, Owning, CreateSteps, RefreshSteps, AuthSteps
<1>7. CASE /\ req[r].pc = "del_each"
           /\ \E s \in req[r].todo : req' = [req EXCEPT ![r].todo = @ \ {s}]
           /\ issued' = issued
  <2>1. PICK s \in req[r].todo : req' = [req EXCEPT ![r].todo = @ \ {s}]
    BY <1>7
  <2>2. /\ req'[r].pc = "del_each" /\ req'[r].todo \subseteq req[r].todo
        /\ \A q \in Req \ {r} : req'[q] = req[q]
    BY <1>7, <2>1, RemoveTodoEffect DEF TypeOK
  <2>3. Created \subseteq Created' /\ Handles(req[r], Created)
    BY <1>1, <2>2 DEF Created, RaceInv, SlotsCreated
  <2>4. Handles(req'[r], Created')
    BY <2>2, <2>3 DEF Handles, Owning, CreateSteps, RefreshSteps, AuthSteps
  <2> QED
    BY <1>1, <1>7, <2>2, <2>4, SlotStep DEF RefreshSteps
<1> QED
  BY <1>2, <1>3, <1>4, <1>5, <1>6, <1>7 DEF Fail, Proceed, AfterDrop

-----------------------------------------------------------------------------
LEMMA NextRace == TypeOK /\ Shape /\ RaceInv /\ [Next]_vars => RaceInv'
<1> SUFFICES ASSUME TypeOK, Shape, RaceInv, [Next]_vars PROVE RaceInv'
  OBVIOUS
<1>0. req \in [Req -> Request] /\ Created \subseteq Sid
  BY DEF TypeOK, Created
<1>1. CASE UNCHANGED vars
  <2>1. UNCHANGED <<hash, issued, req, used, ended, raced>>
    BY <1>1 DEF vars, redisVars, history
  <2>2. UNCHANGED <<Created, Quiet>> /\ \A s \in Sid : UNCHANGED <<Live(s), Refreshing(s)>>
    BY <2>1 DEF Created, Quiet, Refreshing, Live
  <2>3. CreatedOnce' /\ LiveCreated' /\ IssuedCreated'
    BY <2>1, <2>2 DEF RaceInv, CreatedOnce, LiveCreated, IssuedCreated
  <2>4. SlotsCreated' /\ (ended \subseteq Created)'
    BY <2>1, <2>2 DEF RaceInv, SlotsCreated
  <2>5. EndedQuiet'
    BY <2>1, <2>2 DEF RaceInv, EndedQuiet, Quiet, TypeOK
  <2> QED
    BY <2>3, <2>4, <2>5 DEF RaceInv
<1>2. CASE Tick
  <2> DEFINE lapsed == {s \in Sid : Live(s) /\ Lapse(hash[s].exp) = 0}
  <2>1. lapsed \in SUBSET Created
    BY DEF RaceInv, LiveCreated
  <2>2. /\ hash' = [s \in Sid |-> IF s \in lapsed THEN Gone ELSE hash[s]]
        /\ End(lapsed) /\ UNCHANGED <<used, issued, req>>
    BY <1>2 DEF Tick
  <2> HIDE DEF lapsed
  <2> QED
    BY <2>1, <2>2, EndStep
<1>3. ASSUME NEW r \in Req, NEW s \in Sid, Login(r, s) PROVE RaceInv'
  BY <1>3, LoginRace
<1>4. ASSUME NEW r \in Req, CreateHash(r) PROVE RaceInv'
  BY <1>4, CreateHashRace
<1>5. ASSUME NEW r \in Req, CreateExpire(r) PROVE RaceInv'
  <2>1. /\ req[r].pc = "create_expire" /\ Goto(r, "create_index")
        /\ hash' = Expire(req[r].sid) /\ req[r].sid \in Sid
        /\ UNCHANGED <<issued, used, ended, raced>>
    BY <1>5 DEF CreateExpire, history, Shape, WellFormed, CreateSteps
  <2> QED
    BY <2>1, ExpireRace, MoveStep DEF Steps, Owning, CreateSteps, RefreshSteps, AuthSteps
<1>6. ASSUME NEW r \in Req, CreateIndex(r) PROVE RaceInv'
  <2>1. /\ req[r].pc = "create_index" /\ Goto(r, "create_meta")
        /\ UNCHANGED <<hash, issued, used, ended, raced>>
    BY <1>6 DEF CreateIndex, history
  <2> QED
    BY <2>1, MoveStep DEF Steps, Owning, CreateSteps, RefreshSteps, AuthSteps
<1>7. ASSUME NEW r \in Req, CreateMeta(r) PROVE RaceInv'
  <2>1. /\ req[r].pc = "create_meta" /\ Goto(r, "clear_blacklist")
        /\ UNCHANGED <<hash, issued, used, ended, raced>>
    BY <1>7 DEF CreateMeta, history
  <2> QED
    BY <2>1, MoveStep DEF Steps, Owning, CreateSteps, RefreshSteps, AuthSteps
<1>8. ASSUME NEW r \in Req, ClearBlacklist(r) PROVE RaceInv'
  <2>1. req[r].sid \in Created
    BY <1>8 DEF ClearBlacklist, RaceInv, SlotsCreated, Handles, Owning, CreateSteps
  <2> QED
    BY <1>8, <2>1, FinishStep DEF ClearBlacklist
<1>9. ASSUME NEW r \in Req, NEW s \in Sid, NEW iat \in Time, Refresh(r, s, iat)
      PROVE  RaceInv'
  <2>1. /\ req'[r] = [pc |-> "refresh_set", goal |-> "refresh", sid |-> s, iat |-> iat,
                      fresh |-> now, target |-> NoSid, todo |-> {}, cut |-> NoToken]
        /\ \A q \in Req \ {r} : req'[q] = req[q]
    <3>1. Begin(r, "refresh_set", "refresh", s, iat, now, NoSid)
      BY <1>9 DEF Refresh
    <3>2. /\ "refresh" \in Goals /\ "refresh_set" \in Steps
          /\ iat \in Time \cup {NoToken} /\ now \in Time \cup {NoToken}
      BY <1>9 DEF Refresh, Steps, RefreshSteps, TypeOK
    <3> QED
      BY <1>0, <3>1, <3>2, BeginEffect
  <2>2. s \in Created
    BY <1>9 DEF Refresh, RaceInv, IssuedCreated
  <2>3. s \notin Quiet
    <3>1. hash[s].token = iat
      BY <1>9 DEF Refresh, Refreshable
    <3>2. hash[s] # Gone
      BY <3>1 DEF Gone, NoToken, Time
    <3> QED
      BY <3>2 DEF RaceInv, EndedQuiet, LiveCreated
  <2> QED
    BY <1>9, <2>1, <2>2, <2>3, BeginStep DEF Refresh, redisVars, history, AuthSteps
<1>10. ASSUME NEW r \in Req, RefreshSet(r) PROVE RaceInv'
  <2> DEFINE h == [hash[req[r].sid] EXCEPT !.token = req[r].fresh]
  <2>1. /\ req[r].pc = "refresh_set" /\ Goto(r, "refresh_expire")
        /\ hash' = [hash EXCEPT ![req[r].sid] = HSet(req[r].sid, h)]
        /\ UNCHANGED <<issued, used, ended, raced>>
    BY <1>10 DEF RefreshSet, history
  <2>2. req[r].sid \in Sid /\ req[r].fresh \in Time
    BY <2>1 DEF Shape, WellFormed, RefreshSteps
  <2>3. h \in Hash /\ h.exp = hash[req[r].sid].exp
    BY <2>2 DEF TypeOK, Hash
  <2> HIDE DEF h
  <2>4. \A x \in Sid : \/ hash'[x] = hash[x]
                       \/ hash'[x].exp # 0 /\ x \in Created /\ x \notin Quiet
    BY <2>1, <2>3, HSetRace DEF RefreshSteps
  <2> QED
    BY <2>1, <2>4, MoveStep DEF Steps, Owning, CreateSteps, RefreshSteps, AuthSteps
<1>11. ASSUME NEW r \in Req, RefreshExpire(r) PROVE RaceInv'
  <2>1. /\ req[r].pc = "refresh_expire" /\ Goto(r, "refresh_touch")
        /\ hash' = Expire(req[r].sid) /\ req[r].sid \in Sid
        /\ UNCHANGED <<issued, used, ended, raced>>
    BY <1>11 DEF RefreshExpire, history, Shape, WellFormed, RefreshSteps
  <2> QED
    BY <2>1, ExpireRace, MoveStep DEF Steps, Owning, CreateSteps, RefreshSteps, AuthSteps
<1>12. ASSUME NEW r \in Req, RefreshTouch(r) PROVE RaceInv'
  <2>1. /\ req[r].pc = "refresh_touch" /\ Finish(r)
        /\ hash' = [hash EXCEPT ![req[r].sid] = HSet(req[r].sid, hash[req[r].sid])]
        /\ issued' = issued \cup {<<req[r].sid, req[r].fresh>>}
        /\ UNCHANGED <<used, ended, raced>>
    BY <1>12 DEF RefreshTouch, history
  <2>2. req[r].sid \in Sid /\ req[r].sid \in Created
    BY <1>0, <2>1 DEF RaceInv, SlotsCreated, Handles, Owning, RefreshSteps
  <2>3. hash[req[r].sid] \in Hash
    BY <2>2 DEF TypeOK
  <2>4. \A x \in Sid : \/ hash'[x] = hash[x]
                       \/ hash'[x].exp # 0 /\ x \in Created /\ x \notin Quiet
    BY <2>1, <2>3, HSetRace DEF RefreshSteps
  <2>5. req'[r] = Idle /\ \A q \in Req \ {r} : req'[q] = req[q]
    BY <1>0, <2>1, FinishEffect
  <2>6. Created \subseteq Created'
    BY <2>1, <2>5 DEF Created, Idle
  <2>7. /\ Handles(req'[r], Created')
        /\ req'[r].pc \notin RefreshSteps \cup {"create_hash"}
    BY <2>5 DEF Idle, Handles, Owning, CreateSteps, RefreshSteps, AuthSteps
  <2>8. \A x \in Sid : \/ hash'[x] = hash[x]
                       \/ hash'[x].exp # 0 /\ x \in Created' /\ x \notin Quiet
    BY <2>4, <2>6
  <2>9. \A p \in issued' : p \in issued \/ p[1] \in Created
    BY <2>1, <2>2
  <2> QED
    BY <2>1, <2>5, <2>7, <2>8, <2>9, SlotStep
<1>13. ASSUME NEW r \in Req, NEW s \in Sid, NEW iat \in Time, NEW goal \in Goals,
              NEW target \in Sid, Authenticate(r, s, iat, goal, target)
       PROVE  RaceInv'
  <2>1. /\ req'[r] = [pc |-> "auth_user", goal |-> goal, sid |-> s, iat |-> iat,
                      fresh |-> NoToken, target |-> target, todo |-> {}, cut |-> NoToken]
        /\ \A q \in Req \ {r} : req'[q] = req[q]
    <3>1. Begin(r, "auth_user", goal, s, iat, NoToken, target)
      BY <1>13 DEF Authenticate
    <3>2. /\ "auth_user" \in Steps
          /\ iat \in Time \cup {NoToken} /\ NoToken \in Time \cup {NoToken}
          /\ s \in Sid \cup {NoSid} /\ target \in Sid \cup {NoSid}
      BY DEF Steps, AuthSteps
    <3> QED
      BY <1>0, <3>1, <3>2, <1>13, BeginEffect
  <2>2. s \in Created
    BY <1>13 DEF Authenticate, RaceInv, IssuedCreated
  <2>3. target \in Created
    BY <1>13, <2>2 DEF Authenticate, Known, Created
  <2> QED
    BY <1>13, <2>1, <2>2, <2>3, BeginStep
    DEF Authenticate, redisVars, history, RefreshSteps
<1>14. ASSUME NEW r \in Req, AuthUser(r) PROVE RaceInv'
  <2>1. CASE userBl = 0
    <3>1. /\ req[r].pc = "auth_user"
          /\ req' = [req EXCEPT ![r].pc = "auth_session", ![r].cut = cut]
          /\ UNCHANGED <<hash, issued, used, ended, raced>>
      BY <1>14, <2>1 DEF AuthUser, redisVars, history
    <3>2. "auth_session" \in Steps /\ cut \in Time \cup {NoToken}
      BY DEF Steps, AuthSteps, TypeOK
    <3>3. /\ req'[r].pc = "auth_session"
          /\ req'[r].sid = req[r].sid
          /\ req'[r].target = req[r].target
          /\ req'[r].todo = req[r].todo
          /\ \A q \in Req \ {r} : req'[q] = req[q]
      <4>1. PICK c \in Time \cup {NoToken} : c = cut
        BY <3>2
      <4>2. req' = [req EXCEPT ![r].pc = "auth_session", ![r].cut = c]
        BY <3>1, <4>1
      <4>3. QED
        BY ZenonT(60), <1>0, <3>2, <4>2, CutEffect
    <3>4. Handles(req[r], Created)
      BY DEF RaceInv, SlotsCreated
    <3>5. Created \subseteq Created'
      <4>1. used' = used /\ \A q \in Req : req'[q].pc = "create_hash" =>
              req[q].pc = "create_hash" /\ req'[q].sid = req[q].sid
        BY <3>1, <3>3
      <4>2. QED
        BY <4>1 DEF Created
    <3>6. Handles(req'[r], Created')
      BY <3>1, <3>3, <3>4, <3>5 DEF Handles, Owning, AuthSteps
    <3> QED
      BY <3>1, <3>3, <3>6, SlotStep DEF RefreshSteps
  <2>2. CASE userBl # 0
    BY <1>14, <2>2, FinishStep DEF AuthUser, redisVars, history
  <2> QED
    BY <2>1, <2>2
<1>15. ASSUME NEW r \in Req, AuthSession(r) PROVE RaceInv'
  <2> DEFINE step == FirstStep[req[r].goal]
  <2>1. /\ req[r].pc = "auth_session" /\ req[r].goal \in ProtectedGoals
        /\ Finish(r) \/ Goto(r, step)
        /\ UNCHANGED <<hash, issued, used, ended, raced>>
    BY <1>15 DEF AuthSession, Proceed, redisVars, history, Shape, WellFormed, AuthSteps
  <2>2. step \in {"idle", "del_hash", "list", "bl_user"}
    BY <2>1 DEF FirstStep, ProtectedGoals
  <2> HIDE DEF step
  <2>3. CASE Finish(r)
    BY <2>1, <2>3, FinishStep
  <2>4. CASE Goto(r, step)
    <3>1. step \in Steps \ {"create_hash"}
      BY <2>2 DEF Steps, DeleteSteps, DeleteAllSteps
    <3>2. step \notin Owning \cup AuthSteps \cup RefreshSteps
      BY <2>2 DEF Owning, CreateSteps, RefreshSteps, AuthSteps
    <3>3. req[r].pc \in AuthSteps
      BY <2>1 DEF AuthSteps
    <3> QED
      BY <2>1, <2>4, <3>1, <3>2, <3>3, MoveStep
  <2> QED
    BY <2>1, <2>3, <2>4
<1>16. ASSUME NEW r \in Req, ResetPassword(r) PROVE RaceInv'
  <2>1. /\ req'[r] = [pc |-> "bl_user", goal |-> "reset", sid |-> NoSid, iat |-> NoToken,
                      fresh |-> NoToken, target |-> NoSid, todo |-> {}, cut |-> NoToken]
        /\ \A q \in Req \ {r} : req'[q] = req[q]
    <3>1. Begin(r, "bl_user", "reset", NoSid, NoToken, NoToken, NoSid)
      BY <1>16 DEF ResetPassword
    <3>2. /\ "reset" \in Goals /\ "bl_user" \in Steps
          /\ NoToken \in Time \cup {NoToken}
      BY <1>16 DEF ResetPassword, Steps, DeleteSteps, DeleteAllSteps
    <3> QED
      BY <1>0, <3>1, <3>2, BeginEffect
  <2> QED
    BY <1>16, <2>1, BeginStep
    DEF ResetPassword, redisVars, history, Owning, CreateSteps, RefreshSteps, AuthSteps
<1>17. ASSUME NEW r \in Req, AdminRevokeAll(r) PROVE RaceInv'
  <2>1. /\ req'[r] = [pc |-> "list", goal |-> "adminAll", sid |-> NoSid, iat |-> NoToken,
                      fresh |-> NoToken, target |-> NoSid, todo |-> {}, cut |-> NoToken]
        /\ \A q \in Req \ {r} : req'[q] = req[q]
    <3>1. Begin(r, "list", "adminAll", NoSid, NoToken, NoToken, NoSid)
      BY <1>17 DEF AdminRevokeAll
    <3>2. /\ "adminAll" \in Goals /\ "list" \in Steps
          /\ NoToken \in Time \cup {NoToken}
      BY <1>17 DEF AdminRevokeAll, Steps, DeleteSteps, DeleteAllSteps
    <3> QED
      BY <1>0, <3>1, <3>2, BeginEffect
  <2> QED
    BY <1>17, <2>1, BeginStep
    DEF AdminRevokeAll, redisVars, history, Owning, CreateSteps, RefreshSteps, AuthSteps
<1>18. ASSUME NEW r \in Req, NEW s \in Sid, AdminRevokeOne(r, s) PROVE RaceInv'
  <2>1. /\ req'[r] = [pc |-> "del_hash", goal |-> "adminOne", sid |-> NoSid, iat |-> NoToken,
                      fresh |-> NoToken, target |-> s, todo |-> {}, cut |-> NoToken]
        /\ \A q \in Req \ {r} : req'[q] = req[q]
    <3>1. Begin(r, "del_hash", "adminOne", NoSid, NoToken, NoToken, s)
      BY <1>18 DEF AdminRevokeOne
    <3>2. /\ "adminOne" \in Goals /\ "del_hash" \in Steps
          /\ NoToken \in Time \cup {NoToken}
      BY <1>18 DEF AdminRevokeOne, Steps, DeleteSteps, DeleteAllSteps
    <3> QED
      BY <1>0, <3>1, <3>2, BeginEffect
  <2>2. s \in Created
    BY <1>18 DEF AdminRevokeOne, Known, Created
  <2> QED
    BY <1>18, <2>1, <2>2, BeginStep
    DEF AdminRevokeOne, redisVars, history, Owning, CreateSteps, RefreshSteps, AuthSteps
<1>19. ASSUME NEW r \in Req, DelHash(r) PROVE RaceInv'
  <2> DEFINE s == req[r].target
  <2>1. /\ req[r].pc = "del_hash" /\ Goto(r, "del_index") /\ End({s})
        /\ hash' = [hash EXCEPT ![s] = Gone]
        /\ UNCHANGED <<used, issued>>
    BY <1>19 DEF DelHash
  <2>2. {s} \in SUBSET Created /\ Handles(req[r], Created)
    BY <2>1 DEF RaceInv, SlotsCreated, Handles
  <2>3. hash' = [x \in Sid |-> IF x \in {s} THEN Gone ELSE hash[x]]
    BY <2>1 DEF TypeOK
  <2>4. /\ req'[r].pc = "del_index" /\ req'[r].todo = req[r].todo
        /\ \A q \in Req \ {r} : req'[q] = req[q]
    BY <1>0, <2>1, GotoEffect DEF Steps, DeleteSteps
  <2>5. Handles(req'[r], Created)
    BY <2>2, <2>4 DEF Handles, Owning, CreateSteps, RefreshSteps, AuthSteps
  <2>6. \A q \in Req : \/ req'[q] = req[q]
                       \/ /\ Handles(req'[q], Created)
                          /\ req'[q].pc \notin RefreshSteps \cup {"create_hash"}
    BY <2>4, <2>5 DEF RefreshSteps
  <2> HIDE DEF s
  <2> QED
    BY <2>1, <2>2, <2>3, <2>6, EndStep
<1>20. ASSUME NEW r \in Req, DelIndex(r) PROVE RaceInv'
  <2>1. /\ req[r].pc = "del_index" /\ Proceed(r, AfterDelete[req[r].goal])
        /\ UNCHANGED <<hash, issued, used, ended, raced>>
    BY <1>20 DEF DelIndex, history
  <2> QED
    BY <2>1, DeletedRace
<1>21. ASSUME NEW r \in Req, List(r) PROVE RaceInv'
  <2> DEFINE valid == {s \in index.members : Live(s)}
             left == IF req[r].goal = "others" THEN valid \ {req[r].target} ELSE valid
  <2>1. /\ req[r].pc = "list" /\ req' = [req EXCEPT ![r].pc = "del_each", ![r].todo = left]
        /\ UNCHANGED <<hash, issued, used, ended, raced>>
    BY <1>21 DEF List, history
  <2>2. left \in SUBSET Sid /\ left \subseteq Created
    BY DEF TypeOK, RaceInv, LiveCreated
  <2> HIDE DEF left
  <2>3. /\ req'[r].pc = "del_each" /\ req'[r].todo = left
        /\ \A q \in Req \ {r} : req'[q] = req[q]
    BY <1>0, <2>1, <2>2, TodoEffect DEF Steps, DeleteAllSteps
  <2>4. Created \subseteq Created'
    <3>1. used' = used /\ \A q \in Req : req'[q] = req[q] \/ req'[q].pc = "del_each"
      BY <2>1, <2>3
    <3> QED
      BY <3>1 DEF Created
  <2>5. Handles(req'[r], Created')
    BY <2>2, <2>3, <2>4 DEF Handles, Owning, CreateSteps, RefreshSteps, AuthSteps
  <2> QED
    BY <2>1, <2>3, <2>5, SlotStep DEF RefreshSteps
<1>22. ASSUME NEW r \in Req, NEW s \in Sid, DelEach(r, s) PROVE RaceInv'
  <2>1. /\ req[r].pc = "del_each" /\ s \in req[r].todo /\ End({s})
        /\ hash' = [hash EXCEPT ![s] = Gone]
        /\ req' = [req EXCEPT ![r].todo = @ \ {s}]
        /\ UNCHANGED <<used, issued>>
    BY <1>22 DEF DelEach
  <2>2. {s} \in SUBSET Created /\ Handles(req[r], Created)
    BY <2>1 DEF RaceInv, SlotsCreated, Handles
  <2>3. hash' = [x \in Sid |-> IF x \in {s} THEN Gone ELSE hash[x]]
    BY <2>1 DEF TypeOK
  <2>4. /\ req'[r].pc = "del_each" /\ req'[r].todo \subseteq req[r].todo
        /\ \A q \in Req \ {r} : req'[q] = req[q]
    BY <1>0, <2>1, RemoveTodoEffect
  <2>5. Handles(req'[r], Created)
    BY <2>2, <2>4 DEF Handles, Owning, CreateSteps, RefreshSteps, AuthSteps
  <2>6. \A q \in Req : \/ req'[q] = req[q]
                       \/ /\ Handles(req'[q], Created)
                          /\ req'[q].pc \notin RefreshSteps \cup {"create_hash"}
    BY <2>4, <2>5 DEF RefreshSteps
  <2> QED
    BY <2>1, <2>2, <2>3, <2>6, EndStep
<1>23. ASSUME NEW r \in Req, DropIndex(r) PROVE RaceInv'
  <2>1. /\ Goto(r, "keep_index") \/ Goto(r, "bl_user")
        /\ UNCHANGED <<hash, issued, used, ended, raced>>
    BY <1>23 DEF DropIndex, AfterDrop, history
  <2> QED
    BY <2>1, MoveStep
    DEF Steps, DeleteAllSteps, Owning, CreateSteps, RefreshSteps, AuthSteps
<1>24. ASSUME NEW r \in Req, KeepIndex(r) PROVE RaceInv'
  BY <1>24, FinishStep DEF KeepIndex, history
<1>25. ASSUME NEW r \in Req, BlacklistToken(r) PROVE RaceInv'
  BY <1>25, FinishStep DEF BlacklistToken, history
<1>26. ASSUME NEW r \in Req, BlacklistUser(r) PROVE RaceInv'
  BY <1>26, FinishStep DEF BlacklistUser
<1>27. ASSUME NEW r \in Req, Fail(r) PROVE RaceInv'
  BY <1>27, FailRace
<1> QED
  BY <1>1, <1>2, <1>3, <1>4, <1>5, <1>6, <1>7, <1>8, <1>9, <1>10, <1>11, <1>12,
     <1>13, <1>14, <1>15, <1>16, <1>17, <1>18, <1>19, <1>20, <1>21, <1>22, <1>23,
     <1>24, <1>25, <1>26, <1>27 DEF Next, Serve

\* An ended session is live again only if it ended while a refresh of it had
\* passed its check: deletion, expiry, rotation, late creation, failures of
\* Redis and requests abandoned half-way bring nothing back on their own.
THEOREM RevivalNeedsRace == Spec => []RevivedOnlyByRace
<1>1. RaceInv => RevivedOnlyByRace
  BY DEF RaceInv, EndedQuiet, Quiet, RevivedOnlyByRace
<1>2. Spec => [](TypeOK /\ Shape /\ RaceInv)
  BY InitTyped, NextTyped, InitRace, NextRace, PTL DEF Spec
<1> QED
  BY <1>1, <1>2, PTL

-----------------------------------------------------------------------------
(* Expiry: KeysExpire and HashOutlivesToken need that stored tokens are not *)
(* younger than the clock, and RaceInv for a refresh whose session is gone. *)

USE SessionsAssumption

\* A created session whose hash is gone was ended, or a command has failed.
GoneIsEnded == \A s \in Created : ~Live(s) => s \in ended \/ errors > 0

\* Tokens are made of the present second: none is stored or on its way that
\* is younger than the clock.
TokensPast ==
  /\ \A s \in Sid : hash[s].token <= now
  /\ \A r \in Req : req[r].pc \in CreateSteps \cup RefreshSteps => req[r].fresh <= now

ExpiryInv == GoneIsEnded /\ TokensPast /\ KeysExpire /\ HashOutlivesToken

\* A step that writes no hash: it may not take a request away from the two
\* steps that the properties make an exception for.
LEMMA ExpiryKept ==
  ASSUME ExpiryInv, UNCHANGED <<now, hash, ended, raced>>, errors \in Nat,
         \/ errors' = errors + 1
         \/ /\ errors' = errors /\ Created' \subseteq Created
            /\ \A q \in Req : req[q].pc \in {"create_expire", "refresh_expire"}
                                => req'[q] = req[q],
         \A q \in Req : \/ req'[q] = req[q]
                        \/ req'[q].pc \notin CreateSteps \cup RefreshSteps
                        \/ req'[q].fresh <= now
  PROVE  ExpiryInv'
<1>1. errors' \in Nat /\ (errors > 0 => errors' > 0)
  OBVIOUS
<1>2. GoneIsEnded'
  BY <1>1 DEF ExpiryInv, GoneIsEnded, Live
<1>3. TokensPast'
  BY DEF ExpiryInv, TokensPast
<1>4. KeysExpire'
  BY <1>1 DEF ExpiryInv, KeysExpire, Live
<1>5. HashOutlivesToken'
  BY <1>1 DEF ExpiryInv, HashOutlivesToken, Live
<1> QED
  BY <1>2, <1>3, <1>4, <1>5 DEF ExpiryInv

LEMMA ExpiryMove ==
  ASSUME TypeOK, ExpiryInv, UNCHANGED <<now, hash, ended, raced, used>>, NEW r \in Req,
         \/ errors' = errors + 1
         \/ /\ errors' = errors
            /\ req[r].pc \notin {"create_hash", "create_expire", "refresh_expire"},
         \/ Finish(r)
         \/ \E step \in Steps \ {"create_hash"} :
              /\ Goto(r, step)
              /\ step \in CreateSteps \cup RefreshSteps =>
                   req[r].pc \in CreateSteps \cup RefreshSteps
  PROVE  ExpiryInv'
<1>1. req \in [Req -> Request] /\ errors \in Nat /\ now \in Nat
  BY DEF TypeOK, Time
<1>2. /\ \A q \in Req \ {r} : req'[q] = req[q]
      /\ \/ req'[r] = Idle
         \/ /\ req'[r].pc # "create_hash" /\ req'[r].fresh = req[r].fresh
            /\ req'[r].pc \in CreateSteps \cup RefreshSteps =>
                 req[r].pc \in CreateSteps \cup RefreshSteps
  BY <1>1, GotoEffect, FinishEffect
<1>3. req[r].pc # "create_hash" => Created' \subseteq Created
  BY <1>2 DEF Created, Idle
<1>4. req'[r].pc \in CreateSteps \cup RefreshSteps => req'[r].fresh <= now
  BY <1>2 DEF ExpiryInv, TokensPast, Idle, CreateSteps, RefreshSteps
<1> QED
  BY <1>1, <1>2, <1>3, <1>4, ExpiryKept

LEMMA ExpiryBegin ==
  ASSUME TypeOK, ExpiryInv, UNCHANGED <<now, hash, ended, raced, errors>>, NEW r \in Req,
         req[r].pc = "idle",
         NEW step, NEW goal, NEW sid, NEW iat, NEW fresh, NEW target,
         Begin(r, step, goal, sid, iat, fresh, target),
         step \in CreateSteps \cup RefreshSteps => fresh = now,
         used' = IF step = "create_hash" THEN used \cup {sid} ELSE used
  PROVE  ExpiryInv'
<1>1. req \in [Req -> Request] /\ errors \in Nat /\ now \in Nat
  BY DEF TypeOK, Time
<1>2. /\ req'[r].pc = step /\ req'[r].fresh = fresh /\ req'[r].sid = sid
      /\ \A q \in Req \ {r} : req'[q] = req[q]
  BY <1>1 DEF Begin
<1>3. Created' \subseteq Created
  BY <1>2 DEF Created
<1> QED
  BY <1>1, <1>2, <1>3, ExpiryKept

\* A request writes the hash of its session and goes on.
LEMMA ExpiryWrite ==
  ASSUME TypeOK, ExpiryInv, UNCHANGED <<now, ended, raced, used, errors>>, NEW r \in Req,
         NEW x \in Sid, req[r].sid = x,
         \/ Finish(r)
         \/ \E step \in Steps \ {"create_hash"} :
              Goto(r, step) /\ req[r].pc \in CreateSteps \cup RefreshSteps,
         \A s \in Sid \ {x} : hash'[s] = hash[s],
         hash'[x].token <= now,
         hash'[x].exp # 0 \/ (req[r].pc # "create_hash" /\ hash[x].exp = 0),
         hash'[x].exp = Forever =>
           \/ \E q \in Req : req'[q].pc = "create_expire" /\ req'[q].sid = x
           \/ x \in raced
           \/ errors > 0,
         hash'[x].exp # 0 /\ hash'[x].token # NoToken =>
           \/ hash'[x].exp >= hash'[x].token + RefreshTTL
           \/ \E q \in Req : req'[q].pc = "refresh_expire" /\ req'[q].sid = x
           \/ errors > 0
  PROVE  ExpiryInv'
<1>1. req \in [Req -> Request]
  BY DEF TypeOK
<1>2. /\ \A q \in Req \ {r} : req'[q] = req[q]
      /\ \/ req'[r] = Idle
         \/ /\ req'[r].pc # "create_hash" /\ req'[r].fresh = req[r].fresh
            /\ req[r].pc \in CreateSteps \cup RefreshSteps
  BY <1>1, GotoEffect, FinishEffect
<1>3. GoneIsEnded'
  <2>1. Created' \ {x} \subseteq Created
    BY <1>2 DEF Created, Idle
  <2>2. req[r].pc # "create_hash" => Created' \subseteq Created
    BY <1>2 DEF Created, Idle
  <2>3. Created' \subseteq Sid
    BY DEF Created, TypeOK
  <2> SUFFICES ASSUME NEW s \in Created', ~Live(s)' PROVE s \in ended \/ errors > 0
    BY DEF GoneIsEnded
  <2>4. CASE s = x
    BY <2>2, <2>4 DEF ExpiryInv, GoneIsEnded, Live
  <2>5. CASE s # x
    BY <2>1, <2>3, <2>5 DEF ExpiryInv, GoneIsEnded, Live
  <2> QED
    BY <2>4, <2>5
<1>4. TokensPast'
  BY <1>2 DEF ExpiryInv, TokensPast, Idle, CreateSteps, RefreshSteps
<1>5. KeysExpire'
  <2> SUFFICES ASSUME NEW s \in Sid, Live(s)', hash'[s].exp = Forever
               PROVE  \/ \E q \in Req : req'[q].pc = "create_expire" /\ req'[q].sid = s
                      \/ s \in raced
                      \/ errors > 0
    BY DEF KeysExpire
  <2>1. CASE s = x
    BY <2>1 DEF Live
  <2>2. CASE s # x
    <3>1. \A q \in Req : req[q].pc = "create_expire" /\ req[q].sid = s => req'[q] = req[q]
      BY <1>2, <2>2
    <3>2. hash'[s] = hash[s]
      BY <2>2
    <3> QED
      BY <3>1, <3>2 DEF ExpiryInv, KeysExpire, Live
  <2> QED
    BY <2>1, <2>2
<1>6. HashOutlivesToken'
  <2> SUFFICES ASSUME NEW s \in Sid, Live(s)', hash'[s].token # NoToken
               PROVE  \/ hash'[s].exp >= hash'[s].token + RefreshTTL
                      \/ \E q \in Req : req'[q].pc = "refresh_expire" /\ req'[q].sid = s
                      \/ errors > 0
    BY DEF HashOutlivesToken
  <2>1. CASE s = x
    BY <2>1 DEF Live
  <2>2. CASE s # x
    <3>1. \A q \in Req : req[q].pc = "refresh_expire" /\ req[q].sid = s => req'[q] = req[q]
      BY <1>2, <2>2
    <3>2. hash'[s] = hash[s]
      BY <2>2
    <3> QED
      BY <3>1, <3>2 DEF ExpiryInv, HashOutlivesToken, Live
  <2> QED
    BY <2>1, <2>2
<1> QED
  BY <1>3, <1>4, <1>5, <1>6 DEF ExpiryInv

\* Sessions end, by deletion or because their time has come.
LEMMA ExpiryEnd ==
  ASSUME TypeOK, ExpiryInv, NEW S \in SUBSET Sid, End(S), UNCHANGED <<used, errors>>,
         now' = now \/ now' = now + 1,
         hash' = [s \in Sid |-> IF s \in S THEN Gone ELSE hash[s]],
         \A q \in Req : \/ req'[q] = req[q]
                        \/ /\ req[q].pc \notin {"create_hash", "create_expire", "refresh_expire"}
                           /\ req'[q].pc \notin CreateSteps \cup RefreshSteps
  PROVE  ExpiryInv'
<1>0. now \in Nat /\ \A s \in Sid : hash[s].token \in Int
  BY DEF TypeOK, Time, Hash, NoToken
<1>1. GoneIsEnded'
  <2>1. Created' \subseteq Created /\ Created \subseteq Sid
    BY DEF Created, CreateSteps, TypeOK
  <2> QED
    BY <2>1 DEF ExpiryInv, GoneIsEnded, Live, End
<1>2. TokensPast'
  <2>1. \A s \in Sid : hash'[s].token <= now'
    BY <1>0 DEF ExpiryInv, TokensPast, Gone, NoToken
  <2>2. ASSUME NEW q \in Req, req'[q].pc \in CreateSteps \cup RefreshSteps
        PROVE  req'[q].fresh <= now'
    <3>1. req'[q] = req[q]
      BY <2>2
    <3>2. req[q].fresh \in Int /\ req[q].fresh <= now
      BY <2>2, <3>1 DEF ExpiryInv, TokensPast, Shape, TypeOK, Request, Time, NoToken
    <3> QED
      BY <1>0, <3>1, <3>2
  <2> QED
    BY <2>1, <2>2 DEF TokensPast
<1>3. KeysExpire'
  BY DEF ExpiryInv, KeysExpire, Live, Gone, End
<1>4. HashOutlivesToken'
  BY DEF ExpiryInv, HashOutlivesToken, Live, Gone
<1> QED
  BY <1>1, <1>2, <1>3, <1>4 DEF ExpiryInv

\* A refresh that finds its session gone races the session's end.
LEMMA GoneIsRaced ==
  ASSUME TypeOK, RaceInv, ExpiryInv, NEW r \in Req, req[r].pc \in RefreshSteps,
         ~Live(req[r].sid)
  PROVE  req[r].sid \in raced \/ errors > 0
<1>1. req[r].sid \in Created
  BY DEF RaceInv, SlotsCreated, Handles, Owning
<1>2. r \in Refreshing(req[r].sid)
  BY DEF Refreshing
<1>3. req[r].sid \notin Quiet
  BY <1>2 DEF RaceInv, EndedQuiet
<1> QED
  BY <1>1, <1>3 DEF ExpiryInv, GoneIsEnded, Quiet

LEMMA InitExpiry == Init => ExpiryInv
BY DEF Init, ExpiryInv, GoneIsEnded, TokensPast, KeysExpire, HashOutlivesToken, Created,
       Live, Gone, Idle, NoToken, CreateSteps, RefreshSteps

LEMMA NextExpiry == TypeOK /\ Shape /\ RaceInv /\ ExpiryInv /\ [Next]_vars => ExpiryInv'
<1> SUFFICES ASSUME TypeOK, Shape, RaceInv, ExpiryInv, [Next]_vars
             PROVE  ExpiryInv'
  OBVIOUS
<1> USE DEF redisVars, history, vars
<1>0. /\ req \in [Req -> Request] /\ hash \in [Sid -> Hash]
      /\ now \in Nat /\ errors \in Nat /\ now <= MaxNow
  BY DEF TypeOK, Time
<1>a. Forever \in Nat /\ Forever > MaxNow + RefreshTTL
  BY DEF Forever
<1>1. CASE UNCHANGED vars
  BY <1>0, <1>1, ExpiryKept DEF Created
<1>2. CASE Tick
  <2> DEFINE lapsed == {s \in Sid : Live(s) /\ Lapse(hash[s].exp) = 0}
  <2>1. /\ now' = now + 1 /\ End(lapsed) /\ UNCHANGED <<used, errors, req>>
        /\ hash' = [s \in Sid |-> IF s \in lapsed THEN Gone ELSE hash[s]]
    BY <1>2 DEF Tick
  <2> HIDE DEF lapsed
  <2>2. lapsed \in SUBSET Sid
    BY DEF lapsed
  <2> QED
    BY <2>1, <2>2, ExpiryEnd
<1>3. ASSUME NEW r \in Req, CreateHash(r) PROVE ExpiryInv'
  <2> DEFINE x == req[r].sid
  <2>1. /\ req[r].pc = "create_hash" /\ Goto(r, "create_expire")
        /\ hash' = [hash EXCEPT ![x] = [user |-> TRUE, token |-> req[r].fresh, exp |-> Forever]]
        /\ UNCHANGED <<now, ended, raced, used, errors>>
    BY <1>3 DEF CreateHash
  <2>2. x \in Sid /\ req[r].fresh \in Time /\ req[r].fresh <= now
    BY <2>1 DEF Shape, WellFormed, ExpiryInv, TokensPast, CreateSteps
  <2>3. req'[r].pc = "create_expire" /\ req'[r].sid = x
    BY <1>0, <2>1, GotoEffect DEF Steps, CreateSteps
  <2>4. hash'[x].token = req[r].fresh /\ hash'[x].exp = Forever
    BY <1>0, <2>1, <2>2
  <2>5. Forever # 0 /\ Forever >= req[r].fresh + RefreshTTL
    BY <1>a, <2>2 DEF Time
  <2>6. \A s \in Sid \ {x} : hash'[s] = hash[s]
    BY <2>1, <1>0
  <2> HIDE DEF x
  <2> QED
    BY <2>1, <2>2, <2>3, <2>4, <2>5, <2>6, ExpiryWrite DEF Steps, CreateSteps, x
<1>4. ASSUME NEW r \in Req, CreateExpire(r) \/ RefreshExpire(r) PROVE ExpiryInv'
  <2> DEFINE x == req[r].sid
  <2>1. /\ \/ req[r].pc = "create_expire" /\ Goto(r, "create_index")
           \/ req[r].pc = "refresh_expire" /\ Goto(r, "refresh_touch")
        /\ hash' = Expire(x)
        /\ UNCHANGED <<now, ended, raced, used, errors>>
    BY <1>4 DEF CreateExpire, RefreshExpire
  <2>2. x \in Sid
    BY <2>1 DEF Shape, WellFormed, CreateSteps, RefreshSteps
  <2> HIDE DEF x
  <2>3. hash[x].token <= now /\ hash[x].token \in Int
    BY <1>0, <2>2 DEF ExpiryInv, TokensPast, Hash, Time, NoToken
  <2>4. \A s \in Sid \ {x} : hash'[s] = hash[s]
    BY <1>0, <2>1 DEF Expire
  <2>5. hash'[x].token = hash[x].token
    BY <1>0, <2>1, <2>2 DEF Expire, Hash
  <2>6. \/ hash[x].exp = 0 /\ hash'[x].exp = 0
        \/ hash'[x].exp = now + RefreshTTL
    BY <1>0, <2>1, <2>2 DEF Expire, Live, Hash
  <2>7. /\ hash'[x].exp # Forever
        /\ hash'[x].exp # 0 => hash'[x].exp >= hash'[x].token + RefreshTTL
    BY <1>0, <1>a, <2>3, <2>5, <2>6
  <2>8. hash'[x].exp # 0 \/ (req[r].pc # "create_hash" /\ hash[x].exp = 0)
    BY <1>0, <2>1, <2>6
  <2> QED
    BY <2>1, <2>2, <2>3, <2>4, <2>5, <2>7, <2>8, ExpiryWrite
    DEF x, Steps, CreateSteps, RefreshSteps
<1>5. ASSUME NEW r \in Req, RefreshSet(r) PROVE ExpiryInv'
  <2> DEFINE x == req[r].sid
  <2>1. /\ req[r].pc = "refresh_set" /\ Goto(r, "refresh_expire")
        /\ hash' = [hash EXCEPT ![x] = HSet(x, [hash[x] EXCEPT !.token = req[r].fresh])]
        /\ UNCHANGED <<now, ended, raced, used, errors>>
    BY <1>5 DEF RefreshSet
  <2>2. x \in Sid /\ req[r].fresh \in Time /\ req[r].fresh <= now
    BY <2>1 DEF Shape, WellFormed, ExpiryInv, TokensPast, RefreshSteps
  <2>3. req'[r].pc = "refresh_expire" /\ req'[r].sid = x
    BY <1>0, <2>1, GotoEffect DEF Steps, RefreshSteps
  <2>4. /\ hash'[x].token = req[r].fresh
        /\ hash'[x].exp = IF Live(x) THEN hash[x].exp ELSE Forever
    BY <1>0, <2>1, <2>2 DEF HSet, Hash
  <2>5. \A s \in Sid \ {x} : hash'[s] = hash[s]
    BY <2>1, <1>0
  <2>6. ~Live(x) => x \in raced \/ errors > 0
    BY <2>1, GoneIsRaced DEF RefreshSteps
  <2>7. hash'[x].exp = Forever =>
           \/ \E q \in Req : req'[q].pc = "create_expire" /\ req'[q].sid = x
           \/ x \in raced
           \/ errors > 0
    <3> SUFFICES ASSUME Live(x), hash[x].exp = Forever
                 PROVE  \/ \E q \in Req : req'[q].pc = "create_expire" /\ req'[q].sid = x
                        \/ x \in raced
                        \/ errors > 0
      BY <2>4, <2>6
    <3>1. \/ \E q \in Req \ {r} : req[q].pc = "create_expire" /\ req[q].sid = x
          \/ x \in raced
          \/ errors > 0
      BY <2>1, <2>2 DEF ExpiryInv, KeysExpire
    <3>2. \A q \in Req \ {r} : req'[q] = req[q]
      BY <2>1 DEF Goto
    <3> HIDE DEF x
    <3> QED
      BY <3>1, <3>2
  <2>8. hash'[x].exp # 0
    BY <1>a, <2>4 DEF Live
  <2> HIDE DEF x
  <2> QED
    BY <2>1, <2>2, <2>3, <2>4, <2>5, <2>7, <2>8, ExpiryWrite DEF x, Steps, RefreshSteps
<1>6. ASSUME NEW r \in Req, RefreshTouch(r) PROVE ExpiryInv'
  <2> DEFINE x == req[r].sid
  <2>1. /\ req[r].pc = "refresh_touch" /\ Finish(r)
        /\ hash' = [hash EXCEPT ![x] = HSet(x, hash[x])]
        /\ UNCHANGED <<now, ended, raced, used, errors>>
    BY <1>6 DEF RefreshTouch
  <2>2. x \in Sid /\ hash[x].token <= now
    BY <2>1 DEF Shape, WellFormed, ExpiryInv, TokensPast, RefreshSteps
  <2>3. \A q \in Req \ {r} : req'[q] = req[q]
    BY <2>1 DEF Finish
  <2>4. \A s \in Sid \ {x} : hash'[s] = hash[s]
    BY <2>1, <1>0
  <2>5. CASE Live(x)
    <3>1. hash'[x] = hash[x]
      BY <1>0, <2>1, <2>2, <2>5 DEF HSet
    <3>2. hash'[x].exp = Forever =>
           \/ \E q \in Req : req'[q].pc = "create_expire" /\ req'[q].sid = x
           \/ x \in raced
           \/ errors > 0
      BY <2>1, <2>2, <2>3, <2>5, <3>1 DEF ExpiryInv, KeysExpire
    <3>3. hash'[x].exp # 0 /\ hash'[x].token # NoToken =>
           \/ hash'[x].exp >= hash'[x].token + RefreshTTL
           \/ \E q \in Req : req'[q].pc = "refresh_expire" /\ req'[q].sid = x
           \/ errors > 0
      BY <2>1, <2>2, <2>3, <2>5, <3>1 DEF ExpiryInv, HashOutlivesToken
    <3>4. hash'[x].exp # 0
      BY <2>5, <3>1 DEF Live
    <3> HIDE DEF x
    <3> QED
      BY <2>1, <2>2, <2>4, <3>1, <3>2, <3>3, <3>4, ExpiryWrite DEF x
  <2>6. CASE ~Live(x)
    <3>1. x \in raced \/ errors > 0
      BY <2>1, <2>6, GoneIsRaced DEF RefreshSteps
    <3>2. hash[x] = Gone
      BY <2>2, <2>6 DEF RaceInv, LiveCreated
    <3>3. hash'[x].token = NoToken /\ hash'[x].exp = Forever
      BY <1>0, <2>1, <2>2, <2>6, <3>2 DEF HSet, Gone
    <3> HIDE DEF x
    <3>4. hash'[x].exp # 0 /\ hash'[x].token <= now
      BY <1>a, <1>0, <3>3 DEF NoToken
    <3> QED
      BY <2>1, <2>2, <2>4, <3>1, <3>3, <3>4, ExpiryWrite DEF x
  <2> QED
    BY <2>5, <2>6
<1>7. ASSUME NEW r \in Req, DelHash(r) PROVE ExpiryInv'
  <2> DEFINE x == req[r].target
  <2>1. /\ req[r].pc = "del_hash" /\ Goto(r, "del_index") /\ End({x})
        /\ hash' = [hash EXCEPT ![x] = Gone]
        /\ UNCHANGED <<now, used, errors>>
    BY <1>7 DEF DelHash
  <2>2. {x} \in SUBSET Sid
    BY <2>1 DEF Shape, WellFormed, DeleteSteps
  <2>3. hash' = [s \in Sid |-> IF s \in {x} THEN Gone ELSE hash[s]]
    BY <1>0, <2>1
  <2>4. /\ req'[r].pc = "del_index"
        /\ \A q \in Req \ {r} : req'[q] = req[q]
    BY <1>0, <2>1, GotoEffect DEF Steps, DeleteSteps
  <2> HIDE DEF x
  <2> QED
    BY <2>1, <2>2, <2>3, <2>4, ExpiryEnd DEF CreateSteps, RefreshSteps
<1>8. ASSUME NEW r \in Req, NEW s \in Sid, DelEach(r, s) PROVE ExpiryInv'
  <2>1. /\ req[r].pc = "del_each" /\ End({s})
        /\ hash' = [hash EXCEPT ![s] = Gone]
        /\ req' = [req EXCEPT ![r].todo = @ \ {s}]
        /\ UNCHANGED <<now, used, errors>>
    BY <1>8 DEF DelEach
  <2>2. hash' = [x \in Sid |-> IF x \in {s} THEN Gone ELSE hash[x]]
    BY <1>0, <2>1
  <2>3. /\ req'[r].pc = "del_each"
        /\ \A q \in Req \ {r} : req'[q] = req[q]
    BY <1>0, <2>1, RemoveTodoEffect
  <2> QED
    BY <2>1, <2>2, <2>3, ExpiryEnd DEF CreateSteps, RefreshSteps
<1>9. ASSUME NEW r \in Req,
             \/ \E s \in Sid : Login(r, s)
             \/ \E s \in Sid, iat \in Time : Refresh(r, s, iat)
             \/ \E s \in Sid, iat \in Time, goal \in Goals, target \in Sid :
                  Authenticate(r, s, iat, goal, target)
             \/ ResetPassword(r) \/ AdminRevokeAll(r)
             \/ \E s \in Sid : AdminRevokeOne(r, s)
      PROVE  ExpiryInv'
  BY ZenonT(60), <1>9, ExpiryBegin DEF Login, Refresh, Authenticate, ResetPassword, AdminRevokeAll,
     AdminRevokeOne, CreateSteps, RefreshSteps
<1>10. ASSUME NEW r \in Req,
              CreateIndex(r) \/ CreateMeta(r) \/ ClearBlacklist(r) \/ KeepIndex(r)
                \/ DropIndex(r) \/ BlacklistToken(r) \/ BlacklistUser(r)
       PROVE  ExpiryInv'
  BY <1>10, ExpiryMove DEF CreateIndex, CreateMeta, ClearBlacklist, KeepIndex, DropIndex,
     BlacklistToken, BlacklistUser, AfterDrop,
     Steps, CreateSteps, RefreshSteps, DeleteAllSteps
<1>11. ASSUME NEW r \in Req, AuthUser(r) PROVE ExpiryInv'
  <2>1. CASE userBl # 0
    BY <1>11, <2>1, ExpiryMove DEF AuthUser
  <2>2. CASE userBl = 0
    <3>1. /\ req[r].pc = "auth_user"
          /\ req' = [req EXCEPT ![r].pc = "auth_session", ![r].cut = cut]
          /\ UNCHANGED <<now, hash, ended, raced, used, errors>>
      BY <1>11, <2>2 DEF AuthUser
    <3>2. "auth_session" \in Steps /\ cut \in Time \cup {NoToken}
      BY DEF Steps, AuthSteps, TypeOK
    <3>3. /\ req'[r].pc = "auth_session"
          /\ \A q \in Req \ {r} : req'[q] = req[q]
      BY <1>0, <3>1, <3>2, CutEffect
    <3>4. Created' \subseteq Created
      BY <3>1, <3>3 DEF Created
    <3> QED
      BY <1>0, <3>1, <3>3, <3>4, ExpiryKept DEF CreateSteps, RefreshSteps
  <2> QED
    BY <2>1, <2>2
<1>12. ASSUME NEW r \in Req, AuthSession(r) PROVE ExpiryInv'
  <2>1. req[r].goal \in ProtectedGoals
    BY <1>12 DEF AuthSession, Shape, WellFormed, AuthSteps
  <2> QED
    BY <1>12, <2>1, ExpiryMove DEF AuthSession, Proceed, FirstStep, ProtectedGoals,
       Steps, CreateSteps, RefreshSteps, DeleteSteps, DeleteAllSteps
<1>13. ASSUME NEW r \in Req, DelIndex(r) PROVE ExpiryInv'
  <2>1. req[r].goal \in {"logout", "revoke", "adminOne"}
    BY <1>13 DEF DelIndex, Shape, WellFormed, DeleteSteps
  <2> QED
    BY <1>13, <2>1, ExpiryMove DEF DelIndex, Proceed, AfterDelete, Steps, CreateSteps,
       RefreshSteps
<1>14. ASSUME NEW r \in Req, List(r) PROVE ExpiryInv'
  <2>1. /\ req[r].pc = "list" /\ req'[r].pc = "del_each"
        /\ \A q \in Req \ {r} : req'[q] = req[q]
        /\ UNCHANGED <<now, hash, ended, raced, used, errors>>
    BY <1>0, <1>14 DEF List
  <2>2. Created' \subseteq Created
    BY <2>1 DEF Created
  <2> QED
    BY <1>0, <2>1, <2>2, ExpiryKept DEF CreateSteps, RefreshSteps
<1>15. ASSUME NEW r \in Req, Fail(r) PROVE ExpiryInv'
  <2>0. /\ errors' = errors + 1
        /\ UNCHANGED <<now, hash, ended, raced, used>>
    BY <1>15 DEF Fail
  <2>1. CASE req[r].pc = "del_each"
             /\ \E s \in req[r].todo : req' = [req EXCEPT ![r].todo = @ \ {s}]
    <3>1. /\ req'[r].pc = "del_each"
          /\ \A q \in Req \ {r} : req'[q] = req[q]
      BY <1>0, <2>1
    <3> QED
      BY <1>0, <2>0, <3>1, ExpiryKept DEF CreateSteps, RefreshSteps
  <2>2. CASE req[r].pc = "del_index" /\ Proceed(r, AfterDelete[req[r].goal])
    <3>1. req[r].goal \in {"logout", "revoke", "adminOne"}
      BY <2>2 DEF Shape, WellFormed, DeleteSteps
    <3> QED
      BY <2>0, <2>2, <3>1, ExpiryMove DEF Proceed, AfterDelete, Steps, CreateSteps,
         RefreshSteps
  <2>3. CASE req[r].pc \in DOMAIN AfterWarning /\ Goto(r, AfterWarning[req[r].pc])
    BY <2>0, <2>3, ExpiryMove DEF AfterWarning, Steps, CreateSteps, RefreshSteps
  <2>4. CASE Finish(r)
    BY <2>0, <2>4, ExpiryMove
  <2>5. CASE \/ Proceed(r, IF req[r].goal = "delete" THEN "bl_user" ELSE "idle")
             \/ Proceed(r, AfterDrop(r))
    BY <2>0, <2>5, ExpiryMove DEF Proceed, AfterDrop, Steps, CreateSteps, RefreshSteps,
       DeleteAllSteps
  <2> QED
    BY <1>15, <2>1, <2>2, <2>3, <2>4, <2>5 DEF Fail
<1> QED
  BY <1>1, <1>2, <1>3, <1>4, <1>5, <1>6, <1>7, <1>8, <1>9, <1>10, <1>11, <1>12,
     <1>13, <1>14, <1>15 DEF Next, Serve

LEMMA Expiry == Spec => []ExpiryInv
<1>1. Spec => [](TypeOK /\ Shape /\ RaceInv /\ ExpiryInv)
  BY InitTyped, NextTyped, InitRace, NextRace, InitExpiry, NextExpiry, PTL DEF Spec
<1> QED
  BY <1>1, PTL

\* No session key is left in Redis without a TTL: only a CreateSession between its HSET
\* and its EXPIRE, a refresh that raced the session's end or a failed command leaves one
\* (redis.go: CreateSession, RefreshSession, TouchSession).
THEOREM SessionKeysExpire == Spec => []KeysExpire
BY Expiry, PTL DEF ExpiryInv

\* The TTL that RefreshSession slides covers the refresh token it stores, in whatever
\* order concurrent rotations of the session take their steps (redis.go).
THEOREM TokensDieFirst == Spec => []HashOutlivesToken
BY Expiry, PTL DEF ExpiryInv

=============================================================================
