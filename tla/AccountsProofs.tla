--------------------------- MODULE AccountsProofs ---------------------------
(***************************************************************************)
(* The safety properties of Accounts, for any number of addresses,         *)
(* passwords, tokens and concurrent requests, every history length, and    *)
(* whatever fails.                                                         *)
(*                                                                         *)
(* Base says which goals, tokens, addresses and passwords a request can    *)
(* have at each step of its handler, and bounds the uses of a token by the *)
(* requests served.  Each property then has an invariant of its own, which *)
(* relates what a handler has read to what is stored when it acts on it.   *)
(***************************************************************************)
EXTENDS Accounts, FiniteSetTheorems, TLAPS

USE AccountsAssumption

\* What a request can carry at each step of its handler.
Fits(q) ==
  /\ q.pc = "idle" <=> q.goal = "none"
  /\ q.pc = "idle" => q.token = None
  /\ q.pc = "create" => q.goal = "register"
  /\ q.pc = "find_old" => q.goal \in {"resend", "sendLink"}
  /\ q.pc \in {"look_up", "drop_current"} => q.goal \in {"verify", "resend", "linkLogin"}
  /\ q.pc = "drop_key" => q.goal \in {"verify", "resend", "sendLink", "linkLogin", "reset"}
  /\ q.pc = "store" => q.goal \in {"register", "resend", "email", "sendLink", "sendReset"}
  /\ q.pc = "index" => q.goal \in {"register", "resend", "email", "sendLink"}
  /\ q.pc = "mark_verified" => q.goal = "verify"
  /\ q.pc = "write_email" => q.goal = "email"
  /\ q.pc = "check_history" => q.goal = "reset"
  /\ q.pc = "write_password" => q.goal \in {"reset", "change", "initial"}
  /\ q.pc = "revoke" => q.goal \in {"reset", "change", "toggle"}
  /\ q.pc = "read_user" => q.goal = "linkLogin"
  /\ q.pc = "grant" => q.goal \in {"login", "linkLogin"}
  /\ q.pc \in {"revoke_all", "delete_row"} => q.goal = "delete"
  /\ q.pc \in {"activate", "deactivate"} => q.goal = "toggle"
  /\ q.pc \in {"look_up", "drop_current", "drop_key", "index"} => q.token \in Token
  /\ q.goal \in {"register", "resend", "email", "sendLink", "sendReset"} => q.email \in Email
  /\ q.pc \in {"create", "check_history", "write_password"} => q.password \in Password
  /\ q.pc = "write_password" => Len(q.history) <= HistoryCount

\* The goals whose handlers are given a mailed token.
Follows == {"verify", "reset", "linkLogin"}

Table ==
  \A r \in Req :
    /\ Fits(req[r])
    /\ req[r].goal \in Follows => req[r].token \in Token /\ mailed[req[r].token] # None

Housed == Present => account.email \in Email

\* Requests whose token still is to have its effect.
Pending(q) == \/ q.goal = "linkLogin"
              \/ q.goal = "reset" /\ q.pc \in {"check_history", "write_password"}
Users == {r \in Req : Pending(req[r])}

\* A use has been paid for with a request that was served.
Spent == IsFiniteSet(Users) /\ \A t \in Token : uses[t] + Cardinality(Users) <= served

Base == TypeOK /\ Table /\ Housed /\ Spent

-----------------------------------------------------------------------------
(* The operators of the model.                                             *)

LEMMA TakeFacts ==
  ASSUME NEW S, NEW s \in Seq(S), NEW n \in Nat
  PROVE  /\ Take(s, n) \in Seq(S)
         /\ Len(Take(s, n)) = IF Len(s) < n THEN Len(s) ELSE n
         /\ \A i \in 1 .. Len(Take(s, n)) : Take(s, n)[i] = s[i]
         /\ Len(s) \in Nat
<1>1. CASE Len(s) < n
  BY <1>1 DEF Take
<1>2. CASE ~ (Len(s) < n)
  BY <1>2 DEF Take
<1> QED
  BY <1>1, <1>2

LEMMA HistoryFacts ==
  ASSUME NEW h \in Seq(Password), NEW p \in Password
  PROVE  /\ AppendPasswordHistory(h, p) \in Seq(Password)
         /\ Len(AppendPasswordHistory(h, p)) <= HistoryCount
<1>1. <<p>> \o h \in Seq(Password)
  OBVIOUS
<1> DEFINE all == <<p>> \o h
<1>2. all \in Seq(Password)
  BY <1>1
<1>3. AppendPasswordHistory(h, p) = Take(all, HistoryCount)
  BY DEF AppendPasswordHistory
<1> HIDE DEF all
<1>4. /\ Take(all, HistoryCount) \in Seq(Password) /\ Len(all) \in Nat
      /\ Len(Take(all, HistoryCount)) = IF Len(all) < HistoryCount THEN Len(all) ELSE HistoryCount
  BY <1>2, TakeFacts
<1> QED
  BY <1>3, <1>4

\* A request moves on to another step, and keeps the rest.
LEMMA GotoEffect ==
  ASSUME req \in [Req -> Request], NEW r \in Req, NEW step \in Steps,
         req' = [req EXCEPT ![r].pc = step]
  PROVE  /\ req' \in [Req -> Request]
         /\ req'[r].pc = step /\ req'[r].goal = req[r].goal /\ req'[r].token = req[r].token
         /\ req'[r].email = req[r].email /\ req'[r].password = req[r].password
         /\ req'[r].history = req[r].history
         /\ \A s \in Req \ {r} : req'[s] = req[s]
<1>1. [req[r] EXCEPT !.pc = step] \in Request
  BY DEF Request
<1> QED
  BY <1>1 DEF Request

LEMMA FinishEffect ==
  ASSUME req \in [Req -> Request], NEW r \in Req, Finish(r)
  PROVE  /\ req' \in [Req -> Request] /\ req'[r] = Idle
         /\ req'[r].pc = "idle" /\ req'[r].goal = "none" /\ req'[r].token = None
         /\ req'[r].email = None /\ req'[r].history = <<>>
         /\ \A s \in Req \ {r} : req'[s] = req[s]
<1>1. Idle \in Request
  BY DEF Idle, Request, Steps
<1> QED
  BY <1>1 DEF Finish, Idle

LEMMA BeginEffect ==
  ASSUME req \in [Req -> Request], NEW r \in Req,
         NEW step \in Steps, NEW goal \in AllGoals, NEW token \in Token \cup {None},
         NEW email \in Email \cup {None}, NEW password \in Password \cup {None},
         NEW hist \in Seq(Password), Begin(r, step, goal, token, email, password, hist)
  PROVE  /\ req' \in [Req -> Request] /\ req[r].pc = "idle"
         /\ req'[r].pc = step /\ req'[r].goal = goal /\ req'[r].token = token
         /\ req'[r].email = email /\ req'[r].password = password /\ req'[r].history = hist
         /\ \A s \in Req \ {r} : req'[s] = req[s]
         /\ served' = served + 1 /\ served < MaxRequests
<1> DEFINE new == [pc |-> step, goal |-> goal, token |-> token, email |-> email,
                   password |-> password, history |-> hist]
<1>1. new \in Request
  BY DEF Request
<1>2. /\ req' = [req EXCEPT ![r] = new] /\ req[r].pc = "idle"
      /\ served' = served + 1 /\ served < MaxRequests
  BY DEF Begin
<1>3. /\ new.pc = step /\ new.goal = goal /\ new.token = token
      /\ new.email = email /\ new.password = password /\ new.history = hist
  OBVIOUS
<1> HIDE DEF new
<1> QED
  BY <1>1, <1>2, <1>3

\* Where the handlers go on.
LEMMA Continuations ==
  /\ AfterDrop["verify"] = "idle" /\ AfterDrop["resend"] = "store"
  /\ AfterDrop["sendLink"] = "store" /\ AfterDrop["linkLogin"] = "read_user"
  /\ AfterDrop["reset"] = "revoke"
  /\ AfterWrite["reset"] = "drop_key" /\ AfterWrite["change"] = "revoke"
  /\ AfterWrite["initial"] = "idle"
  /\ DOMAIN AfterWarning = {"find_old", "look_up", "drop_current", "revoke_all"}
  /\ AfterWarning["find_old"] = "store" /\ AfterWarning["look_up"] = "drop_key"
  /\ AfterWarning["drop_current"] = "drop_key" /\ AfterWarning["revoke_all"] = "delete_row"
  BY DEF AfterDrop, AfterWrite, AfterWarning

-----------------------------------------------------------------------------
(* Base.                                                                   *)

LEMMA InitBase == Init => Base
<1> SUFFICES ASSUME Init PROVE Base
  OBVIOUS
<1>1. Idle \in Request /\ Fits(Idle) /\ ~ Pending(Idle) /\ Idle.goal \notin Follows
  BY DEF Idle, Request, Steps, Fits, Pending, Follows
<1>2. \A r \in Req : req[r] = Idle
  BY DEF Init
<1>3. /\ account \in Row /\ Len(account.history) <= HistoryCount
      /\ Present => account.email \in Email
  <2>1. Absent \in Row /\ Absent.history = <<>> /\ Absent.status = "absent"
    BY DEF Absent, Row
  <2>2. /\ Social \in Row /\ Social.history = <<>> /\ Social.email = Home
        /\ Social.status = "present"
    BY <2>1 DEF Social, Absent, Row
  <2>3. ASSUME NEW p \in Password
        PROVE  /\ Registered(p) \in Row /\ Len(Registered(p).history) <= HistoryCount
               /\ Registered(p).email = Home
    <3>1. <<>> \in Seq(Password)
      OBVIOUS
    <3>2. /\ AppendPasswordHistory(<<>>, p) \in Seq(Password)
          /\ Len(AppendPasswordHistory(<<>>, p)) <= HistoryCount
      BY <3>1, HistoryFacts
    <3>3. Registered(p) = [Social EXCEPT !.password = p,
                                         !.history = AppendPasswordHistory(<<>>, p)]
      BY DEF Registered
    <3> QED
      BY <2>2, <3>2, <3>3 DEF Row
  <2> QED
    BY <2>1, <2>2, <2>3 DEF Init, Present
<1>4. access \in {"none", "live", "blocked"}
  BY DEF Init
<1>5. chosen \in Seq(Password)
  BY <1>3 DEF Init, Row
<1>6. TypeOK
  BY <1>1, <1>3, <1>4, <1>5 DEF Init, TypeOK, Row
<1>7. Table
  BY <1>1, <1>2 DEF Table
<1>8. Spent
  <2>1. Users = {} /\ served = 0 /\ \A t \in Token : uses[t] = 0
    BY <1>1, <1>2 DEF Users, Init
  <2>2. IsFiniteSet({}) /\ Cardinality({}) = 0
    BY FS_EmptySet
  <2> QED
    BY <2>1, <2>2 DEF Spent
<1> QED
  BY <1>3, <1>6, <1>7, <1>8 DEF Base, Housed

\* A step of r that uses no token.
LEMMA BaseKept ==
  ASSUME Base, NEW r \in Req, \A s \in Req \ {r} : req'[s] = req[s],
         Fits(req'[r]), Pending(req'[r]) => Pending(req[r]),
         req'[r].goal \in Follows => req'[r].token \in Token /\ mailed[req'[r].token] # None,
         \A t \in Token : mailed[t] # None => mailed'[t] # None,
         uses' = uses, served' = served
  PROVE  Table' /\ Spent'
<1>1. Table'
  BY DEF Base, Table
<1>2. Users' \subseteq Users
  BY DEF Users
<1>3. IsFiniteSet(Users') /\ Cardinality(Users') <= Cardinality(Users)
  BY <1>2, FS_Subset DEF Base, Spent
<1>4. Cardinality(Users) \in Nat /\ Cardinality(Users') \in Nat
  BY <1>3, FS_CardinalityType DEF Base, Spent
<1>5. \A t \in Token : uses[t] \in Nat /\ served \in Nat
  BY DEF Base, TypeOK
<1>6. \A t \in Token : uses'[t] + Cardinality(Users') <= served'
  BY <1>3, <1>4, <1>5 DEF Base, Spent
<1> QED
  BY <1>1, <1>3, <1>6 DEF Spent

\* A request begins.
LEMMA BaseBegin ==
  ASSUME Base, NEW r \in Req,
         NEW step \in Steps, NEW goal \in AllGoals, NEW token \in Token \cup {None},
         NEW email \in Email \cup {None}, NEW password \in Password \cup {None},
         NEW hist \in Seq(Password), Begin(r, step, goal, token, email, password, hist),
         Fits([pc |-> step, goal |-> goal, token |-> token, email |-> email,
               password |-> password, history |-> hist]),
         goal \in Follows => token \in Token /\ mailed[token] # None,
         UNCHANGED Began, shared' \subseteq Token
  PROVE  Base'
<1> DEFINE new == [pc |-> step, goal |-> goal, token |-> token, email |-> email,
                   password |-> password, history |-> hist]
<1>1. req \in [Req -> Request]
  BY DEF Base, TypeOK
<1>2. /\ req' = [req EXCEPT ![r] = new] /\ served' = served + 1 /\ served < MaxRequests
      /\ raced' \subseteq raced \cup {"link", "ending"}
  BY DEF Begin
<1>3. /\ new \in Request /\ Fits(new)
      /\ new.goal \in Follows => new.token \in Token /\ mailed[new.token] # None
  BY DEF Request
<1> HIDE DEF new
<1>4. /\ req' \in [Req -> Request] /\ req'[r] = new
      /\ \A s \in Req \ {r} : req'[s] = req[s]
  BY <1>1, <1>2, <1>3
<1>5. UNCHANGED <<account, keys, current, access, errors, mailed, proved, chosen, uses>>
  BY DEF Began
<1>6. Table' /\ Housed'
  BY <1>3, <1>4, <1>5 DEF Base, Table, Housed, Present
<1>7. Spent'
  <2>1. Users' \subseteq Users \cup {r}
    BY <1>4 DEF Users
  <2>2. IsFiniteSet(Users) /\ IsFiniteSet(Users \cup {r})
        /\ Cardinality(Users \cup {r}) <= Cardinality(Users) + 1
        /\ Cardinality(Users) \in Nat /\ Cardinality(Users \cup {r}) \in Nat
    <3>1. IsFiniteSet(Users)
      BY DEF Base, Spent
    <3>2. Cardinality(Users) \in Nat
      BY <3>1, FS_CardinalityType
    <3>3. /\ IsFiniteSet(Users \cup {r})
          /\ \/ Cardinality(Users \cup {r}) = Cardinality(Users)
             \/ Cardinality(Users \cup {r}) = Cardinality(Users) + 1
      BY <3>1, FS_AddElement
    <3> QED
      BY <3>1, <3>2, <3>3
  <2>3. /\ IsFiniteSet(Users') /\ Cardinality(Users') \in Nat
        /\ Cardinality(Users') <= Cardinality(Users \cup {r})
    BY <2>1, <2>2, FS_Subset, FS_CardinalityType
  <2>4. \A t \in Token : uses[t] \in Nat /\ served \in Nat
    BY DEF Base, TypeOK
  <2>5. \A t \in Token : uses[t] + Cardinality(Users) <= served
    BY DEF Base, Spent
  <2>6. \A t \in Token : uses'[t] + Cardinality(Users') <= served'
    BY <1>2, <1>5, <2>2, <2>3, <2>4, <2>5
  <2> QED
    BY <2>3, <2>6 DEF Spent
<1>8. TypeOK'
  BY <1>2, <1>4, <1>5 DEF Base, TypeOK
<1> QED
  BY <1>6, <1>7, <1>8 DEF Base

\* r uses the token t, which it no longer can do afterwards.
LEMMA BaseUse ==
  ASSUME Base, NEW r \in Req, \A s \in Req \ {r} : req'[s] = req[s],
         Fits(req'[r]), Pending(req[r]), ~ Pending(req'[r]),
         req'[r].goal \in Follows \cup {"none"},
         req'[r].goal \in Follows => req'[r].token \in Token /\ mailed[req'[r].token] # None,
         mailed' = mailed, NEW t \in Token, uses' = [uses EXCEPT ![t] = @ + 1], served' = served
  PROVE  Table' /\ Spent' /\ uses' \in [Token -> 0 .. MaxRequests]
<1>1. Table'
  BY DEF Base, Table
<1>2. Users' \subseteq Users \ {r} /\ r \in Users
  BY DEF Users
<1>3. IsFiniteSet(Users)
  BY DEF Base, Spent
<1>4. Cardinality(Users) \in Nat
  BY <1>3, FS_CardinalityType
<1>5. IsFiniteSet(Users \ {r}) /\ Cardinality(Users \ {r}) = Cardinality(Users) - 1
  BY <1>2, <1>3, FS_RemoveElement
<1>6. IsFiniteSet(Users') /\ Cardinality(Users') <= Cardinality(Users \ {r})
  BY <1>2, <1>5, FS_Subset
<1>7. Cardinality(Users') \in Nat
  BY <1>6, FS_CardinalityType
<1>8. \A u \in Token : uses[u] \in Nat /\ served \in 0 .. MaxRequests
  BY DEF Base, TypeOK
<1>9. \A u \in Token : uses[u] + Cardinality(Users) <= served
  BY DEF Base, Spent
<1>10. uses \in [Token -> 0 .. MaxRequests]
  BY DEF Base, TypeOK
<1>11. \A u \in Token : uses'[u] \in Nat /\ uses'[u] <= uses[u] + 1
  BY <1>8, <1>10
<1>12. \A u \in Token : uses'[u] + Cardinality(Users') <= served'
  BY <1>4, <1>5, <1>6, <1>7, <1>8, <1>9, <1>11
<1>13. \A u \in Token : uses'[u] \in 0 .. MaxRequests
  BY <1>7, <1>8, <1>11, <1>12
<1> QED
  BY <1>1, <1>6, <1>10, <1>12, <1>13 DEF Spent

\* The operations that begin a request.
Begins(r) ==
  \/ \E p \in Password : RegisterUser(r, p) \/ UpdateUserPassword(r, p)
                            \/ SetInitialPassword(r, p)
  \/ \E t \in Token : VerifyEmail(r, t) \/ VerifyMagicLink(r, t)
  \/ \E t \in Token, p \in Password : ConfirmPasswordReset(r, t, p)
  \/ \E e \in Email : UpdateUserEmail(r, e)
  \/ ResendVerificationEmail(r) \/ RequestPasswordReset(r) \/ LoginUser(r)
  \/ RequestMagicLink(r) \/ UserToggleActive(r) \/ DeleteUserAccount(r)

LEMMA BeginsKeepBase == ASSUME Base, NEW r \in Req, Begins(r) PROVE Base'
<1>1. /\ <<>> \in Seq(Password) /\ account.history \in Seq(Password)
      /\ Len(account.history) <= HistoryCount
      /\ shared \subseteq Token
      /\ Present => account.email \in Email
  BY DEF Base, TypeOK, Row, Housed
<1>2. Follows = {"verify", "reset", "linkLogin"} /\ Token \subseteq Token \cup {None}
  BY DEF Follows
<1>3. ASSUME NEW p \in Password, RegisterUser(r, p) PROVE Base'
  <2>1. /\ Begin(r, "create", "register", None, Home, p, <<>>)
        /\ UNCHANGED Began /\ shared' \subseteq Token
    BY <1>1, <1>3 DEF RegisterUser, Began
  <2>2. Fits([pc |-> "create", goal |-> "register", token |-> None, email |-> Home,
              password |-> p, history |-> <<>>])
    BY <1>1, <2>1 DEF Fits
  <2>3. "create" \in Steps /\ "register" \in AllGoals
    BY DEF Steps, AllGoals, VerifyGoals, LinkGoals
  <2> QED
    BY <1>1, <1>2, <2>1, <2>2, <2>3, BaseBegin
<1>4. ASSUME NEW p \in Password, UpdateUserPassword(r, p) PROVE Base'
  <2>1. /\ Begin(r, "write_password", "change", None, None, p,
                 AppendPasswordHistory(account.history, p))
        /\ UNCHANGED Began /\ shared' \subseteq Token
    BY <1>1, <1>4 DEF UpdateUserPassword, Began
  <2>2. /\ AppendPasswordHistory(account.history, p) \in Seq(Password)
        /\ Len(AppendPasswordHistory(account.history, p)) <= HistoryCount
    BY <1>1, HistoryFacts
  <2>3. Fits([pc |-> "write_password", goal |-> "change", token |-> None, email |-> None,
              password |-> p, history |-> AppendPasswordHistory(account.history, p)])
    BY <1>1, <2>1, <2>2 DEF Fits
  <2>4. "write_password" \in Steps /\ "change" \in AllGoals
    BY DEF Steps, AllGoals, VerifyGoals, LinkGoals
  <2> QED
    BY <1>1, <1>2, <2>1, <2>2, <2>3, <2>4, BaseBegin
<1>5. ASSUME NEW p \in Password, SetInitialPassword(r, p) PROVE Base'
  <2>1. /\ Begin(r, "write_password", "initial", None, None, p, account.history)
        /\ UNCHANGED Began /\ shared' \subseteq Token
    BY <1>1, <1>5 DEF SetInitialPassword, Began
  <2>2. Fits([pc |-> "write_password", goal |-> "initial", token |-> None, email |-> None,
              password |-> p, history |-> account.history])
    BY <1>1, <2>1 DEF Fits
  <2>3. "write_password" \in Steps /\ "initial" \in AllGoals
    BY DEF Steps, AllGoals, VerifyGoals, LinkGoals
  <2> QED
    BY <1>1, <1>2, <2>1, <2>2, <2>3, BaseBegin
<1>6. ASSUME NEW t \in Token, VerifyEmail(r, t) PROVE Base'
  <2>1. /\ Begin(r, "mark_verified", "verify", t, None, None, <<>>)
        /\ UNCHANGED Began /\ shared' \subseteq Token
        /\ mailed[t] # None
    BY <1>1, <1>6 DEF VerifyEmail, BeginWith, Began
  <2>2. Fits([pc |-> "mark_verified", goal |-> "verify", token |-> t, email |-> None,
              password |-> None, history |-> <<>>])
    BY <1>1, <2>1 DEF Fits
  <2>3. "mark_verified" \in Steps /\ "verify" \in AllGoals
    BY DEF Steps, AllGoals, VerifyGoals, LinkGoals
  <2> QED
    BY <1>1, <1>2, <2>1, <2>2, <2>3, BaseBegin
<1>7. ASSUME NEW t \in Token, VerifyMagicLink(r, t) PROVE Base'
  <2>1. /\ Begin(r, "look_up", "linkLogin", t, None, None, <<>>)
        /\ UNCHANGED Began /\ shared' \subseteq Token
        /\ mailed[t] # None
    BY <1>1, <1>7 DEF VerifyMagicLink, BeginWith, Began
  <2>2. Fits([pc |-> "look_up", goal |-> "linkLogin", token |-> t, email |-> None,
              password |-> None, history |-> <<>>])
    BY <1>1, <2>1 DEF Fits
  <2>3. "look_up" \in Steps /\ "linkLogin" \in AllGoals
    BY DEF Steps, AllGoals, VerifyGoals, LinkGoals
  <2> QED
    BY <1>1, <1>2, <2>1, <2>2, <2>3, BaseBegin
<1>8. ASSUME NEW t \in Token, NEW p \in Password, ConfirmPasswordReset(r, t, p) PROVE Base'
  <2>1. /\ Begin(r, "check_history", "reset", t, None, p, <<>>)
        /\ UNCHANGED Began /\ shared' \subseteq Token
        /\ mailed[t] # None
    BY <1>1, <1>8 DEF ConfirmPasswordReset, BeginWith, Began
  <2>2. Fits([pc |-> "check_history", goal |-> "reset", token |-> t, email |-> None,
              password |-> p, history |-> <<>>])
    BY <1>1, <2>1 DEF Fits
  <2>3. "check_history" \in Steps /\ "reset" \in AllGoals
    BY DEF Steps, AllGoals, VerifyGoals, LinkGoals
  <2> QED
    BY <1>1, <1>2, <2>1, <2>2, <2>3, BaseBegin
<1>9. ASSUME NEW e \in Email, UpdateUserEmail(r, e) PROVE Base'
  <2>1. /\ Begin(r, "write_email", "email", None, e, None, <<>>)
        /\ UNCHANGED Began /\ shared' \subseteq Token
    BY <1>1, <1>9 DEF UpdateUserEmail, Began
  <2>2. Fits([pc |-> "write_email", goal |-> "email", token |-> None, email |-> e,
              password |-> None, history |-> <<>>])
    BY <1>1, <2>1 DEF Fits
  <2>3. "write_email" \in Steps /\ "email" \in AllGoals
    BY DEF Steps, AllGoals, VerifyGoals, LinkGoals
  <2> QED
    BY <1>1, <1>2, <2>1, <2>2, <2>3, BaseBegin
<1>10. CASE ResendVerificationEmail(r)
  <2>1. /\ Begin(r, "find_old", "resend", None, account.email, None, <<>>)
        /\ UNCHANGED Began /\ shared' \subseteq Token
        /\ account.email \in Email
    BY <1>1, <1>10 DEF ResendVerificationEmail, Began
  <2>2. Fits([pc |-> "find_old", goal |-> "resend", token |-> None, email |-> account.email,
              password |-> None, history |-> <<>>])
    BY <1>1, <2>1 DEF Fits
  <2>3. "find_old" \in Steps /\ "resend" \in AllGoals
    BY DEF Steps, AllGoals, VerifyGoals, LinkGoals
  <2> QED
    BY <1>1, <1>2, <2>1, <2>2, <2>3, BaseBegin
<1>11. CASE RequestPasswordReset(r)
  <2>1. /\ Begin(r, "store", "sendReset", None, account.email, None, <<>>)
        /\ UNCHANGED Began /\ shared' \subseteq Token
        /\ account.email \in Email
    BY <1>1, <1>11 DEF RequestPasswordReset, Began
  <2>2. Fits([pc |-> "store", goal |-> "sendReset", token |-> None, email |-> account.email,
              password |-> None, history |-> <<>>])
    BY <1>1, <2>1 DEF Fits
  <2>3. "store" \in Steps /\ "sendReset" \in AllGoals
    BY DEF Steps, AllGoals, VerifyGoals, LinkGoals
  <2> QED
    BY <1>1, <1>2, <2>1, <2>2, <2>3, BaseBegin
<1>12. CASE LoginUser(r)
  <2>1. /\ Begin(r, "grant", "login", None, None, None, <<>>)
        /\ UNCHANGED Began /\ shared' \subseteq Token
    BY <1>1, <1>12 DEF LoginUser, Began
  <2>2. Fits([pc |-> "grant", goal |-> "login", token |-> None, email |-> None,
              password |-> None, history |-> <<>>])
    BY <1>1, <2>1 DEF Fits
  <2>3. "grant" \in Steps /\ "login" \in AllGoals
    BY DEF Steps, AllGoals, VerifyGoals, LinkGoals
  <2> QED
    BY <1>1, <1>2, <2>1, <2>2, <2>3, BaseBegin
<1>13. CASE RequestMagicLink(r)
  <2>1. /\ Begin(r, "find_old", "sendLink", None, account.email, None, <<>>)
        /\ UNCHANGED Began /\ shared' \subseteq Token
        /\ account.email \in Email
    BY <1>1, <1>13 DEF RequestMagicLink, Began
  <2>2. Fits([pc |-> "find_old", goal |-> "sendLink", token |-> None, email |-> account.email,
              password |-> None, history |-> <<>>])
    BY <1>1, <2>1 DEF Fits
  <2>3. "find_old" \in Steps /\ "sendLink" \in AllGoals
    BY DEF Steps, AllGoals, VerifyGoals, LinkGoals
  <2> QED
    BY <1>1, <1>2, <2>1, <2>2, <2>3, BaseBegin
<1>14. CASE DeleteUserAccount(r)
  <2>1. /\ Begin(r, "revoke_all", "delete", None, None, None, <<>>)
        /\ UNCHANGED Began /\ shared' \subseteq Token
    BY <1>1, <1>14 DEF DeleteUserAccount, Began
  <2>2. Fits([pc |-> "revoke_all", goal |-> "delete", token |-> None, email |-> None,
              password |-> None, history |-> <<>>])
    BY <1>1, <2>1 DEF Fits
  <2>3. "revoke_all" \in Steps /\ "delete" \in AllGoals
    BY DEF Steps, AllGoals, VerifyGoals, LinkGoals
  <2> QED
    BY <1>1, <1>2, <2>1, <2>2, <2>3, BaseBegin
<1>15. CASE UserToggleActive(r)
  <2>1. PICK step \in {"activate", "deactivate"} :
          Begin(r, step, "toggle", None, None, None, <<>>)
    BY <1>15 DEF UserToggleActive, Began
  <2>2. UNCHANGED Began /\ shared' \subseteq Token
    BY <1>1, <1>15 DEF UserToggleActive, Began
  <2>3. Fits([pc |-> step, goal |-> "toggle", token |-> None, email |-> None,
              password |-> None, history |-> <<>>])
    BY DEF Fits
  <2>4. step \in Steps /\ "toggle" \in AllGoals
    BY DEF Steps, AllGoals, VerifyGoals, LinkGoals
  <2> QED
    BY <1>1, <1>2, <2>1, <2>2, <2>3, <2>4, BaseBegin
<1> QED
  BY <1>3, <1>4, <1>5, <1>6, <1>7, <1>8, <1>9, <1>10, <1>11, <1>12, <1>13, <1>14, <1>15 DEF Begins

\* A request moves on, or ends, without using its token.
LEMMA BaseGoto ==
  ASSUME Base, NEW r \in Req, NEW step \in Steps, req' = [req EXCEPT ![r].pc = step],
         Fits([req[r] EXCEPT !.pc = step]),
         req[r].goal = "reset" /\ step \in {"check_history", "write_password"} =>
           req[r].pc = "check_history",
         \A t \in Token : mailed[t] # None => mailed'[t] # None,
         uses' = uses, served' = served
  PROVE  Table' /\ Spent' /\ req' \in [Req -> Request]
<1> DEFINE new == [req[r] EXCEPT !.pc = step]
<1>1. req \in [Req -> Request]
  BY DEF Base, TypeOK
<1>2. /\ new \in Request /\ new.goal = req[r].goal /\ new.token = req[r].token
      /\ new.pc = step /\ req' = [req EXCEPT ![r] = new] /\ Fits(new)
  BY <1>1 DEF Request
<1> HIDE DEF new
<1>3. /\ req' \in [Req -> Request] /\ req'[r] = new
      /\ \A s \in Req \ {r} : req'[s] = req[s]
  BY <1>1, <1>2
<1>4. Pending(new) => Pending(req[r])
  BY <1>2 DEF Pending
<1>5. new.goal \in Follows => new.token \in Token /\ mailed[new.token] # None
  BY <1>2 DEF Base, Table
<1> QED
  BY <1>2, <1>3, <1>4, <1>5, BaseKept

LEMMA BaseFinish ==
  ASSUME Base, NEW r \in Req, Finish(r),
         \A t \in Token : mailed[t] # None => mailed'[t] # None,
         uses' = uses, served' = served
  PROVE  Table' /\ Spent' /\ req' \in [Req -> Request]
<1>1. Fits(Idle) /\ ~ Pending(Idle) /\ Idle.goal \notin Follows
  BY DEF Idle, Fits, Pending, Follows
<1>2. /\ req' \in [Req -> Request] /\ req'[r] = Idle
      /\ \A s \in Req \ {r} : req'[s] = req[s]
  BY FinishEffect DEF Base, TypeOK
<1> QED
  BY <1>1, <1>2, BaseKept

\* Steps that change neither row nor history: only the keys, at most.
LEMMA KeyStepsKeepBase ==
  ASSUME Base, NEW r \in Req,
         \/ FindOld(r) \/ LookUp(r) \/ DropCurrent(r) \/ DropKey(r) \/ CheckHistory(r)
         \/ ReadUser(r) \/ RevokeAllUserTokens(r) \/ RevokeAllUserSessions(r) \/ Fail(r)
  PROVE  Base'
<1>1. /\ req \in [Req -> Request] /\ req[r] \in Request /\ Fits(req[r])
      /\ req[r].goal \in Follows => req[r].token \in Token /\ mailed[req[r].token] # None
  BY DEF Base, TypeOK, Table
<1>2. /\ UNCHANGED <<account, served, history>> /\ errors' \in 0 .. MaxErrors
      /\ keys' \in [Token -> Kinds \cup {"none"}]
      /\ current' \in [Indexed -> Token \cup {None}]
      /\ access' \in {"none", "live", "blocked"}
  <2>1. errors \in 0 .. MaxErrors /\ access \in {"none", "live", "blocked"}
        /\ keys \in [Token -> Kinds \cup {"none"}]
        /\ current \in [Indexed -> Token \cup {None}]
    BY DEF Base, TypeOK
  <2> QED
    BY <2>1 DEF FindOld, LookUp, DropCurrent, DropKey, CheckHistory, ReadUser,
                RevokeAllUserTokens, RevokeAllUserSessions, Fail, Began, history
<1>3. Table' /\ Spent' /\ req' \in [Req -> Request]
  <2>1. CASE FindOld(r)
    <3> DEFINE old == current[Kind(req[r].goal)]
               step == IF old = None THEN "store"
                       ELSE IF req[r].goal = "sendLink" THEN "drop_key" ELSE "look_up"
               new == [[req[r] EXCEPT !.token = old] EXCEPT !.pc = step]
    <3>1. old \in Token \cup {None} /\ req[r].goal \in {"resend", "sendLink"}
      BY <1>1, <2>1 DEF FindOld, Base, TypeOK, Fits, Kind, Indexed, VerifyGoals, LinkGoals
    <3>2. /\ req' = [req EXCEPT ![r] = new] /\ req[r].pc = "find_old"
      BY <1>1, <2>1 DEF FindOld
    <3> HIDE DEF old
    <3>3. new \in Request /\ new.goal = req[r].goal /\ new.pc = step
      BY <1>1, <3>1 DEF Request, Steps
    <3>4. Fits(new)
      BY <1>1, <3>1, <3>2 DEF Fits, Request
    <3>5. new.goal \notin Follows /\ ~ Pending(new)
      BY <3>1, <3>3 DEF Follows, Pending
    <3> HIDE DEF new
    <3>6. /\ req' \in [Req -> Request] /\ req'[r] = new
          /\ \A s \in Req \ {r} : req'[s] = req[s]
      BY <1>1, <3>2, <3>3
    <3> QED
      BY <1>2, <3>4, <3>5, <3>6, BaseKept DEF history
  <2>2. ASSUME NEW step \in Steps, Goto(r, step), Fits([req[r] EXCEPT !.pc = step]),
               req[r].goal = "reset" /\ step \in {"check_history", "write_password"} =>
                 req[r].pc = "check_history"
        PROVE  Table' /\ Spent' /\ req' \in [Req -> Request]
    BY <1>2, <2>2, BaseGoto DEF Goto, history
  <2>3. ASSUME Finish(r) PROVE Table' /\ Spent' /\ req' \in [Req -> Request]
    BY <1>2, <2>3, BaseFinish DEF history
  <2>4. CASE LookUp(r)
    <3>1. PICK step \in {"drop_key", "drop_current"} : Goto(r, step) /\ req[r].pc = "look_up"
      BY <2>4 DEF LookUp
    <3>2. Fits([req[r] EXCEPT !.pc = step]) /\ step \in Steps
      BY <1>1, <3>1 DEF Fits, Request, Steps
    <3> QED
      BY <2>2, <3>1, <3>2
  <2>5. CASE DropCurrent(r)
    <3>1. Goto(r, "drop_key") /\ req[r].pc = "drop_current"
      BY <2>5 DEF DropCurrent
    <3>2. Fits([req[r] EXCEPT !.pc = "drop_key"]) /\ "drop_key" \in Steps
      BY <1>1, <3>1 DEF Fits, Request, Steps
    <3> QED
      BY <2>2, <3>1, <3>2
  <2>6. ASSUME req[r].pc = "drop_key", Proceed(r, AfterDrop[req[r].goal])
        PROVE  Table' /\ Spent' /\ req' \in [Req -> Request]
    <3>1. \/ Finish(r)
          \/ \E step \in {"store", "read_user", "revoke"} :
               Goto(r, step) /\ Fits([req[r] EXCEPT !.pc = step])
      <4>1. req[r].goal \in {"verify", "resend", "sendLink", "linkLogin", "reset"}
        BY <1>1, <2>6 DEF Fits
      <4>2. CASE req[r].goal = "verify"
        BY <2>6, <4>2, Continuations DEF Proceed
      <4>3. CASE req[r].goal \in {"resend", "sendLink"}
        <5>1. Goto(r, "store")
          BY <2>6, <4>3, Continuations DEF Proceed
        <5>2. Fits([req[r] EXCEPT !.pc = "store"])
          BY <1>1, <2>6, <4>3 DEF Fits, Request
        <5> QED
          BY <5>1, <5>2
      <4>4. CASE req[r].goal = "linkLogin"
        <5>1. Goto(r, "read_user")
          BY <2>6, <4>4, Continuations DEF Proceed
        <5>2. Fits([req[r] EXCEPT !.pc = "read_user"])
          BY <1>1, <2>6, <4>4 DEF Fits, Request
        <5> QED
          BY <5>1, <5>2
      <4>5. CASE req[r].goal = "reset"
        <5>1. Goto(r, "revoke")
          BY <2>6, <4>5, Continuations DEF Proceed
        <5>2. Fits([req[r] EXCEPT !.pc = "revoke"])
          BY <1>1, <2>6, <4>5 DEF Fits, Request
        <5> QED
          BY <5>1, <5>2
      <4> QED
        BY <4>1, <4>2, <4>3, <4>4, <4>5
    <3>2. CASE Finish(r)
      BY <2>3, <3>2
    <3>3. ASSUME NEW step \in {"store", "read_user", "revoke"},
                 Goto(r, step), Fits([req[r] EXCEPT !.pc = step])
          PROVE  Table' /\ Spent' /\ req' \in [Req -> Request]
      <4>1. step \in Steps /\ step \notin {"check_history", "write_password"}
        BY DEF Steps
      <4> QED
        BY <2>2, <3>3, <4>1
    <3> QED
      BY <3>1, <3>2, <3>3
  <2>7. CASE DropKey(r)
    BY <2>6, <2>7 DEF DropKey
  <2>8. CASE CheckHistory(r)
    <3>1. CASE Present /\ PassesHistory(account.history, req[r].password)
      <4> DEFINE hist == AppendPasswordHistory(account.history, req[r].password)
                 new == [[req[r] EXCEPT !.pc = "write_password"] EXCEPT !.history = hist]
      <4>1. req[r].pc = "check_history" /\ req[r].password \in Password
            /\ account.history \in Seq(Password) /\ req[r].goal = "reset"
        BY <1>1, <2>8 DEF CheckHistory, Fits, Base, TypeOK, Row
      <4>2. hist \in Seq(Password) /\ Len(hist) <= HistoryCount
        BY <4>1, HistoryFacts
      <4>3. req' = [req EXCEPT ![r] = new]
        BY <1>1, <2>8, <3>1 DEF CheckHistory
      <4> HIDE DEF hist
      <4>4. new \in Request /\ new.goal = req[r].goal /\ new.token = req[r].token
        BY <1>1, <4>2 DEF Request, Steps
      <4>5. Fits(new)
        BY <1>1, <4>1, <4>2 DEF Fits, Request
      <4> HIDE DEF new
      <4>6. /\ req' \in [Req -> Request] /\ req'[r] = new
            /\ \A s \in Req \ {r} : req'[s] = req[s]
        BY <1>1, <4>3, <4>4
      <4>7. Pending(req[r])
        BY <4>1 DEF Pending
      <4> QED
        BY <1>1, <1>2, <4>4, <4>5, <4>6, <4>7, BaseKept DEF history
    <3>2. CASE ~ (Present /\ PassesHistory(account.history, req[r].password))
      BY <2>3, <2>8, <3>2 DEF CheckHistory
    <3> QED
      BY <3>1, <3>2
  <2>9. CASE ReadUser(r)
    <3>1. req[r].pc = "read_user" /\ (Goto(r, "grant") \/ Finish(r))
      BY <2>9 DEF ReadUser
    <3>2. Fits([req[r] EXCEPT !.pc = "grant"]) /\ "grant" \in Steps
      BY <1>1, <3>1 DEF Fits, Request, Steps
    <3> QED
      BY <2>2, <2>3, <3>1, <3>2
  <2>10. CASE RevokeAllUserTokens(r)
    BY <2>3, <2>10 DEF RevokeAllUserTokens
  <2>11. CASE RevokeAllUserSessions(r)
    <3>1. req[r].pc = "revoke_all" /\ Goto(r, "delete_row")
      BY <2>11 DEF RevokeAllUserSessions
    <3>2. Fits([req[r] EXCEPT !.pc = "delete_row"]) /\ "delete_row" \in Steps
      BY <1>1, <3>1 DEF Fits, Request, Steps
    <3> QED
      BY <2>2, <3>1, <3>2
  <2>12. CASE Fail(r)
    <3>1. CASE req[r].pc = "drop_key"
      BY <2>6, <2>12, <3>1 DEF Fail
    <3>2. CASE req[r].pc \in DOMAIN AfterWarning
      <4>1. PICK step \in {"store", "drop_key", "delete_row"} :
              /\ Goto(r, step)
              /\ \/ req[r].pc = "find_old" /\ step = "store"
                 \/ req[r].pc \in {"look_up", "drop_current"} /\ step = "drop_key"
                 \/ req[r].pc = "revoke_all" /\ step = "delete_row"
        BY <2>12, <3>2, Continuations DEF Fail
      <4>2. Fits([req[r] EXCEPT !.pc = step]) /\ step \in Steps
        BY <1>1, <4>1 DEF Fits, Request, Steps
      <4>3. step \notin {"check_history", "write_password"}
        OBVIOUS
      <4> QED
        BY <2>2, <4>1, <4>2, <4>3
    <3>3. CASE req[r].pc # "drop_key" /\ req[r].pc \notin DOMAIN AfterWarning
      BY <2>3, <2>12, <3>3 DEF Fail
    <3> QED
      BY <3>1, <3>2, <3>3
  <2> QED
    BY <2>1, <2>4, <2>5, <2>7, <2>8, <2>9, <2>10, <2>11, <2>12
<1>4. Housed'
  BY <1>2 DEF Base, Housed, Present
<1>5. TypeOK'
  BY <1>2, <1>3 DEF Base, TypeOK, history
<1> QED
  BY <1>3, <1>4, <1>5 DEF Base

\* Steps that store and mail tokens.
LEMMA TokenStepsKeepBase ==
  ASSUME Base, NEW r \in Req,
         \/ \E t \in Token : StoreToken(r, t)
         \/ IndexToken(r)
  PROVE  Base'
<1>1. /\ req \in [Req -> Request] /\ req[r] \in Request /\ Fits(req[r])
      /\ mailed \in [Token -> Email \cup {None}] /\ keys \in [Token -> Kinds \cup {"none"}]
      /\ current \in [Indexed -> Token \cup {None}]
  BY DEF Base, TypeOK, Table
<1>2. ASSUME NEW t \in Token, StoreToken(r, t) PROVE Base'
  <2>1. /\ req[r].pc = "store" /\ req[r].email \in Email
        /\ req[r].goal \in {"register", "resend", "email", "sendLink", "sendReset"}
    BY <1>1, <1>2 DEF StoreToken, Fits
  <2>2. Kind(req[r].goal) \in Kinds
    BY DEF Kind, Kinds
  <2>3. /\ keys' \in [Token -> Kinds \cup {"none"}]
        /\ UNCHANGED <<account, current, access, served, errors, proved, chosen, uses,
                       shared, raced>>
    BY <1>1, <1>2, <2>2 DEF StoreToken
  <2>4. /\ mailed' \in [Token -> Email \cup {None}]
        /\ \A u \in Token : mailed[u] # None => mailed'[u] # None
    BY <1>1, <1>2, <2>1 DEF StoreToken
  <2>5. CASE Kind(req[r].goal) = "reset"
    <3>1. Finish(r)
      BY <1>2, <2>5 DEF StoreToken
    <3>2. Table' /\ Spent' /\ req' \in [Req -> Request]
      BY <2>3, <2>4, <3>1, BaseFinish
    <3> QED
      BY <2>3, <2>4, <3>2 DEF Base, TypeOK, Housed, Present
  <2>6. CASE Kind(req[r].goal) # "reset"
    <3> DEFINE new == [[req[r] EXCEPT !.pc = "index"] EXCEPT !.token = t]
    <3>1. req' = [req EXCEPT ![r] = new]
      BY <1>1, <1>2, <2>6 DEF StoreToken
    <3>2. new \in Request /\ new.goal = req[r].goal
      BY <1>1 DEF Request, Steps
    <3>3. Fits(new)
      BY <1>1, <2>1, <2>6 DEF Fits, Request, Kind, VerifyGoals, LinkGoals
    <3>4. new.goal \notin Follows /\ ~ Pending(new)
      BY <2>1, <3>2 DEF Follows, Pending
    <3> HIDE DEF new
    <3>5. /\ req' \in [Req -> Request] /\ req'[r] = new
          /\ \A s \in Req \ {r} : req'[s] = req[s]
      BY <1>1, <3>1, <3>2
    <3>6. Table' /\ Spent'
      BY <2>3, <2>4, <3>3, <3>4, <3>5, BaseKept
    <3> QED
      BY <2>3, <2>4, <3>5, <3>6 DEF Base, TypeOK, Housed, Present
  <2> QED
    BY <2>5, <2>6
<1>3. CASE IndexToken(r)
  <2>1. /\ req[r].email \in Email /\ req[r].token \in Token /\ Finish(r)
        /\ current' = [current EXCEPT ![Kind(req[r].goal)] = req[r].token]
        /\ mailed' = [mailed EXCEPT ![req[r].token] = req[r].email]
        /\ UNCHANGED <<account, keys, access, served, errors, proved, chosen, uses,
                       shared, raced>>
    BY <1>1, <1>3 DEF IndexToken, Fits
  <2>2. /\ mailed' \in [Token -> Email \cup {None}]
        /\ current' \in [Indexed -> Token \cup {None}]
        /\ \A u \in Token : mailed[u] # None => mailed'[u] # None
    BY <1>1, <2>1
  <2>3. Table' /\ Spent' /\ req' \in [Req -> Request]
    BY <2>1, <2>2, BaseFinish
  <2> QED
    BY <2>1, <2>2, <2>3 DEF Base, TypeOK, Housed, Present
<1> QED
  BY <1>2, <1>3

\* Steps that write the row, or use a token.
LEMMA RowStepsKeepBase ==
  ASSUME Base, NEW r \in Req,
         \/ CreateUser(r) \/ MarkVerified(r) \/ WriteEmail(r) \/ WritePassword(r)
         \/ Grant(r) \/ ToggleUserActive(r) \/ DeleteUser(r)
  PROVE  Base'
<1>1. /\ req \in [Req -> Request] /\ req[r] \in Request /\ Fits(req[r])
      /\ req[r].goal \in Follows => req[r].token \in Token /\ mailed[req[r].token] # None
  BY DEF Base, TypeOK, Table
<1>2. ASSUME UNCHANGED <<keys, current, served, errors, mailed>>,
             account' \in Row, Len(account'.history) <= HistoryCount,
             account'.status = "present" => account'.email \in Email,
             access' \in {"none", "live", "blocked"}, proved' \subseteq Email,
             chosen' \in Seq(Password), shared' \subseteq Token,
             raced' \subseteq {"link", "ending", "email", "password", "initial"} \cup raced,
             uses' \in [Token -> 0 .. MaxRequests],
             Table', Spent', req' \in [Req -> Request]
      PROVE  Base'
  BY <1>2 DEF Base, TypeOK, Housed, Present
<1>3. /\ account \in Row /\ Len(account.history) <= HistoryCount
      /\ Present => account.email \in Email
      /\ access \in {"none", "live", "blocked"} /\ proved \subseteq Email
      /\ chosen \in Seq(Password) /\ shared \subseteq Token
      /\ uses \in [Token -> 0 .. MaxRequests]
      /\ mailed \in [Token -> Email \cup {None}]
  BY DEF Base, TypeOK, Housed
<1>4. ASSUME NEW step \in Steps, Goto(r, step), Fits([req[r] EXCEPT !.pc = step]),
             step \notin {"check_history", "write_password"},
             UNCHANGED <<mailed, uses, served>>
      PROVE  Table' /\ Spent' /\ req' \in [Req -> Request]
  BY <1>4, BaseGoto DEF Goto
<1>5. ASSUME Finish(r), UNCHANGED <<mailed, uses, served>>
      PROVE  Table' /\ Spent' /\ req' \in [Req -> Request]
  BY <1>5, BaseFinish
<1>6. CASE CreateUser(r)
  <2>1. req[r].email \in Email /\ req[r].password \in Password /\ req[r].goal = "register"
    BY <1>1, <1>6 DEF CreateUser, Fits
  <2>2. UNCHANGED <<keys, current, access, served, errors, mailed, proved, uses, shared, raced>>
    BY <1>6 DEF CreateUser
  <2>3. CASE account.status = "absent"
    <3>1. /\ AppendPasswordHistory(<<>>, req[r].password) \in Seq(Password)
          /\ Len(AppendPasswordHistory(<<>>, req[r].password)) <= HistoryCount
      <4>1. <<>> \in Seq(Password)
        OBVIOUS
      <4> QED
        BY <2>1, <4>1, HistoryFacts
    <3>2. /\ account' = [status |-> "present", email |-> req[r].email, verified |-> FALSE,
                         active |-> TRUE, password |-> req[r].password,
                         history |-> AppendPasswordHistory(<<>>, req[r].password)]
          /\ chosen' = <<req[r].password>> /\ Goto(r, "store")
      BY <1>6, <2>3 DEF CreateUser
    <3>3. /\ account' \in Row /\ Len(account'.history) <= HistoryCount
          /\ account'.email \in Email
      BY <2>1, <3>1, <3>2 DEF Row
    <3>4. chosen' \in Seq(Password)
      BY <2>1, <3>2
    <3>5. Fits([req[r] EXCEPT !.pc = "store"]) /\ "store" \in Steps
      BY <1>1, <1>6, <2>1 DEF Fits, Request, Steps, CreateUser
    <3>6. Table' /\ Spent' /\ req' \in [Req -> Request]
      BY <1>4, <2>2, <3>2, <3>5
    <3> QED
      BY <1>2, <1>3, <2>2, <3>3, <3>4, <3>6
  <2>4. CASE account.status # "absent"
    <3>1. Finish(r) /\ UNCHANGED <<account, chosen>>
      BY <1>6, <2>4 DEF CreateUser
    <3>2. Table' /\ Spent' /\ req' \in [Req -> Request]
      BY <1>5, <2>2, <3>1
    <3> QED
      BY <1>2, <1>3, <2>2, <3>1, <3>2 DEF Present
  <2> QED
    BY <2>3, <2>4
<1>7. CASE MarkVerified(r)
  <2>1. /\ UNCHANGED <<keys, current, access, served, errors, mailed, chosen, uses, shared, raced>>
        /\ req[r].pc = "mark_verified" /\ Goto(r, "look_up")
        /\ account' = [account EXCEPT !.verified = @ \/ Present]
        /\ proved' = proved \cup {mailed[req[r].token]}
    BY <1>7 DEF MarkVerified
  <2>2. /\ account' \in Row /\ account'.status = account.status
        /\ account'.history = account.history /\ account'.email = account.email
    <3>1. (account.verified \/ Present) \in BOOLEAN
      BY <1>3 DEF Row, Present
    <3> QED
      BY <1>3, <2>1, <3>1 DEF Row
  <2>3. req[r].goal = "verify" /\ mailed[req[r].token] \in Email
    BY <1>1, <1>3, <2>1 DEF Fits, Follows
  <2>4. Fits([req[r] EXCEPT !.pc = "look_up"]) /\ "look_up" \in Steps
    BY <1>1, <2>1, <2>3 DEF Fits, Request, Steps, Follows
  <2>5. Table' /\ Spent' /\ req' \in [Req -> Request]
    BY <1>4, <2>1, <2>4
  <2> QED
    BY <1>2, <1>3, <2>1, <2>2, <2>3, <2>5 DEF Present
<1>8. CASE WriteEmail(r)
  <2>1. /\ UNCHANGED <<keys, current, access, served, errors, mailed, proved, chosen, uses,
                       shared>>
        /\ req[r].pc = "write_email" /\ Goto(r, "store")
        /\ account' = IF Present THEN [account EXCEPT !.email = req[r].email,
                                                      !.verified = FALSE] ELSE account
        /\ raced' \subseteq raced \cup {"email"}
    BY <1>8 DEF WriteEmail
  <2>2. req[r].email \in Email /\ req[r].goal = "email"
    BY <1>1, <2>1 DEF Fits
  <2>3. /\ account' \in Row /\ account'.history = account.history
        /\ account'.status = "present" => account'.email \in Email
    BY <1>3, <2>1, <2>2 DEF Row, Present
  <2>4. Fits([req[r] EXCEPT !.pc = "store"]) /\ "store" \in Steps
    BY <1>1, <2>1, <2>2 DEF Fits, Request, Steps
  <2>5. Table' /\ Spent' /\ req' \in [Req -> Request]
    BY <1>4, <2>1, <2>4
  <2> QED
    BY <1>2, <1>3, <2>1, <2>3, <2>5
<1>9. CASE WritePassword(r)
  <2>1. /\ UNCHANGED <<keys, current, access, served, errors, mailed, proved, shared>>
        /\ req[r].pc = "write_password" /\ Proceed(r, AfterWrite[req[r].goal])
        /\ account' = IF Present THEN [account EXCEPT !.password = req[r].password,
                                                      !.history = req[r].history] ELSE account
        /\ chosen' = IF Present THEN <<req[r].password>> \o chosen ELSE chosen
        /\ uses' = IF req[r].goal = "reset" THEN [uses EXCEPT ![req[r].token] = @ + 1] ELSE uses
        /\ raced' \subseteq raced \cup {"password", "initial"}
    BY <1>9 DEF WritePassword
  <2>2. /\ req[r].password \in Password /\ req[r].history \in Seq(Password)
        /\ Len(req[r].history) <= HistoryCount /\ req[r].goal \in {"reset", "change", "initial"}
    BY <1>1, <2>1 DEF Fits, Request
  <2>3. /\ account' \in Row /\ Len(account'.history) <= HistoryCount
        /\ account'.status = "present" => account'.email \in Email
    BY <1>3, <2>1, <2>2 DEF Row, Present
  <2>4. chosen' \in Seq(Password)
    BY <1>3, <2>1, <2>2
  <2>5. Table' /\ Spent' /\ uses' \in [Token -> 0 .. MaxRequests] /\ req' \in [Req -> Request]
    <3>1. CASE req[r].goal = "reset"
      <4>1. Goto(r, "drop_key")
        BY <2>1, <3>1, Continuations DEF Proceed
      <4>2. /\ req' \in [Req -> Request] /\ req'[r].pc = "drop_key"
            /\ req'[r].goal = "reset" /\ req'[r].token = req[r].token
            /\ req'[r] = [req[r] EXCEPT !.pc = "drop_key"]
            /\ \A s \in Req \ {r} : req'[s] = req[s]
        <5>1. "drop_key" \in Steps
          BY DEF Steps
        <5> QED
          BY <1>1, <3>1, <4>1, <5>1, GotoEffect DEF Goto
      <4>3. req[r].token \in Token /\ mailed[req[r].token] # None
        BY <1>1, <3>1 DEF Follows
      <4>4. Fits(req'[r])
        BY <1>1, <2>1, <3>1, <4>2, <4>3 DEF Fits, Request
      <4>5. Pending(req[r]) /\ ~ Pending(req'[r]) /\ "reset" \in Follows
        BY <2>1, <3>1, <4>2 DEF Pending, Follows
      <4> QED
        BY <2>1, <3>1, <4>2, <4>3, <4>4, <4>5, BaseUse
    <3>2. CASE req[r].goal = "change"
      <4>1. Goto(r, "revoke")
        BY <2>1, <3>2, Continuations DEF Proceed
      <4>2. Fits([req[r] EXCEPT !.pc = "revoke"]) /\ "revoke" \in Steps
        BY <1>1, <2>1, <3>2 DEF Fits, Request, Steps
      <4> QED
        BY <1>3, <1>4, <2>1, <3>2, <4>1, <4>2
    <3>3. CASE req[r].goal = "initial"
      <4>1. Finish(r)
        BY <2>1, <3>3, Continuations DEF Proceed
      <4> QED
        BY <1>3, <1>5, <2>1, <3>3, <4>1
    <3> QED
      BY <2>2, <3>1, <3>2, <3>3
  <2> QED
    BY <1>2, <1>3, <2>1, <2>3, <2>4, <2>5
<1>10. CASE Grant(r)
  <2>1. /\ UNCHANGED <<account, keys, current, served, errors, mailed, proved, chosen, shared,
                       raced>>
        /\ req[r].pc = "grant" /\ Finish(r) /\ access' = "live"
        /\ uses' = IF req[r].goal = "linkLogin" THEN [uses EXCEPT ![req[r].token] = @ + 1]
                                                ELSE uses
    BY <1>10 DEF Grant
  <2>2. Table' /\ Spent' /\ uses' \in [Token -> 0 .. MaxRequests] /\ req' \in [Req -> Request]
    <3>1. CASE req[r].goal = "linkLogin"
      <4>1. /\ req' \in [Req -> Request] /\ req'[r] = Idle
            /\ \A s \in Req \ {r} : req'[s] = req[s]
        BY <1>1, <2>1, FinishEffect
      <4>2. req[r].token \in Token
        BY <1>1, <3>1 DEF Follows
      <4>3. Fits(Idle) /\ ~ Pending(Idle) /\ Idle.goal = "none" /\ "none" \notin Follows
        BY DEF Idle, Fits, Pending, Follows
      <4>4. Pending(req[r])
        BY <3>1 DEF Pending
      <4> QED
        BY <2>1, <3>1, <4>1, <4>2, <4>3, <4>4, BaseUse
    <3>2. CASE req[r].goal # "linkLogin"
      BY <1>3, <1>5, <2>1, <3>2
    <3> QED
      BY <3>1, <3>2
  <2> QED
    BY <1>2, <1>3, <2>1, <2>2 DEF Present
<1>11. CASE ToggleUserActive(r)
  <2>1. UNCHANGED <<keys, current, access, served, errors, mailed, proved, chosen, uses, shared,
                    raced>>
    BY <1>11 DEF ToggleUserActive, history
  <2>2. /\ account' \in Row /\ account'.history = account.history
        /\ account'.status = account.status /\ account'.email = account.email
    BY <1>3, <1>11 DEF ToggleUserActive, SetActive, Row
  <2>3. Table' /\ Spent' /\ req' \in [Req -> Request]
    <3>1. CASE Finish(r)
      BY <1>5, <2>1, <3>1
    <3>2. CASE req[r].pc = "deactivate" /\ Goto(r, "revoke")
      <4>1. Fits([req[r] EXCEPT !.pc = "revoke"]) /\ "revoke" \in Steps
        BY <1>1, <3>2 DEF Fits, Request, Steps
      <4> QED
        BY <1>4, <2>1, <3>2, <4>1
    <3> QED
      BY <1>11, <3>1, <3>2 DEF ToggleUserActive
  <2> QED
    BY <1>2, <1>3, <2>1, <2>2, <2>3 DEF Present
<1>12. CASE DeleteUser(r)
  <2>1. /\ UNCHANGED <<keys, current, access, served, errors, mailed, proved, chosen, uses,
                       shared, raced>>
        /\ Finish(r) /\ account' = [Absent EXCEPT !.status = "deleted"]
    BY <1>12 DEF DeleteUser, history
  <2>2. account' \in Row /\ Len(account'.history) <= HistoryCount /\ account'.status # "present"
    <3>1. Absent \in Row /\ Absent.history = <<>>
      BY DEF Absent, Row
    <3>2. account' \in Row /\ account'.history = <<>> /\ account'.status = "deleted"
      BY <2>1, <3>1 DEF Row
    <3>3. Len(<<>>) = 0
      OBVIOUS
    <3> QED
      BY <3>2, <3>3
  <2>3. Table' /\ Spent' /\ req' \in [Req -> Request]
    BY <1>5, <2>1
  <2> QED
    BY <1>2, <1>3, <2>1, <2>2, <2>3
<1> QED
  BY <1>6, <1>7, <1>8, <1>9, <1>10, <1>11, <1>12

LEMMA NextBase == Base /\ [Next]_vars => Base'
<1> SUFFICES ASSUME Base, [Next]_vars PROVE Base'
  OBVIOUS
<1>1. CASE UNCHANGED vars
  BY <1>1 DEF vars, history, Base, TypeOK, Table, Housed, Present, Spent, Users
<1>2. ASSUME NEW t \in Token, Lapse(t) PROVE Base'
  <2>1. /\ UNCHANGED <<account, access, req, served, errors, mailed, proved, chosen, uses,
                       shared, raced>>
        /\ keys' = [keys EXCEPT ![t] = "none"]
        /\ current' = [k \in Indexed |-> IF current[k] = t THEN None ELSE current[k]]
    BY <1>2 DEF Lapse, history
  <2>2. keys' \in [Token -> Kinds \cup {"none"}] /\ current' \in [Indexed -> Token \cup {None}]
    BY <2>1 DEF Base, TypeOK
  <2>3. TypeOK'
    BY <2>1, <2>2 DEF Base, TypeOK
  <2> QED
    BY <2>1, <2>3 DEF Base, Table, Housed, Present, Spent, Users
<1>3. ASSUME NEW r \in Req, Serve(r) PROVE Base'
  BY <1>3, BeginsKeepBase, KeyStepsKeepBase, TokenStepsKeepBase, RowStepsKeepBase
     DEF Serve, Begins, Register, ResendVerification, FollowVerification, UpdateEmail,
         ForgotPassword, ResetPassword, UpdatePassword, SetPassword, DeleteAccount,
         AskForMagicLink, FollowMagicLink
<1> QED
  BY <1>1, <1>2, <1>3 DEF Next

\* Every row, key and request keeps its shape in every interleaving of the handlers, and
\* no token can be used more often than requests are served (internal/user/service.go).
THEOREM AccountsTyped == Spec => []TypeOK
<1>1. Base => TypeOK
  BY DEF Base
<1> QED
  BY <1>1, InitBase, NextBase, PTL DEF Spec

-----------------------------------------------------------------------------
(* What a step does to its request, for the invariants below.              *)

Same(r) == \A s \in Req \ {r} : req'[s] = req[s]
Ended(r) == Same(r) /\ req'[r].pc = "idle" /\ req'[r].goal = "none" /\ req'[r].token = None
Moved(r, step) ==
  /\ Same(r) /\ req'[r].pc = step /\ req'[r].goal = req[r].goal
  /\ req'[r].email = req[r].email /\ req'[r].password = req[r].password
Went(r, step) ==
  Moved(r, step) /\ req'[r].token = req[r].token /\ req'[r].history = req[r].history

\* What is known of a request that has just begun.
Begun(r) ==
  LET n == req'[r] IN
  /\ Same(r) /\ req[r].pc = "idle" /\ req[r].goal = "none" /\ n.goal \in AllGoals
  /\ UNCHANGED <<account, keys, current, access, errors, mailed, proved, chosen, uses>>
  /\ raced \subseteq raced' /\ raced' \subseteq raced \cup {"link", "ending"}
  /\ shared \subseteq shared'
  /\ n.goal \in LinkGoals /\ Serving(LinkGoals) # {} => "link" \in raced'
  /\ n.goal \in Endings /\ Serving(Logins) # {} => "ending" \in raced'
  /\ n.goal \in Logins /\ Serving(Endings) # {} => "ending" \in raced'
  /\ IF n.goal \in Follows THEN keys[n.token] = Kind(n.goal) ELSE n.token = None
  /\ n.goal \in {"reset", "linkLogin"} /\ Presented(n.token) => n.token \in shared'
  /\ n.goal = "register" => n.pc = "create" /\ n.email = Home /\ account.status = "absent"
  /\ n.goal \in {"resend", "sendLink"} =>
       n.pc = "find_old" /\ n.email = account.email /\ Present
  /\ n.goal = "sendReset" => n.pc = "store" /\ n.email = account.email /\ Present
  /\ n.goal = "email" => n.pc = "write_email" /\ Present
  /\ n.goal = "verify" => n.pc = "mark_verified"
  /\ n.goal = "linkLogin" => n.pc = "look_up"
  /\ n.goal = "reset" => n.pc = "check_history"
  /\ n.goal = "change" =>
       /\ n.pc = "write_password" /\ PassesHistory(account.history, n.password)
       /\ n.history = AppendPasswordHistory(account.history, n.password) /\ Present
  /\ n.goal = "initial" => n.pc = "write_password" /\ Present
  /\ n.goal = "login" => n.pc = "grant" /\ Present /\ account.active
  /\ n.goal = "toggle" => n.pc \in {"activate", "deactivate"} /\ Present
  /\ n.goal = "delete" => n.pc = "revoke_all" /\ Present

BeganAs(r, step, goal, token, email, password, hist) ==
  /\ Same(r) /\ req[r].pc = "idle" /\ req[r].goal = "none"
  /\ req'[r].pc = step /\ req'[r].goal = goal /\ req'[r].token = token
  /\ req'[r].email = email /\ req'[r].password = password /\ req'[r].history = hist
  /\ raced \subseteq raced' /\ raced' \subseteq raced \cup {"link", "ending"}
  /\ goal \in LinkGoals /\ Serving(LinkGoals) # {} => "link" \in raced'
  /\ goal \in Endings /\ Serving(Logins) # {} => "ending" \in raced'
  /\ goal \in Logins /\ Serving(Endings) # {} => "ending" \in raced'

LEMMA BegunFacts ==
  ASSUME Base, NEW r \in Req,
         NEW step \in Steps, NEW goal \in AllGoals, NEW token \in Token \cup {None},
         NEW email \in Email \cup {None}, NEW password \in Password \cup {None},
         NEW hist \in Seq(Password), Begin(r, step, goal, token, email, password, hist)
  PROVE  BeganAs(r, step, goal, token, email, password, hist)
<1>1. req \in [Req -> Request] /\ (req[r].pc = "idle" <=> req[r].goal = "none")
  BY DEF Base, TypeOK, Table, Fits
<1>2. /\ req[r].pc = "idle"
      /\ req'[r].pc = step /\ req'[r].goal = goal /\ req'[r].token = token
      /\ req'[r].email = email /\ req'[r].password = password /\ req'[r].history = hist
      /\ \A s \in Req \ {r} : req'[s] = req[s]
  BY <1>1, BeginEffect
<1>3. /\ raced \subseteq raced' /\ raced' \subseteq raced \cup {"link", "ending"}
      /\ goal \in LinkGoals /\ Serving(LinkGoals) # {} => "link" \in raced'
      /\ goal \in Endings /\ Serving(Logins) # {} => "ending" \in raced'
      /\ goal \in Logins /\ Serving(Endings) # {} => "ending" \in raced'
  BY DEF Begin
<1> QED
  BY <1>1, <1>2, <1>3 DEF Same, BeganAs

LEMMA BeginsEffect == ASSUME Base, NEW r \in Req, Begins(r) PROVE Begun(r)
<1>1. /\ <<>> \in Seq(Password) /\ account.history \in Seq(Password)
      /\ Len(account.history) <= HistoryCount
      /\ Present => account.email \in Email
  BY DEF Base, TypeOK, Row, Housed
<1>2. AllGoals = Follows \cup {"register", "resend", "email", "sendLink", "login", "sendReset",
                              "change", "initial", "delete", "toggle"}
  BY DEF AllGoals, VerifyGoals, LinkGoals, Follows
<1> USE DEF Began
<1>3. ASSUME NEW p \in Password, RegisterUser(r, p) PROVE Begun(r)
  <2>1. Begin(r, "create", "register", None, Home, p, <<>>)
    BY <1>3 DEF RegisterUser
  <2>2. "create" \in Steps /\ "register" \in AllGoals
    BY <1>2 DEF Steps, Follows
  <2>3. BeganAs(r, "create", "register", None, Home, p, <<>>)
    BY <1>1, <2>1, <2>2, BegunFacts
  <2> QED
    BY <1>3, <2>2, <2>3 DEF Begun, BeganAs, Follows, RegisterUser
<1>4. ASSUME NEW p \in Password, UpdateUserPassword(r, p) PROVE Begun(r)
  <2>1. Begin(r, "write_password", "change", None, None, p,
              AppendPasswordHistory(account.history, p))
    BY <1>4 DEF UpdateUserPassword
  <2>2. AppendPasswordHistory(account.history, p) \in Seq(Password)
    BY <1>1, HistoryFacts
  <2>3. "write_password" \in Steps /\ "change" \in AllGoals
    BY <1>2 DEF Steps, Follows
  <2>4. BeganAs(r, "write_password", "change", None, None, p,
                AppendPasswordHistory(account.history, p))
    BY <1>1, <2>1, <2>2, <2>3, BegunFacts
  <2> QED
    BY <1>4, <2>3, <2>4 DEF Begun, BeganAs, Follows, UpdateUserPassword
<1>5. ASSUME NEW p \in Password, SetInitialPassword(r, p) PROVE Begun(r)
  <2>1. Begin(r, "write_password", "initial", None, None, p, account.history)
    BY <1>5 DEF SetInitialPassword
  <2>2. "write_password" \in Steps /\ "initial" \in AllGoals
    BY <1>2 DEF Steps, Follows
  <2>3. BeganAs(r, "write_password", "initial", None, None, p, account.history)
    BY <1>1, <2>1, <2>2, BegunFacts
  <2> QED
    BY <1>5, <2>2, <2>3 DEF Begun, BeganAs, Follows, SetInitialPassword
<1>6. ASSUME NEW t \in Token, VerifyEmail(r, t) PROVE Begun(r)
  <2>1. Begin(r, "mark_verified", "verify", t, None, None, <<>>)
    BY <1>6 DEF VerifyEmail, BeginWith
  <2>2. "mark_verified" \in Steps /\ "verify" \in AllGoals
    BY <1>2 DEF Steps, Follows
  <2>3. BeganAs(r, "mark_verified", "verify", t, None, None, <<>>)
    BY <1>1, <2>1, <2>2, BegunFacts
  <2> QED
    BY <1>6, <2>2, <2>3 DEF Begun, BeganAs, Follows, VerifyEmail, BeginWith
<1>7. ASSUME NEW t \in Token, VerifyMagicLink(r, t) PROVE Begun(r)
  <2>1. Begin(r, "look_up", "linkLogin", t, None, None, <<>>)
    BY <1>7 DEF VerifyMagicLink, BeginWith
  <2>2. "look_up" \in Steps /\ "linkLogin" \in AllGoals
    BY <1>2 DEF Steps, Follows
  <2>3. BeganAs(r, "look_up", "linkLogin", t, None, None, <<>>)
    BY <1>1, <2>1, <2>2, BegunFacts
  <2> QED
    BY <1>7, <2>2, <2>3 DEF Begun, BeganAs, Follows, VerifyMagicLink, BeginWith
<1>8. ASSUME NEW t \in Token, NEW p \in Password, ConfirmPasswordReset(r, t, p) PROVE Begun(r)
  <2>1. Begin(r, "check_history", "reset", t, None, p, <<>>)
    BY <1>8 DEF ConfirmPasswordReset, BeginWith
  <2>2. "check_history" \in Steps /\ "reset" \in AllGoals
    BY <1>2 DEF Steps, Follows
  <2>3. BeganAs(r, "check_history", "reset", t, None, p, <<>>)
    BY <1>1, <2>1, <2>2, BegunFacts
  <2> QED
    BY <1>8, <2>2, <2>3 DEF Begun, BeganAs, Follows, ConfirmPasswordReset, BeginWith
<1>9. ASSUME NEW e \in Email, UpdateUserEmail(r, e) PROVE Begun(r)
  <2>1. Begin(r, "write_email", "email", None, e, None, <<>>)
    BY <1>9 DEF UpdateUserEmail
  <2>2. "write_email" \in Steps /\ "email" \in AllGoals
    BY <1>2 DEF Steps, Follows
  <2>3. BeganAs(r, "write_email", "email", None, e, None, <<>>)
    BY <1>1, <2>1, <2>2, BegunFacts
  <2> QED
    BY <1>9, <2>2, <2>3 DEF Begun, BeganAs, Follows, UpdateUserEmail
<1>10. CASE ResendVerificationEmail(r)
  <2>1. Begin(r, "find_old", "resend", None, account.email, None, <<>>)
    BY <1>10 DEF ResendVerificationEmail
  <2>2. Present /\ account.email \in Email
    BY <1>1, <1>10 DEF ResendVerificationEmail
  <2>3. "find_old" \in Steps /\ "resend" \in AllGoals
    BY <1>2 DEF Steps, Follows
  <2>4. BeganAs(r, "find_old", "resend", None, account.email, None, <<>>)
    BY <1>1, <2>1, <2>2, <2>3, BegunFacts
  <2> QED
    BY <1>10, <2>3, <2>4 DEF Begun, BeganAs, Follows, ResendVerificationEmail
<1>11. CASE RequestPasswordReset(r)
  <2>1. Begin(r, "store", "sendReset", None, account.email, None, <<>>)
    BY <1>11 DEF RequestPasswordReset
  <2>2. Present /\ account.email \in Email
    BY <1>1, <1>11 DEF RequestPasswordReset
  <2>3. "store" \in Steps /\ "sendReset" \in AllGoals
    BY <1>2 DEF Steps, Follows
  <2>4. BeganAs(r, "store", "sendReset", None, account.email, None, <<>>)
    BY <1>1, <2>1, <2>2, <2>3, BegunFacts
  <2> QED
    BY <1>11, <2>3, <2>4 DEF Begun, BeganAs, Follows, RequestPasswordReset
<1>12. CASE LoginUser(r)
  <2>1. Begin(r, "grant", "login", None, None, None, <<>>)
    BY <1>12 DEF LoginUser
  <2>2. "grant" \in Steps /\ "login" \in AllGoals
    BY <1>2 DEF Steps, Follows
  <2>3. BeganAs(r, "grant", "login", None, None, None, <<>>)
    BY <1>1, <2>1, <2>2, BegunFacts
  <2> QED
    BY <1>12, <2>2, <2>3 DEF Begun, BeganAs, Follows, LoginUser
<1>13. CASE RequestMagicLink(r)
  <2>1. Begin(r, "find_old", "sendLink", None, account.email, None, <<>>)
    BY <1>13 DEF RequestMagicLink
  <2>2. Present /\ account.email \in Email
    BY <1>1, <1>13 DEF RequestMagicLink
  <2>3. "find_old" \in Steps /\ "sendLink" \in AllGoals
    BY <1>2 DEF Steps, Follows
  <2>4. BeganAs(r, "find_old", "sendLink", None, account.email, None, <<>>)
    BY <1>1, <2>1, <2>2, <2>3, BegunFacts
  <2> QED
    BY <1>13, <2>3, <2>4 DEF Begun, BeganAs, Follows, RequestMagicLink
<1>14. CASE DeleteUserAccount(r)
  <2>1. Begin(r, "revoke_all", "delete", None, None, None, <<>>)
    BY <1>14 DEF DeleteUserAccount
  <2>2. "revoke_all" \in Steps /\ "delete" \in AllGoals
    BY <1>2 DEF Steps, Follows
  <2>3. BeganAs(r, "revoke_all", "delete", None, None, None, <<>>)
    BY <1>1, <2>1, <2>2, BegunFacts
  <2> QED
    BY <1>14, <2>2, <2>3 DEF Begun, BeganAs, Follows, DeleteUserAccount
<1>15. CASE UserToggleActive(r)
  <2>1. PICK step \in {"activate", "deactivate"} :
          Begin(r, step, "toggle", None, None, None, <<>>)
    BY <1>15 DEF UserToggleActive
  <2>2. step \in Steps /\ "toggle" \in AllGoals
    BY <1>2 DEF Steps
  <2>3. BeganAs(r, step, "toggle", None, None, None, <<>>)
    BY <1>1, <2>1, <2>2, BegunFacts
  <2> QED
    BY <1>15, <2>2, <2>3 DEF Begun, BeganAs, Follows, UserToggleActive
<1> QED
  BY <1>3, <1>4, <1>5, <1>6, <1>7, <1>8, <1>9, <1>10, <1>11, <1>12, <1>13, <1>14, <1>15 DEF Begins

\* Where a handler goes on after the key of its token is deleted, or was not.
Dropped(r) ==
  /\ req[r].goal = "verify" => Ended(r)
  /\ req[r].goal \in {"resend", "sendLink"} => Went(r, "store")
  /\ req[r].goal = "linkLogin" => Went(r, "read_user")
  /\ req[r].goal = "reset" => Went(r, "revoke")

LEMMA Effects ==
  ASSUME Base, NEW r \in Req
  PROVE  /\ CreateUser(r) => IF account.status = "absent" THEN Went(r, "store") ELSE Ended(r)
         /\ \A t \in Token : StoreToken(r, t) =>
              IF Kind(req[r].goal) = "reset" THEN Ended(r)
              ELSE Moved(r, "index") /\ req'[r].token = t
         /\ FindOld(r) =>
              /\ req'[r].token = current[Kind(req[r].goal)]
              /\ Moved(r, IF current[Kind(req[r].goal)] = None THEN "store"
                          ELSE IF req[r].goal = "sendLink" THEN "drop_key" ELSE "look_up")
         /\ LookUp(r) => Went(r, IF keys[req[r].token] = "none" THEN "drop_key"
                                 ELSE "drop_current")
         /\ DropCurrent(r) => Went(r, "drop_key")
         /\ DropKey(r) => Dropped(r)
         /\ MarkVerified(r) => Went(r, "look_up")
         /\ WriteEmail(r) => Went(r, "store")
         /\ CheckHistory(r) =>
              \/ Ended(r)
              \/ /\ Moved(r, "write_password") /\ req'[r].token = req[r].token
                 /\ Present /\ PassesHistory(account.history, req[r].password)
                 /\ req'[r].history = AppendPasswordHistory(account.history, req[r].password)
         /\ WritePassword(r) =>
              /\ req[r].goal = "reset" => Went(r, "drop_key")
              /\ req[r].goal = "change" => Went(r, "revoke")
              /\ req[r].goal = "initial" => Ended(r)
         /\ ReadUser(r) => IF Present /\ account.active /\ account.verified
                             THEN Went(r, "grant") ELSE Ended(r)
         /\ ToggleUserActive(r) => IF req[r].pc = "activate" THEN Ended(r) ELSE Went(r, "revoke")
         /\ RevokeAllUserSessions(r) => Went(r, "delete_row")
         /\ IndexToken(r) \/ RevokeAllUserTokens(r) \/ Grant(r) \/ DeleteUser(r) => Ended(r)
         /\ Fail(r) => \/ Ended(r)
                       \/ req[r].pc = "drop_key" /\ Dropped(r)
                       \/ req[r].pc = "find_old" /\ Went(r, "store")
                       \/ req[r].pc \in {"look_up", "drop_current"} /\ Went(r, "drop_key")
                       \/ req[r].pc = "revoke_all" /\ Went(r, "delete_row")
<1>1. req \in [Req -> Request] /\ req[r] \in Request /\ Fits(req[r])
  BY DEF Base, TypeOK, Table
<1>2. ASSUME NEW step \in Steps, Goto(r, step) PROVE Went(r, step)
  BY <1>1, <1>2, GotoEffect DEF Goto, Went, Moved, Same
<1>3. ASSUME Finish(r) PROVE Ended(r)
  BY <1>1, <1>3, FinishEffect DEF Ended, Same
<1>4. {"store", "drop_key", "drop_current", "look_up", "read_user", "revoke", "grant",
       "delete_row", "index", "write_password"} \subseteq Steps
  BY DEF Steps
<1>5. ASSUME req[r].pc = "drop_key", Proceed(r, AfterDrop[req[r].goal]) PROVE Dropped(r)
  BY <1>2, <1>3, <1>4, <1>5, Continuations DEF Dropped, Proceed
<1>6. CreateUser(r) => IF account.status = "absent" THEN Went(r, "store") ELSE Ended(r)
  BY <1>2, <1>3, <1>4 DEF CreateUser
<1>7. ASSUME NEW t \in Token, StoreToken(r, t)
      PROVE  IF Kind(req[r].goal) = "reset" THEN Ended(r)
             ELSE Moved(r, "index") /\ req'[r].token = t
  BY <1>1, <1>3, <1>7 DEF StoreToken, Moved, Same, Request
<1>8. ASSUME FindOld(r)
      PROVE  /\ req'[r].token = current[Kind(req[r].goal)]
             /\ Moved(r, IF current[Kind(req[r].goal)] = None THEN "store"
                         ELSE IF req[r].goal = "sendLink" THEN "drop_key" ELSE "look_up")
  BY <1>1, <1>8 DEF FindOld, Moved, Same, Request
<1>9. LookUp(r) => Went(r, IF keys[req[r].token] = "none" THEN "drop_key" ELSE "drop_current")
  BY <1>2, <1>4 DEF LookUp
<1>10. ASSUME CheckHistory(r)
       PROVE  \/ Ended(r)
              \/ /\ Moved(r, "write_password") /\ req'[r].token = req[r].token
                 /\ Present /\ PassesHistory(account.history, req[r].password)
                 /\ req'[r].history = AppendPasswordHistory(account.history, req[r].password)
  <2>1. CASE Present /\ PassesHistory(account.history, req[r].password)
    BY <1>1, <1>10, <2>1 DEF CheckHistory, Moved, Same, Request
  <2>2. CASE ~ (Present /\ PassesHistory(account.history, req[r].password))
    BY <1>3, <1>10, <2>2 DEF CheckHistory
  <2> QED
    BY <2>1, <2>2
<1>11. WritePassword(r) => /\ req[r].goal = "reset" => Went(r, "drop_key")
                           /\ req[r].goal = "change" => Went(r, "revoke")
                           /\ req[r].goal = "initial" => Ended(r)
  BY <1>2, <1>3, <1>4, Continuations DEF WritePassword, Proceed
<1>12. ReadUser(r) => IF Present /\ account.active /\ account.verified
                        THEN Went(r, "grant") ELSE Ended(r)
  BY <1>2, <1>3, <1>4 DEF ReadUser
<1>13. ToggleUserActive(r) => IF req[r].pc = "activate" THEN Ended(r) ELSE Went(r, "revoke")
  BY <1>2, <1>3, <1>4 DEF ToggleUserActive
<1>14. /\ DropCurrent(r) => Went(r, "drop_key")
       /\ MarkVerified(r) => Went(r, "look_up")
       /\ WriteEmail(r) => Went(r, "store")
       /\ RevokeAllUserSessions(r) => Went(r, "delete_row")
       /\ IndexToken(r) \/ RevokeAllUserTokens(r) \/ Grant(r) \/ DeleteUser(r) => Ended(r)
       /\ DropKey(r) => Dropped(r)
  BY <1>2, <1>3, <1>4, <1>5
     DEF DropCurrent, MarkVerified, WriteEmail, RevokeAllUserSessions, IndexToken,
         RevokeAllUserTokens, Grant, DeleteUser, DropKey
<1>15. ASSUME Fail(r)
       PROVE  \/ Ended(r)
              \/ req[r].pc = "drop_key" /\ Dropped(r)
              \/ req[r].pc = "find_old" /\ Went(r, "store")
              \/ req[r].pc \in {"look_up", "drop_current"} /\ Went(r, "drop_key")
              \/ req[r].pc = "revoke_all" /\ Went(r, "delete_row")
  BY <1>2, <1>3, <1>4, <1>5, <1>15, Continuations DEF Fail
<1> QED
  BY <1>6, <1>7, <1>8, <1>9, <1>10, <1>11, <1>12, <1>13, <1>14, <1>15

LEMMA ServeCases ==
  ASSUME NEW r \in Req, Serve(r)
  PROVE  \/ Begins(r) \/ CreateUser(r) \/ (\E t \in Token : StoreToken(r, t)) \/ IndexToken(r)
         \/ FindOld(r) \/ LookUp(r) \/ DropCurrent(r) \/ DropKey(r) \/ MarkVerified(r)
         \/ WriteEmail(r) \/ CheckHistory(r) \/ WritePassword(r) \/ RevokeAllUserTokens(r)
         \/ ReadUser(r) \/ Grant(r) \/ ToggleUserActive(r) \/ RevokeAllUserSessions(r)
         \/ DeleteUser(r) \/ Fail(r)
  BY DEF Serve, Begins, Register, ResendVerification, FollowVerification, UpdateEmail,
         ForgotPassword, ResetPassword, UpdatePassword, SetPassword, DeleteAccount,
         AskForMagicLink, FollowMagicLink

-----------------------------------------------------------------------------
(* EndingEndsAccess: no login is under way while the account is deleted or  *)
(* deactivated, so that what a login has checked still holds when it acts.  *)

EndingInv ==
  errors = 0 /\ "ending" \notin raced =>
    /\ \A r, s \in Req : req[r].goal \in Logins => req[s].goal \notin Endings
    /\ \A r \in Req : req[r].pc = "grant" => Present /\ account.active
    /\ \A r \in Req : req[r].pc = "delete_row" => access # "live"
    /\ (account.status = "deleted" \/ ~ account.active) /\ access = "live" =>
         \E r \in Req : req[r].goal = "toggle" /\ req[r].pc = "revoke"

LEMMA EndingQuiet ==
  ASSUME Base, EndingInv, NEW r \in Req, Same(r),
         req'[r].goal \in {req[r].goal, "none"}, req'[r].pc \notin {"grant", "delete_row"},
         req[r].pc # "revoke",
         account'.status = account.status, account'.active = account.active,
         access' = access, errors' = errors, raced \subseteq raced'
  PROVE  EndingInv'
<1>1. /\ \A s, q \in Req : req[s].goal \in Logins => req[q].goal \notin Endings
      => \A s, q \in Req : req'[s].goal \in Logins => req'[q].goal \notin Endings
  BY DEF Same, Logins, Endings
<1>2. \A s \in Req : req'[s].pc \in {"grant", "delete_row"} => req[s].pc = req'[s].pc
  BY DEF Same
<1>3. \A s \in Req : req[s].pc = "revoke" => req'[s] = req[s]
  BY DEF Same
<1> QED
  BY <1>1, <1>2, <1>3 DEF EndingInv, Present

LEMMA NextEnding ==
  ASSUME Base, EndingInv, [Next]_vars
  PROVE  EndingInv'
<1>1. CASE UNCHANGED vars
  BY <1>1 DEF vars, history, EndingInv, Present
<1>2. ASSUME NEW t \in Token, Lapse(t) PROVE EndingInv'
  BY <1>2 DEF Lapse, history, EndingInv, Present
<1>3. ASSUME NEW r \in Req, Serve(r) PROVE EndingInv'
  <2>1. /\ Fits(req[r]) /\ errors \in Nat /\ req[r] \in Request
        /\ \A s \in Req : Fits(req[s])
    BY DEF Base, TypeOK, Table
  <2>2. CASE Begins(r)
    <3>1. Begun(r)
      BY <2>2, BeginsEffect
    <3>2. /\ Same(r) /\ req[r].pc = "idle" /\ UNCHANGED <<account, access, errors>>
          /\ raced \subseteq raced'
          /\ req'[r].goal \in Endings /\ Serving(Logins) # {} => "ending" \in raced'
          /\ req'[r].goal \in Logins /\ Serving(Endings) # {} => "ending" \in raced'
          /\ req'[r].pc = "grant" => Present /\ account.active
          /\ req'[r].pc # "delete_row"
      BY <3>1 DEF Begun, AllGoals, VerifyGoals, LinkGoals
    <3> SUFFICES ASSUME errors' = 0, "ending" \notin raced' PROVE EndingInv'
      BY DEF EndingInv
    <3>3. ASSUME NEW s \in Req, NEW q \in Req, req'[s].goal \in Logins
          PROVE  req'[q].goal \notin Endings
      <4>1. CASE s = r /\ q = r
        BY <3>3, <4>1 DEF Logins, Endings
      <4>2. CASE s = r /\ q # r
        BY <3>2, <3>3, <4>2 DEF Same, Serving
      <4>3. CASE s # r /\ q = r
        BY <3>2, <3>3, <4>3 DEF Same, Serving
      <4>4. CASE s # r /\ q # r
        BY <3>2, <3>3, <4>4 DEF Same, EndingInv
      <4> QED
        BY <4>1, <4>2, <4>3, <4>4
    <3>4. \A s \in Req : req'[s].pc = "grant" => Present' /\ account'.active
      BY <3>2 DEF Same, EndingInv, Present
    <3>5. \A s \in Req : req'[s].pc = "delete_row" => access' # "live"
      BY <3>2 DEF Same, EndingInv
    <3>6. \A s \in Req : req[s].pc = "revoke" => req'[s] = req[s]
      BY <3>2 DEF Same
    <3>7. (account'.status = "deleted" \/ ~ account'.active) /\ access' = "live" =>
            \E s \in Req : req'[s].goal = "toggle" /\ req'[s].pc = "revoke"
      BY <3>2, <3>6 DEF EndingInv
    <3> QED
      BY <3>3, <3>4, <3>5, <3>7 DEF EndingInv
  <2>3. CASE Fail(r)
    BY <2>1, <2>3 DEF Fail, EndingInv
  <2>4. CASE CreateUser(r)
    <3>1. /\ UNCHANGED <<access, errors, raced>>
          /\ IF account.status = "absent"
               THEN account'.status = "present" /\ account'.active = TRUE
               ELSE account' = account
      BY <2>4 DEF CreateUser
    <3>2. req[r].pc = "create" /\ (Went(r, "store") \/ Ended(r))
      BY <2>4, Effects DEF CreateUser
    <3>3. /\ Same(r) /\ req'[r].goal \in {req[r].goal, "none"}
          /\ req'[r].pc \notin {"grant", "delete_row"} /\ req[r].pc # "revoke"
      BY <3>2 DEF Went, Moved, Ended
    <3>4. CASE account.status = "absent"
      BY <3>1, <3>3, <3>4 DEF EndingInv, Present, Same, Logins, Endings
    <3>5. CASE account.status # "absent"
      BY <3>1, <3>3, <3>5, EndingQuiet
    <3> QED
      BY <3>4, <3>5
  <2>5. CASE (\E t \in Token : StoreToken(r, t)) \/ IndexToken(r) \/ FindOld(r) \/ LookUp(r)
               \/ DropCurrent(r) \/ DropKey(r) \/ CheckHistory(r)
    <3>1. UNCHANGED <<account, access, errors, raced>> /\ req[r].pc # "revoke"
      BY <2>5 DEF StoreToken, IndexToken, FindOld, LookUp, DropCurrent, DropKey, CheckHistory,
                  Began, history
    <3>2. /\ Same(r) /\ req'[r].goal \in {req[r].goal, "none"}
          /\ req'[r].pc \notin {"grant", "delete_row"}
      <4>1. CASE DropKey(r)
        BY <2>1, <4>1, Effects DEF DropKey, Dropped, Went, Moved, Ended, Fits
      <4>2. CASE ~ DropKey(r)
        BY <2>5, <4>2, Effects DEF Went, Moved, Ended
      <4> QED
        BY <4>1, <4>2
    <3> QED
      BY <3>1, <3>2, EndingQuiet
  <2>6. CASE MarkVerified(r) \/ WriteEmail(r) \/ WritePassword(r)
    <3>1. /\ UNCHANGED <<access, errors>> /\ raced \subseteq raced' /\ req[r].pc # "revoke"
          /\ account'.status = account.status /\ account'.active = account.active
      <4>1. account \in Row
        BY DEF Base, TypeOK
      <4> QED
        BY <2>6, <4>1 DEF MarkVerified, WriteEmail, WritePassword, history, Row
    <3>2. /\ Same(r) /\ req'[r].goal \in {req[r].goal, "none"}
          /\ req'[r].pc \notin {"grant", "delete_row"}
      <4>1. CASE WritePassword(r)
        BY <2>1, <4>1, Effects DEF WritePassword, Went, Moved, Ended, Fits
      <4>2. CASE ~ WritePassword(r)
        BY <2>6, <4>2, Effects DEF Went, Moved
      <4> QED
        BY <4>1, <4>2
    <3> QED
      BY <3>1, <3>2, EndingQuiet
  <2>7. CASE ReadUser(r)
    <3>1. UNCHANGED <<account, access, errors, raced>> /\ req[r].goal = "linkLogin"
      BY <2>1, <2>7 DEF ReadUser, Began, history, Fits
    <3>2. CASE Present /\ account.active /\ account.verified
      <4>1. Went(r, "grant")
        BY <2>7, <3>2, Effects
      <4>2. Same(r) /\ req'[r].goal = req[r].goal /\ req'[r].pc = "grant"
        BY <4>1 DEF Went, Moved
      <4>3. \A s \in Req : /\ req'[s].goal = req[s].goal
                           /\ req'[s].pc = "delete_row" => req[s].pc = "delete_row"
                           /\ req[s].pc = "revoke" => req'[s] = req[s]
        BY <2>7, <4>2 DEF Same, ReadUser
      <4> QED
        BY <3>1, <3>2, <4>2, <4>3 DEF EndingInv, Present, Same
    <3>3. CASE ~ (Present /\ account.active /\ account.verified)
      <4>1. Ended(r)
        BY <2>7, <3>3, Effects
      <4> QED
        BY <2>7, <3>1, <4>1, EndingQuiet DEF Ended, ReadUser
    <3> QED
      BY <3>2, <3>3
  <2>8. CASE Grant(r)
    <3>1. /\ UNCHANGED <<account, errors, raced>> /\ access' = "live" /\ Same(r)
          /\ req'[r].pc = "idle" /\ req'[r].goal = "none" /\ req[r].pc = "grant"
          /\ req[r].goal \in Logins
      BY <2>1, <2>8, Effects DEF Grant, Ended, Fits, Logins
    <3>2. \A s \in Req : req[s].pc = "delete_row" => req[s].goal \in Endings
      BY <2>1 DEF Fits, Endings
    <3> QED
      BY <3>1, <3>2 DEF EndingInv, Present, Same, Logins, Endings
  <2>9. CASE RevokeAllUserTokens(r)
    <3>1. /\ UNCHANGED <<account, errors, raced>> /\ access' # "live" /\ Same(r)
          /\ req'[r].pc = "idle" /\ req'[r].goal = "none"
      BY <2>9, Effects DEF RevokeAllUserTokens, Ended, history
    <3> QED
      BY <3>1 DEF EndingInv, Present, Same, Logins, Endings
  <2>10. CASE RevokeAllUserSessions(r)
    <3>1. /\ UNCHANGED <<account, errors, raced>> /\ access' = "none" /\ Same(r)
          /\ req'[r].pc = "delete_row" /\ req'[r].goal = req[r].goal
      BY <2>10, Effects DEF RevokeAllUserSessions, Went, Moved, history
    <3> QED
      BY <3>1 DEF EndingInv, Present, Same, Logins, Endings
  <2>11. CASE ToggleUserActive(r) \/ DeleteUser(r)
    <3>1. UNCHANGED <<access, errors, raced>> /\ req[r].goal \in Endings
      BY <2>1, <2>11 DEF ToggleUserActive, DeleteUser, history, Fits, Endings
    <3>2. \A s \in Req : req[s].pc = "grant" => req[s].goal \in Logins
      BY <2>1 DEF Fits, Logins
    <3>3. CASE DeleteUser(r)
      <4>1. /\ account'.status = "deleted" /\ account'.active /\ req[r].pc = "delete_row"
            /\ Same(r) /\ req'[r].pc = "idle" /\ req'[r].goal = "none"
        BY <3>3, Effects DEF DeleteUser, Absent, Ended
      <4> QED
        BY <3>1, <3>2, <4>1 DEF EndingInv, Same, Logins, Endings
    <3>4. CASE ToggleUserActive(r) /\ req[r].pc = "activate"
      <4>1. /\ account'.status = account.status
            /\ account'.active = TRUE \/ (account'.active = account.active /\ ~ Present)
            /\ Same(r) /\ req'[r].pc = "idle" /\ req'[r].goal = "none"
        <5>1. account \in Row
          BY DEF Base, TypeOK
        <5> QED
          BY <3>4, <5>1, Effects DEF ToggleUserActive, SetActive, Ended, Row
      <4> QED
        BY <3>1, <3>2, <3>4, <4>1 DEF EndingInv, Same, Logins, Endings, Present
    <3>5. CASE ToggleUserActive(r) /\ req[r].pc # "activate"
      <4>1. /\ Same(r) /\ req'[r].pc = "revoke" /\ req'[r].goal = "toggle"
            /\ account'.status = account.status
        <5>1. account \in Row
          BY DEF Base, TypeOK
        <5> QED
          BY <2>1, <3>5, <5>1, Effects DEF ToggleUserActive, SetActive, Went, Moved, Fits, Row
      <4>2. \A s \in Req : /\ req'[s].goal \in Logins => req[s].goal \in Logins
                           /\ req'[s].goal \in Endings => req[s].goal \in Endings
                           /\ req'[s].pc \in {"grant", "delete_row"} =>
                                 req'[s].pc = req[s].pc
        BY <3>1, <4>1 DEF Same, Logins, Endings
      <4> QED
        BY <3>1, <3>2, <4>1, <4>2 DEF EndingInv, Same, Logins, Endings
    <3> QED
      BY <2>11, <3>3, <3>4, <3>5
  <2> QED
    BY <1>3, <2>2, <2>3, <2>4, <2>5, <2>6, <2>7, <2>8, <2>9, <2>10, <2>11, ServeCases
<1> QED
  BY <1>1, <1>2, <1>3 DEF Next

\* A deleted or deactivated account leaves no session of use, unless a login overlapped the
\* change, the block is about to be written, or a command failed (service.go:862,
\* gui_handler.go:1624).
THEOREM EndingCutsAccess == Spec => []EndingEndsAccess
<1>1. Init => EndingInv
  <2>1. Init => \A r \in Req : req[r].pc = "idle" /\ req[r].goal = "none"
    BY DEF Init, Idle
  <2>2. Absent.status = "absent" /\ Absent.active
    BY DEF Absent
  <2>3. Social.status = "present" /\ Social.active
    BY DEF Absent, Social
  <2>4. \A p \in Password : Registered(p).status = "present" /\ Registered(p).active
    BY DEF Absent, Social, Registered
  <2> QED
    BY <2>1, <2>2, <2>3, <2>4 DEF Init, EndingInv, Logins
<1>2. Base /\ EndingInv => EndingEndsAccess
  BY DEF Base, TypeOK, EndingInv, EndingEndsAccess, Serving
<1> QED
  BY <1>1, <1>2, InitBase, NextBase, NextEnding, PTL DEF Spec

-----------------------------------------------------------------------------
(* Tidy: before the account exists nothing is stored, and a new token is    *)
(* nobody else's until it is mailed.                                        *)

NothingYet ==
  account.status = "absent" =>
    /\ \A t \in Token : keys[t] = "none"
    /\ \A r \in Req : req[r].pc \in {"idle", "create"}

FreshTokens ==
  /\ \A k \in Indexed : current[k] # None => mailed[current[k]] # None
  /\ \A r \in Req : req[r].pc = "index" =>
       /\ mailed[req[r].token] = None /\ keys[req[r].token] = Kind(req[r].goal)
       /\ \A s \in Req \ {r} : req[s].token # req[r].token

Tidy == NothingYet /\ FreshTokens

LEMMA NextTidy ==
  ASSUME Base, Tidy, [Next]_vars
  PROVE  Tidy'
<1>1. CASE UNCHANGED vars
  BY <1>1 DEF vars, history, Tidy, NothingYet, FreshTokens
<1>2. ASSUME NEW t \in Token, Lapse(t) PROVE Tidy'
  <2>1. /\ UNCHANGED <<account, req, mailed>> /\ keys' = [keys EXCEPT ![t] = "none"]
        /\ \A r \in Req : req[r].pc = "index" => req[r].token # t
        /\ \A k \in Indexed : current'[k] \in {current[k], None}
    BY <1>2 DEF Lapse, history
  <2>2. \A u \in Token : keys'[u] = IF u = t THEN "none" ELSE keys[u]
    BY <2>1 DEF Base, TypeOK
  <2>3. \A r \in Req : req[r].pc = "index" => req[r].token \in Token
    BY DEF Base, Table, Fits
  <2> QED
    BY <2>1, <2>2, <2>3 DEF Tidy, NothingYet, FreshTokens
<1>3. ASSUME NEW r \in Req, Serve(r) PROVE Tidy'
  <2>1. /\ Fits(req[r]) /\ req \in [Req -> Request] /\ req[r] \in Request
        /\ keys \in [Token -> Kinds \cup {"none"}]
        /\ current \in [Indexed -> Token \cup {None}]
        /\ mailed \in [Token -> Email \cup {None}]
        /\ \A s \in Req : req[s].pc = "index" => req[s].token \in Token
        /\ None \notin Token
    BY DEF Base, TypeOK, Table, Fits
  <2>2. CASE Begins(r)
    <3>1. Begun(r)
      BY <2>2, BeginsEffect
    <3>2. /\ Same(r) /\ UNCHANGED <<account, keys, current, mailed>>
          /\ account.status = "absent" => req'[r].pc = "create"
          /\ req'[r].pc # "index"
      <4>1. /\ Same(r) /\ UNCHANGED <<account, keys, current, mailed>> /\ req'[r].pc # "index"
            /\ req'[r].goal \in AllGoals
        BY <3>1 DEF Begun, AllGoals, VerifyGoals, LinkGoals
      <4>2. CASE req'[r].goal \in Follows
        <5>1. keys[req'[r].token] = Kind(req'[r].goal) /\ req'[r].token \in Token
          BY <2>2, <3>1, <4>2, BeginsKeepBase DEF Begun, Base, Table
        <5> QED
          BY <4>1, <4>2, <5>1 DEF Tidy, NothingYet, Kind
      <4>3. CASE req'[r].goal \notin Follows
        BY <3>1, <4>1, <4>3 DEF Begun, Present, Follows, AllGoals, VerifyGoals, LinkGoals
      <4> QED
        BY <4>1, <4>2, <4>3
    <3>3. \A s \in Req : req[s].pc = "index" => req'[r].token # req[s].token
      <4>1. CASE req'[r].goal \in Follows
        <5>1. mailed'[req'[r].token] # None
          BY <2>2, <4>1, BeginsKeepBase DEF Base, Table
        <5> QED
          BY <3>2, <5>1 DEF Tidy, FreshTokens
      <4>2. CASE req'[r].goal \notin Follows
        <5>1. req'[r].token = None
          BY <3>1, <4>2 DEF Begun
        <5> QED
          BY <2>1, <5>1
      <4> QED
        BY <4>1, <4>2
    <3> QED
      BY <3>2, <3>3 DEF Tidy, NothingYet, FreshTokens, Same
  <2>3. CASE CreateUser(r)
    <3>1. /\ UNCHANGED <<keys, current, mailed>> /\ account'.status # "absent"
          /\ Same(r) /\ req'[r].pc # "index" /\ req'[r].token \in {req[r].token, None}
      BY <2>3, Effects DEF CreateUser, Went, Moved, Ended
    <3> QED
      BY <2>1, <3>1 DEF Tidy, NothingYet, FreshTokens, Same
  <2>4. ASSUME NEW t \in Token, StoreToken(r, t) PROVE Tidy'
    <3>1. /\ UNCHANGED <<account, current>> /\ account.status # "absent"
          /\ mailed[t] = None /\ keys[t] = "none" /\ \A s \in Req : req[s].token # t
          /\ keys' = [keys EXCEPT ![t] = Kind(req[r].goal)]
          /\ \A u \in Token \ {t} : mailed'[u] = mailed[u]
      BY <2>1, <2>4 DEF StoreToken, Tidy, NothingYet
    <3>2. \/ Ended(r)
          \/ /\ Moved(r, "index") /\ req'[r].token = t /\ mailed' = mailed
      BY <2>4, Effects DEF StoreToken
    <3>3. \A k \in Indexed : current[k] # None => current[k] # t /\ current[k] \in Token
      BY <2>1, <3>1 DEF Tidy, FreshTokens
    <3>4. \A u \in Token : keys'[u] = IF u = t THEN Kind(req[r].goal) ELSE keys[u]
      BY <2>1, <3>1
    <3>5. NothingYet'
      BY <3>1 DEF NothingYet
    <3>6. FreshTokens'
      <4>1. \A k \in Indexed : current'[k] # None => mailed'[current'[k]] # None
        BY <3>1, <3>3 DEF Tidy, FreshTokens
      <4>2. ASSUME NEW s \in Req, req'[s].pc = "index"
            PROVE  /\ mailed'[req'[s].token] = None
                   /\ keys'[req'[s].token] = Kind(req'[s].goal)
                   /\ \A q \in Req \ {s} : req'[q].token # req'[s].token
        <5>1. CASE s = r
          BY <3>1, <3>2, <3>4, <4>2, <5>1 DEF Moved, Ended, Same
        <5>2. CASE s # r
          BY <2>1, <3>1, <3>2, <3>4, <4>2, <5>2 DEF Moved, Ended, Same, Tidy, FreshTokens
        <5> QED
          BY <5>1, <5>2
      <4> QED
        BY <4>1, <4>2 DEF FreshTokens
    <3> QED
      BY <3>5, <3>6 DEF Tidy
  <2>5. CASE IndexToken(r)
    <3>1. /\ UNCHANGED <<account, keys>> /\ account.status # "absent" /\ Ended(r)
          /\ req[r].pc = "index" /\ req[r].token \in Token /\ req[r].email \in Email
          /\ current' = [current EXCEPT ![Kind(req[r].goal)] = req[r].token]
          /\ mailed' = [mailed EXCEPT ![req[r].token] = req[r].email]
      BY <2>1, <2>5, Effects DEF IndexToken, Tidy, NothingYet, Fits
    <3>2. \A u \in Token : mailed'[u] = IF u = req[r].token THEN req[r].email ELSE mailed[u]
      BY <2>1, <3>1
    <3>3. \A k \in Indexed : current'[k] \in {current[k], req[r].token}
      BY <2>1, <3>1
    <3>4. None \notin Email
      OBVIOUS
    <3> QED
      BY <2>1, <3>1, <3>2, <3>3, <3>4 DEF Tidy, NothingYet, FreshTokens, Ended, Same
  <2>6. CASE FindOld(r)
    <3>1. /\ UNCHANGED <<account, keys, current, mailed>> /\ account.status # "absent"
          /\ Same(r) /\ req'[r].pc # "index"
          /\ req'[r].token = current[Kind(req[r].goal)]
      <4>1. /\ req'[r].token = current[Kind(req[r].goal)]
            /\ \E step \in {"store", "drop_key", "look_up"} : Moved(r, step)
        BY <2>6, Effects
      <4> QED
        BY <2>6, <4>1 DEF FindOld, Began, Tidy, NothingYet, Moved
    <3>2. Kind(req[r].goal) \in Indexed
      BY <2>1, <2>6 DEF FindOld, Fits, Kind, Indexed, VerifyGoals, LinkGoals
    <3> QED
      BY <2>1, <3>1, <3>2 DEF Tidy, NothingYet, FreshTokens, Same
  <2>7. CASE DropKey(r) \/ (Fail(r) /\ req[r].pc = "drop_key")
    <3>1. /\ UNCHANGED <<account, current, mailed>> /\ account.status # "absent"
          /\ \A u \in Token : keys'[u] = IF u = req[r].token /\ DropKey(r)
                                            THEN "none" ELSE keys[u]
      BY <2>1, <2>7 DEF DropKey, Fail, history, Tidy, NothingYet
    <3>2. /\ Same(r) /\ req'[r].pc # "index" /\ req'[r].token \in {req[r].token, None}
          /\ req[r].pc = "drop_key"
      BY <2>1, <2>7, Effects DEF DropKey, Dropped, Went, Moved, Ended, Fits
    <3> QED
      BY <2>1, <3>1, <3>2 DEF Tidy, NothingYet, FreshTokens, Same
  <2>8. CASE \/ LookUp(r) \/ DropCurrent(r) \/ MarkVerified(r) \/ WriteEmail(r)
             \/ CheckHistory(r) \/ WritePassword(r) \/ RevokeAllUserTokens(r) \/ ReadUser(r)
             \/ Grant(r) \/ ToggleUserActive(r) \/ RevokeAllUserSessions(r) \/ DeleteUser(r)
             \/ (Fail(r) /\ req[r].pc # "drop_key")
    <3>1. UNCHANGED <<keys, mailed>>
      BY <2>8 DEF LookUp, DropCurrent, MarkVerified, WriteEmail, CheckHistory, WritePassword,
                  RevokeAllUserTokens, ReadUser, Grant, ToggleUserActive,
                  RevokeAllUserSessions, DeleteUser, Fail, Began, history
    <3>2. \A k \in Indexed : current'[k] \in {current[k], None}
      BY <2>1, <2>8 DEF LookUp, DropCurrent, MarkVerified, WriteEmail, CheckHistory,
                  WritePassword, RevokeAllUserTokens, ReadUser, Grant, ToggleUserActive,
                  RevokeAllUserSessions, DeleteUser, Fail, Began, history
    <3>3. account'.status = "absent" => account.status = "absent" /\ Fail(r)
      <4>1. account \in Row
        BY DEF Base, TypeOK
      <4> QED
        BY <2>1, <2>8, <4>1
           DEF LookUp, DropCurrent, MarkVerified, WriteEmail, CheckHistory, WritePassword,
               RevokeAllUserTokens, ReadUser, Grant, ToggleUserActive, SetActive,
               RevokeAllUserSessions, DeleteUser, Fail, Began, history, Row, Absent,
               Tidy, NothingYet, Present
    <3>4. Same(r) /\ req'[r].pc # "index" /\ req'[r].token \in {req[r].token, None}
      <4>1. CASE WritePassword(r)
        BY <2>1, <4>1, Effects DEF WritePassword, Went, Moved, Ended, Fits
      <4>2. CASE ~ WritePassword(r)
        BY <2>8, <4>2, Effects DEF Went, Moved, Ended
      <4> QED
        BY <4>1, <4>2
    <3>5. account.status = "absent" /\ Fail(r) => req'[r].pc = "idle"
      BY <2>1, Effects DEF Fail, Tidy, NothingYet, Ended
    <3> QED
      BY <2>1, <3>1, <3>2, <3>3, <3>4, <3>5 DEF Tidy, NothingYet, FreshTokens, Same
  <2> QED
    BY <1>3, <2>2, <2>3, <2>4, <2>5, <2>6, <2>7, <2>8, ServeCases
<1> QED
  BY <1>1, <1>2, <1>3 DEF Next

LEMMA InitTidy == Init => Tidy
  BY DEF Init, Tidy, NothingYet, FreshTokens, Idle

-----------------------------------------------------------------------------
(* VerifiedAddress: unless an older token was around when the address       *)
(* changed, every verification token there is was or will be sent to the    *)
(* address of the account.                                                  *)

\* Requests that send a verification token to the address they carry.
Addressing(q) ==
  q.goal \in {"register", "resend", "email"} /\ q.pc \notin {"create", "write_email"}

AddressInv ==
  "email" \notin raced =>
    /\ VerifiedAddress
    /\ Present =>
         /\ \A t \in Token : keys[t] = "verify" /\ mailed[t] # None => mailed[t] = account.email
         /\ \A r \in Req : Addressing(req[r]) => req[r].email = account.email
         /\ \A r \in Req : req[r].pc = "mark_verified" => mailed[req[r].token] = account.email

\* The row keeps its address, and no verification token is added.
LEMMA AddressQuiet ==
  ASSUME AddressInv, NEW r \in Req, Same(r),
         account'.status = account.status, account'.email = account.email,
         account'.verified = account.verified, UNCHANGED <<mailed, proved>>,
         \A t \in Token : keys'[t] = "verify" /\ mailed[t] # None => keys[t] = "verify",
         raced \subseteq raced',
         Addressing(req'[r]) => req'[r].email = account.email \/ ~ Present
                                  \/ (Addressing(req[r]) /\ req'[r].email = req[r].email),
         req'[r].pc = "mark_verified" => keys[req'[r].token] = "verify"
                                           /\ req'[r].token \in Token
                                           /\ mailed[req'[r].token] # None
  PROVE  AddressInv'
<1> SUFFICES ASSUME "email" \notin raced'
             PROVE  /\ VerifiedAddress'
                    /\ Present' =>
                         /\ \A t \in Token : keys'[t] = "verify" /\ mailed'[t] # None
                                              => mailed'[t] = account'.email
                         /\ \A s \in Req : Addressing(req'[s]) => req'[s].email = account'.email
                         /\ \A s \in Req : req'[s].pc = "mark_verified"
                                            => mailed'[req'[s].token] = account'.email
  BY DEF AddressInv
<1>1. VerifiedAddress'
  BY DEF AddressInv, VerifiedAddress
<1> QED
  BY <1>1 DEF AddressInv, Present, Same

LEMMA NextAddress ==
  ASSUME Base, Tidy, AddressInv, [Next]_vars
  PROVE  AddressInv'
<1>1. CASE UNCHANGED vars
  BY <1>1 DEF vars, history, AddressInv, VerifiedAddress, Present
<1>2. ASSUME NEW t \in Token, Lapse(t) PROVE AddressInv'
  <2>1. /\ UNCHANGED <<account, req, mailed, proved, raced>>
        /\ \A u \in Token : keys'[u] \in {keys[u], "none"}
    BY <1>2 DEF Lapse, history, Base, TypeOK
  <2> QED
    BY <2>1 DEF AddressInv, VerifiedAddress, Present
<1>3. ASSUME NEW r \in Req, Serve(r) PROVE AddressInv'
  <2>1. /\ Fits(req[r]) /\ req \in [Req -> Request] /\ req[r] \in Request
        /\ keys \in [Token -> Kinds \cup {"none"}] /\ account \in Row
        /\ mailed \in [Token -> Email \cup {None}] /\ None \notin Email
        /\ req[r].goal \in Follows => req[r].token \in Token /\ mailed[req[r].token] # None
    BY DEF Base, TypeOK, Table
  <2>2. CASE Begins(r)
    <3>1. Begun(r)
      BY <2>2, BeginsEffect
    <3>2. /\ Same(r) /\ UNCHANGED <<account, keys, mailed, proved>> /\ raced \subseteq raced'
          /\ Addressing(req'[r]) => req'[r].email = account.email
          /\ req'[r].pc = "mark_verified" => req'[r].goal = "verify"
      BY <3>1 DEF Begun, Addressing, AllGoals, VerifyGoals, LinkGoals
    <3>3. req'[r].pc = "mark_verified" => keys[req'[r].token] = "verify"
                                           /\ req'[r].token \in Token
                                           /\ mailed[req'[r].token] # None
      <4>1. Base'
        BY <2>2, BeginsKeepBase
      <4>2. req'[r].goal \in Follows => req'[r].token \in Token /\ mailed'[req'[r].token] # None
        BY <4>1 DEF Base, Table
      <4> QED
        BY <3>1, <3>2, <4>2 DEF Begun, Follows, Kind, VerifyGoals
    <3> QED
      BY <3>2, <3>3, AddressQuiet
  <2>3. CASE CreateUser(r)
    <3>1. CASE account.status = "absent"
      <4>1. /\ account'.status = "present" /\ account'.verified = FALSE
            /\ account'.email = req[r].email /\ UNCHANGED <<keys, mailed, proved, raced>>
            /\ Same(r) /\ req'[r].pc = "store" /\ req'[r].email = req[r].email
        BY <2>3, <3>1, Effects DEF CreateUser, Went, Moved
      <4>2. /\ \A t \in Token : keys[t] = "none"
            /\ \A s \in Req \ {r} : req'[s].pc \in {"idle", "create"}
            /\ \A s \in Req \ {r} : ~ Addressing(req'[s])
        BY <3>1, <4>1 DEF Tidy, NothingYet, Same, Addressing, Base, Table, Fits
      <4> QED
        BY <4>1, <4>2 DEF AddressInv, VerifiedAddress, Present
    <3>2. CASE account.status # "absent"
      BY <2>3, <3>2, Effects, AddressQuiet DEF CreateUser, Ended, Addressing
    <3> QED
      BY <3>1, <3>2
  <2>4. ASSUME NEW t \in Token, StoreToken(r, t) PROVE AddressInv'
    <3>1. /\ UNCHANGED <<account, proved, raced>> /\ req[r].pc = "store" /\ Same(r)
          /\ mailed[t] = None /\ keys' = [keys EXCEPT ![t] = Kind(req[r].goal)]
          /\ IF Kind(req[r].goal) = "reset"
               THEN mailed' = [mailed EXCEPT ![t] = req[r].email] /\ req'[r].goal = "none"
                      /\ req'[r].pc = "idle"
               ELSE mailed' = mailed /\ req'[r].goal = req[r].goal
                      /\ req'[r].email = req[r].email /\ req'[r].pc = "index"
      BY ZenonT(60), <2>4, Effects DEF StoreToken, Moved, Ended
    <3>2. /\ \A u \in Token : keys'[u] = IF u = t THEN Kind(req[r].goal) ELSE keys[u]
          /\ \A u \in Token \ {t} : mailed'[u] = mailed[u]
      BY <2>1, <3>1
    <3>3. \A s \in Req : req[s].pc = "mark_verified" => req[s].token \in Token /\ req[s].token # t
      BY <3>1 DEF Base, Table, Fits, Follows
    <3>4. \A u \in Token : keys'[u] = "verify" /\ mailed'[u] # None
                             => keys[u] = "verify" /\ mailed'[u] = mailed[u]
      BY <3>1, <3>2
    <3>5. \A s \in Req : Addressing(req'[s]) => Addressing(req[s]) /\ req'[s].email = req[s].email
      BY <3>1 DEF Addressing, Same
    <3>6. \A s \in Req : req'[s].pc = "mark_verified" => req'[s] = req[s]
      BY <3>1 DEF Same
    <3> QED
      BY <3>1, <3>2, <3>3, <3>4, <3>5, <3>6 DEF AddressInv, VerifiedAddress, Present
  <2>5. CASE IndexToken(r)
    <3>1. /\ UNCHANGED <<account, keys, proved, raced>> /\ req[r].pc = "index" /\ Ended(r)
          /\ mailed' = [mailed EXCEPT ![req[r].token] = req[r].email]
          /\ req[r].token \in Token /\ keys[req[r].token] = Kind(req[r].goal)
          /\ mailed[req[r].token] = None
          /\ req[r].goal \in {"register", "resend", "email", "sendLink"}
      BY <2>1, <2>5, Effects DEF IndexToken, Fits, Tidy, FreshTokens
    <3>2. \A u \in Token : mailed'[u] = IF u = req[r].token THEN req[r].email ELSE mailed[u]
      BY <2>1, <3>1
    <3>3. Kind(req[r].goal) = "verify" => Addressing(req[r])
      BY <3>1 DEF Kind, VerifyGoals, LinkGoals, Addressing
    <3>4. \A s \in Req : req[s].pc = "mark_verified" =>
            req[s].token \in Token /\ req[s].token # req[r].token
      BY <3>1 DEF Base, Table, Fits, Follows
    <3>5. \A s \in Req : \/ req'[s] = req[s]
                         \/ ~ Addressing(req'[s]) /\ req'[s].pc # "mark_verified"
      BY <3>1 DEF Ended, Same, Addressing
    <3> QED
      BY <3>1, <3>2, <3>3, <3>4, <3>5 DEF AddressInv, VerifiedAddress, Present
  <2>6. CASE MarkVerified(r)
    <3>1. /\ UNCHANGED <<keys, mailed, raced>> /\ req[r].pc = "mark_verified" /\ Went(r, "look_up")
          /\ account'.status = account.status /\ account'.email = account.email
          /\ account'.verified = (account.verified \/ Present)
          /\ proved' = proved \cup {mailed[req[r].token]}
      BY <2>1, <2>6, Effects DEF MarkVerified, Row
    <3>2. ~ Addressing(req'[r]) /\ req'[r].pc # "mark_verified" /\ Same(r)
      BY <2>1, <3>1 DEF Addressing, Went, Moved, Fits
    <3> QED
      BY <3>1, <3>2 DEF AddressInv, VerifiedAddress, Present, Same
  <2>7. CASE WriteEmail(r)
    <3> SUFFICES ASSUME "email" \notin raced' PROVE AddressInv'
      BY DEF AddressInv
    <3>1. /\ UNCHANGED <<keys, mailed, proved>> /\ Went(r, "store") /\ raced \subseteq raced'
          /\ \A t \in Token : keys[t] # "verify"
          /\ Serving(VerifyGoals) = {r}
      BY <2>7, Effects DEF WriteEmail
    <3>2. \A s \in Req \ {r} : ~ Addressing(req'[s]) /\ req'[s].pc # "mark_verified"
      <4>1. \A s \in Req \ {r} : req[s].goal \notin VerifyGoals /\ Fits(req[s])
        BY <3>1 DEF Serving, Base, Table
      <4> QED
        BY <3>1, <4>1 DEF Went, Moved, Same, Addressing, VerifyGoals, Fits
    <3>3. CASE Present
      <4>1. account'.email = req[r].email /\ account'.verified = FALSE
        BY <2>1, <2>7, <3>3 DEF WriteEmail, Row
      <4> QED
        BY <3>1, <3>2, <4>1 DEF AddressInv, VerifiedAddress, Went, Moved
    <3>4. CASE ~ Present
      BY <2>7, <3>1, <3>4 DEF WriteEmail, AddressInv, VerifiedAddress, Present
    <3> QED
      BY <3>3, <3>4
  <2>8. CASE DeleteUser(r)
    BY <2>8 DEF DeleteUser, Absent, AddressInv, VerifiedAddress, Present
  <2>9. CASE \/ FindOld(r) \/ LookUp(r) \/ DropCurrent(r) \/ DropKey(r) \/ CheckHistory(r)
             \/ WritePassword(r) \/ RevokeAllUserTokens(r) \/ ReadUser(r) \/ Grant(r)
             \/ ToggleUserActive(r) \/ RevokeAllUserSessions(r) \/ Fail(r)
    <3>1. /\ UNCHANGED <<mailed, proved>> /\ raced \subseteq raced'
          /\ req[r].pc \notin {"idle", "create"} \/ Fail(r)
          /\ req[r].pc # "write_email" \/ Fail(r)
      BY <2>9 DEF FindOld, LookUp, DropCurrent, DropKey, CheckHistory, WritePassword,
                  RevokeAllUserTokens, ReadUser, Grant, ToggleUserActive,
                  RevokeAllUserSessions, Fail, Began, history
    <3>2. \A t \in Token : keys'[t] = "verify" => keys[t] = "verify"
      BY <2>1, <2>9 DEF FindOld, LookUp, DropCurrent, DropKey, CheckHistory, WritePassword,
                  RevokeAllUserTokens, ReadUser, Grant, ToggleUserActive,
                  RevokeAllUserSessions, Fail, Began, history
    <3>3. /\ account'.status = account.status /\ account'.email = account.email
          /\ account'.verified = account.verified
      BY <2>1, <2>9
         DEF FindOld, LookUp, DropCurrent, DropKey, CheckHistory, WritePassword,
             RevokeAllUserTokens, ReadUser, Grant, ToggleUserActive, SetActive,
             RevokeAllUserSessions, Fail, Began, history, Row
    <3>4. /\ Same(r)
          /\ \/ Ended(r)
             \/ /\ req'[r].goal = req[r].goal /\ req'[r].email = req[r].email
                /\ req[r].pc \notin {"create", "write_email"} /\ req'[r].pc # "mark_verified"
      <4>1. CASE DropKey(r)
        BY <2>1, <4>1, Effects DEF DropKey, Dropped, Went, Moved, Ended, Fits
      <4>2. CASE WritePassword(r)
        BY <2>1, <4>2, Effects DEF WritePassword, Went, Moved, Ended, Fits
      <4>3. CASE Fail(r)
        BY <2>1, <4>3, Effects DEF Dropped, Went, Moved, Ended, Fits
      <4>4. CASE ~ (DropKey(r) \/ WritePassword(r) \/ Fail(r))
        BY <2>9, <3>1, <4>4, Effects DEF Went, Moved, Ended
      <4> QED
        BY <4>1, <4>2, <4>3, <4>4
    <3>5. /\ Addressing(req'[r]) => Addressing(req[r]) /\ req'[r].email = req[r].email
          /\ req'[r].pc # "mark_verified"
      BY <3>4 DEF Addressing, Ended
    <3> QED
      BY <3>1, <3>2, <3>3, <3>4, <3>5, AddressQuiet
  <2> QED
    BY <1>3, <2>2, <2>3, <2>4, <2>5, <2>6, <2>7, <2>8, <2>9, ServeCases
<1> QED
  BY <1>1, <1>2, <1>3 DEF Next

LEMMA InitAddress == Init => AddressInv
<1> SUFFICES ASSUME Init PROVE AddressInv
  OBVIOUS
<1>1. Absent.status = "absent" /\ Absent.verified = FALSE
  BY DEF Absent
<1>2. Social.status = "present" /\ Social.email = Home
  BY DEF Absent, Social
<1>3. \A p \in Password : Registered(p).status = "present" /\ Registered(p).email = Home
  BY DEF Absent, Social, Registered
<1>4. \A t \in Token : mailed[t] = None
  BY DEF Init
<1>5. \A r \in Req : req[r].pc = "idle" /\ req[r].goal = "none"
  BY DEF Init, Idle
<1>6. VerifiedAddress
  BY <1>1, <1>2, <1>3 DEF Init, VerifiedAddress
<1> QED
  BY <1>4, <1>5, <1>6 DEF AddressInv, Addressing

\* A verified address is one whose owner has presented a token that was sent there, unless
\* an older token was around when the address changed: however registrations, resent mails,
\* changes of address and their failures interleave (service.go:516-583, 700-731).
THEOREM AddressesAreProved == Spec => []VerifiedAddress
<1>1. AddressInv => VerifiedAddress
  BY DEF AddressInv, VerifiedAddress
<1> QED
  BY <1>1, InitBase, NextBase, InitTidy, NextTidy, InitAddress, NextAddress, PTL DEF Spec

-----------------------------------------------------------------------------
(* UsedOnce: the key of a token is gone before its effect, or before the    *)
(* only request that presented it is.                                       *)

Presents(q, t) == q.goal \in {"reset", "linkLogin"} /\ q.token = t

\* A token that two requests did not present at the same time.
Single(t) ==
  /\ \A r, s \in Req : Presents(req[r], t) /\ Presents(req[s], t) => r = s
  /\ \A r \in Req : Presents(req[r], t) /\ Pending(req[r]) => uses[t] = 0
  /\ uses[t] > 0 => \/ keys[t] = "none"
                    \/ \E r \in Req : /\ Presents(req[r], t) /\ req[r].goal = "reset"
                                      /\ req[r].pc = "drop_key"
  /\ \A r \in Req : Presents(req[r], t) /\ req[r].goal = "linkLogin"
                     /\ req[r].pc \in {"read_user", "grant"} => keys[t] = "none"
  /\ uses[t] <= 1

OnceInv ==
  /\ \A t \in Token : uses[t] > 0 => mailed[t] # None
  /\ errors = 0 => \A t \in Token : t \notin shared => Single(t)

LEMMA OnceQuiet ==
  ASSUME Base, OnceInv, NEW r \in Req, Same(r), uses' = uses, errors' = errors,
         \A t \in Token : mailed[t] # None => mailed'[t] # None,
         \A t \in Token : mailed[t] # None => keys'[t] \in {keys[t], "none"},
         shared \subseteq shared',
         req'[r].goal \in {"reset", "linkLogin"} =>
           req'[r].goal = req[r].goal /\ req'[r].token = req[r].token,
         Pending(req'[r]) => Pending(req[r]),
         req'[r].goal = "linkLogin" /\ req'[r].pc \in {"read_user", "grant"} =>
           keys'[req[r].token] = "none" \/ req[r].pc \in {"read_user", "grant"},
         req[r].goal = "reset" /\ req[r].pc = "drop_key" => keys'[req[r].token] = "none"
  PROVE  OnceInv'
<1>1. \A t \in Token : uses'[t] > 0 => mailed'[t] # None
  BY DEF OnceInv
<1>2. ASSUME NEW t \in Token, errors = 0, t \notin shared PROVE Single(t)'
  <2>1. Single(t) /\ (uses[t] > 0 => mailed[t] # None)
    BY <1>2 DEF OnceInv
  <2>2. \A s \in Req : Presents(req'[s], t) => Presents(req[s], t) /\ req'[s].goal = req[s].goal
    BY DEF Presents, Same
  <2>3. \A s \in Req : Pending(req'[s]) => Pending(req[s])
    BY DEF Same
  <2>4. \A s, q \in Req : Presents(req'[s], t) /\ Presents(req'[q], t) => s = q
    BY <2>1, <2>2 DEF Single
  <2>5. \A s \in Req : Presents(req'[s], t) /\ Pending(req'[s]) => uses'[t] = 0
    BY <2>1, <2>2, <2>3 DEF Single
  <2>6. ASSUME uses'[t] > 0
        PROVE  \/ keys'[t] = "none"
               \/ \E s \in Req : /\ Presents(req'[s], t) /\ req'[s].goal = "reset"
                                 /\ req'[s].pc = "drop_key"
    <3>1. CASE keys[t] = "none"
      BY <2>1, <2>6, <3>1
    <3>2. CASE keys[t] # "none"
      <4>1. PICK s \in Req : /\ Presents(req[s], t) /\ req[s].goal = "reset"
                             /\ req[s].pc = "drop_key"
        BY <2>1, <2>6, <3>2 DEF Single
      <4>2. CASE s = r
        BY <4>1, <4>2 DEF Presents
      <4>3. CASE s # r
        BY <4>1, <4>3 DEF Same
      <4> QED
        BY <4>2, <4>3
    <3> QED
      BY <3>1, <3>2
  <2>7. ASSUME NEW s \in Req, Presents(req'[s], t), req'[s].goal = "linkLogin",
               req'[s].pc \in {"read_user", "grant"}
        PROVE  keys'[t] = "none"
    <3>1. /\ Presents(req[s], t) /\ req[s].goal = "linkLogin" /\ req[s].token = t
          /\ mailed[t] # None
      BY <2>2, <2>7 DEF Presents, Base, Table, Follows
    <3>2. CASE s = r
      BY <2>1, <2>7, <3>1, <3>2 DEF Single
    <3>3. CASE s # r
      BY <2>1, <2>7, <3>1, <3>3 DEF Single, Same
    <3> QED
      BY <3>2, <3>3
  <2> QED
    BY <2>1, <2>4, <2>5, <2>6, <2>7 DEF Single
<1> QED
  BY <1>1, <1>2 DEF OnceInv

\* r uses its token.
LEMMA OnceUse ==
  ASSUME Base, OnceInv, NEW r \in Req, Same(r), NEW t \in Token,
         Presents(req[r], t), Pending(req[r]), ~ Pending(req'[r]), mailed[t] # None,
         uses' = [uses EXCEPT ![t] = @ + 1], UNCHANGED <<errors, mailed, keys, shared>>,
         \/ req'[r].goal = "none" /\ req[r].goal = "linkLogin" /\ req[r].pc = "grant"
         \/ /\ req'[r].goal = "reset" /\ req[r].goal = "reset"
            /\ req'[r].pc = "drop_key" /\ req'[r].token = t
  PROVE  OnceInv'
<1>1. uses \in [Token -> 0 .. MaxRequests]
  BY DEF Base, TypeOK
<1>2. \A u \in Token : uses'[u] = IF u = t THEN uses[t] + 1 ELSE uses[u]
  BY <1>1
<1>3. \A u \in Token : uses'[u] > 0 => mailed'[u] # None
  BY <1>2 DEF OnceInv
<1>4. ASSUME NEW u \in Token, errors = 0, u \notin shared PROVE Single(u)'
  <2>1. Single(u)
    BY <1>4 DEF OnceInv
  <2>2. \A s \in Req : Presents(req'[s], u) => Presents(req[s], u) /\ req'[s].goal = req[s].goal
    BY DEF Presents, Same
  <2>3. CASE u # t
    <3>1. \A s \in Req : Presents(req'[s], u) \/ Presents(req[s], u) => s # r /\ req'[s] = req[s]
      BY <2>2, <2>3 DEF Presents, Same
    <3> QED
      BY <1>2, <2>1, <2>3, <3>1 DEF Single
  <2>4. CASE u = t
    <3>1. uses[t] = 0 /\ uses'[t] = 1
      BY <1>2, <2>1, <2>4 DEF Single
    <3>2. \A s \in Req : Presents(req'[s], t) => s = r
      BY <2>1, <2>2, <2>4 DEF Single
    <3>3. CASE req'[r].goal = "none"
      <4>1. keys[t] = "none"
        BY <2>1, <2>4, <3>3 DEF Single
      <4> QED
        BY <2>4, <3>1, <3>2, <3>3, <4>1 DEF Single, Presents
    <3>4. CASE req'[r].goal = "reset"
      BY <2>4, <3>1, <3>2, <3>4 DEF Single, Presents
    <3> QED
      BY <3>3, <3>4
  <2> QED
    BY <2>3, <2>4
<1> QED
  BY <1>3, <1>4 DEF OnceInv

LEMMA NextOnce ==
  ASSUME Base, OnceInv, [Next]_vars
  PROVE  OnceInv'
<1>1. CASE UNCHANGED vars
  BY <1>1 DEF vars, history, OnceInv, Single
<1>2. ASSUME NEW t \in Token, Lapse(t) PROVE OnceInv'
  <2>1. /\ UNCHANGED <<req, errors, mailed, uses, shared>>
        /\ \A u \in Token : keys'[u] \in {keys[u], "none"}
    BY <1>2 DEF Lapse, history, Base, TypeOK
  <2>2. ASSUME NEW u \in Token, Single(u) PROVE Single(u)'
    BY <2>1, <2>2 DEF Single
  <2> QED
    BY <2>1, <2>2 DEF OnceInv
<1>3. ASSUME NEW r \in Req, Serve(r) PROVE OnceInv'
  <2>1. /\ Fits(req[r]) /\ req \in [Req -> Request] /\ req[r] \in Request
        /\ keys \in [Token -> Kinds \cup {"none"}] /\ errors \in Nat
        /\ mailed \in [Token -> Email \cup {None}] /\ None \notin Email
        /\ uses \in [Token -> 0 .. MaxRequests]
        /\ req[r].goal \in Follows => req[r].token \in Token /\ mailed[req[r].token] # None
    BY DEF Base, TypeOK, Table
  <2>2. CASE Begins(r)
    <3>1. /\ Same(r) /\ UNCHANGED <<keys, errors, mailed, uses>> /\ shared \subseteq shared'
          /\ req[r].pc = "idle" /\ req[r].goal = "none"
          /\ req'[r].goal \in {"reset", "linkLogin"} =>
               /\ keys[req'[r].token] # "none"
               /\ (Presented(req'[r].token) => req'[r].token \in shared')
               /\ req'[r].pc \notin {"read_user", "grant"}
      BY <2>2, BeginsEffect DEF Begun, Follows, Kind, VerifyGoals, LinkGoals
    <3>2. CASE req'[r].goal \notin {"reset", "linkLogin"}
      BY <2>1, <3>1, <3>2, OnceQuiet DEF Pending
    <3>3. CASE req'[r].goal \in {"reset", "linkLogin"}
      <4>1. \A t \in Token : uses'[t] > 0 => mailed'[t] # None
        BY <3>1 DEF OnceInv
      <4>2. ASSUME NEW u \in Token, errors = 0, u \notin shared' PROVE Single(u)'
        <5>1. Single(u)
          BY <3>1, <4>2 DEF OnceInv
        <5>2. CASE u # req'[r].token
          <6>1. \A s \in Req : Presents(req'[s], u) \/ Presents(req[s], u)
                                => s # r /\ req'[s] = req[s]
            BY <3>1, <5>2 DEF Presents, Same
          <6> QED
            BY <3>1, <5>1, <6>1 DEF Single
        <5>3. CASE u = req'[r].token
          <6>1. /\ \A s \in Req : ~ Presents(req[s], u)
                /\ keys[u] # "none"
            BY <3>1, <3>3, <4>2, <5>3 DEF Presented, Serving, Presents
          <6>2. uses[u] = 0
            BY <2>1, <5>1, <6>1 DEF Single
          <6>3. \A s \in Req : Presents(req'[s], u) => s = r
            BY <3>1, <6>1 DEF Same
          <6> QED
            BY <3>1, <3>3, <6>2, <6>3 DEF Single
        <5> QED
          BY <5>2, <5>3
      <4> QED
        BY <3>1, <4>1, <4>2 DEF OnceInv
    <3> QED
      BY <3>2, <3>3
  <2>3. CASE Fail(r)
    BY <2>1, <2>3 DEF Fail, OnceInv, history
  <2>4. CASE WritePassword(r) /\ req[r].goal = "reset"
    <3>1. /\ Went(r, "drop_key") /\ req[r].pc = "write_password"
          /\ uses' = [uses EXCEPT ![req[r].token] = @ + 1]
          /\ UNCHANGED <<errors, mailed, keys, shared>>
      BY <2>4, Effects DEF WritePassword
    <3>2. /\ Same(r) /\ req'[r].goal = "reset" /\ req'[r].pc = "drop_key"
          /\ req'[r].token = req[r].token
      BY <2>4, <3>1 DEF Went, Moved
    <3>3. req[r].token \in Token /\ mailed[req[r].token] # None
      BY <2>1, <2>4 DEF Follows
    <3>4. Presents(req[r], req[r].token) /\ Pending(req[r]) /\ ~ Pending(req'[r])
      BY <2>4, <3>1, <3>2 DEF Presents, Pending
    <3> QED
      BY <2>4, <3>1, <3>2, <3>3, <3>4, OnceUse
  <2>5. CASE Grant(r) /\ req[r].goal = "linkLogin"
    <3>1. /\ Ended(r) /\ req[r].pc = "grant"
          /\ uses' = [uses EXCEPT ![req[r].token] = @ + 1]
          /\ UNCHANGED <<errors, mailed, keys, shared>>
      BY <2>5, Effects DEF Grant
    <3>2. Same(r) /\ req'[r].goal = "none" /\ ~ Pending(req'[r])
      BY <3>1 DEF Ended, Pending
    <3>3. req[r].token \in Token /\ mailed[req[r].token] # None
      BY <2>1, <2>5 DEF Follows
    <3>4. Presents(req[r], req[r].token) /\ Pending(req[r])
      BY <2>5 DEF Presents, Pending
    <3> QED
      BY <2>5, <3>1, <3>2, <3>3, <3>4, OnceUse
  <2>6. CASE DropKey(r)
    <3>1. /\ UNCHANGED <<uses, errors, mailed, shared>>
          /\ keys' = [keys EXCEPT ![req[r].token] = "none"]
          /\ req[r].pc = "drop_key" /\ req[r].token \in Token /\ Dropped(r)
      BY <2>1, <2>6, Effects DEF DropKey, history, Fits
    <3>2. /\ keys'[req[r].token] = "none"
          /\ \A t \in Token : keys'[t] \in {keys[t], "none"}
      BY <2>1, <3>1
    <3>3. /\ Same(r)
          /\ req'[r].goal \in {"reset", "linkLogin"} =>
               req'[r].goal = req[r].goal /\ req'[r].token = req[r].token
          /\ Pending(req'[r]) => Pending(req[r])
      BY <2>1, <3>1 DEF Dropped, Went, Moved, Ended, Pending, Fits
    <3> QED
      BY <3>1, <3>2, <3>3, OnceQuiet
  <2>7. ASSUME NEW t \in Token, StoreToken(r, t) PROVE OnceInv'
    <3>1. /\ UNCHANGED <<uses, errors, shared>> /\ mailed[t] = None /\ req[r].pc = "store"
          /\ \A u \in Token : u # t => keys'[u] = keys[u] /\ mailed'[u] = mailed[u]
          /\ req[r].goal \notin {"reset", "linkLogin"}
      BY <2>1, <2>7 DEF StoreToken, Fits
    <3>2. Same(r) /\ req'[r].goal \notin {"reset", "linkLogin"}
      BY <2>7, <3>1, Effects DEF Moved, Ended
    <3> QED
      BY <3>1, <3>2, OnceQuiet DEF Pending
  <2>8. CASE \/ CreateUser(r) \/ IndexToken(r) \/ FindOld(r) \/ LookUp(r) \/ DropCurrent(r)
             \/ MarkVerified(r) \/ WriteEmail(r) \/ CheckHistory(r)
             \/ (WritePassword(r) /\ req[r].goal # "reset") \/ RevokeAllUserTokens(r)
             \/ ReadUser(r) \/ (Grant(r) /\ req[r].goal # "linkLogin") \/ ToggleUserActive(r)
             \/ RevokeAllUserSessions(r) \/ DeleteUser(r)
    <3>1. UNCHANGED <<uses, errors, shared, keys>> /\ req[r].pc # "drop_key"
      BY <2>8 DEF CreateUser, IndexToken, FindOld, LookUp, DropCurrent, MarkVerified, WriteEmail,
                  CheckHistory, WritePassword, RevokeAllUserTokens, ReadUser, Grant,
                  ToggleUserActive, RevokeAllUserSessions, DeleteUser, Began, history
    <3>2. \A t \in Token : mailed[t] # None => mailed'[t] # None
      <4>1. CASE IndexToken(r)
        BY <2>1, <4>1 DEF IndexToken, Fits
      <4>2. CASE ~ IndexToken(r)
        BY <2>8, <4>2
           DEF CreateUser, FindOld, LookUp, DropCurrent, MarkVerified, WriteEmail,
               CheckHistory, WritePassword, RevokeAllUserTokens, ReadUser, Grant,
               ToggleUserActive, RevokeAllUserSessions, DeleteUser, Began, history
      <4> QED
        BY <4>1, <4>2
    <3>3. /\ Same(r)
          /\ \/ Ended(r)
             \/ /\ req'[r].goal = req[r].goal
                /\ req'[r].token = req[r].token \/ req[r].goal \notin {"reset", "linkLogin"}
                /\ req'[r].pc = "write_password" => req[r].pc = "check_history"
                /\ req'[r].pc \in {"read_user", "grant"} => req[r].pc = "read_user"
                /\ req'[r].pc # "check_history"
      <4>1. CASE FindOld(r)
        <5>1. /\ req[r].goal \notin {"reset", "linkLogin"}
              /\ \E step \in {"store", "drop_key", "look_up"} : Moved(r, step)
          BY <2>1, <4>1, Effects DEF FindOld, Fits
        <5> QED
          BY <5>1 DEF Moved
      <4>2. CASE WritePassword(r)
        BY <2>1, <2>8, <4>2, Effects DEF WritePassword, Went, Moved, Ended, Fits
      <4>3. CASE CheckHistory(r)
        BY <4>3, Effects DEF CheckHistory, Moved, Ended
      <4>4. CASE ReadUser(r)
        BY <4>4, Effects DEF ReadUser, Went, Moved, Ended
      <4>5. CASE ~ (FindOld(r) \/ WritePassword(r) \/ CheckHistory(r) \/ ReadUser(r))
        BY <2>8, <4>5, Effects DEF Went, Moved, Ended
      <4> QED
        BY <4>1, <4>2, <4>3, <4>4, <4>5
    <3>4. /\ req'[r].goal \in {"reset", "linkLogin"} =>
               req'[r].goal = req[r].goal /\ req'[r].token = req[r].token
          /\ Pending(req'[r]) => Pending(req[r])
          /\ req'[r].goal = "linkLogin" /\ req'[r].pc \in {"read_user", "grant"} =>
               req[r].pc \in {"read_user", "grant"}
      BY <3>3 DEF Ended, Pending
    <3> QED
      BY <3>1, <3>2, <3>3, <3>4, OnceQuiet
  <2> QED
    BY <1>3, <2>2, <2>3, <2>4, <2>5, <2>6, <2>7, <2>8, ServeCases
<1> QED
  BY <1>1, <1>2, <1>3 DEF Next

LEMMA InitOnce == Init => OnceInv
  BY DEF Init, OnceInv, Single, Presents, Idle

-----------------------------------------------------------------------------
(* OneLink: a link that is stored is the one that the reverse key names, or *)
(* the one that the only link request there is has taken in hand.           *)

InHand(q) == q.goal \in LinkGoals /\ q.pc \in {"look_up", "drop_current", "drop_key", "index"}

\* What the step of a link request says of a link t that is stored.
Handled(q, t) ==
  /\ InHand(q) => t = q.token
  /\ q.goal \in LinkGoals => q.pc \notin {"store", "read_user", "grant"}

LinkInv ==
  errors = 0 /\ "link" \notin raced =>
    /\ \A r, s \in Serving(LinkGoals) : r = s
    /\ \A t \in Token : keys[t] = "link" =>
         /\ \A r \in Req : Handled(req[r], t)
         /\ t = current["link"] \/ \E r \in Req : InHand(req[r])

\* A request that is not about links.
LEMMA LinkQuiet ==
  ASSUME LinkInv, NEW r \in Req, Same(r), req[r].goal \notin LinkGoals,
         req'[r].goal \notin LinkGoals, errors' = errors, raced \subseteq raced',
         current'["link"] = current["link"],
         \A t \in Token : keys'[t] = "link" => keys[t] = "link"
  PROVE  LinkInv'
<1> SUFFICES ASSUME errors' = 0, "link" \notin raced'
             PROVE  /\ \A s, q \in Serving(LinkGoals)' : s = q
                    /\ \A t \in Token : keys'[t] = "link" =>
                         /\ \A s \in Req : Handled(req'[s], t)
                         /\ t = current'["link"] \/ \E s \in Req : InHand(req'[s])
  BY DEF LinkInv
<1>1. errors = 0 /\ "link" \notin raced
  OBVIOUS
<1>2. \A s, q \in Serving(LinkGoals)' : s = q
  BY <1>1 DEF LinkInv, Serving, Same
<1>3. ~ InHand(req[r]) /\ \A t \in Token : Handled(req'[r], t)
  BY DEF InHand, Handled
<1>4. \A s \in Req : s # r => req'[s] = req[s]
  BY DEF Same
<1>5. ASSUME NEW t \in Token, keys'[t] = "link"
      PROVE  /\ \A s \in Req : Handled(req'[s], t)
             /\ t = current'["link"] \/ \E s \in Req : InHand(req'[s])
  <2>1. /\ \A s \in Req : Handled(req[s], t)
        /\ t = current["link"] \/ \E s \in Req : InHand(req[s])
    BY <1>1, <1>5 DEF LinkInv
  <2>2. \A s \in Req : Handled(req'[s], t)
    BY <1>3, <1>4, <2>1
  <2>3. ASSUME NEW s \in Req, InHand(req[s]) PROVE InHand(req'[s])
    BY <1>3, <1>4, <2>3
  <2> QED
    BY <2>1, <2>2, <2>3
<1> QED
  BY <1>2, <1>5

\* The only link request takes a step.
LEMMA LinkStep ==
  ASSUME LinkInv, NEW r \in Req, Same(r), req[r].goal \in LinkGoals,
         errors' = errors, raced \subseteq raced',
         ASSUME errors = 0, "link" \notin raced, NEW t \in Token, keys'[t] = "link"
         PROVE  Handled(req'[r], t) /\ (t = current'["link"] \/ InHand(req'[r]))
  PROVE  LinkInv'
<1> SUFFICES ASSUME errors' = 0, "link" \notin raced'
             PROVE  /\ \A s, q \in Serving(LinkGoals)' : s = q
                    /\ \A t \in Token : keys'[t] = "link" =>
                         /\ \A s \in Req : Handled(req'[s], t)
                         /\ t = current'["link"] \/ \E s \in Req : InHand(req'[s])
  BY DEF LinkInv
<1>1. errors = 0 /\ "link" \notin raced
  OBVIOUS
<1>2. \A s \in Req \ {r} : req'[s].goal \notin LinkGoals
  BY <1>1 DEF LinkInv, Serving, Same
<1>3. \A t \in Token : \A s \in Req \ {r} : Handled(req'[s], t)
  BY <1>2 DEF Handled, InHand
<1>4. \A s, q \in Serving(LinkGoals)' : s = q
  BY <1>2 DEF Serving
<1> QED
  BY <1>1, <1>3, <1>4

LEMMA NextLink ==
  ASSUME Base, Tidy, LinkInv, [Next]_vars
  PROVE  LinkInv'
<1>1. CASE UNCHANGED vars
  BY <1>1 DEF vars, history, LinkInv, Serving
<1>2. ASSUME NEW t \in Token, Lapse(t) PROVE LinkInv'
  <2>1. /\ UNCHANGED <<req, errors, raced>> /\ keys' = [keys EXCEPT ![t] = "none"]
        /\ "link" \in Indexed => current'["link"] = IF current["link"] = t THEN None
                                                     ELSE current["link"]
        /\ keys \in [Token -> Kinds \cup {"none"}]
    BY <1>2 DEF Lapse, history, Base, TypeOK
  <2>2. \A u \in Token : keys'[u] = "link" => u # t /\ keys[u] = "link"
    BY <2>1
  <2>3. "link" \in Indexed
    BY DEF Indexed
  <2> QED
    BY <2>1, <2>2, <2>3 DEF LinkInv, Serving
<1>3. ASSUME NEW r \in Req, Serve(r) PROVE LinkInv'
  <2>1. /\ Fits(req[r]) /\ req \in [Req -> Request] /\ req[r] \in Request
        /\ keys \in [Token -> Kinds \cup {"none"}] /\ errors \in Nat
        /\ current \in [Indexed -> Token \cup {None}] /\ None \notin Token
        /\ req[r].goal \in Follows => req[r].token \in Token /\ mailed[req[r].token] # None
    BY DEF Base, TypeOK, Table
  <2>2. "none" \notin LinkGoals /\ LinkGoals = {"sendLink", "linkLogin"} /\ "link" \in Indexed
    BY DEF LinkGoals, Indexed
  <2>3. CASE Begins(r)
    <3>1. Begun(r)
      BY <2>3, BeginsEffect
    <3>2. /\ Same(r) /\ UNCHANGED <<keys, current, errors>> /\ raced \subseteq raced'
          /\ req[r].goal = "none"
      BY <3>1 DEF Begun
    <3>3. CASE req'[r].goal \notin LinkGoals
      BY <2>2, <3>2, <3>3, LinkQuiet
    <3>4. CASE req'[r].goal \in LinkGoals
      <4> SUFFICES ASSUME errors' = 0, "link" \notin raced'
                   PROVE  /\ \A s, q \in Serving(LinkGoals)' : s = q
                          /\ \A t \in Token : keys'[t] = "link" =>
                               /\ \A s \in Req : Handled(req'[s], t)
                               /\ t = current'["link"] \/ \E s \in Req : InHand(req'[s])
        BY DEF LinkInv
      <4>1. Serving(LinkGoals) = {} /\ errors = 0 /\ "link" \notin raced
        BY <3>1, <3>2, <3>4 DEF Begun
      <4>2. \A s \in Req \ {r} : req'[s].goal \notin LinkGoals
        BY <3>2, <4>1 DEF Serving, Same
      <4>3. \A s, q \in Serving(LinkGoals)' : s = q
        BY <4>2 DEF Serving
      <4>4. \A s \in Req : ~ InHand(req[s])
        BY <4>1 DEF Serving, InHand
      <4>5. \A t \in Token : keys[t] = "link" => t = current["link"]
        BY <4>1, <4>4 DEF LinkInv
      <4>6. \A t \in Token : keys'[t] = "link" => Handled(req'[r], t)
        <5>1. CASE req'[r].goal = "sendLink"
          BY <3>1, <5>1 DEF Begun, Handled, InHand
        <5>2. CASE req'[r].goal = "linkLogin"
          <6>1. /\ req'[r].pc = "look_up" /\ keys[req'[r].token] = "link"
            BY <3>1, <5>2 DEF Begun, Follows, Kind, VerifyGoals, LinkGoals
          <6>2. req'[r].token \in Token
            <7>1. Base'
              BY NextBase
            <7> QED
              BY <5>2, <7>1 DEF Base, Table, Follows
          <6> QED
            BY <3>2, <4>5, <6>1, <6>2 DEF Handled
        <5> QED
          BY <2>2, <3>4, <5>1, <5>2
      <4>7. \A t \in Token : \A s \in Req \ {r} : Handled(req'[s], t)
        BY <4>2 DEF Handled, InHand
      <4> QED
        BY <3>2, <4>3, <4>5, <4>6, <4>7
    <3> QED
      BY <3>3, <3>4
  <2>4. ASSUME NEW t \in Token, StoreToken(r, t) PROVE LinkInv'
    <3>1. /\ UNCHANGED <<current, errors, raced>> /\ req[r].pc = "store"
          /\ keys' = [keys EXCEPT ![t] = Kind(req[r].goal)]
      BY <2>4 DEF StoreToken
    <3>2. \A u \in Token : keys'[u] = IF u = t THEN Kind(req[r].goal) ELSE keys[u]
      BY <2>1, <3>1
    <3>3. /\ Same(r) /\ req'[r].goal \in {req[r].goal, "none"}
          /\ IF Kind(req[r].goal) = "reset" THEN Ended(r)
             ELSE Moved(r, "index") /\ req'[r].token = t
      BY <2>4, Effects DEF Moved, Ended
    <3>4. CASE req[r].goal \notin LinkGoals
      <4>1. Kind(req[r].goal) # "link" /\ req'[r].goal \notin LinkGoals
        BY <2>2, <3>3, <3>4 DEF Kind
      <4> QED
        BY <3>1, <3>2, <3>3, <3>4, <4>1, LinkQuiet
    <3>5. CASE req[r].goal \in LinkGoals
      <4>1. Kind(req[r].goal) = "link"
        BY <2>2, <3>5 DEF Kind, VerifyGoals
      <4>2. req'[r].pc = "index" /\ req'[r].token = t /\ req'[r].goal = req[r].goal
        BY <3>3, <4>1 DEF Moved
      <4>3. ASSUME errors = 0, "link" \notin raced, NEW u \in Token, keys'[u] = "link"
            PROVE  Handled(req'[r], u) /\ (u = current'["link"] \/ InHand(req'[r]))
        <5>1. keys[u] # "link"
          BY <3>1, <3>5, <4>3 DEF LinkInv, Handled
        <5>2. u = t
          BY <3>2, <4>3, <5>1
        <5> QED
          BY <3>5, <4>2, <5>2 DEF Handled, InHand
      <4> QED
        BY <3>1, <3>3, <3>5, <4>3, LinkStep
    <3> QED
      BY <3>4, <3>5
  <2>5. CASE IndexToken(r)
    <3>1. /\ UNCHANGED <<keys, errors, raced>> /\ req[r].pc = "index" /\ Ended(r)
          /\ current' = [current EXCEPT ![Kind(req[r].goal)] = req[r].token]
      BY <2>5, Effects DEF IndexToken
    <3>2. Same(r) /\ req'[r].goal = "none" /\ req'[r].pc = "idle"
      BY <3>1 DEF Ended
    <3>3. CASE req[r].goal \notin LinkGoals
      <4>1. Kind(req[r].goal) # "link"
        BY <2>2, <3>3 DEF Kind
      <4>2. current'["link"] = current["link"]
        BY <2>1, <2>2, <3>1, <4>1
      <4> QED
        BY <2>2, <3>1, <3>2, <3>3, <4>2, LinkQuiet
    <3>4. CASE req[r].goal \in LinkGoals
      <4>1. Kind(req[r].goal) = "link"
        BY <2>2, <3>4 DEF Kind, VerifyGoals
      <4>2. current'["link"] = req[r].token
        BY <2>1, <2>2, <3>1, <4>1
      <4>3. ASSUME errors = 0, "link" \notin raced, NEW u \in Token, keys'[u] = "link"
            PROVE  Handled(req'[r], u) /\ (u = current'["link"] \/ InHand(req'[r]))
        <5>1. u = req[r].token
          BY <3>1, <3>4, <4>3 DEF LinkInv, Handled, InHand
        <5> QED
          BY <2>2, <3>2, <4>2, <5>1 DEF Handled, InHand
      <4> QED
        BY <3>1, <3>2, <3>4, <4>3, LinkStep
    <3> QED
      BY <3>3, <3>4
  <2>6. CASE FindOld(r)
    <3>1. /\ UNCHANGED <<keys, current, errors, raced>> /\ req[r].pc = "find_old"
      BY <2>6 DEF FindOld, Began
    <3>2. /\ Same(r) /\ req'[r].goal = req[r].goal
          /\ req'[r].token = current[Kind(req[r].goal)]
          /\ req'[r].pc = IF current[Kind(req[r].goal)] = None THEN "store"
                          ELSE IF req[r].goal = "sendLink" THEN "drop_key" ELSE "look_up"
      BY <2>6, Effects DEF Moved
    <3>3. CASE req[r].goal \notin LinkGoals
      BY <3>1, <3>2, <3>3, LinkQuiet
    <3>4. CASE req[r].goal \in LinkGoals
      <4>1. Kind(req[r].goal) = "link" /\ req[r].goal = "sendLink"
        BY <2>1, <2>2, <3>1, <3>4 DEF Kind, VerifyGoals, Fits
      <4>2. ASSUME errors = 0, "link" \notin raced, NEW u \in Token, keys'[u] = "link"
            PROVE  Handled(req'[r], u) /\ (u = current'["link"] \/ InHand(req'[r]))
        <5>1. \A s \in Req : s # r => req[s].goal \notin LinkGoals
          BY <3>4, <4>2 DEF LinkInv, Serving
        <5>2. \A s \in Req : ~ InHand(req[s])
          BY <3>1, <5>1 DEF InHand
        <5>3. u = current["link"]
          BY <3>1, <4>2, <5>2 DEF LinkInv
        <5> QED
          BY <2>1, <3>1, <3>2, <4>1, <5>3 DEF Handled, InHand
      <4> QED
        BY <3>1, <3>2, <3>4, <4>2, LinkStep
    <3> QED
      BY <3>3, <3>4
  <2>7. CASE LookUp(r)
    <3>1. /\ UNCHANGED <<keys, current, errors, raced>> /\ req[r].pc = "look_up"
          /\ Same(r) /\ req'[r].goal = req[r].goal /\ req'[r].token = req[r].token
          /\ req'[r].pc \in {"drop_key", "drop_current"}
      BY <2>7, Effects DEF LookUp, Began, Went, Moved
    <3>2. CASE req[r].goal \notin LinkGoals
      BY <3>1, <3>2, LinkQuiet
    <3>3. CASE req[r].goal \in LinkGoals
      <4>1. ASSUME errors = 0, "link" \notin raced, NEW u \in Token, keys'[u] = "link"
            PROVE  Handled(req'[r], u) /\ (u = current'["link"] \/ InHand(req'[r]))
        <5>1. Handled(req[r], u)
          BY <3>1, <4>1 DEF LinkInv
        <5> QED
          BY <3>1, <3>3, <5>1 DEF Handled, InHand
      <4> QED
        BY <3>1, <3>3, <4>1, LinkStep
    <3> QED
      BY <3>2, <3>3
  <2>8. CASE DropCurrent(r)
    <3>1. /\ UNCHANGED <<keys, errors, raced>> /\ req[r].pc = "drop_current"
          /\ current' = [current EXCEPT ![Kind(req[r].goal)] = None]
          /\ Same(r) /\ req'[r].goal = req[r].goal /\ req'[r].token = req[r].token
          /\ req'[r].pc = "drop_key"
      BY <2>8, Effects DEF DropCurrent, history, Went, Moved
    <3>2. CASE req[r].goal \notin LinkGoals
      <4>1. Kind(req[r].goal) # "link"
        BY <2>2, <3>2 DEF Kind
      <4>2. current'["link"] = current["link"]
        BY <2>1, <2>2, <3>1, <4>1
      <4> QED
        BY <3>1, <3>2, <4>2, LinkQuiet
    <3>3. CASE req[r].goal \in LinkGoals
      <4>1. ASSUME errors = 0, "link" \notin raced, NEW u \in Token, keys'[u] = "link"
            PROVE  Handled(req'[r], u) /\ (u = current'["link"] \/ InHand(req'[r]))
        <5>1. Handled(req[r], u)
          BY <3>1, <4>1 DEF LinkInv
        <5> QED
          BY <3>1, <3>3, <5>1 DEF Handled, InHand
      <4> QED
        BY <3>1, <3>3, <4>1, LinkStep
    <3> QED
      BY <3>2, <3>3
  <2>9. CASE DropKey(r)
    <3>1. /\ UNCHANGED <<current, errors, raced>> /\ req[r].pc = "drop_key"
          /\ keys' = [keys EXCEPT ![req[r].token] = "none"] /\ req[r].token \in Token
      BY <2>1, <2>9 DEF DropKey, history, Fits
    <3>2. \A u \in Token : keys'[u] = "link" => u # req[r].token /\ keys[u] = "link"
      BY <2>1, <3>1
    <3>3. Same(r) /\ req'[r].goal \in {req[r].goal, "none"}
      BY <2>1, <2>9, <3>1, Effects DEF Dropped, Went, Moved, Ended, Fits
    <3>4. CASE req[r].goal \notin LinkGoals
      BY <2>2, <3>1, <3>2, <3>3, <3>4, LinkQuiet
    <3>5. CASE req[r].goal \in LinkGoals
      <4>1. ASSUME errors = 0, "link" \notin raced, NEW u \in Token, keys'[u] = "link"
            PROVE  Handled(req'[r], u) /\ (u = current'["link"] \/ InHand(req'[r]))
        BY <3>1, <3>2, <3>5, <4>1 DEF LinkInv, Handled, InHand
      <4> QED
        BY <3>1, <3>3, <3>5, <4>1, LinkStep
    <3> QED
      BY <3>4, <3>5
  <2>10. CASE ReadUser(r) \/ Grant(r)
    <3>1. /\ UNCHANGED <<keys, current, errors, raced>> /\ req[r].pc \in {"read_user", "grant"}
          /\ Same(r) /\ req'[r].goal \in {req[r].goal, "none"}
      BY <2>10, Effects DEF ReadUser, Grant, Began, Went, Moved, Ended
    <3>2. CASE req[r].goal \notin LinkGoals
      BY <2>2, <3>1, <3>2, LinkQuiet
    <3>3. CASE req[r].goal \in LinkGoals
      <4>1. ASSUME errors = 0, "link" \notin raced, NEW u \in Token, keys'[u] = "link"
            PROVE  Handled(req'[r], u) /\ (u = current'["link"] \/ InHand(req'[r]))
        BY <3>1, <3>3, <4>1 DEF LinkInv, Handled
      <4> QED
        BY <3>1, <3>3, <4>1, LinkStep
    <3> QED
      BY <3>2, <3>3
  <2>11. CASE Fail(r)
    BY <2>1, <2>11 DEF Fail, LinkInv, history
  <2>12. CASE \/ CreateUser(r) \/ MarkVerified(r) \/ WriteEmail(r) \/ CheckHistory(r)
              \/ WritePassword(r) \/ RevokeAllUserTokens(r) \/ ToggleUserActive(r)
              \/ RevokeAllUserSessions(r) \/ DeleteUser(r)
    <3>1. UNCHANGED <<keys, current, errors>> /\ raced \subseteq raced'
      BY <2>12 DEF CreateUser, MarkVerified, WriteEmail, CheckHistory, WritePassword,
                   RevokeAllUserTokens, ToggleUserActive, RevokeAllUserSessions, DeleteUser,
                   Began, history
    <3>2. req[r].goal \notin LinkGoals
      BY <2>1, <2>2, <2>12
         DEF CreateUser, MarkVerified, WriteEmail, CheckHistory, WritePassword,
             RevokeAllUserTokens, ToggleUserActive, RevokeAllUserSessions, DeleteUser, Fits
    <3>3. Same(r) /\ req'[r].goal \in {req[r].goal, "none"}
      BY <2>1, <2>12, Effects DEF WritePassword, Went, Moved, Ended, Fits
    <3> QED
      BY <2>2, <3>1, <3>2, <3>3, LinkQuiet
  <2> QED
    BY <1>3, <2>3, <2>4, <2>5, <2>6, <2>7, <2>8, <2>9, <2>10, <2>11, <2>12, ServeCases
<1> QED
  BY <1>1, <1>2, <1>3 DEF Next

LEMMA InitLink == Init => LinkInv
  BY DEF Init, LinkInv, Serving, Idle, LinkGoals

LEMMA LinkIsOne == Base /\ LinkInv => OneLink
<1> SUFFICES ASSUME Base, LinkInv, errors = 0, "link" \notin raced
             PROVE  ~ (Cardinality({t \in Token : keys[t] = "link"}) > 1)
  BY DEF OneLink, Base, TypeOK
<1> DEFINE links == {t \in Token : keys[t] = "link"}
<1>1. \A t, u \in links : t = u
  BY DEF LinkInv, Handled
<1>2. CASE links = {}
  <2>1. Cardinality({}) = 0
    BY FS_EmptySet
  <2> QED
    BY <1>2, <2>1
<1>3. CASE links # {}
  <2>1. PICK t \in links : TRUE
    BY <1>3
  <2>2. links = {t}
    BY <1>1, <2>1
  <2>3. Cardinality({t}) = 1
    BY FS_Singleton
  <2> QED
    BY <2>2, <2>3
<1> QED
  BY <1>2, <1>3

\* A mailed token has its effect at most once, unless two requests presented it at the
\* same time or a command failed; and at most one magic link of the user is stored, unless
\* two link requests overlapped or a command failed (service.go:587, 958, redis.go:136).
THEOREM MailedTokensWorkOnce == Spec => []TokensOnce
<1>1. Base /\ OnceInv => UsedOnce
  BY DEF OnceInv, Single, UsedOnce, Base, TypeOK
<1>2. Base /\ OnceInv /\ LinkInv => TokensOnce
  BY <1>1, LinkIsOne DEF TokensOnce
<1> QED
  BY <1>2, InitBase, NextBase, InitTidy, NextTidy, InitOnce, NextOnce, InitLink, NextLink,
     PTL DEF Spec

-----------------------------------------------------------------------------
(* NoRecentReuse: the stored history is what the user's passwords have     *)
(* been, and a request that is about to write a password has checked it    *)
(* against the history that is stored.                                     *)

\* A sequence of passwords without a recent repetition.
Fresh(c) == \A i, j \in DOMAIN c : i < j /\ j <= i + HistoryCount => c[i] # c[j]

LEMMA ConsFacts ==
  ASSUME NEW S, NEW s \in Seq(S), NEW p \in S
  PROVE  /\ <<p>> \o s \in Seq(S) /\ Len(<<p>> \o s) = Len(s) + 1 /\ Len(s) \in Nat
         /\ (<<p>> \o s)[1] = p
         /\ \A i \in 1 .. Len(s) : (<<p>> \o s)[i + 1] = s[i]
         /\ DOMAIN s = 1 .. Len(s)
  OBVIOUS

\* Seen from the first position: p, then what s has one position earlier.
LEMMA ConsAt ==
  ASSUME NEW S, NEW s \in Seq(S), NEW p \in S, NEW i \in 2 .. Len(s) + 1
  PROVE  i - 1 \in 1 .. Len(s) /\ (<<p>> \o s)[i] = s[i - 1]
<1>1. Len(s) \in Nat
  OBVIOUS
<1>2. i - 1 \in 1 .. Len(s) /\ i = (i - 1) + 1
  BY <1>1
<1> QED
  BY <1>2, ConsFacts

\* Trimming before the new password is added loses nothing.
LEMMA TrimmedHistory ==
  ASSUME NEW c \in Seq(Password), NEW p \in Password
  PROVE  AppendPasswordHistory(Take(c, HistoryCount), p) = Take(<<p>> \o c, HistoryCount)
<1> DEFINE h == Take(c, HistoryCount)
           a == <<p>> \o h
           b == <<p>> \o c
<1>1. /\ h \in Seq(Password) /\ Len(c) \in Nat
      /\ Len(h) = IF Len(c) < HistoryCount THEN Len(c) ELSE HistoryCount
      /\ \A i \in 1 .. Len(h) : h[i] = c[i]
  BY TakeFacts
<1> HIDE DEF h
<1>2. /\ a \in Seq(Password) /\ Len(a) = Len(h) + 1 /\ a[1] = p
      /\ b \in Seq(Password) /\ Len(b) = Len(c) + 1 /\ b[1] = p
  BY <1>1, ConsFacts
<1>3. /\ \A i \in 2 .. Len(h) + 1 : i - 1 \in 1 .. Len(h) /\ a[i] = h[i - 1]
      /\ \A i \in 2 .. Len(c) + 1 : b[i] = c[i - 1]
  BY <1>1, ConsAt
<1> HIDE DEF a, b
<1>4. Len(h) <= Len(c) /\ Len(h) \in Nat
  BY <1>1
<1>5. ASSUME NEW i \in 1 .. Len(a) PROVE a[i] = b[i]
  <2>1. CASE i = 1
    BY <1>2, <2>1
  <2>2. CASE i # 1
    <3>1. i \in 2 .. Len(h) + 1 /\ i \in 2 .. Len(c) + 1
      BY <1>1, <1>2, <1>4, <2>2
    <3>2. a[i] = h[i - 1] /\ b[i] = c[i - 1] /\ h[i - 1] = c[i - 1]
      BY <1>1, <1>3, <3>1
    <3> QED
      BY <3>2
  <2> QED
    BY <2>1, <2>2
<1>6. /\ Take(a, HistoryCount) \in Seq(Password) /\ Take(b, HistoryCount) \in Seq(Password)
      /\ Len(Take(a, HistoryCount)) = IF Len(a) < HistoryCount THEN Len(a) ELSE HistoryCount
      /\ Len(Take(b, HistoryCount)) = IF Len(b) < HistoryCount THEN Len(b) ELSE HistoryCount
      /\ \A i \in 1 .. Len(Take(a, HistoryCount)) : Take(a, HistoryCount)[i] = a[i]
      /\ \A i \in 1 .. Len(Take(b, HistoryCount)) : Take(b, HistoryCount)[i] = b[i]
  BY <1>2, TakeFacts
<1>7. /\ Len(Take(a, HistoryCount)) = Len(Take(b, HistoryCount))
      /\ Len(Take(a, HistoryCount)) <= Len(a) /\ Len(Take(a, HistoryCount)) \in Nat
  BY <1>1, <1>2, <1>6
<1>8. \A i \in 1 .. Len(Take(a, HistoryCount)) :
        Take(a, HistoryCount)[i] = Take(b, HistoryCount)[i]
  BY <1>2, <1>4, <1>5, <1>6, <1>7
<1>9. Take(a, HistoryCount) = Take(b, HistoryCount)
  BY <1>6, <1>7, <1>8
<1> QED
  BY <1>9 DEF a, b, h, AppendPasswordHistory

\* A password that passes the check differs from the last ones chosen.
LEMMA PassedHistory ==
  ASSUME NEW c \in Seq(Password), NEW p \in Password, PassesHistory(Take(c, HistoryCount), p),
         NEW j \in 1 .. Len(c), j <= HistoryCount
  PROVE  c[j] # p
<1> DEFINE h == Take(c, HistoryCount)
<1>1. /\ h \in Seq(Password) /\ Len(c) \in Nat
      /\ Len(h) = IF Len(c) < HistoryCount THEN Len(c) ELSE HistoryCount
      /\ \A i \in 1 .. Len(h) : h[i] = c[i]
  BY TakeFacts
<1> HIDE DEF h
<1>2. /\ Take(h, HistoryCount) \in Seq(Password)
      /\ Len(Take(h, HistoryCount)) = IF Len(h) < HistoryCount THEN Len(h) ELSE HistoryCount
      /\ \A i \in 1 .. Len(Take(h, HistoryCount)) : Take(h, HistoryCount)[i] = h[i]
  BY <1>1, TakeFacts
<1>3. j \in 1 .. Len(h) /\ j \in 1 .. Len(Take(h, HistoryCount))
  BY <1>1, <1>2
<1>4. j \in DOMAIN Take(h, HistoryCount) /\ Take(h, HistoryCount)[j] = c[j]
  BY <1>1, <1>2, <1>3
<1>5. c[j] \in Members(Take(h, HistoryCount))
  BY <1>4 DEF Members
<1> QED
  BY <1>5 DEF PassesHistory, h

LEMMA FreshCons ==
  ASSUME NEW c \in Seq(Password), NEW p \in Password, Fresh(c),
         PassesHistory(Take(c, HistoryCount), p)
  PROVE  Fresh(<<p>> \o c)
<1> DEFINE d == <<p>> \o c
<1>1. d \in Seq(Password) /\ Len(d) = Len(c) + 1 /\ d[1] = p /\ Len(c) \in Nat
  BY ConsFacts
<1>2. \A i \in 2 .. Len(c) + 1 : i - 1 \in 1 .. Len(c) /\ d[i] = c[i - 1]
  BY ConsAt
<1>3. DOMAIN c = 1 .. Len(c) /\ DOMAIN d = 1 .. Len(d)
  BY <1>1
<1> HIDE DEF d
<1>4. ASSUME NEW i \in DOMAIN d, NEW j \in DOMAIN d, i < j, j <= i + HistoryCount
      PROVE  d[i] # d[j]
  <2>1. j \in 2 .. Len(c) + 1 /\ j - 1 \in 1 .. Len(c) /\ d[j] = c[j - 1]
    BY <1>1, <1>2, <1>3, <1>4
  <2>2. CASE i = 1
    <3>1. j - 1 <= HistoryCount
      BY <1>1, <1>3, <1>4, <2>2
    <3>2. c[j - 1] # p
      BY <2>1, <3>1, PassedHistory
    <3> QED
      BY <1>1, <2>1, <2>2, <3>2
  <2>3. CASE i # 1
    <3>1. i \in 2 .. Len(c) + 1
      BY <1>1, <1>3, <2>3
    <3>2. i - 1 \in 1 .. Len(c) /\ d[i] = c[i - 1]
      BY <1>2, <3>1
    <3>3. i - 1 < j - 1 /\ j - 1 <= (i - 1) + HistoryCount
      BY <1>3, <1>4
    <3>4. c[i - 1] # c[j - 1]
      BY <1>3, <2>1, <3>2, <3>3 DEF Fresh
    <3> QED
      BY <2>1, <3>2, <3>4
  <2> QED
    BY <2>2, <2>3
<1> QED
  BY <1>4 DEF Fresh, d

ReuseInv ==
  raced \cap {"password", "initial"} = {} =>
    /\ Fresh(chosen)
    /\ Present =>
         /\ account.history = Take(chosen, HistoryCount)
         /\ \A r \in Req : req[r].pc = "write_password" /\ req[r].goal # "initial" =>
              /\ PassesHistory(account.history, req[r].password)
              /\ req[r].history = AppendPasswordHistory(account.history, req[r].password)

LEMMA ReuseQuiet ==
  ASSUME ReuseInv, NEW r \in Req, Same(r), raced \subseteq raced', chosen' = chosen,
         account'.status = account.status \/ account'.status # "present",
         account'.status = account.status => account'.history = account.history,
         Present /\ req'[r].pc = "write_password" /\ req'[r].goal # "initial" =>
           /\ PassesHistory(account.history, req'[r].password)
           /\ req'[r].history = AppendPasswordHistory(account.history, req'[r].password)
  PROVE  ReuseInv'
<1> SUFFICES ASSUME raced' \cap {"password", "initial"} = {}
             PROVE  /\ Fresh(chosen')
                    /\ Present' =>
                         /\ account'.history = Take(chosen', HistoryCount)
                         /\ \A s \in Req :
                              req'[s].pc = "write_password" /\ req'[s].goal # "initial" =>
                                /\ PassesHistory(account'.history, req'[s].password)
                                /\ req'[s].history
                                     = AppendPasswordHistory(account'.history, req'[s].password)
  BY DEF ReuseInv
<1>1. raced \cap {"password", "initial"} = {}
  OBVIOUS
<1>2. Fresh(chosen)
  BY <1>1 DEF ReuseInv
<1>3. ASSUME Present'
      PROVE  /\ account'.history = Take(chosen', HistoryCount)
             /\ \A s \in Req :
                  req'[s].pc = "write_password" /\ req'[s].goal # "initial" =>
                    /\ PassesHistory(account'.history, req'[s].password)
                    /\ req'[s].history = AppendPasswordHistory(account'.history, req'[s].password)
  <2>1. Present /\ account'.history = account.history
    BY <1>3 DEF Present
  <2>2. \A s \in Req : s # r => req'[s] = req[s]
    BY DEF Same
  <2> QED
    BY <1>1, <2>1, <2>2 DEF ReuseInv
<1> QED
  BY <1>2, <1>3

LEMMA NextReuse ==
  ASSUME Base, Tidy, ReuseInv, [Next]_vars
  PROVE  ReuseInv'
<1>1. CASE UNCHANGED vars
  BY <1>1 DEF vars, history, ReuseInv, Present
<1>2. ASSUME NEW t \in Token, Lapse(t) PROVE ReuseInv'
  BY <1>2 DEF Lapse, history, ReuseInv, Present
<1>3. ASSUME NEW r \in Req, Serve(r) PROVE ReuseInv'
  <2>1. /\ Fits(req[r]) /\ req[r] \in Request /\ account \in Row
        /\ chosen \in Seq(Password) /\ account.history \in Seq(Password)
    BY DEF Base, TypeOK, Table, Row
  <2>2. CASE Begins(r)
    <3>1. Begun(r)
      BY <2>2, BeginsEffect
    <3>2. req'[r].pc = "write_password" /\ req'[r].goal # "initial" =>
            /\ PassesHistory(account.history, req'[r].password)
            /\ req'[r].history = AppendPasswordHistory(account.history, req'[r].password)
      BY <3>1 DEF Begun, AllGoals, VerifyGoals, LinkGoals
    <3>3. Same(r) /\ raced \subseteq raced' /\ chosen' = chosen /\ account' = account
      BY <3>1 DEF Begun
    <3> QED
      BY <3>2, <3>3, ReuseQuiet
  <2>3. CASE CreateUser(r)
    <3>1. CASE account.status = "absent"
      <4>1. /\ \A s \in Req : req[s].pc # "write_password"
            /\ Same(r) /\ req'[r].pc = "store"
        BY <2>3, <3>1, Effects DEF Tidy, NothingYet, Went, Moved
      <4>2. \A s \in Req : req'[s].pc # "write_password"
        BY <4>1 DEF Same
      <4>3. /\ req[r].password \in Password /\ chosen' = <<req[r].password>>
            /\ account'.history = AppendPasswordHistory(<<>>, req[r].password)
        BY <2>1, <2>3, <3>1 DEF CreateUser, Fits
      <4>4. /\ account'.history = Take(chosen', HistoryCount)
            /\ Fresh(chosen')
        BY <4>3 DEF AppendPasswordHistory, Fresh
      <4> QED
        BY <4>2, <4>4 DEF ReuseInv
    <3>2. CASE account.status # "absent"
      <4>1. UNCHANGED <<account, chosen, raced>>
        BY <2>3, <3>2 DEF CreateUser
      <4>2. Ended(r)
        BY <2>3, <3>2, Effects
      <4> QED
        BY <4>1, <4>2, ReuseQuiet DEF Ended
    <3> QED
      BY <3>1, <3>2
  <2>4. CASE WritePassword(r)
    <3>1. /\ req[r].pc = "write_password" /\ raced \subseteq raced'
          /\ (\E s \in Req \ {r} : req[s].pc = "write_password") => "password" \in raced'
          /\ req[r].goal = "initial" => "initial" \in raced'
          /\ Present => /\ account' = [account EXCEPT !.password = req[r].password,
                                                      !.history = req[r].history]
                        /\ chosen' = <<req[r].password>> \o chosen
          /\ ~ Present => UNCHANGED <<account, chosen>>
      BY <2>4 DEF WritePassword
    <3>2. Same(r) /\ req'[r].pc # "write_password"
      BY <2>1, <2>4, <3>1, Effects DEF Went, Moved, Ended, Fits
    <3>3. CASE ~ Present
      BY <3>1, <3>2, <3>3, ReuseQuiet
    <3>4. CASE Present
      <4> SUFFICES ASSUME raced' \cap {"password", "initial"} = {}
                   PROVE  /\ Fresh(chosen') /\ account'.history = Take(chosen', HistoryCount)
                          /\ \A s \in Req : req'[s].pc # "write_password"
        BY DEF ReuseInv
      <4>1. raced \cap {"password", "initial"} = {} /\ req[r].goal # "initial"
        BY <3>1
      <4>2. \A s \in Req : req'[s].pc # "write_password"
        BY <3>1, <3>2 DEF Same
      <4>3. /\ Fresh(chosen) /\ account.history = Take(chosen, HistoryCount)
            /\ PassesHistory(account.history, req[r].password)
            /\ req[r].history = AppendPasswordHistory(account.history, req[r].password)
        BY <3>1, <3>4, <4>1 DEF ReuseInv
      <4>4. req[r].password \in Password
        BY <2>1, <3>1 DEF Fits
      <4>5. account'.history = req[r].history
        BY <2>1, <3>1, <3>4 DEF Row
      <4>6. account'.history = Take(<<req[r].password>> \o chosen, HistoryCount)
        BY <2>1, <4>3, <4>4, <4>5, TrimmedHistory
      <4>7. Fresh(<<req[r].password>> \o chosen)
        BY <2>1, <4>3, <4>4, FreshCons
      <4> QED
        BY <3>1, <3>4, <4>2, <4>6, <4>7
    <3> QED
      BY <3>3, <3>4
  <2>5. CASE CheckHistory(r)
    <3>1. UNCHANGED <<account, chosen, raced>>
      BY <2>5 DEF CheckHistory, Began
    <3>2. \/ Ended(r)
          \/ /\ Same(r) /\ req'[r].password = req[r].password
             /\ PassesHistory(account.history, req[r].password)
             /\ req'[r].history = AppendPasswordHistory(account.history, req[r].password)
      BY <2>5, Effects DEF Moved
    <3> QED
      BY <3>1, <3>2, ReuseQuiet DEF Ended
  <2>6. CASE DeleteUser(r)
    <3>1. UNCHANGED <<chosen, raced>> /\ account'.status = "deleted" /\ Ended(r)
      BY <2>6, Effects DEF DeleteUser, history, Absent
    <3>2. ~ Present'
      BY <3>1 DEF Present
    <3> QED
      BY <3>1, <3>2 DEF ReuseInv
  <2>7. CASE \/ (\E t \in Token : StoreToken(r, t)) \/ IndexToken(r) \/ FindOld(r) \/ LookUp(r)
             \/ DropCurrent(r) \/ DropKey(r) \/ MarkVerified(r) \/ WriteEmail(r)
             \/ RevokeAllUserTokens(r) \/ ReadUser(r) \/ Grant(r) \/ ToggleUserActive(r)
             \/ RevokeAllUserSessions(r) \/ Fail(r)
    <3>1. /\ chosen' = chosen /\ raced \subseteq raced'
          /\ account'.status = account.status /\ account'.history = account.history
      <4>1. CASE MarkVerified(r) \/ WriteEmail(r) \/ ToggleUserActive(r)
        BY <2>1, <4>1 DEF MarkVerified, WriteEmail, ToggleUserActive, SetActive, history, Row
      <4>2. CASE ~ (MarkVerified(r) \/ WriteEmail(r) \/ ToggleUserActive(r))
        BY <2>7, <4>2
           DEF StoreToken, IndexToken, FindOld, LookUp, DropCurrent, DropKey,
               RevokeAllUserTokens, ReadUser, Grant, RevokeAllUserSessions, Fail, Began, history
      <4> QED
        BY <4>1, <4>2
    <3>2. Same(r) /\ req'[r].pc # "write_password"
      <4>1. CASE Fail(r)
        BY <2>1, <4>1, Effects DEF Dropped, Went, Moved, Ended, Fits
      <4>2. CASE DropKey(r)
        BY <2>1, <4>2, Effects DEF DropKey, Dropped, Went, Moved, Ended, Fits
      <4>3. CASE ~ (Fail(r) \/ DropKey(r))
        BY <2>7, <4>3, Effects DEF Went, Moved, Ended
      <4> QED
        BY <4>1, <4>2, <4>3
    <3> QED
      BY <3>1, <3>2, ReuseQuiet
  <2> QED
    BY <1>3, <2>2, <2>3, <2>4, <2>5, <2>6, <2>7, ServeCases
<1> QED
  BY <1>1, <1>2, <1>3 DEF Next

LEMMA InitReuse == Init => ReuseInv
<1> SUFFICES ASSUME Init
             PROVE  /\ Fresh(chosen)
                    /\ Present => account.history = Take(chosen, HistoryCount)
                    /\ \A r \in Req : req[r].pc # "write_password"
  BY DEF ReuseInv
<1>1. Absent.status = "absent" /\ Absent.password = None
  BY DEF Absent
<1>2. Social.history = <<>> /\ Social.password = None
  BY DEF Absent, Social
<1>3. \A p \in Password : /\ Registered(p).password = p
                          /\ Registered(p).history = AppendPasswordHistory(<<>>, p)
  BY DEF Absent, Social, Registered
<1>4. \A r \in Req : req[r].pc # "write_password"
  BY DEF Init, Idle
<1>5. Take(<<>>, HistoryCount) = <<>>
  BY DEF Take
<1>6. CASE account.password = None
  <2>1. chosen = <<>> /\ account \in {Absent, Social}
    BY <1>3, <1>6 DEF Init
  <2> QED
    BY <1>1, <1>2, <1>4, <1>5, <2>1 DEF Fresh, Present
<1>7. CASE account.password # None
  <2>1. PICK p \in Password : account = Registered(p)
    BY <1>1, <1>2, <1>7 DEF Init
  <2>2. chosen = <<p>> /\ account.history = AppendPasswordHistory(<<>>, p)
    BY <1>3, <1>7, <2>1 DEF Init
  <2> QED
    BY <1>4, <2>2 DEF AppendPasswordHistory, Fresh
<1> QED
  BY <1>6, <1>7

\* The last HistoryCount passwords are not used again, for any history length and however
\* changes, resets and first passwords overlap, unless two of them wrote at the same time or
\* the first password of a social account is among them (password_policy.go:74-123,
\* service.go:592-620, 737-780).
THEOREM PasswordsAreNotReused == Spec => []NoRecentReuse
<1>1. Base /\ ReuseInv => NoRecentReuse
  BY DEF ReuseInv, Fresh, NoRecentReuse
<1> QED
  BY <1>1, InitBase, NextBase, InitTidy, NextTidy, InitReuse, NextReuse, PTL DEF Spec
=============================================================================
