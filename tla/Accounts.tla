------------------------------ MODULE Accounts ------------------------------
(***************************************************************************)
(* One user's account in one application: internal/user (service and       *)
(* repository), with the mailed tokens that internal/redis keeps for it.   *)
(*                                                                         *)
(* A handler reads a row or a key, decides, and writes later; handlers run *)
(* concurrently, so each is a request slot that takes one SQL statement or *)
(* one Redis command per step.  A request that stops for ever stands for a *)
(* process that crashed.                                                   *)
(*                                                                         *)
(* What the sessions of the user are worth is one value, access: Sessions  *)
(* has the detail.  A request that fails its checks changes nothing, so a  *)
(* check is the guard of the step that begins the request, or ends it.     *)
(* An address that is registered again after a deletion belongs to another *)
(* account, with an identifier and tokens of its own.                      *)
(***************************************************************************)
EXTENDS Integers, Sequences, FiniteSets

CONSTANTS
  Email,         \* addresses
  Home,          \* the address the account is registered with
  Password,      \* passwords that satisfy the application's policy
  Token,         \* mailed tokens (UUIDs), each drawn once
  Req,           \* slots for requests being served at the same time
  Goals,         \* the kinds of request this instance serves
  HistoryCount,  \* pw_history_count
  MaxRequests,   \* bound: requests served
  MaxErrors,     \* bound: statements and commands that fail
  None           \* no address, password or token

VerifyGoals == {"register", "verify", "resend", "email"}
LinkGoals == {"sendLink", "linkLogin"}
AllGoals == VerifyGoals \cup LinkGoals
              \cup {"login", "sendReset", "reset", "change", "initial",
                    "delete", "toggle"}

ASSUME AccountsAssumption ==
  /\ Home \in Email /\ None \notin Email \cup Password \cup Token
  /\ Goals \subseteq AllGoals
  /\ HistoryCount \in Nat /\ MaxRequests \in Nat /\ MaxErrors \in Nat

VARIABLES
  account,  \* the row of users
  keys,     \* email_verify:{t}, password_reset:{t} and magic_link:{t}
  current,  \* email_verify_user:{user} and magic_link_user:{user}
  access,   \* what the user's sessions are worth to the middleware
  req,      \* the state of every request slot
  served,   \* requests begun so far
  errors,   \* statements and commands that have failed so far
  mailed,   \* history: the address each token was sent to
  proved,   \* history: addresses whose owner has presented a token
  chosen,   \* history: passwords that were set, the last one first
  uses,     \* history: how often a token has had its effect
  shared,   \* history: tokens that two requests presented at the same time
  raced     \* history: overlaps the properties make an exception for

history == <<mailed, proved, chosen, uses, shared, raced>>
vars == <<account, keys, current, access, req, served, errors, history>>

Kinds == {"verify", "reset", "link"}
Indexed == {"verify", "link"}
Row == [status : {"absent", "present", "deleted"}, email : Email \cup {None},
        verified : BOOLEAN, active : BOOLEAN, password : Password \cup {None},
        history : Seq(Password)]

Steps == {"idle", "create", "find_old", "look_up", "drop_current", "drop_key",
          "store", "index", "mark_verified", "write_email", "check_history",
          "write_password", "revoke", "read_user", "grant", "revoke_all",
          "delete_row", "activate", "deactivate"}

Request ==
  [ pc       : Steps,
    goal     : AllGoals \cup {"none"},
    token    : Token \cup {None},     \* presented, to store, or to delete
    email    : Email \cup {None},     \* where the new token is sent
    password : Password \cup {None},  \* the new password
    history  : Seq(Password) ]        \* the password history to write

Idle == [pc |-> "idle", goal |-> "none", token |-> None, email |-> None,
         password |-> None, history |-> <<>>]

Absent == [status |-> "absent", email |-> None, verified |-> FALSE,
           active |-> TRUE, password |-> None, history |-> <<>>]
\* An account that a social provider created: verified, without a password.
Social == [Absent EXCEPT !.status = "present", !.email = Home, !.verified = TRUE]

-----------------------------------------------------------------------------
Present == account.status = "present"
Serving(goals) == {r \in Req : req[r].goal \in goals}

Take(s, n) == SubSeq(s, 1, IF Len(s) < n THEN Len(s) ELSE n)
Members(s) == {s[i] : i \in DOMAIN s}

\* Mutants of AppendPasswordHistory: the list is not trimmed; one too short.
AppendUntrimmed(hist, p) == <<p>> \o hist
AppendTooShort(hist, p) == Take(<<p>> \o hist, HistoryCount - 1)

AppendPasswordHistory(hist, p) == Take(<<p>> \o hist, HistoryCount)
PassesHistory(hist, p) == p \notin Members(Take(hist, HistoryCount))

\* An account that has been registered and verified, and is signed in.
Registered(p) == [Social EXCEPT !.password = p,
                                !.history = AppendPasswordHistory(<<>>, p)]

Init ==
  /\ account \in {Absent, Social} \cup {Registered(p) : p \in Password}
  /\ keys = [t \in Token |-> "none"]
  /\ current = [k \in Indexed |-> None]
  /\ access = IF account.status = "present" THEN "live" ELSE "none"
  /\ req = [r \in Req |-> Idle]
  /\ served = 0 /\ errors = 0
  /\ mailed = [t \in Token |-> None]
  /\ proved = IF account.status = "present" THEN {Home} ELSE {}
  /\ chosen = IF account.password = None THEN <<>> ELSE <<account.password>>
  /\ uses = [t \in Token |-> 0]
  /\ shared = {} /\ raced = {}

\* The kind of token a request stores, presents or deletes.
Kind(goal) == IF goal \in VerifyGoals THEN "verify"
              ELSE IF goal \in LinkGoals THEN "link" ELSE "reset"

\* A request takes a slot.  Overlapping link requests, and a login that
\* overlaps the deletion or deactivation of the account, are remembered.
Logins == {"login", "linkLogin"}
Endings == {"delete", "toggle"}

Begin(r, step, goal, token, email, password, hist) ==
  LET Overlaps(S, T) == goal \in S /\ Serving(T) # {} IN
  /\ goal \in Goals
  /\ req[r].pc = "idle" /\ served < MaxRequests
  /\ served' = served + 1
  /\ req' = [req EXCEPT ![r] =
               [pc |-> step, goal |-> goal, token |-> token, email |-> email,
                password |-> password, history |-> hist]]
  /\ raced' = raced \cup
       (IF Overlaps(LinkGoals, LinkGoals) THEN {"link"} ELSE {}) \cup
       (IF Overlaps(Endings, Logins) \/ Overlaps(Logins, Endings)
          THEN {"ending"} ELSE {})

\* A request that presents a mailed token which is still stored.
Presented(t) == \E r \in Serving({"reset", "linkLogin"}) : req[r].token = t
BeginWith(r, step, goal, t, password) ==
  /\ mailed[t] # None /\ keys[t] = Kind(goal)
  /\ Begin(r, step, goal, t, None, password, <<>>)
  /\ shared' = shared \cup (IF Presented(t) THEN {t} ELSE {})

Goto(r, step) == req' = [req EXCEPT ![r].pc = step]
Finish(r) == req' = [req EXCEPT ![r] = Idle]
Proceed(r, step) == IF step = "idle" THEN Finish(r) ELSE Goto(r, step)

Began == <<account, keys, current, access, errors, mailed, proved, chosen, uses>>

-----------------------------------------------------------------------------
(* Registration.  The unique index on the address refuses a second row.     *)

RegisterUser(r, p) ==
  /\ account.status = "absent"
  /\ Begin(r, "create", "register", None, Home, p, <<>>)
  /\ UNCHANGED <<Began, shared>>

CreateUser(r) ==
  LET p == req[r].password IN
  /\ req[r].pc = "create"
  /\ IF account.status = "absent"
       THEN /\ account' = [status |-> "present", email |-> req[r].email,
                           verified |-> FALSE, active |-> TRUE, password |-> p,
                           history |-> AppendPasswordHistory(<<>>, p)]
            /\ chosen' = <<p>>
            /\ Goto(r, "store")
       ELSE Finish(r) /\ UNCHANGED <<account, chosen>>
  /\ UNCHANGED <<keys, current, access, served, errors, mailed, proved,
                 uses, shared, raced>>

-----------------------------------------------------------------------------
(* Mailed tokens: Set...Token and the e-mail, Delete...Token.               *)

\* The key of the new token.  A reset token has no reverse key.
StoreToken(r, t) ==
  LET kind == Kind(req[r].goal) IN
  /\ req[r].pc = "store"
  /\ mailed[t] = None /\ keys[t] = "none" /\ \A s \in Req : req[s].token # t
  /\ keys' = [keys EXCEPT ![t] = kind]
  /\ IF kind = "reset"
       THEN mailed' = [mailed EXCEPT ![t] = req[r].email] /\ Finish(r)
       ELSE /\ req' = [req EXCEPT ![r].pc = "index", ![r].token = t]
            /\ UNCHANGED mailed
  /\ UNCHANGED <<account, current, access, served, errors, proved, chosen,
                 uses, shared, raced>>

\* The reverse key, then the e-mail.
IndexToken(r) ==
  LET t == req[r].token IN
  /\ req[r].pc = "index"
  /\ current' = [current EXCEPT ![Kind(req[r].goal)] = t]
  /\ mailed' = [mailed EXCEPT ![t] = req[r].email]
  /\ Finish(r)
  /\ UNCHANGED <<account, keys, access, served, errors, proved, chosen,
                 uses, shared, raced>>

\* The token that the reverse key names is to be deleted: a new magic link
\* deletes its key alone, a new verification token calls the Delete function.
FindOld(r) ==
  LET old == current[Kind(req[r].goal)] IN
  /\ req[r].pc = "find_old"
  /\ req' = [req EXCEPT ![r].token = old,
                        ![r].pc = IF old = None THEN "store"
                                  ELSE IF req[r].goal = "sendLink" THEN "drop_key"
                                  ELSE "look_up"]
  /\ UNCHANGED <<Began, served, shared, raced>>

\* Delete...Token: GET the key; DEL the reverse key, whatever token it names;
\* DEL the key.
LookUp(r) ==
  /\ req[r].pc = "look_up"
  /\ Goto(r, IF keys[req[r].token] = "none" THEN "drop_key" ELSE "drop_current")
  /\ UNCHANGED <<Began, served, shared, raced>>

DropCurrent(r) ==
  /\ req[r].pc = "drop_current"
  /\ current' = [current EXCEPT ![Kind(req[r].goal)] = None]
  /\ Goto(r, "drop_key")
  /\ UNCHANGED <<account, keys, access, served, errors, history>>

\* Where a handler goes on after a token was deleted.
AfterDrop == [verify |-> "idle", resend |-> "store", sendLink |-> "store",
              linkLogin |-> "read_user", reset |-> "revoke"]

\* Mutant of DropKey: the used or replaced token is left alone.
DropKeyOmitted(r) ==
  /\ req[r].pc = "drop_key"
  /\ Proceed(r, AfterDrop[req[r].goal])
  /\ UNCHANGED <<Began, served, shared, raced>>

DropKey(r) ==
  /\ req[r].pc = "drop_key"
  /\ keys' = [keys EXCEPT ![req[r].token] = "none"]
  /\ Proceed(r, AfterDrop[req[r].goal])
  /\ UNCHANGED <<account, current, access, served, errors, history>>

\* A key reaches its TTL, and the reverse key that was set after it does too.
Lapse(t) ==
  /\ keys[t] # "none"
  /\ \A r \in Req : req[r].pc = "index" => req[r].token # t
  /\ keys' = [keys EXCEPT ![t] = "none"]
  /\ current' = [k \in Indexed |-> IF current[k] = t THEN None ELSE current[k]]
  /\ UNCHANGED <<account, access, req, served, errors, history>>

-----------------------------------------------------------------------------
(* Addresses and their verification                                        *)

VerifyEmail(r, t) ==
  /\ BeginWith(r, "mark_verified", "verify", t, None)
  /\ UNCHANGED Began

\* UPDATE ... SET email_verified WHERE id: no row, no error.
MarkVerified(r) ==
  /\ req[r].pc = "mark_verified"
  /\ account' = [account EXCEPT !.verified = @ \/ Present]
  /\ proved' = proved \cup {mailed[req[r].token]}
  /\ Goto(r, "look_up")
  /\ UNCHANGED <<keys, current, access, served, errors, mailed, chosen,
                 uses, shared, raced>>

ResendVerificationEmail(r) ==
  /\ Present /\ ~account.verified
  /\ Begin(r, "find_old", "resend", None, account.email, None, <<>>)
  /\ UNCHANGED <<Began, shared>>

UpdateUserEmail(r, e) ==
  /\ Present /\ account.password # None
  /\ Begin(r, "write_email", "email", None, e, None, <<>>)
  /\ UNCHANGED <<Began, shared>>

\* Mutant of WriteEmail: the new address inherits the verification.
WriteEmailKeepsVerified(r) ==
  /\ req[r].pc = "write_email"
  /\ account' = IF Present THEN [account EXCEPT !.email = req[r].email] ELSE account
  /\ Goto(r, "store")
  /\ UNCHANGED <<keys, current, access, served, errors, history>>

\* Tokens for an earlier address are not withdrawn: one that is stored, or
\* that a request is about to store or has already accepted, outlives the
\* change, which history remembers.
WriteEmail(r) ==
  LET stale == \/ \E t \in Token : keys[t] = "verify"
               \/ Serving(VerifyGoals) # {r} IN
  /\ req[r].pc = "write_email"
  /\ account' = IF Present THEN [account EXCEPT !.email = req[r].email,
                                                !.verified = FALSE]
                           ELSE account
  /\ raced' = raced \cup (IF stale THEN {"email"} ELSE {})
  /\ Goto(r, "store")
  /\ UNCHANGED <<keys, current, access, served, errors, mailed, proved,
                 chosen, uses, shared>>

-----------------------------------------------------------------------------
(* Passwords                                                               *)

RequestPasswordReset(r) ==
  /\ Present
  /\ Begin(r, "store", "sendReset", None, account.email, None, <<>>)
  /\ UNCHANGED <<Began, shared>>

ConfirmPasswordReset(r, t, p) ==
  /\ BeginWith(r, "check_history", "reset", t, p)
  /\ UNCHANGED Began

CheckHistory(r) ==
  LET p == req[r].password IN
  /\ req[r].pc = "check_history"
  /\ IF Present /\ PassesHistory(account.history, p)
       THEN req' = [req EXCEPT ![r].pc = "write_password",
                               ![r].history = AppendPasswordHistory(account.history, p)]
       ELSE Finish(r)
  /\ UNCHANGED <<Began, served, shared, raced>>

UpdateUserPassword(r, p) ==
  /\ Present
  /\ account.password # None /\ p # account.password
  /\ PassesHistory(account.history, p)
  /\ Begin(r, "write_password", "change", None, None, p,
           AppendPasswordHistory(account.history, p))
  /\ UNCHANGED <<Began, shared>>

\* The first password of a social account; the history is written back as read.
SetInitialPassword(r, p) ==
  /\ Present /\ account.password = None
  /\ Begin(r, "write_password", "initial", None, None, p, account.history)
  /\ UNCHANGED <<Began, shared>>

AfterWrite == [reset |-> "drop_key", change |-> "revoke", initial |-> "idle"]

WritePassword(r) ==
  LET goal == req[r].goal
      overlap == \E s \in Req \ {r} : req[s].pc = "write_password" IN
  /\ req[r].pc = "write_password"
  /\ account' = IF Present THEN [account EXCEPT !.password = req[r].password,
                                                !.history = req[r].history]
                           ELSE account
  /\ chosen' = IF Present THEN <<req[r].password>> \o chosen ELSE chosen
  /\ uses' = IF goal = "reset" THEN [uses EXCEPT ![req[r].token] = @ + 1] ELSE uses
  /\ raced' = raced \cup (IF overlap THEN {"password"} ELSE {})
                    \cup (IF goal = "initial" THEN {"initial"} ELSE {})
  /\ Proceed(r, AfterWrite[goal])
  /\ UNCHANGED <<keys, current, access, served, errors, mailed, proved, shared>>

\* RevokeAllUserTokens blocks the user until the next login.
RevokeAllUserTokens(r) ==
  /\ req[r].pc = "revoke"
  /\ access' = IF access = "live" THEN "blocked" ELSE access
  /\ Finish(r)
  /\ UNCHANGED <<account, keys, current, served, errors, history>>

-----------------------------------------------------------------------------
(* Logins                                                                  *)

LoginUser(r) ==
  /\ Present /\ account.password # None /\ account.active /\ account.verified
  /\ Begin(r, "grant", "login", None, None, None, <<>>)
  /\ UNCHANGED <<Began, shared>>

RequestMagicLink(r) ==
  /\ Present /\ account.active /\ account.verified
  /\ Begin(r, "find_old", "sendLink", None, account.email, None, <<>>)
  /\ UNCHANGED <<Began, shared>>

VerifyMagicLink(r, t) ==
  /\ BeginWith(r, "look_up", "linkLogin", t, None)
  /\ UNCHANGED Began

ReadUser(r) ==
  /\ req[r].pc = "read_user"
  /\ IF Present /\ account.active /\ account.verified
       THEN Goto(r, "grant") ELSE Finish(r)
  /\ UNCHANGED <<Began, served, shared, raced>>

\* CreateSession, which also lifts the block on the user's older sessions.
Grant(r) ==
  /\ req[r].pc = "grant"
  /\ access' = "live"
  /\ uses' = IF req[r].goal = "linkLogin"
               THEN [uses EXCEPT ![req[r].token] = @ + 1] ELSE uses
  /\ Finish(r)
  /\ UNCHANGED <<account, keys, current, served, errors, mailed, proved,
                 chosen, shared, raced>>

-----------------------------------------------------------------------------
(* Deletion, and activation by an administrator                            *)

\* The administrator's page flips the flag it read.
UserToggleActive(r) ==
  /\ Present
  /\ Begin(r, IF account.active THEN "deactivate" ELSE "activate", "toggle",
           None, None, None, <<>>)
  /\ UNCHANGED <<Began, shared>>

SetActive(active) ==
  account' = IF Present THEN [account EXCEPT !.active = active] ELSE account

ToggleUserActive(r) ==
  /\ \/ req[r].pc = "activate" /\ SetActive(TRUE) /\ Finish(r)
     \/ req[r].pc = "deactivate" /\ SetActive(FALSE) /\ Goto(r, "revoke")
  /\ UNCHANGED <<keys, current, access, served, errors, history>>

DeleteUserAccount(r) ==
  /\ Present
  /\ Begin(r, "revoke_all", "delete", None, None, None, <<>>)
  /\ UNCHANGED <<Began, shared>>

\* Mutant of RevokeAllUserSessions: the sessions are left alone.
RevokeAllUserSessionsOmitted(r) ==
  /\ req[r].pc = "revoke_all"
  /\ Goto(r, "delete_row")
  /\ UNCHANGED <<Began, served, shared, raced>>

RevokeAllUserSessions(r) ==
  /\ req[r].pc = "revoke_all"
  /\ access' = "none"
  /\ Goto(r, "delete_row")
  /\ UNCHANGED <<account, keys, current, served, errors, history>>

DeleteUser(r) ==
  /\ req[r].pc = "delete_row"
  /\ account' = [Absent EXCEPT !.status = "deleted"]
  /\ Finish(r)
  /\ UNCHANGED <<keys, current, access, served, errors, history>>

-----------------------------------------------------------------------------
(* A statement or a command fails.  The handler answers with an error, or   *)
(* the command was best effort and the handler goes on.                     *)

AfterWarning == [find_old |-> "store", look_up |-> "drop_key",
                 drop_current |-> "drop_key", revoke_all |-> "delete_row"]

Fail(r) ==
  /\ errors < MaxErrors /\ req[r].pc # "idle"
  /\ errors' = errors + 1
  /\ IF req[r].pc = "drop_key" THEN Proceed(r, AfterDrop[req[r].goal])
     ELSE IF req[r].pc \in DOMAIN AfterWarning THEN Goto(r, AfterWarning[req[r].pc])
     ELSE Finish(r)
  /\ UNCHANGED <<account, keys, current, access, served, history>>

-----------------------------------------------------------------------------
(* The HTTP handlers.  Each takes the user from the token that the          *)
(* middleware accepted, or the mailed token from the request, and runs the  *)
(* service's operation.                                                     *)

Authenticated == access = "live"

Register(r, p) == RegisterUser(r, p)
ResendVerification(r) == ResendVerificationEmail(r)
FollowVerification(r, t) == VerifyEmail(r, t)
UpdateEmail(r, e) == Authenticated /\ UpdateUserEmail(r, e)
ForgotPassword(r) == RequestPasswordReset(r)
ResetPassword(r, t, p) == ConfirmPasswordReset(r, t, p)
UpdatePassword(r, p) == Authenticated /\ UpdateUserPassword(r, p)
SetPassword(r, p) == Authenticated /\ SetInitialPassword(r, p)
DeleteAccount(r) == Authenticated /\ DeleteUserAccount(r)
AskForMagicLink(r) == RequestMagicLink(r)
FollowMagicLink(r, t) == VerifyMagicLink(r, t)

-----------------------------------------------------------------------------
Serve(r) ==
  \/ \E p \in Password : Register(r, p) \/ UpdatePassword(r, p) \/ SetPassword(r, p)
  \/ CreateUser(r) \/ IndexToken(r) \/ FindOld(r) \/ LookUp(r)
  \/ DropCurrent(r) \/ DropKey(r)
  \/ \E t \in Token : StoreToken(r, t) \/ FollowVerification(r, t)
                        \/ FollowMagicLink(r, t)
  \/ MarkVerified(r) \/ ResendVerification(r)
  \/ \E e \in Email : UpdateEmail(r, e)
  \/ WriteEmail(r)
  \/ ForgotPassword(r) \/ CheckHistory(r) \/ WritePassword(r)
  \/ \E t \in Token, p \in Password : ResetPassword(r, t, p)
  \/ RevokeAllUserTokens(r) \/ LoginUser(r) \/ AskForMagicLink(r)
  \/ ReadUser(r) \/ Grant(r)
  \/ UserToggleActive(r) \/ ToggleUserActive(r)
  \/ DeleteAccount(r) \/ RevokeAllUserSessions(r) \/ DeleteUser(r)
  \/ Fail(r)

Next == (\E t \in Token : Lapse(t)) \/ \E r \in Req : Serve(r)

Spec == Init /\ [][Next]_vars

-----------------------------------------------------------------------------
(* Properties                                                              *)

\* Every variable keeps the shape its row, key or request has in the code; a
\* stored password history is trimmed to HistoryCount entries.
TypeOK ==
  /\ account \in Row /\ Len(account.history) <= HistoryCount
  /\ keys \in [Token -> Kinds \cup {"none"}]
  /\ current \in [Indexed -> Token \cup {None}]
  /\ access \in {"none", "live", "blocked"}
  /\ req \in [Req -> Request]
  /\ served \in 0 .. MaxRequests /\ errors \in 0 .. MaxErrors
  /\ mailed \in [Token -> Email \cup {None}]
  /\ proved \subseteq Email
  /\ chosen \in Seq(Password)
  /\ uses \in [Token -> 0 .. MaxRequests]
  /\ shared \subseteq Token
  /\ raced \subseteq {"link", "ending", "email", "password", "initial"}

\* docs/API.md:75: a magic link or a reset token has its effect at most once,
\* unless two requests presented it at the same time or a DEL failed.
UsedOnce == \A t \in Token : uses[t] > 1 => t \in shared \/ errors > 0

\* redis.go:134: at most one magic link of a user is active at a time, unless
\* two link requests overlapped or a command failed.
OneLink ==
  Cardinality({t \in Token : keys[t] = "link"}) > 1 => "link" \in raced \/ errors > 0

\* A verified address is one whose owner has presented a token that was sent
\* there, unless an older token was around when the address changed.
VerifiedAddress ==
  account.verified => account.email \in proved \/ "email" \in raced

\* PROFILE_MANAGEMENT_IMPLEMENTATION.md:136, without the exception.
NewAddressIsVerified == account.verified => account.email \in proved

\* The last HistoryCount passwords are not used again, unless two requests
\* wrote a password at the same time or the first one of a social account,
\* which is not recorded, is among them.
NoRecentReuse ==
  raced \cap {"password", "initial"} = {} =>
    \A i, j \in DOMAIN chosen :
      i < j /\ j <= i + HistoryCount => chosen[i] # chosen[j]

\* service.go:862 and gui_handler.go:1624: no session is of use once the
\* account is gone or inactive, unless the deactivation is about to block it,
\* a login overlapped the change or a command failed.
EndingEndsAccess ==
  (account.status = "deleted" \/ ~account.active) /\ access = "live" =>
    \/ \E r \in Serving({"toggle"}) : req[r].pc = "revoke"
    \/ "ending" \in raced
    \/ errors > 0

\* A mailed token has its effect once, and one magic link is active, but for the overlaps
\* named above (service.go:587, 958, redis.go:136).
TokensOnce == UsedOnce /\ OneLink
=============================================================================
