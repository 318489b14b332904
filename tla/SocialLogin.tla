----------------------------- MODULE SocialLogin -----------------------------
(***************************************************************************)
(* Signing in with Google, Facebook or GitHub: internal/social, and the    *)
(* console's unlinking of a provider.                                      *)
(*                                                                         *)
(* One person, whom every provider reports with the same address, Home.    *)
(* The rows are users and social_accounts; a row of social_accounts has an *)
(* identifier, since Save puts a row back that was deleted after it was    *)
(* read.  The answers of the providers are inputs, what a session is worth *)
(* is in Sessions, and the second factor in SecondFactor.                  *)
(***************************************************************************)
EXTENDS Naturals, FiniteSets

CONSTANTS
  Provider,      \* the providers this instance has configured
  User,          \* identifiers of rows of users, each drawn once
  Token,         \* merge tokens (UUIDs), each drawn once
  Req,           \* slots for requests being served at the same time
  MaxRequests,   \* bound: requests served
  MaxChanges,    \* bound: changes of the account by other handlers
  MaxErrors,     \* bound: statements and commands that fail
  None           \* no user, provider or token

\* What the code lets the constants be.
SocialLoginAssumption ==
  /\ Provider \subseteq {"google", "facebook", "github"}
  /\ None \notin User \cup Token
  /\ MaxRequests \in Nat /\ MaxChanges \in Nat /\ MaxErrors \in Nat

VARIABLES
  users,     \* the rows of users
  social,    \* the row of social_accounts for every provider's identity
  merge,     \* merge_token:{t}
  req,       \* the state of every request slot
  served,    \* requests begun so far
  changes,   \* changes made so far
  errors,    \* statements and commands that have failed so far
  drawn,     \* history: merge tokens drawn, rows of social_accounts inserted
  links,     \* history: how many links a merge token has made
  overlap,   \* history: overlaps the properties make an exception for
  undone,    \* history: users whose row was overwritten with an older copy
  wrong      \* history: users let in although inactive or gone

history == <<drawn, links, overlap, undone, wrong>>
vars == <<users, social, merge, req, served, changes, errors, history>>

UserRow == [status : {"none", "present", "deleted"}, home : BOOLEAN,
            verified : BOOLEAN, active : BOOLEAN, password : BOOLEAN]
Link == [owner : User \cup {None}, row : 0 .. MaxRequests]
NoRow == [status |-> "none", home |-> FALSE, verified |-> FALSE,
          active |-> TRUE, password |-> FALSE]
NoLink == [owner |-> None, row |-> 0]

Steps == {"idle", "away", "find", "save_link", "read_user", "save_user", "find_user",
          "store_merge", "create", "insert_link", "grant", "check", "delete",
          "verify", "drop_token"}
Request ==
  [ pc       : Steps,
    goal     : {"none", "login", "link", "unlink", "merge"},
    provider : {"google", "facebook", "github", None},
    reported : BOOLEAN,             \* the provider says the address is verified
    link     : Link,                \* the row of social_accounts it has read
    user     : User \cup {None},
    copy     : UserRow,             \* the row of users it has read
    token    : Token \cup {None} ]
Idle == [pc |-> "idle", goal |-> "none", provider |-> None, reported |-> FALSE,
         link |-> NoLink, user |-> None, copy |-> NoRow, token |-> None]

Present(u) == users[u].status = "present"
AtHome == {u \in User : Present(u) /\ users[u].home}
Linked(u) == {p \in Provider : social[p].owner = u}
Serving(goals) == {r \in Req : req[r].goal \in goals}

Init ==
  /\ users = [u \in User |-> NoRow]
  /\ social = [p \in Provider |-> NoLink]
  /\ merge = [t \in Token |-> [user |-> None, provider |-> None]]
  /\ req = [r \in Req |-> Idle]
  /\ served = 0 /\ changes = 0 /\ errors = 0
  /\ drawn = [tokens |-> {}, rows |-> 0]
  /\ links = [t \in Token |-> 0]
  /\ overlap = {} /\ undone = {} /\ wrong = {}

\* A request takes a slot.  Overlaps of two confirmations of a token and of
\* two unlinkings are remembered.
Crossed(goal) ==
  (IF goal = "unlink" /\ Serving({"unlink"}) # {} THEN {"unlink"} ELSE {}) \cup
  (IF goal = "merge" /\ Serving({"merge"}) # {} THEN {"merge"} ELSE {})

Begin(r, step, goal, fields) ==
  /\ req[r].pc = "idle" /\ served < MaxRequests
  /\ served' = served + 1
  /\ req' = [req EXCEPT ![r] = [f \in DOMAIN Idle |->
               IF f = "pc" THEN step ELSE IF f = "goal" THEN goal
               ELSE IF f \in DOMAIN fields THEN fields[f] ELSE Idle[f]]]
  /\ overlap' = overlap \cup Crossed(goal)
  /\ UNCHANGED <<users, social, merge, changes, errors, drawn, links, undone,
                 wrong>>

At(r, step) == req[r].pc = step
Goto(r, step) == req' = [req EXCEPT ![r].pc = step]
Finish(r) == req' = [req EXCEPT ![r] = Idle]
Kept == <<served, changes, errors>>

-----------------------------------------------------------------------------
(* Sending the browser to the provider.  The signed state in the URL holds  *)
(* what the callback needs; nothing is stored.                              *)

CreateOAuthState(r, p, goal, u) ==
  p \in Provider /\ Begin(r, "away", goal, [provider |-> p, user |-> u])

GoogleLogin(r) == CreateOAuthState(r, "google", "login", None)
FacebookLogin(r) == CreateOAuthState(r, "facebook", "login", None)
GithubLogin(r) == CreateOAuthState(r, "github", "login", None)

\* The user of the access token wants the provider linked.
GoogleLink(r, u) == Present(u) /\ CreateOAuthState(r, "google", "link", u)
FacebookLink(r, u) == Present(u) /\ CreateOAuthState(r, "facebook", "link", u)
GithubLink(r, u) == Present(u) /\ CreateOAuthState(r, "github", "link", u)

Back(r, goal, p) == At(r, "away") /\ req[r].goal = goal /\ req[r].provider = p

-----------------------------------------------------------------------------
(* The callback of a sign-in                                               *)

\* What a provider can answer: whether the address, Home, is verified.
GoogleAnswers == BOOLEAN
FacebookAnswers == {TRUE}
GithubAnswers == {TRUE}

Callback(r, p, answers) ==
  /\ Back(r, "login", p)
  /\ \E verified \in answers :
       req' = [req EXCEPT ![r].pc = "find", ![r].reported = verified]
  /\ UNCHANGED <<users, social, merge, Kept, history>>

GoogleCallback(r) == Callback(r, "google", GoogleAnswers)
FacebookCallback(r) == Callback(r, "facebook", FacebookAnswers)
GithubCallback(r) == Callback(r, "github", GithubAnswers)

FindSocialAccount(r) ==
  LET link == social[req[r].provider] IN
  /\ At(r, "find")
  /\ req' = IF link.owner = None THEN [req EXCEPT ![r].pc = "find_user"]
            ELSE [req EXCEPT ![r].pc = "save_link", ![r].link = link,
                             ![r].user = link.owner]
  /\ UNCHANGED <<users, social, merge, Kept, history>>

\* Another login of the provider has found no row, and r inserts one now.
Late(r, p) ==
  IF \E s \in Serving({"login"}) \ {r} : req[s].provider = p
       /\ req[s].pc \in {"find_user", "create", "insert_link"}
    THEN {"link"} ELSE {}

\* Save: UPDATE by identifier and, when no row has it, INSERT, which the
\* unique index and the foreign key can refuse.
SaveSocialAccount(r) ==
  LET p == req[r].provider  link == req[r].link IN
  /\ At(r, "save_link")
  /\ \/ social[p] = link /\ Goto(r, "read_user") /\ UNCHANGED <<social, overlap>>
     \/ /\ social[p] = NoLink /\ Present(link.owner)
        /\ social' = [social EXCEPT ![p] = link]
        /\ overlap' = overlap \cup Late(r, p)
        /\ Goto(r, "read_user")
     \/ /\ social[p] # link /\ (social[p] # NoLink \/ ~Present(link.owner))
        /\ Finish(r) /\ UNCHANGED <<social, overlap>>
  /\ UNCHANGED <<users, merge, Kept, drawn, links, undone, wrong>>

\* The row as the provider's answer changes it, whatever its address is now.
GoogleProfile(row, reported) == [row EXCEPT !.verified = reported]
FacebookProfile(row) == [row EXCEPT !.verified = TRUE]
GithubProfile(row) == [row EXCEPT !.verified = TRUE]

Synced(p, row, reported) ==
  CASE p = "google" -> GoogleProfile(row, reported)
    [] p = "facebook" -> FacebookProfile(row)
    [] p = "github" -> GithubProfile(row)

\* Mutant of ReadUser: an inactive user goes on.
ReadUserUnchecked(r) ==
  /\ At(r, "read_user")
  /\ Goto(r, "grant")
  /\ UNCHANGED <<users, social, merge, Kept, history>>

\* A user that is not found is no error here; an inactive one is.  The name
\* and the picture may have changed as well.
ReadUser(r) ==
  LET u == req[r].user  row == users[u] IN
  /\ At(r, "read_user")
  /\ \E renamed \in BOOLEAN :
       IF ~Present(u) THEN Goto(r, "grant")
       ELSE IF ~row.active THEN Finish(r)
       ELSE IF ~renamed /\ Synced(req[r].provider, row, req[r].reported) = row
       THEN Goto(r, "grant")
       ELSE req' = [req EXCEPT ![r].pc = "save_user", ![r].copy = row]
  /\ UNCHANGED <<users, social, merge, Kept, history>>

\* Save writes every column of the copy, and inserts it if the row is gone.
UpdateUser(r) ==
  LET u == req[r].user
      row == Synced(req[r].provider, req[r].copy, req[r].reported)
      refused == row.home /\ AtHome \ {u} # {} IN
  /\ At(r, "save_user")
  /\ users' = IF refused THEN users ELSE [users EXCEPT ![u] = row]
  /\ undone' = IF ~refused /\ users[u] # req[r].copy THEN undone \cup {u} ELSE undone
  /\ Goto(r, "grant")
  /\ UNCHANGED <<social, merge, Kept, drawn, links, overlap, wrong>>

FindUserByEmail(r) ==
  /\ At(r, "find_user")
  /\ IF AtHome = {} THEN Goto(r, "create")
     ELSE \E u \in AtHome :
            IF users[u].active
              THEN req' = [req EXCEPT ![r].pc = "store_merge", ![r].user = u]
              ELSE Finish(r)
  /\ UNCHANGED <<users, social, merge, Kept, history>>

CreateMergeToken(r) ==
  /\ At(r, "store_merge")
  /\ \E t \in Token \ drawn.tokens :
       /\ merge' = [merge EXCEPT ![t] =
                      [user |-> req[r].user, provider |-> req[r].provider]]
       /\ drawn' = [drawn EXCEPT !.tokens = @ \cup {t}]
  /\ Finish(r)
  /\ UNCHANGED <<users, social, Kept, links, overlap, undone, wrong>>

\* The unique index on the address refuses a second row.
CreateUser(r) ==
  /\ At(r, "create")
  /\ IF AtHome # {} THEN Finish(r) /\ UNCHANGED users
     ELSE \E u \in User :
            /\ users[u].status = "none"
            /\ users' = [users EXCEPT ![u] =
                 Synced(req[r].provider,
                        [NoRow EXCEPT !.status = "present", !.home = TRUE],
                        req[r].reported)]
            /\ req' = [req EXCEPT ![r].pc = "insert_link", ![r].user = u]
  /\ UNCHANGED <<social, merge, Kept, history>>

AfterInsert == [login |-> "grant", link |-> "idle", merge |-> "drop_token"]

\* The unique index on the identity and the foreign key can refuse the row.
CreateSocialAccount(r) ==
  LET p == req[r].provider  t == req[r].token  goal == req[r].goal IN
  /\ At(r, "insert_link")
  /\ IF social[p] # NoLink \/ ~Present(req[r].user)
       THEN Finish(r) /\ UNCHANGED <<social, drawn, links, overlap>>
       ELSE /\ social' = [social EXCEPT ![p] =
                            [owner |-> req[r].user, row |-> drawn.rows + 1]]
            /\ drawn' = [drawn EXCEPT !.rows = @ + 1]
            /\ links' = IF goal = "merge" THEN [links EXCEPT ![t] = @ + 1] ELSE links
            /\ overlap' = overlap \cup Late(r, p)
            /\ IF AfterInsert[goal] = "idle" THEN Finish(r)
               ELSE Goto(r, AfterInsert[goal])
  /\ UNCHANGED <<users, merge, Kept, undone, wrong>>

\* The handler reads the user and creates a session; ConfirmMerge does so
\* without reading it again.
CreateSessionOrTokens(r) ==
  LET u == req[r].user IN
  /\ At(r, "grant")
  /\ wrong' = IF (Present(u) \/ req[r].goal = "merge")
                   /\ ~(Present(u) /\ users[u].active)
                THEN wrong \cup {u} ELSE wrong
  /\ Finish(r)
  /\ UNCHANGED <<users, social, merge, Kept, drawn, links, overlap, undone>>

-----------------------------------------------------------------------------
(* Linking, unlinking and merging                                          *)

\* Only an identity that no user is linked to.
LinkCallback(r, p) ==
  /\ Back(r, "link", p)
  /\ IF social[p] = NoLink THEN Goto(r, "insert_link") ELSE Finish(r)
  /\ UNCHANGED <<users, social, merge, Kept, history>>

HandleFacebookLinkCallback(r) == LinkCallback(r, "facebook")
HandleGithubLinkCallback(r) == LinkCallback(r, "github")

GoogleLinkCallback(r) == LinkCallback(r, "google")
FacebookLinkCallback(r) == HandleFacebookLinkCallback(r)
GithubLinkCallback(r) == HandleGithubLinkCallback(r)

\* Mutant of Removable: the last one may go, too.
RemovableLast(u) == users[u].password \/ Linked(u) # {}

\* A way to sign in must remain.
Removable(u) == users[u].password \/ Cardinality(Linked(u)) > 1

Unlink(r, p) ==
  /\ social[p] # NoLink /\ Present(social[p].owner)
  /\ Begin(r, "check", "unlink", [provider |-> p, link |-> social[p],
                                  user |-> social[p].owner])

UnlinkSocialAccount(r, p) == Unlink(r, p)   \* by the user
SocialAccountUnlink(r, p) == Unlink(r, p)   \* by an administrator

CountSocialAccounts(r) ==
  LET u == req[r].user IN
  /\ At(r, "check")
  /\ IF Present(u) /\ Removable(u) THEN Goto(r, "delete") ELSE Finish(r)
  /\ UNCHANGED <<users, social, merge, Kept, history>>

DeleteSocialAccount(r) ==
  LET p == req[r].provider IN
  /\ At(r, "delete")
  /\ social' = IF social[p].row = req[r].link.row
                 THEN [social EXCEPT ![p] = NoLink] ELSE social
  /\ Finish(r)
  /\ UNCHANGED <<users, merge, Kept, history>>

\* The merge token, then the user, with the right password.
ConfirmMerge(r, t) ==
  /\ merge[t].user # None
  /\ Begin(r, "verify", "merge",
           [token |-> t, user |-> merge[t].user, provider |-> merge[t].provider])

VerifyOwner(r) ==
  LET row == users[req[r].user] IN
  /\ At(r, "verify")
  /\ IF row.status = "present" /\ row.active /\ row.password
       THEN Goto(r, "insert_link") ELSE Finish(r)
  /\ UNCHANGED <<users, social, merge, Kept, history>>

\* Mutant of DeleteMergeToken: the token is left to expire.
DeleteMergeTokenOmitted(r) ==
  /\ At(r, "drop_token")
  /\ Goto(r, "grant")
  /\ UNCHANGED <<users, social, merge, Kept, history>>

NoMerge == [user |-> None, provider |-> None]
DeleteMergeToken(r) ==
  /\ At(r, "drop_token")
  /\ merge' = [merge EXCEPT ![req[r].token] = NoMerge]
  /\ Goto(r, "grant")
  /\ UNCHANGED <<users, social, Kept, history>>

MergeTokenExpires(t) ==
  /\ merge[t] # NoMerge
  /\ merge' = [merge EXCEPT ![t] = NoMerge]
  /\ UNCHANGED <<users, social, req, Kept, history>>

-----------------------------------------------------------------------------
(* What other handlers do to the row meanwhile, one statement each.  A      *)
(* login or a merge under way is remembered.                                *)

Change(u) ==
  /\ changes < MaxChanges
  /\ changes' = changes + 1
  /\ overlap' = overlap \cup
       (IF \E r \in Serving({"login", "merge"}) : req[r].user = u
          THEN {"change"} ELSE {})
  /\ UNCHANGED <<merge, req, served, errors, drawn, links, undone, wrong>>

RegisterUser(u) ==
  /\ Change(u) /\ users[u].status = "none" /\ AtHome = {}
  /\ users' = [users EXCEPT ![u] = [NoRow EXCEPT !.status = "present",
                                     !.home = TRUE, !.password = TRUE]]
  /\ UNCHANGED social

SetInitialPassword(u) ==
  /\ Change(u) /\ Present(u) /\ ~users[u].password
  /\ users' = [users EXCEPT ![u].password = TRUE] /\ UNCHANGED social

UpdateUserEmail(u) ==
  /\ Change(u) /\ Present(u) /\ users[u].password
  /\ users' = [users EXCEPT ![u].home = FALSE, ![u].verified = FALSE]
  /\ UNCHANGED social

ToggleUserActive(u) ==
  /\ Change(u) /\ Present(u)
  /\ users' = [users EXCEPT ![u].active = ~@] /\ UNCHANGED social

\* Mutant of LinksWithout: the links are left to a foreign key that does not cascade.
LinksWithoutNone(u) == social

LinksWithout(u) == [p \in Provider |-> IF social[p].owner = u THEN NoLink ELSE social[p]]

DeleteUser(u) ==
  /\ Change(u) /\ Present(u)
  /\ users' = [users EXCEPT ![u] = [NoRow EXCEPT !.status = "deleted"]]
  /\ social' = LinksWithout(u)

-----------------------------------------------------------------------------
\* A statement or a command fails.  A read that fails counts as a row that is
\* not there, and the Save of the profile and the DEL of the token are best
\* effort; other failures end the request.
AfterFailure == [find |-> "find_user", read_user |-> "grant",
                 find_user |-> "create", save_user |-> "grant",
                 drop_token |-> "grant"]

Fail(r) ==
  /\ errors < MaxErrors /\ req[r].pc # "idle"
  /\ errors' = errors + 1
  /\ IF req[r].pc \in DOMAIN AfterFailure THEN Goto(r, AfterFailure[req[r].pc])
     ELSE Finish(r)
  /\ UNCHANGED <<users, social, merge, served, changes, history>>

Serve(r) ==
  \/ GoogleLogin(r) \/ FacebookLogin(r) \/ GithubLogin(r)
  \/ GoogleCallback(r) \/ FacebookCallback(r) \/ GithubCallback(r)
  \/ FindSocialAccount(r) \/ SaveSocialAccount(r) \/ ReadUser(r) \/ UpdateUser(r)
  \/ FindUserByEmail(r) \/ CreateMergeToken(r) \/ CreateUser(r)
  \/ CreateSocialAccount(r) \/ CreateSessionOrTokens(r)
  \/ \E u \in User : GoogleLink(r, u) \/ FacebookLink(r, u) \/ GithubLink(r, u)
  \/ GoogleLinkCallback(r) \/ FacebookLinkCallback(r) \/ GithubLinkCallback(r)
  \/ \E p \in Provider : UnlinkSocialAccount(r, p) \/ SocialAccountUnlink(r, p)
  \/ CountSocialAccounts(r) \/ DeleteSocialAccount(r)
  \/ \E t \in Token : ConfirmMerge(r, t)
  \/ VerifyOwner(r) \/ DeleteMergeToken(r) \/ Fail(r)

Next ==
  \/ \E r \in Req : Serve(r)
  \/ \E t \in Token : MergeTokenExpires(t)
  \/ \E u \in User : RegisterUser(u) \/ SetInitialPassword(u) \/ UpdateUserEmail(u)
                       \/ ToggleUserActive(u) \/ DeleteUser(u)

Spec == Init /\ [][Next]_vars

-----------------------------------------------------------------------------
(* Properties                                                              *)

\* Every variable keeps the shape its row, key or request has in the code, and
\* an identity belongs to a user whose row is there.
TypeOK ==
  /\ users \in [User -> UserRow]
  /\ social \in [Provider -> Link]
  /\ \A p \in Provider : social[p] # NoLink => Present(social[p].owner)
  /\ merge \in [Token -> [user : User \cup {None}, provider : Provider \cup {None}]]
  /\ req \in [Req -> Request]
  /\ served \in 0 .. MaxRequests /\ changes \in 0 .. MaxChanges
  /\ errors \in 0 .. MaxErrors
  /\ links \in [Token -> 0 .. MaxRequests]
  /\ undone \subseteq User /\ wrong \subseteq User

\* service.go:640: an account keeps a way to sign in, a password or a provider,
\* unless two unlinkings overlapped, the identity was linked elsewhere after
\* the login that created this one had looked for it, a copy of an older row
\* was written over it, or a statement failed.  An account being created gets
\* its link next.
LastMethodKept ==
  \A u \in User : Present(u) =>
    \/ users[u].password \/ Linked(u) # {}
    \/ \E r \in Req : At(r, "insert_link") /\ req[r].user = u
    \/ overlap \cap {"unlink", "link"} # {} \/ u \in undone \/ errors > 0

\* service.go:1020: a merge token links an identity once, unless it was
\* confirmed twice at the same time or the command that consumes it failed.
MergedOnce == \A t \in Token : links[t] > 1 => "merge" \in overlap \/ errors > 0

\* service.go:195: nobody is let in who was deactivated or deleted before the
\* request began, unless a read failed, which counts as a missing row.
InactiveKeptOut == wrong # {} => "change" \in overlap \/ errors > 0

\* The owner of an account, and nobody else, keeps a way in (service.go:195, 640, 1020).
OwnersIn == TypeOK /\ LastMethodKept /\ MergedOnce /\ InactiveKeptOut
=============================================================================
