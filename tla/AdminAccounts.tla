---------------------------- MODULE AdminAccounts ----------------------------
(***************************************************************************)
(* The account of one administrator and the ways into the console:         *)
(* internal/admin/account_service.go, account_repository.go and the        *)
(* console's handlers for them.                                            *)
(*                                                                         *)
(* Secrets, tokens, codes sent by mail and session identifiers are drawn   *)
(* at random and are numbered in the order they are drawn.  Whoever enters *)
(* a code or a password knows it.                                          *)
(***************************************************************************)
EXTENDS Naturals, FiniteSets

CONSTANTS
  MaxIds,        \* bound: secrets, tokens and identifiers drawn
  Req,           \* slots for requests being served at the same time
  MaxRequests,   \* bound: requests of several commands, and failures
  MaxErrors,     \* bound: statements and commands that fail
  None           \* no identifier

\* What the code lets the constants be.
AdminAccountsAssumption ==
  /\ None \notin Nat
  /\ MaxIds \in Nat /\ MaxIds >= 2 /\ MaxRequests \in Nat /\ MaxErrors \in Nat

VARIABLES
  account,     \* the row of admin_accounts
  secret,      \* admin:2fa_temp_secret:{admin}
  pending,     \* admin:2fa_temp_session:{t}
  mailed,      \* admin:2fa_email:{admin}
  magic,       \* admin:magic_link:{t}
  latest,      \* admin:magic_link_user:{admin}
  sessions,    \* admin:session:{s}
  csrf,        \* the CSRF token of every session
  drawn,       \* how many identifiers have been drawn
  req,         \* the state of every request slot
  served,      \* requests begun so far
  errors,      \* statements and commands that have failed so far
  proven,      \* history: secrets an authenticator showed a code of
  sets,        \* history: sets of recovery codes generated
  opened,      \* history: sessions opened by a pending login or a link
  spent,       \* history: recovery codes accepted
  again,       \* history: recovery codes accepted again or after a newer set
  pages,       \* history: CSRF tokens written into pages of a session
  overlap      \* history: overlaps the properties make an exception for

history == <<proven, sets, opened, spent, again, pages, overlap>>
login == <<pending, mailed, magic, latest, sessions, csrf>>
vars == <<account, secret, login, drawn, req, served, errors, history>>

Id == 1 .. MaxIds

\* A recovery code: the set it was generated in, and which of two it is.
Codes(n) == {n} \X {1, 2}
Account == [method : {"off", "totp", "email"}, secret : Id \cup {None},
            codes : SUBSET UNION {Codes(n) : n \in 1 .. MaxRequests},
            address : BOOLEAN, links : BOOLEAN]
Steps == {"idle", "temp", "mail", "verify", "rewrite", "drop_code", "consume",
          "open", "link_get", "link_old", "link_put", "link_user", "peek",
          "drop_user", "drop_link", "csrf_get", "csrf_set", "enable", "store",
          "forget", "regenerate", "toggle"}
Request == [pc : Steps, id : Id \cup {None}, method : {"off", "totp", "email"},
            codes : SUBSET UNION {Codes(n) : n \in 1 .. MaxRequests},
            secret : Id \cup {None}, flag : BOOLEAN]
Idle == [pc |-> "idle", id |-> None, method |-> "off", codes |-> {},
         secret |-> None, flag |-> FALSE]

\* The administrator is on a page of a first session.
Init ==
  /\ account = [method |-> "off", secret |-> None, codes |-> {},
                address |-> FALSE, links |-> FALSE]
  /\ secret = None /\ pending = {} /\ mailed = None /\ magic = {} /\ latest = None
  /\ sessions = {1} /\ csrf = [s \in Id |-> IF s = 1 THEN 2 ELSE None] /\ drawn = 2
  /\ req = [r \in Req |-> Idle] /\ served = 0 /\ errors = 0
  /\ proven = {} /\ sets = 0 /\ opened = [t \in Id |-> 0]
  /\ spent = {} /\ again = {} /\ overlap = {}
  /\ pages = [s \in Id |-> IF s = 1 THEN {2} ELSE {}]

At(r, step) == req[r].pc = step
Goto(r, step) == req' = [req EXCEPT ![r].pc = step]
Finish(r) == req' = [req EXCEPT ![r] = Idle]
Draw(i) == i = drawn + 1 /\ drawn' = i
Serving(steps) == \E r \in Req : req[r].pc \in steps
Note(tag, condition) == overlap' = IF condition THEN overlap \cup {tag} ELSE overlap

\* A request that is begun at the step that first says.
Begin(r, first) ==
  /\ At(r, "idle") /\ served + errors < MaxRequests
  /\ served' = served + 1 /\ req' = [req EXCEPT ![r] = first]
  /\ UNCHANGED <<account, secret, login, drawn, errors, proven, sets, opened,
                 spent, again, pages>>

-----------------------------------------------------------------------------
(* Signing in with the password and the second factor                      *)

\* The right password.  The row says whether a second factor follows.
LoginSubmit(r) ==
  /\ Begin(r, [Idle EXCEPT !.pc = IF account.method = "off" THEN "open" ELSE "temp",
                           !.method = account.method])
  /\ UNCHANGED overlap

Create2FATempSession(r) ==
  /\ At(r, "temp")
  /\ \E t \in Id : Draw(t) /\ pending' = pending \cup {t}
  /\ IF req[r].method = "email" THEN Goto(r, "mail") ELSE Finish(r)
  /\ UNCHANGED <<account, secret, mailed, magic, latest, sessions, csrf, served,
                 errors, history>>

GenerateAndSendEmail2FACode(r) ==
  /\ At(r, "mail")
  /\ \E c \in Id : Draw(c) /\ mailed' = c
  /\ Finish(r)
  /\ UNCHANGED <<account, secret, pending, magic, latest, sessions, csrf, served,
                 errors, history>>

TwoFAResendEmail(r) ==
  /\ pending # {} /\ account.address /\ Begin(r, [Idle EXCEPT !.pc = "mail"])
  /\ UNCHANGED overlap

\* A pending login is looked up; it is deleted when the code was right.
TwoFAVerifySubmit(r, t) ==
  /\ t \in pending /\ Begin(r, [Idle EXCEPT !.pc = "verify", !.id = t])
  /\ Note("pending", \E s \in Req : req[s].id = t)

VerifyTOTPCode(r) ==
  /\ At(r, "verify") /\ account.method = "totp"
  /\ Goto(r, "consume")
  /\ UNCHANGED <<account, secret, login, drawn, served, errors, history>>

VerifyEmail2FACode(r) ==
  /\ At(r, "verify") /\ mailed # None
  /\ Goto(r, "drop_code")
  /\ UNCHANGED <<account, secret, login, drawn, served, errors, history>>

DeleteAdmin2FAEmailCode(r) ==
  /\ At(r, "drop_code")
  /\ mailed' = None /\ Goto(r, "consume")
  /\ UNCHANGED <<account, secret, pending, magic, latest, sessions, csrf, drawn,
                 served, errors, history>>

\* Mutant of CodesLeft: the code that was used stays in the list.
CodesLeftAll(codes, c) == codes

CodesLeft(codes, c) == codes \ {c}

\* Another request holds a list of codes that it has read and will write.
StaleList(r) == \E s \in Req \ {r} : At(s, "rewrite")

\* A code of the list that was read; the list without it is written back.
VerifyRecoveryCode(r) ==
  /\ At(r, "verify") /\ account.method # "off"
  /\ \E c \in account.codes :
       /\ req' = [req EXCEPT ![r].pc = "rewrite",
                             ![r].codes = CodesLeft(account.codes, c)]
       /\ spent' = spent \cup {c}
       /\ again' = IF c \in spent \/ c[1] # sets THEN again \cup {c} ELSE again
  /\ Note("codes", StaleList(r))
  /\ UNCHANGED <<account, secret, login, drawn, served, errors, proven, sets,
                 opened, pages>>

WrongCode(r) ==
  /\ At(r, "verify") /\ Finish(r)
  /\ UNCHANGED <<account, secret, login, drawn, served, errors, history>>

UpdateRecoveryCodes(r) ==
  /\ At(r, "rewrite")
  /\ account' = [account EXCEPT !.codes = req[r].codes]
  /\ Goto(r, "consume")
  /\ UNCHANGED <<secret, login, drawn, served, errors, history>>

\* Mutant of Consume2FATempSession: the pending login is left to expire.
ConsumeOmitted(r) ==
  /\ At(r, "consume") /\ Goto(r, "open")
  /\ UNCHANGED <<account, secret, login, drawn, served, errors, history>>

Consume2FATempSession(r) ==
  /\ At(r, "consume")
  /\ pending' = pending \ {req[r].id} /\ Goto(r, "open")
  /\ UNCHANGED <<account, secret, mailed, magic, latest, sessions, csrf, drawn,
                 served, errors, history>>

CreateSession(r) ==
  /\ At(r, "open")
  /\ \E s \in Id : Draw(s) /\ sessions' = sessions \cup {s}
  /\ opened' = IF req[r].id = None THEN opened
               ELSE [opened EXCEPT ![req[r].id] = @ + 1]
  /\ Finish(r)
  /\ UNCHANGED <<account, secret, pending, mailed, magic, latest, csrf, served,
                 errors, proven, sets, spent, again, pages, overlap>>

Logout(s) ==
  /\ s \in sessions /\ sessions' = sessions \ {s}
  /\ UNCHANGED <<account, secret, pending, mailed, magic, latest, csrf, drawn, req,
                 served, errors, history>>

-----------------------------------------------------------------------------
(* Signing in with a link                                                  *)

MagicLinkLoginRequest(r) ==
  /\ account.links /\ account.address /\ Begin(r, [Idle EXCEPT !.pc = "link_get"])
  /\ Note("link", Serving({"link_get", "link_old", "link_put", "link_user", "peek",
                           "drop_user", "drop_link"}))

\* GET of the link sent last.
SetAdminMagicLinkToken(r) ==
  /\ At(r, "link_get")
  /\ req' = [req EXCEPT ![r].pc = IF latest = None THEN "link_put" ELSE "link_old",
                        ![r].id = latest]
  /\ UNCHANGED <<account, secret, login, drawn, served, errors, history>>

\* Mutant of DropOldLink: only the pointer to it is replaced.
DropOldLinkOmitted(r) ==
  /\ At(r, "link_old") /\ Goto(r, "link_put")
  /\ UNCHANGED <<account, secret, login, drawn, served, errors, history>>

DropOldLink(r) ==
  /\ At(r, "link_old")
  /\ magic' = magic \ {req[r].id} /\ Goto(r, "link_put")
  /\ UNCHANGED <<account, secret, pending, mailed, latest, sessions, csrf, drawn,
                 served, errors, history>>

PutLink(r) ==
  /\ At(r, "link_put")
  /\ \E t \in Id : /\ Draw(t) /\ magic' = magic \cup {t}
                   /\ req' = [req EXCEPT ![r].pc = "link_user", ![r].id = t]
  /\ UNCHANGED <<account, secret, pending, mailed, latest, sessions, csrf, served,
                 errors, history>>

PutLatest(r) ==
  /\ At(r, "link_user")
  /\ latest' = req[r].id /\ Finish(r)
  /\ UNCHANGED <<account, secret, pending, mailed, magic, sessions, csrf, drawn,
                 served, errors, history>>

\* The link is looked up, whether or not links are still enabled.
MagicLinkLoginVerify(r, t) ==
  /\ t \in magic /\ Begin(r, [Idle EXCEPT !.pc = "peek", !.id = t])
  /\ overlap' = overlap \cup
       (IF \E s \in Req : req[s].id = t THEN {"pending"} ELSE {}) \cup
       (IF Serving({"link_get", "link_old", "link_put", "link_user", "peek",
                    "drop_user", "drop_link"}) THEN {"link"} ELSE {})

\* DeleteAdminMagicLinkToken: GET, DEL of the pointer, DEL of the link.
PeekLink(r) ==
  /\ At(r, "peek")
  /\ Goto(r, IF req[r].id \in magic THEN "drop_user" ELSE "drop_link")
  /\ UNCHANGED <<account, secret, login, drawn, served, errors, history>>

DropLatest(r) ==
  /\ At(r, "drop_user")
  /\ latest' = None /\ Goto(r, "drop_link")
  /\ UNCHANGED <<account, secret, pending, mailed, magic, sessions, csrf, drawn,
                 served, errors, history>>

DropLink(r) ==
  /\ At(r, "drop_link")
  /\ magic' = magic \ {req[r].id} /\ Goto(r, "open")
  /\ UNCHANGED <<account, secret, pending, mailed, latest, sessions, csrf, drawn,
                 served, errors, history>>

-----------------------------------------------------------------------------
(* The CSRF token of a session                                             *)

ValidateSession(s) == s \in sessions
ValidateCSRFToken(s, c) == csrf[s] = c

GUIAuthMiddleware(s) == ValidateSession(s)
CSRFMiddleware(s, c) == ValidateCSRFToken(s, c)

\* A form of a page of the console.
Posted ==
  \E s \in Id : GUIAuthMiddleware(s) /\ \E c \in pages[s] : CSRFMiddleware(s, c)

ServePage(r, s) ==
  /\ GUIAuthMiddleware(s) /\ Begin(r, [Idle EXCEPT !.pc = "csrf_get", !.id = s])
  /\ Note("page", \E q \in Req : req[q].id = s)

\* Mutant of GenerateCSRFToken: a new token for every page.
GenerateCSRFTokenAlways(r) ==
  /\ At(r, "csrf_get") /\ Goto(r, "csrf_set")
  /\ UNCHANGED <<account, secret, login, drawn, served, errors, history>>

GenerateCSRFToken(r) ==
  LET s == req[r].id IN
  /\ At(r, "csrf_get")
  /\ IF csrf[s] = None THEN Goto(r, "csrf_set") /\ UNCHANGED pages
     ELSE Finish(r) /\ pages' = [pages EXCEPT ![s] = @ \cup {csrf[s]}]
  /\ UNCHANGED <<account, secret, login, drawn, served, errors, proven, sets,
                 opened, spent, again, overlap>>

SetCSRFToken(r) ==
  LET s == req[r].id IN
  /\ At(r, "csrf_set")
  /\ \E c \in Id : /\ Draw(c) /\ csrf' = [csrf EXCEPT ![s] = c]
                   /\ pages' = [pages EXCEPT ![s] = @ \cup {c}]
  /\ Finish(r)
  /\ UNCHANGED <<account, secret, pending, mailed, magic, latest, sessions, served,
                 errors, proven, sets, opened, spent, again, overlap>>

-----------------------------------------------------------------------------
(* The administrator's settings                                            *)

GenerateTOTPSecret ==
  /\ \E i \in Id : Draw(i) /\ secret' = i
  /\ Note("setup", Serving({"enable"}))
  /\ UNCHANGED <<account, login, req, served, errors, proven, sets, opened, spent,
                 again, pages>>

MyAccount2FAGenerateTOTP == Posted /\ GenerateTOTPSecret

\* A code of the authenticator is compared with the stored secret, which
\* EnableTOTP then reads once more.
VerifyTOTPSetup(r, shown) ==
  /\ secret # None /\ shown = secret
  /\ At(r, "idle") /\ served + errors < MaxRequests /\ served' = served + 1
  /\ req' = [req EXCEPT ![r].pc = "enable"]
  /\ proven' = proven \cup {shown}
  /\ UNCHANGED <<account, secret, login, drawn, errors, sets, opened, spent, again,
                 pages, overlap>>

\* Mutant of EnableTOTP: a key that has expired counts as no secret.
EnableTOTPUnchecked(r) ==
  /\ At(r, "enable")
  /\ req' = [req EXCEPT ![r].pc = "store", ![r].method = "totp", ![r].secret = secret]
  /\ UNCHANGED <<account, secret, login, drawn, served, errors, history>>

EnableTOTP(r) ==
  /\ At(r, "enable")
  /\ IF secret = None THEN Finish(r)
     ELSE req' = [req EXCEPT ![r].pc = "store", ![r].method = "totp",
                             ![r].secret = secret]
  /\ UNCHANGED <<account, secret, login, drawn, served, errors, history>>

MyAccount2FAVerifyTOTP(r, shown) == Posted /\ VerifyTOTPSetup(r, shown)

EnableEmail2FA(r) ==
  /\ account.address /\ Begin(r, [Idle EXCEPT !.pc = "store", !.method = "email"])
  /\ UNCHANGED overlap

MyAccount2FAEnableEmail(r) == Posted /\ EnableEmail2FA(r)

Enable2FA(r) ==
  /\ At(r, "store")
  /\ account' = [account EXCEPT !.method = req[r].method, !.secret = req[r].secret,
                                !.codes = Codes(sets + 1)]
  /\ sets' = sets + 1 /\ Note("codes", StaleList(r))
  /\ IF req[r].method = "totp" THEN Goto(r, "forget") ELSE Finish(r)
  /\ UNCHANGED <<secret, login, drawn, served, errors, proven, opened, spent, again,
                 pages>>

DeleteAdmin2FATempSecret(r) ==
  /\ At(r, "forget") /\ secret' = None /\ Finish(r)
  /\ UNCHANGED <<account, login, drawn, served, errors, history>>

Disable2FA ==
  /\ account.method # "off"
  /\ account' = [account EXCEPT !.method = "off", !.secret = None, !.codes = {}]
  /\ UNCHANGED <<secret, login, drawn, req, served, errors, history>>

MyAccount2FADisable == Posted /\ Disable2FA

\* The row is read; then a new set is written.
RegenerateRecoveryCodes(r) ==
  /\ Posted /\ account.method # "off" /\ Begin(r, [Idle EXCEPT !.pc = "regenerate"])
  /\ UNCHANGED overlap

StoreRecoveryCodes(r) ==
  /\ At(r, "regenerate")
  /\ account' = [account EXCEPT !.codes = Codes(sets + 1)]
  /\ sets' = sets + 1 /\ Note("codes", StaleList(r))
  /\ Finish(r)
  /\ UNCHANGED <<secret, login, drawn, served, errors, proven, opened, spent, again,
                 pages>>

UpdateEmail ==
  /\ Posted /\ ~account.address /\ account' = [account EXCEPT !.address = TRUE]
  /\ UNCHANGED <<secret, login, drawn, req, served, errors, history>>

MyAccountMagicLinkToggle(r) ==
  /\ Posted /\ (account.links \/ account.address)
  /\ Begin(r, [Idle EXCEPT !.pc = "toggle", !.flag = ~account.links])
  /\ UNCHANGED overlap

UpdateMagicLinkEnabled(r) ==
  /\ At(r, "toggle")
  /\ account' = [account EXCEPT !.links = req[r].flag] /\ Finish(r)
  /\ UNCHANGED <<secret, login, drawn, served, errors, history>>

-----------------------------------------------------------------------------
\* The keys expire; the pointer to a link was set after it.
Expire ==
  /\ \/ secret # None /\ secret' = None /\ UNCHANGED <<mailed, magic, latest>>
     \/ mailed # None /\ mailed' = None /\ UNCHANGED <<secret, magic, latest>>
     \/ magic # {} /\ magic' = {} /\ UNCHANGED <<secret, mailed, latest>>
     \/ magic = {} /\ latest # None /\ latest' = None
        /\ UNCHANGED <<secret, mailed, magic>>
  /\ UNCHANGED <<account, pending, sessions, csrf, drawn, req, served, errors, history>>

\* A statement or a command fails.  What the code ignores leads on.
AfterFailure == [drop_code |-> "consume", consume |-> "open", link_get |-> "link_put",
                 link_old |-> "link_put", peek |-> "drop_link",
                 drop_user |-> "drop_link", drop_link |-> "open",
                 csrf_get |-> "csrf_set"]

Fail(r) ==
  /\ errors < MaxErrors /\ ~At(r, "idle")
  /\ errors' = errors + 1
  /\ IF req[r].pc \in DOMAIN AfterFailure THEN Goto(r, AfterFailure[req[r].pc])
     ELSE Finish(r)
  /\ UNCHANGED <<account, secret, login, drawn, served, history>>

Serve(r) ==
  \/ LoginSubmit(r) \/ Create2FATempSession(r) \/ GenerateAndSendEmail2FACode(r)
  \/ TwoFAResendEmail(r) \/ VerifyTOTPCode(r) \/ VerifyEmail2FACode(r)
  \/ \E i \in Id : \/ TwoFAVerifySubmit(r, i) \/ MagicLinkLoginVerify(r, i)
                   \/ ServePage(r, i) \/ MyAccount2FAVerifyTOTP(r, i)
  \/ DeleteAdmin2FAEmailCode(r) \/ VerifyRecoveryCode(r) \/ WrongCode(r)
  \/ UpdateRecoveryCodes(r) \/ Consume2FATempSession(r) \/ CreateSession(r)
  \/ MagicLinkLoginRequest(r) \/ SetAdminMagicLinkToken(r) \/ DropOldLink(r)
  \/ PutLink(r) \/ PutLatest(r) \/ PeekLink(r) \/ DropLatest(r) \/ DropLink(r)
  \/ GenerateCSRFToken(r) \/ SetCSRFToken(r)
  \/ EnableTOTP(r) \/ MyAccount2FAEnableEmail(r) \/ Enable2FA(r)
  \/ DeleteAdmin2FATempSecret(r)
  \/ RegenerateRecoveryCodes(r) \/ StoreRecoveryCodes(r)
  \/ MyAccountMagicLinkToggle(r) \/ UpdateMagicLinkEnabled(r) \/ Fail(r)

Next ==
  \/ \E r \in Req : Serve(r)
  \/ MyAccount2FAGenerateTOTP \/ MyAccount2FADisable \/ UpdateEmail \/ Expire
  \/ \E s \in Id : Logout(s)

Spec == Init /\ [][Next]_vars

-----------------------------------------------------------------------------
(* Properties                                                              *)

\* Every variable keeps the shape its row, key or request has in the code.
TypeOK ==
  /\ account \in Account /\ secret \in Id \cup {None} /\ pending \subseteq Id
  /\ mailed \in Id \cup {None} /\ magic \subseteq Id /\ latest \in Id \cup {None}
  /\ sessions \subseteq Id /\ csrf \in [Id -> Id \cup {None}] /\ drawn \in 0 .. MaxIds
  /\ req \in [Req -> Request]
  /\ served \in 0 .. MaxRequests /\ errors \in 0 .. MaxErrors

\* account_service.go:220, 236: a second factor that asks for codes of an
\* authenticator has a secret of which it has shown one, unless a new QR code
\* was made between the verification and the second reading of the secret.
FactorProven ==
  account.method = "totp" => account.secret \in proven \/ "setup" \in overlap

\* account_service.go:355: a recovery code is accepted once, and not after a
\* newer set was generated, unless two requests wrote the list over each other
\* or the write failed.
RecoveredOnce == again # {} => "codes" \in overlap \/ errors > 0

\* account_service.go:107, gui_handler.go:5427: a pending login and a link open
\* one session each, unless two requests used one at the same time or the
\* command that deletes it failed.
OpenedOnce ==
  \A t \in Id : opened[t] > 1 => "pending" \in overlap \/ errors > 0

\* redis.go:694: one link is valid at a time, unless requests that write or use
\* links overlapped or a command failed.
OneAdminLink == Cardinality(magic) > 1 => "link" \in overlap \/ errors > 0

\* account_service.go:140: all pages of a session carry one CSRF token, unless
\* two pages were served at the same time or the token could not be read.
OneCsrfToken ==
  \A s \in Id : Cardinality(pages[s]) > 1 => "page" \in overlap \/ errors > 0

\* The ways into the console: a factor that was proven, and codes, pending logins, links
\* and CSRF tokens that serve once or are the only one
\* (internal/admin/account_service.go:107, 140, 236, 355, internal/redis/redis.go:694).
WaysInGuarded ==
  TypeOK /\ FactorProven /\ RecoveredOnce /\ OpenedOnce /\ OneAdminLink /\ OneCsrfToken
=============================================================================
