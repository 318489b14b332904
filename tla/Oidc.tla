-------------------------------- MODULE Oidc --------------------------------
(***************************************************************************)
(* The OpenID provider of one application (internal/oidc), for one user,   *)
(* one browser and one confidential client: authorization codes, token     *)
(* grants, granted scopes, the signing key, logout, and the registration   *)
(* of the client.                                                          *)
(*                                                                         *)
(* A request is a slot that takes one SQL statement or Redis command per   *)
(* step; what is refused changes nothing, which is the guard of the step.  *)
(* A user with a second factor is handed a temporary token instead of a    *)
(* code (SecondFactor).  A session is the pair of tokens minted with it,   *)
(* numbered; Sessions has its other operations.                            *)
(***************************************************************************)
EXTENDS Naturals, FiniteSets

CONSTANTS
  Req,            \* slots for requests being served at the same time
  Code,           \* authorization codes, each issued once
  Scope,          \* scopes the client may ask for
  DefaultScopes,  \* of a refresh that names none and finds none
  MaxSessions,    \* bound: sessions minted
  MaxRequests,    \* bound: requests served
  MaxErrors,      \* bound: commands and statements that fail
  None            \* nothing

\* What the code lets the constants be.
OidcAssumption ==
  /\ None \notin Req \cup Code /\ DefaultScopes \subseteq Scope
  /\ MaxSessions \in Nat /\ MaxRequests \in Nat /\ MaxErrors \in Nat

VARIABLES
  client,     \* the row of oidc_clients
  codes,      \* the rows of oidc_auth_codes
  signedIn,   \* the browser's cookie names a live oidc_browser key
  sessions,   \* live session hashes
  granted,    \* oidc_scopes:{session}, {} when there is no such key
  handed,     \* sessions whose refresh token the client was given
  blacklist,  \* sessions whose refresh token is blacklisted
  key,        \* the RSA key of the application, 0 when there is none
  keyMu,      \* the holder of Service.keyMu
  req,        \* the state of every request slot
  made,       \* sessions minted so far
  served,     \* requests begun so far
  errors,     \* commands and statements that have failed
  approved,   \* history: scopes the user approved, by session
  honoured,   \* history: sessions each code has led to
  spent,      \* history: refresh tokens that were redeemed
  again,      \* history: one was redeemed that had been before
  out,        \* history: a logout has deleted the cookie's key, and no sign-in followed
  silent,     \* history: a code was issued without a form in such a browser
  signed,     \* history: keys that ID tokens were signed with
  shown,      \* history: sessions whose access token was answered with roles
  latest,     \* history: what the last changes of the client made it
  overlap     \* history: two requests were served at the same time

history ==
  <<approved, honoured, spent, again, out, silent, signed, shown, latest,
    overlap>>
vars == <<client, codes, signedIn, sessions, granted, handed, blacklist, key, keyMu,
          req, made, served, errors, history>>

Session == 1..MaxSessions
Client == [exists : BOOLEAN, active : BOOLEAN, secret : Nat]
Fresh == [state |-> "unissued", scopes |-> {}]

Steps == {"idle", "issue", "browser", "code", "mark", "blacklist", "granted",
          "session", "scopes", "key", "key_lock", "key_make", "drop_cookie",
          "drop_sessions", "save"}
Request == [pc : Steps, code : Code \cup {None}, scopes : SUBSET Scope,
            token : Session \cup {0}, kind : {"", "form", "cookie", "code", "refresh",
            "client"}, minted : Session \cup {0}, row : Client]
Unset == [exists |-> FALSE, active |-> FALSE, secret |-> 0]
Idle == [pc |-> "idle", code |-> None, scopes |-> {}, token |-> 0, kind |-> "",
         minted |-> 0, row |-> Unset]

Init ==
  /\ client = Unset /\ latest = Unset
  /\ codes = [c \in Code |-> Fresh] /\ signedIn = FALSE
  /\ sessions = {} /\ granted = [s \in Session |-> {}]
  /\ handed = {} /\ blacklist = {}
  /\ key = 0 /\ keyMu = None
  /\ req = [r \in Req |-> Idle] /\ made = 0 /\ served = 0 /\ errors = 0
  /\ approved = [s \in Session |-> {}] /\ honoured = [c \in Code |-> 0]
  /\ spent = {} /\ again = FALSE /\ signed = {} /\ shown = {}
  /\ out = FALSE /\ silent = FALSE /\ overlap = FALSE

-----------------------------------------------------------------------------
At(r, step) == req[r].pc = step

Begin(r, first) ==
  /\ At(r, "idle") /\ served < MaxRequests
  /\ served' = served + 1
  /\ req' = [req EXCEPT ![r] = first]
  /\ overlap' = (overlap \/ \E q \in Req : ~ At(q, "idle"))

Goto(r, step) ==
  req' = [req EXCEPT ![r] = IF step = "idle" THEN Idle ELSE [@ EXCEPT !.pc = step]]

\* A command or a statement fails; the caller goes on at step.
Fail(r, step) ==
  /\ errors < MaxErrors /\ errors' = errors + 1
  /\ Goto(r, step)
  /\ UNCHANGED <<client, codes, signedIn, sessions, granted, handed, blacklist, key,
                 keyMu, made, served, history>>

browserAndCodes == <<codes, signedIn, honoured, out, silent>>
tokenState == <<sessions, granted, handed, blacklist, made, approved, spent, again>>
keyState == <<key, keyMu, signed, shown>>
clientState == <<client, latest>>

-----------------------------------------------------------------------------
(* The authorization endpoint. *)

\* The scopes are those of the client and include openid.
Requestable == {s \in SUBSET Scope : "openid" \in s}

\* Without a form when the browser is signed in and the client needs no consent;
\* a form carries the request in a signed token.
SessionUserID == signedIn
Authorize(r, scopes) ==
  /\ client.exists /\ client.active /\ SessionUserID
  /\ Begin(r, [Idle EXCEPT !.pc = "issue", !.scopes = scopes, !.kind = "cookie"])
  /\ UNCHANGED <<browserAndCodes, tokenState, keyState, clientState, errors>>

AuthorizeSubmit(r, scopes) ==
  /\ client.exists
  /\ Begin(r, [Idle EXCEPT !.pc = "issue", !.scopes = scopes, !.kind = "form"])
  /\ UNCHANGED <<browserAndCodes, tokenState, keyState, clientState, errors>>

\* Codes are random: which of the unused ones comes next makes no difference.
Unissued == {c \in Code : codes[c].state = "unissued"}

IssueAuthCode(r) ==
  /\ At(r, "issue")
  /\ \/ /\ Unissued # {}
        /\ codes' = [codes EXCEPT ![CHOOSE c \in Unissued : TRUE] =
                       [state |-> "live", scopes |-> req[r].scopes]]
        /\ silent' = (silent \/ (req[r].kind = "cookie" /\ out))
        /\ Goto(r, "browser")
        /\ UNCHANGED <<signedIn, honoured, out, tokenState, keyState, clientState,
                       served, errors, overlap>>
     \/ Fail(r, "idle")

SetOIDCBrowserSession(r) ==
  /\ At(r, "browser")
  /\ \/ /\ signedIn' = TRUE /\ out' = FALSE
        /\ Goto(r, "idle")
        /\ UNCHANGED <<codes, honoured, silent, tokenState, keyState, clientState,
                       served, errors, overlap>>
     \/ Fail(r, "idle")

-----------------------------------------------------------------------------
(* The token endpoint. *)

ValidateClientCredentials == client.exists /\ client.active

HandleAuthCodeGrant(r, c) ==
  /\ ValidateClientCredentials
  /\ Begin(r, [Idle EXCEPT !.pc = "code", !.code = c, !.kind = "code"])
  /\ UNCHANGED <<browserAndCodes, tokenState, keyState, clientState, errors>>

ExchangeCode(r) ==
  LET c == req[r].code IN
  /\ At(r, "code")
  /\ IF codes[c].state = "live"
       THEN req' = [req EXCEPT ![r].pc = "mark", ![r].scopes = codes[c].scopes]
       ELSE Goto(r, "idle")
  /\ UNCHANGED <<browserAndCodes, tokenState, keyState, clientState, served, errors,
                 overlap>>

\* Mutant of Marked: the row is left as it is.
MarkedNot(row) == row

Marked(row) == [row EXCEPT !.state = "spent"]

\* The UPDATE does not ask whether the code has been used meanwhile.
MarkAuthCodeUsed(r) ==
  /\ At(r, "mark")
  /\ \/ /\ codes' = [codes EXCEPT ![req[r].code] = Marked(@)]
        /\ Goto(r, "session")
        /\ UNCHANGED <<signedIn, honoured, out, silent, tokenState, keyState,
                       clientState, served, errors, overlap>>
     \/ Fail(r, "idle")

\* Any refresh token of the application will do, and for any registered client.
HandleRefreshTokenGrant(r, t, scopes) ==
  /\ ValidateClientCredentials /\ t \in handed
  /\ Begin(r, [Idle EXCEPT !.pc = "blacklist", !.token = t, !.scopes = scopes,
                           !.kind = "refresh"])
  /\ UNCHANGED <<browserAndCodes, tokenState, keyState, clientState, errors>>

\* The result is ignored, and nothing on this path reads the key.
BlacklistAccessToken(r) ==
  /\ At(r, "blacklist")
  /\ \/ /\ blacklist' = blacklist \cup {req[r].token}
        /\ Goto(r, "granted")
        /\ UNCHANGED <<browserAndCodes, sessions, granted, handed, made, approved,
                       spent, again, keyState, clientState, served, errors, overlap>>
     \/ Fail(r, "granted")

\* Mutant of Allowed: anything goes.
AllowedAnyway(wanted, original) == TRUE

\* A refresh token without stored scopes may ask for any.
Allowed(wanted, original) == original = {} \/ wanted \subseteq original
Effective(wanted, original) ==
  IF wanted # {} THEN wanted ELSE IF original # {} THEN original ELSE DefaultScopes

GetOIDCGrantedScopes(r) ==
  LET wanted == req[r].scopes IN
  /\ At(r, "granted")
  /\ \E lost \in BOOLEAN :
       LET original == IF lost THEN {} ELSE granted[req[r].token] IN
       /\ errors' = errors + (IF lost THEN 1 ELSE 0) /\ errors' <= MaxErrors
       /\ IF Allowed(wanted, original)
            THEN req' = [req EXCEPT ![r].pc = "session",
                                    ![r].scopes = Effective(wanted, original)]
            ELSE Goto(r, "idle")
  /\ UNCHANGED <<browserAndCodes, tokenState, keyState, clientState, served, overlap>>

\* The service checks the credentials itself; without a session in Redis the
\* token is issued just the same.
ClientCredentialsGrant(r) ==
  /\ client.exists /\ client.active
  /\ Begin(r, [Idle EXCEPT !.pc = "session", !.kind = "client"])
  /\ UNCHANGED <<browserAndCodes, tokenState, keyState, clientState, errors>>

TokenRequest(r) ==
  \/ \E c \in Code : HandleAuthCodeGrant(r, c)
  \/ \E t \in Session, s \in SUBSET Scope : HandleRefreshTokenGrant(r, t, s)
  \/ ClientCredentialsGrant(r)

\* MintTokensForUser.  A client's own session has no scopes and no ID token.
CreateSession(r) ==
  LET s == made + 1 IN
  /\ At(r, "session")
  /\ \/ /\ made < MaxSessions /\ made' = s
        /\ sessions' = sessions \cup {s}
        /\ approved' = [approved EXCEPT ![s] =
             IF req[r].kind = "refresh" THEN approved[req[r].token] ELSE req[r].scopes]
        /\ honoured' = [c \in Code |-> honoured[c] + (IF c = req[r].code THEN 1 ELSE 0)]
        /\ again' = (again \/ (req[r].kind = "refresh" /\ req[r].token \in spent))
        /\ spent' = IF req[r].kind = "refresh" THEN spent \cup {req[r].token} ELSE spent
        /\ req' = [req EXCEPT ![r] = IF @.kind = "client" THEN Idle
                     ELSE [@ EXCEPT !.pc = "scopes", !.minted = s]]
        /\ UNCHANGED <<codes, signedIn, out, silent, granted, handed, blacklist, keyState,
                       clientState, served, errors, overlap>>
     \/ Fail(r, "idle")

SetOIDCGrantedScopes(r) ==
  /\ At(r, "scopes")
  /\ \/ /\ granted' = [granted EXCEPT ![req[r].minted] = req[r].scopes]
        /\ Goto(r, "key")
        /\ UNCHANGED <<browserAndCodes, sessions, handed, blacklist, made, approved,
                       spent, again, keyState, clientState, served, errors, overlap>>
     \/ Fail(r, "key")

\* The answer: a refresh token comes with a code for offline_access, and with
\* every refresh.
Answer(r, signingKey) ==
  /\ signed' = signed \cup {signingKey} /\ UNCHANGED shown
  /\ handed' = IF req[r].kind = "refresh" \/ "offline_access" \in req[r].scopes
               THEN handed \cup {req[r].minted} ELSE handed
  /\ Goto(r, "idle")
  /\ UNCHANGED <<browserAndCodes, sessions, granted, blacklist, made, approved, spent,
                 again, clientState, served, errors, overlap>>

\* GetOrCreateRSAKey: a read, then the mutex, another read, and the new key.
GetRSAKey(r) ==
  /\ At(r, "key")
  /\ IF key # 0 THEN Answer(r, key) /\ UNCHANGED <<key, keyMu>>
     ELSE /\ Goto(r, "key_lock")
          /\ UNCHANGED <<browserAndCodes, tokenState, keyState, clientState, served,
                         errors, overlap>>

\* Mutant of MissingUnderLock: the second read is left out.
MissingUnderLockAlways == TRUE

MissingUnderLock == key = 0

LockAndReadAgain(r) ==
  /\ At(r, "key_lock") /\ keyMu = None
  /\ IF MissingUnderLock
       THEN /\ keyMu' = r /\ Goto(r, "key_make")
            /\ UNCHANGED <<browserAndCodes, tokenState, key, signed, shown, clientState,
                           served, errors, overlap>>
       ELSE Answer(r, key) /\ UNCHANGED <<key, keyMu>>

SaveRSAPrivateKey(r) ==
  /\ At(r, "key_make") /\ keyMu' = None
  /\ key' = key + 1
  /\ Answer(r, key')

-----------------------------------------------------------------------------
(* The claims of a user. *)

\* Access tokens of users that have been sent: those whose request is over.
Sent == {s \in 1..made : approved[s] # {} /\ \A r \in Req : req[r].minted # s}

\* A token without stored scopes stands for all that concern the claims.
ScopesOf(stored) == IF stored = {} THEN Scope \ {"offline_access"} ELSE stored

\* The roles are among the claims when their scope is; blacklisted or not, the
\* token will do.
UserInfo(r, s) ==
  /\ s \in Sent
  /\ Begin(r, Idle)
  /\ shown' = IF "roles" \in ScopesOf(granted[s]) THEN shown \cup {s} ELSE shown
  /\ UNCHANGED <<browserAndCodes, tokenState, key, keyMu, signed, clientState, errors>>

-----------------------------------------------------------------------------
(* Revocation and logout. *)

Revoke(r, t) ==
  /\ t \in handed \ blacklist
  /\ Begin(r, Idle)
  /\ blacklist' = blacklist \cup {t}
  /\ UNCHANGED <<browserAndCodes, sessions, granted, handed, made, approved, spent,
                 again, keyState, clientState, errors>>

\* The user is the cookie's, or the hint's.
EndSession(r) ==
  /\ signedIn \/ handed # {}
  /\ Begin(r, [Idle EXCEPT !.pc = IF signedIn THEN "drop_cookie" ELSE "drop_sessions"])
  /\ UNCHANGED <<browserAndCodes, tokenState, keyState, clientState, errors>>

\* Mutant of SignedInAfter: the key is left.
SignedInAfterLogout == signedIn

SignedInAfter == FALSE

DeleteOIDCBrowserSession(r) ==
  /\ At(r, "drop_cookie")
  /\ \/ /\ signedIn' = SignedInAfter /\ out' = TRUE
        /\ Goto(r, "drop_sessions")
        /\ UNCHANGED <<codes, honoured, silent, tokenState, keyState, clientState,
                       served, errors, overlap>>
     \/ Fail(r, "drop_sessions")

DeleteAllUserSessions(r) ==
  /\ At(r, "drop_sessions")
  /\ sessions' = {}
  /\ Goto(r, "idle")
  /\ UNCHANGED <<browserAndCodes, granted, handed, blacklist, made, approved, spent,
                 again, keyState, clientState, served, errors, overlap>>

\* Codes expire, and so do cookies.
Expire ==
  /\ \/ \E c \in Code : /\ codes[c].state = "live"
                        /\ codes' = [codes EXCEPT ![c].state = "spent"]
                        /\ UNCHANGED signedIn
     \/ signedIn /\ signedIn' = FALSE /\ UNCHANGED codes
  /\ UNCHANGED <<honoured, out, silent, tokenState, keyState, clientState, req, served,
                 errors, overlap>>

-----------------------------------------------------------------------------
(* The registration of the client: the row is read, changed and saved whole, and *)
(* both the API and the console offer it.                                        *)

CreateClient ==
  /\ client = Unset
  /\ client' = [exists |-> TRUE, active |-> TRUE, secret |-> 1] /\ latest' = client'
  /\ UNCHANGED <<browserAndCodes, tokenState, keyState, req, served, errors, overlap>>

AdminCreateClient == CreateClient
OIDCClientCreate == CreateClient

\* Mutant of Rotated: the old secret is kept.
RotatedNot(row) == row

Rotated(row) == [row EXCEPT !.secret = latest.secret + 1]
Switched(row) == [row EXCEPT !.active = ~ @]

RotateClientSecret(r) ==
  /\ client.exists
  /\ Begin(r, [Idle EXCEPT !.pc = "save", !.row = Rotated(client)])
  /\ latest' = [latest EXCEPT !.secret = @ + 1]
  /\ UNCHANGED <<browserAndCodes, tokenState, keyState, client, errors>>

UpdateClient(r) ==
  /\ client.exists
  /\ Begin(r, [Idle EXCEPT !.pc = "save", !.row = Switched(client)])
  /\ latest' = [latest EXCEPT !.active = ~ client.active]
  /\ UNCHANGED <<browserAndCodes, tokenState, keyState, client, errors>>

\* Save inserts a row that is gone.
SaveClient(r) ==
  /\ At(r, "save")
  /\ client' = req[r].row
  /\ Goto(r, "idle")
  /\ UNCHANGED <<browserAndCodes, tokenState, keyState, latest, served, errors, overlap>>

DeleteClient(r) ==
  /\ client.exists
  /\ Begin(r, Idle)
  /\ client' = [client EXCEPT !.exists = FALSE]
  /\ latest' = [latest EXCEPT !.exists = FALSE]
  /\ UNCHANGED <<browserAndCodes, tokenState, keyState, errors>>

AdminRotateClientSecret(r) == RotateClientSecret(r)
AdminUpdateClient(r) == UpdateClient(r)
AdminDeleteClient(r) == DeleteClient(r)
OIDCClientRotateSecret(r) == RotateClientSecret(r)
OIDCClientUpdate(r) == UpdateClient(r)
OIDCClientDelete(r) == DeleteClient(r)

Next ==
  \/ Expire \/ AdminCreateClient \/ OIDCClientCreate
  \/ \E r \in Req :
       \/ \E s \in Requestable : Authorize(r, s) \/ AuthorizeSubmit(r, s)
       \/ IssueAuthCode(r) \/ SetOIDCBrowserSession(r)
       \/ TokenRequest(r) \/ ExchangeCode(r) \/ MarkAuthCodeUsed(r)
       \/ BlacklistAccessToken(r) \/ GetOIDCGrantedScopes(r)
       \/ CreateSession(r) \/ SetOIDCGrantedScopes(r)
       \/ GetRSAKey(r) \/ LockAndReadAgain(r) \/ SaveRSAPrivateKey(r)
       \/ \E t \in Session : Revoke(r, t)
       \/ EndSession(r) \/ DeleteOIDCBrowserSession(r) \/ DeleteAllUserSessions(r)
       \/ \E s \in Session : UserInfo(r, s)
       \/ AdminRotateClientSecret(r) \/ AdminUpdateClient(r) \/ AdminDeleteClient(r)
       \/ OIDCClientRotateSecret(r) \/ OIDCClientUpdate(r) \/ OIDCClientDelete(r)
       \/ SaveClient(r)

Spec == Init /\ [][Next]_vars

-----------------------------------------------------------------------------
(* Properties. *)

\* The variables have their types.
TypeOK ==
  /\ client \in Client /\ latest \in Client
  /\ codes \in [Code -> [state : {"unissued", "live", "spent"}, scopes : SUBSET Scope]]
  /\ made \in 0..MaxSessions /\ sessions \cup handed \subseteq 1..made
  /\ blacklist \cup spent \subseteq handed /\ shown \subseteq 1..made
  /\ granted \in [Session -> SUBSET Scope] /\ approved \in [Session -> SUBSET Scope]
  /\ req \in [Req -> Request] /\ keyMu \in Req \cup {None}
  /\ served \in 0..MaxRequests /\ errors \in 0..MaxErrors
  /\ {signedIn, again, out, silent, overlap} \subseteq BOOLEAN

\* A code is honoured only by requests that read it before it was first marked as
\* used, and only after it was (oidc/service.go:296-337): it implements OneTimeToken.
Exchanging(c) == {r \in Req : req[r].code = c /\ req[r].pc \in {"mark", "session"}}
OTT == INSTANCE OneTimeToken WITH
  Token <- Code, unsafe <- errors > 0,
  state <- [c \in Code |-> codes[c].state],
  readers <- [c \in Code |-> Cardinality(Exchanging(c))]
CodesAreOneTime == OTT!Spec

\* However often tokens are refreshed, and with whatever scopes, a session is
\* granted no scope that the user has not approved, and no roles are shown for it
\* without their scope, unless a command failed (oidc/handler.go:460-486, 543-549).
ScopesNarrow ==
  errors = 0 =>
    \A s \in Session :
      /\ granted[s] \subseteq approved[s]
      /\ s \in shown => "roles" \in approved[s]

\* Every ID token is signed with the key that is published, however many requests
\* find that there is none (oidc/service.go:51-96).
OneKey == signed \subseteq {key}

\* A browser whose key a logout has deleted is shown a form before another code is
\* issued, whatever else has failed, unless requests overlapped
\* (oidc/handler.go:139-163, 775-781).
FormAfterLogout == silent => overlap

\* A change of the client is lost, or its deletion undone, only by a change that
\* overlapped it: each saves the whole row it has read (oidc/service.go:158-224).
ClientChangesStick ==
  overlap \/ (\E r \in Req : At(r, "save")) \/ client = latest

\* "Blacklist the old refresh token so it cannot be reused" (oidc/handler.go:454).
RefreshedOnce == again => overlap \/ errors > 0

\* What the provider issues is what was approved, after a sign-in, under the published
\* key and for the client as it was last saved (oidc/handler.go:139, 460, 543,
\* oidc/service.go:51, 158).
ProviderFaithful ==
  TypeOK /\ ScopesNarrow /\ OneKey /\ FormAfterLogout /\ ClientChangesStick
=============================================================================
