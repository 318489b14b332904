----------------------------- MODULE Enrolment ------------------------------
(***************************************************************************)
(* How a user sets up a second factor: internal/twofa (service and         *)
(* handler) over the columns of users that internal/user/repository.go     *)
(* writes, and the setup keys in internal/redis.                           *)
(*                                                                         *)
(* Every handler reads a row or a key, decides, and writes later; requests *)
(* of one user may overlap (two tabs, a retry), so each is a slot that     *)
(* takes one SQL statement or Redis command per step.  A check that fails  *)
(* ends the request and changes nothing: it is the guard of the step.      *)
(* Sending a message is the step that stores what it carries.              *)
(***************************************************************************)
EXTENDS Integers, FiniteSets

CONSTANTS
  Req,          \* slots for requests being served at the same time
  Phone,        \* phone numbers
  Backup,       \* backup addresses
  Secret,       \* TOTP secrets, each generated once
  MaxRequests,  \* bound: requests served
  MaxErrors,    \* bound: Redis commands that fail
  None          \* no number, address or secret

Methods == {"", "totp", "email", "sms", "backup_email"}

VARIABLES
  row,      \* the two-factor, phone and backup_email columns of the user
  setup,    \* 2fa_temp_secret:{user}
  code,     \* phone_verify:{user}: the number its code was sent to
  tokens,   \* backup_email_verify:{token}: the addresses of the live tokens
  req,      \* the state of every request slot
  served,   \* requests begun so far
  errors,   \* commands that have failed
  shown,    \* history: secrets shown to the user
  owned,    \* history: numbers and addresses whose owner has answered
  saved,    \* history: the method and secret backup_email replaced
  overlap   \* history: two requests were served at the same time

history == <<shown, owned, saved, overlap>>
vars == <<row, setup, code, tokens, req, served, errors, history>>

\* What the code lets the constants be.
EnrolmentAssumption ==
  /\ None \notin Phone \cup Backup \cup Secret
  /\ MaxRequests \in Nat /\ MaxErrors \in Nat

Row == [enabled : BOOLEAN, method : Methods, secret : Secret \cup {None},
        prevMethod : Methods, prevSecret : Secret \cup {None},
        phone : Phone \cup {None}, phoneVerified : BOOLEAN,
        backup : Backup \cup {None}, backupVerified : BOOLEAN]
Plain == [method |-> "", secret |-> None]

Steps == {"idle", "store_code", "verify_phone", "drop_code", "store_token",
          "match_backup", "verify_backup", "drop_token", "enable_totp",
          "drop_setup", "enable_sms", "enable_backup", "disable", "read_previous",
          "restore"}
Request == [pc : Steps, what : Phone \cup Backup \cup Secret \cup {None},
            method : Methods]
Idle == [pc |-> "idle", what |-> None, method |-> ""]

Init ==
  /\ row = [enabled |-> FALSE, method |-> "", secret |-> None,
            prevMethod |-> "", prevSecret |-> None,
            phone |-> None, phoneVerified |-> FALSE,
            backup |-> None, backupVerified |-> FALSE]
  /\ setup = None /\ code = None /\ tokens = {}
  /\ req = [r \in Req |-> Idle]
  /\ served = 0 /\ errors = 0
  /\ shown = {} /\ owned = {} /\ saved = Plain /\ overlap = FALSE

-----------------------------------------------------------------------------
At(r, step) == req[r].pc = step

\* A request takes a slot and goes on at step, or is served at once ("idle").
Begin(r, step, what, method) ==
  /\ At(r, "idle") /\ served < MaxRequests
  /\ served' = served + 1
  /\ req' = [req EXCEPT ![r] = IF step = "idle" THEN Idle
               ELSE [pc |-> step, what |-> what, method |-> method]]
  /\ overlap' = (overlap \/ \E q \in Req : ~ At(q, "idle"))

Goto(r, step) ==
  req' = [req EXCEPT ![r] = IF step = "idle" THEN Idle ELSE [@ EXCEPT !.pc = step]]

\* A Redis command fails; the caller goes on at step.
Fail(r, step) ==
  /\ errors < MaxErrors /\ errors' = errors + 1
  /\ Goto(r, step)
  /\ UNCHANGED <<row, setup, code, tokens, served, history>>

-----------------------------------------------------------------------------
(* The phone number. *)

\* Mutant of SetPhoneNumber: the new number inherits the old one's status.
SetPhoneNumberOnly(p) == row' = [row EXCEPT !.phone = p]

SetPhoneNumber(p) == row' = [row EXCEPT !.phone = p, !.phoneVerified = FALSE]

AddPhone(r, p) ==
  /\ Begin(r, "store_code", p, "")
  /\ SetPhoneNumber(p)
  /\ UNCHANGED <<setup, code, tokens, errors, shown, owned, saved>>

SetPhoneVerificationCode(r) ==
  /\ At(r, "store_code")
  /\ \/ /\ code' = req[r].what
        /\ Goto(r, "idle")
        /\ UNCHANGED <<row, setup, tokens, served, errors, history>>
     \/ Fail(r, "idle")

\* The code that is stored arrives: the owner of the number it was sent to
\* answers.  The column that is updated is the number's of that moment.
VerifyPhone(r) ==
  /\ code # None
  /\ Begin(r, "verify_phone", code, "")
  /\ owned' = owned \cup {code}
  /\ UNCHANGED <<row, setup, code, tokens, errors, shown, saved>>

VerifyPhoneNumber(r) ==
  /\ At(r, "verify_phone")
  /\ row' = [row EXCEPT !.phoneVerified = TRUE]
  /\ Goto(r, "drop_code")
  /\ UNCHANGED <<setup, code, tokens, served, errors, history>>

DeletePhoneVerificationCode(r) ==
  /\ At(r, "drop_code")
  /\ \/ /\ code' = None
        /\ Goto(r, "idle")
        /\ UNCHANGED <<row, setup, tokens, served, errors, history>>
     \/ Fail(r, "idle")

RemovePhone(r) ==
  /\ Begin(r, "idle", None, "")
  /\ SetPhoneNumber(None)
  /\ UNCHANGED <<setup, code, tokens, errors, shown, owned, saved>>

\* phone_verify:{user} expires after 10 minutes.
CodeExpires ==
  /\ code # None /\ code' = None
  /\ UNCHANGED <<row, setup, tokens, req, served, errors, history>>

-----------------------------------------------------------------------------
(* The backup address. *)

SetBackupEmail(b) == row' = [row EXCEPT !.backup = b, !.backupVerified = FALSE]

AddBackupEmail(r, b) ==
  /\ Begin(r, "store_token", b, "")
  /\ SetBackupEmail(b)
  /\ UNCHANGED <<setup, code, tokens, errors, shown, owned, saved>>

SetBackupEmailVerificationToken(r) ==
  /\ At(r, "store_token")
  /\ \/ /\ tokens' = tokens \cup {req[r].what}
        /\ Goto(r, "idle")
        /\ UNCHANGED <<row, setup, code, served, errors, history>>
     \/ Fail(r, "idle")

VerifyBackupEmail(r, b) ==
  /\ b \in tokens
  /\ Begin(r, "match_backup", b, "")
  /\ owned' = owned \cup {b}
  /\ UNCHANGED <<row, setup, code, tokens, errors, shown, saved>>

StillPending(b) == row.backup = b

MatchBackupEmail(r) ==
  /\ At(r, "match_backup")
  /\ Goto(r, IF StillPending(req[r].what) THEN "verify_backup" ELSE "idle")
  /\ UNCHANGED <<row, setup, code, tokens, served, errors, history>>

MarkBackupEmail(r) ==
  /\ At(r, "verify_backup")
  /\ row' = [row EXCEPT !.backupVerified = TRUE]
  /\ Goto(r, "drop_token")
  /\ UNCHANGED <<setup, code, tokens, served, errors, history>>

DeleteBackupEmailToken(r) ==
  /\ At(r, "drop_token")
  /\ \/ /\ tokens' = tokens \ {req[r].what}
        /\ Goto(r, "idle")
        /\ UNCHANGED <<row, setup, code, served, errors, history>>
     \/ Fail(r, "idle")

RemoveBackupEmail(r) ==
  /\ Begin(r, "idle", None, "")
  /\ SetBackupEmail(None)
  /\ UNCHANGED <<setup, code, tokens, errors, shown, owned, saved>>

-----------------------------------------------------------------------------
(* The method.  Enable2FAWithMethod leaves the saved previous method alone. *)

EnableWith(method, secret) ==
  row' = [row EXCEPT !.enabled = TRUE, !.method = method, !.secret = secret]

Generate2FASecret(r, s) ==
  /\ s \notin shown
  /\ Begin(r, "idle", None, "")
  /\ setup' = s /\ shown' = shown \cup {s}
  /\ UNCHANGED <<row, code, tokens, errors, owned, saved>>

\* VerifySetup only answers whether a code fits the secret of the moment.
Enable2FA(r) ==
  /\ setup # None
  /\ Begin(r, "enable_totp", setup, "")
  /\ UNCHANGED <<row, setup, code, tokens, errors, shown, owned, saved>>

Enable2FAWithMethod(r) ==
  /\ At(r, "enable_totp")
  /\ EnableWith("totp", req[r].what)
  /\ Goto(r, "drop_setup")
  /\ UNCHANGED <<setup, code, tokens, served, errors, history>>

DeleteTempTwoFASecret(r) ==
  /\ At(r, "drop_setup")
  /\ \/ /\ setup' = None
        /\ Goto(r, "idle")
        /\ UNCHANGED <<row, code, tokens, served, errors, history>>
     \/ Fail(r, "idle")

EnableEmail2FA(r) ==
  /\ Begin(r, "idle", None, "")
  /\ EnableWith("email", None)
  /\ UNCHANGED <<setup, code, tokens, errors, shown, owned, saved>>

EnableSMS2FA(r) ==
  /\ row.phoneVerified
  /\ Begin(r, "enable_sms", None, "")
  /\ UNCHANGED <<row, setup, code, tokens, errors, shown, owned, saved>>

EnableSMSWithMethod(r) ==
  /\ At(r, "enable_sms")
  /\ EnableWith("sms", None)
  /\ Goto(r, "idle")
  /\ UNCHANGED <<setup, code, tokens, served, errors, history>>

EnableBackupEmail2FA(r) ==
  /\ row.backupVerified /\ row.backup # None
  /\ Begin(r, "enable_backup", row.secret, row.method)
  /\ UNCHANGED <<row, setup, code, tokens, errors, shown, owned, saved>>

\* What backup_email replaces is remembered as the user sees it: a second
\* EnableBackupEmail2FA replaces nothing.
SaveAndSwitchToBackupEmail2FA(r) ==
  /\ At(r, "enable_backup")
  /\ row' = [row EXCEPT !.prevMethod = req[r].method, !.prevSecret = req[r].what,
                        !.enabled = TRUE, !.method = "backup_email", !.secret = None]
  /\ saved' = IF row.method = "backup_email" THEN saved
              ELSE [method |-> row.method, secret |-> row.secret]
  /\ Goto(r, "idle")
  /\ UNCHANGED <<setup, code, tokens, served, errors, shown, owned, overlap>>

\* Disable2FA verifies a code: an e-mailed one, or else a TOTP, which the other
\* methods have no secret for.
Disable2FA(r) ==
  /\ row.enabled /\ (row.method = "email" \/ row.secret # None)
  /\ Begin(r, "disable", None, "")
  /\ UNCHANGED <<row, setup, code, tokens, errors, shown, owned, saved>>

ClearTwoFA(r) ==
  /\ At(r, "disable")
  /\ row' = [row EXCEPT !.enabled = FALSE, !.method = "", !.secret = None]
  /\ Goto(r, "idle")
  /\ UNCHANGED <<setup, code, tokens, served, errors, history>>

DisableBackupEmail2FA(r) ==
  /\ row.enabled /\ row.method = "backup_email"
  /\ Begin(r, "read_previous", None, "")
  /\ UNCHANGED <<row, setup, code, tokens, errors, shown, owned, saved>>

ReadPrevious(r) ==
  /\ At(r, "read_previous")
  /\ req' = [req EXCEPT ![r] = [pc |-> "restore", what |-> row.prevSecret,
                                method |-> row.prevMethod]]
  /\ UNCHANGED <<row, setup, code, tokens, served, errors, history>>

\* Mutant of RestorePreviousTwoFAMethod: the flag is left as it is.
RestoreKeepsEnabled(r) ==
  /\ At(r, "restore")
  /\ row' = [row EXCEPT !.method = req[r].method, !.secret = req[r].what,
                        !.prevMethod = "", !.prevSecret = None]
  /\ Goto(r, "idle")
  /\ UNCHANGED <<setup, code, tokens, served, errors, history>>

\* The columns are written as they were read: a method enabled or disabled in
\* between is overwritten.
RestorePreviousTwoFAMethod(r) ==
  /\ At(r, "restore")
  /\ row' = [row EXCEPT !.enabled = req[r].method # "", !.method = req[r].method,
                        !.secret = req[r].what, !.prevMethod = "", !.prevSecret = None]
  /\ Goto(r, "idle")
  /\ UNCHANGED <<setup, code, tokens, served, errors, history>>

\* The handlers take the user from the access token.
Generate2FA(r, s) == Generate2FASecret(r, s)
PostEmail2FA(r) == EnableEmail2FA(r)
PostSMS2FA(r) == EnableSMS2FA(r)
PostBackupEmail2FA(r) == EnableBackupEmail2FA(r)

\* 2fa_temp_secret expires after 10 minutes, backup_email_verify after a day.
SetupExpires ==
  /\ setup # None /\ setup' = None
  /\ UNCHANGED <<row, code, tokens, req, served, errors, history>>
TokenExpires ==
  /\ \E b \in tokens : tokens' = tokens \ {b}
  /\ UNCHANGED <<row, setup, code, req, served, errors, history>>

Next ==
  \/ CodeExpires \/ SetupExpires \/ TokenExpires
  \/ \E r \in Req :
       \/ \E p \in Phone : AddPhone(r, p)
       \/ SetPhoneVerificationCode(r)
       \/ VerifyPhone(r) \/ VerifyPhoneNumber(r) \/ DeletePhoneVerificationCode(r)
       \/ RemovePhone(r)
       \/ \E b \in Backup : AddBackupEmail(r, b) \/ VerifyBackupEmail(r, b)
       \/ SetBackupEmailVerificationToken(r)
       \/ MatchBackupEmail(r) \/ MarkBackupEmail(r) \/ DeleteBackupEmailToken(r)
       \/ RemoveBackupEmail(r)
       \/ \E s \in Secret : Generate2FA(r, s)
       \/ Enable2FA(r) \/ Enable2FAWithMethod(r) \/ DeleteTempTwoFASecret(r)
       \/ PostEmail2FA(r) \/ PostSMS2FA(r) \/ EnableSMSWithMethod(r)
       \/ PostBackupEmail2FA(r) \/ SaveAndSwitchToBackupEmail2FA(r)
       \/ Disable2FA(r) \/ ClearTwoFA(r)
       \/ DisableBackupEmail2FA(r) \/ ReadPrevious(r)
       \/ RestorePreviousTwoFAMethod(r)

Spec == Init /\ [][Next]_vars

-----------------------------------------------------------------------------
(* Properties. *)

\* The variables have their types; however requests overlap, the second factor is
\* enabled exactly with a method, and TOTP is the only method with a secret.
TypeOK ==
  /\ row \in Row /\ setup \in Secret \cup {None} /\ code \in Phone \cup {None}
  /\ tokens \subseteq Backup /\ req \in [Req -> Request]
  /\ served \in 0..MaxRequests /\ errors \in 0..MaxErrors
  /\ shown \subseteq Secret /\ owned \subseteq Phone \cup Backup
  /\ saved \in [method : Methods, secret : Secret \cup {None}]
  /\ overlap \in BOOLEAN
  /\ row.enabled = (row.method # "")
  /\ (row.secret # None) = (row.method = "totp")

\* A number or an address marked as verified is one whose owner has answered,
\* unless a request overlapped another, or the code of a new number could not be
\* stored and that of the old one is still valid (twofa/service.go:755-785).
VerifiedByOwner ==
  /\ row.phoneVerified => row.phone \in owned \cup {None} \/ overlap \/ errors > 0
  /\ row.backupVerified => row.backup \in owned \/ overlap

\* "so that DisableBackupEmail2FAMethod can restore the prior configuration
\* exactly" (twofa/service.go:675): what it restores, and no request having
\* overlapped another, is what backup_email replaced.
RestoresPrior ==
  row.method = "backup_email" /\ ~ overlap
    => saved = [method |-> row.prevMethod, secret |-> row.prevSecret]
=============================================================================
