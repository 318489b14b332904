---------------------------- MODULE SecondFactor ----------------------------
(***************************************************************************)
(* Signing in with a second factor: the end of LoginUser and of the login  *)
(* handler (internal/user), VerifyLogin and the codes, recovery codes and  *)
(* trusted devices of internal/twofa, and the keys internal/redis keeps    *)
(* for them, for one user of one application.                              *)
(*                                                                         *)
(* The factor "email" stands for the three whose code is mailed or texted: *)
(* each keeps one code per user under a key of its own.  A request is a    *)
(* slot that takes one statement or command per step; one that is refused  *)
(* changes nothing, which is the guard of the step.  A TOTP that is        *)
(* presented is right.                                                     *)
(***************************************************************************)
EXTENDS Integers, FiniteSets

CONSTANTS
  Req,          \* slots for requests being served at the same time
  Temp,         \* temporary tokens, each issued once
  Agent,        \* user agents
  BatchSize,    \* recovery codes in a list (8)
  MaxBatches,   \* bound: lists of recovery codes generated
  MaxMails,     \* bound: codes mailed
  MaxDevices,   \* bound: trusted devices created
  MaxRequests,  \* bound: requests served
  MaxErrors     \* bound: Redis commands that fail

VARIABLES
  row,       \* the columns of the user: active, method, recovery codes
  app,       \* trusted_device_enabled of the application
  temps,     \* temp_session:{token}: the live temporary tokens
  mail,      \* 2fa_email:{user}: the code that was mailed last, 0 when gone
  devices,   \* rows of trusted_devices that have not expired
  req,       \* the state of every request slot
  issued,    \* temporary tokens, codes, lists and devices made so far
  served,    \* requests begun so far
  errors,    \* commands that have failed
  honoured,  \* history: sign-ins each temporary token or code has led to
  skipped,   \* history: the factor was skipped while the application forbids it
  overlap    \* history: two requests were served at the same time

history == <<honoured, skipped, overlap>>
vars == <<row, app, temps, mail, devices, req, issued, served, errors, history>>

\* What the code lets the constants be.
SecondFactorAssumption ==
  /\ IsFiniteSet(Req) /\ BatchSize \in Nat \ {0} /\ MaxBatches \in Nat \ {0}
  /\ MaxMails \in Nat /\ MaxDevices \in Nat /\ MaxRequests \in Nat /\ MaxErrors \in Nat

Recovery == (1..MaxBatches) \X (1..BatchSize)
Batch(b) == {b} \X (1..BatchSize)
Device == Agent \X (1..MaxDevices)
Nothing == <<0, 0>>

Steps == {"idle", "temp", "mail", "device", "factor", "recovery", "rewrite",
          "drop_mail", "session", "clear", "dedup", "create", "regenerate",
          "list", "revoke"}
Request == [pc : Steps, temp : Temp \cup {Nothing}, code : Nat,
            recovery : Recovery \cup {Nothing}, list : SUBSET Recovery,
            agent : Agent \cup {Nothing}, found : SUBSET Device]
Idle == [pc |-> "idle", temp |-> Nothing, code |-> 0, recovery |-> Nothing,
         list |-> {}, agent |-> Nothing, found |-> {}]

\* The user has enabled a factor; no sign-in is under way.
Init ==
  /\ row \in [active : {TRUE}, method : {"totp", "email"}, codes : {Batch(1)}]
  /\ app = [trusts |-> TRUE]
  /\ temps = {} /\ mail = 0 /\ devices = {}
  /\ req = [r \in Req |-> Idle]
  /\ issued = [temps |-> {}, mails |-> 0, batches |-> 1, devices |-> 0]
  /\ served = 0 /\ errors = 0
  /\ honoured = [temps |-> [t \in Temp |-> 0], mails |-> [n \in 1..MaxMails |-> 0],
                 recovery |-> [c \in Recovery |-> 0]]
  /\ skipped = FALSE /\ overlap = FALSE

-----------------------------------------------------------------------------
At(r, step) == req[r].pc = step

\* A request takes a slot with the fields of its first state, or is served at
\* once.
Begin(r, first) ==
  /\ At(r, "idle") /\ served < MaxRequests
  /\ served' = served + 1
  /\ req' = [req EXCEPT ![r] = first]
  /\ overlap' = (overlap \/ \E q \in Req : ~ At(q, "idle"))
  /\ UNCHANGED <<honoured, skipped>>

Goto(r, step) ==
  req' = [req EXCEPT ![r] = IF step = "idle" THEN Idle ELSE [@ EXCEPT !.pc = step]]

\* A Redis command fails; the caller goes on at step.
Fail(r, step) ==
  /\ errors < MaxErrors /\ errors' = errors + 1
  /\ Goto(r, step)
  /\ UNCHANGED <<row, app, temps, mail, devices, issued, served, history>>

-----------------------------------------------------------------------------
(* The password was right: LoginUser and the login handler. *)

LoginUser(r, a) ==
  /\ row.active /\ row.method # ""
  /\ Begin(r, [Idle EXCEPT !.pc = "temp", !.agent = a,
                           !.code = IF row.method = "email" THEN 1 ELSE 0])
  /\ UNCHANGED <<row, app, temps, mail, devices, issued, errors>>

SetTempUserSession(r) ==
  /\ At(r, "temp")
  /\ \/ \E t \in Temp \ issued.temps :
          /\ temps' = temps \cup {t}
          /\ issued' = [issued EXCEPT !.temps = @ \cup {t}]
          /\ Goto(r, IF req[r].code = 1 THEN "mail" ELSE "device")
          /\ UNCHANGED <<row, app, mail, devices, served, errors, history>>
     \/ Fail(r, "idle")

\* The codes of a login and of a resend replace the one mailed before.
StoreMailedCode(r) ==
  /\ At(r, "mail")
  /\ \/ /\ issued.mails < MaxMails
        /\ issued' = [issued EXCEPT !.mails = @ + 1]
        /\ mail' = issued.mails + 1
        /\ Goto(r, IF req[r].agent = Nothing THEN "idle" ELSE "device")
        /\ UNCHANGED <<row, app, temps, devices, served, errors, history>>
     \/ Fail(r, "idle")

Set2FAEmailCode(r) == req[r].agent # Nothing /\ StoreMailedCode(r)
GenerateEmail2FACode(r) == req[r].agent = Nothing /\ StoreMailedCode(r)
GenerateSMS2FACode(r) == req[r].agent = Nothing /\ StoreMailedCode(r)
GenerateBackupEmail2FACode(r) == req[r].agent = Nothing /\ StoreMailedCode(r)

Resend(r, t) ==
  /\ t \in temps /\ row.method = "email"
  /\ Begin(r, [Idle EXCEPT !.pc = "mail"])
  /\ UNCHANGED <<row, app, temps, mail, devices, issued, errors>>

ResendEmail2FACode(r, t) == Resend(r, t)
ResendSMS2FACode(r, t) == Resend(r, t)
ResendBackupEmail2FACode(r, t) == Resend(r, t)

IsTrustedDeviceEnabled == app.trusts
FindTrustedDevice(r) == \E d \in devices : d[1] = req[r].agent

\* The client presents its cookie or none.  A row that is found skips the
\* factor: CreateSessionForUser answers with tokens at once.
ValidateTrustedDevice(r) ==
  /\ At(r, "device")
  /\ Goto(r, "idle")
  /\ \/ UNCHANGED skipped
     \/ /\ FindTrustedDevice(r)
        /\ skipped' = (skipped \/ ~ IsTrustedDeviceEnabled)
  /\ UNCHANGED <<row, app, temps, mail, devices, issued, served, errors, honoured,
                 overlap>>

-----------------------------------------------------------------------------
(* VerifyLogin: the temporary token, one factor, the session. *)

\* It may present a recovery code, a code that was mailed, or a TOTP.
VerifyLogin(r, t, a) ==
  /\ t \in temps
  /\ \/ \E c \in Recovery :
          Begin(r, [Idle EXCEPT !.pc = "recovery", !.temp = t, !.agent = a,
                                !.recovery = c])
     \/ \E n \in 0..issued.mails :
          Begin(r, [Idle EXCEPT !.pc = "factor", !.temp = t, !.agent = a, !.code = n])
  /\ UNCHANGED <<row, app, temps, mail, devices, issued, errors>>

VerifyTOTP(r) == row.method = "totp" /\ req[r].code = 0
VerifyMailedCode(r) == row.method = "email" /\ req[r].code = mail /\ mail # 0

\* GetUserTwoFAMethod and the comparison: with the code of the key, or a TOTP.
\* A refused code ends the request.
VerifyFactor(r) ==
  LET right == VerifyTOTP(r) \/ VerifyMailedCode(r) IN
  /\ At(r, "factor")
  /\ Goto(r, IF ~ right THEN "idle" ELSE IF req[r].code = 0 THEN "session"
             ELSE "drop_mail")
  /\ UNCHANGED <<row, app, temps, mail, devices, issued, served, errors, history>>

\* A DEL that fails is logged.  The code is gone whichever one it was by now.
Delete2FAEmailCode(r) ==
  /\ At(r, "drop_mail")
  /\ \/ /\ mail' = 0
        /\ Goto(r, "session")
        /\ UNCHANGED <<row, app, temps, devices, issued, served, errors, history>>
     \/ Fail(r, "session")

VerifyRecoveryCode(r) ==
  /\ At(r, "recovery")
  /\ IF row.method # "" /\ req[r].recovery \in row.codes
       THEN req' = [req EXCEPT ![r].pc = "rewrite", ![r].list = row.codes]
       ELSE Goto(r, "idle")
  /\ UNCHANGED <<row, app, temps, mail, devices, issued, served, errors, history>>

\* Mutant of Remaining: the code stays in the list.
RemainingAll(list, c) == list

Remaining(list, c) == list \ {c}

\* The list that was read is written back without the code.
UpdateRecoveryCodes(r) ==
  /\ At(r, "rewrite")
  /\ row' = [row EXCEPT !.codes = Remaining(req[r].list, req[r].recovery)]
  /\ Goto(r, "session")
  /\ UNCHANGED <<app, temps, mail, devices, issued, served, errors, history>>

\* Neither the account nor the temporary token is looked at again.
CreateSession(r) ==
  LET Count(n, presented) == n + (IF presented THEN 1 ELSE 0) IN
  /\ At(r, "session")
  /\ honoured' =
       [temps |-> [t \in Temp |-> Count(honoured.temps[t], t = req[r].temp)],
        mails |-> [n \in 1..MaxMails |-> Count(honoured.mails[n], n = req[r].code)],
        recovery |-> [c \in Recovery |-> Count(honoured.recovery[c],
                                               c = req[r].recovery)]]
  /\ Goto(r, "clear")
  /\ UNCHANGED <<row, app, temps, mail, devices, issued, served, errors, skipped,
                 overlap>>

\* The client may have asked to be remembered.
ClearTempSession(r) ==
  /\ At(r, "clear")
  /\ \E step \in IF IsTrustedDeviceEnabled THEN {"idle", "dedup"} ELSE {"idle"} :
       \/ /\ temps' = temps \ {req[r].temp}
          /\ Goto(r, step)
          /\ UNCHANGED <<row, app, mail, devices, issued, served, errors, history>>
       \/ Fail(r, step)

-----------------------------------------------------------------------------
(* Trusted devices. *)

\* Mutant of SameAgent: nothing is the same.
SameAgentNever(a) == {}

SameAgent(a) == {d \in devices : d[1] = a}

DeleteByUserAppAndUserAgent(r) ==
  /\ At(r, "dedup")
  /\ devices' = devices \ SameAgent(req[r].agent)
  /\ Goto(r, "create")
  /\ UNCHANGED <<row, app, temps, mail, issued, served, errors, history>>

CreateTrustedDevice(r) ==
  /\ At(r, "create") /\ issued.devices < MaxDevices
  /\ issued' = [issued EXCEPT !.devices = @ + 1]
  /\ devices' = devices \cup {<<req[r].agent, issued.devices + 1>>}
  /\ Goto(r, "idle")
  /\ UNCHANGED <<row, app, temps, mail, served, errors, history>>

\* One DELETE, of a device or of all.
RevokeTrustedDevice(r) ==
  /\ \E d \in devices : devices' = devices \ {d}
  /\ Begin(r, Idle)
  /\ UNCHANGED <<row, app, temps, mail, issued, errors>>

RevokeAllTrustedDevices(r) ==
  /\ devices # {} /\ devices' = {}
  /\ Begin(r, Idle)
  /\ UNCHANGED <<row, app, temps, mail, issued, errors>>

\* The user, the API and the console's button for one device.
RevokeTrustedDevices(r) == RevokeTrustedDevice(r) \/ RevokeAllTrustedDevices(r)
AdminRevokeTrustedDevice(r) == RevokeTrustedDevice(r)
AdminRevokeAllTrustedDevices(r) == RevokeAllTrustedDevices(r)
UserRevokeTrustedDevice(r) == RevokeTrustedDevice(r)

\* By the administrator's console: a SELECT, and a DELETE for each row.
FindAllForUser(r) ==
  /\ devices # {}
  /\ Begin(r, [Idle EXCEPT !.pc = "revoke", !.found = devices])
  /\ UNCHANGED <<row, app, temps, mail, devices, issued, errors>>
DeleteByID(r) ==
  /\ At(r, "revoke")
  /\ \E d \in req[r].found :
       LET left == req[r].found \ {d} IN
       /\ devices' = devices \ {d}
       /\ req' = [req EXCEPT ![r] = IF left = {} THEN Idle ELSE [@ EXCEPT !.found = left]]
  /\ UNCHANGED <<row, app, temps, mail, issued, served, errors, history>>

-----------------------------------------------------------------------------
(* The factor and the account change meanwhile. *)

\* Mutant of NewCodes: the codes that are left are kept.
NewCodesAdded == row.codes \cup Batch(issued.batches + 1)

NewCodes == Batch(issued.batches + 1)

\* VerifyTOTP and GenerateNewRecoveryCodes read the row, which is then written.
GenerateNewRecoveryCodes(r) ==
  /\ row.method = "totp"
  /\ Begin(r, [Idle EXCEPT !.pc = "regenerate"])
  /\ UNCHANGED <<row, app, temps, mail, devices, issued, errors>>
StoreNewCodes(r) ==
  /\ At(r, "regenerate") /\ issued.batches < MaxBatches
  /\ issued' = [issued EXCEPT !.batches = @ + 1]
  /\ row' = [row EXCEPT !.codes = NewCodes]
  /\ Goto(r, "idle")
  /\ UNCHANGED <<app, temps, mail, devices, served, errors, history>>

\* Enrolment has the details.
Enable2FAWithMethod(r, method) ==
  /\ issued.batches < MaxBatches
  /\ issued' = [issued EXCEPT !.batches = @ + 1]
  /\ row' = [row EXCEPT !.method = method, !.codes = NewCodes]
  /\ Begin(r, Idle)
  /\ UNCHANGED <<app, temps, mail, devices, errors>>
Disable2FA(r) ==
  /\ row.method # ""
  /\ row' = [row EXCEPT !.method = "", !.codes = {}]
  /\ Begin(r, Idle)
  /\ UNCHANGED <<app, temps, mail, devices, issued, errors>>

\* The administrator toggles the account, or the switch of the application.
ToggleUserActive(r) ==
  /\ row' = [row EXCEPT !.active = ~ @]
  /\ Begin(r, Idle)
  /\ UNCHANGED <<app, temps, mail, devices, issued, errors>>
UpdateAppSMSTrustedDevice(r) ==
  /\ app' = [app EXCEPT !.trusts = ~ @]
  /\ Begin(r, Idle)
  /\ UNCHANGED <<row, temps, mail, devices, issued, errors>>

\* Keys and rows lapse.
Expire ==
  /\ \/ \E t \in temps : temps' = temps \ {t} /\ UNCHANGED <<mail, devices>>
     \/ mail # 0 /\ mail' = 0 /\ UNCHANGED <<temps, devices>>
     \/ \E d \in devices : devices' = devices \ {d} /\ UNCHANGED <<temps, mail>>
  /\ UNCHANGED <<row, app, req, issued, served, errors, history>>

Next ==
  \/ Expire
  \/ \E r \in Req :
       \/ \E a \in Agent : LoginUser(r, a) \/ \E t \in Temp : VerifyLogin(r, t, a)
       \/ \E t \in Temp : ResendEmail2FACode(r, t) \/ ResendSMS2FACode(r, t)
                           \/ ResendBackupEmail2FACode(r, t)
       \/ Set2FAEmailCode(r) \/ GenerateEmail2FACode(r) \/ GenerateSMS2FACode(r)
       \/ GenerateBackupEmail2FACode(r)
       \/ SetTempUserSession(r) \/ ValidateTrustedDevice(r)
       \/ VerifyFactor(r) \/ Delete2FAEmailCode(r)
       \/ VerifyRecoveryCode(r) \/ UpdateRecoveryCodes(r)
       \/ CreateSession(r) \/ ClearTempSession(r)
       \/ DeleteByUserAppAndUserAgent(r) \/ CreateTrustedDevice(r)
       \/ RevokeTrustedDevices(r) \/ AdminRevokeTrustedDevice(r)
       \/ AdminRevokeAllTrustedDevices(r) \/ UserRevokeTrustedDevice(r)
       \/ FindAllForUser(r) \/ DeleteByID(r)
       \/ GenerateNewRecoveryCodes(r) \/ StoreNewCodes(r)
       \/ \E method \in {"totp", "email"} : Enable2FAWithMethod(r, method)
       \/ Disable2FA(r) \/ ToggleUserActive(r) \/ UpdateAppSMSTrustedDevice(r)

Spec == Init /\ [][Next]_vars

-----------------------------------------------------------------------------
(* Properties. *)

\* The variables have their types.
TypeOK ==
  /\ row \in [active : BOOLEAN, method : {"", "totp", "email"},
              codes : SUBSET Recovery]
  /\ app \in [trusts : BOOLEAN]
  /\ temps \subseteq issued.temps /\ issued.temps \subseteq Temp
  /\ mail \in 0..issued.mails /\ devices \subseteq Agent \X (1..issued.devices)
  /\ issued.batches \in 1..MaxBatches
  /\ req \in [Req -> Request] /\ served \in 0..MaxRequests /\ errors \in 0..MaxErrors
  /\ honoured \in [temps : [Temp -> Nat], mails : [1..MaxMails -> Nat],
                   recovery : [Recovery -> Nat]]
  /\ skipped \in BOOLEAN /\ overlap \in BOOLEAN

\* A temporary token, a mailed code or a recovery code leads to one sign-in:
\* more only when requests overlapped, and, unless it is a recovery code, which
\* a stale list brings back, at most one for each; or when it could not be
\* deleted (twofa/service.go:359-375, 231-264, twofa/handler.go:443).
HonouredOnce ==
  LET most == IF overlap THEN Cardinality(Req) ELSE 1 IN
  errors = 0 =>
    /\ \A t \in Temp : honoured.temps[t] <= most
    /\ \A n \in 1..MaxMails : honoured.mails[n] <= most
    /\ \A c \in Recovery : overlap \/ honoured.recovery[c] <= 1

\* Recovery codes that were replaced are void, unless the list of a request that
\* overlapped another brings them back (twofa/service.go:248-255, 280-286).
OldCodesDie == overlap \/ row.codes \subseteq Batch(issued.batches)

\* A browser has one device: each sign-in that is remembered replaces the row of
\* the one before (twofa/service.go:810-816), unless two overlap.
OneDevicePerAgent == overlap \/ \A d, e \in devices : d[1] = e[1] => d = e

\* "IsTrustedDeviceEnabled checks if trusted-device skipping is enabled for the
\* given app" (twofa/service.go:909): the factor is skipped only while it is, or by
\* a request that overlaps the change of the switch.
SkippingIsEnabled == skipped => overlap

\* Whatever signs in, a token, a code or a device, does so once, and not after it was
\* replaced, but for the overlaps named above (internal/twofa/service.go:255,
\* internal/twofa/handler.go:457).
FactorsOnce == TypeOK /\ HonouredOnce /\ OldCodesDie /\ OneDevicePerAgent
=============================================================================
