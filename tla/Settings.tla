-------------------------------- MODULE Settings --------------------------------
(***************************************************************************)
(* System settings: the console's page (internal/admin/gui_handler.go), the *)
(* service that resolves a setting (internal/admin/settings_service.go) and *)
(* its table.  A variable of the process's environment comes before the row *)
(* in the database, and the row before the default.                         *)
(*                                                                         *)
(* The service resolves a setting in two places: for the console, and for   *)
(* the one setting the program takes from it, the policy of the cookie of a *)
(* trusted device (internal/twofa/handler.go).                              *)
(***************************************************************************)
EXTENDS Naturals, FiniteSets

CONSTANTS
  Key,            \* settings of one category
  Cookie,         \* the one the program takes from the service
  TypeOf,         \* the type of each setting
  Value,          \* what an administrator may type
  Valid,          \* the values of each type
  DefaultValue,   \* the default of each setting
  Release,        \* whether the process runs in release mode
  Req,            \* console requests in progress
  MaxRequests,    \* bound: requests that are begun
  MaxRestarts,    \* bound: restarts of the process, with another environment
  MaxErrors,      \* bound: statements that fail
  None            \* no value

\* What the code lets the constants be.
SettingsAssumption ==
  /\ Cookie \in Key /\ TypeOf \in [Key -> DOMAIN Valid] /\ None \notin Value
  /\ \A k \in Key : DefaultValue[k] \in Valid[TypeOf[k]] \cap Value
  /\ Release \in BOOLEAN
  /\ MaxRequests \in Nat /\ MaxRestarts \in Nat /\ MaxErrors \in Nat

VARIABLES
  env,        \* the environment of the process
  table,      \* the rows of system_settings
  req,        \* console requests in progress
  served,     \* requests begun so far
  restarts,   \* restarts so far
  errors,     \* statements that have failed so far
  shown,      \* history: the last row the console showed, until the setting changes
  taken,      \* history: the attributes of the last cookie, until the setting changes
  answered    \* history: whether a saved value was shown to be another one, alone

vars == <<env, table, req, served, restarts, errors, shown, taken, answered>>

Maybe == Value \cup {None}
Source == {"env", "db", "default"}
NoReq == [pc |-> "idle", key |-> None, value |-> None, alone |-> FALSE]
Request == [pc : {"idle", "save", "delete", "row"}, key : Key \cup {None}, value : Maybe,
            alone : BOOLEAN]
NoRow == [value |-> None, source |-> "default"]
Attributes == [sameSite : {"strict", "lax", "none"}, secure : BOOLEAN]

Init ==
  /\ env = [k \in Key |-> None] /\ table = [k \in Key |-> None]
  /\ req = [r \in Req |-> NoReq] /\ served = 0 /\ restarts = 0 /\ errors = 0
  /\ shown = [k \in Key |-> NoRow] /\ taken = None /\ answered = TRUE

At(r, pc) == req[r].pc = pc

\* A request that begins while others are served makes none of them alone.
Begin(r, first) ==
  /\ At(r, "idle") /\ served < MaxRequests /\ served' = served + 1
  /\ LET alone == \A s \in Req : At(s, "idle") IN
       req' = [s \in Req |-> IF s = r THEN [first EXCEPT !.alone = alone]
                             ELSE [req[s] EXCEPT !.alone = FALSE]]

Goto(r, next) == req' = [req EXCEPT ![r] = next]

\* What was shown and taken of a setting is of no account once it changes.
Changed(k) ==
  /\ shown' = [shown EXCEPT ![k] = NoRow] /\ taken' = IF k = Cookie THEN None ELSE taken

-----------------------------------------------------------------------------
(* Resolving a setting                                                     *)

\* The row of a setting on the page, from the rows the database returned.
resolveSetting(k, stored) ==
  CASE env[k] # None -> [value |-> env[k], source |-> "env"]
    [] env[k] = None /\ stored # None -> [value |-> stored, source |-> "db"]
    [] OTHER -> [value |-> DefaultValue[k], source |-> "default"]

ResolveCategorySettings == [k \in Key |-> resolveSetting(k, table[k])]

\* All categories are resolved alike, from the whole table.
SettingsPage ==
  /\ shown' = ResolveCategorySettings
  /\ UNCHANGED <<env, table, req, served, restarts, errors, taken, answered>>

\* The section of one category.
SettingsSection == SettingsPage

\* Mutant of GetResolvedValue: the row in the database comes first.
DatabaseFirst(k, rows) ==
  CASE rows[k] # None -> rows[k] [] rows[k] = None /\ env[k] # None -> env[k]
    [] OTHER -> DefaultValue[k]

\* Without the rows, when they cannot be read, the default is left.
GetResolvedValue(k, rows) ==
  CASE env[k] # None -> env[k] [] env[k] = None /\ rows[k] # None -> rows[k]
    [] OTHER -> DefaultValue[k]

NoRows == [k \in Key |-> None]

\* Any other policy is "none", of which browsers accept secure cookies only.
trustedDeviceCookieAttrs(policy) ==
  LET known == policy \in {"strict", "lax"} IN
  [sameSite |-> IF known THEN policy ELSE "none", secure |-> Release \/ ~known]

TrustedDeviceCookie ==
  /\ \/ /\ taken' = trustedDeviceCookieAttrs(GetResolvedValue(Cookie, table))
        /\ UNCHANGED errors
     \/ /\ errors < MaxErrors /\ errors' = errors + 1
        /\ taken' = trustedDeviceCookieAttrs(GetResolvedValue(Cookie, NoRows))
  /\ UNCHANGED <<env, table, req, served, restarts, shown, answered>>

-----------------------------------------------------------------------------
(* Changing a setting                                                      *)

validateSettingValue(k, v) == v \in Valid[TypeOf[k]]

\* A setting of the environment is read-only, and the value must be of its type.
SettingUpdate(r) ==
  \E k \in Key, v \in Value :
    /\ env[k] = None /\ validateSettingValue(k, v)
    /\ Begin(r, [NoReq EXCEPT !.pc = "save", !.key = k, !.value = v])
    /\ UNCHANGED <<env, table, restarts, errors, shown, taken, answered>>

\* Mutant of Upserted: the row that exists is left alone.
UpsertedNot(k, v) == IF table[k] = None THEN v ELSE table[k]

Upserted(k, v) == v

UpsertSetting(r) ==
  /\ At(r, "save")
  /\ table' = [table EXCEPT ![req[r].key] = Upserted(req[r].key, req[r].value)]
  /\ Changed(req[r].key) /\ Goto(r, [req[r] EXCEPT !.pc = "row"])
  /\ UNCHANGED <<env, served, restarts, errors, answered>>

\* A row is removed whether or not the environment hides it.
SettingReset(r) ==
  \E k \in Key :
    /\ Begin(r, [NoReq EXCEPT !.pc = "delete", !.key = k])
    /\ UNCHANGED <<env, table, restarts, errors, shown, taken, answered>>

DeleteSetting(r) ==
  /\ At(r, "delete")
  /\ table' = [table EXCEPT ![req[r].key] = None]
  /\ Changed(req[r].key) /\ Goto(r, [req[r] EXCEPT !.pc = "row"])
  /\ UNCHANGED <<env, served, restarts, errors, answered>>

\* The answer shows the row as it now is, or says "saved" when it cannot be read.
ShowRow(r) ==
  LET k == req[r].key
      row == resolveSetting(k, table[k])
      wanted == IF req[r].value = None THEN DefaultValue[k] ELSE req[r].value IN
  /\ At(r, "row") /\ Goto(r, NoReq)
  /\ shown' = [shown EXCEPT ![k] = row]
  /\ answered' = (answered /\ (req[r].alone /\ row.source # "env" => row.value = wanted))
  /\ UNCHANGED <<env, table, served, restarts, errors, taken>>

\* A statement fails.
Fail(r) ==
  /\ ~At(r, "idle") /\ errors < MaxErrors /\ errors' = errors + 1 /\ Goto(r, NoReq)
  /\ UNCHANGED <<env, table, served, restarts, shown, taken, answered>>

\* The environment of a process never changes; that of the next one may.
Restart ==
  /\ restarts < MaxRestarts /\ restarts' = restarts + 1
  /\ \E k \in Key, v \in Maybe : env' = [env EXCEPT ![k] = v]
  /\ req' = [r \in Req |-> NoReq]
  /\ shown' = [k \in Key |-> NoRow] /\ taken' = None
  /\ UNCHANGED <<table, served, errors, answered>>

Next ==
  \/ SettingsPage \/ SettingsSection \/ TrustedDeviceCookie \/ Restart
  \/ \E r \in Req : \/ SettingUpdate(r) \/ UpsertSetting(r) \/ SettingReset(r)
                    \/ DeleteSetting(r) \/ ShowRow(r) \/ Fail(r)

Spec == Init /\ [][Next]_vars

-----------------------------------------------------------------------------
(* Properties                                                              *)

\* Rows and requests keep to the values the code gives them.
TypeOK ==
  /\ env \in [Key -> Maybe] /\ table \in [Key -> Maybe] /\ req \in [Req -> Request]
  /\ served \in 0 .. MaxRequests /\ restarts \in 0 .. MaxRestarts
  /\ errors \in 0 .. MaxErrors /\ taken \in Attributes \cup {None}
  /\ shown \in [Key -> [value : Maybe, source : Source]]

\* As long as the policy is not changed cookies are sent under the one the console
\* shows, through restarts that hide a stored row and bring it back, unless the rows
\* could not be read (internal/admin/settings_service.go:332 and 393, two resolutions
\* of one setting; internal/twofa/handler.go:740).
ShownIsUsed ==
  (shown[Cookie] # NoRow /\ taken # None /\ errors = 0) =>
    IF taken.sameSite = "none" THEN shown[Cookie].value \notin {"strict", "lax"}
    ELSE shown[Cookie].value = taken.sameSite

\* A request that is served alone answers with the value it saved, or with the default
\* after a reset (internal/admin/gui_handler.go:2385 and 2427).
AnswersWithSaved == answered

\* What is saved, what is shown and what is used agree
\* (internal/admin/settings_service.go:332, 393).
SettingsAgree == TypeOK /\ ShownIsUsed /\ AnswersWithSaved
=============================================================================
