---------------------------- MODULE ConsoleProofs ----------------------------
(***************************************************************************)
(* What MCConsole promises of three of the modules that it runs side by    *)
(* side, those of what administrators work on: Settings, Applications and  *)
(* EmailConfig.  Each has a section, with its invariant, a lemma for each  *)
(* of its steps and, at its end, the theorem about AllSpec.                *)
(***************************************************************************)
EXTENDS MCConsole, FiniteSetTheorems, TLAPS

-----------------------------------------------------------------------------
(***************************************************************************)
(* SettingsAgree of Settings, for any settings, values and number of       *)
(* requests, restarts and failures.                                        *)
(*                                                                         *)
(* ShownIsUsed compares two things remembered from two moments.  Each of   *)
(* them agrees with the table and the environment as they are now, since   *)
(* both are forgotten when these change.  AnswersWithSaved needs a request *)
(* that is served alone to find the row as it saved it.                    *)
(***************************************************************************)

\* What was shown and taken last is what would be now.
ShownNow ==
  \A k \in SettingKey : shown[k] # S!NoRow => shown[k] = S!resolveSetting(k, table[k])
TakenNow ==
  taken # None /\ errors = 0 =>
    taken = S!trustedDeviceCookieAttrs(S!GetResolvedValue(Cookie, table))

\* What a request is about, and what it has done when it is alone.
SettingRequests ==
  \A r \in Req :
    /\ settingReq[r].pc # "idle" => settingReq[r].key \in SettingKey
    /\ settingReq[r].pc = "save" => settingReq[r].value \in Value
    /\ settingReq[r].pc = "delete" => settingReq[r].value = None
    /\ settingReq[r].alone => \A s \in Req \ {r} : settingReq[s].pc = "idle"
    /\ settingReq[r].alone /\ settingReq[r].pc = "row" =>
         table[settingReq[r].key] = settingReq[r].value

SettingsInv ==
  /\ S!TypeOK /\ ShownNow /\ TakenNow /\ SettingRequests /\ answered

-----------------------------------------------------------------------------
LEMMA SettingConstants ==
  /\ Cookie \in SettingKey /\ None \notin Value /\ Release \in BOOLEAN
  /\ \A k \in SettingKey : DefaultValue[k] \in Value
  /\ MaxSmall \in Nat /\ MaxRestarts \in Nat /\ MaxErrors \in Nat
<1>1. S!SettingsAssumption
  BY ConsoleAssumption, Zenon
<1>2. QED
  BY <1>1 DEF S!SettingsAssumption

LEMMA SettingsTyped ==
  ASSUME S!TypeOK
  PROVE  /\ env \in [SettingKey -> Value \cup {None}]
         /\ table \in [SettingKey -> Value \cup {None}]
         /\ settingReq \in [Req -> S!Request]
         /\ served \in 0 .. MaxSmall /\ restarts \in 0 .. MaxRestarts
         /\ errors \in 0 .. MaxErrors /\ taken \in S!Attributes \cup {None}
         /\ shown \in [SettingKey -> [value : Value \cup {None}, source : S!Source]]
BY Zenon DEF S!TypeOK, S!Maybe

LEMMA SettingRequestTyped ==
  ASSUME S!TypeOK, NEW r \in Req
  PROVE  /\ settingReq[r] \in S!Request
         /\ settingReq[r].pc \in {"idle", "save", "delete", "row"}
         /\ settingReq[r].key \in SettingKey \cup {None}
         /\ settingReq[r].value \in Value \cup {None}
         /\ settingReq[r].alone \in BOOLEAN
<1>1. settingReq[r] \in S!Request
  <2>. HIDE DEF S!Request
  <2>1. QED
    BY SettingsTyped
<1>2. QED
  BY <1>1 DEF S!Request, S!Maybe

\* The row of a setting: the environment, or the table, or the default.
LEMMA Resolved ==
  ASSUME S!TypeOK, NEW k \in SettingKey, NEW x, x = S!resolveSetting(k, table[k])
  PROVE  /\ x \in [value : Value \cup {None}, source : S!Source]
         /\ x.value = S!GetResolvedValue(k, table)
         /\ env[k] # None => x.source = "env"
         /\ env[k] = None => x.value = IF table[k] # None THEN table[k] ELSE DefaultValue[k]
         /\ x.source # "env" => env[k] = None
<1>1. /\ env[k] \in Value \cup {None} /\ table[k] \in Value \cup {None}
      /\ DefaultValue[k] \in Value /\ None \notin Value
  BY SettingsTyped, SettingConstants
<1>2. CASE env[k] # None
  <2>1. x = [value |-> env[k], source |-> "env"] /\ S!GetResolvedValue(k, table) = env[k]
    BY <1>2 DEF S!resolveSetting, S!GetResolvedValue
  <2>2. QED
    BY <1>1, <1>2, <2>1 DEF S!Source
<1>3. CASE env[k] = None /\ table[k] # None
  <2>1. /\ x = [value |-> table[k], source |-> "db"]
        /\ S!GetResolvedValue(k, table) = table[k]
    BY <1>3 DEF S!resolveSetting, S!GetResolvedValue
  <2>2. QED
    BY <1>1, <1>3, <2>1 DEF S!Source
<1>4. CASE env[k] = None /\ table[k] = None
  <2>1. /\ x = [value |-> DefaultValue[k], source |-> "default"]
        /\ S!GetResolvedValue(k, table) = DefaultValue[k]
    BY <1>4 DEF S!resolveSetting, S!GetResolvedValue
  <2>2. QED
    BY <1>1, <1>4, <2>1 DEF S!Source
<1>5. QED
  BY <1>2, <1>3, <1>4

LEMMA WhatAgrees ==
  ASSUME SettingsInv
  PROVE  S!SettingsAgree
<1>0. S!TypeOK /\ ShownNow /\ TakenNow /\ answered
  BY Zenon DEF SettingsInv
<1>1. ASSUME shown[Cookie] # S!NoRow, taken # None, errors = 0
      PROVE  IF taken.sameSite = "none" THEN shown[Cookie].value \notin {"strict", "lax"}
             ELSE shown[Cookie].value = taken.sameSite
  <2>. DEFINE v == S!GetResolvedValue(Cookie, table)
              x == S!resolveSetting(Cookie, table[Cookie])
  <2>1. shown[Cookie] = x
    BY <1>0, <1>1, SettingConstants DEF ShownNow
  <2>2. x.value = v
    BY <1>0, SettingConstants, Resolved, Zenon
  <2>3. taken = S!trustedDeviceCookieAttrs(v)
    BY <1>0, <1>1, Zenon DEF TakenNow
  <2>. HIDE DEF v, x
  <2>4. taken.sameSite = IF v \in {"strict", "lax"} THEN v ELSE "none"
    BY <2>3 DEF S!trustedDeviceCookieAttrs
  <2>5. QED
    BY <2>1, <2>2, <2>4
<1>2. S!ShownIsUsed
  BY <1>1, Zenon DEF S!ShownIsUsed
<1>3. QED
  BY <1>0, <1>2, Zenon DEF S!SettingsAgree, S!AnswersWithSaved

-----------------------------------------------------------------------------
(* Steps of the settings. *)

\* The requests, with the value of one replaced.
LEMMA SettingGoes ==
  ASSUME S!TypeOK, NEW r \in Req, NEW x \in S!Request, S!Goto(r, x)
  PROVE  /\ settingReq' \in [Req -> S!Request] /\ settingReq'[r] = x
         /\ \A s \in Req : s # r => settingReq'[s] = settingReq[s]
<1>1. settingReq \in [Req -> S!Request]
  BY SettingsTyped
<1>. HIDE DEF S!Request
<1>2. QED
  BY <1>1 DEF S!Goto

\* A request begins: none that is served, if there is one, is alone.
LEMMA SettingBegins ==
  ASSUME SettingsInv, NEW r \in Req, NEW k \in SettingKey, NEW p \in {"save", "delete"},
         NEW v, (v = None /\ p = "delete") \/ (v \in Value /\ p = "save"),
         S!Begin(r, [pc |-> p, key |-> k, value |-> v, alone |-> FALSE]),
         UNCHANGED <<env, table, restarts, errors, shown, taken, answered>>
  PROVE  SettingsInv'
<1>0. /\ S!TypeOK /\ ShownNow /\ TakenNow /\ SettingRequests /\ answered
  BY Zenon DEF SettingsInv
<1>. DEFINE alone == \A s \in Req : settingReq[s].pc = "idle"
            x == [pc |-> p, key |-> k, value |-> v, alone |-> alone]
<1>1. /\ settingReq[r].pc = "idle" /\ served < MaxSmall /\ served' = served + 1
      /\ settingReq' = [s \in Req |-> IF s = r THEN x
                                      ELSE [settingReq[s] EXCEPT !.alone = FALSE]]
  <2>. DEFINE first == [pc |-> p, key |-> k, value |-> v, alone |-> FALSE]
  <2>1. /\ settingReq[r].pc = "idle" /\ served < MaxSmall /\ served' = served + 1
        /\ settingReq' = [s \in Req |-> IF s = r THEN [first EXCEPT !.alone = alone]
                                        ELSE [settingReq[s] EXCEPT !.alone = FALSE]]
    BY Zenon DEF S!Begin, S!At
  <2>. HIDE DEF alone
  <2>2. [first EXCEPT !.alone = alone] = x
    OBVIOUS
  <2>. HIDE DEF first, x
  <2>3. QED
    BY <2>1, <2>2
<1>2. x \in S!Request
  BY DEF S!Request, S!Maybe
<1>3. /\ settingReq'[r].pc = p /\ settingReq'[r].key = k /\ settingReq'[r].value = v
      /\ settingReq'[r].alone = alone
  BY <1>1
<1>4. ASSUME NEW s \in Req, s # r
      PROVE  /\ settingReq'[s] \in S!Request /\ settingReq'[s].pc = settingReq[s].pc
             /\ settingReq'[s].key = settingReq[s].key
             /\ settingReq'[s].value = settingReq[s].value /\ settingReq'[s].alone = FALSE
  <2>1. settingReq'[s] = [settingReq[s] EXCEPT !.alone = FALSE]
    BY <1>1, <1>4
  <2>2. settingReq[s] \in S!Request
    BY <1>0, SettingRequestTyped
  <2>3. QED
    BY <2>1, <2>2 DEF S!Request
<1>5. settingReq' \in [Req -> S!Request]
  <2>1. \A s \in Req : settingReq'[s] \in S!Request
    <3>1. settingReq'[r] = x
      BY <1>1
    <3>. HIDE DEF x
    <3>2. QED
      BY <1>2, <1>4, <3>1, Zenon
  <2>2. settingReq' = [s \in Req |-> settingReq'[s]]
    BY <1>1
  <2>. HIDE DEF x, alone, S!Request
  <2>3. QED
    BY <2>1, <2>2
<1>6. S!TypeOK'
  <2>1. served' \in 0 .. MaxSmall
    BY <1>0, <1>1, SettingsTyped, SettingConstants
  <2>2. UNCHANGED <<env, table, restarts, errors, shown, taken, answered>>
    OBVIOUS
  <2>3. QED
    BY <1>0, <1>5, <2>1, <2>2, Zenon DEF S!TypeOK
<1>7. SettingRequests'
  <2>. SUFFICES ASSUME NEW q \in Req
                PROVE  /\ settingReq'[q].pc # "idle" => settingReq'[q].key \in SettingKey
                       /\ settingReq'[q].pc = "save" => settingReq'[q].value \in Value
                       /\ settingReq'[q].pc = "delete" => settingReq'[q].value = None
                       /\ settingReq'[q].alone =>
                            \A s \in Req \ {q} : settingReq'[s].pc = "idle"
                       /\ settingReq'[q].alone /\ settingReq'[q].pc = "row" =>
                            table'[settingReq'[q].key] = settingReq'[q].value
    BY DEF SettingRequests
  <2>1. CASE q = r
    BY <1>3, <1>4, <2>1
  <2>2. CASE q # r
    BY <1>0, <1>4, <2>2 DEF SettingRequests
  <2>3. QED
    BY <2>1, <2>2
<1>8. ShownNow' /\ TakenNow' /\ answered'
  <2>1. ShownNow'
    BY <1>0 DEF ShownNow, S!resolveSetting
  <2>2. TakenNow'
    BY <1>0 DEF TakenNow, S!GetResolvedValue
  <2>3. QED
    BY <1>0, <2>1, <2>2
<1>9. QED
  BY <1>6, <1>7, <1>8, Zenon DEF SettingsInv

LEMMA SettingUpdateKeeps ==
  ASSUME SettingsInv, NEW r \in Req, S!SettingUpdate(r) \/ S!SettingReset(r)
  PROVE  SettingsInv'
<1>1. CASE S!SettingUpdate(r)
  <2>1. PICK k \in SettingKey, v \in Value :
          /\ S!Begin(r, [S!NoReq EXCEPT !.pc = "save", !.key = k, !.value = v])
          /\ UNCHANGED <<env, table, restarts, errors, shown, taken, answered>>
    BY <1>1, Zenon DEF S!SettingUpdate
  <2>2. S!Begin(r, [pc |-> "save", key |-> k, value |-> v, alone |-> FALSE])
    <3>. DEFINE w == [S!NoReq EXCEPT !.pc = "save", !.key = k, !.value = v]
    <3>0. w \in [pc : {"save"}, key : {k}, value : {v}, alone : {FALSE}]
      BY DEF S!NoReq
    <3>. HIDE DEF w
    <3>1. w = [pc |-> "save", key |-> k, value |-> v, alone |-> FALSE]
      BY <3>0
    <3>2. QED
      BY <2>1, <3>1, Zenon DEF w
  <2>3. QED
    BY <2>1, <2>2, SettingBegins
<1>2. CASE S!SettingReset(r)
  <2>1. PICK k \in SettingKey :
          /\ S!Begin(r, [S!NoReq EXCEPT !.pc = "delete", !.key = k])
          /\ UNCHANGED <<env, table, restarts, errors, shown, taken, answered>>
    BY <1>2, Zenon DEF S!SettingReset
  <2>. DEFINE w == [S!NoReq EXCEPT !.pc = "delete", !.key = k]
  <2>0. w \in [pc : {"delete"}, key : {k}, value : {None}, alone : {FALSE}]
    BY DEF S!NoReq
  <2>. HIDE DEF w
  <2>2. w = [pc |-> "delete", key |-> k, value |-> None, alone |-> FALSE]
    BY <2>0
  <2>3. S!Begin(r, [pc |-> "delete", key |-> k, value |-> None, alone |-> FALSE])
    BY <2>1, <2>2, Zenon DEF w
  <2>4. QED
    BY <2>1, <2>3, SettingBegins
<1>3. QED
  BY <1>1, <1>2

\* A row is written or deleted: what was shown and taken of it is forgotten.
LEMMA RowChanges ==
  ASSUME SettingsInv, NEW r \in Req,
         settingReq[r].pc \in {"save", "delete"},
         table' = [table EXCEPT ![settingReq[r].key] = settingReq[r].value],
         S!Changed(settingReq[r].key),
         S!Goto(r, [settingReq[r] EXCEPT !.pc = "row"]),
         UNCHANGED <<env, served, restarts, errors, answered>>
  PROVE  SettingsInv'
<1>0. /\ S!TypeOK /\ ShownNow /\ TakenNow /\ SettingRequests /\ answered
  BY Zenon DEF SettingsInv
<1>. DEFINE k == settingReq[r].key
            v == settingReq[r].value
            x == [settingReq[r] EXCEPT !.pc = "row"]
<1>1. /\ settingReq[r] \in S!Request /\ k \in SettingKey /\ v \in Value \cup {None}
      /\ settingReq[r].alone \in BOOLEAN
  BY <1>0, SettingRequestTyped DEF SettingRequests
<1>2. /\ x \in S!Request /\ x.pc = "row" /\ x.key = k /\ x.value = v
      /\ x.alone = settingReq[r].alone
  BY <1>1 DEF S!Request
<1>. HIDE DEF x
<1>3. /\ settingReq' \in [Req -> S!Request] /\ settingReq'[r] = x
      /\ \A s \in Req : s # r => settingReq'[s] = settingReq[s]
  BY <1>0, <1>2, SettingGoes DEF x
<1>4. /\ table' \in [SettingKey -> Value \cup {None}] /\ table'[k] = v
      /\ \A j \in SettingKey : j # k => table'[j] = table[j]
  BY <1>0, <1>1, SettingsTyped
<1>5. /\ shown' \in [SettingKey -> [value : Value \cup {None}, source : S!Source]]
      /\ shown'[k] = S!NoRow
      /\ \A j \in SettingKey : j # k => shown'[j] = shown[j]
  <2>. DEFINE T == [value : Value \cup {None}, source : S!Source]
  <2>1. shown \in [SettingKey -> T] /\ shown' = [shown EXCEPT ![k] = S!NoRow]
    BY <1>0, SettingsTyped DEF S!Changed
  <2>2. S!NoRow \in T
    BY DEF S!NoRow, S!Source
  <2>. HIDE DEF T
  <2>3. shown' \in [SettingKey -> T] /\ shown'[k] = S!NoRow
        /\ \A j \in SettingKey : j # k => shown'[j] = shown[j]
    BY <1>1, <2>1, <2>2
  <2>4. QED
    BY <2>3 DEF T
<1>6. /\ taken' \in S!Attributes \cup {None}
      /\ taken' # None => k # Cookie /\ taken' = taken
  <2>1. taken' = IF k = Cookie THEN None ELSE taken
    BY DEF S!Changed
  <2>2. taken \in S!Attributes \cup {None}
    BY <1>0, SettingsTyped
  <2>3. QED
    BY <2>1, <2>2
<1>. HIDE DEF k, v
<1>7. S!TypeOK'
  <2>1. UNCHANGED <<env, served, restarts, errors, answered>>
    OBVIOUS
  <2>2. QED
    BY <1>0, <1>3, <1>4, <1>5, <1>6, <2>1, Zenon DEF S!TypeOK, S!Maybe
<1>8. ShownNow'
  <2>. SUFFICES ASSUME NEW j \in SettingKey, shown'[j] # S!NoRow
                PROVE  shown'[j] = S!resolveSetting(j, table[j])'
    BY DEF ShownNow
  <2>1. j # k /\ shown'[j] = shown[j] /\ table'[j] = table[j] /\ env' = env
    BY <1>4, <1>5
  <2>2. shown[j] = S!resolveSetting(j, table[j])
    BY <1>0, <2>1 DEF ShownNow
  <2>3. QED
    BY <2>1, <2>2 DEF S!resolveSetting
<1>9. TakenNow'
  <2>. SUFFICES ASSUME taken' # None, errors' = 0
                PROVE  taken' = S!trustedDeviceCookieAttrs(
                                  S!GetResolvedValue(Cookie, table))'
    BY DEF TakenNow
  <2>1. /\ k # Cookie /\ taken' = taken /\ errors = 0 /\ env' = env
        /\ table'[Cookie] = table[Cookie]
    BY <1>4, <1>6, SettingConstants
  <2>2. taken = S!trustedDeviceCookieAttrs(S!GetResolvedValue(Cookie, table))
    BY <1>0, <2>1 DEF TakenNow
  <2>3. S!GetResolvedValue(Cookie, table)' = S!GetResolvedValue(Cookie, table)
    BY <2>1 DEF S!GetResolvedValue
  <2>4. S!trustedDeviceCookieAttrs(S!GetResolvedValue(Cookie, table))'
          = S!trustedDeviceCookieAttrs(S!GetResolvedValue(Cookie, table))
    BY <2>3 DEF S!trustedDeviceCookieAttrs
  <2>5. QED
    BY <2>1, <2>2, <2>4
<1>10. SettingRequests'
  <2>. SUFFICES ASSUME NEW q \in Req
                PROVE  /\ settingReq'[q].pc # "idle" => settingReq'[q].key \in SettingKey
                       /\ settingReq'[q].pc = "save" => settingReq'[q].value \in Value
                       /\ settingReq'[q].pc = "delete" => settingReq'[q].value = None
                       /\ settingReq'[q].alone =>
                            \A s \in Req \ {q} : settingReq'[s].pc = "idle"
                       /\ settingReq'[q].alone /\ settingReq'[q].pc = "row" =>
                            table'[settingReq'[q].key] = settingReq'[q].value
    BY DEF SettingRequests
  <2>1. CASE q = r
    <3>1. settingReq[r].alone => \A s \in Req \ {r} : settingReq[s].pc = "idle"
      BY <1>0 DEF SettingRequests
    <3>2. QED
      BY <1>1, <1>2, <1>3, <1>4, <2>1, <3>1
  <2>2. CASE q # r
    <3>1. settingReq'[q] = settingReq[q]
      BY <1>3, <2>2
    <3>2. /\ settingReq[q].pc # "idle" => settingReq[q].key \in SettingKey
          /\ settingReq[q].pc = "save" => settingReq[q].value \in Value
          /\ settingReq[q].pc = "delete" => settingReq[q].value = None
          /\ settingReq[q].alone => \A s \in Req \ {q} : settingReq[s].pc = "idle"
      BY <1>0 DEF SettingRequests
    <3>3. ~ settingReq[q].alone
      BY <2>2, <3>2
    <3>4. QED
      BY <3>1, <3>2, <3>3
  <2>3. QED
    BY <2>1, <2>2
<1>11. QED
  BY <1>0, <1>7, <1>8, <1>9, <1>10, Zenon DEF SettingsInv

LEMMA UpsertSettingKeeps ==
  ASSUME SettingsInv, NEW r \in Req, S!UpsertSetting(r) \/ S!DeleteSetting(r)
  PROVE  SettingsInv'
<1>1. CASE S!UpsertSetting(r)
  <2>1. /\ settingReq[r].pc = "save" /\ S!Changed(settingReq[r].key)
        /\ table' = [table EXCEPT ![settingReq[r].key] = settingReq[r].value]
        /\ S!Goto(r, [settingReq[r] EXCEPT !.pc = "row"])
        /\ UNCHANGED <<env, served, restarts, errors, answered>>
    BY <1>1 DEF S!UpsertSetting, S!At, S!Upserted
  <2>2. settingReq[r].pc \in {"save", "delete"}
    BY <2>1
  <2>3. QED
    BY <2>1, <2>2, RowChanges, Zenon
<1>2. CASE S!DeleteSetting(r)
  <2>1. /\ settingReq[r].pc = "delete" /\ S!Changed(settingReq[r].key)
        /\ table' = [table EXCEPT ![settingReq[r].key] = None]
        /\ S!Goto(r, [settingReq[r] EXCEPT !.pc = "row"])
        /\ UNCHANGED <<env, served, restarts, errors, answered>>
    BY <1>2 DEF S!DeleteSetting, S!At
  <2>2. settingReq[r].pc \in {"save", "delete"} /\ settingReq[r].value = None
    BY <2>1 DEF SettingsInv, SettingRequests
  <2>3. table' = [table EXCEPT ![settingReq[r].key] = settingReq[r].value]
    BY <2>1, <2>2, Zenon
  <2>4. QED
    BY <2>1, <2>2, <2>3, RowChanges, Zenon
<1>3. QED
  BY <1>1, <1>2

\* What is shown and taken is what is used now; nothing else changes.
LEMMA ShowingKeeps ==
  ASSUME SettingsInv,
         UNCHANGED <<env, table, settingReq, served, restarts, answered>>,
         shown' \in [SettingKey -> [value : Value \cup {None}, source : S!Source]],
         \A k \in SettingKey : shown'[k] = shown[k]
                                 \/ shown'[k] = S!resolveSetting(k, table[k]),
         errors' \in 0 .. MaxErrors, errors' >= errors,
         taken' \in S!Attributes \cup {None},
         errors' = 0 => taken' = taken
                          \/ taken' = S!trustedDeviceCookieAttrs(
                                        S!GetResolvedValue(Cookie, table))
  PROVE  SettingsInv'
<1>0. /\ S!TypeOK /\ ShownNow /\ TakenNow /\ SettingRequests /\ answered
  BY Zenon DEF SettingsInv
<1>1. S!TypeOK'
  BY <1>0, Zenon DEF S!TypeOK, S!Maybe
<1>2. ShownNow'
  BY <1>0 DEF ShownNow, S!resolveSetting
<1>3. TakenNow'
  <2>1. S!GetResolvedValue(Cookie, table)' = S!GetResolvedValue(Cookie, table)
    BY DEF S!GetResolvedValue
  <2>2. S!trustedDeviceCookieAttrs(S!GetResolvedValue(Cookie, table))'
          = S!trustedDeviceCookieAttrs(S!GetResolvedValue(Cookie, table))
    BY <2>1 DEF S!trustedDeviceCookieAttrs
  <2>3. errors' = 0 => errors = 0
    BY <1>0, SettingsTyped, SettingConstants
  <2>4. QED
    BY <1>0, <2>2, <2>3, Zenon DEF TakenNow
<1>4. SettingRequests'
  BY <1>0 DEF SettingRequests
<1>5. QED
  BY <1>0, <1>1, <1>2, <1>3, <1>4, Zenon DEF SettingsInv

LEMMA SettingsPageKeeps ==
  ASSUME SettingsInv, S!SettingsPage
  PROVE  SettingsInv'
<1>0. S!TypeOK
  BY Zenon DEF SettingsInv
<1>1. /\ shown' = [k \in SettingKey |-> S!resolveSetting(k, table[k])]
      /\ UNCHANGED <<env, table, settingReq, served, restarts, errors, taken, answered>>
  BY DEF S!SettingsPage, S!ResolveCategorySettings
<1>2. \A k \in SettingKey : /\ S!resolveSetting(k, table[k])
                                 \in [value : Value \cup {None}, source : S!Source]
                            /\ shown'[k] = S!resolveSetting(k, table[k])
  BY <1>0, <1>1, Resolved
<1>3. shown' \in [SettingKey -> [value : Value \cup {None}, source : S!Source]]
  <2>. DEFINE T == [value : Value \cup {None}, source : S!Source]
              f(k) == S!resolveSetting(k, table[k])
  <2>1. (\A k \in SettingKey : f(k) \in T) /\ shown' = [k \in SettingKey |-> f(k)]
    BY <1>1, <1>2
  <2>. HIDE DEF T, f
  <2>2. shown' \in [SettingKey -> T]
    BY <2>1
  <2>3. QED
    BY <2>2 DEF T
<1>4. errors' \in 0 .. MaxErrors /\ errors' >= errors /\ taken' \in S!Attributes \cup {None}
  BY <1>0, <1>1, SettingsTyped, SettingConstants
<1>5. QED
  BY <1>1, <1>2, <1>3, <1>4, ShowingKeeps, Zenon

LEMMA CookieKeeps ==
  ASSUME SettingsInv, S!TrustedDeviceCookie
  PROVE  SettingsInv'
<1>0. S!TypeOK
  BY Zenon DEF SettingsInv
<1>1. UNCHANGED <<env, table, settingReq, served, restarts, shown, answered>>
  BY DEF S!TrustedDeviceCookie
<1>2. \A p : S!trustedDeviceCookieAttrs(p) \in S!Attributes
  <2>. SUFFICES ASSUME NEW p PROVE S!trustedDeviceCookieAttrs(p) \in S!Attributes
    OBVIOUS
  <2>1. CASE p \in {"strict", "lax"}
    BY <2>1, SettingConstants DEF S!trustedDeviceCookieAttrs, S!Attributes
  <2>2. CASE p \notin {"strict", "lax"}
    BY <2>2, SettingConstants DEF S!trustedDeviceCookieAttrs, S!Attributes
  <2>3. QED
    BY <2>1, <2>2
<1>3. shown' \in [SettingKey -> [value : Value \cup {None}, source : S!Source]]
  BY <1>0, <1>1, SettingsTyped, Zenon
<1>4. CASE /\ taken' = S!trustedDeviceCookieAttrs(S!GetResolvedValue(Cookie, table))
           /\ errors' = errors
  <2>1. errors' \in 0 .. MaxErrors /\ errors' >= errors
    BY <1>0, <1>4, SettingsTyped, SettingConstants
  <2>2. taken' \in S!Attributes \cup {None}
    BY <1>2, <1>4
  <2>3. QED
    BY <1>1, <1>3, <1>4, <2>1, <2>2, ShowingKeeps, Zenon
<1>5. CASE /\ errors < MaxErrors /\ errors' = errors + 1
           /\ taken' = S!trustedDeviceCookieAttrs(S!GetResolvedValue(Cookie, S!NoRows))
  <2>1. errors' \in 0 .. MaxErrors /\ errors' >= errors /\ errors' # 0
    BY <1>0, <1>5, SettingsTyped, SettingConstants
  <2>2. taken' \in S!Attributes \cup {None}
    BY <1>2, <1>5
  <2>3. QED
    BY <1>1, <1>3, <2>1, <2>2, ShowingKeeps, Zenon
<1>6. QED
  BY <1>4, <1>5, Zenon DEF S!TrustedDeviceCookie

\* A request ends: nothing depends on it.
LEMMA SettingEnds ==
  ASSUME SettingsInv, NEW r \in Req, S!Goto(r, S!NoReq)
  PROVE  /\ settingReq' \in [Req -> S!Request]
         /\ table' = table => SettingRequests'
<1>0. S!TypeOK /\ SettingRequests
  BY Zenon DEF SettingsInv
<1>1. S!NoReq \in S!Request
  BY DEF S!NoReq, S!Request, S!Maybe
<1>2. /\ settingReq' \in [Req -> S!Request] /\ settingReq'[r] = S!NoReq
      /\ \A s \in Req : s # r => settingReq'[s] = settingReq[s]
  BY <1>0, <1>1, SettingGoes
<1>3. S!NoReq.pc = "idle" /\ S!NoReq.alone = FALSE
  BY DEF S!NoReq
<1>4. ASSUME table' = table
      PROVE  SettingRequests'
  <2>. SUFFICES ASSUME NEW q \in Req
                PROVE  /\ settingReq'[q].pc # "idle" => settingReq'[q].key \in SettingKey
                       /\ settingReq'[q].pc = "save" => settingReq'[q].value \in Value
                       /\ settingReq'[q].pc = "delete" => settingReq'[q].value = None
                       /\ settingReq'[q].alone =>
                            \A s \in Req \ {q} : settingReq'[s].pc = "idle"
                       /\ settingReq'[q].alone /\ settingReq'[q].pc = "row" =>
                            table'[settingReq'[q].key] = settingReq'[q].value
    BY DEF SettingRequests
  <2>1. CASE q = r
    BY <1>2, <1>3, <2>1
  <2>2. CASE q # r
    <3>1. settingReq'[q] = settingReq[q]
      BY <1>2, <2>2
    <3>2. settingReq[q].alone => \A s \in Req \ {q} : settingReq[s].pc = "idle"
      BY <1>0 DEF SettingRequests
    <3>3. settingReq[q].alone => \A s \in Req \ {q} : settingReq'[s].pc = "idle"
      BY <1>2, <1>3, <3>2
    <3>4. QED
      BY <1>0, <1>4, <3>1, <3>3 DEF SettingRequests
  <2>3. QED
    BY <2>1, <2>2
<1>5. QED
  BY <1>2, <1>4

LEMMA ShowRowKeeps ==
  ASSUME SettingsInv, NEW r \in Req, S!ShowRow(r)
  PROVE  SettingsInv'
<1>0. /\ S!TypeOK /\ ShownNow /\ TakenNow /\ SettingRequests /\ answered
  BY Zenon DEF SettingsInv
<1>. DEFINE k == settingReq[r].key
            row == S!resolveSetting(k, table[k])
            wanted == IF settingReq[r].value = None THEN DefaultValue[k]
                                                    ELSE settingReq[r].value
<1>1. /\ settingReq[r].pc = "row" /\ S!Goto(r, S!NoReq)
      /\ shown' = [shown EXCEPT ![k] = row]
      /\ answered' = (answered /\ (settingReq[r].alone /\ row.source # "env" =>
                                     row.value = wanted))
      /\ UNCHANGED <<env, table, served, restarts, errors, taken>>
  BY DEF S!ShowRow, S!At
<1>2. k \in SettingKey
  BY <1>0, <1>1 DEF SettingRequests
<1>3. /\ row \in [value : Value \cup {None}, source : S!Source]
      /\ row.source # "env" => env[k] = None
      /\ env[k] = None => row.value = IF table[k] # None THEN table[k] ELSE DefaultValue[k]
  BY <1>0, <1>2, Resolved
<1>4. settingReq[r].alone => table[k] = settingReq[r].value
  BY <1>0, <1>1 DEF SettingRequests
<1>. HIDE DEF row
<1>5. settingReq[r].alone /\ row.source # "env" => row.value = wanted
  BY <1>3, <1>4
<1>6. answered'
  BY <1>0, <1>1, <1>5
<1>. HIDE DEF k, wanted
<1>7. /\ shown' \in [SettingKey -> [value : Value \cup {None}, source : S!Source]]
      /\ shown'[k] = row /\ \A j \in SettingKey : j # k => shown'[j] = shown[j]
  <2>. DEFINE T == [value : Value \cup {None}, source : S!Source]
  <2>1. shown \in [SettingKey -> T] /\ row \in T
    BY <1>0, <1>3, SettingsTyped
  <2>. HIDE DEF T
  <2>2. /\ shown' \in [SettingKey -> T]
        /\ shown'[k] = row /\ \A j \in SettingKey : j # k => shown'[j] = shown[j]
    BY <1>1, <1>2, <2>1
  <2>3. QED
    BY <2>2 DEF T
<1>8. settingReq' \in [Req -> S!Request] /\ SettingRequests'
  BY <1>1, SettingEnds
<1>9. S!TypeOK'
  BY <1>0, <1>1, <1>7, <1>8, Zenon DEF S!TypeOK, S!Maybe
<1>10. ShownNow'
  <2>. SUFFICES ASSUME NEW j \in SettingKey, shown'[j] # S!NoRow
                PROVE  shown'[j] = S!resolveSetting(j, table[j])'
    BY DEF ShownNow
  <2>1. S!resolveSetting(j, table[j])' = S!resolveSetting(j, table[j])
    BY <1>1 DEF S!resolveSetting
  <2>2. CASE j = k
    BY <1>7, <2>1, <2>2 DEF row
  <2>3. CASE j # k
    BY <1>0, <1>7, <2>1, <2>3 DEF ShownNow
  <2>4. QED
    BY <2>2, <2>3
<1>11. TakenNow'
  BY <1>0, <1>1 DEF TakenNow, S!GetResolvedValue, S!trustedDeviceCookieAttrs
<1>12. QED
  BY <1>6, <1>8, <1>9, <1>10, <1>11, Zenon DEF SettingsInv

LEMMA SettingFailKeeps ==
  ASSUME SettingsInv, NEW r \in Req, S!Fail(r)
  PROVE  SettingsInv'
<1>0. /\ S!TypeOK /\ ShownNow /\ TakenNow /\ SettingRequests /\ answered
  BY Zenon DEF SettingsInv
<1>1. /\ errors < MaxErrors /\ errors' = errors + 1 /\ S!Goto(r, S!NoReq)
      /\ UNCHANGED <<env, table, served, restarts, shown, taken, answered>>
  BY DEF S!Fail
<1>2. settingReq' \in [Req -> S!Request] /\ SettingRequests'
  BY <1>1, SettingEnds
<1>3. errors' \in 0 .. MaxErrors /\ errors' # 0
  BY <1>0, <1>1, SettingsTyped, SettingConstants
<1>4. S!TypeOK'
  BY <1>0, <1>1, <1>2, <1>3, Zenon DEF S!TypeOK
<1>5. ShownNow'
  BY <1>0, <1>1 DEF ShownNow, S!resolveSetting
<1>6. TakenNow'
  BY <1>3 DEF TakenNow
<1>7. QED
  BY <1>0, <1>1, <1>2, <1>4, <1>5, <1>6, Zenon DEF SettingsInv

LEMMA SettingRestartKeeps ==
  ASSUME SettingsInv, S!Restart
  PROVE  SettingsInv'
<1>0. S!TypeOK /\ answered
  BY Zenon DEF SettingsInv
<1>1. /\ restarts < MaxRestarts /\ restarts' = restarts + 1
      /\ settingReq' = [r \in Req |-> S!NoReq]
      /\ shown' = [k \in SettingKey |-> S!NoRow] /\ taken' = None
      /\ UNCHANGED <<table, served, errors, answered>>
  BY DEF S!Restart
<1>2. PICK k \in SettingKey, v \in Value \cup {None} : env' = [env EXCEPT ![k] = v]
  BY DEF S!Restart, S!Maybe
<1>3. env' \in [SettingKey -> Value \cup {None}] /\ restarts' \in 0 .. MaxRestarts
  BY <1>0, <1>1, <1>2, SettingsTyped, SettingConstants
<1>4. /\ S!NoReq \in S!Request /\ S!NoReq.pc = "idle" /\ S!NoReq.alone = FALSE
      /\ S!NoRow \in [value : Value \cup {None}, source : S!Source]
  BY DEF S!NoReq, S!Request, S!Maybe, S!NoRow, S!Source
<1>5. /\ settingReq' \in [Req -> S!Request]
      /\ shown' \in [SettingKey -> [value : Value \cup {None}, source : S!Source]]
      /\ \A r \in Req : settingReq'[r] = S!NoReq
      /\ \A j \in SettingKey : shown'[j] = S!NoRow
  <2>. DEFINE T == [value : Value \cup {None}, source : S!Source]
              q == S!NoReq
              n == S!NoRow
  <2>1. q \in S!Request /\ n \in T
    BY <1>4
  <2>2. settingReq' = [r \in Req |-> q] /\ shown' = [j \in SettingKey |-> n]
    BY <1>1
  <2>. HIDE DEF T, q, n, S!Request
  <2>3. /\ settingReq' \in [Req -> S!Request] /\ shown' \in [SettingKey -> T]
        /\ \A r \in Req : settingReq'[r] = q /\ \A j \in SettingKey : shown'[j] = n
    BY <2>1, <2>2
  <2>4. \A j \in SettingKey : shown'[j] = n
    BY <2>2
  <2>5. QED
    BY <2>3, <2>4, Zenon DEF T, q, n
<1>6. S!TypeOK'
  BY <1>0, <1>1, <1>3, <1>5, Zenon DEF S!TypeOK, S!Maybe
<1>7. ShownNow' /\ TakenNow' /\ SettingRequests'
  <2>1. ShownNow'
    BY <1>5 DEF ShownNow
  <2>2. TakenNow'
    BY <1>1 DEF TakenNow
  <2>3. SettingRequests'
    BY <1>4, <1>5 DEF SettingRequests
  <2>4. QED
    BY <2>1, <2>2, <2>3
<1>8. QED
  BY <1>0, <1>1, <1>6, <1>7, Zenon DEF SettingsInv

LEMMA InitSettings == S!Init => SettingsInv
<1>. SUFFICES ASSUME S!Init PROVE SettingsInv
  OBVIOUS
<1>1. /\ env = [k \in SettingKey |-> None] /\ table = [k \in SettingKey |-> None]
      /\ settingReq = [r \in Req |-> S!NoReq] /\ served = 0 /\ restarts = 0 /\ errors = 0
      /\ shown = [k \in SettingKey |-> S!NoRow] /\ taken = None /\ answered = TRUE
  BY DEF S!Init
<1>2. /\ S!NoReq \in S!Request /\ S!NoReq.pc = "idle" /\ S!NoReq.alone = FALSE
      /\ S!NoRow \in [value : Value \cup {None}, source : S!Source]
  BY DEF S!NoReq, S!Request, S!Maybe, S!NoRow, S!Source
<1>3. /\ settingReq \in [Req -> S!Request]
      /\ shown \in [SettingKey -> [value : Value \cup {None}, source : S!Source]]
      /\ \A r \in Req : settingReq[r] = S!NoReq
      /\ \A j \in SettingKey : shown[j] = S!NoRow
  <2>. DEFINE T == [value : Value \cup {None}, source : S!Source]
              q == S!NoReq
              n == S!NoRow
  <2>1. q \in S!Request /\ n \in T
    BY <1>2
  <2>2. settingReq = [r \in Req |-> q] /\ shown = [j \in SettingKey |-> n]
    BY <1>1
  <2>. HIDE DEF T, q, n, S!Request
  <2>3. settingReq \in [Req -> S!Request] /\ shown \in [SettingKey -> T]
    BY <2>1, <2>2
  <2>4. (\A j \in SettingKey : shown[j] = n) /\ \A r \in Req : settingReq[r] = q
    BY <2>2
  <2>5. QED
    BY <2>3, <2>4, Zenon DEF T, q, n
<1>4. /\ env \in [SettingKey -> Value \cup {None}]
      /\ table \in [SettingKey -> Value \cup {None}]
      /\ served \in 0 .. MaxSmall /\ restarts \in 0 .. MaxRestarts
      /\ errors \in 0 .. MaxErrors /\ taken \in S!Attributes \cup {None}
  BY <1>1, SettingConstants
<1>5. S!TypeOK
  BY <1>3, <1>4, Zenon DEF S!TypeOK, S!Maybe
<1>6. ShownNow
  BY <1>3 DEF ShownNow
<1>7. TakenNow
  BY <1>1 DEF TakenNow
<1>8. SettingRequests
  BY <1>2, <1>3 DEF SettingRequests
<1>9. QED
  BY <1>1, <1>5, <1>6, <1>7, <1>8, Zenon DEF SettingsInv

LEMMA NextSettings == SettingsInv /\ S!Next => SettingsInv'
<1>. SUFFICES ASSUME SettingsInv, S!Next PROVE SettingsInv'
  OBVIOUS
<1>1. CASE S!SettingsPage \/ S!SettingsSection
  BY <1>1, SettingsPageKeeps DEF S!SettingsSection
<1>2. CASE S!TrustedDeviceCookie
  BY <1>2, CookieKeeps
<1>3. CASE S!Restart
  BY <1>3, SettingRestartKeeps
<1>4. ASSUME NEW r \in Req,
             \/ S!SettingUpdate(r) \/ S!UpsertSetting(r) \/ S!SettingReset(r)
             \/ S!DeleteSetting(r) \/ S!ShowRow(r) \/ S!Fail(r)
      PROVE  SettingsInv'
  BY <1>4, SettingUpdateKeeps, UpsertSettingKeeps, ShowRowKeeps, SettingFailKeeps, Zenon
<1>5. QED
  BY <1>1, <1>2, <1>3, <1>4, Zenon DEF S!Next

LEMMA StillSettings ==
  ASSUME SettingsInv, UNCHANGED <<settingVars, served, errors>>
  PROVE  SettingsInv'
<1>1. UNCHANGED <<env, table, settingReq, served, restarts, errors, shown, taken, answered>>
  BY DEF settingVars
<1>2. S!TypeOK'
  BY <1>1, Zenon DEF SettingsInv, S!TypeOK
<1>3. ShownNow'
  BY <1>1 DEF SettingsInv, ShownNow, S!resolveSetting
<1>4. TakenNow'
  BY <1>1 DEF SettingsInv, TakenNow, S!GetResolvedValue, S!trustedDeviceCookieAttrs
<1>5. SettingRequests'
  BY <1>1 DEF SettingsInv, SettingRequests
<1>6. answered'
  BY <1>1, Zenon DEF SettingsInv
<1>7. QED
  BY <1>2, <1>3, <1>4, <1>5, <1>6, Zenon DEF SettingsInv

\* As long as nothing changes, the program uses a setting as the console shows it, and
\* a request that is served alone answers with the value it saved
\* (internal/admin/settings_service.go:332, 393).
THEOREM SettingsAreUsedAsShown == AllSpec => []SettingsAgree
<1>. DEFINE Inv == part = "settings" => SettingsInv
            all == <<part, shared, cleanupVars, emailVars, fleetVars, orderVars, keyVars,
                     appVars, adminVars, importVars, settingVars>>
<1>1. AllInit => Inv
  BY InitSettings DEF AllInit
<1>2. Inv /\ [AllNext]_all => Inv'
  <2>. SUFFICES ASSUME Inv, [AllNext]_all, part' = "settings" PROVE SettingsInv'
    OBVIOUS
  <2>1. CASE Settings
    BY <2>1, NextSettings DEF Settings
  <2>2. CASE UNCHANGED all
    BY <2>2, StillSettings DEF shared
  <2>3. CASE \/ EmailConfig \/ Fleet \/ WorkOrders \/ ApiKeys \/ Applications
             \/ AdminAccounts \/ UserImport \/ LogCleanup
    BY <2>3 DEF EmailConfig, Fleet, WorkOrders, ApiKeys, Applications, AdminAccounts,
      UserImport, LogCleanup
  <2>4. QED
    BY <2>1, <2>2, <2>3, Zenon DEF AllNext
<1>3. Inv => SettingsAgree
  BY WhatAgrees DEF SettingsAgree
<1>4. QED
  BY <1>1, <1>2, <1>3, PTL DEF AllSpec

-----------------------------------------------------------------------------
(***************************************************************************)
(* HalvesMatch of Applications, for any tenants, applications, key pairs   *)
(* and number of administrators and requests.                              *)
(*                                                                         *)
(* KeysMatch needs the form that is open to show the key as it is stored,  *)
(* which only one request at a time keeps so: LoneRequest and FormShows.   *)
(* That identifiers stay within their bound is a count: every identifier   *)
(* was drawn by a request that has ended, Drawing.                         *)
(***************************************************************************)

\* What a request is about.
AppRequests ==
  \A r \in Req :
    /\ appReq[r].pc # "idle" => appReq[r].app \in App
    /\ appReq[r].pc \in {"upsert", "save"} => appReq[r].given \in P!Given
    /\ appReq[r].pc \in {"oauth_form", "toggle"} => appReq[r].row \in P!OAuthRow

\* Administrators have worked one at a time.
LoneRequest ==
  ~ overlap => \A r, s \in Req : r # s => appReq[r].pc = "idle" \/ appReq[s].pc = "idle"

\* A form shows the site key as it is stored.
Showing(req, r, held) ==
  req[r].pc = "app_form" /\ held[req[r].app] # None
    => req[r].site = P!ResolveConfig(held[req[r].app]).site
FormShows == ~ overlap => \A r \in Req : Showing(appReq, r, apps)

\* Each identifier is the share of a request that is over.
Savers(req) == {r \in Req : req[r].pc \in {"upsert", "save"}}
Drawing ==
  IsFiniteSet(Savers(appReq)) /\ drawn + Cardinality(Savers(appReq)) <= served

AppsInv ==
  /\ P!TypeOK /\ P!RolesWhole /\ P!KeysMatch /\ P!ClientMatches
  /\ overlap \in BOOLEAN /\ AppRequests /\ LoneRequest /\ FormShows /\ Drawing

-----------------------------------------------------------------------------
LEMMA AppConstants ==
  /\ MaxRequests \in Nat /\ MaxErrors \in Nat
  /\ DefaultApp \in App /\ DefaultTenant \in Tenant
  /\ Default \notin Pair /\ None \notin Pair /\ Default # None
  /\ None \notin App /\ None \notin Tenant
<1>1. P!ApplicationsAssumption
  BY ConsoleAssumption, Zenon
<1>2. QED
  BY <1>1 DEF P!ApplicationsAssumption

LEMMA AppsHas ==
  ASSUME AppsInv
  PROVE  /\ P!TypeOK /\ P!RolesWhole /\ P!KeysMatch /\ P!ClientMatches
         /\ overlap \in BOOLEAN /\ AppRequests /\ LoneRequest /\ FormShows /\ Drawing
BY Zenon DEF AppsInv

LEMMA AppsTyped ==
  ASSUME P!TypeOK
  PROVE  /\ tenants \subseteq Tenant /\ apps \in [App -> P!AppRow \cup {None}]
         /\ oauth \in [App -> P!OAuthRow \cup {None}] /\ drawn \in 0 .. MaxRequests
         /\ appReq \in [Req -> P!Request] /\ served \in 0 .. MaxRequests
         /\ errors \in 0 .. MaxErrors
BY Zenon DEF P!TypeOK

LEMMA AppCounts ==
  ASSUME P!TypeOK
  PROVE  /\ drawn \in Nat /\ served \in Nat /\ errors \in Nat
         /\ drawn <= MaxRequests /\ served <= MaxRequests /\ errors <= MaxErrors
BY AppsTyped, AppConstants

LEMMA AppRequestTyped ==
  ASSUME P!TypeOK, NEW r \in Req
  PROVE  /\ appReq[r] \in P!Request
         /\ appReq[r].pc \in {"idle", "seed", "app_form", "devices", "upsert", "save",
                              "oauth_form", "toggle"}
         /\ appReq[r].app \in App \cup {None}
         /\ appReq[r].site \in Pair \cup {Default, None}
         /\ appReq[r].row \in P!OAuthRow \cup {None}
         /\ appReq[r].given \in P!Given \cup {None}
<1>1. appReq[r] \in P!Request
  <2>. HIDE DEF P!Request
  <2>1. QED
    BY AppsTyped
<1>2. QED
  BY <1>1 DEF P!Request, P!Key

LEMMA AppRowTyped ==
  ASSUME NEW x \in P!AppRow
  PROVE  /\ x.tenant \in Tenant /\ x.site \in Pair \cup {Default, None}
         /\ x.secret \in Pair \cup {None} /\ x.trusted \in BOOLEAN
         /\ x.roles \in SUBSET P!DefaultRoles
BY DEF P!AppRow, P!Key

LEMMA OAuthRowTyped ==
  ASSUME NEW x \in P!OAuthRow
  PROVE  /\ x.id \in 1 .. MaxRequests /\ x.client \in Pair /\ x.secret \in Pair
         /\ x.enabled \in BOOLEAN
BY DEF P!OAuthRow

LEMMA NoRequest ==
  /\ P!NoReq \in P!Request /\ P!NoReq.pc = "idle" /\ P!NoReq.app = None
  /\ P!NoReq.site = None /\ P!NoReq.row = None /\ P!NoReq.given = None
BY DEF P!NoReq, P!Request, P!Key

\* The requests, with the value of one replaced.
LEMMA AppGoes ==
  ASSUME P!TypeOK, NEW r \in Req, NEW x \in P!Request, P!Goto(r, x)
  PROVE  /\ appReq' \in [Req -> P!Request] /\ appReq'[r] = x
         /\ \A s \in Req : s # r => appReq'[s] = appReq[s]
<1>1. appReq \in [Req -> P!Request]
  BY AppsTyped
<1>. HIDE DEF P!Request
<1>2. QED
  BY <1>1 DEF P!Goto

\* How many requests may still draw an identifier.
LEMMA DrawingMoves ==
  ASSUME P!TypeOK, Drawing, NEW r \in Req, NEW x \in P!Request, P!Goto(r, x),
         \/ /\ served' = served + 1 /\ appReq[r].pc = "idle" /\ drawn' = drawn
         \/ /\ served' = served /\ drawn' = drawn
            /\ x.pc \in {"upsert", "save"} => appReq[r].pc \in {"upsert", "save"}
         \/ /\ served' = served /\ drawn' = drawn + 1
            /\ appReq[r].pc \in {"upsert", "save"} /\ x.pc = "idle"
  PROVE  Drawing' /\ drawn' <= served'
<1>. DEFINE old == Savers(appReq)
            new == Savers(appReq')
<1>1. /\ appReq'[r] = x /\ \A s \in Req : s # r => appReq'[s] = appReq[s]
      /\ drawn \in Nat /\ served \in Nat
  BY AppGoes, AppCounts
<1>2. IsFiniteSet(old) /\ drawn + Cardinality(old) <= served /\ Cardinality(old) \in Nat
  BY FS_CardinalityType DEF Drawing
<1>3. new \subseteq old \cup {r} /\ old \ {r} \subseteq new
  BY <1>1 DEF Savers
<1>4. /\ IsFiniteSet(old \cup {r})
      /\ r \notin old => Cardinality(old \cup {r}) = Cardinality(old) + 1
      /\ IsFiniteSet(old \ {r})
      /\ r \in old => Cardinality(old \ {r}) = Cardinality(old) - 1
  BY <1>2, FS_AddElement, FS_RemoveElement
<1>5. IsFiniteSet(new) /\ Cardinality(new) \in Nat
  BY <1>3, <1>4, FS_Subset, FS_CardinalityType
<1>6. drawn' + Cardinality(new) <= served'
  <2>1. CASE served' = served + 1 /\ appReq[r].pc = "idle" /\ drawn' = drawn
    <3>1. r \notin old
      BY <2>1 DEF Savers
    <3>2. Cardinality(new) <= Cardinality(old) + 1
      BY <1>3, <1>4, <3>1, FS_Subset
    <3>3. QED
      BY <1>1, <1>2, <1>5, <2>1, <3>2
  <2>2. CASE /\ served' = served /\ drawn' = drawn
             /\ x.pc \in {"upsert", "save"} => appReq[r].pc \in {"upsert", "save"}
    <3>1. new \subseteq old
      BY <1>1, <2>2 DEF Savers
    <3>2. Cardinality(new) <= Cardinality(old)
      BY <1>2, <3>1, FS_Subset
    <3>3. QED
      BY <1>1, <1>2, <1>5, <2>2, <3>2
  <2>3. CASE /\ served' = served /\ drawn' = drawn + 1
             /\ appReq[r].pc \in {"upsert", "save"} /\ x.pc = "idle"
    <3>1. r \in old /\ new = old \ {r}
      BY <1>1, <2>3 DEF Savers
    <3>2. Cardinality(new) = Cardinality(old) - 1
      BY <1>4, <3>1
    <3>3. QED
      BY <1>1, <1>2, <1>5, <2>3, <3>2
  <2>4. QED
    BY <2>1, <2>2, <2>3
<1>7. Drawing'
  <2>1. Savers(appReq)' = new
    BY DEF Savers
  <2>. HIDE DEF new
  <2>2. QED
    BY <1>5, <1>6, <2>1 DEF Drawing
<1>8. drawn' <= served'
  <2>1. drawn' \in Nat /\ served' \in Nat
    BY <1>1
  <2>. HIDE DEF new
  <2>2. QED
    BY <1>5, <1>6, <2>1
<1>9. QED
  BY <1>7, <1>8

\* One request moves on, alone unless the overlap is noted.
LEMMA AppStep ==
  ASSUME AppsInv, NEW r \in Req, NEW x \in P!Request, P!Goto(r, x),
         \/ P!Begin(r)
         \/ appReq[r].pc # "idle" /\ served' = served /\ overlap' = overlap,
         x.pc # "idle" => x.app \in App,
         x.pc \in {"upsert", "save"} => x.given \in P!Given,
         x.pc \in {"oauth_form", "toggle"} => x.row \in P!OAuthRow,
         ~ overlap' /\ x.pc = "app_form" /\ apps'[x.app] # None
           => x.site = P!ResolveConfig(apps'[x.app]).site,
         \/ drawn' = drawn
              /\ (x.pc \in {"upsert", "save"} =>
                    appReq[r].pc \in {"idle", "upsert", "save"})
         \/ drawn' = drawn + 1 /\ appReq[r].pc \in {"upsert", "save"} /\ x.pc = "idle"
  PROVE  /\ appReq' \in [Req -> P!Request] /\ served' \in 0 .. MaxRequests
         /\ drawn' \in 0 .. MaxRequests /\ overlap' \in BOOLEAN
         /\ AppRequests' /\ LoneRequest' /\ FormShows' /\ Drawing'
         /\ overlap => overlap'
         /\ ~ overlap' => \A s \in Req : s # r => appReq[s].pc = "idle"
<1>0. /\ P!TypeOK /\ overlap \in BOOLEAN /\ AppRequests /\ LoneRequest /\ Drawing
      /\ drawn \in Nat /\ served \in Nat /\ served <= MaxRequests
  BY AppsHas, AppCounts
<1>1. /\ appReq' \in [Req -> P!Request] /\ appReq'[r] = x
      /\ \A s \in Req : s # r => appReq'[s] = appReq[s]
  BY <1>0, AppGoes
<1>2. \/ /\ appReq[r].pc = "idle" /\ served < MaxRequests /\ served' = served + 1
         /\ overlap' = (overlap \/ \E s \in Req : appReq[s].pc # "idle")
      \/ appReq[r].pc # "idle" /\ served' = served /\ overlap' = overlap
  BY DEF P!Begin, P!At
<1>3. /\ overlap' \in BOOLEAN
      /\ overlap => overlap'
      /\ ~ overlap' => \A s \in Req : s # r => appReq[s].pc = "idle"
  BY <1>0, <1>2 DEF LoneRequest
<1>4. Drawing' /\ drawn' <= served'
  <2>1. \/ /\ served' = served + 1 /\ appReq[r].pc = "idle" /\ drawn' = drawn
        \/ /\ served' = served /\ drawn' = drawn
           /\ x.pc \in {"upsert", "save"} => appReq[r].pc \in {"upsert", "save"}
        \/ /\ served' = served /\ drawn' = drawn + 1
           /\ appReq[r].pc \in {"upsert", "save"} /\ x.pc = "idle"
    BY <1>2
  <2>2. QED
    BY <1>0, <2>1, DrawingMoves
<1>5. served' \in 0 .. MaxRequests /\ drawn' \in 0 .. MaxRequests
  <2>1. served' \in Nat /\ served' <= MaxRequests /\ drawn' \in Nat
    BY <1>0, <1>2, AppConstants
  <2>2. QED
    BY <1>4, <2>1, AppConstants
<1>6. AppRequests'
  BY <1>0, <1>1 DEF AppRequests
<1>7. LoneRequest'
  BY <1>1, <1>3 DEF LoneRequest
<1>8. FormShows'
  <2>. SUFFICES ASSUME ~ overlap', NEW s \in Req,
                       appReq'[s].pc = "app_form", apps'[appReq'[s].app] # None
                PROVE  appReq'[s].site = P!ResolveConfig(apps'[appReq'[s].app]).site
    BY DEF FormShows, Showing
  <2>1. s = r
    BY <1>1, <1>3
  <2>2. QED
    BY <1>1, <2>1
<1>9. QED
  BY <1>1, <1>3, <1>4, <1>5, <1>6, <1>7, <1>8, Zenon

-----------------------------------------------------------------------------
(* What the steps write. *)

\* Nothing but requests changes.
LEMMA AppReqOnly ==
  ASSUME AppsInv, UNCHANGED <<tenants, apps, oauth, was_off>>, stale => stale',
         appReq' \in [Req -> P!Request], served' \in 0 .. MaxRequests,
         drawn' \in 0 .. MaxRequests, errors' \in 0 .. MaxErrors,
         overlap' \in BOOLEAN, overlap => overlap',
         AppRequests', LoneRequest', FormShows', Drawing'
  PROVE  AppsInv'
<1>0. /\ P!TypeOK /\ P!RolesWhole /\ P!KeysMatch /\ P!ClientMatches /\ overlap \in BOOLEAN
  BY AppsHas
<1>1. P!TypeOK'
  BY <1>0, Zenon DEF P!TypeOK
<1>2. P!RolesWhole' /\ P!ClientMatches'
  BY <1>0 DEF P!RolesWhole, P!ClientMatches
<1>3. P!KeysMatch'
  BY <1>0 DEF P!KeysMatch, P!ResolveConfig
<1>4. QED
  BY <1>1, <1>2, <1>3, Zenon DEF AppsInv

\* Rows whose parts belong together.
Whole(x) == x.roles \in {{}, P!DefaultRoles}
Matched(x) == P!ResolveConfig(x).site = P!ResolveConfig(x).secret

\* The rows are as they were, or gone, or written by the step.
LEMMA AppRowsMove ==
  ASSUME AppsInv, tenants' \subseteq Tenant, NEW a \in App,
         DOMAIN apps' = App,
         apps' = [b \in App |-> apps'[b]],
         \A b \in App : b # a => apps'[b] = apps[b] \/ apps'[b] = None,
         apps'[a] \in P!AppRow \cup {None},
         apps'[a] # None => Whole(apps'[a]),
         apps'[a] # None /\ ~ overlap' /\ a \notin was_off' => Matched(apps'[a]),
         was_off \subseteq was_off', overlap => overlap',
         oauth' = [b \in App |-> oauth'[b]],
         \A b \in App : oauth'[b] = oauth[b] \/ oauth'[b] = None,
         stale' = stale,
         appReq' \in [Req -> P!Request], served' \in 0 .. MaxRequests,
         drawn' \in 0 .. MaxRequests, errors' \in 0 .. MaxErrors,
         overlap' \in BOOLEAN,
         AppRequests', LoneRequest', FormShows', Drawing'
  PROVE  AppsInv'
<1>0. /\ P!TypeOK /\ P!RolesWhole /\ P!KeysMatch /\ P!ClientMatches /\ overlap \in BOOLEAN
  BY AppsHas
<1>1. \A b \in App : apps'[b] \in P!AppRow \cup {None}
  <2>1. \A b \in App : apps[b] \in P!AppRow \cup {None}
    <3>. HIDE DEF P!AppRow
    <3>1. QED
      BY <1>0, AppsTyped
  <2>2. QED
    BY <2>1, Zenon
<1>2. \A b \in App : oauth'[b] \in P!OAuthRow \cup {None}
  <2>1. \A b \in App : oauth[b] \in P!OAuthRow \cup {None}
    <3>. HIDE DEF P!OAuthRow
    <3>1. QED
      BY <1>0, AppsTyped
  <2>2. QED
    BY <2>1, Zenon
<1>3. /\ apps' \in [App -> P!AppRow \cup {None}]
      /\ oauth' \in [App -> P!OAuthRow \cup {None}]
  <2>. HIDE DEF P!AppRow, P!OAuthRow
  <2>1. QED
    BY <1>1, <1>2
<1>4. P!TypeOK'
  BY <1>3, Zenon DEF P!TypeOK
<1>5. P!RolesWhole'
  <2>. SUFFICES ASSUME NEW b \in App, apps'[b] # None
                PROVE  apps'[b].roles \in {{}, P!DefaultRoles}
    BY DEF P!RolesWhole
  <2>1. CASE b = a
    BY <2>1 DEF Whole
  <2>2. CASE b # a
    BY <1>0, <2>2 DEF P!RolesWhole
  <2>3. QED
    BY <2>1, <2>2
<1>6. P!KeysMatch'
  <2>. SUFFICES ASSUME NEW b \in App, apps'[b] # None, b \notin was_off', ~ overlap'
                PROVE  Matched(apps'[b])
    BY DEF P!KeysMatch, Matched, P!ResolveConfig
  <2>1. CASE b = a
    BY <2>1
  <2>2. CASE b # a
    <3>1. apps'[b] = apps[b] /\ b \notin was_off /\ ~ overlap
      BY <1>0, <2>2
    <3>2. Matched(apps[b])
      BY <1>0, <3>1 DEF P!KeysMatch, Matched
    <3>3. QED
      BY <3>1, <3>2
  <2>3. QED
    BY <2>1, <2>2
<1>7. P!ClientMatches'
  BY <1>0 DEF P!ClientMatches
<1>8. QED
  BY <1>4, <1>5, <1>6, <1>7, Zenon DEF AppsInv

\* Likewise for one client.
LEMMA ClientMoves ==
  ASSUME AppsInv, UNCHANGED <<tenants, apps, was_off>>, NEW a \in App,
         NEW y, oauth' = [oauth EXCEPT ![a] = y],
         y \in P!OAuthRow \cup {None},
         y # None /\ ~ stale' => y.client = y.secret,
         stale => stale',
         appReq' \in [Req -> P!Request], served' \in 0 .. MaxRequests,
         drawn' \in 0 .. MaxRequests, errors' \in 0 .. MaxErrors,
         overlap' \in BOOLEAN, overlap => overlap',
         AppRequests', LoneRequest', FormShows', Drawing'
  PROVE  AppsInv'
<1>0. /\ P!TypeOK /\ P!RolesWhole /\ P!KeysMatch /\ P!ClientMatches /\ overlap \in BOOLEAN
  BY AppsHas
<1>1. /\ oauth' \in [App -> P!OAuthRow \cup {None}] /\ oauth'[a] = y
      /\ \A b \in App : b # a => oauth'[b] = oauth[b]
  <2>1. oauth \in [App -> P!OAuthRow \cup {None}]
    BY <1>0, AppsTyped
  <2>. HIDE DEF P!OAuthRow
  <2>2. QED
    BY <2>1
<1>2. P!TypeOK'
  BY <1>0, <1>1, Zenon DEF P!TypeOK
<1>3. P!RolesWhole'
  BY <1>0 DEF P!RolesWhole
<1>4. P!KeysMatch'
  BY <1>0 DEF P!KeysMatch, P!ResolveConfig
<1>5. P!ClientMatches'
  BY <1>0, <1>1 DEF P!ClientMatches
<1>6. QED
  BY <1>2, <1>3, <1>4, <1>5, Zenon DEF AppsInv

\* A row of the table, written where it is read.
LEMMA AppWritten ==
  ASSUME P!TypeOK, NEW a \in App, NEW y, apps' = [apps EXCEPT ![a] = y]
  PROVE  /\ DOMAIN apps' = App /\ apps' = [b \in App |-> apps'[b]]
         /\ apps'[a] = y /\ \A b \in App : b # a => apps'[b] = apps[b]
<1>1. apps \in [App -> P!AppRow \cup {None}]
  BY AppsTyped
<1>. HIDE DEF P!AppRow
<1>2. DOMAIN apps = App
  BY <1>1
<1>3. QED
  BY <1>2

LEMMA OAuthSame ==
  ASSUME P!TypeOK, oauth' = oauth
  PROVE  /\ oauth' = [b \in App |-> oauth'[b]]
         /\ \A b \in App : oauth'[b] = oauth[b] \/ oauth'[b] = None
<1>1. oauth \in [App -> P!OAuthRow \cup {None}]
  BY AppsTyped
<1>. HIDE DEF P!OAuthRow
<1>2. QED
  BY <1>1

LEMMA OneAppRow ==
  ASSUME P!TypeOK, NEW a \in App
  PROVE  apps[a] \in P!AppRow \cup {None} /\ oauth[a] \in P!OAuthRow \cup {None}
<1>1. /\ apps \in [App -> P!AppRow \cup {None}]
      /\ oauth \in [App -> P!OAuthRow \cup {None}]
  BY AppsTyped
<1>2. apps[a] \in P!AppRow \cup {None} /\ oauth[a] \in P!OAuthRow \cup {None}
  <2>. HIDE DEF P!AppRow, P!OAuthRow
  <2>1. QED
    BY <1>1
<1>3. QED
  BY <1>2

-----------------------------------------------------------------------------
(* Tenants and deletions. *)

\* The requests do not change.
LEMMA AppRequestsStay ==
  ASSUME AppsInv, UNCHANGED <<appReq, served, drawn, overlap>>,
         \A a \in App : apps'[a] = apps[a] \/ apps'[a] = None
  PROVE  /\ appReq' \in [Req -> P!Request] /\ served' \in 0 .. MaxRequests
         /\ drawn' \in 0 .. MaxRequests /\ overlap' \in BOOLEAN
         /\ AppRequests' /\ LoneRequest' /\ FormShows' /\ Drawing'
<1>0. /\ P!TypeOK /\ overlap \in BOOLEAN /\ AppRequests /\ LoneRequest /\ FormShows
      /\ Drawing
  BY AppsHas
<1>1. /\ appReq' \in [Req -> P!Request] /\ served' \in 0 .. MaxRequests
      /\ drawn' \in 0 .. MaxRequests /\ overlap' \in BOOLEAN
  BY <1>0, AppsTyped, Zenon
<1>2. AppRequests' /\ LoneRequest'
  BY <1>0 DEF AppRequests, LoneRequest
<1>3. Drawing'
  BY <1>0 DEF Drawing, Savers
<1>4. FormShows'
  <2>. SUFFICES ASSUME ~ overlap, NEW s \in Req,
                       appReq[s].pc = "app_form", apps'[appReq[s].app] # None
                PROVE  appReq[s].site = P!ResolveConfig(apps'[appReq[s].app]).site
    BY DEF FormShows, Showing
  <2>1. appReq[s].app \in App
    BY <1>0 DEF AppRequests
  <2>2. apps'[appReq[s].app] = apps[appReq[s].app]
    BY <2>1
  <2>3. QED
    BY <1>0, <2>2 DEF FormShows, Showing
<1>5. QED
  BY <1>1, <1>2, <1>3, <1>4

\* Rows are deleted, and tenants may be created.
LEMMA AppsGo ==
  ASSUME AppsInv, tenants' \subseteq Tenant,
         apps' = [b \in App |-> apps'[b]], oauth' = [b \in App |-> oauth'[b]],
         \A b \in App : apps'[b] = apps[b] \/ apps'[b] = None,
         \A b \in App : oauth'[b] = oauth[b] \/ oauth'[b] = None,
         UNCHANGED <<drawn, appReq, served, errors, was_off, stale, overlap>>
  PROVE  AppsInv'
<1>0. P!TypeOK /\ overlap \in BOOLEAN /\ P!RolesWhole /\ P!KeysMatch
  BY AppsHas
<1>1. PICK a \in App : TRUE
  BY AppConstants
<1>2. /\ appReq' \in [Req -> P!Request] /\ served' \in 0 .. MaxRequests
      /\ drawn' \in 0 .. MaxRequests /\ overlap' \in BOOLEAN
      /\ AppRequests' /\ LoneRequest' /\ FormShows' /\ Drawing'
  BY AppRequestsStay
<1>3. errors' \in 0 .. MaxErrors
  BY <1>0, AppsTyped
<1>4. /\ apps'[a] \in P!AppRow \cup {None}
      /\ apps'[a] # None => Whole(apps'[a])
      /\ apps'[a] # None /\ ~ overlap' /\ a \notin was_off' => Matched(apps'[a])
  <2>1. apps[a] \in P!AppRow \cup {None}
    BY <1>0, OneAppRow
  <2>2. apps[a] # None => Whole(apps[a])
    BY <1>0 DEF P!RolesWhole, Whole
  <2>3. apps[a] # None /\ ~ overlap /\ a \notin was_off => Matched(apps[a])
    BY <1>0 DEF P!KeysMatch, Matched
  <2>4. apps'[a] = None \/ apps'[a] = apps[a]
    OBVIOUS
  <2>5. QED
    BY <2>1, <2>2, <2>3, <2>4
<1>5. DOMAIN apps' = App
  OBVIOUS
<1>6. was_off' = was_off /\ overlap' = overlap /\ stale' = stale
  OBVIOUS
<1>7. QED
  BY <1>2, <1>3, <1>4, <1>5, <1>6, AppRowsMove

LEMMA TenantCreateKeeps ==
  ASSUME AppsInv, NEW t \in Tenant, P!TenantCreate(t)
  PROVE  AppsInv'
<1>0. P!TypeOK
  BY AppsHas
<1>1. /\ tenants' = tenants \cup {t}
      /\ UNCHANGED <<apps, oauth, drawn, appReq, served, errors, was_off, stale, overlap>>
  BY DEF P!TenantCreate
<1>2. tenants' \subseteq Tenant /\ apps' = [b \in App |-> apps'[b]]
  <2>1. tenants \subseteq Tenant /\ apps \in [App -> P!AppRow \cup {None}]
    BY <1>0, AppsTyped
  <2>. HIDE DEF P!AppRow
  <2>2. QED
    BY <1>1, <2>1
<1>3. /\ oauth' = [b \in App |-> oauth'[b]]
      /\ \A b \in App : oauth'[b] = oauth[b] \/ oauth'[b] = None
  BY <1>0, <1>1, OAuthSame
<1>4. QED
  BY <1>1, <1>2, <1>3, AppsGo

LEMMA TenantDeleteKeeps ==
  ASSUME AppsInv, NEW t \in Tenant, P!TenantDelete(t)
  PROVE  AppsInv'
<1>0. P!TypeOK
  BY AppsHas
<1>. DEFINE gone == {a \in App : apps[a] # None /\ apps[a].tenant = t}
<1>1. /\ tenants' = tenants \ {t}
      /\ apps' = [a \in App |-> IF a \in gone THEN None ELSE apps[a]]
      /\ oauth' = [a \in App |-> IF a \in gone THEN None ELSE oauth[a]]
      /\ UNCHANGED <<drawn, appReq, served, errors, was_off, stale, overlap>>
  BY DEF P!TenantDelete, P!history
<1>. HIDE DEF gone
<1>2. tenants' \subseteq Tenant
  BY <1>0, <1>1, AppsTyped
<1>3. /\ apps' = [b \in App |-> apps'[b]] /\ oauth' = [b \in App |-> oauth'[b]]
      /\ \A b \in App : apps'[b] = apps[b] \/ apps'[b] = None
      /\ \A b \in App : oauth'[b] = oauth[b] \/ oauth'[b] = None
  BY <1>1
<1>4. QED
  BY <1>1, <1>2, <1>3, AppsGo

LEMMA AppDeleteKeeps ==
  ASSUME AppsInv, NEW a \in App, P!AppDelete(a) \/ P!OAuthDelete(a)
  PROVE  AppsInv'
<1>0. P!TypeOK
  BY AppsHas
<1>1. /\ tenants' = tenants
      /\ apps' = [apps EXCEPT ![a] = None] \/ apps' = apps
      /\ oauth' = [oauth EXCEPT ![a] = None]
      /\ UNCHANGED <<drawn, appReq, served, errors, was_off, stale, overlap>>
  BY DEF P!AppDelete, P!OAuthDelete, P!history
<1>2. tenants' \subseteq Tenant
  BY <1>0, <1>1, AppsTyped
<1>3. DOMAIN apps = App /\ DOMAIN oauth = App
      /\ apps = [b \in App |-> apps[b]]
  <2>1. /\ apps \in [App -> P!AppRow \cup {None}]
        /\ oauth \in [App -> P!OAuthRow \cup {None}]
    BY <1>0, AppsTyped
  <2>. HIDE DEF P!AppRow, P!OAuthRow
  <2>2. QED
    BY <2>1
<1>4. /\ apps' = [b \in App |-> apps'[b]] /\ oauth' = [b \in App |-> oauth'[b]]
      /\ \A b \in App : apps'[b] = apps[b] \/ apps'[b] = None
      /\ \A b \in App : oauth'[b] = oauth[b] \/ oauth'[b] = None
  BY <1>1, <1>3
<1>5. QED
  BY <1>1, <1>2, <1>4, AppsGo

-----------------------------------------------------------------------------
(* Applications. *)

LEMMA AppCreateKeeps ==
  ASSUME AppsInv, NEW r \in Req, NEW a \in App, NEW t \in Tenant,
         NEW key \in Pair \cup {None}, NEW b \in BOOLEAN, P!AppCreate(r, a, t, key, b)
  PROVE  AppsInv'
<1>0. P!TypeOK
  BY AppsHas
<1>. DEFINE x == [P!NoReq EXCEPT !.pc = "seed", !.app = a]
            y == [tenant |-> t, site |-> key, secret |-> key, trusted |-> b, roles |-> {}]
<1>1. /\ P!Begin(r) /\ P!Goto(r, x)
      /\ apps' = [apps EXCEPT ![a] = y]
      /\ UNCHANGED <<tenants, oauth, drawn, errors, was_off, stale>>
  BY DEF P!AppCreate
<1>2. x \in P!Request /\ x.pc = "seed" /\ x.app = a
  BY NoRequest DEF P!NoReq, P!Request, P!Key
<1>3. y \in P!AppRow /\ Whole(y)
  BY DEF P!AppRow, P!Key, Whole
<1>4. Matched(y)
  <2>1. /\ P!ResolveConfig(y).site = IF y.site = None THEN Default ELSE y.site
        /\ P!ResolveConfig(y).secret = IF y.secret = None THEN Default ELSE y.secret
    BY DEF P!ResolveConfig
  <2>2. QED
    BY <2>1 DEF Matched
<1>. HIDE DEF x, y
<1>5. /\ DOMAIN apps' = App /\ apps' = [c \in App |-> apps'[c]]
      /\ apps'[a] = y /\ \A c \in App : c # a => apps'[c] = apps[c]
  BY <1>0, <1>1, AppWritten
<1>6. /\ oauth' = [c \in App |-> oauth'[c]]
      /\ \A c \in App : oauth'[c] = oauth[c] \/ oauth'[c] = None
  BY <1>0, <1>1, OAuthSame
<1>7. /\ appReq' \in [Req -> P!Request] /\ served' \in 0 .. MaxRequests
      /\ drawn' \in 0 .. MaxRequests /\ overlap' \in BOOLEAN
      /\ AppRequests' /\ LoneRequest' /\ FormShows' /\ Drawing'
      /\ overlap => overlap'
  BY <1>1, <1>2, AppStep
<1>8. errors' \in 0 .. MaxErrors /\ tenants' \subseteq Tenant
  BY <1>0, <1>1, AppsTyped
<1>9. was_off \subseteq was_off' /\ stale' = stale
  BY <1>1
<1>10. QED
  BY <1>3, <1>4, <1>5, <1>6, <1>7, <1>8, <1>9, AppRowsMove

\* A request that is over, and one that fails.
LEMMA AppFailKeeps ==
  ASSUME AppsInv, NEW r \in Req, P!Fail(r)
  PROVE  AppsInv'
<1>0. P!TypeOK
  BY AppsHas
<1>1. /\ appReq[r].pc # "idle" /\ errors < MaxErrors /\ errors' = errors + 1
      /\ P!Goto(r, P!NoReq)
      /\ UNCHANGED <<tenants, apps, oauth, drawn, served, was_off, stale, overlap>>
  BY DEF P!Fail, P!Finish, P!At, P!history
<1>2. /\ appReq' \in [Req -> P!Request] /\ served' \in 0 .. MaxRequests
      /\ drawn' \in 0 .. MaxRequests /\ overlap' \in BOOLEAN
      /\ AppRequests' /\ LoneRequest' /\ FormShows' /\ Drawing'
      /\ overlap => overlap'
  BY <1>1, NoRequest, AppStep
<1>3. errors' \in 0 .. MaxErrors
  BY <1>0, <1>1, AppCounts, AppConstants
<1>4. QED
  BY <1>1, <1>2, <1>3, AppReqOnly

\* One row is written by a request that goes on.
LEMMA AppWrites ==
  ASSUME AppsInv, NEW r \in Req, NEW x \in P!Request, P!Goto(r, x),
         appReq[r].pc \in {"seed", "app_form", "devices"},
         x.pc \in {"idle", "devices"}, x.pc # "idle" => x.app \in App,
         NEW y, apps' = IF apps[appReq[r].app] = None THEN apps
                        ELSE [apps EXCEPT ![appReq[r].app] = y],
         apps[appReq[r].app] # None => y \in P!AppRow /\ Whole(y),
         apps[appReq[r].app] # None /\ ~ overlap /\ appReq[r].app \notin was_off'
           => Matched(y),
         was_off \subseteq was_off',
         UNCHANGED <<tenants, oauth, drawn, served, errors, stale, overlap>>
  PROVE  AppsInv'
<1>0. P!TypeOK /\ AppRequests /\ P!RolesWhole /\ P!KeysMatch
  BY AppsHas
<1>. DEFINE a == appReq[r].app
<1>1. a \in App
  BY <1>0 DEF AppRequests
<1>2. apps[a] \in P!AppRow \cup {None}
  BY <1>0, <1>1, OneAppRow
<1>3. /\ apps[a] # None => Whole(apps[a])
      /\ apps[a] # None /\ ~ overlap /\ a \notin was_off => Matched(apps[a])
  BY <1>0, <1>1 DEF P!RolesWhole, Whole, P!KeysMatch, Matched
<1>4. /\ appReq' \in [Req -> P!Request] /\ served' \in 0 .. MaxRequests
      /\ drawn' \in 0 .. MaxRequests /\ overlap' \in BOOLEAN
      /\ AppRequests' /\ LoneRequest' /\ FormShows' /\ Drawing'
      /\ overlap => overlap'
  BY AppStep
<1>5. errors' \in 0 .. MaxErrors /\ tenants' \subseteq Tenant
  BY <1>0, AppsTyped
<1>6. /\ oauth' = [c \in App |-> oauth'[c]]
      /\ \A c \in App : oauth'[c] = oauth[c] \/ oauth'[c] = None
  BY <1>0, OAuthSame
<1>. HIDE DEF a
<1>7. /\ DOMAIN apps' = App /\ apps' = [c \in App |-> apps'[c]]
      /\ apps'[a] = IF apps[a] = None THEN apps[a] ELSE y
      /\ \A c \in App : c # a => apps'[c] = apps[c]
  <2>1. CASE apps[a] = None
    <3>1. apps' = apps
      BY <2>1 DEF a
    <3>2. apps \in [App -> P!AppRow \cup {None}]
      BY <1>0, AppsTyped
    <3>. HIDE DEF P!AppRow
    <3>3. QED
      BY <2>1, <3>1, <3>2
  <2>2. CASE apps[a] # None
    <3>1. apps' = [apps EXCEPT ![a] = y]
      BY <2>2 DEF a
    <3>2. QED
      BY <1>0, <1>1, <2>2, <3>1, AppWritten
  <2>3. QED
    BY <2>1, <2>2
<1>8. apps[a] # None => y \in P!AppRow /\ Whole(y)
  BY DEF a
<1>9. apps[a] # None /\ ~ overlap /\ a \notin was_off' => Matched(y)
  BY DEF a
<1>10. /\ apps'[a] \in P!AppRow \cup {None}
       /\ apps'[a] # None => Whole(apps'[a])
       /\ apps'[a] # None /\ ~ overlap' /\ a \notin was_off' => Matched(apps'[a])
  BY <1>2, <1>7, <1>8, <1>9
<1>11. stale' = stale /\ was_off \subseteq was_off'
  OBVIOUS
<1>12. \A c \in App : c # a => apps'[c] = apps[c] \/ apps'[c] = None
  BY <1>7
<1>13. DOMAIN apps' = App /\ apps' = [c \in App |-> apps'[c]]
  BY <1>7
<1>14. QED
  BY ONLY AppsInv, <1>1, <1>4, <1>5, <1>6, <1>10, <1>11, <1>12, <1>13, AppRowsMove

LEMMA SeedKeeps ==
  ASSUME AppsInv, NEW r \in Req, P!SeedDefaultRolesForApp(r)
  PROVE  AppsInv'
<1>0. P!TypeOK /\ AppRequests /\ P!RolesWhole /\ P!KeysMatch
  BY AppsHas
<1>. DEFINE a == appReq[r].app
            y == [apps[a] EXCEPT !.roles = apps[a].roles \cup P!DefaultRoles]
<1>1. /\ appReq[r].pc = "seed" /\ P!Goto(r, P!NoReq)
      /\ apps' = IF apps[a] = None THEN apps ELSE [apps EXCEPT ![a] = y]
      /\ UNCHANGED <<tenants, oauth, drawn, served, errors, was_off, stale, overlap>>
  <2>1. /\ appReq[r].pc = "seed" /\ P!Goto(r, P!NoReq)
        /\ UNCHANGED <<tenants, oauth, drawn, served, errors, was_off, stale, overlap>>
    BY DEF P!SeedDefaultRolesForApp, P!At, P!Finish, P!history
  <2>2. apps' = IF apps[a] = None THEN apps ELSE [apps EXCEPT ![a] = y]
    BY DEF P!SeedDefaultRolesForApp, P!Seeded
  <2>3. QED
    BY <2>1, <2>2
<1>2. a \in App
  BY <1>0, <1>1 DEF AppRequests
<1>3. apps[a] # None => apps[a] \in P!AppRow /\ Whole(apps[a])
  BY <1>0, <1>2, OneAppRow DEF P!RolesWhole, Whole
<1>4. ASSUME apps[a] # None
      PROVE  /\ y \in P!AppRow /\ Whole(y)
             /\ y.site = apps[a].site /\ y.secret = apps[a].secret
  BY <1>3, <1>4 DEF P!AppRow, Whole
<1>5. apps[a] # None /\ ~ overlap /\ a \notin was_off => Matched(y)
  <2>1. apps[a] # None /\ ~ overlap /\ a \notin was_off => Matched(apps[a])
    BY <1>0, <1>2 DEF P!KeysMatch, Matched
  <2>. HIDE DEF y
  <2>2. QED
    BY <1>4, <2>1 DEF Matched, P!ResolveConfig
<1>. HIDE DEF y
<1>6. appReq[r].pc \in {"seed", "app_form", "devices"}
  BY <1>1
<1>7. was_off \subseteq was_off' /\ was_off' = was_off
  BY <1>1
<1>8. QED
  BY <1>1, <1>4, <1>5, <1>6, <1>7, NoRequest, AppWrites

LEMMA TrustedKeeps ==
  ASSUME AppsInv, NEW r \in Req, NEW b \in BOOLEAN, P!UpdateAppSMSTrustedDevice(r, b)
  PROVE  AppsInv'
<1>0. P!TypeOK /\ AppRequests /\ P!RolesWhole /\ P!KeysMatch
  BY AppsHas
<1>. DEFINE a == appReq[r].app
            y == [apps[a] EXCEPT !.trusted = b]
<1>1. /\ appReq[r].pc = "devices" /\ P!Goto(r, P!NoReq)
      /\ apps' = IF apps[a] = None THEN apps ELSE [apps EXCEPT ![a] = y]
      /\ UNCHANGED <<tenants, oauth, drawn, served, errors, was_off, stale, overlap>>
  BY DEF P!UpdateAppSMSTrustedDevice, P!At, P!Finish, P!history
<1>2. a \in App
  BY <1>0, <1>1 DEF AppRequests
<1>3. apps[a] # None => apps[a] \in P!AppRow /\ Whole(apps[a])
  BY <1>0, <1>2, OneAppRow DEF P!RolesWhole, Whole
<1>4. ASSUME apps[a] # None
      PROVE  /\ y \in P!AppRow /\ Whole(y)
             /\ y.site = apps[a].site /\ y.secret = apps[a].secret
  BY <1>3, <1>4 DEF P!AppRow, Whole
<1>5. apps[a] # None /\ ~ overlap /\ a \notin was_off => Matched(y)
  <2>1. apps[a] # None /\ ~ overlap /\ a \notin was_off => Matched(apps[a])
    BY <1>0, <1>2 DEF P!KeysMatch, Matched
  <2>. HIDE DEF y
  <2>2. QED
    BY <1>4, <2>1 DEF Matched, P!ResolveConfig
<1>. HIDE DEF y
<1>6. appReq[r].pc \in {"seed", "app_form", "devices"}
  BY <1>1
<1>7. was_off \subseteq was_off' /\ was_off' = was_off
  BY <1>1
<1>8. QED
  BY <1>1, <1>4, <1>5, <1>6, <1>7, NoRequest, AppWrites

\* A form with a key typed anew, or with the key it showed, or without an override.
LEMMA AppUpdateKeeps ==
  ASSUME AppsInv, NEW r \in Req, NEW form, P!AppUpdate(r, form)
  PROVE  AppsInv'
<1>0. P!TypeOK /\ AppRequests /\ P!RolesWhole /\ P!KeysMatch /\ FormShows
  BY AppsHas
<1>. DEFINE a == appReq[r].app
            y == P!UpdateApp(apps[a], form)
            x == [appReq[r] EXCEPT !.pc = "devices"]
<1>1. /\ appReq[r].pc = "app_form" /\ P!Goto(r, x) /\ form \in P!Forms(appReq[r].site)
      /\ apps' = IF apps[a] = None THEN apps ELSE [apps EXCEPT ![a] = y]
      /\ was_off' = IF form.override THEN was_off ELSE was_off \cup {a}
      /\ UNCHANGED <<tenants, oauth, drawn, served, errors, stale, overlap>>
  BY DEF P!AppUpdate, P!At
<1>2. a \in App
  BY <1>0, <1>1 DEF AppRequests
<1>3. apps[a] # None => apps[a] \in P!AppRow /\ Whole(apps[a])
  BY <1>0, <1>2, OneAppRow DEF P!RolesWhole, Whole
<1>4. x \in P!Request /\ x.pc = "devices" /\ x.app = a
  <2>1. appReq[r] \in P!Request
    BY <1>0, AppRequestTyped
  <2>2. QED
    BY <2>1 DEF P!Request
<1>5. \/ form.override = TRUE /\ form.site \in Pair /\ form.secret = form.site
      \/ form.override = TRUE /\ form.site = appReq[r].site /\ form.secret = None
      \/ form.override = FALSE /\ form.site = None /\ form.secret = None
  BY <1>1 DEF P!Forms
<1>6. appReq[r].site \in Pair \cup {Default, None}
  BY <1>0, AppRequestTyped
<1>7. ASSUME apps[a] # None
      PROVE  /\ y \in P!AppRow /\ Whole(y) /\ y.site = form.site
             /\ y.secret = IF form.secret = None THEN apps[a].secret ELSE form.secret
  <2>. DEFINE n == P!NewSecret(apps[a].secret, form.secret)
              v == form.site
  <2>1. apps[a] \in P!AppRow /\ apps[a].secret \in Pair \cup {None}
    BY <1>3, <1>7, AppRowTyped
  <2>2. n = IF form.secret = None THEN apps[a].secret ELSE form.secret
    BY DEF P!NewSecret
  <2>3. n \in Pair \cup {None} /\ v \in Pair \cup {Default, None}
    BY <1>5, <1>6, <2>1, <2>2
  <2>4. y = [apps[a] EXCEPT !.site = v, !.secret = n]
    BY DEF P!UpdateApp
  <2>. HIDE DEF y, n, v
  <2>5. y \in P!AppRow /\ y.roles = apps[a].roles /\ y.site = v /\ y.secret = n
    BY <2>1, <2>3, <2>4 DEF P!AppRow, P!Key
  <2>6. QED
    BY <1>3, <1>7, <2>2, <2>5 DEF Whole, v
<1>. HIDE DEF y, x
<1>8. apps[a] # None /\ ~ overlap /\ a \notin was_off' => Matched(y)
  <2>. SUFFICES ASSUME apps[a] # None, ~ overlap, a \notin was_off'
                PROVE  Matched(y)
    OBVIOUS
  <2>1. form.override = TRUE /\ a \notin was_off
    BY <1>1, <1>5
  <2>2. Matched(apps[a])
    BY <1>0, <1>2, <2>1 DEF P!KeysMatch, Matched
  <2>3. /\ P!ResolveConfig(y).site = IF y.site = None THEN Default ELSE y.site
        /\ P!ResolveConfig(y).secret = IF y.secret = None THEN Default ELSE y.secret
        /\ P!ResolveConfig(apps[a]).site
             = IF apps[a].site = None THEN Default ELSE apps[a].site
        /\ P!ResolveConfig(apps[a]).secret
             = IF apps[a].secret = None THEN Default ELSE apps[a].secret
    BY DEF P!ResolveConfig
  <2>4. CASE form.site \in Pair /\ form.secret = form.site
    BY <1>7, <2>3, <2>4, AppConstants DEF Matched
  <2>5. CASE form.site = appReq[r].site /\ form.secret = None
    <3>1. appReq[r].site = P!ResolveConfig(apps[a]).site
      BY <1>0, <1>1 DEF FormShows, Showing
    <3>2. y.site = P!ResolveConfig(apps[a]).site /\ y.secret = apps[a].secret
      BY <1>7, <2>5, <3>1
    <3>3. P!ResolveConfig(apps[a]).site # None
      BY <2>3, AppConstants
    <3>4. QED
      BY <2>2, <2>3, <3>2, <3>3 DEF Matched
  <2>6. QED
    BY <1>5, <2>1, <2>4, <2>5
<1>9. appReq[r].pc \in {"seed", "app_form", "devices"} /\ was_off \subseteq was_off'
      /\ x.pc \in {"idle", "devices"} /\ x.app \in App
  BY <1>1, <1>2, <1>4
<1>10. QED
  BY <1>1, <1>4, <1>7, <1>8, <1>9, AppWrites

LEMMA AppEditFormKeeps ==
  ASSUME AppsInv, NEW r \in Req, NEW a \in App, P!AppEditForm(r, a)
  PROVE  AppsInv'
<1>0. P!TypeOK
  BY AppsHas
<1>. DEFINE v == IF apps[a].site = None THEN Default ELSE apps[a].site
            x == [P!NoReq EXCEPT !.pc = "app_form", !.app = a, !.site = v]
<1>1. /\ P!Begin(r) /\ apps[a] # None /\ P!Goto(r, x)
      /\ UNCHANGED <<tenants, apps, oauth, drawn, errors, was_off, stale>>
  BY DEF P!AppEditForm, P!history
<1>2. v \in Pair \cup {Default, None} /\ v = P!ResolveConfig(apps[a]).site
  <2>1. apps[a].site \in Pair \cup {Default, None}
    BY <1>0, <1>1, OneAppRow, AppRowTyped
  <2>2. QED
    BY <2>1 DEF P!ResolveConfig
<1>. HIDE DEF v
<1>3. x \in P!Request /\ x.pc = "app_form" /\ x.app = a /\ x.site = v
  BY <1>2 DEF P!NoReq, P!Request, P!Key
<1>. HIDE DEF x
<1>4. apps'[x.app] = apps[a]
  BY <1>1, <1>3
<1>5. /\ appReq' \in [Req -> P!Request] /\ served' \in 0 .. MaxRequests
      /\ drawn' \in 0 .. MaxRequests /\ overlap' \in BOOLEAN
      /\ AppRequests' /\ LoneRequest' /\ FormShows' /\ Drawing'
      /\ overlap => overlap'
  BY <1>1, <1>2, <1>3, <1>4, AppStep
<1>6. errors' \in 0 .. MaxErrors
  BY <1>0, <1>1, AppsTyped
<1>7. QED
  BY <1>1, <1>5, <1>6, AppReqOnly

-----------------------------------------------------------------------------
(* OAuth configurations. *)

\* A request for a client is begun.
LEMMA UpsertBegins ==
  ASSUME AppsInv, NEW r \in Req, NEW a \in App, NEW client \in Pair, NEW b \in BOOLEAN,
         NEW x, x = [P!NoReq EXCEPT !.pc = "upsert", !.app = a,
                       !.given = [client |-> client, enabled |-> b]],
         P!Begin(r), P!Goto(r, x), drawn' = drawn
  PROVE  /\ appReq' \in [Req -> P!Request] /\ served' \in 0 .. MaxRequests
         /\ drawn' \in 0 .. MaxRequests /\ overlap' \in BOOLEAN
         /\ AppRequests' /\ LoneRequest' /\ FormShows' /\ Drawing'
         /\ overlap => overlap'
<1>. DEFINE g == [client |-> client, enabled |-> b]
<1>1. g \in P!Given
  BY DEF P!Given
<1>2. x = [P!NoReq EXCEPT !.pc = "upsert", !.app = a, !.given = g]
  OBVIOUS
<1>. HIDE DEF g
<1>3. x \in P!Request /\ x.pc = "upsert" /\ x.app = a /\ x.given = g
  BY <1>1, <1>2 DEF P!NoReq, P!Request, P!Key
<1>4. appReq[r].pc = "idle"
  BY DEF P!Begin, P!At
<1>5. QED
  BY <1>1, <1>3, <1>4, AppStep

LEMMA OAuthCreateKeeps ==
  ASSUME AppsInv, NEW r \in Req, NEW a \in App, NEW client \in Pair, NEW b \in BOOLEAN,
         P!OAuthCreate(r, a, client, b)
  PROVE  AppsInv'
<1>0. P!TypeOK
  BY AppsHas
<1>. DEFINE x == [P!NoReq EXCEPT !.pc = "upsert", !.app = a,
                    !.given = [client |-> client, enabled |-> b]]
<1>1. /\ P!Begin(r) /\ P!Goto(r, x)
      /\ UNCHANGED <<tenants, apps, oauth, drawn, errors, was_off, stale>>
  BY DEF P!OAuthCreate, P!history
<1>2. x = [P!NoReq EXCEPT !.pc = "upsert", !.app = a,
             !.given = [client |-> client, enabled |-> b]]
  OBVIOUS
<1>. HIDE DEF x
<1>3. /\ appReq' \in [Req -> P!Request] /\ served' \in 0 .. MaxRequests
      /\ drawn' \in 0 .. MaxRequests /\ overlap' \in BOOLEAN
      /\ AppRequests' /\ LoneRequest' /\ FormShows' /\ Drawing'
      /\ overlap => overlap'
  BY <1>1, <1>2, UpsertBegins
<1>4. errors' \in 0 .. MaxErrors
  BY <1>0, <1>1, AppsTyped
<1>5. QED
  BY <1>1, <1>3, <1>4, AppReqOnly

\* The default application may be created on the way.
LEMMA MigrateKeeps ==
  ASSUME AppsInv, NEW r \in Req, NEW client \in Pair, P!MigrateOAuth(r, client)
  PROVE  AppsInv'
<1>0. P!TypeOK
  BY AppsHas
<1>. DEFINE x == [P!NoReq EXCEPT !.pc = "upsert", !.app = DefaultApp,
                    !.given = [client |-> client, enabled |-> TRUE]]
            y == [tenant |-> DefaultTenant, site |-> None, secret |-> None,
                  trusted |-> FALSE, roles |-> {}]
<1>1. /\ P!Begin(r) /\ P!Goto(r, x)
      /\ \/ UNCHANGED <<tenants, apps>>
         \/ /\ tenants' = tenants \cup {DefaultTenant}
            /\ apps' = [apps EXCEPT ![DefaultApp] = y]
      /\ UNCHANGED <<oauth, drawn, errors, was_off, stale>>
  BY DEF P!MigrateOAuth
<1>2. x = [P!NoReq EXCEPT !.pc = "upsert", !.app = DefaultApp,
             !.given = [client |-> client, enabled |-> TRUE]]
  OBVIOUS
<1>3. y \in P!AppRow /\ Whole(y)
  BY AppConstants DEF P!AppRow, P!Key, Whole
<1>4. Matched(y)
  <2>1. /\ P!ResolveConfig(y).site = IF y.site = None THEN Default ELSE y.site
        /\ P!ResolveConfig(y).secret = IF y.secret = None THEN Default ELSE y.secret
    BY DEF P!ResolveConfig
  <2>2. QED
    BY <2>1 DEF Matched
<1>. HIDE DEF x, y
<1>5. /\ appReq' \in [Req -> P!Request] /\ served' \in 0 .. MaxRequests
      /\ drawn' \in 0 .. MaxRequests /\ overlap' \in BOOLEAN
      /\ AppRequests' /\ LoneRequest' /\ FormShows' /\ Drawing'
      /\ overlap => overlap'
  BY <1>1, <1>2, UpsertBegins, AppConstants
<1>6. errors' \in 0 .. MaxErrors
  BY <1>0, <1>1, AppsTyped
<1>7. CASE UNCHANGED <<tenants, apps>>
  BY <1>1, <1>5, <1>6, <1>7, AppReqOnly
<1>8. CASE /\ tenants' = tenants \cup {DefaultTenant}
           /\ apps' = [apps EXCEPT ![DefaultApp] = y]
  <2>1. /\ DOMAIN apps' = App /\ apps' = [c \in App |-> apps'[c]]
        /\ apps'[DefaultApp] = y /\ \A c \in App : c # DefaultApp => apps'[c] = apps[c]
    BY <1>0, <1>8, AppWritten, AppConstants
  <2>2. /\ oauth' = [c \in App |-> oauth'[c]]
        /\ \A c \in App : oauth'[c] = oauth[c] \/ oauth'[c] = None
    BY <1>0, <1>1, OAuthSame
  <2>3. tenants' \subseteq Tenant /\ DefaultApp \in App
    BY <1>0, <1>8, AppsTyped, AppConstants
  <2>4. was_off \subseteq was_off' /\ stale' = stale
    BY <1>1
  <2>5. \A c \in App : c # DefaultApp => apps'[c] = apps[c] \/ apps'[c] = None
    BY <2>1
  <2>6. /\ apps'[DefaultApp] \in P!AppRow \cup {None}
        /\ Whole(apps'[DefaultApp]) /\ Matched(apps'[DefaultApp])
    BY <1>3, <1>4, <2>1
  <2>7. DOMAIN apps' = App /\ apps' = [c \in App |-> apps'[c]]
    BY <2>1
  <2>8. QED
    BY ONLY AppsInv, <1>5, <1>6, <2>2, <2>3, <2>4, <2>5, <2>6, <2>7, AppRowsMove
<1>9. QED
  BY <1>1, <1>7, <1>8

\* The stored row is read.
LEMMA UpsertKeeps ==
  ASSUME AppsInv, NEW r \in Req, P!UpsertOAuthConfig(r)
  PROVE  AppsInv'
<1>0. P!TypeOK /\ AppRequests
  BY AppsHas
<1>. DEFINE y == oauth[appReq[r].app]
            x == [appReq[r] EXCEPT !.pc = "save", !.row = y]
<1>1. /\ appReq[r].pc = "upsert" /\ P!Goto(r, x)
      /\ UNCHANGED <<tenants, apps, oauth, drawn, served, errors, was_off, stale, overlap>>
  BY DEF P!UpsertOAuthConfig, P!At, P!history
<1>2. appReq[r].app \in App /\ appReq[r].given \in P!Given
  BY <1>0, <1>1 DEF AppRequests
<1>3. y \in P!OAuthRow \cup {None} /\ appReq[r] \in P!Request
  BY <1>0, <1>2, OneAppRow, AppRequestTyped
<1>. HIDE DEF y
<1>4. x \in P!Request /\ x.pc = "save" /\ x.app = appReq[r].app
      /\ x.given = appReq[r].given
  BY <1>3 DEF P!Request
<1>. HIDE DEF x
<1>5. /\ appReq' \in [Req -> P!Request] /\ served' \in 0 .. MaxRequests
      /\ drawn' \in 0 .. MaxRequests /\ overlap' \in BOOLEAN
      /\ AppRequests' /\ LoneRequest' /\ FormShows' /\ Drawing'
      /\ overlap => overlap'
  BY <1>1, <1>2, <1>4, AppStep
<1>6. errors' \in 0 .. MaxErrors
  BY <1>0, <1>1, AppsTyped
<1>7. QED
  BY <1>1, <1>5, <1>6, AppReqOnly

\* Both halves are those that were given.
LEMMA SaveKeeps ==
  ASSUME AppsInv, NEW r \in Req, P!SaveOrCreate(r)
  PROVE  AppsInv'
<1>0. P!TypeOK /\ AppRequests
  BY AppsHas
<1>. DEFINE a == appReq[r].app
            id == IF appReq[r].row = None THEN drawn + 1 ELSE appReq[r].row.id
            y == [id |-> id, client |-> appReq[r].given.client,
                  secret |-> appReq[r].given.client,
                  enabled |-> appReq[r].row = None \/ appReq[r].given.enabled]
<1>1. /\ appReq[r].pc = "save" /\ P!Goto(r, P!NoReq)
      /\ \/ UNCHANGED <<oauth, drawn>>
         \/ /\ oauth' = [oauth EXCEPT ![a] = y]
            /\ drawn' = IF appReq[r].row = None THEN id ELSE drawn
      /\ UNCHANGED <<tenants, apps, served, errors, was_off, stale, overlap>>
  BY DEF P!SaveOrCreate, P!At, P!Finish, P!history, P!Row
<1>2. a \in App /\ appReq[r].given \in P!Given /\ drawn \in Nat
  BY <1>0, <1>1, AppCounts DEF AppRequests
<1>3. drawn' = drawn \/ drawn' = drawn + 1
  BY <1>1
<1>4. /\ appReq' \in [Req -> P!Request] /\ served' \in 0 .. MaxRequests
      /\ drawn' \in 0 .. MaxRequests /\ overlap' \in BOOLEAN
      /\ AppRequests' /\ LoneRequest' /\ FormShows' /\ Drawing'
      /\ overlap => overlap'
  <2>1. P!NoReq.pc = "idle" /\ appReq[r].pc \in {"upsert", "save"}
    BY <1>1, NoRequest
  <2>2. CASE drawn' = drawn
    BY <1>1, <2>1, <2>2, NoRequest, AppStep
  <2>3. CASE drawn' = drawn + 1
    BY <1>1, <2>1, <2>3, NoRequest, AppStep
  <2>4. QED
    BY <1>3, <2>2, <2>3
<1>5. errors' \in 0 .. MaxErrors
  BY <1>0, <1>1, AppsTyped
<1>6. CASE UNCHANGED <<oauth, drawn>>
  BY <1>1, <1>4, <1>5, <1>6, AppReqOnly
<1>7. CASE /\ oauth' = [oauth EXCEPT ![a] = y]
           /\ drawn' = IF appReq[r].row = None THEN id ELSE drawn
  <2>1. id \in 1 .. MaxRequests
    <3>1. CASE appReq[r].row = None
      <4>1. drawn' = drawn + 1
        BY <1>7, <3>1
      <4>2. QED
        BY <1>2, <1>4, <3>1, <4>1, AppConstants
    <3>2. CASE appReq[r].row # None
      <4>1. appReq[r].row \in P!OAuthRow
        BY <1>0, <3>2, AppRequestTyped
      <4>2. QED
        BY <3>2, <4>1, OAuthRowTyped
    <3>3. QED
      BY <3>1, <3>2
  <2>2. appReq[r].given.client \in Pair /\ appReq[r].given.enabled \in BOOLEAN
    BY <1>2 DEF P!Given
  <2>. DEFINE c == appReq[r].given.client
              e == appReq[r].row = None \/ appReq[r].given.enabled
  <2>3. c \in Pair /\ e \in BOOLEAN /\ y = [id |-> id, client |-> c, secret |-> c, enabled |-> e]
    BY <2>2
  <2>. HIDE DEF id, c, e, y
  <2>4. y \in P!OAuthRow /\ y.client = y.secret
    BY <2>1, <2>3 DEF P!OAuthRow
  <2>5. QED
    BY <1>1, <1>2, <1>4, <1>5, <1>7, <2>4, ClientMoves
<1>8. QED
  BY <1>1, <1>6, <1>7

\* A form and a toggle are begun with the row as it is stored.
LEMMA RowFormKeeps ==
  ASSUME AppsInv, NEW r \in Req, NEW a \in App,
         P!OAuthEditForm(r, a) \/ P!OAuthToggleEnabled(r, a)
  PROVE  AppsInv'
<1>0. P!TypeOK
  BY AppsHas
<1>1. PICK p \in {"oauth_form", "toggle"} :
        /\ P!Begin(r) /\ oauth[a] # None
        /\ P!Goto(r, [P!NoReq EXCEPT !.pc = p, !.app = a, !.row = oauth[a]])
        /\ UNCHANGED <<tenants, apps, oauth, drawn, errors, was_off, stale>>
  BY DEF P!OAuthEditForm, P!OAuthToggleEnabled, P!history
<1>. DEFINE y == oauth[a]
            x == [P!NoReq EXCEPT !.pc = p, !.app = a, !.row = y]
<1>2. P!Goto(r, x)
  BY <1>1
<1>3. y \in P!OAuthRow
  BY <1>0, <1>1, OneAppRow
<1>. HIDE DEF y
<1>4. x \in P!Request /\ x.pc = p /\ x.app = a /\ x.row = y
  BY <1>3 DEF P!NoReq, P!Request, P!Key
<1>. HIDE DEF x
<1>5. /\ appReq' \in [Req -> P!Request] /\ served' \in 0 .. MaxRequests
      /\ drawn' \in 0 .. MaxRequests /\ overlap' \in BOOLEAN
      /\ AppRequests' /\ LoneRequest' /\ FormShows' /\ Drawing'
      /\ overlap => overlap'
  BY <1>1, <1>2, <1>3, <1>4, AppStep
<1>6. errors' \in 0 .. MaxErrors
  BY <1>0, <1>1, AppsTyped
<1>7. QED
  BY <1>1, <1>5, <1>6, AppReqOnly

\* A request ends by writing the client of one application.
LEMMA ClientWritten ==
  ASSUME AppsInv, NEW r \in Req, P!Goto(r, P!NoReq),
         appReq[r].pc \in {"oauth_form", "toggle"},
         NEW y, oauth' = IF ~ P!Found(r) THEN oauth
                         ELSE [oauth EXCEPT ![appReq[r].app] = y],
         P!Found(r) => y \in P!OAuthRow,
         P!Found(r) /\ ~ stale' => y.client = y.secret,
         stale => stale',
         UNCHANGED <<tenants, apps, drawn, served, errors, was_off, overlap>>
  PROVE  AppsInv'
<1>0. P!TypeOK /\ AppRequests
  BY AppsHas
<1>1. appReq[r].app \in App
  BY <1>0 DEF AppRequests
<1>2. /\ appReq' \in [Req -> P!Request] /\ served' \in 0 .. MaxRequests
      /\ drawn' \in 0 .. MaxRequests /\ overlap' \in BOOLEAN
      /\ AppRequests' /\ LoneRequest' /\ FormShows' /\ Drawing'
      /\ overlap => overlap'
  BY NoRequest, AppStep
<1>3. errors' \in 0 .. MaxErrors
  BY <1>0, AppsTyped
<1>4. CASE P!Found(r)
  <2>1. oauth' = [oauth EXCEPT ![appReq[r].app] = y]
    BY <1>4
  <2>2. QED
    BY <1>1, <1>2, <1>3, <1>4, <2>1, ClientMoves
<1>5. CASE ~ P!Found(r)
  <2>1. oauth' = oauth
    BY <1>5
  <2>2. QED
    BY <1>2, <1>3, <2>1, AppReqOnly
<1>6. QED
  BY <1>4, <1>5

LEMMA OAuthUpdateKeeps ==
  ASSUME AppsInv, NEW r \in Req, NEW client \in Pair, NEW held \in Pair \cup {None},
         NEW b \in BOOLEAN, P!OAuthUpdate(r, client, held, b)
  PROVE  AppsInv'
<1>0. P!TypeOK /\ AppRequests /\ P!ClientMatches
  BY AppsHas
<1>. DEFINE a == appReq[r].app
            s == IF held = None THEN oauth[a].secret ELSE held
            y == [oauth[a] EXCEPT !.client = client, !.enabled = b, !.secret = s]
<1>1. /\ appReq[r].pc = "oauth_form" /\ P!Goto(r, P!NoReq)
      /\ held = client \/ (held = None /\ client = appReq[r].row.client)
      /\ oauth' = IF ~ P!Found(r) THEN oauth ELSE [oauth EXCEPT ![a] = y]
      /\ stale' = (stale \/ (held = None /\ P!Found(r) /\ oauth[a].client # client))
      /\ UNCHANGED <<tenants, apps, drawn, served, errors, was_off, overlap>>
  <2>1. /\ appReq[r].pc = "oauth_form" /\ P!Goto(r, P!NoReq)
        /\ held = client \/ (held = None /\ client = appReq[r].row.client)
        /\ stale' = (stale \/ (held = None /\ P!Found(r) /\ oauth[a].client # client))
        /\ UNCHANGED <<tenants, apps, drawn, served, errors, was_off, overlap>>
    BY DEF P!OAuthUpdate, P!At, P!Finish
  <2>2. CASE held = None
    <3>0. ASSUME P!Found(r)
          PROVE  "secret" \in DOMAIN oauth[a]
      <4>1. a \in App /\ oauth[a] # None
        BY <1>0, <2>1, <3>0 DEF AppRequests, P!Found
      <4>2. oauth[a] \in P!OAuthRow
        BY <1>0, <4>1, OneAppRow
      <4>3. QED
        BY <4>2 DEF P!OAuthRow
    <3>1. oauth' = IF ~ P!Found(r) THEN oauth ELSE [oauth EXCEPT ![a] = y]
      BY <2>2, <3>0 DEF P!OAuthUpdate
    <3>2. QED
      BY <2>1, <3>1
  <2>3. CASE held # None
    <3>1. oauth' = IF ~ P!Found(r) THEN oauth ELSE [oauth EXCEPT ![a] = y]
      BY <2>3 DEF P!OAuthUpdate
    <3>2. QED
      BY <2>1, <3>1
  <2>4. QED
    BY <2>2, <2>3
<1>2. a \in App
  BY <1>0, <1>1 DEF AppRequests
<1>3. ASSUME P!Found(r)
      PROVE  oauth[a] \in P!OAuthRow /\ s \in Pair /\ oauth[a] # None
  <2>1. oauth[a] # None
    BY <1>3 DEF P!Found
  <2>2. oauth[a] \in P!OAuthRow
    BY <1>0, <1>2, <2>1, OneAppRow
  <2>3. QED
    BY <2>1, <2>2, OAuthRowTyped
<1>. HIDE DEF s
<1>4. ASSUME P!Found(r)
      PROVE  y \in P!OAuthRow /\ y.client = client /\ y.secret = s
  BY <1>3, <1>4 DEF P!OAuthRow
<1>. HIDE DEF y
<1>5. ASSUME P!Found(r), ~ stale'
      PROVE  y.client = y.secret
  <2>1. CASE held = client
    <3>1. held # None
      BY <2>1, AppConstants
    <3>2. QED
      BY <1>4, <1>5, <2>1, <3>1 DEF s
  <2>2. CASE held = None
    <3>1. ~ stale /\ oauth[a].client = client
      BY <1>1, <1>5, <2>2
    <3>2. oauth[a].client = oauth[a].secret
      BY <1>0, <1>2, <1>3, <1>5, <3>1 DEF P!ClientMatches
    <3>3. QED
      BY <1>4, <1>5, <2>2, <3>1, <3>2 DEF s
  <2>3. QED
    BY <1>1, <2>1, <2>2
<1>6. stale => stale'
  BY <1>1
<1>7. QED
  BY <1>1, <1>4, <1>5, <1>6, ClientWritten

LEMMA ToggleKeeps ==
  ASSUME AppsInv, NEW r \in Req, P!ToggleOAuthConfigEnabled(r)
  PROVE  AppsInv'
<1>0. P!TypeOK /\ AppRequests /\ P!ClientMatches
  BY AppsHas
<1>. DEFINE a == appReq[r].app
            e == ~ appReq[r].row.enabled
            y == [oauth[a] EXCEPT !.enabled = e]
<1>1. /\ appReq[r].pc = "toggle" /\ P!Goto(r, P!NoReq)
      /\ oauth' = IF ~ P!Found(r) THEN oauth ELSE [oauth EXCEPT ![a] = y]
      /\ UNCHANGED <<tenants, apps, drawn, served, errors, was_off, stale, overlap>>
  BY DEF P!ToggleOAuthConfigEnabled, P!At, P!Finish, P!history
<1>2. a \in App /\ e \in BOOLEAN
  BY <1>0, <1>1 DEF AppRequests
<1>3. ASSUME P!Found(r)
      PROVE  oauth[a] \in P!OAuthRow /\ oauth[a] # None
  <2>1. oauth[a] # None
    BY <1>3 DEF P!Found
  <2>2. QED
    BY <1>0, <1>2, <2>1, OneAppRow
<1>. HIDE DEF e
<1>4. ASSUME P!Found(r)
      PROVE  y \in P!OAuthRow /\ y.client = oauth[a].client /\ y.secret = oauth[a].secret
  BY <1>2, <1>3, <1>4 DEF P!OAuthRow
<1>. HIDE DEF y
<1>5. ASSUME P!Found(r), ~ stale'
      PROVE  y.client = y.secret
  BY <1>0, <1>1, <1>2, <1>3, <1>4, <1>5 DEF P!ClientMatches
<1>6. stale => stale'
  BY <1>1
<1>7. QED
  BY <1>1, <1>4, <1>5, <1>6, ClientWritten

-----------------------------------------------------------------------------
LEMMA InitApps ==
  ASSUME P!Init, served = 0, drawn = 0
  PROVE  AppsInv
<1>1. /\ tenants = {} /\ apps = [a \in App |-> None] /\ oauth = [a \in App |-> None]
      /\ appReq = [r \in Req |-> P!NoReq] /\ errors = 0 /\ overlap = FALSE
  BY DEF P!Init
<1>2. P!TypeOK
  <2>1. /\ apps \in [App -> P!AppRow \cup {None}]
        /\ oauth \in [App -> P!OAuthRow \cup {None}]
    <3>. HIDE DEF P!AppRow, P!OAuthRow
    <3>1. QED
      BY <1>1
  <2>2. appReq \in [Req -> P!Request]
    <3>. HIDE DEF P!Request, P!NoReq
    <3>1. QED
      BY <1>1, NoRequest
  <2>3. /\ tenants \subseteq Tenant /\ drawn \in 0 .. MaxRequests
        /\ served \in 0 .. MaxRequests /\ errors \in 0 .. MaxErrors
    BY <1>1, AppConstants
  <2>4. QED
    BY <2>1, <2>2, <2>3, Zenon DEF P!TypeOK
<1>3. P!RolesWhole /\ P!KeysMatch /\ P!ClientMatches
  BY <1>1 DEF P!RolesWhole, P!KeysMatch, P!ClientMatches
<1>4. \A r \in Req : appReq[r].pc = "idle"
  <2>. HIDE DEF P!NoReq
  <2>1. QED
    BY <1>1, NoRequest
<1>5. AppRequests /\ LoneRequest /\ FormShows /\ overlap \in BOOLEAN
  BY <1>1, <1>4 DEF AppRequests, LoneRequest, FormShows, Showing
<1>6. Drawing
  <2>1. Savers(appReq) = {}
    BY <1>4 DEF Savers
  <2>2. QED
    BY <2>1, FS_EmptySet DEF Drawing
<1>7. QED
  BY <1>2, <1>3, <1>5, <1>6, Zenon DEF AppsInv

LEMMA NextApps ==
  ASSUME AppsInv, P!Next
  PROVE  AppsInv'
<1>1. ASSUME NEW t \in Tenant, P!TenantCreate(t) \/ P!TenantDelete(t)
      PROVE  AppsInv'
  BY <1>1, TenantCreateKeeps, TenantDeleteKeeps
<1>2. ASSUME NEW a \in App, P!AppDelete(a) \/ P!OAuthDelete(a)
      PROVE  AppsInv'
  BY <1>2, AppDeleteKeeps
<1>3. ASSUME NEW r \in Req, NEW a \in App, NEW t \in Tenant, NEW key \in Pair \cup {None},
             NEW b \in BOOLEAN, P!AppCreate(r, a, t, key, b)
      PROVE  AppsInv'
  BY <1>3, AppCreateKeeps
<1>4. ASSUME NEW r \in Req, NEW a \in App,
             P!AppEditForm(r, a) \/ P!OAuthEditForm(r, a) \/ P!OAuthToggleEnabled(r, a)
      PROVE  AppsInv'
  BY <1>4, AppEditFormKeeps, RowFormKeeps
<1>5. ASSUME NEW r \in Req, NEW a \in App, NEW t \in Tenant, P!CreateApp(r, a, t)
      PROVE  AppsInv'
  <2>1. P!AppCreate(r, a, t, None, FALSE)
    BY <1>5 DEF P!CreateApp
  <2>2. None \in Pair \cup {None} /\ FALSE \in BOOLEAN
    OBVIOUS
  <2>3. QED
    BY <2>1, <2>2, AppCreateKeeps
<1>6. ASSUME NEW r \in Req, NEW a \in App, NEW client \in Pair, NEW b \in BOOLEAN,
             P!OAuthCreate(r, a, client, b) \/ P!PutOAuthConfig(r, a, client)
      PROVE  AppsInv'
  <2>1. PICK c \in BOOLEAN : P!OAuthCreate(r, a, client, c)
    BY <1>6 DEF P!PutOAuthConfig
  <2>2. QED
    BY <2>1, OAuthCreateKeeps
<1>7. ASSUME NEW r \in Req, NEW form, P!AppUpdate(r, form)
      PROVE  AppsInv'
  BY <1>7, AppUpdateKeeps
<1>8. ASSUME NEW r \in Req, NEW b \in BOOLEAN, P!UpdateAppSMSTrustedDevice(r, b)
      PROVE  AppsInv'
  BY <1>8, TrustedKeeps
<1>9. ASSUME NEW r \in Req, NEW client \in Pair, P!MigrateOAuth(r, client)
      PROVE  AppsInv'
  BY <1>9, MigrateKeeps
<1>10. ASSUME NEW r \in Req, NEW client \in Pair, NEW held \in Pair \cup {None},
              NEW b \in BOOLEAN, P!OAuthUpdate(r, client, held, b)
       PROVE  AppsInv'
  BY <1>10, OAuthUpdateKeeps
<1>11. ASSUME NEW r \in Req,
              \/ P!SeedDefaultRolesForApp(r) \/ P!UpsertOAuthConfig(r) \/ P!SaveOrCreate(r)
              \/ P!ToggleOAuthConfigEnabled(r) \/ P!Fail(r)
       PROVE  AppsInv'
  BY <1>11, SeedKeeps, UpsertKeeps, SaveKeeps, ToggleKeeps, AppFailKeeps
<1>12. QED
  BY <1>1, <1>2, <1>3, <1>4, <1>5, <1>6, <1>7, <1>8, <1>9, <1>10, <1>11, Zenon DEF P!Next

LEMMA StillApps ==
  ASSUME AppsInv, UNCHANGED <<appVars, served, errors, drawn, overlap>>
  PROVE  AppsInv'
<1>0. P!TypeOK /\ overlap \in BOOLEAN
  BY AppsHas
<1>1. UNCHANGED <<tenants, apps, oauth, appReq, was_off, stale, served, errors, drawn,
                  overlap>>
  BY DEF appVars
<1>2. /\ appReq' \in [Req -> P!Request] /\ served' \in 0 .. MaxRequests
      /\ drawn' \in 0 .. MaxRequests /\ overlap' \in BOOLEAN
      /\ AppRequests' /\ LoneRequest' /\ FormShows' /\ Drawing'
  BY <1>1, AppRequestsStay
<1>3. errors' \in 0 .. MaxErrors
  BY <1>0, <1>1, AppsTyped
<1>4. overlap => overlap'
  BY <1>1
<1>5. QED
  BY <1>1, <1>2, <1>3, <1>4, AppReqOnly

\* Applications, their roles, key pairs and clients are saved whole, whatever forms,
\* upserts, toggles, deletions and failures overlap
\* (internal/admin/repository.go:105, 356, 411, 489).
THEOREM HalvesStayMatched == AllSpec => []HalvesMatch
<1>. DEFINE Inv == part = "apps" => AppsInv
            all == <<part, shared, cleanupVars, emailVars, fleetVars, orderVars, keyVars,
                     appVars, adminVars, importVars, settingVars>>
<1>1. AllInit => Inv
  BY InitApps DEF AllInit
<1>2. Inv /\ [AllNext]_all => Inv'
  <2>. SUFFICES ASSUME Inv, [AllNext]_all, part' = "apps" PROVE AppsInv'
    OBVIOUS
  <2>1. CASE Applications
    BY <2>1, NextApps DEF Applications
  <2>2. CASE UNCHANGED all
    BY <2>2, StillApps DEF shared
  <2>3. CASE \/ EmailConfig \/ Fleet \/ WorkOrders \/ ApiKeys \/ Settings
             \/ AdminAccounts \/ UserImport \/ LogCleanup
    BY <2>3 DEF EmailConfig, Fleet, WorkOrders, ApiKeys, Settings, AdminAccounts,
      UserImport, LogCleanup
  <2>4. QED
    BY <2>1, <2>2, <2>3, Zenon DEF AllNext
<1>3. Inv => HalvesMatch
  BY AppsHas DEF HalvesMatch, P!HalvesMatch
<1>4. QED
  BY <1>1, <1>2, <1>3, PTL DEF AllSpec

-----------------------------------------------------------------------------
(***************************************************************************)
(* ServersKept of EmailConfig, for any number of servers, of requests and  *)
(* mails at the same time and of failures.                                 *)
(*                                                                         *)
(* A mail that has come to the system's servers is excused: Excused says   *)
(* so of every mail that is being sent while the application has no active *)
(* server, whatever is saved or deleted between its reads.                 *)
(***************************************************************************)
MailRows ==
  /\ servers \in [E!Id -> E!Server \cup {None}]
  /\ templates \in [E!Scope -> E!Template \cup {None}]

\* The row that a request is about to write or to read.
MailRequests ==
  \A r \in Req :
    emailReq[r].pc \in {"save", "put_template", "linked"} => emailReq[r].id \in E!Id

NoActive == E!Active("app") = {}

Excused ==
  \A r \in Req :
    /\ NoActive => (emailReq[r].pc \in E!Reading => r \in without)
    /\ emailReq[r].pc \in {"global_default", "global_any"} => r \in without

EmailInv ==
  /\ E!TypeOK /\ MailRows /\ MailRequests /\ Excused /\ E!DefaultChosen /\ astray = FALSE

-----------------------------------------------------------------------------
LEMMA EmailConstants ==
  /\ None \notin Nat /\ None \notin E!Server
  /\ MaxServers \in Nat /\ MaxSmall \in Nat /\ MaxErrors \in Nat
<1>1. E!EmailConfigAssumption
  BY ConsoleAssumption, Zenon
<1>2. QED
  BY <1>1, Zenon DEF E!EmailConfigAssumption

LEMMA EmailHas ==
  ASSUME EmailInv
  PROVE  /\ E!TypeOK /\ MailRows /\ MailRequests /\ Excused /\ E!DefaultChosen
         /\ astray = FALSE
BY Zenon DEF EmailInv

LEMMA EmailTyped ==
  ASSUME E!TypeOK
  PROVE  /\ drawn \in 0 .. MaxServers /\ emailReq \in [Req -> E!Request]
         /\ served \in 0 .. MaxSmall /\ errors \in 0 .. MaxErrors
         /\ chosen \in [E!Scope -> E!Id \cup {None}] /\ without \subseteq Req
         /\ astray \in BOOLEAN
BY Zenon DEF E!TypeOK

LEMMA EmailReqTyped ==
  ASSUME NEW q \in E!Request
  PROVE  /\ q.pc \in E!Steps /\ q.id \in E!Id \cup {None} /\ q.scope \in E!Scope
         /\ q.default \in BOOLEAN /\ q.active \in BOOLEAN /\ q.link \in E!Id \cup {None}
BY DEF E!Request

LEMMA OneEmailReq ==
  ASSUME E!TypeOK, NEW r \in Req
  PROVE  /\ emailReq[r].pc \in E!Steps /\ emailReq[r].id \in E!Id \cup {None}
         /\ emailReq[r].scope \in E!Scope /\ emailReq[r].default \in BOOLEAN
         /\ emailReq[r].active \in BOOLEAN /\ emailReq[r].link \in E!Id \cup {None}
         /\ emailReq[r] \in E!Request
<1>1. emailReq[r] \in E!Request
  <2>1. emailReq \in [Req -> E!Request]
    BY EmailTyped
  <2>. HIDE DEF E!Request
  <2>2. QED
    BY <2>1
<1>2. QED
  BY <1>1, EmailReqTyped

LEMMA ServerTyped ==
  ASSUME NEW x \in E!Server
  PROVE  x.scope \in E!Scope /\ x.default \in BOOLEAN /\ x.active \in BOOLEAN
BY DEF E!Server

LEMMA TemplateTyped ==
  ASSUME MailRows, NEW s \in E!Scope, templates[s] # None
  PROVE  /\ templates[s] \in E!Template
         /\ templates[s].id \in E!Id /\ templates[s].link \in E!Id \cup {None}
         /\ templates[s].active \in BOOLEAN
<1>1. templates[s] \in E!Template
  <2>1. templates \in [E!Scope -> E!Template \cup {None}]
    BY Zenon DEF MailRows
  <2>. HIDE DEF E!Template, E!Scope
  <2>2. QED
    BY <2>1
<1>2. QED
  BY <1>1 DEF E!Template

LEMMA EmailIdle ==
  /\ E!Idle \in E!Request /\ E!Idle.pc = "idle"
BY DEF E!Idle, E!Request, E!Steps, E!Scope

LEMMA EmailGoes ==
  ASSUME E!TypeOK, NEW r \in Req, NEW q \in E!Request,
         emailReq' = [emailReq EXCEPT ![r] = q]
  PROVE  /\ emailReq' \in [Req -> E!Request] /\ emailReq'[r] = q
         /\ \A s \in Req : s # r => emailReq'[s] = emailReq[s]
<1>1. emailReq \in [Req -> E!Request]
  BY EmailTyped
<1>. HIDE DEF E!Request
<1>2. QED
  BY <1>1

\* A request moves on to another statement.
LEMMA EmailStep ==
  ASSUME E!TypeOK, NEW r \in Req, NEW step \in E!Steps
  PROVE  /\ [emailReq[r] EXCEPT !.pc = step] \in E!Request
         /\ [emailReq[r] EXCEPT !.pc = step].pc = step
         /\ [emailReq[r] EXCEPT !.pc = step].id = emailReq[r].id
<1>1. emailReq[r] \in E!Request
  BY OneEmailReq
<1>2. QED
  BY <1>1 DEF E!Request

\* What a request is begun with.
EmailFields(fields) ==
  /\ DOMAIN fields \subseteq {"pc", "id", "scope", "default", "active", "link"}
  /\ "pc" \in DOMAIN fields /\ fields["pc"] \in E!Steps
  /\ "id" \in DOMAIN fields => fields["id"] \in E!Id \cup {None}
  /\ "scope" \in DOMAIN fields => fields["scope"] \in E!Scope
  /\ "default" \in DOMAIN fields => fields["default"] \in BOOLEAN
  /\ "active" \in DOMAIN fields => fields["active"] \in BOOLEAN
  /\ "link" \in DOMAIN fields => fields["link"] \in E!Id \cup {None}

LEMMA EmailBegins ==
  ASSUME E!TypeOK, NEW r \in Req, NEW fields, E!Begin(r, fields), EmailFields(fields)
  PROVE  /\ served' \in 0 .. MaxSmall
         /\ \E q \in E!Request :
              /\ emailReq' = [emailReq EXCEPT ![r] = q] /\ q.pc = fields["pc"]
              /\ "id" \in DOMAIN fields => q.id = fields["id"]
         /\ UNCHANGED <<servers, templates, drawn, errors, chosen, astray>>
<1>. DEFINE Names == {"pc", "id", "scope", "default", "active", "link"}
            Of(f) == IF f \in DOMAIN fields THEN fields[f] ELSE E!Idle[f]
            q == [f \in Names |-> Of(f)]
<1>1. DOMAIN E!Idle = Names
  BY DEF E!Idle
<1>2. /\ served < MaxSmall /\ served' = served + 1
      /\ emailReq' = [emailReq EXCEPT ![r] = q]
      /\ UNCHANGED <<servers, templates, drawn, errors, chosen, astray>>
  BY <1>1 DEF E!Begin
<1>3. /\ Of("pc") = fields["pc"] /\ Of("pc") \in E!Steps /\ Of("id") \in E!Id \cup {None}
      /\ Of("scope") \in E!Scope /\ Of("default") \in BOOLEAN /\ Of("active") \in BOOLEAN
      /\ Of("link") \in E!Id \cup {None}
      /\ "id" \in DOMAIN fields => Of("id") = fields["id"]
  BY DEF EmailFields, E!Idle, E!Scope
<1>. HIDE DEF Of
<1>4. q = [pc |-> Of("pc"), id |-> Of("id"), scope |-> Of("scope"),
           default |-> Of("default"), active |-> Of("active"), link |-> Of("link")]
  OBVIOUS
<1>5. q \in E!Request /\ q.pc = Of("pc") /\ q.id = Of("id")
  BY <1>3, <1>4 DEF E!Request
<1>6. served' \in 0 .. MaxSmall
  BY <1>2, EmailTyped, EmailConstants
<1>. HIDE DEF q
<1>7. QED
  BY <1>2, <1>3, <1>5, <1>6

-----------------------------------------------------------------------------
(* Steps that leave the servers alone. *)

\* The mails that were excused stay so, and one that comes to the system's servers is.
LEMMA MailMoves ==
  ASSUME EmailInv, UNCHANGED <<servers, chosen>>,
         templates' \in [E!Scope -> E!Template \cup {None}],
         drawn' \in 0 .. MaxServers, served' \in 0 .. MaxSmall, errors' \in 0 .. MaxErrors,
         NEW r \in Req, NEW q \in E!Request,
         emailReq' = [emailReq EXCEPT ![r] = q],
         q.pc \in {"save", "put_template", "linked"} => q.id \in E!Id,
         without' \subseteq Req,
         \A s \in Req : s # r /\ s \in without /\ emailReq[s].pc \in E!Reading
                         => s \in without',
         q.pc \in E!Reading /\ NoActive => r \in without',
         q.pc \in {"global_default", "global_any"} => r \in without',
         astray' = FALSE
  PROVE  EmailInv'
<1>0. E!TypeOK /\ MailRows /\ MailRequests /\ Excused /\ E!DefaultChosen
  BY EmailHas
<1>1. /\ emailReq' \in [Req -> E!Request] /\ emailReq'[r] = q
      /\ \A s \in Req : s # r => emailReq'[s] = emailReq[s]
  BY <1>0, EmailGoes
<1>2. NoActive' = NoActive
  BY DEF NoActive, E!Active, E!InScope, E!Present
<1>3. MailRows'
  BY <1>0, Zenon DEF MailRows
<1>4. MailRequests'
  BY <1>0, <1>1 DEF MailRequests
<1>5. Excused'
  BY <1>0, <1>1, <1>2 DEF Excused, E!Reading
<1>6. E!DefaultChosen'
  BY <1>0, Zenon DEF E!DefaultChosen, E!InScope, E!Present
<1>7. E!TypeOK'
  <2>1. /\ \A i \in E!Id : E!Present(i)' => servers'[i] \in E!Server
        /\ chosen' \in [E!Scope -> E!Id \cup {None}]
    BY <1>0, Zenon DEF E!TypeOK, E!Present
  <2>2. \A s \in E!Scope : templates'[s] # None => templates'[s] \in E!Template
    <3>. HIDE DEF E!Template, E!Scope
    <3>1. QED
      OBVIOUS
  <2>3. astray' \in BOOLEAN
    OBVIOUS
  <2>4. QED
    BY <1>1, <2>1, <2>2, <2>3, Zenon DEF E!TypeOK
<1>8. QED
  BY <1>3, <1>4, <1>5, <1>6, <1>7, Zenon DEF EmailInv

\* A request about servers or templates is begun.
LEMMA BeginKeeps ==
  ASSUME EmailInv, NEW r \in Req, NEW fields, E!Begin(r, fields), EmailFields(fields),
         fields["pc"] \notin E!Reading,
         fields["pc"] \in {"save", "put_template"} =>
           "id" \in DOMAIN fields /\ fields["id"] \in E!Id,
         UNCHANGED without
  PROVE  EmailInv'
<1>0. E!TypeOK /\ MailRows /\ astray = FALSE
  BY EmailHas
<1>1. /\ served' \in 0 .. MaxSmall
      /\ UNCHANGED <<servers, templates, drawn, errors, chosen, astray>>
  BY <1>0, EmailBegins
<1>2. PICK q \in E!Request :
        /\ emailReq' = [emailReq EXCEPT ![r] = q] /\ q.pc = fields["pc"]
        /\ "id" \in DOMAIN fields => q.id = fields["id"]
  BY <1>0, EmailBegins
<1>3. /\ q.pc \notin E!Reading
      /\ q.pc \in {"save", "put_template", "linked"} => q.id \in E!Id
  BY <1>2 DEF E!Reading
<1>4. q.pc \notin {"global_default", "global_any"}
  BY <1>3 DEF E!Reading
<1>5. /\ drawn' \in 0 .. MaxServers /\ errors' \in 0 .. MaxErrors /\ astray' = FALSE
      /\ templates' \in [E!Scope -> E!Template \cup {None}]
      /\ without' \subseteq Req /\ \A s \in without : s \in without'
  BY <1>0, <1>1, EmailTyped, Zenon DEF MailRows
<1>6. QED
  BY <1>1, <1>2, <1>3, <1>4, <1>5, MailMoves

LEMMA ServerBeginsKeep ==
  ASSUME EmailInv, NEW r \in Req, NEW s \in E!Scope, NEW d \in BOOLEAN, NEW a \in BOOLEAN,
         NEW i \in E!Id, E!EmailServerCreate(r, s, d, a) \/ E!EmailServerUpdate(r, i, s, d, a)
  PROVE  EmailInv'
<1>1. CASE E!EmailServerCreate(r, s, d, a)
  <2>. DEFINE step == IF d THEN "clear" ELSE "insert"
              fields == [pc |-> step, scope |-> s, default |-> d, active |-> a]
  <2>1. E!Begin(r, fields) /\ UNCHANGED without
    BY <1>1, Zenon DEF E!EmailServerCreate
  <2>2. /\ step \in E!Steps \ E!Reading /\ step \notin {"save", "put_template"}
    BY DEF E!Steps, E!Saving, E!Reading
  <2>. HIDE DEF step
  <2>3. /\ EmailFields(fields) /\ fields["pc"] = step
    BY <2>2 DEF EmailFields
  <2>. HIDE DEF fields
  <2>4. QED
    BY <2>1, <2>2, <2>3, BeginKeeps
<1>2. CASE E!EmailServerUpdate(r, i, s, d, a)
  <2>. DEFINE step == IF d THEN "clear" ELSE "save"
              fields == [pc |-> step, id |-> i, scope |-> s, default |-> d, active |-> a]
  <2>1. E!Begin(r, fields) /\ UNCHANGED without
    BY <1>2, Zenon DEF E!EmailServerUpdate
  <2>2. /\ step \in E!Steps \ E!Reading
    BY DEF E!Steps, E!Saving, E!Reading
  <2>. HIDE DEF step
  <2>3. /\ EmailFields(fields) /\ fields["pc"] = step
        /\ "id" \in DOMAIN fields /\ fields["id"] = i
    BY <2>2 DEF EmailFields
  <2>. HIDE DEF fields
  <2>4. QED
    BY <2>1, <2>2, <2>3, BeginKeeps
<1>3. QED
  BY <1>1, <1>2

LEMMA UpdateByIDKeeps ==
  ASSUME EmailInv, NEW r \in Req, NEW d \in BOOLEAN, NEW a \in BOOLEAN, NEW i \in E!Id,
         E!UpdateEmailServerConfigByID(r, i, d, a)
  PROVE  EmailInv'
<1>1. E!EmailServerUpdate(r, i, servers[i].scope, d, a) /\ servers[i] # None
  BY DEF E!UpdateEmailServerConfigByID, E!EmailServerUpdate, E!Present
<1>2. servers[i].scope \in E!Scope
  <2>1. servers[i] \in E!Server
    BY <1>1, EmailHas, Zenon DEF E!TypeOK, E!Present
  <2>2. QED
    BY <2>1, ServerTyped
<1>3. QED
  BY <1>1, <1>2, ServerBeginsKeep

LEMMA TemplateBeginsKeep ==
  ASSUME EmailInv, NEW r \in Req, NEW s \in E!Scope, NEW a \in BOOLEAN,
         NEW link \in E!Id \cup {None},
         \/ E!EmailTemplateCreate(r, s, link, a) \/ E!EmailTemplateUpdate(r, s, link, a)
         \/ E!ResetTemplateToDefault(r, s)
  PROVE  EmailInv'
<1>0. MailRows
  BY EmailHas
<1>1. CASE E!EmailTemplateCreate(r, s, link, a)
  <2>. DEFINE fields == [pc |-> "upsert", scope |-> s, link |-> link, active |-> a]
  <2>1. E!Begin(r, fields) /\ UNCHANGED without
    BY <1>1, Zenon DEF E!EmailTemplateCreate
  <2>2. /\ EmailFields(fields) /\ fields["pc"] \notin E!Reading
        /\ fields["pc"] \notin {"save", "put_template"}
    BY DEF EmailFields, E!Steps, E!Reading
  <2>. HIDE DEF fields
  <2>3. QED
    BY <2>1, <2>2, BeginKeeps
<1>2. CASE E!EmailTemplateUpdate(r, s, link, a)
  <2>. DEFINE n == templates[s].id
              fields == [pc |-> "upsert", id |-> n, scope |-> s, link |-> link, active |-> a]
  <2>1. E!Begin(r, fields) /\ UNCHANGED without /\ templates[s] # None
    BY <1>2, Zenon DEF E!EmailTemplateUpdate
  <2>2. n \in E!Id
    BY <1>0, <2>1, TemplateTyped
  <2>. HIDE DEF n
  <2>3. /\ EmailFields(fields) /\ fields["pc"] \notin E!Reading
        /\ fields["pc"] \notin {"save", "put_template"}
    BY <2>2 DEF EmailFields, E!Steps, E!Reading
  <2>. HIDE DEF fields
  <2>4. QED
    BY <2>1, <2>3, BeginKeeps
<1>3. CASE E!ResetTemplateToDefault(r, s)
  <2>. DEFINE n == templates[s].id
              l == templates[s].link
              b == templates[s].active
              fields == [pc |-> "put_template", id |-> n, scope |-> s, link |-> l,
                         active |-> b]
  <2>1. E!Begin(r, fields) /\ UNCHANGED without /\ templates[s] # None
    BY <1>3, Zenon DEF E!ResetTemplateToDefault
  <2>2. n \in E!Id /\ l \in E!Id \cup {None} /\ b \in BOOLEAN
    BY <1>0, <2>1, TemplateTyped
  <2>. HIDE DEF n, l, b
  <2>3. /\ EmailFields(fields) /\ fields["pc"] \notin E!Reading
        /\ "id" \in DOMAIN fields /\ fields["id"] \in E!Id
    BY <2>2 DEF EmailFields, E!Steps, E!Reading
  <2>. HIDE DEF fields
  <2>4. QED
    BY <2>1, <2>3, BeginKeeps
<1>4. QED
  BY <1>1, <1>2, <1>3

\* The template of a scope is written.
LEMMA TemplateUpsertKeeps ==
  ASSUME EmailInv, NEW r \in Req, E!UpsertTemplate(r)
  PROVE  EmailInv'
<1>0. E!TypeOK /\ MailRows /\ Excused /\ astray = FALSE
  BY EmailHas
<1>. DEFINE s == emailReq[r].scope
            step == IF templates[s] # None THEN "put_template" ELSE "add_template"
            n == IF templates[s] # None THEN templates[s].id ELSE emailReq[r].id
            q == [emailReq[r] EXCEPT !.pc = step, !.id = n]
<1>1. /\ emailReq' = [emailReq EXCEPT ![r] = q]
      /\ UNCHANGED <<servers, templates, drawn, served, errors, chosen, without, astray>>
  BY DEF E!UpsertTemplate, E!history
<1>2. /\ s \in E!Scope /\ emailReq[r].id \in E!Id \cup {None}
  BY <1>0, OneEmailReq
<1>3. templates[s] # None => templates[s].id \in E!Id
  BY <1>0, <1>2, TemplateTyped
<1>4. /\ step \in E!Steps /\ step \notin E!Reading /\ step # "save" /\ step # "linked"
      /\ n \in E!Id \cup {None}
      /\ step = "put_template" => n \in E!Id
  BY <1>2, <1>3 DEF E!Steps, E!Saving, E!Reading
<1>. HIDE DEF step, n
<1>5. q \in E!Request /\ q.pc = step /\ q.id = n
  <2>1. emailReq[r] \in E!Request
    BY <1>0, OneEmailReq
  <2>2. QED
    BY <1>4, <2>1 DEF E!Request
<1>. HIDE DEF q
<1>6. /\ q.pc \in {"save", "put_template", "linked"} => q.id \in E!Id
      /\ q.pc \notin E!Reading /\ q.pc \notin {"global_default", "global_any"}
  BY <1>4, <1>5 DEF E!Reading
<1>7. /\ drawn' \in 0 .. MaxServers /\ served' \in 0 .. MaxSmall /\ errors' \in 0 .. MaxErrors
      /\ templates' \in [E!Scope -> E!Template \cup {None}] /\ without' \subseteq Req
  BY <1>0, <1>1, EmailTyped, Zenon DEF MailRows
<1>8. QED
  BY <1>0, <1>1, <1>5, <1>6, <1>7, MailMoves

\* The row that is written is that of the request.
LEMMA TemplatePut ==
  ASSUME MailRows, NEW s \in E!Scope, NEW n \in E!Id, NEW l \in E!Id \cup {None},
         NEW b \in BOOLEAN,
         templates' \in {templates, [templates EXCEPT ![s] = [id |-> n, link |-> l, active |-> b]]}
  PROVE  templates' \in [E!Scope -> E!Template \cup {None}]
<1>1. templates \in [E!Scope -> E!Template \cup {None}]
  BY Zenon DEF MailRows
<1>2. PICK y \in E!Template : templates' \in {templates, [templates EXCEPT ![s] = y]}
  <2>1. [id |-> n, link |-> l, active |-> b] \in E!Template
    BY DEF E!Template
  <2>2. QED
    BY <2>1, Zenon
<1>. HIDE DEF E!Template, E!Scope
<1>3. QED
  BY <1>1, <1>2

LEMMA TemplateSaveKeeps ==
  ASSUME EmailInv, NEW r \in Req, E!PutTemplate(r) \/ E!AddTemplate(r)
  PROVE  EmailInv'
<1>0. E!TypeOK /\ MailRows /\ MailRequests /\ Excused /\ astray = FALSE
  BY EmailHas
<1>. DEFINE s == emailReq[r].scope
            l == emailReq[r].link
<1>1. /\ emailReq' = [emailReq EXCEPT ![r] = E!Idle]
      /\ UNCHANGED <<servers, served, errors, chosen, without, astray>>
  BY DEF E!PutTemplate, E!AddTemplate, E!Finish, E!history
<1>2. /\ s \in E!Scope /\ l \in E!Id \cup {None} /\ emailReq[r].id \in E!Id \cup {None}
      /\ emailReq[r].active \in BOOLEAN /\ drawn \in 0 .. MaxServers
  BY <1>0, OneEmailReq, EmailTyped
<1>3. /\ drawn' \in 0 .. MaxServers
      /\ templates' \in [E!Scope -> E!Template \cup {None}]
  <2>1. CASE E!PutTemplate(r)
    <3>. DEFINE b == templates[s] = None \/ emailReq[r].active
    <3>1. /\ emailReq[r].pc = "put_template" /\ drawn' = drawn
          /\ templates' \in {templates, [templates EXCEPT ![s] =
                               [id |-> emailReq[r].id, link |-> l, active |-> b]]}
      BY <2>1 DEF E!PutTemplate, E!At
    <3>2. emailReq[r].id \in E!Id /\ b \in BOOLEAN
      BY <1>0, <3>1 DEF MailRequests
    <3>. HIDE DEF s, l, b
    <3>3. QED
      BY <1>0, <1>2, <3>1, <3>2, TemplatePut
  <2>2. CASE E!AddTemplate(r)
    <3>. DEFINE n == IF emailReq[r].id # None THEN emailReq[r].id ELSE drawn'
    <3>1. /\ \/ emailReq[r].id # None /\ drawn' = drawn
             \/ emailReq[r].id = None /\ drawn < MaxServers /\ drawn' = drawn + 1
          /\ templates' \in {templates, [templates EXCEPT ![s] =
                               [id |-> n, link |-> l, active |-> TRUE]]}
      BY <2>2 DEF E!AddTemplate
    <3>2. n \in E!Id /\ drawn' \in 0 .. MaxServers
      BY <1>2, <3>1, EmailConstants DEF E!Id
    <3>. HIDE DEF s, l, n
    <3>3. QED
      BY <1>0, <1>2, <3>1, <3>2, TemplatePut
  <2>3. QED
    BY <2>1, <2>2
<1>4. /\ E!Idle \in E!Request /\ E!Idle.pc \notin {"save", "put_template", "linked"}
      /\ E!Idle.pc \notin E!Reading /\ E!Idle.pc \notin {"global_default", "global_any"}
  BY EmailIdle DEF E!Reading
<1>. HIDE DEF E!Idle
<1>5. served' \in 0 .. MaxSmall /\ errors' \in 0 .. MaxErrors /\ without' \subseteq Req
  BY <1>0, <1>1, EmailTyped
<1>6. QED
  BY <1>0, <1>1, <1>3, <1>4, <1>5, MailMoves

-----------------------------------------------------------------------------
(* A mail. *)
LEMMA SendBeginsKeeps ==
  ASSUME EmailInv, NEW r \in Req, E!SendEmailWithContext(r)
  PROVE  EmailInv'
<1>0. E!TypeOK /\ MailRows /\ Excused /\ astray = FALSE
  BY EmailHas
<1>. DEFINE fields == [pc |-> "app_template"]
<1>1. /\ E!Begin(r, fields)
      /\ without' = {s \in Req : emailReq'[s].pc \in E!Reading /\ (NoActive \/ s \in without)}
  BY Zenon DEF E!SendEmailWithContext, E!NoteWithout, NoActive
<1>2. EmailFields(fields) /\ fields["pc"] = "app_template"
  BY DEF EmailFields, E!Steps, E!Reading
<1>. HIDE DEF fields
<1>3. /\ served' \in 0 .. MaxSmall
      /\ UNCHANGED <<servers, templates, drawn, errors, chosen, astray>>
  BY <1>0, <1>1, <1>2, EmailBegins
<1>4. PICK q \in E!Request : emailReq' = [emailReq EXCEPT ![r] = q] /\ q.pc = "app_template"
  BY <1>0, <1>1, <1>2, EmailBegins
<1>5. emailReq'[r] = q /\ \A s \in Req : s # r => emailReq'[s] = emailReq[s]
  BY <1>0, <1>4, EmailGoes
<1>6. /\ without' \subseteq Req
      /\ \A s \in Req : s # r /\ s \in without /\ emailReq[s].pc \in E!Reading
                         => s \in without'
      /\ NoActive => r \in without'
  BY <1>1, <1>4, <1>5 DEF E!Reading
<1>7. /\ drawn' \in 0 .. MaxServers /\ errors' \in 0 .. MaxErrors
      /\ templates' \in [E!Scope -> E!Template \cup {None}]
  BY <1>0, <1>3, EmailTyped, Zenon DEF MailRows
<1>8. /\ q.pc \notin {"save", "put_template", "linked"}
      /\ q.pc \notin {"global_default", "global_any"}
  BY <1>4
<1>9. QED
  BY <1>0, <1>3, <1>4, <1>6, <1>7, <1>8, MailMoves

\* A mail that goes from one source of the template or of the server to the next.
LEMMA MailGoesOn ==
  ASSUME EmailInv, NEW r \in Req, NEW q \in E!Request,
         emailReq' = [emailReq EXCEPT ![r] = q],
         UNCHANGED <<servers, templates, drawn, served, chosen, astray>>,
         errors' \in 0 .. MaxErrors,
         q.pc \in {"save", "put_template", "linked"} => q.id \in E!Id,
         without' \in {without, without \cup {r}, without \ {r}},
         q.pc \in E!Reading => without' # without \ {r} \/ r \notin without,
         q.pc \in E!Reading => emailReq[r].pc \in E!Reading,
         q.pc \in {"global_default", "global_any"} => r \in without'
  PROVE  EmailInv'
<1>0. E!TypeOK /\ MailRows /\ Excused /\ astray = FALSE
  BY EmailHas
<1>1. q.pc \in E!Reading /\ NoActive => r \in without'
  BY <1>0 DEF Excused
<1>2. /\ without' \subseteq Req
      /\ \A s \in Req : s # r /\ s \in without /\ emailReq[s].pc \in E!Reading
                         => s \in without'
  BY <1>0, EmailTyped
<1>3. /\ drawn' \in 0 .. MaxServers /\ served' \in 0 .. MaxSmall
      /\ templates' \in [E!Scope -> E!Template \cup {None}]
  BY <1>0, EmailTyped, Zenon DEF MailRows
<1>4. QED
  BY <1>0, <1>1, <1>2, <1>3, MailMoves

\* A mail that is sent.
LEMMA SentKeeps ==
  ASSUME EmailInv, NEW r \in Req, NEW own, E!Sent(r, own), own \/ r \in without,
         UNCHANGED <<servers, templates, drawn, served, errors, chosen>>
  PROVE  EmailInv'
<1>0. E!TypeOK /\ astray = FALSE
  BY EmailHas
<1>1. /\ emailReq' = [emailReq EXCEPT ![r] = E!Idle] /\ without' = without \ {r}
      /\ astray' = (astray \/ (~ own /\ r \notin without))
  BY DEF E!Sent, E!Finish
<1>2. astray' = FALSE
  BY <1>0, <1>1
<1>3. /\ E!Idle \in E!Request /\ E!Idle.pc \notin {"save", "put_template", "linked"}
      /\ E!Idle.pc \notin E!Reading /\ E!Idle.pc \notin {"global_default", "global_any"}
  BY EmailIdle DEF E!Reading
<1>4. errors' \in 0 .. MaxErrors
  BY <1>0, EmailTyped
<1>. HIDE DEF E!Idle
<1>5. QED
  BY <1>0, <1>1, <1>2, <1>3, <1>4, MailGoesOn

LEMMA TryKeeps ==
  ASSUME EmailInv, NEW r \in Req, NEW step \in E!Steps, E!Try(r, step),
         emailReq[r].pc \in E!Reading, step \notin {"save", "put_template", "linked"},
         step \in {"global_default", "global_any"} => r \in without,
         UNCHANGED <<servers, templates, drawn, served, errors, chosen>>
  PROVE  EmailInv'
<1>0. E!TypeOK
  BY EmailHas
<1>. DEFINE q == [emailReq[r] EXCEPT !.pc = step]
<1>1. emailReq' = [emailReq EXCEPT ![r] = q] /\ UNCHANGED <<without, astray>>
  BY DEF E!Try, E!Goto
<1>2. q \in E!Request /\ q.pc = step
  BY <1>0, EmailStep
<1>. HIDE DEF q
<1>3. errors' \in 0 .. MaxErrors
  BY <1>0, EmailTyped
<1>4. q.pc \in E!Reading => without' # without \ {r} \/ r \notin without
  BY <1>1
<1>5. QED
  BY <1>1, <1>2, <1>3, <1>4, MailGoesOn

LEMMA GetTemplateKeeps ==
  ASSUME EmailInv, NEW r \in Req, E!GetTemplate(r)
  PROVE  EmailInv'
<1>0. E!TypeOK /\ MailRows
  BY EmailHas
<1>1. UNCHANGED <<servers, templates, drawn, served, errors, chosen, without, astray>>
  BY DEF E!GetTemplate, E!history
<1>2. ASSUME NEW scope \in E!Scope, E!ActiveTemplate(scope), E!UseTemplate(r, scope),
             emailReq[r].pc \in E!Reading
      PROVE  EmailInv'
  <2>. DEFINE n == templates[scope].link
              step == IF n # None THEN "linked" ELSE "app_default"
              q == [emailReq[r] EXCEPT !.pc = step, !.id = n]
  <2>1. emailReq' = [emailReq EXCEPT ![r] = q] /\ templates[scope] # None
    BY <1>2 DEF E!UseTemplate, E!ActiveTemplate
  <2>2. n \in E!Id \cup {None}
    BY <1>0, <2>1, TemplateTyped
  <2>3. /\ step \in E!Steps /\ step \notin {"save", "put_template"}
        /\ step \notin {"global_default", "global_any"}
        /\ step = "linked" => n \in E!Id
    BY <2>2 DEF E!Steps, E!Reading
  <2>. HIDE DEF n, step
  <2>4. q \in E!Request /\ q.pc = step /\ q.id = n
    <3>1. emailReq[r] \in E!Request
      BY <1>0, OneEmailReq
    <3>2. QED
      BY <2>2, <2>3, <3>1 DEF E!Request
  <2>. HIDE DEF q
  <2>5. errors' \in 0 .. MaxErrors
    BY <1>0, <1>1, EmailTyped
  <2>6. /\ q.pc \in {"save", "put_template", "linked"} => q.id \in E!Id
        /\ q.pc \notin {"global_default", "global_any"}
        /\ q.pc \in E!Reading => without' # without \ {r} \/ r \notin without
    BY <1>1, <2>3, <2>4
  <2>7. QED
    BY <1>1, <1>2, <2>1, <2>4, <2>5, <2>6, MailGoesOn
<1>3. ASSUME NEW step \in {"global_template", "app_default"}, E!Goto(r, step),
             emailReq[r].pc \in E!Reading
      PROVE  EmailInv'
  <2>1. E!Try(r, step)
    BY <1>1, <1>3, Zenon DEF E!Try
  <2>2. /\ step \in E!Steps /\ step \notin {"save", "put_template", "linked"}
        /\ step \notin {"global_default", "global_any"}
    BY <1>3 DEF E!Steps, E!Reading
  <2>3. QED
    BY <1>1, <1>3, <2>1, <2>2, TryKeeps
<1>4. emailReq[r].pc \in E!Reading
  BY DEF E!GetTemplate, E!At, E!Reading
<1>5. \/ \E scope \in E!Scope : E!ActiveTemplate(scope) /\ E!UseTemplate(r, scope)
      \/ \E step \in {"global_template", "app_default"} : E!Goto(r, step)
  <2>1. "app" \in E!Scope /\ "global" \in E!Scope
    BY DEF E!Scope
  <2>2. QED
    BY <2>1, Zenon DEF E!GetTemplate
<1>6. QED
  BY <1>2, <1>3, <1>4, <1>5

LEMMA LinkedKeeps ==
  ASSUME EmailInv, NEW r \in Req, E!ResolveLinked(r)
  PROVE  EmailInv'
<1>1. /\ emailReq[r].pc \in E!Reading
      /\ E!Sent(r, TRUE) \/ E!Try(r, "app_default")
      /\ UNCHANGED <<servers, templates, drawn, served, errors, chosen>>
  BY DEF E!ResolveLinked, E!At, E!Reading
<1>2. /\ "app_default" \in E!Steps /\ "app_default" \notin {"save", "put_template", "linked"}
      /\ "app_default" \notin {"global_default", "global_any"}
  BY DEF E!Steps, E!Reading
<1>3. QED
  BY <1>1, <1>2, SentKeeps, TryKeeps

LEMMA GetServerKeeps ==
  ASSUME EmailInv, NEW r \in Req, E!GetServerConfig(r)
  PROVE  EmailInv'
<1>0. E!TypeOK /\ Excused
  BY EmailHas
<1>1. /\ UNCHANGED <<servers, templates, drawn, served, errors, chosen>>
      /\ emailReq[r].pc \in {"app_default", "app_any"}
      /\ \/ E!Sent(r, TRUE) \/ E!Try(r, "app_any")
         \/ E!Try(r, "global_default") /\ NoActive
  BY DEF E!GetServerConfig, E!At, E!AfterNoDefault, NoActive
<1>2. /\ "app_any" \in E!Steps /\ "app_any" \notin {"save", "put_template", "linked"}
      /\ "app_any" \notin {"global_default", "global_any"}
      /\ "global_default" \in E!Steps
      /\ "global_default" \notin {"save", "put_template", "linked"}
      /\ emailReq[r].pc \in E!Reading
  BY <1>1 DEF E!Steps, E!Reading
<1>3. NoActive => r \in without
  BY <1>0, <1>2 DEF Excused
<1>4. QED
  BY <1>1, <1>2, <1>3, SentKeeps, TryKeeps

LEMMA GetGlobalKeeps ==
  ASSUME EmailInv, NEW r \in Req, E!GetGlobalServerConfig(r)
  PROVE  EmailInv'
<1>0. E!TypeOK /\ Excused
  BY EmailHas
<1>1. /\ UNCHANGED <<servers, templates, drawn, served, errors, chosen>>
      /\ emailReq[r].pc \in {"global_default", "global_any"}
      /\ \E own \in BOOLEAN : E!Sent(r, own) \/ E!Try(r, "global_any")
  BY DEF E!GetGlobalServerConfig, E!At
<1>2. /\ "global_any" \in E!Steps /\ "global_any" \notin {"save", "put_template", "linked"}
      /\ emailReq[r].pc \in E!Reading
  BY <1>1 DEF E!Steps, E!Reading
<1>3. r \in without
  BY <1>0, <1>1 DEF Excused
<1>4. QED
  BY <1>1, <1>2, <1>3, SentKeeps, TryKeeps

LEMMA EmailFailKeeps ==
  ASSUME EmailInv, NEW r \in Req, E!Fail(r)
  PROVE  EmailInv'
<1>0. E!TypeOK /\ Excused
  BY EmailHas
<1>. DEFINE step == E!AfterFailure(emailReq[r].pc)
<1>1. /\ errors < MaxErrors /\ errors' = errors + 1
      /\ \/ step = "idle" /\ E!Finish(r) /\ without' = without \ {r}
         \/ step # "idle" /\ E!Goto(r, step) /\ without' = without \cup {r}
      /\ UNCHANGED <<servers, templates, drawn, served, chosen, astray>>
  BY DEF E!Fail
<1>2. /\ step \in {"app_default", "global_default", "idle"}
      /\ step # "idle" => emailReq[r].pc \in E!Reading
  BY DEF E!AfterFailure, E!Reading
<1>. HIDE DEF step
<1>3. errors' \in 0 .. MaxErrors
  BY <1>0, <1>1, EmailTyped, EmailConstants
<1>4. CASE step = "idle"
  <2>1. /\ emailReq' = [emailReq EXCEPT ![r] = E!Idle] /\ without' = without \ {r}
    BY <1>1, <1>4 DEF E!Finish
  <2>2. /\ E!Idle \in E!Request /\ E!Idle.pc \notin {"save", "put_template", "linked"}
        /\ E!Idle.pc \notin E!Reading /\ E!Idle.pc \notin {"global_default", "global_any"}
    BY EmailIdle DEF E!Reading
  <2>. HIDE DEF E!Idle
  <2>3. QED
    BY <1>1, <1>3, <2>1, <2>2, MailGoesOn
<1>5. CASE step # "idle"
  <2>. DEFINE q == [emailReq[r] EXCEPT !.pc = step]
  <2>1. emailReq' = [emailReq EXCEPT ![r] = q] /\ without' = without \cup {r}
    BY <1>1, <1>5 DEF E!Goto
  <2>2. q \in E!Request /\ q.pc = step
    <3>1. step \in E!Steps
      BY <1>2 DEF E!Steps, E!Reading
    <3>2. QED
      BY <1>0, <3>1, EmailStep
  <2>. HIDE DEF q
  <2>3. /\ r \in without' /\ without' # without \ {r}
        /\ q.pc \notin {"save", "put_template", "linked"}
    BY <1>2, <1>5, <2>1, <2>2
  <2>4. QED
    BY <1>1, <1>2, <1>3, <1>5, <2>1, <2>2, <2>3, MailGoesOn
<1>6. QED
  BY <1>4, <1>5

-----------------------------------------------------------------------------
(* Steps that change the servers. *)

\* What a step that changes the servers has to keep.
LEMMA ServersChange ==
  ASSUME EmailInv,
         servers' \in [E!Id -> E!Server \cup {None}],
         templates' \in [E!Scope -> E!Template \cup {None}],
         drawn' \in 0 .. MaxServers, emailReq' \in [Req -> E!Request],
         chosen' \in [E!Scope -> E!Id \cup {None}],
         UNCHANGED <<served, errors, astray>>, without' \subseteq Req,
         MailRequests', Excused', E!DefaultChosen'
  PROVE  EmailInv'
<1>0. E!TypeOK /\ astray = FALSE
  BY EmailHas
<1>1. MailRows'
  BY Zenon DEF MailRows
<1>2. /\ \A i \in E!Id : E!Present(i)' => servers'[i] \in E!Server
      /\ \A s \in E!Scope : templates'[s] # None => templates'[s] \in E!Template
  <2>. HIDE DEF E!Server, E!Template, E!Id, E!Scope
  <2>1. QED
    BY DEF E!Present
<1>3. served' \in 0 .. MaxSmall /\ errors' \in 0 .. MaxErrors /\ astray' \in BOOLEAN
  BY <1>0, EmailTyped
<1>4. E!TypeOK'
  BY <1>2, <1>3, Zenon DEF E!TypeOK
<1>5. QED
  BY <1>0, <1>1, <1>4, Zenon DEF EmailInv

LEMMA ClearKeeps ==
  ASSUME EmailInv, NEW r \in Req, E!ClearDefaultFlag(r)
  PROVE  EmailInv'
<1>0. E!TypeOK /\ MailRows /\ MailRequests /\ Excused /\ E!DefaultChosen
  BY EmailHas
<1>. DEFINE sc == emailReq[r].scope
            step == IF emailReq[r].id = None THEN "insert" ELSE "save"
            q == [emailReq[r] EXCEPT !.pc = step]
<1>1. /\ emailReq' = [emailReq EXCEPT ![r] = q]
      /\ servers' = [i \in E!Id |-> IF i \in E!InScope(sc)
                                      THEN [servers[i] EXCEPT !.default = FALSE]
                                      ELSE servers[i]]
      /\ chosen' = [chosen EXCEPT ![sc] = None]
      /\ UNCHANGED <<templates, drawn, served, errors, without, astray>>
  BY DEF E!ClearDefaultFlag, E!Cleared, E!Goto
<1>2. sc \in E!Scope /\ emailReq[r].id \in E!Id \cup {None}
  BY <1>0, OneEmailReq
<1>3. /\ step \in {"insert", "save"} /\ step \in E!Steps
      /\ step = "save" => emailReq[r].id \in E!Id
  BY <1>2 DEF E!Steps, E!Saving
<1>. HIDE DEF step
<1>4. q \in E!Request /\ q.pc = step /\ q.id = emailReq[r].id
  BY <1>0, <1>3, EmailStep
<1>. HIDE DEF q
<1>5. /\ emailReq' \in [Req -> E!Request] /\ emailReq'[r] = q
      /\ \A s \in Req : s # r => emailReq'[s] = emailReq[s]
  BY <1>0, <1>1, <1>4, EmailGoes
<1>. HIDE DEF sc
\* A row keeps its scope and whether it is active.
<1>6. \A i \in E!Id : servers[i] = None \/ servers[i] \in E!Server
  BY <1>0, Zenon DEF E!TypeOK, E!Present
<1>7. ASSUME NEW i \in E!Id
      PROVE  /\ servers[i] = None => servers'[i] = None
             /\ servers[i] # None => /\ servers'[i] \in E!Server /\ servers'[i] # None
                                     /\ servers'[i].scope = servers[i].scope
                                     /\ servers'[i].active = servers[i].active
             /\ i \notin E!InScope(sc) => servers'[i] = servers[i]
  <2>1. servers'[i] = IF i \in E!InScope(sc) THEN [servers[i] EXCEPT !.default = FALSE]
                      ELSE servers[i]
    BY <1>1
  <2>2. CASE i \in E!InScope(sc)
    <3>1. servers[i] # None /\ servers[i] \in E!Server
      BY <1>6, <2>2 DEF E!InScope, E!Present
    <3>2. /\ servers'[i] \in E!Server /\ servers'[i].scope = servers[i].scope
          /\ servers'[i].active = servers[i].active
      BY <2>1, <2>2, <3>1 DEF E!Server
    <3>3. QED
      BY <2>2, <3>1, <3>2, EmailConstants
  <2>3. CASE i \notin E!InScope(sc)
    BY <1>6, <2>1, <2>3
  <2>4. QED
    BY <2>2, <2>3
<1>8. servers' \in [E!Id -> E!Server \cup {None}]
  <2>1. \A i \in E!Id : servers'[i] \in E!Server \cup {None}
    BY <1>7
  <2>. HIDE DEF E!Server
  <2>2. QED
    BY <1>1, <2>1
<1>9. E!Active("app")' = E!Active("app") /\ \A s : E!InScope(s)' = E!InScope(s)
  BY <1>7 DEF E!Active, E!InScope, E!Present
<1>10. /\ templates' \in [E!Scope -> E!Template \cup {None}] /\ drawn' \in 0 .. MaxServers
       /\ without' \subseteq Req
  BY <1>0, <1>1, EmailTyped, Zenon DEF MailRows
<1>11. /\ chosen' \in [E!Scope -> E!Id \cup {None}] /\ chosen'[sc] = None
       /\ \A s \in E!Scope : s # sc => chosen'[s] = chosen[s]
  BY <1>0, <1>1, <1>2, EmailTyped
<1>12. MailRequests'
  BY <1>0, <1>3, <1>4, <1>5 DEF MailRequests
<1>13. Excused'
  BY <1>0, <1>1, <1>3, <1>4, <1>5, <1>9 DEF Excused, NoActive, E!Reading
<1>14. E!DefaultChosen'
  <2>. SUFFICES ASSUME NEW s \in E!Scope, chosen'[s] # None
                PROVE  chosen'[s] \in E!InScope(s)' /\ servers'[chosen'[s]].default
    BY Zenon DEF E!DefaultChosen
  <2>1. s # sc /\ chosen'[s] = chosen[s]
    BY <1>11
  <2>2. chosen[s] \in E!InScope(s) /\ servers[chosen[s]].default
    BY <1>0, <2>1 DEF E!DefaultChosen
  <2>3. chosen[s] \in E!Id /\ chosen[s] \notin E!InScope(sc)
    BY <2>1, <2>2 DEF E!InScope
  <2>4. QED
    BY <1>7, <1>9, <2>1, <2>2, <2>3
<1>15. QED
  BY <1>1, <1>5, <1>8, <1>10, <1>11, <1>12, <1>13, <1>14, ServersChange

\* A row is written, or the index on the defaults of a scope refuses it.
LEMMA WriteKeeps ==
  ASSUME EmailInv, NEW r \in Req, NEW i \in E!Id, NEW row \in E!Server, E!Write(r, i, row),
         drawn' \in 0 .. MaxServers, UNCHANGED <<templates, served, errors, astray>>
  PROVE  EmailInv'
<1>0. E!TypeOK /\ MailRows /\ MailRequests /\ Excused /\ E!DefaultChosen
  BY EmailHas
<1>1. /\ emailReq' = [emailReq EXCEPT ![r] = E!Idle]
      /\ without' = {s \in Req : emailReq'[s].pc \in E!Reading
                                   /\ (NoActive' \/ s \in without)}
  BY DEF E!Write, E!Finish, E!NoteWithout, NoActive
<1>2. \/ servers' = servers /\ chosen' = chosen
      \/ /\ servers' = [servers EXCEPT ![i] = row]
         /\ chosen' = [s \in E!Scope |->
                         IF s = row.scope /\ row.default THEN i
                         ELSE IF chosen[s] = i THEN None ELSE chosen[s]]
  BY DEF E!Write
<1>3. /\ E!Idle \in E!Request /\ E!Idle.pc = "idle"
  BY EmailIdle
<1>. HIDE DEF E!Idle
<1>4. /\ emailReq' \in [Req -> E!Request] /\ emailReq'[r] = E!Idle
      /\ \A s \in Req : s # r => emailReq'[s] = emailReq[s]
  BY <1>0, <1>1, <1>3, EmailGoes
<1>5. /\ servers \in [E!Id -> E!Server \cup {None}] /\ row # None
      /\ chosen \in [E!Scope -> E!Id \cup {None}]
      /\ templates' \in [E!Scope -> E!Template \cup {None}]
      /\ row.scope \in E!Scope /\ row.default \in BOOLEAN
  BY <1>0, EmailTyped, EmailConstants, ServerTyped, Zenon DEF MailRows
<1>6. servers' \in [E!Id -> E!Server \cup {None}] /\ chosen' \in [E!Scope -> E!Id \cup {None}]
  <2>. HIDE DEF E!Server, E!Id, E!Scope
  <2>1. QED
    BY <1>2, <1>5
<1>7. MailRequests'
  BY <1>0, <1>3, <1>4 DEF MailRequests
<1>8. Excused'
  <2>1. \A s \in Req : emailReq'[s].pc \in {"global_default", "global_any"} =>
          s # r /\ s \in without /\ emailReq'[s].pc \in E!Reading
    BY <1>0, <1>3, <1>4 DEF Excused, E!Reading
  <2>2. QED
    BY <1>1, <2>1, Zenon DEF Excused
<1>9. E!DefaultChosen'
  <2>1. CASE servers' = servers /\ chosen' = chosen
    BY <1>0, <2>1, Zenon DEF E!DefaultChosen, E!InScope, E!Present
  <2>2. CASE /\ servers' = [servers EXCEPT ![i] = row]
             /\ chosen' = [s \in E!Scope |->
                             IF s = row.scope /\ row.default THEN i
                             ELSE IF chosen[s] = i THEN None ELSE chosen[s]]
    <3>. SUFFICES ASSUME NEW s \in E!Scope, chosen'[s] # None
                  PROVE  chosen'[s] \in E!InScope(s)' /\ servers'[chosen'[s]].default
      BY Zenon DEF E!DefaultChosen
    <3>1. servers'[i] = row /\ \A j \in E!Id : j # i => servers'[j] = servers[j]
      BY <1>5, <2>2
    <3>2. \/ chosen'[s] = i /\ s = row.scope /\ row.default
          \/ chosen'[s] = chosen[s] /\ chosen[s] # i
      BY <2>2
    <3>3. CASE chosen'[s] = i /\ s = row.scope /\ row.default
      BY <1>5, <3>1, <3>3 DEF E!InScope, E!Present
    <3>4. CASE chosen'[s] = chosen[s] /\ chosen[s] # i
      <4>1. chosen[s] \in E!InScope(s) /\ servers[chosen[s]].default
        BY <1>0, <3>4 DEF E!DefaultChosen
      <4>2. chosen[s] \in E!Id /\ servers'[chosen[s]] = servers[chosen[s]]
        BY <3>1, <3>4, <4>1 DEF E!InScope
      <4>3. QED
        BY <3>4, <4>1, <4>2 DEF E!InScope, E!Present
    <3>5. QED
      BY <3>2, <3>3, <3>4
  <2>3. QED
    BY <1>2, <2>1, <2>2
<1>10. without' \subseteq Req
  BY <1>1
<1>11. QED
  BY <1>4, <1>5, <1>6, <1>7, <1>8, <1>9, <1>10, ServersChange

LEMMA ServerSaveKeeps ==
  ASSUME EmailInv, NEW r \in Req, E!CreateServerConfig(r) \/ E!UpdateServerConfig(r)
  PROVE  EmailInv'
<1>0. E!TypeOK /\ MailRequests
  BY EmailHas
<1>1. /\ emailReq[r].scope \in E!Scope /\ emailReq[r].default \in BOOLEAN
      /\ emailReq[r].active \in BOOLEAN /\ drawn \in 0 .. MaxServers
  BY <1>0, OneEmailReq, EmailTyped
<1>2. E!Inserted(emailReq[r].scope) \in E!Server
  BY <1>1 DEF E!Inserted, E!Server
<1>3. CASE E!CreateServerConfig(r)
  <2>1. /\ drawn < MaxServers /\ drawn' = drawn + 1
        /\ E!Write(r, drawn', E!Inserted(emailReq[r].scope))
        /\ UNCHANGED <<templates, served, errors, astray>>
    BY <1>3, Zenon DEF E!CreateServerConfig
  <2>2. drawn' \in E!Id /\ drawn' \in 0 .. MaxServers
    BY <1>1, <2>1, EmailConstants DEF E!Id
  <2>3. QED
    BY <1>2, <2>1, <2>2, WriteKeeps, Zenon
<1>4. CASE E!UpdateServerConfig(r)
  <2>. DEFINE i == emailReq[r].id
              row == IF E!Present(i)
                       THEN [scope |-> emailReq[r].scope, default |-> emailReq[r].default,
                             active |-> emailReq[r].active]
                       ELSE E!Inserted(emailReq[r].scope)
  <2>1. /\ emailReq[r].pc = "save" /\ E!Write(r, i, row)
        /\ UNCHANGED <<templates, drawn, served, errors, astray>>
    BY <1>4, Zenon DEF E!UpdateServerConfig, E!At
  <2>2. i \in E!Id
    BY <1>0, <2>1 DEF MailRequests
  <2>3. row \in E!Server
    <3>1. [scope |-> emailReq[r].scope, default |-> emailReq[r].default,
           active |-> emailReq[r].active] \in E!Server
      BY <1>1 DEF E!Server
    <3>2. QED
      BY <1>2, <3>1, Zenon
  <2>4. drawn' \in 0 .. MaxServers
    BY <1>1, <2>1
  <2>. HIDE DEF row
  <2>5. QED
    BY <2>1, <2>2, <2>3, <2>4, WriteKeeps
<1>5. QED
  BY <1>3, <1>4

LEMMA EmailDeleteKeeps ==
  ASSUME EmailInv, NEW gone, E!Delete(gone)
  PROVE  EmailInv'
<1>0. E!TypeOK /\ MailRows /\ MailRequests /\ Excused /\ E!DefaultChosen
  BY EmailHas
<1>1. /\ servers' = [i \in E!Id |-> IF i \in gone THEN None ELSE servers[i]]
      /\ templates' = [s \in E!Scope |->
                         IF templates[s] # None /\ templates[s].link \in gone
                           THEN [templates[s] EXCEPT !.link = None] ELSE templates[s]]
      /\ chosen' = [s \in E!Scope |-> IF chosen[s] \in gone THEN None ELSE chosen[s]]
      /\ without' = {r \in Req : emailReq[r].pc \in E!Reading
                                   /\ (E!Active("app") \ gone = {} \/ r \in without)}
      /\ UNCHANGED <<drawn, emailReq, served, errors, astray>>
  BY DEF E!Delete
<1>2. /\ drawn' \in 0 .. MaxServers /\ emailReq' \in [Req -> E!Request]
      /\ without' \subseteq Req
  BY <1>0, <1>1, EmailTyped
<1>3. servers' \in [E!Id -> E!Server \cup {None}]
  <2>1. servers \in [E!Id -> E!Server \cup {None}]
    BY <1>0, Zenon DEF MailRows
  <2>. HIDE DEF E!Server, E!Id
  <2>2. QED
    BY <1>1, <2>1
<1>4. templates' \in [E!Scope -> E!Template \cup {None}]
  <2>1. ASSUME NEW s \in E!Scope
        PROVE  templates'[s] \in E!Template \cup {None}
    <3>1. CASE templates[s] # None
      <4>1. templates[s] \in E!Template
        BY <1>0, <3>1, TemplateTyped
      <4>2. [templates[s] EXCEPT !.link = None] \in E!Template
        BY <4>1 DEF E!Template
      <4>3. templates'[s] \in {templates[s], [templates[s] EXCEPT !.link = None]}
        BY <1>1
      <4>4. QED
        BY <4>1, <4>2, <4>3
    <3>2. CASE templates[s] = None
      BY <1>1, <3>2
    <3>3. QED
      BY <3>1, <3>2
  <2>2. \E f : templates' = [s \in E!Scope |-> f[s]] /\ f = templates'
    BY <1>1
  <2>. HIDE DEF E!Template, E!Scope
  <2>3. QED
    BY <2>1, <2>2
<1>5. chosen' \in [E!Scope -> E!Id \cup {None}]
  <2>1. chosen \in [E!Scope -> E!Id \cup {None}]
    BY <1>0, EmailTyped
  <2>. HIDE DEF E!Scope, E!Id
  <2>2. QED
    BY <1>1, <2>1
<1>6. \A i \in E!Id : servers'[i] = IF i \in gone THEN None ELSE servers[i]
  BY <1>1
<1>7. MailRequests'
  BY <1>0, <1>1, Zenon DEF MailRequests
<1>8. Excused'
  <2>1. E!Active("app")' = E!Active("app") \ gone
    BY <1>6 DEF E!Active, E!InScope, E!Present
  <2>2. \A r \in Req : emailReq'[r].pc \in {"global_default", "global_any"} =>
          r \in without /\ emailReq[r].pc \in E!Reading
    BY <1>0, <1>1 DEF Excused, E!Reading
  <2>3. QED
    BY <1>1, <2>1, <2>2, Zenon DEF Excused, NoActive
<1>9. E!DefaultChosen'
  <2>. SUFFICES ASSUME NEW s \in E!Scope, chosen'[s] # None
                PROVE  chosen'[s] \in E!InScope(s)' /\ servers'[chosen'[s]].default
    BY Zenon DEF E!DefaultChosen
  <2>1. chosen'[s] = chosen[s] /\ chosen[s] \notin gone
    BY <1>1
  <2>2. chosen[s] \in E!InScope(s) /\ servers[chosen[s]].default
    BY <1>0, <2>1 DEF E!DefaultChosen
  <2>3. chosen[s] \in E!Id /\ servers'[chosen[s]] = servers[chosen[s]]
    BY <1>6, <2>1, <2>2 DEF E!InScope
  <2>4. QED
    BY <2>1, <2>2, <2>3 DEF E!InScope, E!Present
<1>10. QED
  BY <1>1, <1>2, <1>3, <1>4, <1>5, <1>7, <1>8, <1>9, ServersChange

LEMMA TemplateDeleteKeeps ==
  ASSUME EmailInv, NEW s \in E!Scope, E!EmailTemplateDelete(s)
  PROVE  EmailInv'
<1>0. E!TypeOK /\ MailRows /\ MailRequests /\ Excused /\ E!DefaultChosen
  BY EmailHas
<1>1. /\ templates' = [templates EXCEPT ![s] = None]
      /\ UNCHANGED <<servers, drawn, emailReq, served, errors, chosen, without, astray>>
  BY DEF E!EmailTemplateDelete, E!history
<1>2. templates' \in [E!Scope -> E!Template \cup {None}]
  <2>1. templates \in [E!Scope -> E!Template \cup {None}]
    BY <1>0, Zenon DEF MailRows
  <2>. HIDE DEF E!Template, E!Scope
  <2>2. QED
    BY <1>1, <2>1
<1>3. MailRequests' /\ E!DefaultChosen' /\ Excused'
  BY <1>0, <1>1, Zenon DEF MailRequests, E!DefaultChosen, Excused, NoActive, E!Active,
    E!InScope, E!Present
<1>4. /\ servers' \in [E!Id -> E!Server \cup {None}] /\ drawn' \in 0 .. MaxServers
      /\ emailReq' \in [Req -> E!Request] /\ chosen' \in [E!Scope -> E!Id \cup {None}]
      /\ without' \subseteq Req
  BY <1>0, <1>1, EmailTyped, Zenon DEF MailRows
<1>5. QED
  BY <1>1, <1>2, <1>3, <1>4, ServersChange

-----------------------------------------------------------------------------
LEMMA InitEmail ==
  ASSUME E!Init
  PROVE  EmailInv
<1>1. /\ servers = [i \in E!Id |-> None] /\ templates = [s \in E!Scope |-> None]
      /\ drawn = 0 /\ emailReq = [r \in Req |-> E!Idle] /\ served = 0 /\ errors = 0
      /\ chosen = [s \in E!Scope |-> None] /\ without = {} /\ astray = FALSE
  BY DEF E!Init
<1>2. emailReq \in [Req -> E!Request] /\ \A r \in Req : emailReq[r].pc = "idle"
  <2>. HIDE DEF E!Request, E!Idle
  <2>1. QED
    BY <1>1, EmailIdle
<1>3. MailRows /\ chosen \in [E!Scope -> E!Id \cup {None}]
  <2>. HIDE DEF E!Server, E!Template, E!Id, E!Scope
  <2>1. QED
    BY <1>1 DEF MailRows
<1>4. /\ \A i \in E!Id : servers[i] = None
      /\ \A s \in E!Scope : templates[s] = None /\ chosen[s] = None
  BY <1>1
<1>5. E!TypeOK
  <2>1. drawn \in 0 .. MaxServers /\ served \in 0 .. MaxSmall /\ errors \in 0 .. MaxErrors
    BY <1>1, EmailConstants
  <2>2. without \subseteq Req /\ astray \in BOOLEAN
    BY <1>1
  <2>3. QED
    BY <1>2, <1>3, <1>4, <2>1, <2>2, Zenon DEF E!TypeOK, E!Present
<1>6. MailRequests /\ Excused /\ E!DefaultChosen
  BY <1>2, <1>4 DEF MailRequests, Excused, E!DefaultChosen, E!Reading
<1>7. QED
  BY <1>1, <1>3, <1>5, <1>6, Zenon DEF EmailInv

LEMMA NextEmail ==
  ASSUME EmailInv, E!Next
  PROVE  EmailInv'
<1>1. ASSUME NEW r \in Req, NEW s \in E!Scope, NEW d \in BOOLEAN, NEW a \in BOOLEAN,
             NEW i \in E!Id, E!EmailServerCreate(r, s, d, a) \/ E!EmailServerUpdate(r, i, s, d, a)
      PROVE  EmailInv'
  BY <1>1, ServerBeginsKeep
<1>2. ASSUME NEW r \in Req, NEW d \in BOOLEAN, NEW a \in BOOLEAN, NEW i \in E!Id,
             \/ E!SaveEmailServerConfig(r, d, a) \/ E!CreateEmailServerConfig(r, d, a)
             \/ E!UpdateEmailServerConfigByID(r, i, d, a)
      PROVE  EmailInv'
  <2>1. "app" \in E!Scope
    BY DEF E!Scope
  <2>2. CASE E!EmailServerCreate(r, "app", d, a)
    BY <2>1, <2>2, ServerBeginsKeep
  <2>3. CASE E!UpdateEmailServerConfigByID(r, i, d, a)
    BY <2>3, UpdateByIDKeeps
  <2>4. QED
    BY <1>2, <2>2, <2>3, Zenon DEF E!SaveEmailServerConfig, E!CreateEmailServerConfig
<1>3. ASSUME NEW r \in Req, NEW s \in E!Scope, NEW a \in BOOLEAN,
             NEW link \in E!Id \cup {None},
             \/ E!EmailTemplateCreate(r, s, link, a) \/ E!EmailTemplateUpdate(r, s, link, a)
             \/ E!SaveEmailTemplate(r, s, a) \/ E!ResetTemplateToDefault(r, s)
      PROVE  EmailInv'
  <2>1. ASSUME E!SaveEmailTemplate(r, s, a)
        PROVE  \E l \in E!Id \cup {None} : E!EmailTemplateCreate(r, s, l, a)
    BY <2>1 DEF E!SaveEmailTemplate
  <2>2. QED
    BY <1>3, <2>1, TemplateBeginsKeep, Zenon
<1>4. ASSUME NEW r \in Req,
             \/ E!ClearDefaultFlag(r) \/ E!CreateServerConfig(r) \/ E!UpdateServerConfig(r)
             \/ E!UpsertTemplate(r) \/ E!PutTemplate(r) \/ E!AddTemplate(r)
      PROVE  EmailInv'
  BY <1>4, ClearKeeps, ServerSaveKeeps, TemplateUpsertKeeps, TemplateSaveKeeps
<1>5. ASSUME NEW r \in Req,
             \/ E!SendEmailWithContext(r) \/ E!GetTemplate(r) \/ E!ResolveLinked(r)
             \/ E!GetServerConfig(r) \/ E!GetGlobalServerConfig(r) \/ E!Fail(r)
      PROVE  EmailInv'
  BY <1>5, SendBeginsKeeps, GetTemplateKeeps, LinkedKeeps, GetServerKeeps, GetGlobalKeeps,
    EmailFailKeeps
<1>6. CASE \/ \E i \in E!Id : E!EmailServerDelete(i) \/ E!DeleteEmailServerConfigByID(i)
           \/ E!DeleteServerConfig
  BY <1>6, EmailDeleteKeeps, Zenon DEF E!EmailServerDelete, E!DeleteEmailServerConfigByID,
    E!DeleteServerConfig
<1>7. CASE \E s \in E!Scope : E!EmailTemplateDelete(s) \/ E!DeleteEmailTemplate(s)
  BY <1>7, TemplateDeleteKeeps, Zenon DEF E!DeleteEmailTemplate
<1>8. QED
  BY <1>1, <1>2, <1>3, <1>4, <1>5, <1>6, <1>7, Zenon DEF E!Next

LEMMA StillEmail ==
  ASSUME EmailInv, UNCHANGED <<emailVars, drawn, served, errors>>
  PROVE  EmailInv'
<1>1. UNCHANGED <<servers, templates, emailReq, chosen, without, astray, drawn, served,
                  errors>>
  BY DEF emailVars
<1>0. E!TypeOK /\ MailRows /\ MailRequests /\ Excused /\ E!DefaultChosen
  BY EmailHas
<1>2. MailRequests' /\ E!DefaultChosen' /\ Excused'
  BY <1>0, <1>1, Zenon DEF MailRequests, E!DefaultChosen, Excused, NoActive, E!Active,
    E!InScope, E!Present
<1>3. /\ servers' \in [E!Id -> E!Server \cup {None}] /\ drawn' \in 0 .. MaxServers
      /\ templates' \in [E!Scope -> E!Template \cup {None}]
      /\ emailReq' \in [Req -> E!Request] /\ chosen' \in [E!Scope -> E!Id \cup {None}]
      /\ without' \subseteq Req
  BY <1>0, <1>1, EmailTyped, Zenon DEF MailRows
<1>4. QED
  BY <1>1, <1>2, <1>3, ServersChange

\* A default server stays the default of its scope, and an application's mail leaves by
\* its own servers while it has one, whatever is saved, deleted or sent at the same time
\* (internal/email/service.go:428, internal/email/repository.go:25, 129).
THEOREM ServersAreKept == AllSpec => []ServersKept
<1>. DEFINE Inv == part = "email" => EmailInv
            all == <<part, shared, cleanupVars, emailVars, fleetVars, orderVars, keyVars,
                     appVars, adminVars, importVars, settingVars>>
<1>1. AllInit => Inv
  BY InitEmail DEF AllInit
<1>2. Inv /\ [AllNext]_all => Inv'
  <2>. SUFFICES ASSUME Inv, [AllNext]_all, part' = "email" PROVE EmailInv'
    OBVIOUS
  <2>1. CASE EmailConfig
    BY <2>1, NextEmail DEF EmailConfig
  <2>2. CASE UNCHANGED all
    BY <2>2, StillEmail DEF shared
  <2>3. CASE \/ Fleet \/ WorkOrders \/ ApiKeys \/ Applications \/ Settings
             \/ AdminAccounts \/ UserImport \/ LogCleanup
    BY <2>3 DEF Fleet, WorkOrders, ApiKeys, Applications, Settings, AdminAccounts,
      UserImport, LogCleanup
  <2>4. QED
    BY <2>1, <2>2, <2>3, Zenon DEF AllNext
<1>3. Inv => ServersKept
  <2>1. EmailInv => E!ServersKept
    BY EmailHas DEF E!ServersKept, E!OwnServerFirst
  <2>2. QED
    BY <2>1 DEF ServersKept
<1>4. QED
  BY <1>1, <1>2, <1>3, PTL DEF AllSpec
=============================================================================
