------------------------------- MODULE ApiKeys -------------------------------
(***************************************************************************)
(* API keys: the console's handlers and the repository for them, the       *)
(* middleware that admits their requests, and the daily check that warns   *)
(* of their expiry (internal/admin/apikey_notification.go).                *)
(*                                                                         *)
(* Time is counted in half days.  A check runs within one: the clock does  *)
(* not advance while a check is due or running.  A key is drawn once.      *)
(***************************************************************************)
EXTENDS Integers, FiniteSets

CONSTANTS
  Key,           \* API keys
  App,           \* applications
  EarlyDays,     \* 7: the days before the expiry of the first warning
  LastTime,      \* bound: the time at which the clock stops
  MaxCalls,      \* bound: goroutines that note the use of a key
  MaxErrors,     \* bound: statements and mails that fail
  None           \* no key, application or time

\* What the code lets the constants be: with one early day, a check would not read the
\* keys whose last warning is due by the next one.
ApiKeysAssumption ==
  /\ None \notin Key \cup App \cup Int
  /\ EarlyDays \in Nat \ {0, 1} /\ LastTime \in Nat /\ MaxCalls \in Nat /\ MaxErrors \in Nat

VARIABLES
  now,       \* the time
  keys,      \* api_keys
  since,     \* the time the process was started, if it is running
  check,     \* runCheck: what it has read and where it stands
  calls,     \* goroutines that will note the use of a key
  served,    \* requests admitted with a key
  errors,    \* statements and mails that have failed so far
  made,      \* history: when every key was created
  ended,     \* history: keys that were revoked or deleted
  mails,     \* history: warnings mailed
  calm,      \* history: the time since when nothing has failed
  unmarked   \* history: warnings mailed and not marked

history == <<made, ended, mails, calm, unmarked>>
vars == <<now, keys, since, check, calls, served, errors, history>>

Day == 2
Kinds == {"early", "last"}
Mark == [early |-> "mark_early", last |-> "mark_last"]
After == [early |-> "last", last |-> "next"]
Row == [app : App \cup {None}, expires : 0 .. LastTime + 1 \cup {None},
        revoked : BOOLEAN, used : BOOLEAN, notified : SUBSET Kinds]
Check == [pc : {"idle", "due", "next", "early", "last", "mark_early", "mark_last"},
          rows : SUBSET Key, key : Key \cup {None}, read : [Key -> Row \cup {None}]]
NoCheck == [pc |-> "idle", rows |-> {}, key |-> None, read |-> [k \in Key |-> None]]

Init ==
  /\ now = 0 /\ keys = [k \in Key |-> None] /\ since = 0
  /\ check = [NoCheck EXCEPT !.pc = "due"] /\ calls = {} /\ served = 0 /\ errors = 0
  /\ made = [k \in Key |-> None] /\ ended = {}
  /\ mails = [k \in Key |-> [kind \in Kinds |-> 0]] /\ calm = 0 /\ unmarked = {}

Present(k) == keys[k] # None
Expired(k) == keys[k].expires # None /\ keys[k].expires < now

-----------------------------------------------------------------------------
(* The console                                                             *)

\* An application key belongs to an application, an administration key to none.
ApiKeyCreate(k, app, expires) ==
  /\ made[k] = None /\ (expires # None => expires >= now)
  /\ keys' = [keys EXCEPT ![k] = [app |-> app, expires |-> expires, revoked |-> FALSE,
                                  used |-> FALSE, notified |-> {}]]
  /\ made' = [made EXCEPT ![k] = now]
  /\ UNCHANGED <<now, since, check, calls, served, errors, ended, mails, calm, unmarked>>

ApiKeyRevoke(k) ==
  /\ Present(k)
  /\ keys' = [keys EXCEPT ![k].revoked = TRUE] /\ ended' = ended \cup {k}
  /\ UNCHANGED <<now, since, check, calls, served, errors, made, mails, calm, unmarked>>

ApiKeyDelete(k) ==
  /\ Present(k)
  /\ keys' = [keys EXCEPT ![k] = None] /\ ended' = ended \cup {k}
  /\ UNCHANGED <<now, since, check, calls, served, errors, made, mails, calm, unmarked>>

-----------------------------------------------------------------------------
(* Requests with a key                                                     *)

FindActiveKeyByHash(k) == Present(k) /\ ~keys[k].revoked /\ ~Expired(k)

Admit(k) ==
  /\ since # None /\ FindActiveKeyByHash(k) /\ served < MaxCalls
  /\ served' = served + 1 /\ calls' = calls \cup {k}
  /\ UNCHANGED <<now, keys, since, check, errors, history>>

AdminAuthMiddleware(k) == keys[k].app = None /\ Admit(k)

\* The application named in the header, of the key and of the route are one.
AppRouteGuardMiddleware(header, route) == header = route
AppApiKeyMiddleware(k, header, route) ==
  /\ keys[k].app = header /\ AppRouteGuardMiddleware(header, route)
  /\ Admit(k)

\* The goroutine may run long after the key was found.
UpdateApiKeyLastUsed(k) ==
  /\ k \in calls
  /\ calls' = calls \ {k}
  /\ keys' = IF Present(k) THEN [keys EXCEPT ![k].used = TRUE] ELSE keys
  /\ UNCHANGED <<now, since, check, served, errors, history>>

-----------------------------------------------------------------------------
(* The daily check                                                         *)

GetKeysExpiringWithin(days) ==
  {k \in Key : /\ Present(k) /\ ~keys[k].revoked
               /\ keys[k].expires # None /\ keys[k].expires > now
               /\ keys[k].expires <= now + Day * days}

RunCheck ==
  /\ check.pc = "due"
  /\ LET rows == GetKeysExpiringWithin(EarlyDays) IN
       check' = [NoCheck EXCEPT !.pc = "next", !.rows = rows,
                   !.read = [k \in Key |-> IF k \in rows THEN keys[k] ELSE None]]
  /\ UNCHANGED <<now, keys, since, calls, served, errors, history>>

NextKey ==
  /\ check.pc = "next"
  /\ IF check.rows = {} THEN check' = NoCheck
     ELSE \E k \in check.rows :
            check' = [check EXCEPT !.pc = "early", !.key = k, !.rows = @ \ {k}]
  /\ UNCHANGED <<now, keys, since, calls, served, errors, history>>

DaysLeft(row) == (row.expires - now) \div Day

\* Mutant of Soon: the day before the expiry is left out.
SoonTooLate(row) == DaysLeft(row) < 1

Soon(row) == DaysLeft(row) <= 1

Outstanding(kind, row) ==
  /\ kind \notin row.notified
  /\ IF kind = "early" THEN DaysLeft(row) <= EarlyDays ELSE Soon(row)

SendNotification(kind) ==
  /\ check.pc = kind
  /\ IF Outstanding(kind, check.read[check.key])
       THEN /\ mails' = [mails EXCEPT ![check.key][kind] = @ + 1]
            /\ check' = [check EXCEPT !.pc = Mark[kind]]
       ELSE /\ check' = [check EXCEPT !.pc = After[kind]]
            /\ UNCHANGED mails
  /\ UNCHANGED <<now, keys, since, calls, served, errors, made, ended, calm, unmarked>>

\* Mutants of Marked: the row that was read is written back; the other column.
MarkedWholeRow(row, read, kind) == [read EXCEPT !.notified = @ \cup {kind}]
MarkedEarly(row, read, kind) ==
  IF row = None THEN None ELSE [row EXCEPT !.notified = @ \cup {"early"}]

Marked(row, read, kind) ==
  IF row = None THEN None ELSE [row EXCEPT !.notified = @ \cup {kind}]

MarkApiKeyNotified(kind) ==
  /\ check.pc = Mark[kind]
  /\ keys' = [keys EXCEPT ![check.key] = Marked(@, check.read[check.key], kind)]
  /\ check' = [check EXCEPT !.pc = After[kind]]
  /\ UNCHANGED <<now, since, calls, served, errors, history>>

-----------------------------------------------------------------------------
(* Time, failures and restarts                                             *)

Tick ==
  /\ check.pc = "idle" /\ now < LastTime /\ now' = now + 1
  /\ check' = IF since # None /\ (now' - since) % Day = 0
                THEN [NoCheck EXCEPT !.pc = "due"] ELSE NoCheck
  /\ UNCHANGED <<keys, since, calls, served, errors, history>>

\* Warnings that were mailed and have not been marked will be mailed again.
Unmarked ==
  IF \E kind \in Kinds : check.pc = Mark[kind] THEN unmarked \cup {check.key} ELSE unmarked

\* The query, a mail or a mark fails and the check goes on without it.
Fail ==
  /\ check.pc \notin {"idle", "next"} /\ errors < MaxErrors /\ errors' = errors + 1
  /\ check' = IF check.pc = "due" THEN NoCheck
              ELSE [check EXCEPT !.pc = IF @ \in {"early", "mark_early"}
                                          THEN "last" ELSE "next"]
  /\ calm' = now /\ unmarked' = Unmarked
  /\ UNCHANGED <<now, keys, since, calls, served, made, ended, mails>>

Crash ==
  /\ since # None /\ errors < MaxErrors /\ errors' = errors + 1
  /\ since' = None /\ check' = NoCheck /\ calls' = {}
  /\ calm' = now /\ unmarked' = Unmarked
  /\ UNCHANGED <<now, keys, served, made, ended, mails>>

\* The first check is made two minutes after the start.
Start ==
  /\ since = None /\ check.pc = "idle"
  /\ since' = now /\ check' = [NoCheck EXCEPT !.pc = "due"] /\ calm' = now
  /\ UNCHANGED <<now, keys, calls, served, errors, made, ended, mails, unmarked>>

Next ==
  \/ \E k \in Key :
       \/ \E app \in App \cup {None}, e \in 0 .. LastTime + 1 \cup {None} :
            ApiKeyCreate(k, app, e)
       \/ ApiKeyRevoke(k) \/ ApiKeyDelete(k) \/ UpdateApiKeyLastUsed(k)
       \/ Present(k) /\ AdminAuthMiddleware(k)
       \/ \E header, route \in App : Present(k) /\ AppApiKeyMiddleware(k, header, route)
  \/ RunCheck \/ NextKey
  \/ \E kind \in Kinds : SendNotification(kind) \/ MarkApiKeyNotified(kind)
  \/ Tick \/ Fail \/ Crash \/ Start

Spec == Init /\ [][Next]_vars

-----------------------------------------------------------------------------
(* Properties                                                              *)

\* Rows, the check and the clock keep to the values the code gives them.
TypeOK ==
  /\ now \in 0 .. LastTime /\ keys \in [Key -> Row \cup {None}]
  /\ since \in 0 .. LastTime \cup {None} /\ check \in Check /\ calls \subseteq Key
  /\ served \in 0 .. MaxCalls /\ errors \in 0 .. MaxErrors

\* A key that was revoked or deleted is never accepted again, whatever a check or
\* a goroutine that read its row before writes after
\* (internal/admin/repository.go:1101, internal/admin/repository.go:1127).
RevokedForEver == \A k \in ended : Present(k) => keys[k].revoked

Lead == [early |-> Day * EarlyDays, last |-> Day + 1]

\* While nothing fails and the process is not restarted, a key is warned of EarlyDays
\* before it expires, less the day between two checks, and again a day before:
\* the whole days left are counted downwards, so the last warning may be two days
\* early and is never too late (internal/admin/apikey_notification.go:96).
WarnedInTime ==
  \A k \in Key, kind \in Kinds :
    (/\ Present(k) /\ k \notin ended /\ keys[k].expires # None /\ since # None
     /\ made[k] + 1 + Lead[kind] <= keys[k].expires
     /\ calm + 1 + Lead[kind] <= keys[k].expires
     /\ now + Lead[kind] >= keys[k].expires + 2)
      => mails[k][kind] > 0

\* A warning is mailed once, over all the days it is due, unless the mark of a mail
\* that was sent could not be written (internal/admin/apikey_notification.go:104).
WarnedOnce ==
  \A k \in Key, kind \in Kinds : k \notin unmarked => mails[k][kind] <= 1

\* A revoked key stays out, and one that expires is warned of in time and once
\* (internal/admin/repository.go:1127, internal/admin/apikey_notification.go:96, 104).
KeysKept == TypeOK /\ RevokedForEver /\ WarnedInTime /\ WarnedOnce
=============================================================================
