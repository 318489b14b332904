------------------------------- MODULE Anomaly -------------------------------
(***************************************************************************)
(* Anomaly detection: internal/log/anomaly.go, the entries it reads and    *)
(* produces (internal/log/service.go), its callers in                      *)
(* internal/user/handler.go and the notices mailed by cmd/api/main.go.     *)
(*                                                                         *)
(* Detection compares a request with the rows of the activity log, and its *)
(* own entry is a row only after it went through the channel and the       *)
(* worker: another request may be compared before.  Time is counted in     *)
(* steps of HoursPerTick, and no request lasts longer than one.  The       *)
(* channel never fills here (module ActivityLog).                          *)
(***************************************************************************)
EXTENDS Integers, Sequences, FiniteSets

CONSTANTS
  User, Address, Agent,  \* users, IP addresses and user agents
  CountryOf,             \* LookupCountry, a function of the address
  Checks,                \* the LogOn... settings that are on
  Notify,                \* the NotifyOn... settings that are on
  SessionWindow,         \* how long a row is remembered
  Limit,                 \* 100: rows that are read for addresses and agents
  BruteForceThreshold,   \* failures from which on an attack is reported
  HoursPerTick,          \* hours in a step of time
  Req,                   \* requests that may be in progress at a time
  MaxRequests,           \* bound: requests that are served
  MaxTime,               \* bound: the time at which the clock stops
  MaxErrors,             \* bound: statements and mails that fail
  None                   \* no user, address or notice

\* What the code lets the constants be.
AnomalyAssumption ==
  /\ Checks \subseteq {"address", "agent", "country", "hour"}
  /\ Notify \subseteq {"brute_force", "new_device", "geo_change"}
  /\ {SessionWindow, MaxRequests, MaxTime, MaxErrors} \subseteq Nat
  /\ {Limit, BruteForceThreshold, HoursPerTick} \subseteq Nat \ {0}
  /\ DOMAIN CountryOf = Address /\ None \notin User \cup {"new_device_login"}

VARIABLES
  now,       \* the time
  rows,      \* activity_logs, in the order the worker stores them
  channel,   \* logChannel
  failures,  \* failed logins the counter holds, per user
  req,       \* requests in progress
  mailing,   \* goroutines of the anomaly callback
  served,    \* requests begun so far
  errors,    \* statements and mails that have failed so far
  emitted,   \* history: entries in the order they were put into the channel
  mails      \* notices mailed

vars == <<now, rows, channel, failures, req, mailing, served, errors, emitted, mails>>

Detected == {"login", "informational"}  \* entries that are compared with the log
Kinds == Detected \cup {"important", "failed", "brute_force"}
Reasons == {"first_access", "address", "agent", "country", "hour", "brute_force"}
Notices == {"new_device_login", "suspicious_activity", None}
Entry == [kind : Kinds, user : User \cup {None}, address : Address, agent : Agent,
          at : 0 .. MaxTime, reasons : SUBSET Reasons, notice : Notices,
          failed : SUBSET {"patterns", "countries"}, read : 0 .. 3 * MaxRequests]
Mail == [user : User, notice : Notices \ {None}, at : 0 .. MaxTime]
Patterns == [addresses : SUBSET Address, agents : SUBSET Agent, hours : SUBSET (0 .. 23)]
NoPatterns == [addresses |-> {}, agents |-> {}, hours |-> {}]

\* What is read, and which reads failed, are kept for the properties.
NewEntry(kind, u, a, g) ==
  [kind |-> kind, user |-> u, address |-> a, agent |-> g, at |-> now, reasons |-> {},
   notice |-> None, failed |-> {}, read |-> 0]
NoReq == [pc |-> "idle", entry |-> None, patterns |-> NoPatterns]
Request == [pc : {"idle", "patterns", "countries", "emit"},
            entry : Entry \cup {None}, patterns : Patterns]

Init ==
  /\ now = 0 /\ rows = <<>> /\ channel = <<>> /\ failures = [u \in User |-> 0]
  /\ req = [r \in Req |-> NoReq] /\ mailing = {} /\ served = 0 /\ errors = 0
  /\ emitted = <<>> /\ mails = <<>>

At(r, pc) == req[r].pc = pc

-----------------------------------------------------------------------------
(* What is known of a user                                                 *)

\* Mutant of Logged: the log of every user is searched.
LoggedAny(u) == {i \in DOMAIN rows : rows[i].user # None /\ rows[i].at >= now - SessionWindow}

Logged(u) == {i \in DOMAIN rows : rows[i].user = u /\ rows[i].at >= now - SessionWindow}

\* Mutant of Recent: ascending where descending is meant.
RecentFromOldest(u) == {i \in Logged(u) : Cardinality({j \in Logged(u) : j < i}) < Limit}

Recent(u) == {i \in Logged(u) : Cardinality({j \in Logged(u) : j > i}) < Limit}

HourOf(t) == (HoursPerTick * t) % 24

GetUserPatterns(u) ==
  [addresses |-> {rows[i].address : i \in Recent(u)},
   agents |-> {rows[i].agent : i \in Recent(u)},
   hours |-> {HourOf(rows[i].at) : i \in Recent(u)}]

\* Mutant of KnownCountries: rows exactly as old as the window are left out.
KnownCountriesLater(u) ==
  {CountryOf[rows[i].address] : i \in {j \in Logged(u) : rows[j].at > now - SessionWindow}}

\* The second query is not limited.
KnownCountries(u) == {CountryOf[rows[i].address] : i \in Logged(u)}

Distance(a, b) == IF a > b THEN a - b ELSE b - a

IsUnusualTime(hour, hours) ==
  /\ hours # {} /\ Cardinality(hours) < 6
  /\ \A h \in hours : Distance(hour, h) > 2 /\ Distance(hour, h) < 22

-----------------------------------------------------------------------------
(* Detection                                                               *)

Begin(r, kind, u, a, g) ==
  /\ At(r, "idle") /\ served < MaxRequests /\ served' = served + 1
  /\ req' = [req EXCEPT ![r] = [NoReq EXCEPT !.pc = "patterns",
                                  !.entry = NewEntry(kind, u, a, g)]]
  /\ UNCHANGED <<now, rows, channel, mailing, errors, emitted, mails>>

\* Only the right password forgets the failures; the second factor, the passkey,
\* the provider's and the mailed link's login leave them alone.
Login(r, u, a, g) == Begin(r, "login", u, a, g) /\ failures' = [failures EXCEPT ![u] = 0]
RunLoginAnomalyDetection(r, u, a, g) == Begin(r, "login", u, a, g) /\ UNCHANGED failures
RunTwoFALoginAnomalyDetection(r, u, a, g) == RunLoginAnomalyDetection(r, u, a, g)
RunPasskeyLoginAnomalyDetection(r, u, a, g) == RunLoginAnomalyDetection(r, u, a, g)
RunSocialLoginAnomalyDetection(r, u, a, g) == RunLoginAnomalyDetection(r, u, a, g)

\* An informational event that is enabled and sampled.
Compare(r, u, a, g) == Begin(r, "informational", u, a, g) /\ UNCHANGED failures

\* The first access of a user is logged and never notified.
ReadPatterns(r) ==
  /\ At(r, "patterns")
  /\ LET e == req[r].entry
         first == Logged(e.user) = {}
     IN req' = [req EXCEPT ![r] =
          [pc |-> IF first THEN "emit" ELSE "countries", patterns |-> GetUserPatterns(e.user),
           entry |-> [e EXCEPT !.read = Len(rows),
                        !.reasons = IF first THEN {"first_access"} ELSE {}]]]
  /\ UNCHANGED <<now, rows, channel, failures, mailing, served, errors, emitted, mails>>

NewReasons(e, known, countries) ==
  (IF e.address \in known.addresses THEN {} ELSE {"address"} \cap Checks)
  \cup (IF e.agent \in known.agents THEN {} ELSE {"agent"} \cap Checks)
  \cup (IF CountryOf[e.address] \in countries THEN {} ELSE {"country"} \cap Checks)
  \cup (IF IsUnusualTime(HourOf(e.at), known.hours) THEN {"hour"} \cap Checks ELSE {})

PopulateNotification(reasons) ==
  IF "geo_change" \in Notify /\ "country" \in reasons THEN "suspicious_activity"
  ELSE IF "new_device" \in Notify /\ {"address", "agent"} \cap reasons # {}
         THEN "new_device_login" ELSE None

\* Only a login passes the notice on.
Compared(r, countries, failed) ==
  LET e == req[r].entry
      reasons == NewReasons(e, req[r].patterns, countries)
  IN req' = [req EXCEPT ![r] =
       [pc |-> "emit", patterns |-> NoPatterns,
        entry |-> [e EXCEPT !.reasons = reasons, !.failed = failed,
                     !.notice = IF e.kind = "login" THEN PopulateNotification(reasons)
                                ELSE None]]]

ReadCountries(r) ==
  /\ At(r, "countries") /\ Compared(r, KnownCountries(req[r].entry.user), {})
  /\ UNCHANGED <<now, rows, channel, failures, mailing, served, errors, emitted, mails>>

\* Without patterns the event is logged and nothing is compared; without the
\* countries every country is new.
ReadFails(r) ==
  /\ errors < MaxErrors /\ errors' = errors + 1
  /\ \/ /\ At(r, "patterns")
        /\ req' = [req EXCEPT ![r] =
             [pc |-> "emit", patterns |-> NoPatterns,
              entry |-> [req[r].entry EXCEPT !.failed = {"patterns"}]]]
     \/ At(r, "countries") /\ Compared(r, {}, {"countries"})
  /\ UNCHANGED <<now, rows, channel, failures, mailing, served, emitted, mails>>

Emit(entries, u) ==
  /\ channel' = channel \o entries /\ emitted' = emitted \o entries
  /\ mailing' = mailing \cup
       {[user |-> u, notice |-> entries[i].notice, entry |-> i + Len(emitted)] :
          i \in {j \in DOMAIN entries : entries[j].notice # None}}

\* An informational event that is no anomaly is not logged.
LogActivity(r) ==
  /\ At(r, "emit") /\ req' = [req EXCEPT ![r] = NoReq]
  /\ LET e == req[r].entry IN
       IF e.kind = "informational" /\ e.reasons = {} /\ e.failed = {}
         THEN UNCHANGED <<channel, emitted, mailing>> ELSE Emit(<<e>>, e.user)
  /\ UNCHANGED <<now, rows, failures, served, errors, mails>>

\* The other events of a user are logged without a comparison.
LogImportant(u, a, g) ==
  /\ served < MaxRequests /\ served' = served + 1
  /\ Emit(<<NewEntry("important", u, a, g)>>, u)
  /\ UNCHANGED <<now, rows, failures, req, errors, mails>>

-----------------------------------------------------------------------------
(* Failed logins                                                           *)

\* No entry of a failed login names the user.
DetectBruteForce(a, g) ==
  LET alert == [NewEntry("brute_force", None, a, g) EXCEPT !.reasons = {"brute_force"},
                  !.notice = "suspicious_activity"]
  IN <<NewEntry("brute_force", None, a, g)>>
       \o IF "brute_force" \in Notify THEN <<alert>> ELSE <<>>

HandleFailedLogin(u, a, g) ==
  /\ served < MaxRequests /\ served' = served + 1
  /\ failures' = [failures EXCEPT ![u] = @ + 1]
  /\ Emit(<<NewEntry("failed", None, a, g)>>
            \o IF failures'[u] >= BruteForceThreshold THEN DetectBruteForce(a, g) ELSE <<>>,
          u)
  /\ UNCHANGED <<now, rows, req, errors, mails>>

\* The counter expires.
ForgetFailures(u) ==
  /\ failures[u] > 0 /\ failures' = [failures EXCEPT ![u] = 0]
  /\ UNCHANGED <<now, rows, channel, req, mailing, served, errors, emitted, mails>>

-----------------------------------------------------------------------------
(* The worker, the callback and time                                       *)

ProcessLogEntry ==
  /\ channel # <<>> /\ channel' = Tail(channel) /\ rows' = Append(rows, Head(channel))
  /\ UNCHANGED <<now, failures, req, mailing, served, errors, emitted, mails>>

AnomalyCallback(m) ==
  /\ mailing' = mailing \ {m}
  /\ mails' = Append(mails, [user |-> m.user, notice |-> m.notice, at |-> now])
  /\ UNCHANGED <<now, rows, channel, failures, req, served, errors, emitted>>

\* A notice that is not sent is forgotten.
CallbackFails(m) ==
  /\ errors < MaxErrors /\ errors' = errors + 1 /\ mailing' = mailing \ {m}
  /\ UNCHANGED <<now, rows, channel, failures, req, served, emitted, mails>>

Tick ==
  /\ now < MaxTime /\ now' = now + 1
  /\ \A r \in Req : At(r, "idle")
  /\ UNCHANGED <<rows, channel, failures, req, mailing, served, errors, emitted, mails>>

Next ==
  \/ \E r \in Req :
       \/ \E u \in User, a \in Address, g \in Agent :
            \/ Login(r, u, a, g) \/ Compare(r, u, a, g)
            \/ RunLoginAnomalyDetection(r, u, a, g)
            \/ RunTwoFALoginAnomalyDetection(r, u, a, g)
            \/ RunPasskeyLoginAnomalyDetection(r, u, a, g)
            \/ RunSocialLoginAnomalyDetection(r, u, a, g)
       \/ ReadPatterns(r) \/ ReadCountries(r) \/ ReadFails(r) \/ LogActivity(r)
  \/ \E u \in User :
       \/ \E a \in Address, g \in Agent : LogImportant(u, a, g) \/ HandleFailedLogin(u, a, g)
       \/ ForgetFailures(u)
  \/ \E m \in mailing : AnomalyCallback(m) \/ CallbackFails(m)
  \/ ProcessLogEntry \/ Tick

Spec == Init /\ [][Next]_vars

-----------------------------------------------------------------------------
(* Properties                                                              *)

\* Rows, entries and requests keep to the values the code gives them.
TypeOK ==
  /\ now \in 0 .. MaxTime /\ failures \in [User -> 0 .. MaxRequests]
  /\ \A i \in DOMAIN rows : rows[i] \in Entry
  /\ \A i \in DOMAIN channel : channel[i] \in Entry
  /\ req \in [Req -> Request] /\ served \in 0 .. MaxRequests /\ errors \in 0 .. MaxErrors
  /\ \A i \in DOMAIN mails : mails[i] \in Mail

\* The first entry of a user to name an address, among those that are compared, is
\* marked an anomaly, however requests overlap and however far behind the worker is:
\* what is not yet stored is not taken for known, and another user's log never is
\* (internal/log/anomaly.go:307).
NewAddressMarked ==
  \A i \in DOMAIN emitted :
    (/\ emitted[i].kind \in Detected /\ emitted[i].failed = {} /\ "address" \in Checks
     /\ \A j \in 1 .. i - 1 : emitted[j].user = emitted[i].user
                                => emitted[j].address # emitted[i].address)
      => emitted[i].reasons # {}

\* A user who logs in from where an earlier login came from is not sent a notice of a
\* new device, once the earlier entry was stored, while it is within the window and
\* fewer than Limit entries have followed it (internal/log/anomaly.go:308).
KnownPlaceQuiet ==
  \A j \in DOMAIN emitted : \A i \in 1 .. emitted[j].read :
    (/\ emitted[i].user = emitted[j].user /\ emitted[i].address = emitted[j].address
     /\ emitted[i].agent = emitted[j].agent /\ emitted[j].user # None
     /\ emitted[j].at - emitted[i].at <= SessionWindow /\ j - i <= Limit)
      => emitted[j].notice # "new_device_login"

\* A new country is only reported of a new address: the two queries that tell them are
\* made one after the other, and the second covers at least the rows of the first,
\* unless it fails (internal/log/anomaly.go:352).
CountryNeedsAddress ==
  \A i \in DOMAIN emitted :
    ("country" \in emitted[i].reasons /\ "address" \in Checks /\ emitted[i].failed = {})
      => "address" \in emitted[i].reasons

\* What is new to a user is reported and what is known is not
\* (internal/log/anomaly.go:307, 352).
NoveltyReported == TypeOK /\ NewAddressMarked /\ KnownPlaceQuiet /\ CountryNeedsAddress
=============================================================================
