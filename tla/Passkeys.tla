------------------------------ MODULE Passkeys ------------------------------
(***************************************************************************)
(* Passkeys of users and administrators: internal/webauthn and the         *)
(* console's passkey login.                                                *)
(*                                                                         *)
(* Challenges are numbered in the order they are drawn.  What an           *)
(* authenticator answers to one, and what the WebAuthn library accepts, are *)
(* external.  The pending login that a passkey completes as second factor   *)
(* is in SecondFactor.                                                     *)
(***************************************************************************)
EXTENDS Naturals, FiniteSets, Sequences

CONSTANTS
  User,          \* users of the application
  Admin,         \* administrators
  Passkey,       \* credentials, each made by an authenticator once
  MaxChallenges, \* bound: challenges, with their session identifiers, drawn
  Req,           \* slots for requests being served at the same time
  MaxRequests,   \* bound: ceremonies finished
  MaxSigned,     \* bound: assertions an authenticator signs
  MaxChanges,    \* bound: passkeys deleted, users switched on or off
  MaxErrors,     \* bound: statements and commands that fail
  None           \* no owner, passkey or challenge

\* What the code lets the constants be.
PasskeysAssumption ==
  /\ User \cap Admin = {} /\ None \notin User \cup Admin \cup Passkey \cup Nat
  /\ MaxRequests \in Nat /\ MaxSigned \in Nat /\ MaxChanges \in Nat
  /\ MaxErrors \in Nat /\ MaxChallenges \in Nat

VARIABLES
  keys,       \* the rows of webauthn_credentials
  active,     \* users that are active and verified
  regs,       \* webauthn_reg:{owner}: the challenge of a registration
  seconds,    \* webauthn_login:{user}: the challenge of a second factor
  discover,   \* webauthn_login:{session}: whose login it is for
  made,       \* the challenge every passkey was made for (external)
  signed,     \* assertions signed by authenticators (external)
  allowed,    \* the passkeys listed with every challenge drawn so far
  req,        \* the state of every request slot
  served,     \* ceremonies finished so far
  changes,    \* changes made so far
  errors,     \* statements and commands that have failed so far
  used,       \* history: what a challenge has let in or registered
  overlap,    \* history: overlaps the properties make an exception for
  wrong       \* history: passkeys that let in the wrong owner

history == <<used, overlap, wrong>>
external == <<made, signed>>
challenges == <<regs, seconds, discover, allowed>>
Kept == <<served, changes, errors>>
vars == <<keys, active, challenges, external, req, Kept, history>>

Owner == User \cup Admin
Challenge == 1 .. MaxChallenges
Key == [owner : Owner \cup {None}, count : 0 .. MaxSigned]
NoKey == [owner |-> None, count |-> 0]
Assertion == [challenge : Challenge, key : Passkey, count : 1 .. MaxSigned]

Steps == {"idle", "insert", "drop_reg", "reread", "count", "recheck", "drop", "grant"}
Request == [ pc : Steps,
             goal : {"none", "register", "second", "passwordless", "admin"},
             owner : Owner \cup {None}, key : Passkey \cup {None},
             challenge : Challenge \cup {None}, count : 0 .. MaxSigned ]
Idle == [pc |-> "idle", goal |-> "none", owner |-> None, key |-> None,
         challenge |-> None, count |-> 0]

Keys(o) == {k \in Passkey : keys[k].owner = o}

Init ==
  /\ keys = [k \in Passkey |-> NoKey]
  /\ active = User
  /\ regs = [o \in Owner |-> None] /\ seconds = [u \in User |-> None]
  /\ discover = [c \in Challenge |-> "none"]
  /\ allowed = << >>
  /\ made = [k \in Passkey |-> None] /\ signed = {}
  /\ req = [r \in Req |-> Idle]
  /\ served = 0 /\ changes = 0 /\ errors = 0
  /\ used = [c \in Challenge |-> 0] /\ overlap = {} /\ wrong = {}

-----------------------------------------------------------------------------
(* Beginning a ceremony stores its challenge, over an earlier one's         *)

Draw(c, listed) ==
  /\ c = Len(allowed) + 1
  /\ allowed' = Append(allowed, listed)
  /\ UNCHANGED <<keys, active, external, req, Kept, history>>

StartRegistration(o, c) ==
  /\ Draw(c, {})
  /\ regs' = [regs EXCEPT ![o] = c]
  /\ UNCHANGED <<seconds, discover>>

BeginRegistration(u, c) == u \in User /\ StartRegistration(u, c)
BeginAdminRegistration(a, c) == a \in Admin /\ StartRegistration(a, c)

BeginLogin(u, c) ==
  /\ Keys(u) # {} /\ Draw(c, Keys(u))
  /\ seconds' = [seconds EXCEPT ![u] = c]
  /\ UNCHANGED <<regs, discover>>

StartDiscovery(c, whose) ==
  /\ Draw(c, Passkey)
  /\ discover' = [discover EXCEPT ![c] = whose]
  /\ UNCHANGED <<regs, seconds>>

BeginPasswordlessLogin(c) == StartDiscovery(c, "app")
BeginAdminLogin(c) == StartDiscovery(c, "admin")

Expire ==
  /\ \/ \E o \in Owner : regs[o] # None /\ regs' = [regs EXCEPT ![o] = None]
                           /\ UNCHANGED <<seconds, discover>>
     \/ \E u \in User : seconds[u] # None /\ seconds' = [seconds EXCEPT ![u] = None]
                          /\ UNCHANGED <<regs, discover>>
     \/ \E c \in Challenge : discover[c] # "none"
                          /\ discover' = [discover EXCEPT ![c] = "none"]
                          /\ UNCHANGED <<regs, seconds>>
  /\ UNCHANGED <<allowed, keys, active, external, req, Kept, history>>

\* The authenticators: one makes a passkey for a challenge of a registration,
\* one signs a challenge of a login and counts it.
MakePasskey(k, o) ==
  /\ made[k] = None /\ regs[o] # None
  /\ made' = [made EXCEPT ![k] = regs[o]]
  /\ UNCHANGED <<keys, active, challenges, signed, req, Kept, history>>

Sign(k, c) ==
  /\ made[k] # None /\ Cardinality(signed) < MaxSigned
  /\ c \in DOMAIN allowed /\ k \in allowed[c]
  /\ signed' = signed \cup
       {[challenge |-> c, key |-> k,
         count |-> 1 + Cardinality({s \in signed : s.key = k})]}
  /\ UNCHANGED <<keys, active, challenges, made, req, Kept, history>>

-----------------------------------------------------------------------------
(* Finishing one                                                           *)

At(r, step) == req[r].pc = step
Goto(r, step) == req' = [req EXCEPT ![r].pc = step]
Finish(r) == req' = [req EXCEPT ![r] = Idle]

\* Another request finishes a ceremony of the same challenge, or passkey.
Crossed(c, k) ==
  (IF \E s \in Req : req[s].challenge = c THEN {"challenge"} ELSE {}) \cup
  (IF \E s \in Req : req[s].key = k THEN {"key"} ELSE {})

Begin(r, step, goal, o, k, c, count) ==
  /\ At(r, "idle") /\ served < MaxRequests
  /\ served' = served + 1
  /\ req' = [req EXCEPT ![r] = [pc |-> step, goal |-> goal, owner |-> o, key |-> k,
                                challenge |-> c, count |-> count]]
  /\ overlap' = overlap \cup Crossed(c, k)
  /\ UNCHANGED <<keys, active, challenges, external, changes, errors, used, wrong>>

Register(r, o, k) ==
  /\ regs[o] # None /\ made[k] = regs[o]
  /\ Begin(r, "insert", "register", o, k, regs[o], 0)

FinishRegistration(r, u, k) == u \in User /\ Register(r, u, k)
FinishAdminRegistration(r, a, k) == a \in Admin /\ Register(r, a, k)

\* The unique index on the credential identifier can refuse the row.
CreateCredential(r) ==
  LET k == req[r].key IN
  /\ At(r, "insert")
  /\ IF keys[k] # NoKey THEN Finish(r) /\ UNCHANGED <<keys, used>>
     ELSE /\ keys' = [keys EXCEPT ![k].owner = req[r].owner]
          /\ used' = [used EXCEPT ![req[r].challenge] = @ + 1]
          /\ Goto(r, "drop_reg")
  /\ UNCHANGED <<active, challenges, external, Kept, overlap, wrong>>

\* Mutant of DeleteWebAuthnRegistrationChallenge: it is left to expire.
DeleteRegistrationChallengeOmitted(r) ==
  /\ At(r, "drop_reg") /\ Finish(r)
  /\ UNCHANGED <<keys, active, challenges, external, Kept, history>>

DeleteWebAuthnRegistrationChallenge(r) ==
  /\ At(r, "drop_reg")
  /\ regs' = [regs EXCEPT ![req[r].owner] = None]
  /\ Finish(r)
  /\ UNCHANGED <<keys, active, seconds, discover, allowed, external, Kept, history>>

\* Mutant of ValidatedCount: the count of the answer, whatever is stored.
CountAnswered(stored, answered) == answered

\* The library keeps the stored count when the answer's is no greater, and
\* only flags that; the flag is not read.
ValidatedCount(stored, answered) == IF answered <= stored THEN stored ELSE answered

\* The rows of the passkeys and the challenge are read, and the library
\* accepts an answer whose challenge and passkey are among them.
Answer(r, s, o, goal, step) ==
  /\ keys[s.key].owner = o
  /\ Begin(r, step, goal, o, s.key, s.challenge,
           ValidatedCount(keys[s.key].count, s.count))

FinishLogin(r, s) ==
  \E u \in User :
    /\ seconds[u] = s.challenge /\ allowed[s.challenge] \subseteq Keys(u)
    /\ Answer(r, s, u, "second", "count")

FinishPasswordlessLogin(r, s) ==
  \E u \in active :
    discover[s.challenge] = "app" /\ Answer(r, s, u, "passwordless", "reread")

FinishAdminLogin(r, s) ==
  \E a \in Admin :
    discover[s.challenge] = "admin" /\ Answer(r, s, a, "admin", "reread")

GetCredentialByCredentialID(r) ==
  /\ At(r, "reread")
  /\ IF keys[req[r].key].owner = req[r].owner THEN Goto(r, "count") ELSE Finish(r)
  /\ UNCHANGED <<keys, active, challenges, external, Kept, history>>

\* The update may find no row; that and its failure are not seen.
UpdateCredentialSignCount(r) ==
  LET k == req[r].key IN
  /\ At(r, "count")
  /\ keys' = IF keys[k] = NoKey THEN keys
             ELSE [keys EXCEPT ![k].count = req[r].count]
  /\ Goto(r, IF req[r].goal = "passwordless" THEN "recheck" ELSE "drop")
  /\ UNCHANGED <<active, challenges, external, Kept, history>>

\* Mutant of RecheckUser: the user that was read first is not read again.
RecheckOmitted(r) ==
  /\ At(r, "recheck") /\ Goto(r, "drop")
  /\ UNCHANGED <<keys, active, challenges, external, Kept, history>>

RecheckUser(r) ==
  /\ At(r, "recheck")
  /\ IF req[r].owner \in active THEN Goto(r, "drop") ELSE Finish(r)
  /\ UNCHANGED <<keys, active, challenges, external, Kept, history>>

\* DEL of the key, whatever challenge it holds by now.
DeleteWebAuthnLoginChallenge(r) ==
  LET q == req[r] IN
  /\ At(r, "drop")
  /\ IF q.goal = "second"
       THEN seconds' = [seconds EXCEPT ![q.owner] = None] /\ UNCHANGED discover
       ELSE discover' = [discover EXCEPT ![q.challenge] = "none"] /\ UNCHANGED seconds
  /\ Goto(r, "grant")
  /\ UNCHANGED <<keys, active, regs, allowed, external, Kept, history>>

CreateSession(r) ==
  LET q == req[r] IN
  /\ At(r, "grant")
  /\ used' = [used EXCEPT ![q.challenge] = @ + 1]
  /\ wrong' = IF keys[q.key].owner # q.owner
                   \/ (q.goal = "passwordless" /\ q.owner \notin active)
                THEN wrong \cup {q.key} ELSE wrong
  /\ Finish(r)
  /\ UNCHANGED <<keys, active, challenges, external, Kept, overlap>>

-----------------------------------------------------------------------------
(* Meanwhile                                                               *)

Change(tooLate) ==
  /\ changes < MaxChanges
  /\ changes' = changes + 1
  /\ overlap' = IF tooLate THEN overlap \cup {"change"} ELSE overlap
  /\ UNCHANGED <<challenges, external, req, served, errors, used, wrong>>

Delete(k) ==
  /\ Change(\E r \in Req : /\ req[r].key = k
                           /\ req[r].pc \in {"count", "recheck", "drop", "grant"})
  /\ keys' = [keys EXCEPT ![k] = NoKey]
  /\ UNCHANGED active

DeleteCredential(k) == keys[k].owner \in User /\ Delete(k)        \* by the user
PasskeyDelete(k) == keys[k].owner \in User /\ Delete(k)           \* in the console
DeleteAdminCredential(k) == keys[k].owner \in Admin /\ Delete(k)

ToggleUserActive(u) ==
  /\ Change(\E r \in Req : req[r].owner = u /\ req[r].pc \in {"drop", "grant"})
  /\ active' = IF u \in active THEN active \ {u} ELSE active \cup {u}
  /\ UNCHANGED keys

\* A statement or a command fails.  Counting the use and deleting the
\* challenge are best effort; other failures end the request.
AfterFailure(q) == CASE q.pc = "count" /\ q.goal = "passwordless" -> "recheck"
                     [] q.pc = "count" /\ q.goal # "passwordless" -> "drop"
                     [] q.pc = "drop" -> "grant"
                     [] OTHER -> "idle"

Fail(r) ==
  /\ errors < MaxErrors /\ ~At(r, "idle")
  /\ errors' = errors + 1
  /\ IF AfterFailure(req[r]) = "idle" THEN Finish(r) ELSE Goto(r, AfterFailure(req[r]))
  /\ UNCHANGED <<keys, active, challenges, external, served, changes, history>>

Serve(r) ==
  \/ \E u \in User, k \in Passkey : FinishRegistration(r, u, k)
  \/ \E a \in Admin, k \in Passkey : FinishAdminRegistration(r, a, k)
  \/ \E s \in signed : FinishLogin(r, s) \/ FinishPasswordlessLogin(r, s)
                         \/ FinishAdminLogin(r, s)
  \/ CreateCredential(r) \/ DeleteWebAuthnRegistrationChallenge(r)
  \/ GetCredentialByCredentialID(r) \/ UpdateCredentialSignCount(r)
  \/ RecheckUser(r) \/ DeleteWebAuthnLoginChallenge(r) \/ CreateSession(r)
  \/ Fail(r)

Next ==
  \/ \E r \in Req : Serve(r)
  \/ \E c \in Challenge : \/ \E u \in User : BeginRegistration(u, c) \/ BeginLogin(u, c)
                          \/ \E a \in Admin : BeginAdminRegistration(a, c)
                          \/ BeginPasswordlessLogin(c) \/ BeginAdminLogin(c)
  \/ \E k \in Passkey : \/ \E o \in Owner : MakePasskey(k, o)
                        \/ \E c \in Challenge : Sign(k, c)
                        \/ DeleteCredential(k) \/ PasskeyDelete(k)
                        \/ DeleteAdminCredential(k)
  \/ \E u \in User : ToggleUserActive(u)
  \/ Expire

Spec == Init /\ [][Next]_vars

-----------------------------------------------------------------------------
(* Properties                                                              *)

\* Every variable keeps the shape its row, key or request has in the code.
TypeOK ==
  /\ keys \in [Passkey -> Key] /\ active \subseteq User
  /\ regs \in [Owner -> Challenge \cup {None}]
  /\ seconds \in [User -> Challenge \cup {None}]
  /\ discover \in [Challenge -> {"none", "app", "admin"}]
  /\ allowed \in Seq(SUBSET Passkey) /\ Len(allowed) <= MaxChallenges
  /\ made \in [Passkey -> Challenge \cup {None}] /\ signed \subseteq Assertion
  /\ req \in [Req -> Request]
  /\ served \in 0 .. MaxRequests /\ changes \in 0 .. MaxChanges
  /\ errors \in 0 .. MaxErrors
  /\ used \in [Challenge -> 0 .. MaxRequests] /\ wrong \subseteq Passkey

\* service.go:186, 305, 465: a challenge registers or lets in once, unless two
\* requests finished it at the same time or the command that deletes it failed.
ChallengeOnce ==
  \A c \in Challenge : used[c] > 1 => "challenge" \in overlap \/ errors > 0

\* repository.go:69: the stored count of a passkey never goes back, unless two
\* requests that had read it wrote it, which the code does in any order.
CountKept ==
  \A k \in Passkey : keys'[k].owner # None /\ keys'[k].count < keys[k].count
    => "key" \in overlap
\* Every step keeps the counts so (internal/webauthn/repository.go:69).
CountGrows == [][CountKept]_vars

\* service.go:429: a passkey that was deleted lets nobody in, and a passwordless
\* login nobody who is inactive, unless that happened after the last check.
OutKeptOut == wrong # {} => "change" \in overlap

\* A passkey lets in its owner, once for each challenge (service.go:186, 305, 465).
PasskeysOnce == TypeOK /\ ChallengeOnce /\ OutKeptOut
=============================================================================
