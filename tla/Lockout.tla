------------------------------ MODULE Lockout -------------------------------
(***************************************************************************)
(* Brute-force protection of one account: internal/bruteforce, the login   *)
(* handler that calls it, the counters internal/redis keeps for it and the *)
(* administrator's unlock.                                                 *)
(*                                                                         *)
(* A login is a request slot that issues one Redis command or one SQL      *)
(* statement per step.  The password is compared when the row is read,     *)
(* with a result that is chosen; what a successful login goes on to do     *)
(* (second factor, session) is SecondFactor's and Sessions' matter.        *)
(* Every counter is a Redis key: a number and the time it expires.         *)
(***************************************************************************)
EXTENDS Integers, Sequences, FiniteSets

CONSTANTS
  Req,               \* slots for requests being served at the same time
  LockoutThreshold,  \* failures that lock the account
  CaptchaThreshold,  \* failures that make a CAPTCHA mandatory
  LockoutWindow,     \* TTL of the failure counter
  LockoutDurations,  \* the duration of the lock, by tier
  LockoutTierTTL,    \* TTL of the lockout tier
  DelayStartAfter,   \* delay tier from which a delay is advised
  DelayMaxSeconds,   \* the largest delay
  DelayTierTTL,      \* TTL of the delay tiers
  IntBits,           \* bits of an int without its sign (63)
  MaxDelayTier,      \* bound: delay tier of the client's address
  MaxNow,            \* bound: the clock
  MaxRequests,       \* bound: requests served
  MaxErrors          \* bound: commands and statements that fail

\* What the code lets the constants be.  A threshold below 1, which an administrator
\* may set, locks or asks for a CAPTCHA as a threshold of 1 does, if not sooner; an
\* empty list of durations is ignored (bruteforce/service.go:74).
LockoutAssumption ==
  /\ IsFiniteSet(Req)
  /\ LockoutThreshold \in Nat \ {0} /\ CaptchaThreshold \in Nat \ {0}
  /\ LockoutDurations \in Seq(Nat) /\ LockoutDurations # <<>>
  /\ LockoutWindow \in Nat \ {0} /\ LockoutTierTTL \in Nat \ {0}
  /\ DelayTierTTL \in Nat \ {0}
  /\ MaxNow \in Nat /\ MaxRequests \in Nat /\ MaxErrors \in Nat

VARIABLES
  now,      \* the clock
  lock,     \* lock_expires_at of the row, Unlocked when locked_at is NULL
  counter,  \* the keys failed_login, lockout_tier and delay_tier
  req,      \* the state of every request slot
  served,   \* requests begun so far
  errors,   \* commands and statements that have failed so far
  guesses,  \* history: wrong passwords since the failures were last forgotten
  blind,    \* history: those compared without a CAPTCHA
  strikes,  \* history: times of the failures counted since they were forgotten
  unearned, \* history: a lock was set that its failures do not account for
  overlap   \* history: two requests were served at the same time

history == <<guesses, blind, strikes, unearned, overlap>>
vars == <<now, lock, counter, req, served, errors, history>>

Unlocked == -1
Never == MaxNow + LockoutTierTTL + LockoutWindow + DelayTierTTL
Counters == {"failures", "tier", "delay_email", "delay_ip"}
Gone == [n |-> 0, exp |-> Never]

Steps == {"idle", "read", "clear", "count", "tier", "lock", "forget",
          "delay_email", "delay_ip", "reset_failures", "reset_email", "reset_ip",
          "unlock_again", "unlock_tier", "unlock_failures", "unlock_delay"}

Request == [pc : Steps, captcha : BOOLEAN, right : BOOLEAN, duration : Nat]
Idle == [pc |-> "idle", captcha |-> FALSE, right |-> FALSE, duration |-> 0]

Init ==
  /\ now = 0 /\ lock = Unlocked
  /\ counter = [c \in Counters |-> Gone]
  /\ req = [r \in Req |-> Idle]
  /\ served = 0 /\ errors = 0 /\ guesses = 0 /\ blind = 0
  /\ strikes = <<>> /\ unearned = FALSE /\ overlap = FALSE

-----------------------------------------------------------------------------
(* Requests and counters. *)

Begin(r, step, captcha) ==
  /\ req[r].pc = "idle" /\ served < MaxRequests
  /\ served' = served + 1
  /\ req' = [req EXCEPT ![r] = [Idle EXCEPT !.pc = step, !.captcha = captcha]]
  /\ overlap' = (overlap \/ \E q \in Req : req[q].pc # "idle")

At(r, step) == req[r].pc = step
Goto(r, step) ==
  req' = [req EXCEPT ![r] = IF step = "idle" THEN Idle ELSE [@ EXCEPT !.pc = step]]

\* The statement or command of this step fails; the caller goes on at step.
Fail(r, step) ==
  /\ errors < MaxErrors /\ errors' = errors + 1
  /\ Goto(r, step)
  /\ UNCHANGED <<now, lock, counter, served, history>>

Live(c) == counter[c].n > 0
Value(c) == counter[c].n
Ticking(c) == Live(c) /\ counter[c].exp # Never

\* INCR leaves the TTL of a live key alone; a key it creates has none.
\* Mutant: INCR and EXPIRE on every call, so that the window slides.
IncrSliding(c, ttl, sliding, lost) ==
  /\ errors' = errors + (IF lost THEN 1 ELSE 0) /\ errors' <= MaxErrors
  /\ counter' = [counter EXCEPT ![c] = [n |-> Value(c) + 1,
       exp |-> IF ~ lost THEN now + ttl ELSE IF Live(c) THEN @.exp ELSE Never]]

\* Another mutant: EXPIRE on the second call only.
IncrLateTTL(c, ttl, sliding, lost) ==
  /\ errors' = errors + (IF lost THEN 1 ELSE 0) /\ errors' <= MaxErrors
  /\ counter' = [counter EXCEPT ![c] = [n |-> Value(c) + 1,
       exp |-> IF ~ lost /\ Live(c) THEN now + ttl ELSE Never]]

\* INCR, then EXPIRE when the key is new or its TTL slides.  The result of
\* EXPIRE is ignored: it is lost when it fails or the process stops before it.
Incr(c, ttl, sliding, lost) ==
  /\ errors' = errors + (IF lost THEN 1 ELSE 0) /\ errors' <= MaxErrors
  /\ counter' = [counter EXCEPT ![c] = [n |-> Value(c) + 1,
       exp |-> IF ~ lost /\ (sliding \/ ~ Live(c)) THEN now + ttl
               ELSE IF Live(c) THEN @.exp ELSE Never]]
Del(c) == counter' = [counter EXCEPT ![c] = Gone]

\* The failures are forgotten, those of requests about to be counted excepted.
Uncounted == {r \in Req : At(r, "count") \/ (At(r, "clear") /\ ~ req[r].right)}
Forgotten ==
  /\ guesses' = Cardinality(Uncounted)
  /\ blind' = Cardinality({r \in Uncounted : ~ req[r].captcha})

-----------------------------------------------------------------------------
(* The login handler: the CAPTCHA gate, then LoginUser. *)

\* Mutant of CaptchaRequired: off by one.
CaptchaLate == Value("failures") > CaptchaThreshold

CaptchaRequired == Value("failures") >= CaptchaThreshold

\* A Redis error opens the gate; a request the gate rejects changes nothing.
Login(r, captcha, reachable) ==
  /\ ~ CaptchaRequired \/ captcha \/ ~ reachable
  /\ errors' = errors + (IF reachable THEN 0 ELSE 1) /\ errors' <= MaxErrors
  /\ Begin(r, "read", captcha)
  /\ UNCHANGED <<now, lock, counter, guesses, blind, strikes, unearned>>

\* Mutants of LockExpired: compared the wrong way round.
LockExpiredReversed == lock # Unlocked /\ now < lock

LockExpired == lock # Unlocked /\ now > lock

\* A locked account is answered with 403, which is not counted as a failure.
LoginUserReadRow(r, right) ==
  /\ At(r, "read")
  /\ IF lock # Unlocked /\ ~ LockExpired
       THEN /\ Goto(r, "idle")
            /\ UNCHANGED <<guesses, blind>>
       ELSE /\ req' = [req EXCEPT ![r].right = right, ![r].pc =
                 IF LockExpired THEN "clear"
                 ELSE IF right THEN "reset_failures" ELSE "count"]
            /\ guesses' = guesses + (IF right THEN 0 ELSE 1)
            /\ blind' = blind + (IF right \/ req[r].captcha THEN 0 ELSE 1)
  /\ UNCHANGED <<now, lock, counter, served, errors, strikes, unearned, overlap>>

\* The UPDATE names the user only: it clears whatever lock it finds.
ClearLockout(r) ==
  LET next == IF req[r].right THEN "reset_failures" ELSE "count" IN
  /\ At(r, "clear")
  /\ \/ /\ lock' = Unlocked
        /\ Goto(r, next)
        /\ UNCHANGED <<now, counter, served, errors, history>>
     \/ Fail(r, next)

-----------------------------------------------------------------------------
(* handleFailedLogin: HandleFailedLogin, then IncrementDelayTier. *)

ReachedThreshold(n) == n >= LockoutThreshold

Recent == {i \in DOMAIN strikes : strikes[i] + LockoutWindow > now}

IncrFailedLogin(r) ==
  LET locks == ReachedThreshold(Value("failures") + 1) IN
  /\ At(r, "count")
  /\ \/ /\ \E lost \in BOOLEAN : Incr("failures", LockoutWindow, FALSE, lost)
        /\ strikes' = Append(strikes, now)
        /\ unearned' = (unearned
             \/ (locks /\ Cardinality(Recent) + 1 < LockoutThreshold))
        /\ Goto(r, IF locks THEN "tier" ELSE "delay_email")
        /\ UNCHANGED <<now, lock, served, guesses, blind, overlap>>
     \/ Fail(r, "delay_email")

\* The tiers beyond the configured ones last as long as the last one.
LockDuration(tier) ==
  LockoutDurations[IF tier > Len(LockoutDurations) THEN Len(LockoutDurations)
                   ELSE tier]

IncrLockoutTier(r) ==
  /\ At(r, "tier")
  /\ \/ /\ \E lost \in BOOLEAN : Incr("tier", LockoutTierTTL, TRUE, lost)
        /\ req' = [req EXCEPT ![r].pc = "lock",
                              ![r].duration = LockDuration(Value("tier") + 1)]
        /\ UNCHANGED <<now, lock, served, history>>
     \/ Fail(r, "delay_email")

LockAccount(r) ==
  /\ At(r, "lock")
  /\ \/ /\ lock' = now + req[r].duration
        /\ Goto(r, "forget")
        /\ Forgotten /\ strikes' = <<>>
        /\ UNCHANGED <<now, counter, served, errors, unearned, overlap>>
     \/ Fail(r, "delay_email")

\* A DEL and the step that follows it.
DelThen(r, step, c, next) ==
  /\ At(r, step)
  /\ \/ /\ Del(c)
        /\ Goto(r, next)
        /\ IF c = "failures" THEN Forgotten /\ strikes' = <<>>
           ELSE UNCHANGED <<guesses, blind, strikes>>
        /\ UNCHANGED <<now, lock, served, errors, unearned, overlap>>
     \/ Fail(r, next)

ForgetFailures(r) == DelThen(r, "forget", "failures", "delay_email")

\* IncrementDelayTier raises the tier of the address and of the client's IP;
\* both results are ignored.
DelayThen(r, step, next) ==
  /\ At(r, step)
  /\ \/ /\ \E lost \in BOOLEAN : Incr(step, DelayTierTTL, FALSE, lost)
        /\ Goto(r, next)
        /\ UNCHANGED <<now, lock, served, history>>
     \/ Fail(r, next)
IncrementDelayTier(r) ==
  \/ DelayThen(r, "delay_email", "delay_ip")
  \/ DelayThen(r, "delay_ip", "idle")

\* A failed login of another account from the same client.
OtherFailure ==
  /\ counter["delay_ip"].n < MaxDelayTier
  /\ Incr("delay_ip", DelayTierTTL, FALSE, FALSE)
  /\ UNCHANGED <<now, lock, req, served, history>>

-----------------------------------------------------------------------------
(* GetDelay, which the handler answers with and never waits for. *)

DelayTier == IF Value("delay_email") > Value("delay_ip")
             THEN Value("delay_email") ELSE Value("delay_ip")

\* int(math.Pow(2, e)): out of range, the result of the conversion is the
\* processor's, the least integer (here -1) or the largest (here the cap).
IntOfPower(e) == IF e < IntBits THEN {2 ^ e} ELSE {-1, DelayMaxSeconds}
GetDelay ==
  IF DelayTier < DelayStartAfter THEN {0}
  ELSE {IF d > DelayMaxSeconds THEN DelayMaxSeconds ELSE d :
          d \in IntOfPower(DelayTier - DelayStartAfter)}

-----------------------------------------------------------------------------
(* A successful login resets counters, not the tier; so does the unlock. *)

ResetBruteForceCounter(r) == DelThen(r, "reset_failures", "failures", "reset_email")
ResetOnSuccess(r) ==
  \/ DelThen(r, "reset_email", "delay_email", "reset_ip")
  \/ DelThen(r, "reset_ip", "delay_ip", "idle")

\* UserUnlock: Repo.UnlockUser, then UnlockAccount, which clears the row again.
UserUnlock(r) ==
  /\ lock # Unlocked
  /\ Begin(r, "unlock_again", FALSE)
  /\ lock' = Unlocked
  /\ UNCHANGED <<now, counter, errors, guesses, blind, strikes, unearned>>

UnlockAccount(r) ==
  \/ /\ At(r, "unlock_again")
     /\ \/ /\ lock' = Unlocked
           /\ Goto(r, "unlock_tier")
           /\ UNCHANGED <<now, counter, served, errors, history>>
        \/ Fail(r, "idle")
  \/ DelThen(r, "unlock_tier", "tier", "unlock_failures")
  \/ DelThen(r, "unlock_failures", "failures", "unlock_delay")
  \/ DelThen(r, "unlock_delay", "delay_email", "idle")

\* Redis drops the keys whose time has come.
Tick ==
  LET Lapsed(c) == Live(c) /\ counter[c].exp = now + 1 IN
  /\ now < MaxNow /\ now' = now + 1
  /\ counter' = [c \in Counters |-> IF Lapsed(c) THEN Gone ELSE counter[c]]
  /\ IF Lapsed("failures") THEN Forgotten ELSE UNCHANGED <<guesses, blind>>
  /\ UNCHANGED <<lock, req, served, errors, strikes, unearned, overlap>>

Next ==
  \/ Tick
  \/ OtherFailure
  \/ \E r \in Req :
       \/ \E captcha, reachable \in BOOLEAN : Login(r, captcha, reachable)
       \/ \E right \in BOOLEAN : LoginUserReadRow(r, right)
       \/ ClearLockout(r) \/ IncrFailedLogin(r) \/ IncrLockoutTier(r)
       \/ LockAccount(r) \/ ForgetFailures(r) \/ IncrementDelayTier(r)
       \/ ResetBruteForceCounter(r) \/ ResetOnSuccess(r)
       \/ UserUnlock(r) \/ UnlockAccount(r)

Spec == Init /\ [][Next]_vars

-----------------------------------------------------------------------------
(* Properties. *)

\* The variables have their types.
TypeOK ==
  /\ now \in 0..MaxNow /\ lock \in Nat \cup {Unlocked}
  /\ counter \in [Counters -> [n : Nat, exp : Nat]]
  /\ req \in [Req -> Request]
  /\ served \in 0..MaxRequests /\ errors \in 0..MaxErrors
  /\ guesses \in Nat /\ blind \in Nat /\ strikes \in Seq(Nat)
  /\ unearned \in BOOLEAN /\ overlap \in BOOLEAN

\* The counter is read before the password is compared and raised after it, so
\* logins served at the same time share one reading (user/handler.go:266, 314):
\* however they interleave, the account is locked, or its failures forgotten,
\* after at most LockoutThreshold - 1 wrong passwords and one for each request
\* being served; and as many without a CAPTCHA.  A command that fails lets one
\* more through.
Slack == Cardinality(Req) + errors
BoundedGuesses ==
  /\ guesses < LockoutThreshold + Slack
  /\ blind < CaptchaThreshold + Slack

\* An account is locked for LockoutThreshold failures within LockoutWindow, none
\* of them forgiven by a success, an unlock or an earlier lock, unless requests
\* overlapped or a command failed (bruteforce/service.go:180-237).
LockEarned == unearned => overlap \/ errors > 0

\* A lock ends when it expires or when an administrator ends it; only a login
\* that overlapped another can lift or shorten one that was set since it read
\* the row (user/service.go:184, bruteforce/service.go:221).
LockKept ==
  lock # Unlocked /\ now <= lock /\ lock' < lock
    => overlap' \/ \E r \in Req : req'[r].pc \in {"unlock_again", "unlock_tier"}
\* Every step keeps the lock so (user/service.go:184).
LockHolds == [][LockKept]_vars

\* A counter is set to expire unless an EXPIRE was lost (redis.go:742, 831).
CountersExpire == \A c \in Counters : Live(c) /\ ~ Ticking(c) => errors > 0

\* "exponential delay: 2^(tier - startAfter) seconds, capped at max"
\* (bruteforce/service.go:305): the cap of the delay is what it tends to.
DelayCapped ==
  \A d \in GetDelay :
    IF DelayTier < DelayStartAfter THEN d = 0 ELSE d \in 1..DelayMaxSeconds

\* Guessing is limited: by the lockout and the CAPTCHA gate, by locks that stand for
\* recent failures, and by counters that expire (bruteforce/service.go:131, 204,
\* redis.go:742).
GuessesLimited == TypeOK /\ BoundedGuesses /\ LockEarned /\ CountersExpire
=============================================================================
