----------------------------- MODULE RateLimit ------------------------------
(***************************************************************************)
(* RateLimitMiddleware (internal/middleware/rate_limit.go) in one process, *)
(* for one client address: the counters in Redis, the entries of the       *)
(* in-memory fallback, its cleanup goroutine, and the handlers that clear  *)
(* both after a successful sign-in.                                        *)
(*                                                                         *)
(* A request issues one Redis command, or one call under the entry's mutex, *)
(* per step.  Keys and entries hold the time they have left or their age,  *)
(* so time passes without a bound.                                         *)
(***************************************************************************)
EXTENDS Integers, FiniteSets

CONSTANTS
  Req,               \* slots for requests being served at the same time
  Entry,             \* memEntry objects
  MaxAttempts,       \* requests allowed in a window
  Window,            \* the length of a window
  LockoutThreshold,  \* attempts that lock the address; 0 disables the lockout
  LockoutDuration,   \* how long the lockout lasts
  Grace,             \* age at which cleanup drops an entry (5 minutes)
  MaxOutages,        \* bound: outages of Redis
  None               \* no entry

VARIABLES
  attempts,  \* rl:{prefix}:attempts:{ip}: its number and TTL
  lockout,   \* the TTL of rl:{prefix}:lockout:{ip}
  entries,   \* every memEntry: count, age of its window, lockout left
  current,   \* the entry the fallback map holds for the address
  req,       \* the state of every request slot
  sweeping,  \* the cleanup goroutine has found the entry stale
  up,        \* Redis answers
  outages,   \* outages of Redis so far
  admitted,  \* history: per store, requests let through in its window
  raced      \* history: an entry was dropped while it was in use

vars == <<attempts, lockout, entries, current, req, sweeping, up, outages, admitted,
          raced>>

\* What the code lets the constants be.
RateLimitAssumption ==
  /\ IsFiniteSet(Req) /\ None \notin Entry
  /\ MaxAttempts \in Nat \ {0} /\ Window \in Nat \ {0}
  /\ LockoutThreshold \in Nat /\ LockoutDuration \in Nat
  /\ Grace \in Nat /\ MaxOutages \in Nat

NoTTL == -1
NoKey == [n |-> 0, ttl |-> 0]
Fresh == [count |-> 0, age |-> 0, started |-> FALSE, locked |-> 0]
Stores == {"redis", "memory"}

Steps == {"idle", "attempts", "incr", "lock", "m_entry", "m_locked", "m_attempts",
          "m_incr", "m_lock", "handler", "clear_redis", "clear_memory"}
Request == [pc : Steps, entry : Entry \cup {None}]
Idle == [pc |-> "idle", entry |-> None]

Init ==
  /\ attempts = NoKey /\ lockout = 0
  /\ entries = [e \in Entry |-> Fresh] /\ current = None
  /\ req = [r \in Req |-> Idle]
  /\ sweeping = FALSE /\ up = TRUE /\ outages = 0 /\ raced = FALSE
  /\ admitted = [s \in Stores |-> [n |-> 0, age |-> Window + 1]]

At(r, step) == req[r].pc = step
Goto(r, step) ==
  req' = [req EXCEPT ![r] = [pc |-> step,
            entry |-> IF step \in {"idle", "handler"} THEN None ELSE @.entry]]
Entered(r) == entries[req[r].entry]

\* Redis stops or starts answering.
Outage ==
  /\ up' = ~ up
  /\ IF up THEN outages < MaxOutages /\ outages' = outages + 1 ELSE UNCHANGED outages

\* Any Redis error sends the request to the in-memory store.
FallBack(r) ==
  /\ ~ up
  /\ Goto(r, "m_entry")
  /\ UNCHANGED <<attempts, lockout, entries, current, up, outages, admitted>>

\* Admissions are counted per window, up to what no window may reach.  An entry
\* that starts a window starts a new count only when Window has passed since the
\* last one.
NewCount == [n |-> 0, age |-> 0]
Counted(restart) ==
  IF raced \/ (restart /\ admitted["memory"].age > Window) THEN NewCount
  ELSE admitted["memory"]
OneMore(n) == IF n < MaxAttempts + Cardinality(Req) THEN n + 1 ELSE n
Admit(store) == admitted' = [admitted EXCEPT ![store].n = OneMore(@)]

-----------------------------------------------------------------------------
(* tryRedis. *)

CheckLockout(r) ==
  /\ At(r, "idle")
  /\ \/ /\ up /\ (LockoutThreshold = 0 \/ lockout = 0)
        /\ Goto(r, "attempts")
        /\ UNCHANGED <<attempts, lockout, entries, current, up, outages, admitted>>
     \/ FallBack(r)

Exhausted(n) == n >= MaxAttempts

CheckAttempts(r) ==
  /\ At(r, "attempts")
  /\ \/ /\ up
        /\ Goto(r, IF Exhausted(attempts.n) THEN "idle" ELSE "incr")
        /\ UNCHANGED <<attempts, lockout, entries, current, up, outages, admitted>>
     \/ FallBack(r)

Locks(n) == LockoutThreshold > 0 /\ n >= LockoutThreshold

\* Mutant of TTLAfterIncr: a counter that is still alive loses its TTL.
TTLAfterIncrDropped(n) == IF n = 1 THEN Window ELSE NoTTL

TTLAfterIncr(n) == IF n = 1 THEN Window ELSE attempts.ttl

\* INCR, and EXPIRE when it returns 1.  The result of EXPIRE is ignored: it is
\* lost when it fails or the process stops before it.
IncrAttempts(r) ==
  LET n == attempts.n + 1 IN
  /\ At(r, "incr")
  /\ \/ /\ up /\ attempts' = [n |-> n, ttl |-> TTLAfterIncr(n)]
        /\ Goto(r, IF Locks(n) THEN "lock" ELSE "handler")
        /\ IF Locks(n) THEN UNCHANGED admitted ELSE Admit("redis")
        /\ UNCHANGED <<lockout, entries, current, up, outages>>
     \/ /\ up /\ n = 1 /\ Outage
        /\ attempts' = [n |-> n, ttl |-> NoTTL]
        /\ \/ Goto(r, "idle") /\ UNCHANGED admitted
           \/ Goto(r, "handler") /\ Admit("redis")
        /\ UNCHANGED <<lockout, entries, current>>
     \/ FallBack(r)

\* A SET that fails is ignored: the request is rejected all the same.
SetLockout(r) ==
  /\ At(r, "lock")
  /\ lockout' = IF up THEN LockoutDuration ELSE lockout
  /\ Goto(r, "idle")
  /\ UNCHANGED <<attempts, entries, current, up, outages, admitted>>

-----------------------------------------------------------------------------
(* tryMemory.  getOrCreate finds the entry; a request keeps the pointer. *)

Held == {req[r].entry : r \in Req} \cup {current}

GetOrCreate(r) ==
  /\ At(r, "m_entry")
  /\ \E e \in IF current # None THEN {current} ELSE Entry \ Held :
       /\ current' = e
       /\ entries' = IF current # None THEN entries ELSE [entries EXCEPT ![e] = Fresh]
       /\ req' = [req EXCEPT ![r] = [pc |-> "m_locked", entry |-> e]]
  /\ UNCHANGED <<attempts, lockout, up, outages, admitted>>

MemIsLocked(r) ==
  /\ At(r, "m_locked")
  /\ Goto(r, IF LockoutThreshold > 0 /\ Entered(r).locked > 0 THEN "idle"
             ELSE "m_attempts")
  /\ UNCHANGED <<attempts, lockout, entries, current, up, outages, admitted>>

\* Mutant of WindowOver: the age of the window is not looked at.
WindowOverAlways(e) == TRUE

WindowOver(e) == ~ e.started \/ e.age > Window
Restarted(e) == IF WindowOver(e)
  THEN [e EXCEPT !.count = 0, !.age = 0, !.started = TRUE] ELSE e

MemGetAttempts(r) ==
  /\ At(r, "m_attempts")
  /\ entries' = [entries EXCEPT ![req[r].entry] = Restarted(@)]
  /\ admitted' = [admitted EXCEPT !["memory"] = Counted(WindowOver(Entered(r)))]
  /\ Goto(r, IF Exhausted(Restarted(Entered(r)).count) THEN "idle" ELSE "m_incr")
  /\ UNCHANGED <<attempts, lockout, current, up, outages>>

MemIncr(r) ==
  LET n == Restarted(Entered(r)).count + 1 IN
  /\ At(r, "m_incr")
  /\ entries' = [entries EXCEPT ![req[r].entry] = [Restarted(@) EXCEPT !.count = n]]
  /\ Goto(r, IF Locks(n) THEN "m_lock" ELSE "handler")
  /\ admitted' = [admitted EXCEPT !["memory"] =
       [Counted(WindowOver(Entered(r))) EXCEPT !.n = IF Locks(n) THEN @ ELSE OneMore(@)]]
  /\ UNCHANGED <<attempts, lockout, current, up, outages>>

MemSetLockout(r) ==
  /\ At(r, "m_lock")
  /\ entries' = [entries EXCEPT ![req[r].entry].locked = LockoutDuration]
  /\ Goto(r, "idle")
  /\ UNCHANGED <<attempts, lockout, current, up, outages, admitted>>

\* Mutant of Stale: an entry of any age is dropped.
StaleAtOnce(e) == e.locked = 0

\* An entry without a window has the zero time, which is always old.
Stale(e) == (~ e.started \/ e.age > Grace) /\ e.locked = 0

\* The goroutine looks at the entry under its mutex and deletes the key, and
\* whatever entry it then has, after unlocking it.
InUse == current # None /\ \E r \in Req : req[r].entry = current

CleanupLook ==
  /\ ~ sweeping /\ current # None /\ Stale(entries[current])
  /\ sweeping' = TRUE
  /\ UNCHANGED <<attempts, lockout, entries, current, req, up, outages, admitted,
                 raced>>
CleanupDelete ==
  /\ sweeping /\ sweeping' = FALSE
  /\ current' = None
  /\ raced' = (raced \/ InUse \/ (current # None /\ ~ Stale(entries[current])))
  /\ UNCHANGED <<attempts, lockout, entries, req, up, outages, admitted>>

-----------------------------------------------------------------------------
(* The handler.  A successful sign-in clears the counters of both stores. *)

Handler(r) ==
  /\ At(r, "handler")
  /\ \/ Goto(r, "idle")
     \/ Goto(r, "clear_redis")
  /\ UNCHANGED <<attempts, lockout, entries, current, up, outages, admitted>>

ClearRateLimitKeys(r) ==
  /\ At(r, "clear_redis")
  /\ IF up THEN /\ attempts' = NoKey /\ lockout' = 0
                /\ admitted' = [admitted EXCEPT !["redis"].n = 0]
     ELSE UNCHANGED <<attempts, lockout, admitted>>
  /\ Goto(r, "clear_memory")
  /\ UNCHANGED <<entries, current, up, outages>>

MemClearAttempts(r) ==
  /\ At(r, "clear_memory")
  /\ current' = None
  /\ admitted' = [admitted EXCEPT !["memory"].n = 0]
  /\ raced' = (raced \/ InUse)
  /\ Goto(r, "idle")
  /\ UNCHANGED <<attempts, lockout, entries, up, outages>>

-----------------------------------------------------------------------------
\* Time passes: keys lapse, windows and lockouts age, dropped entries are
\* collected.
Less(n) == IF n > 0 THEN n - 1 ELSE n
Older(e) == [e EXCEPT !.locked = Less(@),
                      !.age = IF e.started /\ @ <= Window + Grace THEN @ + 1 ELSE @]
Tick ==
  LET lapsed == attempts.ttl = 1 IN
  /\ attempts' = IF lapsed THEN NoKey ELSE [attempts EXCEPT !.ttl = Less(@)]
  /\ lockout' = Less(lockout)
  /\ entries' = [e \in Entry |-> IF e \in Held THEN Older(entries[e]) ELSE Fresh]
  /\ admitted' = [redis |-> IF lapsed THEN NewCount ELSE admitted["redis"],
                  memory |-> [admitted["memory"] EXCEPT
                    !.age = IF @ <= Window THEN @ + 1 ELSE @]]
  /\ UNCHANGED <<current, req, sweeping, up, outages, raced>>

Serve(r) ==
  \/ CheckLockout(r) \/ CheckAttempts(r) \/ IncrAttempts(r) \/ SetLockout(r)
  \/ Handler(r)
  \/ GetOrCreate(r) \/ MemIsLocked(r) \/ MemGetAttempts(r) \/ MemIncr(r)
  \/ MemSetLockout(r)

Next ==
  \/ \E r \in Req :
       /\ \/ (Serve(r) \/ ClearRateLimitKeys(r)) /\ UNCHANGED raced
          \/ MemClearAttempts(r)
       /\ UNCHANGED sweeping
  \/ CleanupLook \/ CleanupDelete \/ Tick
  \/ Outage /\ UNCHANGED <<attempts, lockout, entries, current, req, sweeping,
                           admitted, raced>>

\* Time passes, whatever the requests do.
Spec == Init /\ [][Next]_vars /\ WF_vars(Tick)

-----------------------------------------------------------------------------
(* Properties. *)

\* The variables have their types.
TypeOK ==
  /\ attempts \in [n : Nat, ttl : -1..Window] /\ lockout \in 0..LockoutDuration
  /\ entries \in [Entry -> [count : Nat, age : Nat, started : BOOLEAN,
                            locked : 0..LockoutDuration]]
  /\ current \in Entry \cup {None} /\ req \in [Req -> Request]
  /\ sweeping \in BOOLEAN /\ up \in BOOLEAN /\ outages \in 0..MaxOutages
  /\ raced \in BOOLEAN
  /\ admitted \in [Stores -> [n : Nat, age : 0..(Window + 1)]]

\* The counter is read in one command and raised in another
\* (rate_limit.go:216-236): the requests being served at the same time share
\* one reading, but a store never lets more than that through in a window,
\* whichever of its keys, locks and entries have come and gone.
WindowLimit ==
  /\ admitted["redis"].n < MaxAttempts + Cardinality(Req)
  /\ raced \/ admitted["memory"].n < MaxAttempts + Cardinality(Req)

\* A client that Redis rejects is let in again: rejections are not counted, so
\* its window ends, unless an EXPIRE was lost (rate_limit.go:228-236).
LetInAgain == [](outages = 0) => (Exhausted(attempts.n) ~> ~ Exhausted(attempts.n))
=============================================================================
