---------------------------- MODULE SignInProofs ----------------------------
(***************************************************************************)
(* Theorems about a sign-in, for every value of the constants: the lock of *)
(* Lockout, the rate limiter, the second factors and their enrolment, and  *)
(* passkeys.                                                               *)
(*                                                                         *)
(* Those about Lockout come first, for any number of requests, thresholds, *)
(* windows and lock durations: guessing is limited, and a lock holds until *)
(* it expires or is lifted.  Guessing counts what may yet be added to the  *)
(* failures: every request that has compared a password and not yet        *)
(* counted it.  Earned says what the counter and its expiry tell about the *)
(* times of the failures.                                                  *)
(*                                                                         *)
(* The others are about the specification that TLC runs, AllSpec, in which *)
(* part says which module runs: each has an inductive invariant under that *)
(* condition.                                                              *)
(***************************************************************************)
EXTENDS MCSignIn, FiniteSetTheorems, TLAPS

Busy(r) == req[r].pc # "idle"

\* A live key has not expired, and without a lost EXPIRE it will.
Keys ==
  \A c \in Counters :
    /\ Live(c) \/ counter[c] = Gone
    /\ counter[c].exp > now
    /\ Live(c) /\ counter[c].exp = Never => errors > 0
    /\ c = "failures" => counter[c].exp = Never \/ counter[c].exp <= now + LockoutWindow

\* Requests that did not overlap were served one after the other.
Solo == ~ overlap => \A p, q \in Req : Busy(p) /\ Busy(q) => p = q

Base == TypeOK /\ Keys /\ Solo

\* Wrong passwords not yet counted, or counted by the request that locks; those
\* without a CAPTCHA, and the requests that may yet compare one so.
InU(q) == q.pc = "count" \/ (q.pc = "clear" /\ ~ q.right)
InP(q) == InU(q) \/ q.pc \in {"tier", "lock"}
InB(q) == InU(q) /\ ~ q.captcha
InR(q) == q.pc = "read" /\ ~ q.captcha

Owed == Cardinality({r \in Req : InU(req[r])})
Pending == Cardinality({r \in Req : InP(req[r])})
BlindOwed == Cardinality({r \in Req : InB(req[r])})
BlindNext == Cardinality({r \in Req : InR(req[r])})

Guessing ==
  /\ guesses <= Value("failures") + Owed + errors
  /\ guesses <= LockoutThreshold - 1 + Pending + errors
  /\ blind <= Value("failures") + BlindOwed + errors
  /\ blind + BlindNext <= CaptchaThreshold - 1 + Cardinality(Req) + errors

\* The failures the counter holds are the last strikes, and while the counter
\* lives they are recent: it expires a window after the first of them.
Backed ==
  /\ Value("failures") <= Len(strikes)
  /\ \A i \in (Len(strikes) - Value("failures") + 1) .. Len(strikes) :
       strikes[i] + LockoutWindow >= counter["failures"].exp
Earned ==
  /\ LockEarned
  /\ ~ overlap /\ errors = 0 /\ (\A r \in Req : ~ At(r, "forget")) => Backed

\* A request on its own that goes past the lock has seen that it is over.
Past == {"clear", "count", "tier", "lock"}
Respected ==
  ~ overlap => \A r \in Req : req[r].pc \in Past => lock = Unlocked \/ now > lock

Inv == Base /\ Guessing /\ Earned /\ Respected

-----------------------------------------------------------------------------
(* Counters.                                                               *)

LEMMA Horizon ==
  ASSUME LockoutAssumption, TypeOK
  PROVE  /\ now \in Nat /\ Never \in Nat /\ Never > now + 1
         /\ \A ttl \in {LockoutTierTTL, LockoutWindow, DelayTierTTL} :
              /\ ttl \in Nat \ {0} /\ now + ttl \in Nat
              /\ now < now + ttl /\ now + ttl < Never
  BY DEF LockoutAssumption, TypeOK, Never

LEMMA Zero ==
  ASSUME LockoutAssumption, TypeOK
  PROVE  /\ Gone \in [n : Nat, exp : Nat] /\ Gone.n = 0 /\ Gone.exp = Never
         /\ Idle \in Request /\ Idle.pc = "idle" /\ Idle.captcha = FALSE /\ Idle.right = FALSE
  BY Horizon DEF Gone, Idle, Request, Steps

\* A step that leaves the counters alone, or forgets one of them.
LEMMA KeysStay ==
  ASSUME Keys, TypeOK, counter' = counter, now' = now, errors' \in Nat, errors' >= errors
  PROVE  Keys'
  BY DEF Keys, TypeOK, Live, Value, Never, Gone

LEMMA KeysDrop ==
  ASSUME LockoutAssumption, Keys, TypeOK, NEW c \in Counters, Del(c),
         now' = now, errors' = errors
  PROVE  /\ Keys' /\ counter' \in [Counters -> [n : Nat, exp : Nat]]
         /\ counter'[c].n = 0 /\ \A d \in Counters \ {c} : counter'[d] = counter[d]
<1>1. counter' = [counter EXCEPT ![c] = Gone]
  BY DEF Del
<1>2. /\ counter' \in [Counters -> [n : Nat, exp : Nat]] /\ counter'[c] = Gone
      /\ \A d \in Counters \ {c} : counter'[d] = counter[d]
  BY <1>1, Zero DEF TypeOK
<1>3. Never' = Never /\ Gone' = Gone
  BY DEF Never, Gone
<1>4. ASSUME NEW d \in Counters
      PROVE  /\ counter'[d].n > 0 \/ counter'[d] = Gone
             /\ counter'[d].exp > now'
             /\ counter'[d].n > 0 /\ counter'[d].exp = Never => errors' > 0
             /\ d = "failures" => counter'[d].exp = Never
                                  \/ counter'[d].exp <= now' + LockoutWindow
  <2>1. CASE d = c
    BY <2>1, <1>2, Zero, Horizon
  <2>2. CASE d # c
    BY <2>2, <1>2 DEF Keys, Live, Value
  <2> QED
    BY <2>1, <2>2
<1>5. Keys'
  BY <1>3, <1>4 DEF Keys, Live, Value
<1> QED
  BY <1>2, <1>5, Zero

LEMMA KeysRise ==
  ASSUME LockoutAssumption, Keys, TypeOK, NEW c \in Counters, NEW sliding \in BOOLEAN,
         NEW lost \in BOOLEAN, NEW ttl \in {LockoutTierTTL, LockoutWindow, DelayTierTTL},
         c = "failures" => ttl = LockoutWindow, Incr(c, ttl, sliding, lost), now' = now
  PROVE  /\ Keys' /\ counter' \in [Counters -> [n : Nat, exp : Nat]]
         /\ counter'[c].n = Value(c) + 1 /\ \A d \in Counters \ {c} : counter'[d] = counter[d]
         /\ errors' \in 0 .. MaxErrors /\ errors' >= errors
         /\ errors' = 0 =>
              counter'[c].exp = IF ~ sliding /\ Live(c) THEN counter[c].exp ELSE now + ttl
<1> DEFINE k == [n |-> counter[c].n + 1,
       exp |-> IF ~ lost /\ (sliding \/ ~ Live(c)) THEN now + ttl
               ELSE IF Live(c) THEN counter[c].exp ELSE Never]
<1>1. /\ counter' = [counter EXCEPT ![c] = k]
      /\ errors' = errors + (IF lost THEN 1 ELSE 0) /\ errors' <= MaxErrors
  BY DEF Incr, Value
<1>2. errors' \in 0 .. MaxErrors /\ errors' >= errors /\ (lost => errors' > 0) /\ errors \in Nat
  BY <1>1 DEF TypeOK, LockoutAssumption
<1>3. counter[c].n \in Nat /\ counter[c].exp \in Nat
  BY DEF TypeOK
<1>4. /\ k.n = counter[c].n + 1 /\ k.n \in Nat /\ k.n > 0
      /\ k.exp \in {now + ttl, counter[c].exp, Never} /\ k.exp \in Nat
      /\ lost \/ k.exp = IF ~ sliding /\ Live(c) THEN counter[c].exp ELSE now + ttl
      /\ Live(c) \/ k.exp = now + ttl \/ (lost /\ k.exp = Never)
      /\ k.exp = Never => lost \/ (Live(c) /\ counter[c].exp = Never)
  BY <1>3, Horizon
<1>5. k \in [n : Nat, exp : Nat]
  BY <1>4
<1> HIDE DEF k
<1>6. /\ counter' \in [Counters -> [n : Nat, exp : Nat]] /\ counter'[c] = k
      /\ \A d \in Counters \ {c} : counter'[d] = counter[d]
  BY <1>1, <1>5 DEF TypeOK
<1>7. Never' = Never /\ Gone' = Gone
  BY DEF Never, Gone
<1>8. ASSUME NEW d \in Counters
      PROVE  /\ counter'[d].n > 0 \/ counter'[d] = Gone
             /\ counter'[d].exp > now'
             /\ counter'[d].n > 0 /\ counter'[d].exp = Never => errors' > 0
             /\ d = "failures" => counter'[d].exp = Never
                                  \/ counter'[d].exp <= now' + LockoutWindow
  <2>1. CASE d = c
    <3>1. k.exp > now
      BY <1>4, <2>1, Horizon DEF Keys
    <3>2. k.exp = Never => errors' > 0
      BY <1>2, <1>4 DEF Keys
    <3>3. d = "failures" => k.exp = Never \/ k.exp <= now + LockoutWindow
      BY <1>4, <2>1, Horizon DEF Keys
    <3> QED
      BY <1>4, <1>6, <2>1, <3>1, <3>2, <3>3
  <2>2. CASE d # c
    BY <2>2, <1>2, <1>6 DEF Keys, Live, Value
  <2> QED
    BY <2>1, <2>2
<1>9. Keys'
  BY <1>7, <1>8 DEF Keys, Live, Value
<1>10. errors' = 0 => ~ lost
  BY <1>2
<1> QED
  BY <1>2, <1>4, <1>6, <1>9, <1>10 DEF Value

-----------------------------------------------------------------------------
(* What a step does to its request.                                        *)

Same(r) == \A s \in Req \ {r} : req'[s] = req[s]
\* A request ended, or went on as it was.
Went(r, step) ==
  /\ req' \in [Req -> Request] /\ Same(r) /\ req'[r].pc = step
  /\ step # "idle" => /\ req'[r].captcha = req[r].captcha /\ req'[r].right = req[r].right
                      /\ req'[r].duration = req[r].duration

LEMMA Goes ==
  ASSUME LockoutAssumption, TypeOK, NEW r \in Req, NEW step \in Steps, Goto(r, step)
  PROVE  Went(r, step)
<1>1. CASE step = "idle"
  BY <1>1, Zero DEF Goto, Went, Same, TypeOK
<1>2. CASE step # "idle"
  <2> DEFINE q == [req[r] EXCEPT !.pc = step]
  <2>1. req[r] \in Request
    BY DEF TypeOK
  <2>2. /\ q \in Request /\ q.pc = step /\ q.captcha = req[r].captcha /\ q.right = req[r].right
        /\ q.duration = req[r].duration
    BY <2>1 DEF Request
  <2>3. req' = [req EXCEPT ![r] = q]
    BY <1>2 DEF Goto
  <2> HIDE DEF q
  <2> QED
    BY <2>2, <2>3 DEF Went, Same, TypeOK
<1> QED
  BY <1>1, <1>2

LEMMA Begins ==
  ASSUME LockoutAssumption, TypeOK, NEW r \in Req, NEW step \in Steps, NEW captcha \in BOOLEAN,
         Begin(r, step, captcha)
  PROVE  /\ req' \in [Req -> Request] /\ Same(r) /\ req[r].pc = "idle" /\ req'[r].pc = step
         /\ req'[r].captcha = captcha /\ req'[r].right = FALSE
         /\ served' \in 0 .. MaxRequests
         /\ overlap' = (overlap \/ \E q \in Req : Busy(q)) /\ overlap' \in BOOLEAN
<1> DEFINE q == [Idle EXCEPT !.pc = step, !.captcha = captcha]
<1>1. q \in Request /\ q.pc = step /\ q.captcha = captcha /\ q.right = FALSE
  BY DEF Idle, Request
<1>2. req' = [req EXCEPT ![r] = q]
  BY DEF Begin
<1> HIDE DEF q
<1>3. req' \in [Req -> Request] /\ Same(r) /\ req'[r] = q
  BY <1>1, <1>2 DEF TypeOK, Same
<1>4. served' \in 0 .. MaxRequests
  BY SMTT(30) DEF Begin, TypeOK, LockoutAssumption
<1>5. /\ req[r].pc = "idle" /\ overlap' = (overlap \/ \E p \in Req : Busy(p))
      /\ overlap' \in BOOLEAN
  BY DEF Begin, TypeOK, Busy
<1> QED
  BY <1>1, <1>3, <1>4, <1>5

\* Alone is kept by a request that goes on, and by one that begins.
LEMMA SoloGoes ==
  ASSUME Solo, NEW r \in Req, Same(r), Busy(r), overlap' = overlap
  PROVE  Solo'
  BY DEF Solo, Same, Busy

LEMMA SoloBegins ==
  ASSUME Solo, NEW r \in Req, Same(r), overlap' = (overlap \/ \E q \in Req : Busy(q))
  PROVE  Solo'
  BY DEF Solo, Same, Busy

-----------------------------------------------------------------------------
(* How the requests to be counted change when one of them goes on.         *)

Shift(m, n, was, is) ==
  /\ was /\ ~ is => n = m - 1
  /\ ~ was /\ is => n = m + 1
  /\ (was <=> is) => n = m

LEMMA Count ==
  ASSUME NEW A, IsFiniteSet(A), NEW S \in SUBSET A, NEW T \in SUBSET A, NEW r \in A,
         \A s \in A \ {r} : s \in S <=> s \in T
  PROVE  Shift(Cardinality(S), Cardinality(T), r \in S, r \in T)
<1>1. IsFiniteSet(S) /\ IsFiniteSet(T)
  BY FS_Subset
<1>2. Cardinality(S) \in Nat /\ Cardinality(T) \in Nat
  BY <1>1, FS_CardinalityType
<1>3. CASE r \in S /\ r \notin T
  <2>1. T = S \ {r}
    BY <1>3
  <2>2. Cardinality(S \ {r}) = Cardinality(S) - 1
    BY <1>1, <1>3, FS_RemoveElement
  <2> QED
    BY <1>3, <2>1, <2>2 DEF Shift
<1>4. CASE r \notin S /\ r \in T
  <2>1. S = T \ {r}
    BY <1>4
  <2>2. Cardinality(T \ {r}) = Cardinality(T) - 1
    BY <1>1, <1>4, FS_RemoveElement
  <2> QED
    BY <1>2, <1>4, <2>1, <2>2 DEF Shift
<1>5. CASE r \in S <=> r \in T
  <2>1. S = T
    BY <1>5
  <2> QED
    BY <1>5, <2>1 DEF Shift
<1> QED
  BY <1>3, <1>4, <1>5

LEMMA Moves ==
  ASSUME LockoutAssumption, NEW r \in Req, Same(r)
  PROVE  /\ Shift(Owed, Owed', InU(req[r]), InU(req'[r]))
         /\ Shift(Pending, Pending', InP(req[r]), InP(req'[r]))
         /\ Shift(BlindOwed, BlindOwed', InB(req[r]), InB(req'[r]))
         /\ Shift(BlindNext, BlindNext', InR(req[r]), InR(req'[r]))
<1> USE DEF Same
<1>0. IsFiniteSet(Req)
  BY DEF LockoutAssumption
<1>1. Shift(Owed, Owed', InU(req[r]), InU(req'[r]))
  <2> DEFINE S == {s \in Req : InU(req[s])}
             T == {s \in Req : InU(req'[s])}
  <2>1. S \in SUBSET Req /\ T \in SUBSET Req /\ \A s \in Req \ {r} : s \in S <=> s \in T
    OBVIOUS
  <2>2. (r \in S <=> InU(req[r])) /\ (r \in T <=> InU(req'[r]))
    OBVIOUS
  <2>3. Owed = Cardinality(S) /\ Owed' = Cardinality(T)
    BY DEF Owed, InU
  <2> HIDE DEF S, T
  <2>4. Shift(Cardinality(S), Cardinality(T), r \in S, r \in T)
    BY <1>0, <2>1, Count
  <2> QED
    BY <2>2, <2>3, <2>4 DEF Shift
<1>2. Shift(Pending, Pending', InP(req[r]), InP(req'[r]))
  <2> DEFINE S == {s \in Req : InP(req[s])}
             T == {s \in Req : InP(req'[s])}
  <2>1. S \in SUBSET Req /\ T \in SUBSET Req /\ \A s \in Req \ {r} : s \in S <=> s \in T
    OBVIOUS
  <2>2. (r \in S <=> InP(req[r])) /\ (r \in T <=> InP(req'[r]))
    OBVIOUS
  <2>3. Pending = Cardinality(S) /\ Pending' = Cardinality(T)
    BY DEF Pending, InP, InU
  <2> HIDE DEF S, T
  <2>4. Shift(Cardinality(S), Cardinality(T), r \in S, r \in T)
    BY <1>0, <2>1, Count
  <2> QED
    BY <2>2, <2>3, <2>4 DEF Shift
<1>3. Shift(BlindOwed, BlindOwed', InB(req[r]), InB(req'[r]))
  <2> DEFINE S == {s \in Req : InB(req[s])}
             T == {s \in Req : InB(req'[s])}
  <2>1. S \in SUBSET Req /\ T \in SUBSET Req /\ \A s \in Req \ {r} : s \in S <=> s \in T
    OBVIOUS
  <2>2. (r \in S <=> InB(req[r])) /\ (r \in T <=> InB(req'[r]))
    OBVIOUS
  <2>3. BlindOwed = Cardinality(S) /\ BlindOwed' = Cardinality(T)
    BY DEF BlindOwed, InB, InU
  <2> HIDE DEF S, T
  <2>4. Shift(Cardinality(S), Cardinality(T), r \in S, r \in T)
    BY <1>0, <2>1, Count
  <2> QED
    BY <2>2, <2>3, <2>4 DEF Shift
<1>4. Shift(BlindNext, BlindNext', InR(req[r]), InR(req'[r]))
  <2> DEFINE S == {s \in Req : InR(req[s])}
             T == {s \in Req : InR(req'[s])}
  <2>1. S \in SUBSET Req /\ T \in SUBSET Req /\ \A s \in Req \ {r} : s \in S <=> s \in T
    OBVIOUS
  <2>2. (r \in S <=> InR(req[r])) /\ (r \in T <=> InR(req'[r]))
    OBVIOUS
  <2>3. BlindNext = Cardinality(S) /\ BlindNext' = Cardinality(T)
    BY DEF BlindNext, InR
  <2> HIDE DEF S, T
  <2>4. Shift(Cardinality(S), Cardinality(T), r \in S, r \in T)
    BY <1>0, <2>1, Count
  <2> QED
    BY <2>2, <2>3, <2>4 DEF Shift
<1> QED
  BY <1>1, <1>2, <1>3, <1>4

\* How they compare.
Sized ==
  /\ Owed \in Nat /\ Pending \in Nat /\ BlindOwed \in Nat /\ BlindNext \in Nat
  /\ Cardinality(Req) \in Nat
  /\ Owed <= Pending /\ Pending <= Cardinality(Req)
  /\ BlindOwed + BlindNext <= Cardinality(Req)

LEMMA Sizes ==
  ASSUME LockoutAssumption
  PROVE  Sized
<1> DEFINE U == {r \in Req : InU(req[r])}
           Pend == {r \in Req : InP(req[r])}
           B == {r \in Req : InB(req[r])}
           Rd == {r \in Req : InR(req[r])}
<1>0. IsFiniteSet(Req)
  BY DEF LockoutAssumption
<1>1. /\ U \subseteq Pend /\ Pend \subseteq Req /\ B \subseteq Req
      /\ Rd \subseteq Req /\ B \cap Rd = {}
  BY DEF InU, InP, InB, InR
<1>3. /\ Owed = Cardinality(U) /\ Pending = Cardinality(Pend) /\ BlindOwed = Cardinality(B)
      /\ BlindNext = Cardinality(Rd)
  BY DEF Owed, Pending, BlindOwed, BlindNext
<1> HIDE DEF U, Pend, B, Rd
<1>4. IsFiniteSet(U) /\ IsFiniteSet(Pend) /\ IsFiniteSet(B) /\ IsFiniteSet(Rd)
  BY <1>0, <1>1, FS_Subset
<1>5. Cardinality(U) <= Cardinality(Pend) /\ Cardinality(Pend) <= Cardinality(Req)
  BY <1>0, <1>1, <1>4, FS_Subset
<1>6. /\ Cardinality(U) \in Nat /\ Cardinality(Pend) \in Nat /\ Cardinality(B) \in Nat
      /\ Cardinality(Rd) \in Nat /\ Cardinality(Req) \in Nat
  BY <1>0, <1>4, FS_CardinalityType
<1>7. Cardinality(B) + Cardinality(Rd) <= Cardinality(Req)
  <2>1. Cardinality(B \cup Rd) = Cardinality(B) + Cardinality(Rd) - Cardinality(B \cap Rd)
    BY <1>4, FS_Union
  <2>2. Cardinality(B \cap Rd) = 0
    BY <1>1, FS_EmptySet
  <2>3. B \cup Rd \subseteq Req
    BY <1>1
  <2>4. Cardinality(B \cup Rd) <= Cardinality(Req)
    BY <1>0, <2>3, FS_Subset
  <2> QED
    BY <1>6, <2>1, <2>2, <2>4
<1> QED
  BY <1>3, <1>5, <1>6, <1>7 DEF Sized

LEMMA SizesNext ==
  ASSUME LockoutAssumption
  PROVE  Sized'
<1>1. Sized
  BY Sizes
<1> QED
  BY <1>1, PTL

\* What is left when the failures are forgotten.
LEMMA Rest ==
  ASSUME Forgotten
  PROVE  guesses' = Owed /\ blind' = BlindOwed
<1>1. /\ {r \in Req : InU(req[r])} = Uncounted
      /\ {r \in Req : InB(req[r])} = {r \in Uncounted : ~ req[r].captcha}
  BY DEF Uncounted, At, InU, InB
<1> QED
  BY <1>1 DEF Forgotten, Owed, BlindOwed

-----------------------------------------------------------------------------
(* The steps that several operations share.                                *)

\* A command that fails: one more error, and the request goes on.
LEMMA FailKeeps ==
  ASSUME LockoutAssumption, Inv, NEW r \in Req, NEW step \in Steps, Fail(r, step), Busy(r),
         step \in Past => req[r].pc \in Past
  PROVE  Inv' /\ LockKept
<1>1. /\ errors' = errors + 1 /\ errors < MaxErrors
      /\ now' = now /\ lock' = lock /\ counter' = counter /\ served' = served
      /\ guesses' = guesses /\ blind' = blind /\ strikes' = strikes
      /\ unearned' = unearned /\ overlap' = overlap
  BY DEF Fail, history
<1>2. Went(r, step)
  BY Goes DEF Fail, Inv, Base
<1>3. errors \in Nat /\ errors' \in 0 .. MaxErrors /\ errors' > 0 /\ errors' >= errors
  BY <1>1 DEF Inv, Base, TypeOK, LockoutAssumption
<1>4. TypeOK'
  BY <1>1, <1>2, <1>3 DEF Inv, Base, TypeOK, Went
<1>5. Base'
  BY <1>1, <1>2, <1>3, <1>4, KeysStay, SoloGoes DEF Inv, Base, Went
<1>6. Guessing'
  <2>1. /\ Owed' >= Owed - 1 /\ Pending' >= Pending - 1 /\ BlindOwed' >= BlindOwed - 1
        /\ BlindNext' <= BlindNext + 1
    BY <1>2, Moves, Sizes, SizesNext DEF Went, Shift, Sized
  <2>2. /\ guesses \in Nat /\ blind \in Nat /\ counter["failures"].n \in Nat
        /\ LockoutThreshold \in Nat /\ CaptchaThreshold \in Nat
    BY DEF Inv, Base, TypeOK, LockoutAssumption, Counters
  <2> QED
    BY <1>1, <1>3, <2>1, <2>2, Sizes, SizesNext DEF Inv, Guessing, Value, Sized
<1>7. Earned'
  BY <1>1, <1>3 DEF Earned, LockEarned
<1>8. Respected'
  BY <1>1, <1>2 DEF Inv, Respected, Went, Same
<1>9. LockKept
  BY <1>1 DEF LockKept, Inv, Base, TypeOK
<1> QED
  BY <1>5, <1>6, <1>7, <1>8, <1>9 DEF Inv

\* A step that is neither before nor at the counting of a password.
Aside == Steps \ (Past \cup {"read", "forget", "idle"})

\* Of the counters, one is forgotten; of the failures, the history with it.
LEMMA DelKeeps ==
  ASSUME LockoutAssumption, Inv, NEW r \in Req, NEW step \in Aside \cup {"forget"},
         NEW next \in Aside \cup {"idle"}, NEW c \in Counters, DelThen(r, step, c, next),
         step = "forget" => c = "failures"
  PROVE  Inv' /\ LockKept
<1>1. step \in Steps /\ next \in Steps /\ step # "idle" /\ next \notin Past
  BY DEF Aside, Steps, Past
<1>2. At(r, step) /\ Busy(r)
  BY <1>1 DEF DelThen, Busy, At
<1>3. CASE Fail(r, next)
  BY <1>1, <1>2, <1>3, FailKeeps
<1>4. ASSUME Del(c), Goto(r, next),
             IF c = "failures" THEN Forgotten /\ strikes' = <<>>
             ELSE UNCHANGED <<guesses, blind, strikes>>,
             UNCHANGED <<now, lock, served, errors, unearned, overlap>>
      PROVE  Inv' /\ LockKept
  <2>1. Went(r, next)
    BY <1>1, <1>4, Goes DEF Inv, Base
  <2>2. /\ Keys' /\ counter' \in [Counters -> [n : Nat, exp : Nat]]
        /\ counter'[c].n = 0 /\ \A d \in Counters \ {c} : counter'[d] = counter[d]
    BY <1>4, KeysDrop DEF Inv, Base
  <2>3. /\ Owed' = Owed /\ Pending' = Pending /\ BlindOwed' = BlindOwed
        /\ BlindNext' = BlindNext
    <3>1. /\ ~ InU(req[r]) /\ ~ InP(req[r]) /\ ~ InB(req[r]) /\ ~ InR(req[r])
      BY <1>2 DEF At, InU, InP, InB, InR, Aside, Past
    <3>2. /\ ~ InU(req'[r]) /\ ~ InP(req'[r]) /\ ~ InB(req'[r]) /\ ~ InR(req'[r])
      BY <2>1 DEF Went, InU, InP, InB, InR, Aside, Past
    <3> QED
      BY <2>1, <3>1, <3>2, Moves DEF Went, Shift
  <2>4. /\ c = "failures" => /\ guesses' = Owed /\ blind' = BlindOwed /\ strikes' = <<>>
                             /\ counter'["failures"].n = 0
        /\ c # "failures" => /\ guesses' = guesses /\ blind' = blind /\ strikes' = strikes
                             /\ counter'["failures"] = counter["failures"]
    BY <1>4, <2>2, Rest DEF Counters
  <2>5. TypeOK'
    <3>1. guesses' \in Nat /\ blind' \in Nat
      BY <2>4, Sizes DEF Inv, Base, TypeOK, Sized
    <3>2. strikes \in Seq(Nat) /\ << >> \in Seq(Nat)
      BY DEF Inv, Base, TypeOK
    <3>3. strikes' = << >> \/ strikes' = strikes
      BY <2>4
    <3> QED
      BY <1>4, <2>1, <2>2, <3>1, <3>2, <3>3 DEF Inv, Base, TypeOK, Went
  <2>6. Base'
    BY <1>2, <1>4, <2>1, <2>2, <2>5, SoloGoes DEF Inv, Base, Went
  <2>7. Guessing'
    <3>1. /\ LockoutThreshold \in Nat \ {0} /\ CaptchaThreshold \in Nat \ {0}
          /\ errors \in Nat /\ errors' = errors
      BY <1>4 DEF LockoutAssumption, Inv, Base, TypeOK
    <3>2. CASE c = "failures"
      BY SMTT(30), <2>3, <2>4, <3>1, <3>2, Sizes DEF Guessing, Value, Sized
    <3>3. CASE c # "failures"
      BY <2>3, <2>4, <3>1, <3>3 DEF Inv, Guessing, Value
    <3> QED
      BY <3>2, <3>3
  <2>8. Earned'
    <3>1. LockEarned'
      BY <1>4 DEF Inv, Earned, LockEarned
    <3>2. CASE c = "failures"
      <4>1. Backed'
        BY <2>4, <3>2 DEF Backed, Value
      <4> QED
        BY <3>1, <4>1 DEF Earned
    <3>3. CASE c # "failures"
      <4>1. ASSUME \A q \in Req : ~ At(q, "forget")'
            PROVE  \A q \in Req : ~ At(q, "forget")
        BY <1>2, <2>1, <3>3, <4>1 DEF At, Went, Same, Aside
      <4>2. Backed => Backed'
        BY <2>4, <3>3 DEF Backed, Value
      <4> QED
        BY <1>4, <3>1, <4>1, <4>2 DEF Inv, Earned
    <3> QED
      BY <3>2, <3>3
  <2>9. Respected'
    BY <1>1, <1>4, <2>1 DEF Inv, Respected, Went, Same
  <2>10. LockKept
    BY <1>4 DEF LockKept, Inv, Base, TypeOK
  <2> QED
    BY <2>6, <2>7, <2>8, <2>9, <2>10 DEF Inv
<1> QED
  BY <1>3, <1>4 DEF DelThen

\* A counter other than that of the failures is raised.
LEMMA RiseKeeps ==
  ASSUME LockoutAssumption, Inv, NEW r \in Req, NEW c \in Counters \ {"failures"},
         NEW ttl \in {LockoutTierTTL, DelayTierTTL}, NEW sliding \in BOOLEAN,
         NEW lost \in BOOLEAN, Incr(c, ttl, sliding, lost),
         req' \in [Req -> Request], Same(r), overlap' = overlap, Busy(r),
         req'[r].pc \in Past => req[r].pc \in Past,
         req[r].pc # "forget",
         InU(req[r]) <=> InU(req'[r]), InP(req[r]) <=> InP(req'[r]),
         InB(req[r]) <=> InB(req'[r]), InR(req[r]) <=> InR(req'[r]),
         UNCHANGED <<now, lock, served, history>>
  PROVE  Inv' /\ LockKept
<1>1. /\ now' = now /\ lock' = lock /\ served' = served /\ guesses' = guesses
      /\ blind' = blind /\ strikes' = strikes /\ unearned' = unearned /\ overlap' = overlap
  BY DEF history
<1>2. /\ Keys' /\ counter' \in [Counters -> [n : Nat, exp : Nat]]
      /\ counter'["failures"] = counter["failures"]
      /\ errors' \in 0 .. MaxErrors /\ errors' >= errors
  BY <1>1, KeysRise DEF Inv, Base, Counters
<1>3. TypeOK'
  BY <1>1, <1>2 DEF Inv, Base, TypeOK
<1>4. Base'
  BY <1>1, <1>2, <1>3, SoloGoes DEF Inv, Base
<1>5. Guessing'
  <2>1. /\ Owed' = Owed /\ Pending' = Pending /\ BlindOwed' = BlindOwed
        /\ BlindNext' = BlindNext
    BY Moves DEF Shift
  <2>2. /\ guesses \in Nat /\ blind \in Nat /\ counter["failures"].n \in Nat
        /\ LockoutThreshold \in Nat /\ CaptchaThreshold \in Nat /\ errors \in Nat
        /\ errors' \in Nat
    BY <1>3 DEF Inv, Base, TypeOK, LockoutAssumption, Counters
  <2> QED
    BY <1>1, <1>2, <2>1, <2>2, Sizes DEF Inv, Guessing, Value, Sized
<1>6. Earned'
  <2>1. errors' = 0 => errors = 0
    BY <1>2 DEF Inv, Base, TypeOK
  <2>2. errors > 0 => errors' > 0
    BY <1>2 DEF Inv, Base, TypeOK
  <2>3. (\A q \in Req : ~ At(q, "forget")') => \A q \in Req : ~ At(q, "forget")
    BY DEF At, Same
  <2>4. Backed => Backed'
    BY <1>1, <1>2 DEF Backed, Value
  <2> QED
    BY <1>1, <2>1, <2>2, <2>3, <2>4 DEF Inv, Earned, LockEarned
<1>7. Respected'
  BY <1>1 DEF Inv, Respected, Same
<1>8. LockKept
  BY <1>1 DEF LockKept, Inv, Base, TypeOK
<1> QED
  BY <1>4, <1>5, <1>6, <1>7, <1>8 DEF Inv

-----------------------------------------------------------------------------
(* The login handler.                                                      *)

LEMMA LoginKeeps ==
  ASSUME LockoutAssumption, Inv, NEW r \in Req, NEW captcha \in BOOLEAN,
         NEW reachable \in BOOLEAN, Login(r, captcha, reachable)
  PROVE  Inv' /\ LockKept
<1>1. /\ now' = now /\ lock' = lock /\ counter' = counter /\ guesses' = guesses
      /\ blind' = blind /\ strikes' = strikes /\ unearned' = unearned
      /\ errors' = errors + (IF reachable THEN 0 ELSE 1) /\ errors' <= MaxErrors
      /\ ~ CaptchaRequired \/ captcha \/ ~ reachable
  BY DEF Login
<1>2. /\ req' \in [Req -> Request] /\ Same(r) /\ req[r].pc = "idle" /\ req'[r].pc = "read"
      /\ req'[r].captcha = captcha /\ req'[r].right = FALSE
      /\ served' \in 0 .. MaxRequests
      /\ overlap' = (overlap \/ \E q \in Req : Busy(q)) /\ overlap' \in BOOLEAN
  BY Begins DEF Login, Inv, Base, Steps
<1>3. /\ errors \in Nat /\ errors' \in 0 .. MaxErrors /\ errors' >= errors
      /\ errors' = 0 => errors = 0
  BY <1>1 DEF Inv, Base, TypeOK, LockoutAssumption
<1>4. TypeOK'
  BY <1>1, <1>2, <1>3 DEF Inv, Base, TypeOK
<1>5. Base'
  BY <1>1, <1>2, <1>3, <1>4, KeysStay, SoloBegins DEF Inv, Base
<1>6. Guessing'
  <2>1. /\ Owed' = Owed /\ Pending' = Pending /\ BlindOwed' = BlindOwed
        /\ captcha => BlindNext' = BlindNext
        /\ ~ captcha => BlindNext' = BlindNext + 1
    BY <1>2, Moves DEF Shift, InU, InP, InB, InR
  <2>2. /\ guesses \in Nat /\ blind \in Nat /\ counter["failures"].n \in Nat
        /\ LockoutThreshold \in Nat /\ CaptchaThreshold \in Nat
    BY DEF Inv, Base, TypeOK, LockoutAssumption, Counters
  <2>3. /\ guesses' <= Value("failures")' + Owed' + errors'
        /\ guesses' <= LockoutThreshold - 1 + Pending' + errors'
        /\ blind' <= Value("failures")' + BlindOwed' + errors'
    BY <1>1, <1>3, <2>1, <2>2, Sizes DEF Inv, Guessing, Value, Sized
  <2>4. blind' + BlindNext' <= CaptchaThreshold - 1 + Cardinality(Req) + errors'
    <3>1. CASE captcha
      BY <1>1, <1>3, <2>1, <2>2, <3>1, Sizes DEF Inv, Guessing, Sized
    <3>2. CASE ~ captcha /\ ~ reachable
      BY <1>1, <1>3, <2>1, <2>2, <3>2, Sizes DEF Inv, Guessing, Sized
    <3>3. CASE ~ captcha /\ reachable
      <4>1. counter["failures"].n <= CaptchaThreshold - 1
        BY <1>1, <2>2, <3>3 DEF CaptchaRequired, Value
      <4>2. blind <= CaptchaThreshold - 1 + BlindOwed + errors
        BY <1>3, <2>2, <4>1, Sizes DEF Inv, Guessing, Value, Sized
      <4>3. BlindOwed' + BlindNext' <= Cardinality(Req)
        BY SizesNext DEF Sized
      <4> QED
        BY <1>1, <1>3, <2>1, <2>2, <3>3, <4>2, <4>3, Sizes DEF Sized
    <3> QED
      BY <3>1, <3>2, <3>3
  <2> QED
    BY <2>3, <2>4 DEF Guessing
<1>7. Earned'
  <2>1. (\A q \in Req : ~ At(q, "forget")') => \A q \in Req : ~ At(q, "forget")
    BY <1>2 DEF At, Same
  <2>2. Backed => Backed'
    BY <1>1 DEF Backed, Value
  <2> QED
    BY <1>1, <1>2, <1>3, <2>1, <2>2 DEF Inv, Earned, LockEarned
<1>8. Respected'
  BY <1>1, <1>2 DEF Inv, Respected, Same, Past
<1>9. LockKept
  BY <1>1 DEF LockKept, Inv, Base, TypeOK
<1> QED
  BY <1>5, <1>6, <1>7, <1>8, <1>9 DEF Inv

LEMMA ReadKeeps ==
  ASSUME LockoutAssumption, Inv, NEW r \in Req, NEW right \in BOOLEAN, LoginUserReadRow(r, right)
  PROVE  Inv' /\ LockKept
<1>1. /\ now' = now /\ lock' = lock /\ counter' = counter /\ served' = served
      /\ errors' = errors /\ strikes' = strikes /\ unearned' = unearned /\ overlap' = overlap
      /\ req[r].pc = "read"
  BY DEF LoginUserReadRow, At
\* What becomes of the request, and of the guesses.
<1>2. /\ req' \in [Req -> Request] /\ Same(r)
      /\ \/ req'[r].pc \in {"idle", "reset_failures"} /\ guesses' = guesses /\ blind' = blind
         \/ /\ req'[r].pc = "clear" /\ right /\ req'[r].right = TRUE
            /\ guesses' = guesses /\ blind' = blind
         \/ /\ req'[r].pc \in {"clear", "count"} /\ ~ right /\ req'[r].right = FALSE
            /\ req'[r].captcha = req[r].captcha
            /\ guesses' = guesses + 1
            /\ blind' = blind + (IF req[r].captcha THEN 0 ELSE 1)
      /\ req'[r].pc \in Past => lock = Unlocked \/ now > lock
      /\ req'[r].pc # "forget"
  <2>1. CASE lock # Unlocked /\ ~ LockExpired
    <3>1. Goto(r, "idle") /\ guesses' = guesses /\ blind' = blind
      BY <2>1 DEF LoginUserReadRow
    <3>2. Went(r, "idle")
      BY <3>1, Goes DEF Inv, Base, Steps
    <3> QED
      BY <3>1, <3>2 DEF Went, Past
  <2>2. CASE ~ (lock # Unlocked /\ ~ LockExpired)
    <3> DEFINE to == IF LockExpired THEN "clear" ELSE IF right THEN "reset_failures" ELSE "count"
               q == [req[r] EXCEPT !.right = right, !.pc = to]
    <3>1. /\ req' = [req EXCEPT ![r] = q]
          /\ guesses' = guesses + (IF right THEN 0 ELSE 1)
          /\ blind' = blind + (IF right \/ req[r].captcha THEN 0 ELSE 1)
      BY <2>2 DEF LoginUserReadRow
    <3>2. to \in {"clear", "reset_failures", "count"}
      OBVIOUS
    <3>3. /\ req[r] \in Request
          /\ req \in [Req -> Request] /\ guesses \in Nat /\ blind \in Nat
      BY DEF Inv, Base, TypeOK
    <3>4. to \in Steps
      BY <3>2 DEF Steps
    <3>5. /\ q \in Request /\ q.pc = to /\ q.right = right /\ q.captcha = req[r].captcha
      BY <3>3, <3>4 DEF Request
    <3>6. (to = "count" => ~ right) /\ (to = "reset_failures" => right)
      OBVIOUS
    <3>7. lock = Unlocked \/ now > lock
      BY <2>2 DEF LockExpired
    <3> HIDE DEF q, to
    <3>8. req' \in [Req -> Request] /\ Same(r) /\ req'[r] = q
      BY <3>1, <3>3, <3>5 DEF Same
    <3>9. CASE right
      <4>1. right = TRUE
        BY <3>9
      <4>2. req'[r].right = TRUE /\ req'[r].pc \in {"clear", "reset_failures"} /\ req'[r].pc = to
        BY <3>2, <3>5, <3>6, <3>8, <3>9, <4>1
      <4>3. guesses' = guesses /\ blind' = blind
        BY <3>1, <3>3, <3>9
      <4> QED
        BY <3>7, <3>8, <3>9, <4>2, <4>3 DEF Past
    <3>10. CASE ~ right
      BY <3>1, <3>2, <3>3, <3>5, <3>6, <3>7, <3>8, <3>10
    <3> QED
      BY <3>9, <3>10
  <2> QED
    BY <2>1, <2>2
<1>3. TypeOK'
  <2>1. guesses' \in Nat /\ blind' \in Nat
    BY <1>2 DEF Inv, Base, TypeOK
  <2> QED
    BY <1>1, <1>2, <2>1 DEF Inv, Base, TypeOK
<1>4. Base'
  <2>1. errors' \in Nat /\ errors' >= errors
    BY <1>1 DEF Inv, Base, TypeOK
  <2>2. Busy(r)
    BY <1>1 DEF Busy
  <2> QED
    BY <1>1, <1>2, <1>3, <2>1, <2>2, KeysStay, SoloGoes DEF Inv, Base
<1>5. Guessing'
  <2>1. /\ guesses \in Nat /\ blind \in Nat /\ counter["failures"].n \in Nat
        /\ LockoutThreshold \in Nat /\ CaptchaThreshold \in Nat /\ errors \in Nat
    BY DEF Inv, Base, TypeOK, LockoutAssumption, Counters
  <2>2. /\ ~ InU(req[r]) /\ ~ InP(req[r]) /\ ~ InB(req[r])
        /\ InR(req[r]) <=> ~ req[r].captcha
        /\ ~ InR(req'[r])
    BY <1>1, <1>2 DEF InU, InP, InB, InR
  <2>3. CASE guesses' = guesses /\ blind' = blind /\ ~ InU(req'[r]) /\ ~ InP(req'[r])
    <3>1. /\ Owed' = Owed /\ Pending' = Pending /\ BlindOwed' = BlindOwed
          /\ BlindNext' <= BlindNext
      BY <1>2, <2>2, <2>3, Moves, Sizes DEF Shift, InB, Sized
    <3> QED
      BY <1>1, <2>1, <2>3, <3>1, Sizes, SizesNext DEF Inv, Guessing, Value, Sized
  <2>4. CASE /\ req'[r].pc \in {"clear", "count"} /\ req'[r].right = FALSE
             /\ req'[r].captcha = req[r].captcha
             /\ guesses' = guesses + 1
             /\ blind' = blind + (IF req[r].captcha THEN 0 ELSE 1)
    <3>1. InU(req'[r]) /\ InP(req'[r]) /\ (InB(req'[r]) <=> ~ req[r].captcha)
      BY <2>4 DEF InU, InP, InB
    <3>2. Owed' = Owed + 1 /\ Pending' = Pending + 1
      BY <1>2, <2>2, <3>1, Moves DEF Shift
    <3>3. CASE req[r].captcha
      <4>1. BlindOwed' = BlindOwed /\ BlindNext' = BlindNext /\ blind' = blind
        BY <1>2, <2>1, <2>2, <2>4, <3>1, <3>3, Moves DEF Shift
      <4> QED
        BY <1>1, <2>1, <2>4, <3>2, <4>1, Sizes, SizesNext DEF Inv, Guessing, Value, Sized
    <3>4. CASE ~ req[r].captcha
      <4>1. BlindOwed' = BlindOwed + 1 /\ BlindNext' = BlindNext - 1 /\ blind' = blind + 1
        BY <1>2, <2>1, <2>2, <2>4, <3>1, <3>4, Moves DEF Shift
      <4> QED
        BY <1>1, <2>1, <2>4, <3>2, <4>1, Sizes, SizesNext DEF Inv, Guessing, Value, Sized
    <3> QED
      BY <3>3, <3>4
  <2> QED
    BY <1>2, <2>3, <2>4 DEF InU, InP
<1>6. Earned'
  <2>1. (\A q \in Req : ~ At(q, "forget")') => \A q \in Req : ~ At(q, "forget")
    BY <1>1, <1>2 DEF At, Same
  <2>2. Backed => Backed'
    BY <1>1 DEF Backed, Value
  <2> QED
    BY <1>1, <2>1, <2>2 DEF Inv, Earned, LockEarned
<1>7. Respected'
  BY <1>1, <1>2 DEF Inv, Respected, Same
<1>8. LockKept
  BY <1>1 DEF LockKept, Inv, Base, TypeOK
<1> QED
  BY <1>4, <1>5, <1>6, <1>7, <1>8 DEF Inv

LEMMA ClearKeeps ==
  ASSUME LockoutAssumption, Inv, NEW r \in Req, ClearLockout(r)
  PROVE  Inv' /\ LockKept
<1> DEFINE next == IF req[r].right THEN "reset_failures" ELSE "count"
<1>1. /\ req[r].pc = "clear" /\ Busy(r) /\ next \in Steps \ {"idle", "forget"}
      /\ next \in Past => ~ req[r].right
      /\ next \in {"reset_failures", "count"}
      /\ next = "count" <=> ~ req[r].right
  BY DEF ClearLockout, At, Busy, Steps, Past
<1>2. \/ /\ lock' = Unlocked /\ Goto(r, next)
         /\ UNCHANGED <<now, counter, served, errors, history>>
      \/ Fail(r, next)
  BY DEF ClearLockout
<1> HIDE DEF next
<1>3. CASE Fail(r, next)
  BY <1>1, <1>3, FailKeeps DEF Past
<1>4. ASSUME lock' = Unlocked, Goto(r, next), UNCHANGED <<now, counter, served, errors, history>>
      PROVE  Inv' /\ LockKept
  <2>1. /\ now' = now /\ counter' = counter /\ served' = served /\ errors' = errors
        /\ guesses' = guesses /\ blind' = blind /\ strikes' = strikes
        /\ unearned' = unearned /\ overlap' = overlap
    BY <1>4 DEF history
  <2>2. Went(r, next) /\ req'[r].captcha = req[r].captcha /\ req'[r].right = req[r].right
    BY <1>1, <1>4, Goes DEF Inv, Base, Went
  <2>3. TypeOK'
    BY <1>4, <2>1, <2>2 DEF Inv, Base, TypeOK, Went
  <2>4. Base'
    <3>1. errors' \in Nat /\ errors' >= errors
      BY <2>1 DEF Inv, Base, TypeOK
    <3> QED
      BY <1>1, <2>1, <2>2, <2>3, <3>1, KeysStay, SoloGoes DEF Inv, Base, Went
  <2>5. Guessing'
    <3>1. /\ InU(req[r]) <=> InU(req'[r])
          /\ InP(req[r]) <=> InP(req'[r])
          /\ InB(req[r]) <=> InB(req'[r])
          /\ InR(req[r]) <=> InR(req'[r])
      BY <1>1, <2>2 DEF Went, InU, InP, InB, InR
    <3>2. /\ Owed' = Owed /\ Pending' = Pending /\ BlindOwed' = BlindOwed
          /\ BlindNext' = BlindNext
      BY <2>2, <3>1, Moves DEF Shift, Went
    <3> QED
      BY <2>1, <3>2 DEF Inv, Guessing, Value
  <2>6. Earned'
    <3>1. (\A q \in Req : ~ At(q, "forget")') => \A q \in Req : ~ At(q, "forget")
      BY <1>1, <2>2 DEF At, Same, Went
    <3>2. Backed => Backed'
      BY <2>1 DEF Backed, Value
    <3> QED
      BY <2>1, <3>1, <3>2 DEF Inv, Earned, LockEarned
  <2>7. Respected'
    BY <1>4 DEF Respected, Unlocked
  <2>8. LockKept
    <3>1. ~ overlap => lock = Unlocked \/ now > lock
      BY <1>1 DEF Inv, Respected, Past
    <3>2. now \in Nat /\ (lock \in Nat \/ lock = Unlocked)
      BY DEF Inv, Base, TypeOK
    <3> QED
      BY <2>1, <3>1, <3>2 DEF LockKept, Unlocked
  <2> QED
    BY <2>4, <2>5, <2>6, <2>7, <2>8 DEF Inv
<1> QED
  BY <1>2, <1>3, <1>4

\* What the strikes say while the counter lives: as many of them are recent.
LEMMA Recently ==
  ASSUME LockoutAssumption, Inv, ~ overlap, errors = 0, \A q \in Req : ~ At(q, "forget")
  PROVE  Cardinality(Recent) >= Value("failures")
<1> DEFINE n == Value("failures")
           k == Len(strikes)
           last == (k - n + 1) .. k
<1>1. n \in Nat /\ k \in Nat /\ DOMAIN strikes = 1 .. k /\ "failures" \in Counters
  BY DEF Inv, Base, TypeOK, Value, Counters
<1>2. n <= k /\ \A i \in last : strikes[i] + LockoutWindow >= counter["failures"].exp
  BY DEF Inv, Earned, Backed
<1>3. counter["failures"].exp > now /\ counter["failures"].exp \in Nat /\ now \in Nat
  BY <1>1 DEF Inv, Base, Keys, TypeOK
<1>4. LockoutWindow \in Nat /\ \A i \in 1 .. k : strikes[i] \in Nat
  BY <1>1 DEF LockoutAssumption, Inv, Base, TypeOK
<1>5. last \subseteq 1 .. k
  BY <1>1, <1>2
<1>6. \A i \in last : strikes[i] + LockoutWindow > now
  BY <1>2, <1>3, <1>4, <1>5
<1>7. last \subseteq Recent
  BY <1>1, <1>5, <1>6 DEF Recent
<1>8. Recent \subseteq 1 .. k /\ IsFiniteSet(1 .. k)
  BY <1>1, FS_Interval DEF Recent
<1>9. IsFiniteSet(Recent)
  BY <1>8, FS_Subset
<1>10. Cardinality(last) = n
  <2>1. k - n + 1 \in Int /\ k \in Int
    BY <1>1
  <2>2. Cardinality(last) = IF k - n + 1 > k THEN 0 ELSE k - (k - n + 1) + 1
    BY <2>1, FS_Interval
  <2> QED
    BY <1>1, <2>2
<1> HIDE DEF last, n, k
<1>11. Cardinality(last) <= Cardinality(Recent)
  BY <1>7, <1>9, FS_Subset
<1> QED
  BY <1>10, <1>11 DEF n

LEMMA CountKeeps ==
  ASSUME LockoutAssumption, Inv, NEW r \in Req, IncrFailedLogin(r)
  PROVE  Inv' /\ LockKept
<1> DEFINE locks == ReachedThreshold(Value("failures") + 1)
           next == IF locks THEN "tier" ELSE "delay_email"
<1>1. req[r].pc = "count" /\ Busy(r) /\ "failures" \in Counters
  BY DEF IncrFailedLogin, At, Busy, Counters
<1>2. CASE Fail(r, "delay_email")
  BY <1>1, <1>2, FailKeeps DEF Past, Steps
<1>3. ASSUME NEW lost \in BOOLEAN, Incr("failures", LockoutWindow, FALSE, lost),
             strikes' = Append(strikes, now),
             unearned' = (unearned \/ (locks /\ Cardinality(Recent) + 1 < LockoutThreshold)),
             Goto(r, next), UNCHANGED <<now, lock, served, guesses, blind, overlap>>
      PROVE  Inv' /\ LockKept
  <2>1. /\ next \in {"tier", "delay_email"} /\ next \in Steps
        /\ next = "tier" <=> locks
    BY DEF Steps
  <2> HIDE DEF next
  <2>2. Went(r, next) /\ req'[r].captcha = req[r].captcha
    BY <1>3, <2>1, Goes DEF Inv, Base, Went
  <2>3. /\ Keys' /\ counter' \in [Counters -> [n : Nat, exp : Nat]]
        /\ counter'["failures"].n = Value("failures") + 1
        /\ errors' \in 0 .. MaxErrors /\ errors' >= errors
        /\ errors' = 0 => counter'["failures"].exp =
             IF Live("failures") THEN counter["failures"].exp ELSE now + LockoutWindow
    BY <1>1, <1>3, KeysRise DEF Inv, Base
  <2>4. TypeOK'
    <3>1. strikes' \in Seq(Nat) /\ unearned' \in BOOLEAN
      BY <1>3 DEF Inv, Base, TypeOK, ReachedThreshold
    <3> QED
      BY <1>3, <2>2, <2>3, <3>1 DEF Inv, Base, TypeOK, Went
  <2>5. Base'
    BY <1>1, <1>3, <2>2, <2>3, <2>4, SoloGoes DEF Inv, Base, Went
  <2>6. Guessing'
    <3>1. /\ guesses \in Nat /\ blind \in Nat /\ Value("failures") \in Nat
          /\ LockoutThreshold \in Nat /\ CaptchaThreshold \in Nat /\ errors \in Nat
          /\ errors' \in Nat
          /\ guesses' = guesses /\ blind' = blind
          /\ errors' >= errors /\ Value("failures")' = Value("failures") + 1
      BY <1>1, <1>3, <2>3, <2>4 DEF Inv, Base, TypeOK, LockoutAssumption, Value
    <3>2. /\ InU(req[r]) /\ InP(req[r]) /\ (InB(req[r]) <=> ~ req[r].captcha) /\ ~ InR(req[r])
          /\ ~ InU(req'[r]) /\ (InP(req'[r]) <=> locks) /\ ~ InB(req'[r]) /\ ~ InR(req'[r])
      BY <1>1, <2>1, <2>2 DEF Went, InU, InP, InB, InR
    <3>3. /\ Owed' = Owed - 1
          /\ locks => Pending' = Pending
          /\ BlindOwed' >= BlindOwed - 1 /\ BlindNext' = BlindNext
      BY <2>2, <3>2, Moves, Sizes, SizesNext DEF Shift, Went, Sized
    <3>4. /\ guesses' <= Value("failures")' + Owed' + errors'
          /\ blind' <= Value("failures")' + BlindOwed' + errors'
          /\ blind' + BlindNext' <= CaptchaThreshold - 1 + Cardinality(Req) + errors'
      BY <3>1, <3>3, Sizes, SizesNext DEF Inv, Guessing, Sized
    <3>5. guesses' <= LockoutThreshold - 1 + Pending' + errors'
      <4>1. CASE locks
        BY <3>1, <3>3, <4>1, Sizes, SizesNext DEF Inv, Guessing, Sized
      <4>2. CASE ~ locks
        <5>1. Value("failures") + 1 <= LockoutThreshold - 1
          BY <3>1, <4>2 DEF ReachedThreshold
        <5>2. guesses' <= Value("failures") + 1 + Owed' + errors'
          BY <3>1, <3>4
        <5> QED
          BY <3>1, <5>1, <5>2, Sizes, SizesNext DEF Sized
      <4> QED
        BY <4>1, <4>2
    <3> QED
      BY <3>4, <3>5 DEF Guessing
  <2>7. ASSUME ~ overlap, errors' = 0
        PROVE  ~ unearned' /\ Backed'
    <3>1. errors = 0 /\ ~ unearned
      BY <2>3, <2>7 DEF Inv, Base, TypeOK, Earned, LockEarned
    <3>2. \A q \in Req : ~ At(q, "forget")
      <4>1. ASSUME NEW q \in Req, At(q, "forget")
            PROVE  FALSE
        <5>1. Busy(q)
          BY <4>1 DEF At, Busy
        <5>2. q = r
          BY <1>1, <2>7, <5>1 DEF Inv, Base, Solo
        <5> QED
          BY <1>1, <4>1, <5>2 DEF At
      <4> QED
        BY <4>1
    <3>3. Cardinality(Recent) >= Value("failures") /\ Backed
      BY <2>7, <3>1, <3>2, Recently DEF Inv, Earned
    <3>4. /\ Value("failures") \in Nat /\ LockoutThreshold \in Nat /\ now \in Nat
          /\ LockoutWindow \in Nat
      BY <1>1 DEF Inv, Base, TypeOK, LockoutAssumption, Value
    <3>5. ~ unearned'
      <4>1. Cardinality(Recent) \in Nat
        <5>1. IsFiniteSet(1 .. Len(strikes))
          BY FS_Interval DEF Inv, Base, TypeOK
        <5>2. Recent \subseteq 1 .. Len(strikes)
          BY DEF Inv, Base, TypeOK, Recent
        <5> QED
          BY <5>1, <5>2, FS_Subset, FS_CardinalityType
      <4>2. locks => Value("failures") + 1 >= LockoutThreshold
        BY DEF ReachedThreshold
      <4>3. ~ (locks /\ Cardinality(Recent) + 1 < LockoutThreshold)
        BY <3>3, <3>4, <4>1, <4>2
      <4> QED
        BY <1>3, <3>1, <4>3
    <3>6. Backed'
      <4> DEFINE n == Value("failures")
                 k == Len(strikes)
      <4>1. /\ k \in Nat /\ strikes \in Seq(Nat) /\ Len(strikes') = k + 1
            /\ strikes'[k + 1] = now /\ \A i \in 1 .. k : strikes'[i] = strikes[i]
        BY <1>3, <3>4 DEF Inv, Base, TypeOK
      <4>2. /\ n <= k
            /\ \A i \in (k - n + 1) .. k : strikes[i] + LockoutWindow >= counter["failures"].exp
        BY <3>3 DEF Backed
      <4>3. Value("failures")' = n + 1 /\ n \in Nat
        BY <2>3, <3>4 DEF Value
      <4>4. /\ counter["failures"].exp \in Nat
            /\ Live("failures") => counter["failures"].exp <= now + LockoutWindow
        BY <1>1, <3>1 DEF Inv, Base, Keys, TypeOK
      <4>5. Live("failures") <=> n > 0
        BY DEF Live, Value
      <4> HIDE DEF n, k
      <4>6. ASSUME NEW i \in (k + 1 - (n + 1) + 1) .. (k + 1)
            PROVE  strikes'[i] + LockoutWindow >= counter'["failures"].exp
        <5>1. CASE i = k + 1
          BY <2>3, <2>7, <3>4, <4>1, <4>4, <5>1
        <5>2. CASE i # k + 1
          <6>1. i \in (k - n + 1) .. k /\ i \in 1 .. k /\ n > 0
            BY <4>1, <4>2, <4>3, <5>2
          <6>2. counter'["failures"].exp = counter["failures"].exp
            BY <2>3, <2>7, <4>5, <6>1
          <6>3. strikes'[i] = strikes[i] /\ strikes[i] + LockoutWindow >= counter["failures"].exp
            BY <4>1, <4>2, <6>1
          <6> QED
            BY <6>1, <6>2, <6>3
        <5> QED
          BY <5>1, <5>2
      <4> QED
        BY SMTT(30), <4>1, <4>2, <4>3, <4>6 DEF Backed
    <3> QED
      BY <3>5, <3>6
  <2>8. Earned'
    <3>1. errors' \in Nat
      BY <2>3 DEF LockoutAssumption
    <3> QED
      BY <1>3, <2>7, <3>1 DEF Earned, LockEarned
  <2>9. Respected'
    BY <1>1, <1>3, <2>2 DEF Inv, Respected, Went, Same, Past
  <2>10. LockKept
    BY <1>3 DEF LockKept, Inv, Base, TypeOK
  <2> QED
    BY <2>5, <2>6, <2>8, <2>9, <2>10 DEF Inv
<1> QED
  BY <1>2, <1>3 DEF IncrFailedLogin

LEMMA TierKeeps ==
  ASSUME LockoutAssumption, Inv, NEW r \in Req, IncrLockoutTier(r)
  PROVE  Inv' /\ LockKept
<1>1. req[r].pc = "tier" /\ Busy(r) /\ "tier" \in Counters \ {"failures"}
  BY DEF IncrLockoutTier, At, Busy, Counters
<1>2. CASE Fail(r, "delay_email")
  BY <1>1, <1>2, FailKeeps DEF Past, Steps
<1>3. ASSUME NEW lost \in BOOLEAN, Incr("tier", LockoutTierTTL, TRUE, lost),
             req' = [req EXCEPT ![r].pc = "lock", ![r].duration = LockDuration(Value("tier") + 1)],
             UNCHANGED <<now, lock, served, history>>
      PROVE  Inv' /\ LockKept
  <2> DEFINE d == LockDuration(Value("tier") + 1)
             q == [req[r] EXCEPT !.pc = "lock", !.duration = d]
  <2>1. d \in Nat
    <3>1. Value("tier") + 1 \in Nat \ {0}
      BY <1>1 DEF Inv, Base, TypeOK, Value
    <3>2. /\ LockoutDurations \in Seq(Nat) /\ Len(LockoutDurations) \in Nat \ {0}
          /\ \A i \in 1 .. Len(LockoutDurations) : LockoutDurations[i] \in Nat
      BY DEF LockoutAssumption
    <3> QED
      BY <3>1, <3>2 DEF LockDuration
  <2>2. req[r] \in Request /\ req \in [Req -> Request]
    BY DEF Inv, Base, TypeOK
  <2>3. req' = [req EXCEPT ![r] = q]
    BY <1>3
  <2> HIDE DEF d
  <2>4. q \in Request /\ q.pc = "lock" /\ q.captcha = req[r].captcha /\ q.right = req[r].right
    BY <2>1, <2>2 DEF Request, Steps
  <2> HIDE DEF q
  <2>5. /\ req' \in [Req -> Request] /\ Same(r) /\ req'[r].pc = "lock"
        /\ req'[r].captcha = req[r].captcha
    BY <2>2, <2>3, <2>4 DEF Same
  <2>6. /\ InU(req[r]) <=> InU(req'[r])
        /\ InP(req[r]) <=> InP(req'[r])
        /\ InB(req[r]) <=> InB(req'[r])
        /\ InR(req[r]) <=> InR(req'[r])
    BY <1>1, <2>5 DEF InU, InP, InB, InR
  <2>7. overlap' = overlap /\ (req'[r].pc \in Past => req[r].pc \in Past) /\ req[r].pc # "forget"
    BY <1>1, <1>3 DEF history, Past
  <2> QED
    BY <1>1, <1>3, <2>5, <2>6, <2>7, RiseKeeps
<1> QED
  BY <1>2, <1>3 DEF IncrLockoutTier

LEMMA LockKeeps ==
  ASSUME LockoutAssumption, Inv, NEW r \in Req, LockAccount(r)
  PROVE  Inv' /\ LockKept
<1>1. req[r].pc = "lock" /\ Busy(r)
  BY DEF LockAccount, At, Busy
<1>2. CASE Fail(r, "delay_email")
  BY <1>1, <1>2, FailKeeps DEF Past, Steps
<1>3. ASSUME lock' = now + req[r].duration, Goto(r, "forget"), Forgotten, strikes' = <<>>,
             UNCHANGED <<now, counter, served, errors, unearned, overlap>>
      PROVE  Inv' /\ LockKept
  <2>1. /\ now' = now /\ counter' = counter /\ served' = served /\ errors' = errors
        /\ unearned' = unearned /\ overlap' = overlap
        /\ guesses' = Owed /\ blind' = BlindOwed
    BY <1>3, Rest
  <2>2. Went(r, "forget")
    BY <1>3, Goes DEF Inv, Base, Steps
  <2>3. TypeOK'
    <3>1. lock' \in Nat /\ guesses' \in Nat /\ blind' \in Nat
      BY <1>3, <2>1, Sizes DEF Inv, Base, TypeOK, Request, Sized
    <3>2. strikes' \in Seq(Nat)
      BY <1>3
    <3> QED
      BY <2>1, <2>2, <3>1, <3>2 DEF Inv, Base, TypeOK, Went
  <2>4. Base'
    <3>1. errors' \in Nat /\ errors' >= errors
      BY <2>1 DEF Inv, Base, TypeOK
    <3> QED
      BY <1>1, <2>1, <2>2, <2>3, <3>1, KeysStay, SoloGoes DEF Inv, Base, Went
  <2>5. Guessing'
    <3>1. /\ LockoutThreshold \in Nat \ {0} /\ CaptchaThreshold \in Nat \ {0} /\ errors \in Nat
          /\ counter["failures"].n \in Nat
      BY DEF LockoutAssumption, Inv, Base, TypeOK, Counters
    <3>2. /\ ~ InU(req[r]) /\ InP(req[r]) /\ ~ InB(req[r]) /\ ~ InR(req[r])
          /\ ~ InU(req'[r]) /\ ~ InP(req'[r]) /\ ~ InB(req'[r]) /\ ~ InR(req'[r])
      BY <1>1, <2>2 DEF Went, InU, InP, InB, InR
    <3>3. Owed' = Owed /\ BlindOwed' = BlindOwed /\ BlindNext' = BlindNext
      BY <2>2, <3>2, Moves DEF Shift, Went
    <3> QED
      BY <2>1, <3>1, <3>3, Sizes, SizesNext DEF Guessing, Value, Sized
  <2>6. Earned'
    <3>1. At(r, "forget")'
      BY <2>2 DEF At, Went
    <3> QED
      BY <2>1, <3>1 DEF Inv, Earned, LockEarned
  <2>7. Respected'
    <3>1. ASSUME ~ overlap, NEW q \in Req, req'[q].pc \in Past
          PROVE  FALSE
      <4>1. q # r
        BY <2>2, <3>1 DEF Went, Past
      <4>2. Busy(q)
        BY <2>2, <3>1, <4>1 DEF Went, Same, Busy, Past
      <4> QED
        BY <1>1, <3>1, <4>1, <4>2 DEF Inv, Base, Solo
    <3> QED
      BY <2>1, <3>1 DEF Respected
  <2>8. LockKept
    <3>1. ~ overlap => lock = Unlocked \/ now > lock
      BY <1>1 DEF Inv, Respected, Past
    <3>2. now \in Nat /\ (lock \in Nat \/ lock = Unlocked)
      BY DEF Inv, Base, TypeOK
    <3> QED
      BY <2>1, <3>1, <3>2 DEF LockKept, Unlocked
  <2> QED
    BY <2>4, <2>5, <2>6, <2>7, <2>8 DEF Inv
<1> QED
  BY <1>2, <1>3 DEF LockAccount

LEMMA ForgetKeeps ==
  ASSUME LockoutAssumption, Inv, NEW r \in Req, ForgetFailures(r)
  PROVE  Inv' /\ LockKept
<1>1. "delay_email" \in Aside /\ "failures" \in Counters
  BY DEF Aside, Steps, Past, Counters
<1> QED
  BY <1>1, DelKeeps DEF ForgetFailures

\* The delay tiers of the address and of the client go up.
LEMMA DelayKeeps ==
  ASSUME LockoutAssumption, Inv, NEW r \in Req, IncrementDelayTier(r)
  PROVE  Inv' /\ LockKept
<1>1. ASSUME NEW step \in {"delay_email", "delay_ip"}, NEW next \in {"delay_ip", "idle"},
             DelayThen(r, step, next)
      PROVE  Inv' /\ LockKept
  <2>1. /\ req[r].pc = step /\ Busy(r) /\ step \in Counters \ {"failures"} /\ next \in Steps
        /\ next \notin Past /\ step # "forget"
    BY <1>1 DEF DelayThen, At, Busy, Counters, Steps, Past
  <2>2. CASE Fail(r, next)
    BY <2>1, <2>2, FailKeeps
  <2>3. ASSUME NEW lost \in BOOLEAN, Incr(step, DelayTierTTL, FALSE, lost), Goto(r, next),
               UNCHANGED <<now, lock, served, history>>
        PROVE  Inv' /\ LockKept
    <3>1. Went(r, next)
      BY <2>1, <2>3, Goes DEF Inv, Base
    <3>2. /\ InU(req[r]) <=> InU(req'[r])
          /\ InP(req[r]) <=> InP(req'[r])
          /\ InB(req[r]) <=> InB(req'[r])
          /\ InR(req[r]) <=> InR(req'[r])
      BY <1>1, <2>1, <3>1 DEF Went, InU, InP, InB, InR
    <3>3. overlap' = overlap /\ req' \in [Req -> Request] /\ Same(r) /\ req'[r].pc \notin Past
      BY <2>1, <2>3, <3>1 DEF history, Went
    <3> QED
      BY <2>1, <2>3, <3>2, <3>3, RiseKeeps
  <2> QED
    BY <1>1, <2>2, <2>3 DEF DelayThen
<1> QED
  BY <1>1 DEF IncrementDelayTier

LEMMA ResetKeeps ==
  ASSUME LockoutAssumption, Inv, NEW r \in Req, ResetBruteForceCounter(r) \/ ResetOnSuccess(r)
  PROVE  Inv' /\ LockKept
<1>1. /\ {"reset_failures", "reset_email", "reset_ip"} \subseteq Aside
      /\ {"failures", "delay_email", "delay_ip"} \subseteq Counters
  BY DEF Aside, Steps, Past, Counters
<1>2. CASE DelThen(r, "reset_failures", "failures", "reset_email")
  BY <1>1, <1>2, DelKeeps
<1>3. CASE DelThen(r, "reset_email", "delay_email", "reset_ip")
  BY <1>1, <1>3, DelKeeps
<1>4. CASE DelThen(r, "reset_ip", "delay_ip", "idle")
  BY <1>1, <1>4, DelKeeps
<1> QED
  BY <1>2, <1>3, <1>4 DEF ResetBruteForceCounter, ResetOnSuccess

-----------------------------------------------------------------------------
(* The administrator, the other accounts and the clock.                    *)

LEMMA UserUnlockKeeps ==
  ASSUME LockoutAssumption, Inv, NEW r \in Req, UserUnlock(r)
  PROVE  Inv' /\ LockKept
<1>1. /\ now' = now /\ lock' = Unlocked /\ counter' = counter /\ guesses' = guesses
      /\ blind' = blind /\ strikes' = strikes /\ unearned' = unearned /\ errors' = errors
  BY DEF UserUnlock
<1>2. /\ req' \in [Req -> Request] /\ Same(r) /\ req[r].pc = "idle"
      /\ req'[r].pc = "unlock_again" /\ served' \in 0 .. MaxRequests
      /\ overlap' = (overlap \/ \E q \in Req : Busy(q)) /\ overlap' \in BOOLEAN
  BY Begins DEF UserUnlock, Inv, Base, Steps
<1>3. errors' \in Nat /\ errors' >= errors
  BY <1>1 DEF Inv, Base, TypeOK
<1>4. TypeOK'
  BY <1>1, <1>2 DEF Inv, Base, TypeOK
<1>5. Base'
  BY <1>1, <1>2, <1>3, <1>4, KeysStay, SoloBegins DEF Inv, Base
<1>6. Guessing'
  <2>1. /\ ~ InU(req[r]) /\ ~ InP(req[r]) /\ ~ InB(req[r]) /\ ~ InR(req[r])
        /\ ~ InU(req'[r]) /\ ~ InP(req'[r]) /\ ~ InB(req'[r]) /\ ~ InR(req'[r])
    BY <1>2 DEF InU, InP, InB, InR
  <2>2. /\ Owed' = Owed /\ Pending' = Pending /\ BlindOwed' = BlindOwed
        /\ BlindNext' = BlindNext
    BY <1>2, <2>1, Moves DEF Shift
  <2> QED
    BY <1>1, <2>2 DEF Inv, Guessing, Value
<1>7. Earned'
  <2>1. (\A q \in Req : ~ At(q, "forget")') => \A q \in Req : ~ At(q, "forget")
    BY <1>2 DEF At, Same
  <2>2. Backed => Backed'
    BY <1>1 DEF Backed, Value
  <2> QED
    BY <1>1, <1>2, <2>1, <2>2 DEF Inv, Earned, LockEarned
<1>8. Respected'
  BY <1>1 DEF Respected, Unlocked
<1>9. LockKept
  BY <1>2 DEF LockKept
<1> QED
  BY <1>5, <1>6, <1>7, <1>8, <1>9 DEF Inv

LEMMA UnlockKeeps ==
  ASSUME LockoutAssumption, Inv, NEW r \in Req, UnlockAccount(r)
  PROVE  Inv' /\ LockKept
<1>1. /\ {"unlock_again", "unlock_tier", "unlock_failures", "unlock_delay"} \subseteq Aside
      /\ {"tier", "failures", "delay_email"} \subseteq Counters
  BY DEF Aside, Steps, Past, Counters
<1>2. ASSUME At(r, "unlock_again"), Fail(r, "idle")
      PROVE  Inv' /\ LockKept
  <2>1. Busy(r) /\ "idle" \in Steps \ Past
    BY <1>2 DEF At, Busy, Steps, Past
  <2> QED
    BY <1>2, <2>1, FailKeeps
<1>3. ASSUME At(r, "unlock_again"), lock' = Unlocked, Goto(r, "unlock_tier"),
             UNCHANGED <<now, counter, served, errors, history>>
      PROVE  Inv' /\ LockKept
  <2>1. /\ now' = now /\ counter' = counter /\ served' = served /\ errors' = errors
        /\ guesses' = guesses /\ blind' = blind /\ strikes' = strikes
        /\ unearned' = unearned /\ overlap' = overlap
        /\ req[r].pc = "unlock_again" /\ Busy(r)
    BY <1>3 DEF history, At, Busy
  <2>2. Went(r, "unlock_tier")
    BY <1>3, Goes DEF Inv, Base, Steps
  <2>3. TypeOK'
    BY <1>3, <2>1, <2>2 DEF Inv, Base, TypeOK, Went
  <2>4. Base'
    <3>1. errors' \in Nat /\ errors' >= errors
      BY <2>1 DEF Inv, Base, TypeOK
    <3> QED
      BY <2>1, <2>2, <2>3, <3>1, KeysStay, SoloGoes DEF Inv, Base, Went
  <2>5. Guessing'
    <3>1. /\ ~ InU(req[r]) /\ ~ InP(req[r]) /\ ~ InB(req[r]) /\ ~ InR(req[r])
          /\ ~ InU(req'[r]) /\ ~ InP(req'[r]) /\ ~ InB(req'[r]) /\ ~ InR(req'[r])
      BY <2>1, <2>2 DEF Went, InU, InP, InB, InR
    <3>2. /\ Owed' = Owed /\ Pending' = Pending /\ BlindOwed' = BlindOwed
          /\ BlindNext' = BlindNext
      BY <2>2, <3>1, Moves DEF Shift, Went
    <3> QED
      BY <2>1, <3>2 DEF Inv, Guessing, Value
  <2>6. Earned'
    <3>1. (\A q \in Req : ~ At(q, "forget")') => \A q \in Req : ~ At(q, "forget")
      BY <2>1, <2>2 DEF At, Same, Went
    <3>2. Backed => Backed'
      BY <2>1 DEF Backed, Value
    <3> QED
      BY <2>1, <3>1, <3>2 DEF Inv, Earned, LockEarned
  <2>7. Respected'
    BY <1>3 DEF Respected, Unlocked
  <2>8. LockKept
    BY <2>2 DEF LockKept, Went
  <2> QED
    BY <2>4, <2>5, <2>6, <2>7, <2>8 DEF Inv
<1>4. CASE DelThen(r, "unlock_tier", "tier", "unlock_failures")
  BY <1>1, <1>4, DelKeeps
<1>5. CASE DelThen(r, "unlock_failures", "failures", "unlock_delay")
  BY <1>1, <1>5, DelKeeps
<1>6. CASE DelThen(r, "unlock_delay", "delay_email", "idle")
  BY <1>1, <1>6, DelKeeps
<1> QED
  BY <1>2, <1>3, <1>4, <1>5, <1>6 DEF UnlockAccount

LEMMA OtherKeeps ==
  ASSUME LockoutAssumption, Inv, OtherFailure
  PROVE  Inv' /\ LockKept
<1>1. /\ now' = now /\ lock' = lock /\ req' = req /\ served' = served /\ guesses' = guesses
      /\ blind' = blind /\ strikes' = strikes /\ unearned' = unearned /\ overlap' = overlap
      /\ Incr("delay_ip", DelayTierTTL, FALSE, FALSE)
  BY DEF OtherFailure, history
<1>2. /\ Keys' /\ counter' \in [Counters -> [n : Nat, exp : Nat]]
      /\ counter'["failures"] = counter["failures"]
      /\ errors' \in 0 .. MaxErrors /\ errors' >= errors
  <2>1. "delay_ip" \in Counters /\ "failures" \in Counters \ {"delay_ip"}
    BY DEF Counters
  <2> QED
    BY <1>1, <2>1, KeysRise DEF Inv, Base
<1>3. errors' = errors
  BY <1>1 DEF Incr, Inv, Base, TypeOK
<1>4. TypeOK'
  BY <1>1, <1>2 DEF Inv, Base, TypeOK
<1>5. Base'
  BY <1>1, <1>2, <1>4 DEF Inv, Base, Solo, Busy
<1>6. Guessing'
  BY <1>1, <1>2, <1>3 DEF Inv, Guessing, Value, Owed, Pending, BlindOwed, BlindNext
<1>7. Earned'
  BY <1>1, <1>2, <1>3 DEF Inv, Earned, LockEarned, Backed, Value, At
<1>8. Respected' /\ LockKept
  BY <1>1 DEF Inv, Respected, LockKept, Base, TypeOK
<1> QED
  BY <1>5, <1>6, <1>7, <1>8 DEF Inv

\* The clock drops the keys whose time has come, and the failures with theirs.
LEMMA TickKeeps ==
  ASSUME LockoutAssumption, Inv, Tick
  PROVE  Inv' /\ LockKept
<1> DEFINE Lapsed(c) == Live(c) /\ counter[c].exp = now + 1
<1>1. /\ now' = now + 1 /\ now < MaxNow /\ lock' = lock /\ req' = req /\ served' = served
      /\ errors' = errors /\ strikes' = strikes /\ unearned' = unearned /\ overlap' = overlap
      /\ counter' = [c \in Counters |-> IF Lapsed(c) THEN Gone ELSE counter[c]]
      /\ IF Lapsed("failures") THEN Forgotten ELSE guesses' = guesses /\ blind' = blind
  BY DEF Tick
<1>2. /\ Owed' = Owed /\ Pending' = Pending /\ BlindOwed' = BlindOwed
      /\ BlindNext' = BlindNext
  BY <1>1 DEF Owed, Pending, BlindOwed, BlindNext
<1>3. now \in Nat /\ now' \in 0 .. MaxNow /\ "failures" \in Counters
  BY <1>1 DEF Inv, Base, TypeOK, LockoutAssumption, Counters
<1>4. /\ counter' \in [Counters -> [n : Nat, exp : Nat]]
      /\ \A c \in Counters : counter'[c] = IF Lapsed(c) THEN Gone ELSE counter[c]
  BY <1>1, Zero DEF Inv, Base, TypeOK
<1>5. /\ Lapsed("failures") =>
           guesses' = Owed /\ blind' = BlindOwed /\ counter'["failures"].n = 0
      /\ ~ Lapsed("failures") =>
           guesses' = guesses /\ blind' = blind /\ counter'["failures"] = counter["failures"]
  BY <1>1, <1>3, <1>4, Rest, Zero DEF Inv, Base
<1>6. TypeOK'
  <2>1. guesses' \in Nat /\ blind' \in Nat
    BY <1>5, Sizes DEF Inv, Base, TypeOK, Sized
  <2> QED
    BY <1>1, <1>3, <1>4, <2>1 DEF Inv, Base, TypeOK
<1>7. Keys'
  <2>1. Gone' = Gone /\ Never' = Never
    BY DEF Gone, Never
  <2>2. ASSUME NEW c \in Counters
        PROVE  /\ counter'[c].n > 0 \/ counter'[c] = Gone
               /\ counter'[c].exp > now'
               /\ counter'[c].n > 0 /\ counter'[c].exp = Never => errors' > 0
               /\ c = "failures" => counter'[c].exp = Never
                                    \/ counter'[c].exp <= now' + LockoutWindow
    <3>1. CASE Lapsed(c)
      BY <1>1, <1>4, <3>1, Zero, Horizon DEF Inv, Base
    <3>2. CASE ~ Lapsed(c)
      <4>1. counter'[c] = counter[c]
        BY <1>4, <3>2
      <4>2. /\ Live(c) \/ counter[c] = Gone
            /\ counter[c].exp > now
            /\ Live(c) /\ counter[c].exp = Never => errors > 0
            /\ c = "failures" => counter[c].exp = Never \/ counter[c].exp <= now + LockoutWindow
        BY DEF Inv, Base, Keys
      <4>3. counter[c].exp \in Nat
        BY DEF Inv, Base, TypeOK
      <4>4. counter[c].exp > now + 1
        <5>1. CASE Live(c)
          BY <1>3, <3>2, <4>2, <4>3, <5>1
        <5>2. CASE counter[c] = Gone
          BY <5>2, Zero, Horizon DEF Inv, Base
        <5> QED
          BY <4>2, <5>1, <5>2
      <4>5. LockoutWindow \in Nat
        BY DEF LockoutAssumption
      <4> QED
        BY <1>1, <1>3, <4>1, <4>2, <4>3, <4>4, <4>5 DEF Live, Value
    <3> QED
      BY <3>1, <3>2
  <2> QED
    BY <2>1, <2>2 DEF Keys, Live, Value
<1>8. Base'
  BY <1>1, <1>6, <1>7 DEF Inv, Base, Solo, Busy
<1>9. Guessing'
  <2>1. /\ LockoutThreshold \in Nat \ {0} /\ CaptchaThreshold \in Nat \ {0} /\ errors \in Nat
    BY DEF LockoutAssumption, Inv, Base, TypeOK
  <2>2. CASE Lapsed("failures")
    BY <1>1, <1>2, <1>5, <2>1, <2>2, Sizes DEF Guessing, Value, Sized
  <2>3. CASE ~ Lapsed("failures")
    BY <1>1, <1>2, <1>5, <2>3 DEF Inv, Guessing, Value
  <2> QED
    BY <2>2, <2>3
<1>10. Earned'
  <2>1. CASE Lapsed("failures")
    <3>1. Len(strikes) \in Nat
      BY DEF Inv, Base, TypeOK
    <3>2. Backed'
      BY <1>1, <1>5, <2>1, <3>1 DEF Backed, Value
    <3> QED
      BY <1>1, <3>2 DEF Inv, Earned, LockEarned
  <2>2. CASE ~ Lapsed("failures")
    BY <1>1, <1>5, <2>2 DEF Inv, Earned, LockEarned, Backed, Value, At
  <2> QED
    BY <2>1, <2>2
<1>11. Respected' /\ LockKept
  BY <1>1, <1>3 DEF Inv, Respected, LockKept, Base, TypeOK, Unlocked
<1> QED
  BY <1>8, <1>9, <1>10, <1>11 DEF Inv

-----------------------------------------------------------------------------
(* The theorems.                                                           *)

LEMMA InvInit ==
  ASSUME LockoutAssumption, Init
  PROVE  Inv
<1>1. /\ now = 0 /\ lock = Unlocked /\ counter = [c \in Counters |-> Gone]
      /\ req = [r \in Req |-> Idle] /\ served = 0 /\ errors = 0 /\ guesses = 0 /\ blind = 0
      /\ strikes = <<>> /\ unearned = FALSE /\ overlap = FALSE
  BY DEF Init
<1>2. /\ Never \in Nat /\ Never > 0 /\ Gone \in [n : Nat, exp : Nat] /\ Gone.n = 0
      /\ Gone.exp = Never /\ Idle \in Request /\ Idle.pc = "idle"
  BY DEF LockoutAssumption, Never, Gone, Idle, Request, Steps
<1>3. TypeOK
  <2>1. strikes \in Seq(Nat)
    BY <1>1
  <2>2. 0 \in 0 .. MaxNow /\ 0 \in 0 .. MaxRequests /\ 0 \in 0 .. MaxErrors
    BY DEF LockoutAssumption
  <2>3. counter \in [Counters -> [n : Nat, exp : Nat]] /\ req \in [Req -> Request]
    BY <1>1, <1>2
  <2> QED
    BY <1>1, <2>1, <2>2, <2>3 DEF TypeOK
<1>4. Keys
  BY <1>1, <1>2 DEF Keys, Live, Value
<1>5. Solo
  BY <1>1, <1>2 DEF Solo, Busy
<1>6. Guessing
  <2>1. /\ LockoutThreshold \in Nat \ {0} /\ CaptchaThreshold \in Nat \ {0}
        /\ counter["failures"].n = 0
    BY <1>1, <1>2 DEF LockoutAssumption, Counters
  <2>2. {r \in Req : InR(req[r])} = {}
    BY <1>1, <1>2 DEF InR
  <2>3. BlindNext = 0
    BY <2>2, FS_EmptySet DEF BlindNext
  <2> QED
    BY <1>1, <2>1, <2>3, Sizes DEF Guessing, Value, Sized
<1>7. Earned
  <2>1. counter["failures"].n = 0 /\ Len(strikes) = 0
    BY <1>1, <1>2 DEF Counters
  <2>2. Backed
    BY <1>1, <2>1 DEF Backed, Value
  <2> QED
    BY <1>1, <2>2 DEF Earned, LockEarned
<1>8. Respected
  BY <1>1 DEF Respected
<1> QED
  BY <1>3, <1>4, <1>5, <1>6, <1>7, <1>8 DEF Inv, Base

LEMMA InvStep ==
  ASSUME LockoutAssumption, Inv, [Next]_vars
  PROVE  Inv' /\ [LockKept]_vars
<1>1. CASE UNCHANGED vars
  <2>1. /\ now' = now /\ lock' = lock /\ counter' = counter /\ req' = req /\ served' = served
        /\ errors' = errors /\ guesses' = guesses /\ blind' = blind /\ strikes' = strikes
        /\ unearned' = unearned /\ overlap' = overlap
    BY <1>1 DEF vars, history
  <2>2. Base'
    BY <2>1 DEF Inv, Base, TypeOK, Keys, Live, Value, Gone, Never, Solo, Busy
  <2>3. Guessing' /\ Earned' /\ Respected'
    BY <2>1 DEF Inv, Guessing, Owed, Pending, BlindOwed, BlindNext, Earned, LockEarned, Backed,
       Value, At, Respected
  <2> QED
    BY <1>1, <2>2, <2>3 DEF Inv
<1>2. CASE Tick
  BY <1>2, TickKeeps
<1>3. CASE OtherFailure
  BY <1>3, OtherKeeps
<1>4. ASSUME NEW r \in Req, NEW captcha \in BOOLEAN, NEW reachable \in BOOLEAN,
             Login(r, captcha, reachable)
      PROVE  Inv' /\ [LockKept]_vars
  BY <1>4, LoginKeeps
<1>5. ASSUME NEW r \in Req, NEW right \in BOOLEAN, LoginUserReadRow(r, right)
      PROVE  Inv' /\ [LockKept]_vars
  BY <1>5, ReadKeeps
<1>6. ASSUME NEW r \in Req,
             \/ ClearLockout(r) \/ IncrFailedLogin(r) \/ IncrLockoutTier(r)
             \/ LockAccount(r) \/ ForgetFailures(r) \/ IncrementDelayTier(r)
             \/ ResetBruteForceCounter(r) \/ ResetOnSuccess(r)
             \/ UserUnlock(r) \/ UnlockAccount(r)
      PROVE  Inv' /\ [LockKept]_vars
  <2>1. CASE ClearLockout(r) \/ IncrFailedLogin(r) \/ IncrLockoutTier(r)
    BY <2>1, ClearKeeps, CountKeeps, TierKeeps
  <2>2. CASE LockAccount(r) \/ ForgetFailures(r) \/ IncrementDelayTier(r)
    BY <2>2, LockKeeps, ForgetKeeps, DelayKeeps
  <2>3. CASE ResetBruteForceCounter(r) \/ ResetOnSuccess(r)
    BY <2>3, ResetKeeps
  <2>4. CASE UserUnlock(r) \/ UnlockAccount(r)
    BY <2>4, UserUnlockKeeps, UnlockKeeps
  <2> QED
    BY <1>6, <2>1, <2>2, <2>3, <2>4
<1> QED
  BY <1>1, <1>2, <1>3, <1>4, <1>5, <1>6 DEF Next

\* Guessing is limited: at most LockoutThreshold - 1 wrong passwords, and one more for
\* each request being served and each command that failed, are compared before the
\* account is locked or its failures are forgotten, CaptchaThreshold - 1 and as many
\* more without a CAPTCHA; a lock stands for LockoutThreshold failures within the
\* window; and counters expire (bruteforce/service.go:131-237, user/handler.go:266-314,
\* redis.go:742, 831).
THEOREM GuessingIsLimited ==
  ASSUME LockoutAssumption
  PROVE  Spec => []GuessesLimited
<1>1. Init => Inv
  BY InvInit
<1>2. Inv /\ [Next]_vars => Inv'
  BY InvStep
<1>3. Inv => GuessesLimited
  <2> SUFFICES ASSUME Inv
               PROVE  GuessesLimited
    OBVIOUS
  <2>1. BoundedGuesses
    <3>1. /\ guesses \in Nat /\ blind \in Nat /\ errors \in Nat
          /\ LockoutThreshold \in Nat /\ CaptchaThreshold \in Nat
      BY DEF Inv, Base, TypeOK, LockoutAssumption
    <3> QED
      BY <3>1, Sizes DEF Inv, Guessing, Sized, BoundedGuesses, Slack
  <2>2. CountersExpire
    BY DEF Inv, Base, Keys, CountersExpire, Ticking
  <2> QED
    BY <2>1, <2>2 DEF Inv, Base, Earned, GuessesLimited
<1> QED
  BY <1>1, <1>2, <1>3, PTL DEF Spec

\* A lock holds until it expires or an administrator lifts it: whatever the requests do
\* on their own, only those that overlapped another lift or shorten a lock that was set
\* since they read the row (user/service.go:184, bruteforce/service.go:143, 221).
THEOREM LocksHold ==
  ASSUME LockoutAssumption
  PROVE  Spec => LockHolds
<1>1. Init => Inv
  BY InvInit
<1>2. Inv /\ [Next]_vars => Inv' /\ [LockKept]_vars
  BY InvStep
<1> QED
  BY <1>1, <1>2, PTL DEF Spec, LockHolds

-----------------------------------------------------------------------------
(* The rate limiter (RateLimit).  A store counts what it lets through from   *)
(* the moment its key or entry starts a window.                             *)

Slots == Cardinality(Req)
AtStep(step) == {r \in Req : limited[r].pc = step}

\* A request holds an entry while it is in the fallback, and no other request does.
Hold(q) ==
  IF q.pc \in {"m_locked", "m_attempts", "m_incr", "m_lock"} THEN q.entry \in Entry
  ELSE q.entry = None

LimitTypes == R!TypeOK /\ \A r \in Req : Hold(limited[r])

\* What is let through was counted first, and the requests that may yet count
\* read a number that was below the limit.
RedisCounts ==
  /\ admitted["redis"].n <= attempts.n
  /\ attempts.n + Cardinality(AtStep("incr")) < MaxAttempts + Slots

\* As long as no entry is dropped while it is used, the one in the map is the only
\* one held; what was let through it has counted, or has been let through long ago.
MemoryCounts ==
  ~ raced =>
    /\ \A r \in Req : limited[r].entry \in {None, current}
    /\ IF current = None
       THEN admitted["memory"].n = 0 \/ admitted["memory"].age > Window
       ELSE LET e == entries[current] IN
            /\ e.count + Cardinality(AtStep("m_incr")) < MaxAttempts + Slots
            /\ IF e.started
               THEN /\ admitted["memory"].n <= e.count
                    /\ e.age <= admitted["memory"].age \/ admitted["memory"].age > Window
               ELSE admitted["memory"].n = 0 \/ admitted["memory"].age > Window
    /\ admitted["memory"].n < MaxAttempts + Slots

LimitInv == LimitTypes /\ RedisCounts /\ MemoryCounts

\* An instance has its own copy of the operators on finite sets.
LEMMA SameInLimiter ==
  ASSUME NEW S
  PROVE  (R!IsFiniteSet(S) <=> IsFiniteSet(S)) /\ R!Cardinality(S) = Cardinality(S)
<1>1. R!IsFiniteSet(S) <=> IsFiniteSet(S)
  BY Zenon DEF R!IsFiniteSet, IsFiniteSet
<1>2. R!Cardinality(S) = Cardinality(S)
  BY Zenon DEF R!Cardinality, Cardinality
<1> QED
  BY <1>1, <1>2

\* What the constants are, and how many requests there may be at a step.
LEMMA LimitConstants ==
  ASSUME R!RateLimitAssumption
  PROVE  /\ IsFiniteSet(Req) /\ None \notin Entry /\ MaxAttempts \in Nat /\ MaxAttempts > 0
         /\ Window \in Nat /\ Window > 0 /\ LockoutDuration \in Nat /\ Grace \in Nat
         /\ MaxOutages \in Nat /\ Slots \in Nat /\ Slots = R!Cardinality(Req)
         /\ LockoutThreshold - 1 \in Nat
<1>1. /\ IsFiniteSet(Req) /\ None \notin Entry /\ MaxAttempts \in Nat /\ MaxAttempts > 0
      /\ Window \in Nat /\ Window > 0 /\ LockoutDuration \in Nat /\ Grace \in Nat
      /\ MaxOutages \in Nat /\ LockoutThreshold - 1 \in Nat
  BY SameInLimiter DEF R!RateLimitAssumption
<1>2. Slots \in Nat /\ Slots = R!Cardinality(Req)
  BY <1>1, SameInLimiter, FS_CardinalityType DEF Slots
<1> QED
  BY <1>1, <1>2

-----------------------------------------------------------------------------
(* What a step of the limiter does to its request.                          *)

\* No other request moves.
OneServed(r) ==
  /\ limited' \in [Req -> R!Request]
  /\ \A s \in Req \ {r} : limited'[s] = limited[s]

LEMMA LimitGoes ==
  ASSUME R!TypeOK, NEW r \in Req, NEW step \in R!Steps, R!Goto(r, step)
  PROVE  /\ OneServed(r) /\ limited'[r].pc = step
         /\ limited'[r].entry =
              IF step \in {"idle", "handler"} THEN None ELSE limited[r].entry
<1> DEFINE q == [pc |-> step, entry |-> IF step \in {"idle", "handler"} THEN None
                                        ELSE limited[r].entry]
<1>1. limited[r] \in R!Request /\ limited \in [Req -> R!Request]
  BY DEF R!TypeOK
<1>2. /\ q \in R!Request /\ q.pc = step
      /\ q.entry = IF step \in {"idle", "handler"} THEN None ELSE limited[r].entry
  BY <1>1 DEF R!Request
<1>3. limited' = [limited EXCEPT ![r] = q]
  BY DEF R!Goto
<1> HIDE DEF q
<1> QED
  BY <1>1, <1>2, <1>3 DEF OneServed

AtStepNext(step) == {r \in Req : limited'[r].pc = step}

LEMMA StepCounts ==
  ASSUME R!RateLimitAssumption, NEW step
  PROVE  /\ IsFiniteSet(AtStep(step)) /\ Cardinality(AtStep(step)) \in Nat
         /\ Cardinality(AtStep(step)) <= Slots
         /\ IsFiniteSet(AtStepNext(step)) /\ Cardinality(AtStepNext(step)) \in Nat
         /\ Cardinality(AtStepNext(step)) <= Slots
<1>1. AtStep(step) \subseteq Req /\ AtStepNext(step) \subseteq Req
  BY DEF AtStep, AtStepNext
<1> QED
  BY <1>1, LimitConstants, FS_Subset, FS_CardinalityType DEF Slots

\* A request that is not at a step afterwards does not add to those that are; one
\* that leaves it takes itself away.
LEMMA StepLeft ==
  ASSUME R!RateLimitAssumption, NEW r \in Req, OneServed(r), NEW step,
         limited'[r].pc # step
  PROVE  /\ Cardinality(AtStepNext(step)) <= Cardinality(AtStep(step))
         /\ limited[r].pc = step =>
              Cardinality(AtStepNext(step)) + 1 <= Cardinality(AtStep(step))
<1>1. AtStepNext(step) = AtStep(step) \ {r}
  BY DEF AtStep, AtStepNext, OneServed
<1>2. IsFiniteSet(AtStep(step)) /\ Cardinality(AtStep(step)) \in Nat
  BY StepCounts
<1>3. Cardinality(AtStep(step) \ {r}) =
        IF r \in AtStep(step) THEN Cardinality(AtStep(step)) - 1
        ELSE Cardinality(AtStep(step))
  BY <1>2, FS_RemoveElement
<1> QED
  BY <1>1, <1>2, <1>3 DEF AtStep

-----------------------------------------------------------------------------
(* How the parts of the invariant move, or stay.                            *)

LEMMA LimitTypesMove ==
  ASSUME LimitTypes, NEW r \in Req, OneServed(r), Hold(limited'[r]),
         attempts' \in [n : Nat, ttl : -1..Window], lockout' \in 0..LockoutDuration,
         entries' \in [Entry -> [count : Nat, age : Nat, started : BOOLEAN,
                                 locked : 0..LockoutDuration]],
         current' \in Entry \cup {None}, up' \in BOOLEAN, outages' \in 0..MaxOutages,
         raced' \in BOOLEAN, sweeping' = sweeping,
         admitted' \in [R!Stores -> [n : Nat, age : 0..(Window + 1)]]
  PROVE  LimitTypes'
<1>1. R!TypeOK'
  BY DEF LimitTypes, R!TypeOK, OneServed
<1>2. \A s \in Req : Hold(limited'[s])
  BY DEF LimitTypes, OneServed
<1>3. (\A s \in Req : Hold(limited[s]))'
  BY <1>2
<1> QED
  BY <1>1, <1>3 DEF LimitTypes

LEMMA LimitHas ==
  ASSUME LimitTypes
  PROVE  /\ R!TypeOK /\ \A r \in Req : Hold(limited[r])
         /\ attempts \in [n : Nat, ttl : -1..Window] /\ lockout \in 0..LockoutDuration
         /\ entries \in [Entry -> [count : Nat, age : Nat, started : BOOLEAN,
                                   locked : 0..LockoutDuration]]
         /\ current \in Entry \cup {None} /\ up \in BOOLEAN /\ outages \in 0..MaxOutages
         /\ raced \in BOOLEAN
         /\ admitted \in [R!Stores -> [n : Nat, age : 0..(Window + 1)]]
         /\ admitted["redis"] \in [n : Nat, age : 0..(Window + 1)]
         /\ admitted["memory"] \in [n : Nat, age : 0..(Window + 1)]
<1>1. /\ R!TypeOK /\ \A r \in Req : Hold(limited[r])
  BY DEF LimitTypes
<1>2. /\ attempts \in [n : Nat, ttl : -1..Window] /\ lockout \in 0..LockoutDuration
      /\ entries \in [Entry -> [count : Nat, age : Nat, started : BOOLEAN,
                                locked : 0..LockoutDuration]]
      /\ current \in Entry \cup {None} /\ up \in BOOLEAN /\ outages \in 0..MaxOutages
      /\ raced \in BOOLEAN
      /\ admitted \in [R!Stores -> [n : Nat, age : 0..(Window + 1)]]
  BY <1>1, Zenon DEF R!TypeOK
<1>3. \A s \in {"redis", "memory"} : admitted[s] \in [n : Nat, age : 0..(Window + 1)]
  BY <1>2 DEF R!Stores
<1> QED
  BY <1>1, <1>2, <1>3

LEMMA RedisStays ==
  ASSUME R!RateLimitAssumption, LimitTypes, RedisCounts, NEW r \in Req, OneServed(r),
         attempts' = attempts, admitted'["redis"] = admitted["redis"],
         limited'[r].pc # "incr"
  PROVE  RedisCounts'
<1>1. Cardinality(AtStepNext("incr")) <= Cardinality(AtStep("incr"))
  BY StepLeft
<1>2. /\ Cardinality(AtStep("incr")) \in Nat /\ Cardinality(AtStepNext("incr")) \in Nat
      /\ attempts.n \in Nat /\ MaxAttempts \in Nat /\ Slots \in Nat
  BY StepCounts, LimitHas, LimitConstants
<1>3. attempts.n + Cardinality(AtStepNext("incr")) < MaxAttempts + Slots
  BY <1>1, <1>2 DEF RedisCounts
<1>4. admitted'["redis"].n <= attempts'.n
  BY DEF RedisCounts
<1> QED
  BY <1>3, <1>4 DEF RedisCounts, AtStepNext, AtStep, Slots

LEMMA MemoryStays ==
  ASSUME R!RateLimitAssumption, LimitTypes, MemoryCounts, NEW r \in Req, OneServed(r),
         entries' = entries, current' = current, raced' = raced,
         admitted'["memory"] = admitted["memory"],
         limited'[r].pc # "m_incr", limited'[r].entry \in {None, limited[r].entry}
  PROVE  MemoryCounts'
<1> SUFFICES ASSUME ~ raced
             PROVE  MemoryCounts'
  BY DEF MemoryCounts
<1>1. Cardinality(AtStepNext("m_incr")) <= Cardinality(AtStep("m_incr"))
  BY StepLeft
<1>2. /\ Cardinality(AtStep("m_incr")) \in Nat /\ Cardinality(AtStepNext("m_incr")) \in Nat
      /\ MaxAttempts \in Nat /\ Slots \in Nat
  BY StepCounts, LimitConstants
<1>3. \A s \in Req : limited'[s].entry \in {None, current}
  BY DEF MemoryCounts, OneServed
<1>4. ASSUME current # None
      PROVE  entries[current].count + Cardinality(AtStepNext("m_incr")) < MaxAttempts + Slots
  <2>1. entries[current].count \in Nat
    BY <1>4, LimitHas
  <2>2. entries[current].count + Cardinality(AtStep("m_incr")) < MaxAttempts + Slots
    BY <1>4 DEF MemoryCounts
  <2> QED
    BY <1>1, <1>2, <2>1, <2>2
<1> QED
  BY <1>3, <1>4 DEF MemoryCounts, AtStepNext, AtStep, Slots

\* A step that counts nothing.
LEMMA LimitAside ==
  ASSUME LimitInv, R!RateLimitAssumption, NEW r \in Req, OneServed(r), Hold(limited'[r]),
         limited'[r].pc \notin {"incr", "m_incr"},
         limited'[r].entry \in {None, limited[r].entry},
         attempts' = attempts, entries' = entries, current' = current,
         admitted' = admitted, raced' = raced, sweeping' = sweeping,
         lockout' \in 0..LockoutDuration, up' = up, outages' = outages
  PROVE  LimitInv'
<1>1. LimitTypes /\ RedisCounts /\ MemoryCounts
  BY DEF LimitInv
<1>2. LimitTypes'
  BY <1>1, LimitHas, LimitTypesMove
<1>3. RedisCounts'
  BY <1>1, RedisStays
<1>4. MemoryCounts'
  BY <1>1, MemoryStays
<1> QED
  BY <1>2, <1>3, <1>4 DEF LimitInv

LEMMA LimitFallsBack ==
  ASSUME LimitInv, R!RateLimitAssumption, NEW r \in Req, R!FallBack(r),
         limited[r].pc \in {"idle", "attempts", "incr"}, raced' = raced, sweeping' = sweeping
  PROVE  LimitInv'
<1>1. /\ R!Goto(r, "m_entry") /\ attempts' = attempts /\ lockout' = lockout
      /\ entries' = entries /\ current' = current /\ up' = up /\ outages' = outages
      /\ admitted' = admitted
  BY DEF R!FallBack
<1>2. LimitTypes /\ R!TypeOK /\ lockout \in 0..LockoutDuration /\ Hold(limited[r])
  BY LimitHas DEF LimitInv
<1>3. /\ OneServed(r) /\ limited'[r].pc = "m_entry" /\ limited'[r].entry = limited[r].entry
  BY <1>1, <1>2, LimitGoes DEF R!Steps
<1>4. Hold(limited'[r])
  BY <1>2, <1>3 DEF Hold
<1> QED
  BY <1>1, <1>2, <1>3, <1>4, LimitAside

LEMMA LimitPasses ==
  ASSUME LimitInv, R!RateLimitAssumption, NEW r \in Req, raced' = raced, sweeping' = sweeping,
         \/ R!CheckLockout(r) \/ R!SetLockout(r) \/ R!Handler(r) \/ R!MemIsLocked(r)
  PROVE  LimitInv'
<1>1. LimitTypes /\ R!TypeOK /\ lockout \in 0..LockoutDuration /\ Hold(limited[r])
  BY LimitHas DEF LimitInv
<1>2. CASE R!FallBack(r) /\ R!CheckLockout(r)
  <2>1. limited[r].pc = "idle"
    BY <1>2 DEF R!CheckLockout, R!At
  <2> QED
    BY <1>2, <2>1, LimitFallsBack
<1>3. CASE ~ (R!FallBack(r) /\ R!CheckLockout(r))
  <2>1. /\ attempts' = attempts /\ entries' = entries /\ current' = current
        /\ up' = up /\ outages' = outages /\ admitted' = admitted
        /\ lockout' \in {lockout, LockoutDuration}
    BY <1>3 DEF R!CheckLockout, R!SetLockout, R!Handler, R!MemIsLocked
  <2>2. PICK step \in {"attempts", "idle", "clear_redis", "m_attempts"} :
          /\ R!Goto(r, step)
          /\ IF step = "m_attempts" THEN limited[r].pc = "m_locked"
             ELSE \/ limited[r].pc \in {"idle", "lock", "handler"}
                  \/ step = "idle"
    BY <1>3, Zenon DEF R!CheckLockout, R!SetLockout, R!Handler, R!MemIsLocked, R!At
  <2>3. /\ OneServed(r) /\ limited'[r].pc = step
        /\ limited'[r].entry =
             IF step \in {"idle", "handler"} THEN None ELSE limited[r].entry
    BY <1>1, <2>2, LimitGoes DEF R!Steps
  <2>4. Hold(limited'[r])
    BY <1>1, <2>2, <2>3 DEF Hold
  <2>5. lockout' \in 0..LockoutDuration
    BY <1>1, <2>1, LimitConstants
  <2> QED
    BY <2>1, <2>3, <2>4, <2>5, LimitAside
<1> QED
  BY <1>2, <1>3

LEMMA LimitChecks ==
  ASSUME LimitInv, R!RateLimitAssumption, NEW r \in Req, raced' = raced, sweeping' = sweeping,
         R!CheckAttempts(r)
  PROVE  LimitInv'
<1>1. /\ LimitTypes /\ R!TypeOK /\ lockout \in 0..LockoutDuration /\ Hold(limited[r])
      /\ RedisCounts /\ MemoryCounts
  BY LimitHas DEF LimitInv
<1>2. limited[r].pc = "attempts"
  BY DEF R!CheckAttempts, R!At
<1>3. CASE R!FallBack(r)
  BY <1>2, <1>3, LimitFallsBack
<1>4. CASE ~ R!FallBack(r)
  <2>1. /\ attempts' = attempts /\ entries' = entries /\ current' = current
        /\ up' = up /\ outages' = outages /\ admitted' = admitted /\ lockout' = lockout
        /\ R!Goto(r, IF R!Exhausted(attempts.n) THEN "idle" ELSE "incr")
    BY <1>4 DEF R!CheckAttempts
  <2>2. CASE R!Exhausted(attempts.n)
    <3>1. OneServed(r) /\ limited'[r].pc = "idle" /\ limited'[r].entry = None
      BY <1>1, <2>1, <2>2, LimitGoes DEF R!Steps
    <3>2. Hold(limited'[r])
      BY <3>1 DEF Hold
    <3> QED
      BY <1>1, <2>1, <3>1, <3>2, LimitAside
  <2>3. CASE ~ R!Exhausted(attempts.n)
    <3>1. /\ OneServed(r) /\ limited'[r].pc = "incr"
          /\ limited'[r].entry = limited[r].entry
      BY <1>1, <2>1, <2>3, LimitGoes DEF R!Steps
    <3>2. Hold(limited'[r])
      BY <1>1, <1>2, <3>1 DEF Hold
    <3>3. LimitTypes'
      BY <1>1, <2>1, <3>1, <3>2, LimitHas, LimitTypesMove
    <3>4. RedisCounts'
      <4>1. attempts.n < MaxAttempts /\ attempts.n \in Nat
        BY <1>1, <2>3, LimitHas, LimitConstants DEF R!Exhausted
      <4>2. attempts.n + Cardinality(AtStepNext("incr")) < MaxAttempts + Slots
        BY <4>1, StepCounts, LimitConstants
      <4> QED
        BY <1>1, <2>1, <4>2 DEF RedisCounts, AtStepNext, AtStep, Slots
    <3>5. MemoryCounts'
      BY <1>1, <2>1, <3>1, MemoryStays
    <3> QED
      BY <3>3, <3>4, <3>5 DEF LimitInv
  <2> QED
    BY <2>2, <2>3
<1> QED
  BY <1>3, <1>4

\* A request that is let through adds one to what its store admits, or leaves it.
LEMMA Admits ==
  ASSUME R!RateLimitAssumption, NEW n \in Nat
  PROVE  R!OneMore(n) \in Nat /\ n <= R!OneMore(n) /\ R!OneMore(n) <= n + 1
  BY DEF R!OneMore

LEMMA LimitIncrements ==
  ASSUME LimitInv, R!RateLimitAssumption, NEW r \in Req, raced' = raced, sweeping' = sweeping,
         R!IncrAttempts(r)
  PROVE  LimitInv'
<1>1. /\ LimitTypes /\ R!TypeOK /\ Hold(limited[r]) /\ RedisCounts /\ MemoryCounts
      /\ lockout \in 0..LockoutDuration /\ up \in BOOLEAN /\ outages \in 0..MaxOutages
      /\ attempts \in [n : Nat, ttl : -1..Window]
      /\ admitted \in [R!Stores -> [n : Nat, age : 0..(Window + 1)]]
      /\ admitted["redis"] \in [n : Nat, age : 0..(Window + 1)]
  BY LimitHas DEF LimitInv
<1>2. limited[r].pc = "incr"
  BY DEF R!IncrAttempts, R!At
<1>3. CASE R!FallBack(r)
  BY <1>2, <1>3, LimitFallsBack
<1>4. CASE ~ R!FallBack(r)
  <2>1. /\ entries' = entries /\ current' = current /\ lockout' = lockout
        /\ \/ attempts' = [n |-> attempts.n + 1, ttl |-> R!TTLAfterIncr(attempts.n + 1)]
           \/ attempts' = [n |-> attempts.n + 1, ttl |-> R!NoTTL]
        /\ admitted' = admitted
           \/ admitted' = [admitted EXCEPT !["redis"].n = R!OneMore(@)]
        /\ (up' = up /\ outages' = outages) \/ R!Outage
    BY <1>4 DEF R!IncrAttempts, R!Admit
  <2>2. PICK step \in {"lock", "handler", "idle"} : R!Goto(r, step)
    BY <1>4, Zenon DEF R!IncrAttempts
  <2>3. /\ OneServed(r) /\ limited'[r].pc = step
        /\ limited'[r].entry = IF step \in {"idle", "handler"} THEN None ELSE limited[r].entry
    BY <1>1, <2>2, LimitGoes DEF R!Steps
  <2>4. Hold(limited'[r])
    BY <1>1, <1>2, <2>3 DEF Hold
  <2>5. attempts' \in [n : Nat, ttl : -1..Window] /\ attempts'.n = attempts.n + 1
    BY <1>1, <2>1, LimitConstants DEF R!TTLAfterIncr, R!NoTTL
  <2>6. /\ admitted' \in [R!Stores -> [n : Nat, age : 0..(Window + 1)]]
        /\ admitted'["memory"] = admitted["memory"]
        /\ admitted'["redis"].n <= admitted["redis"].n + 1
    <3>1. CASE admitted' = admitted
      BY <1>1, <3>1
    <3>2. CASE admitted' = [admitted EXCEPT !["redis"].n = R!OneMore(@)]
      <4>1. admitted' = [admitted EXCEPT !["redis"].n = R!OneMore(admitted["redis"].n)]
        BY <3>2
      <4>2. /\ R!OneMore(admitted["redis"].n) \in Nat
            /\ R!OneMore(admitted["redis"].n) <= admitted["redis"].n + 1
        BY <1>1, Admits
      <4> QED
        BY <1>1, <4>1, <4>2 DEF R!Stores
    <3> QED
      BY <2>1, <3>1, <3>2
  <2>7. up' \in BOOLEAN /\ outages' \in 0..MaxOutages
    <3>1. CASE up' = up /\ outages' = outages
      BY <1>1, <3>1
    <3>2. CASE R!Outage
      BY <1>1, <3>2, LimitConstants DEF R!Outage
    <3> QED
      BY <2>1, <3>1, <3>2
  <2>8. LimitTypes'
    BY <1>1, <2>1, <2>3, <2>4, <2>5, <2>6, <2>7, LimitHas, LimitTypesMove
  <2>9. RedisCounts'
    <3>1. Cardinality(AtStepNext("incr")) + 1 <= Cardinality(AtStep("incr"))
      BY <1>2, <2>3, StepLeft
    <3>2. attempts'.n + Cardinality(AtStepNext("incr")) < MaxAttempts + Slots
      <4>1. attempts.n + Cardinality(AtStep("incr")) < MaxAttempts + Slots
        BY <1>1 DEF RedisCounts
      <4> QED
        BY <1>1, <2>5, <3>1, <4>1, StepCounts, LimitConstants
    <3>3. admitted'["redis"].n <= attempts'.n
      <4>1. admitted["redis"].n <= attempts.n
        BY <1>1 DEF RedisCounts
      <4>2. admitted'["redis"].n \in Nat /\ admitted["redis"].n \in Nat /\ attempts.n \in Nat
        BY <1>1, <2>6 DEF R!Stores
      <4> QED
        BY <2>5, <2>6, <4>1, <4>2
    <3> QED
      BY <3>2, <3>3 DEF RedisCounts, AtStepNext, AtStep, Slots
  <2>10. MemoryCounts'
    BY <1>1, <2>1, <2>3, <2>6, MemoryStays
  <2> QED
    BY <2>8, <2>9, <2>10 DEF LimitInv
<1> QED
  BY <1>3, <1>4

LEMMA LimitClearsRedis ==
  ASSUME LimitInv, R!RateLimitAssumption, NEW r \in Req, raced' = raced, sweeping' = sweeping,
         R!ClearRateLimitKeys(r)
  PROVE  LimitInv'
<1>1. /\ LimitTypes /\ R!TypeOK /\ Hold(limited[r]) /\ RedisCounts /\ MemoryCounts
      /\ lockout \in 0..LockoutDuration /\ up \in BOOLEAN /\ outages \in 0..MaxOutages
      /\ admitted \in [R!Stores -> [n : Nat, age : 0..(Window + 1)]]
  BY LimitHas DEF LimitInv
<1>2. /\ limited[r].pc = "clear_redis" /\ R!Goto(r, "clear_memory")
      /\ entries' = entries /\ current' = current /\ up' = up /\ outages' = outages
  BY DEF R!ClearRateLimitKeys, R!At
<1>3. /\ OneServed(r) /\ limited'[r].pc = "clear_memory"
      /\ limited'[r].entry = limited[r].entry
  BY <1>1, <1>2, LimitGoes DEF R!Steps
<1>4. Hold(limited'[r])
  BY <1>1, <1>2, <1>3 DEF Hold
<1>5. CASE ~ up
  <2>1. attempts' = attempts /\ lockout' = lockout /\ admitted' = admitted
    BY <1>5 DEF R!ClearRateLimitKeys
  <2> QED
    BY <1>1, <1>2, <1>3, <1>4, <2>1, LimitAside
<1>6. CASE up
  <2>1. /\ attempts' = [n |-> 0, ttl |-> 0] /\ lockout' = 0
        /\ admitted' = [admitted EXCEPT !["redis"].n = 0]
    BY <1>6 DEF R!ClearRateLimitKeys, R!NoKey
  <2>2. /\ admitted' \in [R!Stores -> [n : Nat, age : 0..(Window + 1)]]
        /\ admitted'["memory"] = admitted["memory"] /\ admitted'["redis"].n = 0
    BY <1>1, <2>1 DEF R!Stores
  <2>3. attempts' \in [n : Nat, ttl : -1..Window] /\ attempts'.n = 0
        /\ lockout' \in 0..LockoutDuration
    BY <2>1, LimitConstants
  <2>4. LimitTypes'
    BY <1>1, <1>2, <1>3, <1>4, <2>2, <2>3, LimitHas, LimitTypesMove
  <2>5. RedisCounts'
    <3>1. attempts'.n + Cardinality(AtStepNext("incr")) < MaxAttempts + Slots
      BY <2>3, StepCounts, LimitConstants
    <3> QED
      BY <2>2, <2>3, <3>1 DEF RedisCounts, AtStepNext, AtStep, Slots
  <2>6. MemoryCounts'
    BY <1>1, <1>2, <1>3, <2>2, MemoryStays
  <2> QED
    BY <2>4, <2>5, <2>6 DEF LimitInv
<1> QED
  BY <1>1, <1>5, <1>6

-----------------------------------------------------------------------------
(* The fallback.                                                            *)

EntryTyped(e) ==
  e \in [count : Nat, age : Nat, started : BOOLEAN, locked : 0..LockoutDuration]

\* An entry whose window is over starts another, and the admissions of a window that
\* is over are forgotten: what is counted in it was let through it.
LEMMA WindowStarts ==
  ASSUME R!RateLimitAssumption, LimitTypes, NEW e, EntryTyped(e)
  PROVE  /\ EntryTyped(R!Restarted(e)) /\ R!Restarted(e).started
         /\ R!Restarted(e).count \in {0, e.count}
         /\ R!Counted(R!WindowOver(e)) \in [n : Nat, age : 0..(Window + 1)]
         /\ ~ raced /\ (IF e.started
                        THEN /\ admitted["memory"].n <= e.count
                             /\ e.age <= admitted["memory"].age \/ admitted["memory"].age > Window
                        ELSE admitted["memory"].n = 0 \/ admitted["memory"].age > Window)
              => /\ R!Counted(R!WindowOver(e)).n <= R!Restarted(e).count
                 /\ \/ R!Restarted(e).age <= R!Counted(R!WindowOver(e)).age
                    \/ R!Counted(R!WindowOver(e)).age > Window
<1> DEFINE a == admitted["memory"]
           d == R!Restarted(e)
           c == R!Counted(R!WindowOver(e))
<1>1. /\ a \in [n : Nat, age : 0..(Window + 1)] /\ Window \in Nat
      /\ a.n \in Nat /\ a.age \in Nat
  BY LimitHas, LimitConstants
<1>2. /\ e.count \in Nat /\ e.age \in Nat /\ e.started \in BOOLEAN
  BY DEF EntryTyped
<1>3. CASE R!WindowOver(e)
  <2>1. d = [e EXCEPT !.count = 0, !.age = 0, !.started = TRUE]
    BY <1>3 DEF R!Restarted
  <2>2. EntryTyped(d) /\ d.started /\ d.count = 0 /\ d.age = 0
    <3> DEFINE x == [e EXCEPT !.count = 0, !.age = 0, !.started = TRUE]
    <3>1. EntryTyped(x) /\ x.started /\ x.count = 0 /\ x.age = 0
      BY DEF EntryTyped
    <3> QED
      BY <2>1, <3>1
  <2>3. c = IF raced \/ a.age > Window THEN [n |-> 0, age |-> 0] ELSE a
    BY <1>3 DEF R!Counted, R!NewCount
  <2>4. c \in [n : Nat, age : 0..(Window + 1)] /\ c.age >= 0
    BY <1>1, <2>3
  <2>5. ASSUME ~ raced, a.age <= Window,
               IF e.started THEN /\ a.n <= e.count
                                 /\ e.age <= a.age \/ a.age > Window
               ELSE a.n = 0 \/ a.age > Window
        PROVE  c.n = 0
    <3>1. ~ e.started \/ e.age > Window
      BY <1>3 DEF R!WindowOver
    <3> QED
      BY <1>1, <1>2, <2>3, <2>5, <3>1
  <2>6. raced \/ a.age > Window => c.n = 0
    BY <2>3
  <2> HIDE DEF a, d, c
  <2>7. (~ raced /\ IF e.started THEN /\ a.n <= e.count
                                      /\ e.age <= a.age \/ a.age > Window
                    ELSE a.n = 0 \/ a.age > Window)
          => c.n <= d.count /\ (d.age <= c.age \/ c.age > Window)
    BY <1>1, <2>2, <2>4, <2>5, <2>6
  <2> QED
    BY <2>2, <2>4, <2>7 DEF a, d, c
<1>4. CASE ~ R!WindowOver(e)
  <2>1. d = e /\ e.started
    BY <1>2, <1>4 DEF R!Restarted, R!WindowOver
  <2>2. c = IF raced THEN [n |-> 0, age |-> 0] ELSE a
    BY <1>4 DEF R!Counted, R!NewCount
  <2>3. c \in [n : Nat, age : 0..(Window + 1)]
    BY <1>1, <2>2
  <2> HIDE DEF a, d, c
  <2>4. (~ raced /\ IF e.started THEN /\ a.n <= e.count
                                      /\ e.age <= a.age \/ a.age > Window
                    ELSE a.n = 0 \/ a.age > Window)
          => c.n <= d.count /\ (d.age <= c.age \/ c.age > Window)
    BY <2>1, <2>2
  <2> QED
    BY <2>1, <2>3, <2>4 DEF a, d, c
<1> QED
  BY <1>3, <1>4

\* The entry a request holds, and while none is dropped in use, the one of the map.
LEMMA HoldsEntry ==
  ASSUME LimitInv, NEW r \in Req,
         limited[r].pc \in {"m_locked", "m_attempts", "m_incr", "m_lock"},
         R!RateLimitAssumption
  PROVE  /\ limited[r].entry \in Entry /\ EntryTyped(entries[limited[r].entry])
         /\ limited[r].entry # None
         /\ ~ raced => limited[r].entry = current
<1>1. limited[r].entry \in Entry
  BY LimitHas DEF LimitInv, Hold
<1>2. EntryTyped(entries[limited[r].entry])
  BY <1>1, LimitHas DEF LimitInv, EntryTyped
<1>3. limited[r].entry # None
  BY <1>1, LimitConstants
<1>4. ~ raced => limited[r].entry = current
  BY <1>3 DEF LimitInv, MemoryCounts
<1> QED
  BY <1>1, <1>2, <1>3, <1>4

LEMMA LimitFinds ==
  ASSUME LimitInv, R!RateLimitAssumption, NEW r \in Req, raced' = raced, sweeping' = sweeping,
         R!GetOrCreate(r)
  PROVE  LimitInv'
<1>1. /\ LimitTypes /\ R!TypeOK /\ Hold(limited[r]) /\ RedisCounts /\ MemoryCounts
      /\ entries \in [Entry -> [count : Nat, age : Nat, started : BOOLEAN,
                                locked : 0..LockoutDuration]]
      /\ limited \in [Req -> R!Request] /\ current \in Entry \cup {None}
  BY LimitHas DEF LimitInv, R!TypeOK
<1>2. PICK e \in Entry :
        /\ e \in (IF current # None THEN {current} ELSE Entry \ R!Held)
        /\ current' = e
        /\ entries' = IF current # None THEN entries ELSE [entries EXCEPT ![e] = R!Fresh]
        /\ limited' = [limited EXCEPT ![r] = [pc |-> "m_locked", entry |-> e]]
  BY <1>1 DEF R!GetOrCreate
<1>3. /\ limited[r].pc = "m_entry" /\ attempts' = attempts /\ lockout' = lockout
      /\ up' = up /\ outages' = outages /\ admitted' = admitted
  BY DEF R!GetOrCreate, R!At
<1>4. /\ OneServed(r) /\ limited'[r].pc = "m_locked" /\ limited'[r].entry = e
      /\ Hold(limited'[r])
  BY <1>1, <1>2 DEF OneServed, R!Request, R!Steps, Hold
<1>5. entries' \in [Entry -> [count : Nat, age : Nat, started : BOOLEAN,
                              locked : 0..LockoutDuration]]
  <2>1. R!Fresh \in [count : Nat, age : Nat, started : BOOLEAN, locked : 0..LockoutDuration]
    BY LimitConstants DEF R!Fresh
  <2> QED
    BY <1>1, <1>2, <2>1
<1>6. LimitTypes'
  BY <1>1, <1>2, <1>3, <1>4, <1>5, LimitHas, LimitTypesMove
<1>7. RedisCounts'
  BY <1>1, <1>3, <1>4, RedisStays
<1>8. MemoryCounts'
  <2> SUFFICES ASSUME ~ raced
               PROVE  MemoryCounts'
    BY DEF MemoryCounts
  <2>1. \A s \in Req : limited'[s].entry \in {None, current'}
    BY <1>1, <1>2, <1>4 DEF MemoryCounts, OneServed
  <2>2. CASE current # None
    <3>1. current' = current /\ entries' = entries
      BY <1>2, <2>2
    <3>2. Cardinality(AtStepNext("m_incr")) <= Cardinality(AtStep("m_incr"))
      BY <1>4, StepLeft
    <3>3. /\ entries[current].count \in Nat
          /\ entries[current].count + Cardinality(AtStep("m_incr")) < MaxAttempts + Slots
      BY <1>1, <2>2 DEF MemoryCounts
    <3>4. entries[current].count + Cardinality(AtStepNext("m_incr")) < MaxAttempts + Slots
      BY <3>2, <3>3, StepCounts, LimitConstants
    <3> QED
      BY <1>1, <1>3, <2>1, <2>2, <3>1, <3>4 DEF MemoryCounts, AtStepNext, AtStep, Slots
  <2>3. CASE current = None
    <3>1. entries'[e].count = 0 /\ ~ entries'[e].started /\ current' = e /\ e # None
      BY <1>1, <1>2, <2>3, LimitConstants DEF R!Fresh
    <3>2. 0 + Cardinality(AtStepNext("m_incr")) < MaxAttempts + Slots
      BY StepCounts, LimitConstants
    <3> QED
      BY <1>1, <1>3, <2>1, <2>3, <3>1, <3>2 DEF MemoryCounts, AtStepNext, AtStep, Slots
  <2> QED
    BY <2>2, <2>3
<1> QED
  BY <1>6, <1>7, <1>8 DEF LimitInv

\* The entry in the map goes on to d, and what was let through to c.
LEMMA EntryMoves ==
  ASSUME LimitInv, R!RateLimitAssumption, NEW r \in Req, OneServed(r),
         limited[r].pc \in {"m_attempts", "m_incr"}, NEW d, EntryTyped(d),
         entries' = [entries EXCEPT ![limited[r].entry] = d], current' = current,
         raced' = raced, NEW c \in [n : Nat, age : 0..(Window + 1)],
         admitted'["memory"] = c, limited'[r].entry \in {None, limited[r].entry},
         ~ raced => /\ d.started /\ c.n <= d.count /\ (d.age <= c.age \/ c.age > Window)
                    /\ d.count + Cardinality(AtStepNext("m_incr")) < MaxAttempts + Slots
  PROVE  MemoryCounts'
<1> SUFFICES ASSUME ~ raced
             PROVE  MemoryCounts'
  BY DEF MemoryCounts
<1>1. limited[r].entry = current /\ current \in Entry /\ current # None
  BY HoldsEntry
<1>2. entries'[current] = d
  BY <1>1, LimitHas DEF LimitInv
<1>3. \A s \in Req : limited'[s].entry \in {None, current}
  BY DEF LimitInv, MemoryCounts, OneServed
<1>4. c.n < MaxAttempts + Slots
  <2>1. d.count \in Nat /\ c.n \in Nat
    BY DEF EntryTyped
  <2> QED
    BY <2>1, StepCounts, LimitConstants
<1> QED
  BY <1>1, <1>2, <1>3, <1>4 DEF MemoryCounts, AtStepNext, AtStep, Slots

LEMMA LimitReadsMemory ==
  ASSUME LimitInv, R!RateLimitAssumption, NEW r \in Req, raced' = raced, sweeping' = sweeping,
         R!MemGetAttempts(r)
  PROVE  LimitInv'
<1> DEFINE e == entries[limited[r].entry]
           d == R!Restarted(e)
           c == R!Counted(R!WindowOver(e))
<1>1. /\ LimitTypes /\ R!TypeOK /\ Hold(limited[r]) /\ RedisCounts /\ MemoryCounts
      /\ entries \in [Entry -> [count : Nat, age : Nat, started : BOOLEAN,
                                locked : 0..LockoutDuration]]
      /\ admitted \in [R!Stores -> [n : Nat, age : 0..(Window + 1)]]
  BY LimitHas DEF LimitInv
<1>2. /\ limited[r].pc = "m_attempts" /\ attempts' = attempts /\ lockout' = lockout
      /\ current' = current /\ up' = up /\ outages' = outages
      /\ entries' = [entries EXCEPT ![limited[r].entry] = d]
      /\ admitted' = [admitted EXCEPT !["memory"] = c]
      /\ R!Goto(r, IF R!Exhausted(d.count) THEN "idle" ELSE "m_incr")
  BY DEF R!MemGetAttempts, R!At, R!Entered
<1>3. /\ limited[r].entry \in Entry /\ EntryTyped(e)
      /\ ~ raced => limited[r].entry = current /\ current # None
  BY <1>2, HoldsEntry
<1>4. /\ EntryTyped(d) /\ d.started /\ c \in [n : Nat, age : 0..(Window + 1)]
      /\ ~ raced => c.n <= d.count /\ (d.age <= c.age \/ c.age > Window)
      /\ d.count \in {0, e.count}
  <2>1. ~ raced => IF e.started
                   THEN /\ admitted["memory"].n <= e.count
                        /\ e.age <= admitted["memory"].age \/ admitted["memory"].age > Window
                   ELSE admitted["memory"].n = 0 \/ admitted["memory"].age > Window
    BY <1>1, <1>3 DEF MemoryCounts
  <2> QED
    BY <1>1, <1>3, <2>1, WindowStarts
<1> DEFINE step == IF R!Exhausted(d.count) THEN "idle" ELSE "m_incr"
<1>5. /\ step \in {"idle", "m_incr"} /\ (step = "m_incr" => d.count < MaxAttempts)
      /\ d.count \in Nat
  BY <1>4, LimitConstants DEF R!Exhausted, EntryTyped
<1> HIDE DEF d, c, step, e
<1>6. /\ OneServed(r) /\ limited'[r].pc = step
      /\ limited'[r].entry = IF step \in {"idle", "handler"} THEN None ELSE limited[r].entry
  BY <1>1, <1>2, <1>5, LimitGoes DEF R!Steps, step
<1>7. Hold(limited'[r])
  BY <1>3, <1>5, <1>6 DEF Hold
<1>8. /\ entries' \in [Entry -> [count : Nat, age : Nat, started : BOOLEAN,
                                 locked : 0..LockoutDuration]]
      /\ admitted' \in [R!Stores -> [n : Nat, age : 0..(Window + 1)]]
      /\ admitted'["memory"] = c /\ admitted'["redis"] = admitted["redis"]
  BY <1>1, <1>2, <1>4 DEF EntryTyped, R!Stores
<1>9. LimitTypes'
  BY <1>1, <1>2, <1>6, <1>7, <1>8, LimitHas, LimitTypesMove
<1>10. RedisCounts'
  BY <1>1, <1>2, <1>5, <1>6, <1>8, RedisStays
<1>11. MemoryCounts'
  <2>1. ~ raced => d.count + Cardinality(AtStepNext("m_incr")) < MaxAttempts + Slots
    <3>1. CASE step = "m_incr"
      BY <1>5, <3>1, StepCounts, LimitConstants
    <3>2. CASE step = "idle"
      <4>1. Cardinality(AtStepNext("m_incr")) <= Cardinality(AtStep("m_incr"))
        BY <1>6, <3>2, StepLeft
      <4>2. ~ raced => e.count + Cardinality(AtStep("m_incr")) < MaxAttempts + Slots
        BY <1>1, <1>3 DEF MemoryCounts, e
      <4>3. e.count \in Nat
        BY <1>3 DEF EntryTyped
      <4> QED
        BY <1>4, <4>1, <4>2, <4>3, StepCounts, LimitConstants
    <3> QED
      BY <1>5, <3>1, <3>2
  <2> QED
    BY <1>2, <1>4, <1>6, <1>8, <2>1, EntryMoves
<1> QED
  BY <1>9, <1>10, <1>11 DEF LimitInv

LEMMA LimitCountsMemory ==
  ASSUME LimitInv, R!RateLimitAssumption, NEW r \in Req, raced' = raced, sweeping' = sweeping,
         R!MemIncr(r)
  PROVE  LimitInv'
<1> DEFINE e == entries[limited[r].entry]
           d == R!Restarted(e)
           c == R!Counted(R!WindowOver(e))
           n == d.count + 1
           x == [d EXCEPT !.count = n]
           y == [c EXCEPT !.n = IF R!Locks(n) THEN c.n ELSE R!OneMore(c.n)]
           step == IF R!Locks(n) THEN "m_lock" ELSE "handler"
<1>1. /\ LimitTypes /\ R!TypeOK /\ Hold(limited[r]) /\ RedisCounts /\ MemoryCounts
      /\ entries \in [Entry -> [count : Nat, age : Nat, started : BOOLEAN,
                                locked : 0..LockoutDuration]]
      /\ admitted \in [R!Stores -> [n : Nat, age : 0..(Window + 1)]]
  BY LimitHas DEF LimitInv
<1>2. /\ limited[r].pc = "m_incr" /\ attempts' = attempts /\ lockout' = lockout
      /\ current' = current /\ up' = up /\ outages' = outages
      /\ entries' = [entries EXCEPT ![limited[r].entry] = x]
      /\ R!Goto(r, step)
  BY DEF R!MemIncr, R!At, R!Entered
<1>3. admitted' = [admitted EXCEPT !["memory"] = y]
  BY DEF R!MemIncr, R!Entered
<1>4. /\ limited[r].entry \in Entry /\ EntryTyped(e)
      /\ ~ raced => limited[r].entry = current /\ current # None
  BY <1>2, HoldsEntry
<1>5. /\ EntryTyped(d) /\ d.started /\ c \in [n : Nat, age : 0..(Window + 1)]
      /\ ~ raced => c.n <= d.count /\ (d.age <= c.age \/ c.age > Window)
      /\ d.count \in {0, e.count}
  <2>1. ~ raced => IF e.started
                   THEN /\ admitted["memory"].n <= e.count
                        /\ e.age <= admitted["memory"].age \/ admitted["memory"].age > Window
                   ELSE admitted["memory"].n = 0 \/ admitted["memory"].age > Window
    BY <1>1, <1>4 DEF MemoryCounts
  <2> QED
    BY <1>1, <1>4, <2>1, WindowStarts
<1>6. step \in {"m_lock", "handler"}
  OBVIOUS
<1> HIDE DEF d, c, step, e
<1>7. /\ EntryTyped(x) /\ x.started = d.started /\ x.age = d.age /\ x.count = d.count + 1
      /\ d.count \in Nat
  <2>1. /\ d \in [count : Nat, age : Nat, started : BOOLEAN, locked : 0..LockoutDuration]
        /\ d.count \in Nat /\ n \in Nat
    BY <1>5 DEF EntryTyped
  <2> HIDE DEF n
  <2>2. /\ x \in [count : Nat, age : Nat, started : BOOLEAN, locked : 0..LockoutDuration]
        /\ x.started = d.started /\ x.age = d.age /\ x.count = n
    BY <2>1
  <2> QED
    BY <2>1, <2>2 DEF EntryTyped, n
<1>8. /\ y \in [n : Nat, age : 0..(Window + 1)] /\ y.age = c.age /\ y.n <= c.n + 1
      /\ c.n \in Nat
  <2>1. c.n \in Nat
    BY <1>5
  <2>2. R!OneMore(c.n) \in Nat /\ R!OneMore(c.n) <= c.n + 1
    BY <2>1, Admits
  <2> QED
    BY <1>5, <2>1, <2>2
<1>9. ~ raced => x.started /\ y.n <= x.count /\ (x.age <= y.age \/ y.age > Window)
  BY <1>5, <1>7, <1>8
<1>10. x.count + Cardinality(AtStepNext("m_incr")) < MaxAttempts + Slots \/ raced
  <2>1. limited'[r].pc # "m_incr" /\ OneServed(r)
    BY <1>1, <1>2, <1>6, LimitGoes DEF R!Steps
  <2>2. Cardinality(AtStepNext("m_incr")) + 1 <= Cardinality(AtStep("m_incr"))
    BY <1>2, <2>1, StepLeft
  <2>3. ~ raced => e.count + Cardinality(AtStep("m_incr")) < MaxAttempts + Slots
    BY <1>1, <1>4 DEF MemoryCounts, e
  <2>4. e.count \in Nat
    BY <1>4 DEF EntryTyped
  <2>5. d.count <= e.count
    BY <1>5, <2>4
  <2> QED
    BY <1>7, <2>2, <2>3, <2>4, <2>5, StepCounts, LimitConstants
<1> HIDE DEF x, y, n
<1>11. /\ OneServed(r) /\ limited'[r].pc = step
       /\ limited'[r].entry = IF step \in {"idle", "handler"} THEN None ELSE limited[r].entry
  BY <1>1, <1>2, <1>6, LimitGoes DEF R!Steps
<1>12. Hold(limited'[r])
  BY <1>4, <1>6, <1>11 DEF Hold
<1>13. /\ entries' \in [Entry -> [count : Nat, age : Nat, started : BOOLEAN,
                                  locked : 0..LockoutDuration]]
       /\ admitted' \in [R!Stores -> [n : Nat, age : 0..(Window + 1)]]
       /\ admitted'["memory"] = y /\ admitted'["redis"] = admitted["redis"]
  BY <1>1, <1>2, <1>3, <1>7, <1>8 DEF EntryTyped, R!Stores
<1>14. LimitTypes'
  BY <1>1, <1>2, <1>11, <1>12, <1>13, LimitHas, LimitTypesMove
<1>15. RedisCounts'
  BY <1>1, <1>2, <1>6, <1>11, <1>13, RedisStays
<1>16. MemoryCounts'
  BY <1>2, <1>7, <1>8, <1>9, <1>10, <1>11, <1>13, EntryMoves
<1> QED
  BY <1>14, <1>15, <1>16 DEF LimitInv

LEMMA LimitLocksMemory ==
  ASSUME LimitInv, R!RateLimitAssumption, NEW r \in Req, raced' = raced, sweeping' = sweeping,
         R!MemSetLockout(r)
  PROVE  LimitInv'
<1>1. /\ LimitTypes /\ R!TypeOK /\ Hold(limited[r]) /\ RedisCounts /\ MemoryCounts
      /\ entries \in [Entry -> [count : Nat, age : Nat, started : BOOLEAN,
                                locked : 0..LockoutDuration]]
      /\ current \in Entry \cup {None}
  BY LimitHas DEF LimitInv
<1>2. /\ limited[r].pc = "m_lock" /\ attempts' = attempts /\ lockout' = lockout
      /\ current' = current /\ up' = up /\ outages' = outages /\ admitted' = admitted
      /\ entries' = [entries EXCEPT ![limited[r].entry].locked = LockoutDuration]
      /\ R!Goto(r, "idle")
  BY DEF R!MemSetLockout, R!At
<1>3. limited[r].entry \in Entry
  BY <1>2, HoldsEntry
<1>4. /\ OneServed(r) /\ limited'[r].pc = "idle" /\ limited'[r].entry = None
  BY <1>1, <1>2, LimitGoes DEF R!Steps
<1>5. Hold(limited'[r])
  BY <1>4 DEF Hold
<1>6. /\ entries' \in [Entry -> [count : Nat, age : Nat, started : BOOLEAN,
                                 locked : 0..LockoutDuration]]
      /\ \A e \in Entry : /\ entries'[e].count = entries[e].count
                          /\ entries'[e].age = entries[e].age
                          /\ entries'[e].started = entries[e].started
  BY <1>1, <1>2, <1>3, LimitConstants
<1>7. LimitTypes'
  BY <1>1, <1>2, <1>4, <1>5, <1>6, LimitHas, LimitTypesMove
<1>8. RedisCounts'
  BY <1>1, <1>2, <1>4, RedisStays
<1>9. MemoryCounts'
  <2> SUFFICES ASSUME ~ raced
               PROVE  MemoryCounts'
    BY DEF MemoryCounts
  <2>1. \A s \in Req : limited'[s].entry \in {None, current}
    BY <1>1, <1>4 DEF MemoryCounts, OneServed
  <2>2. Cardinality(AtStepNext("m_incr")) <= Cardinality(AtStep("m_incr"))
    BY <1>4, StepLeft
  <2>3. CASE current = None
    BY <1>1, <1>2, <2>1, <2>3 DEF MemoryCounts, Slots
  <2>4. CASE current # None
    <3>1. /\ entries[current].count \in Nat
          /\ entries[current].count + Cardinality(AtStep("m_incr")) < MaxAttempts + Slots
      BY <1>1, <2>4 DEF MemoryCounts
    <3>2. entries[current].count + Cardinality(AtStepNext("m_incr")) < MaxAttempts + Slots
      BY <2>2, <3>1, StepCounts, LimitConstants
    <3>3. /\ entries'[current].count = entries[current].count
          /\ entries'[current].age = entries[current].age
          /\ entries'[current].started = entries[current].started
      BY <1>1, <1>6, <2>4
    <3> QED
      BY <1>1, <1>2, <2>1, <2>4, <3>2, <3>3 DEF MemoryCounts, AtStepNext, AtStep, Slots
  <2> QED
    BY <2>3, <2>4
<1> QED
  BY <1>7, <1>8, <1>9 DEF LimitInv

LEMMA LimitClearsMemory ==
  ASSUME LimitInv, R!RateLimitAssumption, NEW r \in Req, sweeping' = sweeping,
         R!MemClearAttempts(r)
  PROVE  LimitInv'
<1>1. /\ LimitTypes /\ R!TypeOK /\ Hold(limited[r]) /\ RedisCounts /\ MemoryCounts
      /\ admitted \in [R!Stores -> [n : Nat, age : 0..(Window + 1)]] /\ raced \in BOOLEAN
  BY LimitHas DEF LimitInv
<1>2. /\ limited[r].pc = "clear_memory" /\ attempts' = attempts /\ lockout' = lockout
      /\ current' = None /\ up' = up /\ outages' = outages /\ entries' = entries
      /\ admitted' = [admitted EXCEPT !["memory"].n = 0]
      /\ raced' = (raced \/ R!InUse) /\ R!Goto(r, "idle")
  BY DEF R!MemClearAttempts, R!At
<1>3. /\ OneServed(r) /\ limited'[r].pc = "idle" /\ limited'[r].entry = None
  BY <1>1, <1>2, LimitGoes DEF R!Steps
<1>4. Hold(limited'[r])
  BY <1>3 DEF Hold
<1>5. /\ admitted' \in [R!Stores -> [n : Nat, age : 0..(Window + 1)]]
      /\ admitted'["memory"].n = 0 /\ admitted'["redis"] = admitted["redis"]
  BY <1>1, <1>2 DEF R!Stores
<1>6. raced' \in BOOLEAN
  BY <1>1, <1>2 DEF R!InUse
<1>7. LimitTypes'
  BY <1>1, <1>2, <1>3, <1>4, <1>5, <1>6, LimitHas, LimitTypesMove
<1>8. RedisCounts'
  BY <1>1, <1>2, <1>3, <1>5, RedisStays
<1>9. MemoryCounts'
  <2>1. ASSUME ~ raced', NEW s \in Req
        PROVE  limited'[s].entry = None
    <3>1. ~ raced /\ ~ R!InUse
      BY <1>2, <2>1
    <3>2. limited[s].entry \in {None, current}
      BY <1>1, <3>1 DEF MemoryCounts
    <3>3. limited[s].entry = None
      BY <3>1, <3>2 DEF R!InUse
    <3> QED
      BY <1>3, <3>3 DEF OneServed
  <2>2. 0 < MaxAttempts + Slots
    BY LimitConstants
  <2> QED
    BY <1>2, <1>5, <2>1, <2>2 DEF MemoryCounts, Slots
<1> QED
  BY <1>7, <1>8, <1>9 DEF LimitInv

-----------------------------------------------------------------------------
(* The cleanup goroutine, time and Redis.                                   *)

\* No request moves.
LEMMA LimitTypesRest ==
  ASSUME LimitTypes, limited' = limited,
         attempts' \in [n : Nat, ttl : -1..Window], lockout' \in 0..LockoutDuration,
         entries' \in [Entry -> [count : Nat, age : Nat, started : BOOLEAN,
                                 locked : 0..LockoutDuration]],
         current' \in Entry \cup {None}, up' \in BOOLEAN, outages' \in 0..MaxOutages,
         raced' \in BOOLEAN, sweeping' \in BOOLEAN,
         admitted' \in [R!Stores -> [n : Nat, age : 0..(Window + 1)]]
  PROVE  LimitTypes'
  BY DEF LimitTypes, R!TypeOK, Hold

LEMMA LimitRests ==
  ASSUME LimitInv, limited' = limited, attempts' = attempts, lockout' = lockout,
         entries' = entries, current' = current, up' \in BOOLEAN, outages' \in 0..MaxOutages,
         raced' = raced, sweeping' \in BOOLEAN, admitted' = admitted
  PROVE  LimitInv'
<1>1. LimitTypes'
  BY LimitHas, LimitTypesRest DEF LimitInv
<1>2. RedisCounts' /\ MemoryCounts'
  BY DEF LimitInv, RedisCounts, MemoryCounts, AtStep, Slots
<1> QED
  BY <1>1, <1>2 DEF LimitInv

LEMMA LimitSweeps ==
  ASSUME LimitInv, R!RateLimitAssumption, Window <= Grace, R!CleanupDelete
  PROVE  LimitInv'
<1>1. /\ LimitTypes /\ R!TypeOK /\ RedisCounts /\ MemoryCounts /\ raced \in BOOLEAN
      /\ entries \in [Entry -> [count : Nat, age : Nat, started : BOOLEAN,
                                locked : 0..LockoutDuration]]
      /\ current \in Entry \cup {None}
      /\ admitted["memory"] \in [n : Nat, age : 0..(Window + 1)]
  BY LimitHas DEF LimitInv
<1>2. /\ attempts' = attempts /\ lockout' = lockout /\ limited' = limited
      /\ current' = None /\ up' = up /\ outages' = outages /\ entries' = entries
      /\ admitted' = admitted /\ sweeping' = FALSE
      /\ raced' = (raced \/ R!InUse \/ (current # None /\ ~ R!Stale(entries[current])))
  BY DEF R!CleanupDelete
<1>3. LimitTypes'
  BY <1>1, <1>2, LimitHas, LimitTypesRest
<1>4. RedisCounts'
  BY <1>1, <1>2 DEF RedisCounts, AtStep, Slots
<1>5. MemoryCounts'
  <2> SUFFICES ASSUME ~ raced'
               PROVE  MemoryCounts'
    BY DEF MemoryCounts
  <2>1. ~ raced /\ ~ R!InUse /\ (current = None \/ R!Stale(entries[current]))
    BY <1>2
  <2>2. ASSUME NEW s \in Req
        PROVE  limited'[s].entry = None
    BY <1>1, <1>2, <2>1 DEF MemoryCounts, R!InUse
  <2>3. admitted["memory"].n = 0 \/ admitted["memory"].age > Window
    <3>1. CASE current # None
      <4> DEFINE e == entries[current]
      <4>1. e.age \in Nat /\ admitted["memory"].age \in Nat
        BY <1>1, <3>1
      <4>2. ~ e.started \/ e.age > Grace
        BY <2>1, <3>1 DEF R!Stale
      <4>3. IF e.started
            THEN e.age <= admitted["memory"].age \/ admitted["memory"].age > Window
            ELSE admitted["memory"].n = 0 \/ admitted["memory"].age > Window
        BY <1>1, <2>1, <3>1 DEF MemoryCounts
      <4> HIDE DEF e
      <4> QED
        BY <4>1, <4>2, <4>3, LimitConstants
    <3>2. CASE current = None
      BY <1>1, <2>1, <3>2 DEF MemoryCounts
    <3> QED
      BY <3>1, <3>2
  <2>4. admitted["memory"].n < MaxAttempts + Slots
    BY <1>1, <2>1 DEF MemoryCounts
  <2> QED
    BY <1>2, <2>2, <2>3, <2>4 DEF MemoryCounts, Slots
<1> QED
  BY <1>3, <1>4, <1>5 DEF LimitInv

LEMMA LessIs ==
  /\ \A n \in Nat : R!Less(n) \in Nat /\ R!Less(n) <= n
  /\ R!Less(-1) = -1
  BY DEF R!Less

LEMMA OlderIs ==
  ASSUME R!RateLimitAssumption, NEW e, EntryTyped(e)
  PROVE  /\ EntryTyped(R!Older(e)) /\ R!Older(e).count = e.count
         /\ R!Older(e).started = e.started /\ R!Older(e).age <= e.age + 1
<1> DEFINE locked == R!Less(e.locked)
           age == IF e.started /\ e.age <= Window + Grace THEN e.age + 1 ELSE e.age
<1>1. R!Older(e) = [e EXCEPT !.locked = locked, !.age = age]
  BY DEF R!Older
<1>2. /\ e \in [count : Nat, age : Nat, started : BOOLEAN, locked : 0..LockoutDuration]
      /\ e.age \in Nat /\ e.locked \in Nat /\ e.locked \in 0..LockoutDuration
  BY LimitConstants DEF EntryTyped
<1>3. age \in Nat /\ age <= e.age + 1
  BY <1>2
<1>4. locked \in 0..LockoutDuration
  BY <1>2, LessIs, LimitConstants
<1> HIDE DEF locked, age
<1> QED
  BY <1>1, <1>2, <1>3, <1>4 DEF EntryTyped

LEMMA LimitTicks ==
  ASSUME LimitInv, R!RateLimitAssumption, R!Tick
  PROVE  LimitInv'
<1> DEFINE lapsed == attempts.ttl = 1
           a == admitted["memory"]
           b == [a EXCEPT !.age = IF a.age <= Window THEN a.age + 1 ELSE a.age]
           z == IF lapsed THEN R!NewCount ELSE admitted["redis"]
<1>1. /\ LimitTypes /\ R!TypeOK /\ RedisCounts /\ MemoryCounts /\ raced \in BOOLEAN
      /\ attempts \in [n : Nat, ttl : -1..Window] /\ lockout \in 0..LockoutDuration
      /\ entries \in [Entry -> [count : Nat, age : Nat, started : BOOLEAN,
                                locked : 0..LockoutDuration]]
      /\ current \in Entry \cup {None} /\ up \in BOOLEAN /\ outages \in 0..MaxOutages
      /\ sweeping \in BOOLEAN
      /\ a \in [n : Nat, age : 0..(Window + 1)]
      /\ admitted["redis"] \in [n : Nat, age : 0..(Window + 1)]
  BY LimitHas DEF LimitInv, R!TypeOK
<1>2. /\ attempts' = IF lapsed THEN R!NoKey ELSE [attempts EXCEPT !.ttl = R!Less(@)]
      /\ lockout' = R!Less(lockout)
      /\ entries' = [e \in Entry |-> IF e \in R!Held THEN R!Older(entries[e]) ELSE R!Fresh]
      /\ current' = current /\ limited' = limited /\ sweeping' = sweeping
      /\ up' = up /\ outages' = outages /\ raced' = raced
  BY DEF R!Tick
<1>3. admitted' = [redis |-> z, memory |-> b]
  BY DEF R!Tick
<1>4. /\ b \in [n : Nat, age : 0..(Window + 1)] /\ b.n = a.n
      /\ a.age \in Nat /\ b.age \in Nat
      /\ b.age = a.age + 1 \/ (b.age = a.age /\ a.age > Window)
  BY <1>1, LimitConstants
<1>5. z \in [n : Nat, age : 0..(Window + 1)]
  BY <1>1, LimitConstants DEF R!NewCount
<1>6. attempts' \in [n : Nat, ttl : -1..Window] /\ attempts'.n = (IF lapsed THEN 0 ELSE attempts.n)
  <2>1. CASE lapsed
    BY <1>2, <2>1, LimitConstants DEF R!NoKey
  <2>2. CASE ~ lapsed
    <3>1. attempts' = [attempts EXCEPT !.ttl = R!Less(attempts.ttl)]
      BY <1>2, <2>2
    <3>2. R!Less(attempts.ttl) \in -1..Window
      BY <1>1, LimitConstants DEF R!Less
    <3> QED
      BY <1>1, <2>2, <3>1, <3>2
  <2> QED
    BY <2>1, <2>2
<1>7. z.n <= attempts'.n /\ attempts'.n <= attempts.n
  BY <1>1, <1>6 DEF RedisCounts, R!NewCount
<1> HIDE DEF a, b, z, lapsed
<1>8. /\ admitted' \in [R!Stores -> [n : Nat, age : 0..(Window + 1)]]
      /\ admitted'["redis"] = z /\ admitted'["memory"] = b
  BY <1>3, <1>4, <1>5 DEF R!Stores
<1>9. /\ entries' \in [Entry -> [count : Nat, age : Nat, started : BOOLEAN,
                                 locked : 0..LockoutDuration]]
  <2>1. ASSUME NEW e \in Entry
        PROVE  entries'[e] \in [count : Nat, age : Nat, started : BOOLEAN,
                                locked : 0..LockoutDuration]
    <3>1. EntryTyped(entries[e]) /\ EntryTyped(R!Fresh)
      BY <1>1, LimitConstants DEF EntryTyped, R!Fresh
    <3>2. EntryTyped(entries'[e])
      BY <1>2, <3>1, OlderIs
    <3> QED
      BY <3>2 DEF EntryTyped
  <2> QED
    BY <1>2, <2>1
<1>10. lockout' \in 0..LockoutDuration
  BY <1>1, <1>2, LessIs, LimitConstants
<1>11. LimitTypes'
  BY <1>1, <1>2, <1>6, <1>8, <1>9, <1>10, LimitTypesRest
<1>12. RedisCounts'
  <2>1. attempts'.n + Cardinality(AtStep("incr")) < MaxAttempts + Slots
    <3>1. attempts.n + Cardinality(AtStep("incr")) < MaxAttempts + Slots
      BY <1>1 DEF RedisCounts
    <3>2. attempts.n \in Nat /\ attempts'.n \in Nat
      BY <1>1, <1>6
    <3> QED
      BY <1>7, <3>1, <3>2, StepCounts, LimitConstants
  <2> QED
    BY <1>2, <1>7, <1>8, <2>1 DEF RedisCounts, AtStep, Slots
<1>13. MemoryCounts'
  <2> SUFFICES ASSUME ~ raced
               PROVE  MemoryCounts'
    BY <1>2 DEF MemoryCounts
  <2>1. a.n = 0 \/ a.age > Window => b.n = 0 \/ b.age > Window
    BY <1>4, LimitConstants
  <2>2. \A s \in Req : limited'[s].entry \in {None, current}
    BY <1>1, <1>2 DEF MemoryCounts
  <2>3. b.n < MaxAttempts + Slots
    BY <1>1, <1>4 DEF MemoryCounts, a
  <2>4. CASE current = None
    <3>1. b.n = 0 \/ b.age > Window
      BY <1>1, <2>1, <2>4 DEF MemoryCounts, a
    <3> QED
      BY <1>2, <1>8, <2>2, <2>3, <2>4, <3>1 DEF MemoryCounts, Slots
  <2>5. CASE current # None
    <3> DEFINE e == entries[current]
               d == R!Older(e)
    <3>1. current \in Entry /\ current \in R!Held
      BY <1>1, <2>5 DEF R!Held
    <3>2. entries'[current] = d /\ EntryTyped(e)
      BY <1>1, <1>2, <3>1 DEF EntryTyped
    <3>3. /\ EntryTyped(d) /\ d.count = e.count /\ d.started = e.started
          /\ d.age <= e.age + 1
      BY <3>2, OlderIs
    <3>4. /\ e.count + Cardinality(AtStep("m_incr")) < MaxAttempts + Slots
          /\ IF e.started THEN /\ a.n <= e.count
                               /\ e.age <= a.age \/ a.age > Window
             ELSE a.n = 0 \/ a.age > Window
      BY <1>1, <2>5 DEF MemoryCounts, a
    <3> HIDE DEF e, d
    <3>5. e.age \in Nat /\ d.age \in Nat
      BY <3>2, <3>3 DEF EntryTyped
    <3>6. e.age <= a.age \/ a.age > Window => d.age <= b.age \/ b.age > Window
      BY <1>4, <3>3, <3>5, LimitConstants
    <3>7. /\ d.count + Cardinality(AtStep("m_incr")) < MaxAttempts + Slots
          /\ IF d.started THEN /\ b.n <= d.count
                               /\ d.age <= b.age \/ b.age > Window
             ELSE b.n = 0 \/ b.age > Window
      BY <1>4, <2>1, <3>3, <3>4, <3>6
    <3> QED
      BY <1>2, <1>8, <2>2, <2>3, <2>5, <3>2, <3>7 DEF MemoryCounts, AtStep, Slots
  <2> QED
    BY <2>4, <2>5
<1> QED
  BY <1>11, <1>12, <1>13 DEF LimitInv

-----------------------------------------------------------------------------
(* The theorem.                                                             *)

LEMMA LimitInit ==
  ASSUME R!RateLimitAssumption, R!Init
  PROVE  LimitInv
<1>1. /\ attempts = [n |-> 0, ttl |-> 0] /\ lockout = 0
      /\ entries = [e \in Entry |-> R!Fresh] /\ current = None
      /\ limited = [r \in Req |-> R!Idle]
      /\ sweeping = FALSE /\ up = TRUE /\ outages = 0 /\ raced = FALSE
      /\ admitted = [s \in R!Stores |-> [n |-> 0, age |-> Window + 1]]
  BY DEF R!Init, R!NoKey
<1>2. R!Idle \in R!Request /\ R!Idle.pc = "idle" /\ R!Idle.entry = None
  BY DEF R!Idle, R!Request, R!Steps
<1>3. R!Fresh \in [count : Nat, age : Nat, started : BOOLEAN, locked : 0..LockoutDuration]
  BY LimitConstants DEF R!Fresh
<1>4. R!TypeOK
  <2>5. limited \in [Req -> R!Request]
    BY <1>1, <1>2
  <2>6. 0 \in 0..MaxOutages
    BY LimitConstants
  <2>1. /\ limited \in [Req -> R!Request] /\ sweeping \in BOOLEAN /\ up \in BOOLEAN
        /\ raced \in BOOLEAN /\ outages \in 0..MaxOutages /\ current \in Entry \cup {None}
    BY <1>1, <2>5, <2>6, Zenon
  <2>2. attempts \in [n : Nat, ttl : -1..Window] /\ lockout \in 0..LockoutDuration
    BY <1>1, LimitConstants
  <2>3. entries \in [Entry -> [count : Nat, age : Nat, started : BOOLEAN,
                               locked : 0..LockoutDuration]]
    BY <1>1, <1>3
  <2>4. admitted \in [R!Stores -> [n : Nat, age : 0..(Window + 1)]]
    BY <1>1, LimitConstants
  <2> QED
    BY <2>1, <2>2, <2>3, <2>4, Zenon DEF R!TypeOK
<1>5. /\ admitted["redis"] = [n |-> 0, age |-> Window + 1]
      /\ admitted["memory"] = [n |-> 0, age |-> Window + 1]
  BY <1>1 DEF R!Stores
<1>6. \A r \in Req : limited[r].pc = "idle" /\ limited[r].entry = None
  BY <1>1, <1>2
<1>7. LimitTypes
  BY <1>4, <1>6 DEF LimitTypes, Hold
<1>8. AtStep("incr") = {} /\ Cardinality(AtStep("incr")) = 0
  BY <1>6, FS_EmptySet DEF AtStep
<1>9. RedisCounts
  BY <1>1, <1>5, <1>8, LimitConstants DEF RedisCounts
<1>10. MemoryCounts
  BY <1>1, <1>5, <1>6, LimitConstants DEF MemoryCounts
<1> QED
  BY <1>7, <1>9, <1>10 DEF LimitInv

LEMMA LimitNext ==
  ASSUME LimitInv, R!RateLimitAssumption, Window <= Grace, R!Next
  PROVE  LimitInv'
<1>1. ASSUME NEW r \in Req, raced' = raced, sweeping' = sweeping,
             R!Serve(r) \/ R!ClearRateLimitKeys(r)
      PROVE  LimitInv'
  <2>1. CASE R!CheckLockout(r) \/ R!SetLockout(r) \/ R!Handler(r) \/ R!MemIsLocked(r)
    BY <1>1, <2>1, LimitPasses
  <2>2. CASE R!CheckAttempts(r) \/ R!IncrAttempts(r) \/ R!ClearRateLimitKeys(r)
    BY <1>1, <2>2, LimitChecks, LimitIncrements, LimitClearsRedis
  <2>3. CASE R!GetOrCreate(r) \/ R!MemGetAttempts(r) \/ R!MemIncr(r) \/ R!MemSetLockout(r)
    BY <1>1, <2>3, LimitFinds, LimitReadsMemory, LimitCountsMemory, LimitLocksMemory
  <2> QED
    BY <1>1, <2>1, <2>2, <2>3 DEF R!Serve
<1>2. ASSUME NEW r \in Req, sweeping' = sweeping, R!MemClearAttempts(r)
      PROVE  LimitInv'
  BY <1>2, LimitClearsMemory
<1>3. CASE R!CleanupLook
  <2>1. /\ limited' = limited /\ attempts' = attempts /\ lockout' = lockout
        /\ entries' = entries /\ current' = current /\ up' = up /\ outages' = outages
        /\ raced' = raced /\ sweeping' = TRUE /\ admitted' = admitted
    BY <1>3 DEF R!CleanupLook
  <2>2. up \in BOOLEAN /\ outages \in 0..MaxOutages
    BY LimitHas DEF LimitInv
  <2> QED
    BY <2>1, <2>2, LimitRests
<1>4. CASE R!CleanupDelete
  BY <1>4, LimitSweeps
<1>5. CASE R!Tick
  BY <1>5, LimitTicks
<1>6. CASE R!Outage /\ UNCHANGED <<attempts, lockout, entries, current, limited, sweeping,
                                   admitted, raced>>
  <2>1. up \in BOOLEAN /\ outages \in 0..MaxOutages /\ sweeping \in BOOLEAN
    BY LimitHas DEF LimitInv, R!TypeOK
  <2>2. up' \in BOOLEAN /\ outages' \in 0..MaxOutages
    BY <1>6, <2>1, LimitConstants DEF R!Outage
  <2> QED
    BY <1>6, <2>1, <2>2, LimitRests
<1> QED
  BY <1>1, <1>2, <1>3, <1>4, <1>5, <1>6 DEF R!Next

\* RateLimitMiddleware (middleware/rate_limit.go:205-310) reads a counter in one step
\* and raises it in another: in a window each store lets through fewer than MaxAttempts
\* requests and one for every request served at the same time, unless an entry of the
\* fallback was dropped while it was used.  The cleanup must not forget an entry before
\* its window is over: Window <= Grace is true of every limiter with a window of a
\* minute, and false of the two with one of fifteen (rate_limit.go:437, 457), since an
\* entry is dropped after five (rate_limit.go:89).
THEOREM RequestsAreLimited ==
  ASSUME Window <= Grace
  PROVE  AllSpec => []WindowLimit
<1> DEFINE Kept == part = "limit" => LimitInv
<1> USE SignInAssumption
<1>1. AllInit => Kept
  <2> SUFFICES ASSUME AllInit, part = "limit"
               PROVE  LimitInv
    OBVIOUS
  <2>1. R!Init
    BY DEF AllInit
  <2> QED
    BY <2>1, LimitInit
<1>2. Kept /\ [AllNext]_allVars => Kept'
  <2> SUFFICES ASSUME Kept, [AllNext]_allVars, part' = "limit"
               PROVE  LimitInv'
    OBVIOUS
  <2>1. CASE RateLimit
    <3>1. LimitInv /\ R!Next
      BY <2>1 DEF RateLimit
    <3> QED
      BY <3>1, LimitNext
  <2>2. CASE Lockout \/ Enrolment \/ SecondFactor \/ Passkeys
    BY <2>2 DEF Lockout, Enrolment, SecondFactor, Passkeys, shared
  <2>3. CASE UNCHANGED allVars
    <3>1. /\ limited' = limited /\ attempts' = attempts /\ lockout' = lockout
          /\ entries' = entries /\ current' = current /\ up' = up /\ outages' = outages
          /\ raced' = raced /\ sweeping' = sweeping /\ admitted' = admitted /\ part' = part
      BY <2>3 DEF allVars, limitVars, shared
    <3>2. LimitInv
      BY <3>1
    <3>3. up \in BOOLEAN /\ outages \in 0..MaxOutages /\ sweeping \in BOOLEAN
      BY <3>2, LimitHas DEF LimitInv, R!TypeOK
    <3> QED
      BY <3>1, <3>2, <3>3, LimitRests
  <2> QED
    BY <2>1, <2>2, <2>3 DEF AllNext
<1>3. Kept => WindowLimit
  <2> SUFFICES ASSUME Kept, part = "limit"
               PROVE  R!TypeOK /\ R!WindowLimit
    BY DEF WindowLimit
  <2>1. LimitInv
    OBVIOUS
  <2>2. R!TypeOK /\ admitted["redis"].n \in Nat /\ attempts.n \in Nat
    BY <2>1, LimitHas DEF LimitInv
  <2>3. admitted["redis"].n < MaxAttempts + Slots
    <3>1. /\ admitted["redis"].n <= attempts.n
          /\ attempts.n + Cardinality(AtStep("incr")) < MaxAttempts + Slots
      BY <2>1 DEF LimitInv, RedisCounts
    <3> QED
      BY <2>2, <3>1, StepCounts, LimitConstants
  <2>4. raced \/ admitted["memory"].n < MaxAttempts + Slots
    BY <2>1 DEF LimitInv, MemoryCounts
  <2> QED
    BY <2>2, <2>3, <2>4, LimitConstants DEF R!WindowLimit
<1> QED
  BY <1>1, <1>2, <1>3, PTL DEF AllSpec

-----------------------------------------------------------------------------
(* Second factors being set up (Enrolment).  A code or a token says which   *)
(* number or address its owner answers for; the column is marked later.     *)

Enrolling(r) == enrolling[r].pc # "idle"

\* A method and its secret, as the row holds them and as a request remembers them.
Paired(method, secret) == (secret # None) = (method = "totp")

\* What a request holds, at the steps that look at it.
Carried(q) ==
  /\ q.pc = "store_code" => q.what \in Phone
  /\ q.pc \in {"store_token", "match_backup", "verify_backup"} => q.what \in Backup
  /\ q.pc = "enable_totp" => q.what \in Secret
  /\ q.pc \in {"enable_backup", "restore"} =>
       q.what \in Secret \cup {None} /\ Paired(q.method, q.what)

EnrolmentTypes ==
  /\ E!TypeOK
  /\ Paired(row.prevMethod, row.prevSecret)
  /\ \A r \in Req : Carried(enrolling[r])

\* Requests that were served one after the other.
InTurn == ~ overlap => \A p, r \in Req : Enrolling(p) /\ Enrolling(r) => p = r

\* The code in the store was sent to the number in the row, but while a request has
\* yet to replace it; one that has been answered was answered for that number.
PhoneAnswered ==
  ~ overlap /\ errors = 0 =>
    /\ row.phoneVerified => row.phone \in owned \cup {None}
    /\ code \notin {None, row.phone} /\ row.phone # None
         => \E r \in Req : enrolling[r].pc = "store_code"
    /\ \A r \in Req :
         /\ enrolling[r].pc = "store_code" => enrolling[r].what = row.phone
         /\ enrolling[r].pc = "verify_phone" => row.phone \in owned \cup {None}

\* A token is answered by the owner of its address, which the row has when it is marked.
BackupAnswered ==
  /\ \A r \in Req :
       enrolling[r].pc \in {"match_backup", "verify_backup"} => enrolling[r].what \in owned
  /\ ~ overlap =>
       /\ row.backupVerified => row.backup \in owned
       /\ \A r \in Req : enrolling[r].pc = "verify_backup" => enrolling[r].what = row.backup

EnrolmentInv == EnrolmentTypes /\ InTurn /\ PhoneAnswered /\ BackupAnswered

-----------------------------------------------------------------------------
(* What a step of an enrolment does to its request.                         *)

\* A step of r's request: no other request moves, and without an overlap there is none.
OneEnrols(r) ==
  /\ enrolling' \in [Req -> E!Request]
  /\ \A s \in Req \ {r} : enrolling'[s] = enrolling[s]
  /\ begun' \in 0..(MaxRequests + 1) /\ errors' \in 0..MaxErrors /\ errors <= errors'
  /\ overlap' \in BOOLEAN
  /\ ~ overlap' => ~ overlap /\ \A s \in Req \ {r} : ~ Enrolling(s)

LEMMA EnrolmentBegins ==
  ASSUME E!EnrolmentAssumption, E!TypeOK, NEW r \in Req, NEW step \in E!Steps,
         NEW what \in Phone \cup Backup \cup Secret \cup {None}, NEW method \in E!Methods,
         E!Begin(r, step, what, method), errors' = errors
  PROVE  /\ OneEnrols(r) /\ enrolling[r].pc = "idle" /\ enrolling'[r].pc = step
         /\ ~ overlap' => \A s \in Req : ~ Enrolling(s)
         /\ step # "idle" => enrolling'[r].what = what /\ enrolling'[r].method = method
<1> DEFINE q == IF step = "idle" THEN E!Idle
                ELSE [pc |-> step, what |-> what, method |-> method]
<1>1. /\ q \in E!Request /\ q.pc = step
      /\ step # "idle" => q.what = what /\ q.method = method
  BY DEF E!Request, E!Idle, E!Steps, E!Methods
<1>2. /\ enrolling' = [enrolling EXCEPT ![r] = q] /\ enrolling[r].pc = "idle"
      /\ begun < MaxRequests + 1 /\ begun' = begun + 1
      /\ overlap' = (overlap \/ \E s \in Req : Enrolling(s))
  BY DEF E!Begin, E!At, Enrolling
<1> HIDE DEF q
<1>3. /\ enrolling' \in [Req -> E!Request] /\ enrolling'[r] = q
      /\ \A s \in Req \ {r} : enrolling'[s] = enrolling[s]
  BY <1>1, <1>2 DEF E!TypeOK
<1>4. /\ begun' \in 0..(MaxRequests + 1) /\ errors' \in 0..MaxErrors /\ errors <= errors'
  <2>1. /\ begun \in 0..(MaxRequests + 1) /\ MaxRequests + 1 \in Nat
        /\ errors \in 0..MaxErrors /\ MaxErrors \in Nat
    BY DEF E!TypeOK, E!EnrolmentAssumption
  <2> HIDE DEF q
  <2>2. begun' \in 0..(MaxRequests + 1)
    BY <1>2, <2>1
  <2>3. errors' \in 0..MaxErrors /\ errors <= errors'
    BY <2>1
  <2> QED
    BY <2>2, <2>3
<1>5. overlap' \in BOOLEAN /\ (~ overlap' => ~ overlap /\ \A s \in Req : ~ Enrolling(s))
  BY <1>2 DEF E!TypeOK
<1> QED
  BY <1>1, <1>2, <1>3, <1>4, <1>5 DEF OneEnrols

LEMMA EnrolmentGoes ==
  ASSUME E!EnrolmentAssumption, E!TypeOK, InTurn, NEW r \in Req, NEW step \in E!Steps,
         enrolling[r].pc # "idle", E!Goto(r, step),
         begun' = begun, overlap' = overlap, errors' = errors \/ errors' = errors + 1,
         errors' <= MaxErrors
  PROVE  /\ OneEnrols(r) /\ enrolling'[r].pc = step
         /\ step # "idle" => /\ enrolling'[r].what = enrolling[r].what
                             /\ enrolling'[r].method = enrolling[r].method
<1> DEFINE q == IF step = "idle" THEN E!Idle ELSE [enrolling[r] EXCEPT !.pc = step]
<1>1. enrolling[r] \in E!Request
  BY DEF E!TypeOK
<1>2. /\ q \in E!Request /\ q.pc = step
      /\ step # "idle" => q.what = enrolling[r].what /\ q.method = enrolling[r].method
  BY <1>1 DEF E!Request, E!Idle, E!Steps, E!Methods
<1>3. enrolling' = [enrolling EXCEPT ![r] = q]
  BY DEF E!Goto
<1> HIDE DEF q
<1>4. /\ enrolling' \in [Req -> E!Request] /\ enrolling'[r] = q
      /\ \A s \in Req \ {r} : enrolling'[s] = enrolling[s]
  BY <1>2, <1>3 DEF E!TypeOK
<1>5. /\ begun' \in 0..(MaxRequests + 1) /\ errors' \in 0..MaxErrors /\ errors <= errors'
  <2>1. /\ begun \in 0..(MaxRequests + 1) /\ errors \in 0..MaxErrors /\ MaxErrors \in Nat
    BY DEF E!TypeOK, E!EnrolmentAssumption
  <2>2. errors' \in 0..MaxErrors /\ errors <= errors'
    BY <2>1
  <2> QED
    BY <2>1, <2>2
<1>6. overlap' \in BOOLEAN /\ (~ overlap' => \A s \in Req \ {r} : ~ Enrolling(s))
  BY DEF E!TypeOK, InTurn, Enrolling
<1> QED
  BY <1>2, <1>4, <1>5, <1>6 DEF OneEnrols

-----------------------------------------------------------------------------
(* How the parts of the invariant move, or stay.                            *)

RowTyped(c) ==
  /\ c \in E!Row /\ c.enabled = (c.method # "")
  /\ Paired(c.method, c.secret) /\ Paired(c.prevMethod, c.prevSecret)

LEMMA RowIsTyped ==
  ASSUME EnrolmentTypes
  PROVE  RowTyped(row)
  BY DEF EnrolmentTypes, E!TypeOK, RowTyped, Paired

LEMMA EnrolmentTypesMove ==
  ASSUME EnrolmentTypes, NEW r \in Req, OneEnrols(r), Carried(enrolling'[r]),
         RowTyped(row)', setup' \in Secret \cup {None}, code' \in Phone \cup {None},
         tokens' \subseteq Backup, shown' \subseteq Secret, owned' \subseteq Phone \cup Backup,
         saved' \in [method : E!Methods, secret : Secret \cup {None}]
  PROVE  EnrolmentTypes'
<1>1. \A s \in Req : Carried(enrolling'[s])
  BY DEF EnrolmentTypes, OneEnrols
<1>2. E!TypeOK'
  BY DEF OneEnrols, E!TypeOK, RowTyped, Paired
<1>3. Paired(row.prevMethod, row.prevSecret)'
  BY DEF RowTyped
<1>4. (\A s \in Req : Carried(enrolling[s]))'
  BY <1>1
<1> QED
  BY <1>2, <1>3, <1>4 DEF EnrolmentTypes

LEMMA InTurnMove ==
  ASSUME NEW r \in Req, OneEnrols(r)
  PROVE  InTurn'
  BY DEF OneEnrols, InTurn, Enrolling

LEMMA PhoneStays ==
  ASSUME PhoneAnswered, NEW r \in Req, OneEnrols(r), errors \in Nat,
         row'.phone = row.phone, row'.phoneVerified = row.phoneVerified,
         code' \in {code, None}, owned \subseteq owned',
         enrolling[r].pc # "store_code",
         enrolling'[r].pc \notin {"store_code", "verify_phone"}
  PROVE  PhoneAnswered'
<1> SUFFICES ASSUME ~ overlap', errors' = 0
             PROVE  /\ row'.phoneVerified => row'.phone \in owned' \cup {None}
                    /\ code' \notin {None, row'.phone} /\ row'.phone # None
                         => \E s \in Req : enrolling'[s].pc = "store_code"
                    /\ \A s \in Req :
                         /\ enrolling'[s].pc = "store_code" => enrolling'[s].what = row'.phone
                         /\ enrolling'[s].pc = "verify_phone"
                              => row'.phone \in owned' \cup {None}
  BY DEF PhoneAnswered
<1>1. ~ overlap /\ errors = 0
  BY DEF OneEnrols
<1>2. row'.phoneVerified => row'.phone \in owned' \cup {None}
  BY <1>1 DEF PhoneAnswered
<1>3. ASSUME code' \notin {None, row'.phone} /\ row'.phone # None
      PROVE  \E s \in Req : enrolling'[s].pc = "store_code"
  <2>1. PICK s \in Req : enrolling[s].pc = "store_code"
    BY <1>1, <1>3 DEF PhoneAnswered
  <2> QED
    BY <2>1 DEF OneEnrols
<1>4. ASSUME NEW s \in Req
      PROVE  /\ enrolling'[s].pc = "store_code" => enrolling'[s].what = row'.phone
             /\ enrolling'[s].pc = "verify_phone" => row'.phone \in owned' \cup {None}
  BY <1>1 DEF PhoneAnswered, OneEnrols
<1> QED
  BY <1>2, <1>3, <1>4

LEMMA PhoneMoves ==
  ASSUME NEW r \in Req, OneEnrols(r),
         ~ overlap' /\ errors' = 0 =>
           /\ row'.phoneVerified => row'.phone \in owned' \cup {None}
           /\ code' \notin {None, row'.phone} /\ row'.phone # None
                => enrolling'[r].pc = "store_code"
           /\ enrolling'[r].pc = "store_code" => enrolling'[r].what = row'.phone
           /\ enrolling'[r].pc = "verify_phone" => row'.phone \in owned' \cup {None}
  PROVE  PhoneAnswered'
<1>1. ASSUME ~ overlap', NEW s \in Req \ {r}
      PROVE  enrolling'[s].pc = "idle"
  BY <1>1 DEF OneEnrols, Enrolling
<1> QED
  BY <1>1 DEF PhoneAnswered

LEMMA BackupStays ==
  ASSUME BackupAnswered, NEW r \in Req, OneEnrols(r), owned \subseteq owned',
         row'.backup = row.backup, row'.backupVerified = row.backupVerified,
         enrolling'[r].pc \notin {"match_backup", "verify_backup"}
  PROVE  BackupAnswered'
  BY DEF BackupAnswered, OneEnrols

LEMMA BackupMoves ==
  ASSUME BackupAnswered, NEW r \in Req, OneEnrols(r), owned \subseteq owned',
         enrolling'[r].pc \in {"match_backup", "verify_backup"}
           => enrolling'[r].what \in owned',
         ~ overlap' => /\ row'.backupVerified => row'.backup \in owned'
                       /\ enrolling'[r].pc = "verify_backup"
                            => enrolling'[r].what = row'.backup
  PROVE  BackupAnswered'
<1>1. ASSUME NEW s \in Req, enrolling'[s].pc \in {"match_backup", "verify_backup"}
      PROVE  enrolling'[s].what \in owned'
  BY <1>1 DEF BackupAnswered, OneEnrols
<1>2. ASSUME ~ overlap', NEW s \in Req \ {r}
      PROVE  enrolling'[s].pc = "idle"
  BY <1>2 DEF OneEnrols, Enrolling
<1> QED
  BY <1>1, <1>2 DEF BackupAnswered

\* What the requests rely on, typed.
LEMMA EnrolmentHas ==
  ASSUME EnrolmentInv
  PROVE  /\ E!TypeOK /\ EnrolmentTypes /\ InTurn /\ PhoneAnswered /\ BackupAnswered
         /\ RowTyped(row) /\ errors \in Nat /\ errors \in 0..MaxErrors
         /\ setup \in Secret \cup {None} /\ code \in Phone \cup {None}
         /\ tokens \subseteq Backup /\ shown \subseteq Secret
         /\ owned \subseteq Phone \cup Backup
         /\ saved \in [method : E!Methods, secret : Secret \cup {None}]
<1>1. E!TypeOK /\ EnrolmentTypes /\ InTurn /\ PhoneAnswered /\ BackupAnswered
  BY DEF EnrolmentInv, EnrolmentTypes
<1>2. /\ errors \in 0..MaxErrors /\ setup \in Secret \cup {None}
      /\ code \in Phone \cup {None} /\ tokens \subseteq Backup /\ shown \subseteq Secret
      /\ owned \subseteq Phone \cup Backup
      /\ saved \in [method : E!Methods, secret : Secret \cup {None}]
  BY <1>1, Zenon DEF E!TypeOK
<1>3. errors \in Nat
  BY <1>2
<1> QED
  BY <1>1, <1>2, <1>3, RowIsTyped

\* A step that touches neither the number nor the address.
LEMMA EnrolmentAside ==
  ASSUME EnrolmentInv, NEW r \in Req, OneEnrols(r), Carried(enrolling'[r]), RowTyped(row)',
         row'.phone = row.phone, row'.phoneVerified = row.phoneVerified,
         row'.backup = row.backup, row'.backupVerified = row.backupVerified,
         setup' \in Secret \cup {None}, shown' \subseteq Secret,
         saved' \in [method : E!Methods, secret : Secret \cup {None}],
         code' \in {code, None}, tokens' \subseteq tokens, owned' = owned,
         enrolling[r].pc # "store_code",
         enrolling'[r].pc \notin {"store_code", "verify_phone", "match_backup",
                                  "verify_backup"}
  PROVE  EnrolmentInv'
<1>1. code \in Phone \cup {None} /\ tokens \subseteq Backup /\ errors \in Nat
      /\ owned \subseteq Phone \cup Backup
  BY EnrolmentHas
<1>2. EnrolmentTypes'
  BY <1>1, EnrolmentTypesMove DEF EnrolmentInv
<1>3. PhoneAnswered'
  BY <1>1, PhoneStays DEF EnrolmentInv
<1>4. BackupAnswered'
  BY BackupStays DEF EnrolmentInv
<1> QED
  BY <1>2, <1>3, <1>4, InTurnMove DEF EnrolmentInv

LEMMA EnrolmentFails ==
  ASSUME EnrolmentInv, E!EnrolmentAssumption, NEW r \in Req, enrolling[r].pc # "idle",
         E!Fail(r, "idle")
  PROVE  EnrolmentInv'
<1> USE EnrolmentHas
<1>1. /\ E!Goto(r, "idle") /\ errors < MaxErrors /\ errors' = errors + 1
      /\ row' = row /\ setup' = setup /\ code' = code /\ tokens' = tokens /\ begun' = begun
      /\ shown' = shown /\ owned' = owned /\ saved' = saved /\ overlap' = overlap
  BY DEF E!Fail, E!history
<1>2. errors' <= MaxErrors /\ errors' # 0
  BY <1>1 DEF E!EnrolmentAssumption
<1>3. OneEnrols(r) /\ enrolling'[r].pc = "idle"
  BY <1>1, <1>2, EnrolmentGoes DEF E!Steps
<1>4. EnrolmentTypes'
  <2>1. Carried(enrolling'[r])
    BY <1>3 DEF Carried
  <2>2. RowTyped(row)'
    BY <1>1 DEF RowTyped, Paired
  <2> QED
    BY <1>1, <1>3, <2>1, <2>2, EnrolmentTypesMove
<1>5. PhoneAnswered'
  BY <1>2, <1>3, PhoneMoves
<1>6. BackupAnswered'
  BY <1>1, <1>3, BackupStays
<1> QED
  BY <1>3, <1>4, <1>5, <1>6, InTurnMove DEF EnrolmentInv

\* A key that lapses between two commands.
LEMMA EnrolmentLapses ==
  ASSUME EnrolmentInv,
         row' = row /\ enrolling' = enrolling /\ begun' = begun /\ errors' = errors,
         E!history' = E!history, setup' \in {setup, None}, code' \in {code, None},
         tokens' \subseteq tokens
  PROVE  EnrolmentInv'
<1> USE EnrolmentHas
<1>1. shown' = shown /\ owned' = owned /\ saved' = saved /\ overlap' = overlap
  BY DEF E!history
<1>2. E!TypeOK'
  BY <1>1 DEF E!TypeOK
<1>3. EnrolmentTypes'
  BY <1>2 DEF EnrolmentTypes, Paired, Carried
<1>4. InTurn' /\ BackupAnswered'
  BY <1>1 DEF InTurn, BackupAnswered, Enrolling
<1>5. PhoneAnswered'
  BY <1>1 DEF PhoneAnswered
<1> QED
  BY <1>3, <1>4, <1>5 DEF EnrolmentInv

-----------------------------------------------------------------------------
(* The number.                                                              *)

LEMMA EnrolmentAddPhone ==
  ASSUME EnrolmentInv, E!EnrolmentAssumption, NEW r \in Req, NEW p \in Phone,
         E!AddPhone(r, p)
  PROVE  EnrolmentInv'
<1> USE EnrolmentHas
<1>1. /\ E!Begin(r, "store_code", p, "")
      /\ row' = [row EXCEPT !.phone = p, !.phoneVerified = FALSE]
      /\ setup' = setup /\ code' = code /\ tokens' = tokens /\ errors' = errors
      /\ shown' = shown /\ owned' = owned /\ saved' = saved
  BY DEF E!AddPhone, E!SetPhoneNumber
<1>2. /\ OneEnrols(r) /\ enrolling'[r].pc = "store_code" /\ enrolling'[r].what = p
  BY <1>1, EnrolmentBegins DEF E!Steps, E!Methods
<1>3. /\ RowTyped(row') /\ row'.phone = p /\ row'.phoneVerified = FALSE
      /\ row'.backup = row.backup /\ row'.backupVerified = row.backupVerified
  BY <1>1 DEF RowTyped, E!Row, Paired
<1>4. EnrolmentTypes'
  <2>1. Carried(enrolling'[r])
    BY <1>2 DEF Carried
  <2> QED
    BY <1>1, <1>2, <1>3, <2>1, EnrolmentTypesMove DEF RowTyped
<1>5. PhoneAnswered'
  BY <1>2, <1>3, PhoneMoves
<1>6. BackupAnswered'
  BY <1>1, <1>2, <1>3, BackupStays
<1> QED
  BY <1>2, <1>4, <1>5, <1>6, InTurnMove DEF EnrolmentInv

LEMMA EnrolmentRemovePhone ==
  ASSUME EnrolmentInv, E!EnrolmentAssumption, NEW r \in Req, E!RemovePhone(r)
  PROVE  EnrolmentInv'
<1> USE EnrolmentHas
<1>1. /\ E!Begin(r, "idle", None, "")
      /\ row' = [row EXCEPT !.phone = None, !.phoneVerified = FALSE]
      /\ setup' = setup /\ code' = code /\ tokens' = tokens /\ errors' = errors
      /\ shown' = shown /\ owned' = owned /\ saved' = saved
  BY DEF E!RemovePhone, E!SetPhoneNumber
<1>2. /\ OneEnrols(r) /\ enrolling'[r].pc = "idle"
  BY <1>1, EnrolmentBegins DEF E!Steps, E!Methods
<1>3. /\ RowTyped(row') /\ row'.phone = None /\ row'.phoneVerified = FALSE
      /\ row'.backup = row.backup /\ row'.backupVerified = row.backupVerified
  BY <1>1 DEF RowTyped, E!Row, Paired
<1>4. EnrolmentTypes'
  <2>1. Carried(enrolling'[r])
    BY <1>2 DEF Carried
  <2> QED
    BY <1>1, <1>2, <1>3, <2>1, EnrolmentTypesMove DEF RowTyped
<1>5. PhoneAnswered'
  BY <1>2, <1>3, PhoneMoves
<1>6. BackupAnswered'
  BY <1>1, <1>2, <1>3, BackupStays
<1> QED
  BY <1>2, <1>4, <1>5, <1>6, InTurnMove DEF EnrolmentInv

LEMMA EnrolmentSetCode ==
  ASSUME EnrolmentInv, E!EnrolmentAssumption, NEW r \in Req,
         E!SetPhoneVerificationCode(r)
  PROVE  EnrolmentInv'
<1> USE EnrolmentHas
<1>1. enrolling[r].pc = "store_code"
  BY DEF E!SetPhoneVerificationCode, E!At
<1>2. CASE E!Fail(r, "idle")
  BY <1>1, <1>2, EnrolmentFails
<1>3. CASE ~ E!Fail(r, "idle")
  <2>1. /\ code' = enrolling[r].what /\ E!Goto(r, "idle")
        /\ row' = row /\ setup' = setup /\ tokens' = tokens /\ begun' = begun
        /\ errors' = errors
        /\ shown' = shown /\ owned' = owned /\ saved' = saved /\ overlap' = overlap
    BY <1>3 DEF E!SetPhoneVerificationCode, E!history
  <2>2. /\ OneEnrols(r) /\ enrolling'[r].pc = "idle"
    BY <1>1, <2>1, EnrolmentGoes DEF E!Steps
  <2>3. code' \in Phone
    BY <1>1, <2>1 DEF EnrolmentTypes, Carried
  <2>4. EnrolmentTypes'
    <3>1. Carried(enrolling'[r])
      BY <2>2 DEF Carried
    <3>2. RowTyped(row)'
      BY <2>1 DEF RowTyped, Paired
    <3> QED
      BY <2>1, <2>2, <2>3, <3>1, <3>2, EnrolmentTypesMove
  <2>5. PhoneAnswered'
    <3>1. ~ overlap' /\ errors' = 0 => code' = row.phone
      BY <1>1, <2>1 DEF PhoneAnswered
    <3>2. ~ overlap' /\ errors' = 0 =>
            (row'.phoneVerified => row'.phone \in owned' \cup {None})
      BY <2>1 DEF PhoneAnswered
    <3> QED
      BY <2>1, <2>2, <3>1, <3>2, PhoneMoves
  <2>6. BackupAnswered'
    BY <2>1, <2>2, BackupStays
  <2> QED
    BY <2>2, <2>4, <2>5, <2>6, InTurnMove DEF EnrolmentInv
<1> QED
  BY <1>2, <1>3

LEMMA EnrolmentVerifyPhone ==
  ASSUME EnrolmentInv, E!EnrolmentAssumption, NEW r \in Req, E!VerifyPhone(r)
  PROVE  EnrolmentInv'
<1> USE EnrolmentHas
<1>1. /\ code \in Phone /\ E!Begin(r, "verify_phone", code, "") /\ row' = row
      /\ setup' = setup /\ code' = code /\ tokens' = tokens /\ errors' = errors
      /\ shown' = shown /\ owned' = owned \cup {code} /\ saved' = saved
  BY DEF E!VerifyPhone
<1>2. /\ OneEnrols(r) /\ enrolling'[r].pc = "verify_phone"
      /\ ~ overlap' => \A s \in Req : ~ Enrolling(s)
  BY <1>1, EnrolmentBegins DEF E!Steps, E!Methods
<1>3. EnrolmentTypes'
  <2>1. Carried(enrolling'[r])
    BY <1>2 DEF Carried
  <2>2. RowTyped(row)'
    BY <1>1 DEF RowTyped, Paired
  <2> QED
    BY <1>1, <1>2, <2>1, <2>2, EnrolmentTypesMove
<1>4. PhoneAnswered'
  <2>1. ASSUME ~ overlap', errors' = 0
        PROVE  /\ row'.phone \in owned' \cup {None}
               /\ code' \in {None, row'.phone} \/ row'.phone = None
    <3>1. ~ overlap /\ errors = 0 /\ \A s \in Req : enrolling[s].pc = "idle"
      BY <1>1, <1>2, <2>1 DEF OneEnrols, Enrolling
    <3>2. code # None
      BY DEF E!VerifyPhone
    <3>3. code \in {None, row.phone} \/ row.phone = None
      BY <3>1 DEF PhoneAnswered
    <3> QED
      BY <1>1, <3>2, <3>3
  <2> QED
    BY <1>1, <1>2, <2>1, PhoneMoves
<1>5. BackupAnswered'
  BY <1>1, <1>2, BackupStays
<1> QED
  BY <1>2, <1>3, <1>4, <1>5, InTurnMove DEF EnrolmentInv

LEMMA EnrolmentMarkPhone ==
  ASSUME EnrolmentInv, E!EnrolmentAssumption, NEW r \in Req, E!VerifyPhoneNumber(r)
  PROVE  EnrolmentInv'
<1> USE EnrolmentHas
<1>1. /\ enrolling[r].pc = "verify_phone" /\ E!Goto(r, "drop_code")
      /\ row' = [row EXCEPT !.phoneVerified = TRUE]
      /\ setup' = setup /\ code' = code /\ tokens' = tokens /\ errors' = errors
      /\ begun' = begun
      /\ shown' = shown /\ owned' = owned /\ saved' = saved /\ overlap' = overlap
  BY DEF E!VerifyPhoneNumber, E!At, E!history
<1>2. /\ OneEnrols(r) /\ enrolling'[r].pc = "drop_code"
  BY <1>1, EnrolmentGoes DEF E!Steps
<1>3. /\ RowTyped(row') /\ row'.phone = row.phone
      /\ row'.backup = row.backup /\ row'.backupVerified = row.backupVerified
  BY <1>1 DEF RowTyped, E!Row, Paired
<1>4. EnrolmentTypes'
  <2>1. Carried(enrolling'[r])
    BY <1>2 DEF Carried
  <2> QED
    BY <1>1, <1>2, <1>3, <2>1, EnrolmentTypesMove DEF RowTyped
<1>5. PhoneAnswered'
  <2>1. ASSUME ~ overlap', errors' = 0
        PROVE  /\ row'.phone \in owned' \cup {None}
               /\ code' \in {None, row'.phone} \/ row'.phone = None
    <3>1. ~ overlap /\ errors = 0 /\ \A s \in Req \ {r} : enrolling[s].pc = "idle"
      BY <1>1, <1>2, <2>1 DEF OneEnrols, Enrolling
    <3> QED
      BY <1>1, <1>3, <3>1 DEF PhoneAnswered
  <2> QED
    BY <1>2, <2>1, PhoneMoves
<1>6. BackupAnswered'
  BY <1>1, <1>2, <1>3, BackupStays
<1> QED
  BY <1>2, <1>4, <1>5, <1>6, InTurnMove DEF EnrolmentInv

\* The request ends with the deletion of what it used.
LEMMA EnrolmentDrops ==
  ASSUME EnrolmentInv, E!EnrolmentAssumption, NEW r \in Req,
         enrolling[r].pc \in {"drop_code", "drop_token", "drop_setup"}, E!Goto(r, "idle"),
         row' = row /\ begun' = begun /\ errors' = errors, E!history' = E!history,
         setup' \in {setup, None}, code' \in {code, None}, tokens' \subseteq tokens
  PROVE  EnrolmentInv'
<1> USE EnrolmentHas
<1>1. shown' = shown /\ owned' = owned /\ saved' = saved /\ overlap' = overlap
  BY DEF E!history
<1>2. OneEnrols(r) /\ enrolling'[r].pc = "idle"
  BY <1>1, EnrolmentGoes DEF E!Steps
<1>3. Carried(enrolling'[r])
  BY <1>2 DEF Carried
<1>4. RowTyped(row)'
  BY DEF RowTyped, Paired
<1> QED
  BY <1>1, <1>2, <1>3, <1>4, EnrolmentAside

LEMMA EnrolmentDropSteps ==
  ASSUME EnrolmentInv, E!EnrolmentAssumption, NEW r \in Req,
         \/ E!DeletePhoneVerificationCode(r) \/ E!DeleteBackupEmailToken(r)
         \/ E!DeleteTempTwoFASecret(r)
  PROVE  EnrolmentInv'
<1>1. enrolling[r].pc \in {"drop_code", "drop_token", "drop_setup"}
  BY DEF E!DeletePhoneVerificationCode, E!DeleteBackupEmailToken, E!DeleteTempTwoFASecret,
         E!At
<1>2. CASE E!Fail(r, "idle")
  BY <1>1, <1>2, EnrolmentFails
<1>3. CASE ~ E!Fail(r, "idle")
  <2>1. /\ E!Goto(r, "idle") /\ row' = row /\ begun' = begun /\ errors' = errors
        /\ E!history' = E!history /\ setup' \in {setup, None} /\ code' \in {code, None}
        /\ tokens' \subseteq tokens
    BY <1>3 DEF E!DeletePhoneVerificationCode, E!DeleteBackupEmailToken,
                E!DeleteTempTwoFASecret, E!history
  <2> QED
    BY <1>1, <2>1, EnrolmentDrops
<1> QED
  BY <1>2, <1>3

-----------------------------------------------------------------------------
(* The backup address.                                                      *)

LEMMA EnrolmentSetBackup ==
  ASSUME EnrolmentInv, E!EnrolmentAssumption, NEW r \in Req,
         \/ \E b \in Backup : E!AddBackupEmail(r, b)
         \/ E!RemoveBackupEmail(r)
  PROVE  EnrolmentInv'
<1> USE EnrolmentHas
<1>1. PICK b \in Backup \cup {None} :
        /\ \/ b \in Backup /\ E!Begin(r, "store_token", b, "")
           \/ E!Begin(r, "idle", None, "")
        /\ row' = [row EXCEPT !.backup = b, !.backupVerified = FALSE]
        /\ setup' = setup /\ code' = code /\ tokens' = tokens /\ errors' = errors
        /\ shown' = shown /\ owned' = owned /\ saved' = saved
  BY Zenon DEF E!AddBackupEmail, E!RemoveBackupEmail, E!SetBackupEmail
<1>2. /\ OneEnrols(r) /\ enrolling'[r].pc \in {"store_token", "idle"}
      /\ enrolling[r].pc = "idle"
      /\ enrolling'[r].pc = "store_token" => enrolling'[r].what \in Backup
  BY <1>1, EnrolmentBegins DEF E!Steps, E!Methods
<1>3. /\ RowTyped(row') /\ row'.phone = row.phone /\ row'.phoneVerified = row.phoneVerified
      /\ row'.backupVerified = FALSE
  BY <1>1 DEF RowTyped, E!Row, Paired
<1>4. EnrolmentTypes'
  <2>1. Carried(enrolling'[r])
    BY <1>2 DEF Carried
  <2> QED
    BY <1>1, <1>2, <1>3, <2>1, EnrolmentTypesMove DEF RowTyped
<1>5. PhoneAnswered'
  BY <1>1, <1>2, <1>3, PhoneStays
<1>6. BackupAnswered'
  BY <1>1, <1>2, <1>3, BackupMoves
<1> QED
  BY <1>2, <1>4, <1>5, <1>6, InTurnMove DEF EnrolmentInv

LEMMA EnrolmentSetToken ==
  ASSUME EnrolmentInv, E!EnrolmentAssumption, NEW r \in Req,
         E!SetBackupEmailVerificationToken(r)
  PROVE  EnrolmentInv'
<1> USE EnrolmentHas
<1>1. enrolling[r].pc = "store_token"
  BY DEF E!SetBackupEmailVerificationToken, E!At
<1>2. CASE E!Fail(r, "idle")
  BY <1>1, <1>2, EnrolmentFails
<1>3. CASE ~ E!Fail(r, "idle")
  <2>1. /\ tokens' = tokens \cup {enrolling[r].what} /\ E!Goto(r, "idle")
        /\ row' = row /\ setup' = setup /\ code' = code /\ begun' = begun
        /\ errors' = errors
        /\ shown' = shown /\ owned' = owned /\ saved' = saved /\ overlap' = overlap
    BY <1>3 DEF E!SetBackupEmailVerificationToken, E!history
  <2>2. /\ OneEnrols(r) /\ enrolling'[r].pc = "idle"
    BY <1>1, <2>1, EnrolmentGoes DEF E!Steps
  <2>3. tokens' \subseteq Backup
    BY <1>1, <2>1 DEF EnrolmentTypes, Carried
  <2>4. EnrolmentTypes'
    <3>1. Carried(enrolling'[r])
      BY <2>2 DEF Carried
    <3>2. RowTyped(row)'
      BY <2>1 DEF RowTyped, Paired
    <3> QED
      BY <2>1, <2>2, <2>3, <3>1, <3>2, EnrolmentTypesMove
  <2>5. PhoneAnswered'
    BY <1>1, <2>1, <2>2, PhoneStays
  <2>6. BackupAnswered'
    BY <2>1, <2>2, BackupStays
  <2> QED
    BY <2>2, <2>4, <2>5, <2>6, InTurnMove DEF EnrolmentInv
<1> QED
  BY <1>2, <1>3

LEMMA EnrolmentVerifyBackup ==
  ASSUME EnrolmentInv, E!EnrolmentAssumption, NEW r \in Req, NEW b \in Backup,
         E!VerifyBackupEmail(r, b)
  PROVE  EnrolmentInv'
<1> USE EnrolmentHas
<1>1. /\ E!Begin(r, "match_backup", b, "") /\ row' = row
      /\ setup' = setup /\ code' = code /\ tokens' = tokens /\ errors' = errors
      /\ shown' = shown /\ owned' = owned \cup {b} /\ saved' = saved
  BY DEF E!VerifyBackupEmail
<1>2. /\ OneEnrols(r) /\ enrolling'[r].pc = "match_backup" /\ enrolling'[r].what = b
      /\ enrolling[r].pc = "idle"
  BY <1>1, EnrolmentBegins DEF E!Steps, E!Methods
<1>3. EnrolmentTypes'
  <2>1. Carried(enrolling'[r])
    BY <1>2 DEF Carried
  <2>2. RowTyped(row)'
    BY <1>1 DEF RowTyped, Paired
  <2> QED
    BY <1>1, <1>2, <2>1, <2>2, EnrolmentTypesMove
<1>4. PhoneAnswered'
  BY <1>1, <1>2, PhoneStays
<1>5. BackupAnswered'
  <2>1. ~ overlap' => (row'.backupVerified => row'.backup \in owned')
    BY <1>1, <1>2 DEF BackupAnswered, OneEnrols
  <2> QED
    BY <1>1, <1>2, <2>1, BackupMoves
<1> QED
  BY <1>2, <1>3, <1>4, <1>5, InTurnMove DEF EnrolmentInv

LEMMA EnrolmentMatchBackup ==
  ASSUME EnrolmentInv, E!EnrolmentAssumption, NEW r \in Req, E!MatchBackupEmail(r)
  PROVE  EnrolmentInv'
<1> USE EnrolmentHas
<1> DEFINE step == IF E!StillPending(enrolling[r].what) THEN "verify_backup" ELSE "idle"
<1>1. /\ enrolling[r].pc = "match_backup" /\ E!Goto(r, step) /\ row' = row
      /\ setup' = setup /\ code' = code /\ tokens' = tokens /\ errors' = errors
      /\ begun' = begun
      /\ shown' = shown /\ owned' = owned /\ saved' = saved /\ overlap' = overlap
  BY DEF E!MatchBackupEmail, E!At, E!history
<1>2. /\ step \in {"verify_backup", "idle"}
      /\ step = "verify_backup" => enrolling[r].what = row.backup
  BY DEF E!StillPending
<1> HIDE DEF step
<1>3. /\ OneEnrols(r) /\ enrolling'[r].pc = step
      /\ step # "idle" => enrolling'[r].what = enrolling[r].what
  BY <1>1, <1>2, EnrolmentGoes DEF E!Steps
<1>4. enrolling[r].what \in Backup /\ enrolling[r].what \in owned
  BY <1>1 DEF EnrolmentTypes, Carried, BackupAnswered
<1>5. EnrolmentTypes'
  <2>1. Carried(enrolling'[r])
    BY <1>2, <1>3, <1>4 DEF Carried
  <2>2. RowTyped(row)'
    BY <1>1 DEF RowTyped, Paired
  <2> QED
    BY <1>1, <1>3, <2>1, <2>2, EnrolmentTypesMove
<1>6. PhoneAnswered'
  BY <1>1, <1>2, <1>3, PhoneStays
<1>7. BackupAnswered'
  <2>1. ~ overlap' => (row'.backupVerified => row'.backup \in owned')
    BY <1>1 DEF BackupAnswered
  <2> QED
    BY <1>1, <1>2, <1>3, <1>4, <2>1, BackupMoves
<1> QED
  BY <1>3, <1>5, <1>6, <1>7, InTurnMove DEF EnrolmentInv

LEMMA EnrolmentMarkBackup ==
  ASSUME EnrolmentInv, E!EnrolmentAssumption, NEW r \in Req, E!MarkBackupEmail(r)
  PROVE  EnrolmentInv'
<1> USE EnrolmentHas
<1>1. /\ enrolling[r].pc = "verify_backup" /\ E!Goto(r, "drop_token")
      /\ row' = [row EXCEPT !.backupVerified = TRUE]
      /\ setup' = setup /\ code' = code /\ tokens' = tokens /\ errors' = errors
      /\ begun' = begun
      /\ shown' = shown /\ owned' = owned /\ saved' = saved /\ overlap' = overlap
  BY DEF E!MarkBackupEmail, E!At, E!history
<1>2. /\ OneEnrols(r) /\ enrolling'[r].pc = "drop_token"
  BY <1>1, EnrolmentGoes DEF E!Steps
<1>3. /\ RowTyped(row') /\ row'.phone = row.phone /\ row'.phoneVerified = row.phoneVerified
      /\ row'.backup = row.backup
  BY <1>1 DEF RowTyped, E!Row, Paired
<1>4. EnrolmentTypes'
  <2>1. Carried(enrolling'[r])
    BY <1>2 DEF Carried
  <2> QED
    BY <1>1, <1>2, <1>3, <2>1, EnrolmentTypesMove DEF RowTyped
<1>5. PhoneAnswered'
  BY <1>1, <1>2, <1>3, PhoneStays
<1>6. BackupAnswered'
  <2>1. ~ overlap' => row'.backup \in owned'
    BY <1>1, <1>3 DEF BackupAnswered
  <2> QED
    BY <1>1, <1>2, <2>1, BackupMoves
<1> QED
  BY <1>2, <1>4, <1>5, <1>6, InTurnMove DEF EnrolmentInv

-----------------------------------------------------------------------------
(* The method.                                                              *)

\* The number, the address and what is known of them are as they were.
SameContacts ==
  /\ row'.phone = row.phone /\ row'.phoneVerified = row.phoneVerified
  /\ row'.backup = row.backup /\ row'.backupVerified = row.backupVerified
  /\ code' = code /\ tokens' = tokens /\ owned' = owned

\* A request that begins, and remembers what it has seen of the method.
LEMMA EnrolmentOpens ==
  ASSUME EnrolmentInv, E!EnrolmentAssumption, NEW r \in Req,
         NEW step \in {"idle", "enable_totp", "enable_sms", "enable_backup", "disable",
                       "read_previous"},
         NEW what \in Secret \cup {None}, NEW method \in E!Methods,
         E!Begin(r, step, what, method), SameContacts, RowTyped(row'),
         step = "enable_totp" => what \in Secret,
         step = "enable_backup" => Paired(method, what),
         setup' \in Secret \cup {None}, shown' \subseteq Secret, saved' = saved,
         errors' = errors
  PROVE  EnrolmentInv'
<1> USE EnrolmentHas
<1>1. /\ OneEnrols(r) /\ enrolling[r].pc = "idle" /\ enrolling'[r].pc = step
      /\ step # "idle" => enrolling'[r].what = what /\ enrolling'[r].method = method
  BY EnrolmentBegins DEF E!Steps
<1>2. Carried(enrolling'[r])
  BY <1>1 DEF Carried
<1>3. (RowTyped(row))'
  BY DEF RowTyped
<1> QED
  BY <1>1, <1>2, <1>3, EnrolmentAside DEF SameContacts

\* One that writes the columns of the method, and goes on or ends.
LEMMA EnrolmentWrites ==
  ASSUME EnrolmentInv, E!EnrolmentAssumption, NEW r \in Req,
         NEW step \in {"idle", "drop_setup"}, E!Goto(r, step),
         enrolling[r].pc \notin {"idle", "store_code"},
         SameContacts, RowTyped(row'), setup' = setup, shown' = shown,
         saved' \in [method : E!Methods, secret : Secret \cup {None}],
         begun' = begun, errors' = errors, overlap' = overlap
  PROVE  EnrolmentInv'
<1> USE EnrolmentHas
<1>1. OneEnrols(r) /\ enrolling'[r].pc = step
  BY EnrolmentGoes DEF E!Steps
<1>2. Carried(enrolling'[r])
  BY <1>1 DEF Carried
<1>3. (RowTyped(row))'
  BY DEF RowTyped
<1> QED
  BY <1>1, <1>2, <1>3, EnrolmentAside DEF SameContacts

LEMMA EnrolmentEnables ==
  ASSUME RowTyped(row), NEW method \in E!Methods \ {""}, NEW secret \in Secret \cup {None},
         Paired(method, secret), E!EnableWith(method, secret),
         code' = code, tokens' = tokens, owned' = owned
  PROVE  RowTyped(row') /\ SameContacts
<1>1. row' = [row EXCEPT !.enabled = TRUE, !.method = method, !.secret = secret]
  BY DEF E!EnableWith
<1> QED
  BY <1>1 DEF RowTyped, E!Row, SameContacts, Paired

LEMMA EnrolmentBeginSteps ==
  ASSUME EnrolmentInv, E!EnrolmentAssumption, NEW r \in Req,
         \/ \E s \in Secret : E!Generate2FA(r, s)
         \/ E!Enable2FA(r) \/ E!PostEmail2FA(r) \/ E!PostSMS2FA(r)
         \/ E!PostBackupEmail2FA(r) \/ E!Disable2FA(r) \/ E!DisableBackupEmail2FA(r)
  PROVE  EnrolmentInv'
<1> USE EnrolmentHas
<1>1. ASSUME NEW s \in Secret, E!Generate2FA(r, s)
      PROVE  EnrolmentInv'
  <2>1. /\ E!Begin(r, "idle", None, "") /\ setup' = s /\ shown' = shown \cup {s}
        /\ row' = row /\ code' = code /\ tokens' = tokens /\ errors' = errors
        /\ owned' = owned /\ saved' = saved
    BY <1>1 DEF E!Generate2FA, E!Generate2FASecret
  <2>2. SameContacts /\ RowTyped(row')
    BY <2>1 DEF SameContacts
  <2> QED
    BY <1>1, <2>1, <2>2, EnrolmentOpens DEF E!Methods
<1>2. CASE E!PostEmail2FA(r)
  <2>1. /\ E!Begin(r, "idle", None, "") /\ E!EnableWith("email", None)
        /\ setup' = setup /\ shown' = shown
        /\ code' = code /\ tokens' = tokens /\ errors' = errors
        /\ owned' = owned /\ saved' = saved
    BY <1>2 DEF E!PostEmail2FA, E!EnableEmail2FA
  <2>2. Paired("email", None)
    BY DEF Paired
  <2>3. SameContacts /\ RowTyped(row')
    BY <2>1, <2>2, EnrolmentEnables DEF E!Methods
  <2> QED
    BY <2>1, <2>3, EnrolmentOpens DEF E!Methods
<1>3. CASE \/ E!Enable2FA(r) \/ E!PostSMS2FA(r) \/ E!PostBackupEmail2FA(r)
           \/ E!Disable2FA(r) \/ E!DisableBackupEmail2FA(r)
  <2>1. /\ row' = row /\ setup' = setup /\ code' = code /\ tokens' = tokens
        /\ errors' = errors /\ shown' = shown /\ owned' = owned /\ saved' = saved
    BY <1>3 DEF E!Enable2FA, E!PostSMS2FA, E!EnableSMS2FA, E!PostBackupEmail2FA,
                E!EnableBackupEmail2FA, E!Disable2FA, E!DisableBackupEmail2FA
  <2>2. SameContacts /\ RowTyped(row')
    BY <2>1 DEF SameContacts
  <2>3. /\ row.method \in E!Methods /\ row.secret \in Secret \cup {None}
        /\ Paired(row.method, row.secret)
    BY DEF RowTyped, E!Row
  <2>4. CASE E!Enable2FA(r)
    <3>1. setup \in Secret /\ E!Begin(r, "enable_totp", setup, "")
      BY <2>4 DEF E!Enable2FA
    <3> QED
      BY <2>1, <2>2, <3>1, EnrolmentOpens DEF E!Methods
  <2>5. CASE E!PostBackupEmail2FA(r)
    <3>1. E!Begin(r, "enable_backup", row.secret, row.method)
      BY <2>5 DEF E!PostBackupEmail2FA, E!EnableBackupEmail2FA
    <3> QED
      BY <2>1, <2>2, <2>3, <3>1, EnrolmentOpens DEF E!Methods
  <2>6. CASE E!PostSMS2FA(r) \/ E!Disable2FA(r) \/ E!DisableBackupEmail2FA(r)
    <3>1. PICK step \in {"enable_sms", "disable", "read_previous"} :
            E!Begin(r, step, None, "")
      BY <2>6 DEF E!PostSMS2FA, E!EnableSMS2FA, E!Disable2FA, E!DisableBackupEmail2FA
    <3> QED
      BY <2>1, <2>2, <3>1, EnrolmentOpens DEF E!Methods
  <2> QED
    BY <1>3, <2>4, <2>5, <2>6
<1> QED
  BY <1>1, <1>2, <1>3

\* The method a request remembers is put back.
SameButMethod ==
  /\ row'.phone = row.phone /\ row'.phoneVerified = row.phoneVerified
  /\ row'.backup = row.backup /\ row'.backupVerified = row.backupVerified

LEMMA RowRestored ==
  ASSUME RowTyped(row), NEW m \in E!Methods, NEW w \in Secret \cup {None}, Paired(m, w),
         row' = [row EXCEPT !.enabled = m # "", !.method = m, !.secret = w,
                            !.prevMethod = "", !.prevSecret = None]
  PROVE  RowTyped(row') /\ SameButMethod
<1>1. PICK b \in BOOLEAN : b = (m # "")
  OBVIOUS
<1>2. row' = [row EXCEPT !.enabled = b, !.method = m, !.secret = w,
                         !.prevMethod = "", !.prevSecret = None]
  BY <1>1
<1>3. row \in E!Row
  BY DEF RowTyped
<1>4. /\ row'.enabled = b /\ row'.method = m /\ row'.secret = w
      /\ row'.prevMethod = "" /\ row'.prevSecret = None /\ SameButMethod
  BY <1>2, <1>3 DEF E!Row, SameButMethod
<1>5. row' \in E!Row
  BY <1>2, <1>3 DEF E!Row, E!Methods
<1>6. Paired("", None)
  BY DEF Paired
<1>7. QED
  BY <1>1, <1>4, <1>5, <1>6 DEF RowTyped

LEMMA EnrolmentWriteSteps ==
  ASSUME EnrolmentInv, E!EnrolmentAssumption, NEW r \in Req,
         \/ E!Enable2FAWithMethod(r) \/ E!EnableSMSWithMethod(r)
         \/ E!SaveAndSwitchToBackupEmail2FA(r) \/ E!ClearTwoFA(r)
         \/ E!RestorePreviousTwoFAMethod(r)
  PROVE  EnrolmentInv'
<1> USE EnrolmentHas
<1>1. /\ setup' = setup /\ code' = code /\ tokens' = tokens /\ begun' = begun
      /\ errors' = errors /\ shown' = shown /\ owned' = owned /\ overlap' = overlap
      /\ saved' = saved \/ E!SaveAndSwitchToBackupEmail2FA(r)
  BY DEF E!Enable2FAWithMethod, E!EnableSMSWithMethod, E!ClearTwoFA, E!history,
         E!SaveAndSwitchToBackupEmail2FA, E!RestorePreviousTwoFAMethod
<1>2. CASE E!Enable2FAWithMethod(r)
  <2>1. /\ enrolling[r].pc = "enable_totp" /\ E!Goto(r, "drop_setup")
        /\ E!EnableWith("totp", enrolling[r].what)
    BY <1>2 DEF E!Enable2FAWithMethod, E!At
  <2>2. enrolling[r].what \in Secret
    BY <2>1 DEF EnrolmentTypes, Carried
  <2>3. Paired("totp", enrolling[r].what)
    BY <2>2 DEF Paired, E!EnrolmentAssumption
  <2>4. SameContacts /\ RowTyped(row')
    BY <1>1, <2>1, <2>2, <2>3, EnrolmentEnables DEF E!Methods
  <2>5. saved' = saved
    BY <1>2 DEF E!Enable2FAWithMethod, E!history
  <2> QED
    BY <1>1, <2>1, <2>4, <2>5, EnrolmentWrites
<1>3. CASE E!EnableSMSWithMethod(r)
  <2>1. /\ enrolling[r].pc = "enable_sms" /\ E!Goto(r, "idle") /\ E!EnableWith("sms", None)
        /\ saved' = saved
    BY <1>3 DEF E!EnableSMSWithMethod, E!At, E!history
  <2>2. Paired("sms", None)
    BY DEF Paired
  <2>3. SameContacts /\ RowTyped(row')
    BY <1>1, <2>1, <2>2, EnrolmentEnables DEF E!Methods
  <2> QED
    BY <1>1, <2>1, <2>3, EnrolmentWrites
<1>4. CASE E!SaveAndSwitchToBackupEmail2FA(r)
  <2>1. /\ enrolling[r].pc = "enable_backup" /\ E!Goto(r, "idle")
        /\ row' = [row EXCEPT !.prevMethod = enrolling[r].method,
                              !.prevSecret = enrolling[r].what, !.enabled = TRUE,
                              !.method = "backup_email", !.secret = None]
        /\ saved' = IF row.method = "backup_email" THEN saved
                    ELSE [method |-> row.method, secret |-> row.secret]
    BY <1>4 DEF E!SaveAndSwitchToBackupEmail2FA, E!At
  <2>2. /\ enrolling[r].what \in Secret \cup {None} /\ enrolling[r].method \in E!Methods
        /\ Paired(enrolling[r].method, enrolling[r].what)
    BY <2>1 DEF EnrolmentTypes, Carried, E!TypeOK, E!Request
  <2>3. SameContacts /\ RowTyped(row')
    BY <1>1, <2>1, <2>2 DEF RowTyped, E!Row, SameContacts, Paired, E!Methods
  <2>4. saved' \in [method : E!Methods, secret : Secret \cup {None}]
    BY <2>1 DEF RowTyped, E!Row
  <2> QED
    BY <1>1, <2>1, <2>3, <2>4, EnrolmentWrites
<1>5. CASE E!ClearTwoFA(r)
  <2>1. /\ enrolling[r].pc = "disable" /\ E!Goto(r, "idle") /\ saved' = saved
        /\ row' = [row EXCEPT !.enabled = FALSE, !.method = "", !.secret = None]
    BY <1>5 DEF E!ClearTwoFA, E!At, E!history
  <2>2. SameContacts /\ RowTyped(row')
    BY <1>1, <2>1 DEF RowTyped, E!Row, SameContacts, Paired, E!Methods
  <2> QED
    BY <1>1, <2>1, <2>2, EnrolmentWrites
<1>6. CASE E!RestorePreviousTwoFAMethod(r)
  <2>1. /\ enrolling[r].pc = "restore" /\ E!Goto(r, "idle") /\ saved' = saved
        /\ row' = [row EXCEPT !.enabled = enrolling[r].method # "",
                              !.method = enrolling[r].method, !.secret = enrolling[r].what,
                              !.prevMethod = "", !.prevSecret = None]
    BY <1>6 DEF E!RestorePreviousTwoFAMethod, E!At, E!history
  <2>2. /\ enrolling[r].what \in Secret \cup {None} /\ enrolling[r].method \in E!Methods
        /\ Paired(enrolling[r].method, enrolling[r].what)
    BY <2>1 DEF EnrolmentTypes, Carried, E!TypeOK, E!Request
  <2>3. PICK m \in E!Methods, w \in Secret \cup {None} :
          m = enrolling[r].method /\ w = enrolling[r].what
    BY <2>2
  <2>4. RowTyped(row') /\ SameButMethod
    BY <2>1, <2>2, <2>3, RowRestored
  <2>5. SameContacts
    BY <1>1, <2>4 DEF SameContacts, SameButMethod
  <2> QED
    BY <1>1, <2>1, <2>4, <2>5, EnrolmentWrites
<1> QED
  BY <1>2, <1>3, <1>4, <1>5, <1>6

LEMMA EnrolmentReadPrevious ==
  ASSUME EnrolmentInv, E!EnrolmentAssumption, NEW r \in Req, E!ReadPrevious(r)
  PROVE  EnrolmentInv'
<1> USE EnrolmentHas
<1> DEFINE q == [pc |-> "restore", what |-> row.prevSecret, method |-> row.prevMethod]
<1>1. /\ enrolling[r].pc = "read_previous" /\ enrolling' = [enrolling EXCEPT ![r] = q]
      /\ row' = row /\ setup' = setup /\ code' = code /\ tokens' = tokens
      /\ begun' = begun /\ errors' = errors /\ shown' = shown /\ owned' = owned
      /\ saved' = saved /\ overlap' = overlap
  BY DEF E!ReadPrevious, E!At, E!history
<1>2. /\ q \in E!Request /\ Carried(q) /\ q.pc = "restore"
  BY DEF RowTyped, E!Row, E!Request, E!Steps, Carried
<1> HIDE DEF q
<1>3. /\ enrolling' \in [Req -> E!Request] /\ enrolling'[r] = q
      /\ \A s \in Req \ {r} : enrolling'[s] = enrolling[s]
  BY <1>1, <1>2 DEF E!TypeOK
<1>4. OneEnrols(r)
  <2>1. begun \in 0..(MaxRequests + 1) /\ overlap \in BOOLEAN /\ errors \in 0..MaxErrors
    BY Zenon DEF E!TypeOK
  <2>3. errors <= errors
    BY <2>1
  <2>2. ~ overlap => \A s \in Req \ {r} : ~ Enrolling(s)
    BY <1>1 DEF InTurn, Enrolling
  <2> QED
    BY <1>1, <1>3, <2>1, <2>2, <2>3 DEF OneEnrols
<1>5. RowTyped(row)'
  BY <1>1 DEF RowTyped, Paired
<1> QED
  BY <1>1, <1>2, <1>3, <1>4, <1>5, EnrolmentAside

-----------------------------------------------------------------------------
(* The theorem.                                                             *)

LEMMA EnrolmentInit ==
  ASSUME E!EnrolmentAssumption, E!Init, errors = 0, MaxRequests \in Nat, overlap = FALSE,
         begun = 0
  PROVE  EnrolmentInv
<1>1. /\ row = [enabled |-> FALSE, method |-> "", secret |-> None,
                prevMethod |-> "", prevSecret |-> None,
                phone |-> None, phoneVerified |-> FALSE,
                backup |-> None, backupVerified |-> FALSE]
      /\ setup = None /\ code = None /\ tokens = {} /\ enrolling = [r \in Req |-> E!Idle]
      /\ shown = {} /\ owned = {} /\ saved = [method |-> "", secret |-> None]
  BY DEF E!Init, E!Plain
<1>2. E!Idle \in E!Request /\ E!Idle.pc = "idle"
  BY DEF E!Idle, E!Request, E!Steps, E!Methods
<1>3. enrolling \in [Req -> E!Request] /\ \A r \in Req : enrolling[r].pc = "idle"
  BY <1>1, <1>2
<1>4. row \in E!Row /\ saved \in [method : E!Methods, secret : Secret \cup {None}]
  BY <1>1 DEF E!Row, E!Methods
<1>5. begun \in 0..(MaxRequests + 1) /\ errors \in 0..MaxErrors
  BY DEF E!EnrolmentAssumption
<1>6. E!TypeOK
  BY <1>1, <1>3, <1>4, <1>5 DEF E!TypeOK
<1>7. EnrolmentTypes
  BY <1>1, <1>3, <1>6 DEF EnrolmentTypes, Paired, Carried
<1> QED
  BY <1>1, <1>3, <1>7 DEF EnrolmentInv, InTurn, PhoneAnswered, BackupAnswered, Enrolling

LEMMA EnrolmentNext ==
  ASSUME EnrolmentInv, E!EnrolmentAssumption, E!Next
  PROVE  EnrolmentInv'
<1>1. CASE E!CodeExpires \/ E!SetupExpires \/ E!TokenExpires
  <2>1. /\ row' = row /\ enrolling' = enrolling /\ begun' = begun /\ errors' = errors
        /\ E!history' = E!history /\ setup' \in {setup, None} /\ code' \in {code, None}
        /\ tokens' \subseteq tokens
    BY <1>1 DEF E!CodeExpires, E!SetupExpires, E!TokenExpires, E!history
  <2> QED
    BY <2>1, EnrolmentLapses
<1>2. ASSUME NEW r \in Req,
             \/ \E p \in Phone : E!AddPhone(r, p)
             \/ E!SetPhoneVerificationCode(r)
             \/ E!VerifyPhone(r) \/ E!VerifyPhoneNumber(r) \/ E!RemovePhone(r)
      PROVE  EnrolmentInv'
  BY <1>2, EnrolmentAddPhone, EnrolmentSetCode, EnrolmentVerifyPhone, EnrolmentMarkPhone,
     EnrolmentRemovePhone
<1>3. ASSUME NEW r \in Req,
             \/ \E b \in Backup : E!AddBackupEmail(r, b) \/ E!VerifyBackupEmail(r, b)
             \/ E!SetBackupEmailVerificationToken(r)
             \/ E!MatchBackupEmail(r) \/ E!MarkBackupEmail(r) \/ E!RemoveBackupEmail(r)
      PROVE  EnrolmentInv'
  BY <1>3, EnrolmentSetBackup, EnrolmentSetToken, EnrolmentVerifyBackup,
     EnrolmentMatchBackup, EnrolmentMarkBackup
<1>4. ASSUME NEW r \in Req,
             \/ E!DeletePhoneVerificationCode(r) \/ E!DeleteBackupEmailToken(r)
             \/ E!DeleteTempTwoFASecret(r)
      PROVE  EnrolmentInv'
  BY <1>4, EnrolmentDropSteps
<1>5. ASSUME NEW r \in Req,
             \/ \E s \in Secret : E!Generate2FA(r, s)
             \/ E!Enable2FA(r) \/ E!PostEmail2FA(r) \/ E!PostSMS2FA(r)
             \/ E!PostBackupEmail2FA(r) \/ E!Disable2FA(r) \/ E!DisableBackupEmail2FA(r)
      PROVE  EnrolmentInv'
  BY <1>5, EnrolmentBeginSteps
<1>6. ASSUME NEW r \in Req,
             \/ E!Enable2FAWithMethod(r) \/ E!EnableSMSWithMethod(r)
             \/ E!SaveAndSwitchToBackupEmail2FA(r) \/ E!ClearTwoFA(r)
             \/ E!RestorePreviousTwoFAMethod(r) \/ E!ReadPrevious(r)
      PROVE  EnrolmentInv'
  BY <1>6, EnrolmentWriteSteps, EnrolmentReadPrevious
<1> QED
  BY <1>1, <1>2, <1>3, <1>4, <1>5, <1>6 DEF E!Next

LEMMA EnrolmentRests ==
  ASSUME EnrolmentInv, UNCHANGED <<begun, errors, overlap, enrolmentVars>>
  PROVE  EnrolmentInv'
<1>1. /\ row' = row /\ enrolling' = enrolling /\ begun' = begun /\ errors' = errors
      /\ E!history' = E!history /\ setup' = setup /\ code' = code /\ tokens' = tokens
  BY DEF enrolmentVars, E!history
<1> QED
  BY <1>1, EnrolmentLapses

\* VerifyPhone and VerifyBackupEmail (twofa/service.go:625-645, 773-786) mark the column
\* the row has at that moment, by what a code or a token answered: a number or an address
\* marked as verified is one whose owner answered, unless requests overlapped or the
\* code of a new number could not be stored; and the method always fits its secret.
THEOREM ContactsAreOwned == AllSpec => []VerifiedByOwner
<1> DEFINE Kept == part = "enrolment" => EnrolmentInv
<1> USE SignInAssumption
<1>1. AllInit => Kept
  <2> SUFFICES ASSUME AllInit, part = "enrolment"
               PROVE  EnrolmentInv
    OBVIOUS
  <2>1. E!Init /\ errors = 0 /\ overlap = FALSE /\ begun = 0
    BY DEF AllInit, E!Init
  <2>2. MaxRequests \in Nat
    BY DEF LockoutAssumption
  <2> QED
    BY <2>1, <2>2, EnrolmentInit
<1>2. Kept /\ [AllNext]_allVars => Kept'
  <2> SUFFICES ASSUME Kept, [AllNext]_allVars, part' = "enrolment"
               PROVE  EnrolmentInv'
    OBVIOUS
  <2>1. CASE Enrolment
    BY <2>1, EnrolmentNext DEF Enrolment
  <2>2. CASE Lockout \/ RateLimit \/ SecondFactor \/ Passkeys
    BY <2>2 DEF Lockout, RateLimit, SecondFactor, Passkeys, shared
  <2>3. CASE UNCHANGED allVars
    BY <2>3, EnrolmentRests DEF allVars, shared
  <2> QED
    BY <2>1, <2>2, <2>3 DEF AllNext
<1>3. Kept => VerifiedByOwner
  <2> SUFFICES ASSUME Kept, part = "enrolment"
               PROVE  E!TypeOK /\ E!VerifiedByOwner
    BY DEF VerifiedByOwner
  <2>1. EnrolmentInv
    OBVIOUS
  <2>2. E!TypeOK /\ errors \in Nat
    BY <2>1, EnrolmentHas
  <2>3. E!VerifiedByOwner
    BY <2>1, <2>2 DEF EnrolmentInv, PhoneAnswered, BackupAnswered, E!VerifiedByOwner
  <2> QED
    BY <2>2, <2>3
<1> QED
  BY <1>1, <1>2, <1>3, PTL DEF AllSpec

-----------------------------------------------------------------------------
(* Second factors (SecondFactor).  A temporary token, a mailed code and a   *)
(* recovery code are each presented by a request, taken from the store,     *)
(* and counted when the request signs in.                                   *)

Serving(r) == verifying[r].pc # "idle"

\* How many requests may hold the same token or code: all slots, or one.
Most == IF overlap THEN Cardinality(Req) ELSE 1

\* Requests that were served one after the other.
Apart == ~ overlap => \A p, q \in Req : Serving(p) /\ Serving(q) => p = q

\* A request that has shown a token, and may yet sign in; one that has signed in
\* and has not yet deleted it.
Shows(q, t) ==
  /\ q.temp = t
  /\ q.pc \in {"factor", "recovery", "rewrite", "drop_mail", "session"}
Spent(q, t) == q.temp = t /\ q.pc = "clear"
Showing(t) == Cardinality({r \in Req : Shows(verifying[r], t)})
Spending(t) == Cardinality({r \in Req : Spent(verifying[r], t)})

\* A mailed code that was right, and is not counted yet.
Right(q, n) == q.code = n /\ q.pc \in {"drop_mail", "session"}
Trusted(n) == Cardinality({r \in Req : Right(verifying[r], n)})

\* What a request holds was issued, at the steps that look at it.
Holds(q, sent) ==
  /\ q.pc \in {"factor", "recovery", "rewrite", "drop_mail", "session", "clear"} =>
       q.temp \in sent.temps /\ q.agent \in Agent /\ q.code <= sent.mails
  /\ q.pc \in {"dedup", "create"} => q.agent \in Agent
  /\ q.pc \in {"recovery", "rewrite"} => q.recovery \in F!Recovery /\ q.code = 0
  /\ q.pc \in {"factor", "drop_mail"} => q.recovery = F!Nothing

Issued == [temps : SUBSET Temp, mails : 0..MaxMails, batches : 1..MaxBatches,
           devices : 0..MaxDevices]

\* What was issued bounds what is stored, held and counted.
FactorTypes ==
  /\ F!TypeOK
  /\ issued \in Issued
  /\ \A t \in Temp \ issued.temps : honoured.temps[t] = 0
  /\ \A n \in 1..MaxMails : n > issued.mails => honoured.mails[n] = 0
  /\ \A r \in Req : Holds(verifying[r], issued)

\* While a token is stored, the requests it has let in are still to delete it;
\* when it is gone, those that hold it are all there will ever be.
TokensSpent ==
  errors = 0 => \A t \in Temp :
    IF t \in temps THEN honoured.temps[t] <= Spending(t)
    ELSE honoured.temps[t] + Showing(t) <= Most

\* A mailed code is deleted before it lets anybody in.
MailsSpent ==
  errors = 0 => \A n \in 1..MaxMails :
    IF n = mail \/ n > issued.mails
    THEN /\ honoured.mails[n] = 0
         /\ \A r \in Req : ~ (verifying[r].pc = "session" /\ verifying[r].code = n)
    ELSE honoured.mails[n] + Trusted(n) <= Most

\* A recovery code leaves the list before it lets anybody in, and the list a lone
\* request writes back is the list it has read.
CodesSpent ==
  ~ overlap =>
    /\ factor.codes \subseteq F!Batch(issued.batches)
    /\ \A c \in F!Recovery :
         /\ honoured.recovery[c] <= 1
         /\ c \in factor.codes \/ c[1] > issued.batches => honoured.recovery[c] = 0
    /\ \A r \in Req :
         LET q == verifying[r] IN
         /\ q.pc = "rewrite" => q.list = factor.codes /\ q.recovery \in factor.codes
         /\ q.pc = "session" /\ q.recovery \in F!Recovery =>
              /\ honoured.recovery[q.recovery] = 0
              /\ q.recovery \notin factor.codes /\ q.recovery[1] <= issued.batches

\* A lone request makes a device when its browser has none.
DevicesReplaced ==
  ~ overlap =>
    /\ \A d, e \in devices : d[1] = e[1] => d = e
    /\ \A r \in Req : verifying[r].pc = "create" =>
         \A d \in devices : d[1] # verifying[r].agent

FactorInv ==
  FactorTypes /\ Apart /\ TokensSpent /\ MailsSpent /\ CodesSpent /\ DevicesReplaced

\* An instance has its own copy of the operators on finite sets.
LEMMA SameFiniteSets ==
  ASSUME NEW S
  PROVE  (F!IsFiniteSet(S) <=> IsFiniteSet(S)) /\ F!Cardinality(S) = Cardinality(S)
<1>1. F!IsFiniteSet(S) <=> IsFiniteSet(S)
  BY Zenon DEF F!IsFiniteSet, IsFiniteSet
<1>2. F!Cardinality(S) = Cardinality(S)
  BY Zenon DEF F!Cardinality, Cardinality
<1> QED
  BY <1>1, <1>2

LEMMA FiniteRequests ==
  ASSUME F!SecondFactorAssumption
  PROVE  IsFiniteSet(Req)
<1>1. F!IsFiniteSet(Req)
  BY DEF F!SecondFactorAssumption
<1> QED
  BY <1>1, SameFiniteSets

-----------------------------------------------------------------------------
(* What a step does to its request.                                         *)

SameBut(r) == \A s \in Req \ {r} : verifying'[s] = verifying[s]

\* A request went on at step, or ended.
GoesOn(r, step) ==
  /\ verifying' \in [Req -> F!Request] /\ SameBut(r) /\ verifying'[r].pc = step
  /\ step # "idle" =>
       /\ verifying'[r].temp = verifying[r].temp /\ verifying'[r].code = verifying[r].code
       /\ verifying'[r].recovery = verifying[r].recovery
       /\ verifying'[r].list = verifying[r].list
       /\ verifying'[r].agent = verifying[r].agent

LEMMA FactorIdle ==
  F!Idle \in F!Request /\ F!Idle.pc = "idle"
  BY DEF F!Idle, F!Request, F!Steps

LEMMA FactorGoes ==
  ASSUME F!TypeOK, NEW r \in Req, NEW step \in F!Steps, F!Goto(r, step)
  PROVE  GoesOn(r, step)
<1>1. CASE step = "idle"
  BY <1>1, FactorIdle DEF F!Goto, GoesOn, SameBut, F!TypeOK
<1>2. CASE step # "idle"
  <2> DEFINE q == [verifying[r] EXCEPT !.pc = step]
  <2>1. verifying[r] \in F!Request
    BY DEF F!TypeOK
  <2>2. /\ q \in F!Request /\ q.pc = step /\ q.temp = verifying[r].temp
        /\ q.code = verifying[r].code /\ q.recovery = verifying[r].recovery
        /\ q.list = verifying[r].list /\ q.agent = verifying[r].agent
    BY <2>1 DEF F!Request
  <2>3. verifying' = [verifying EXCEPT ![r] = q]
    BY <1>2 DEF F!Goto
  <2> HIDE DEF q
  <2> QED
    BY <2>2, <2>3 DEF GoesOn, SameBut, F!TypeOK
<1> QED
  BY <1>1, <1>2

LEMMA FactorBegins ==
  ASSUME F!SecondFactorAssumption, F!TypeOK, NEW r \in Req, NEW q \in F!Request,
         F!Begin(r, q)
  PROVE  /\ verifying' \in [Req -> F!Request] /\ SameBut(r)
         /\ verifying[r].pc = "idle" /\ verifying'[r] = q
         /\ begun' \in 0..MaxRequests /\ honoured' = honoured /\ skipped' = skipped
         /\ overlap' = (overlap \/ \E p \in Req : Serving(p)) /\ overlap' \in BOOLEAN
<1>1. verifying' = [verifying EXCEPT ![r] = q] /\ honoured' = honoured /\ skipped' = skipped
  BY DEF F!Begin
<1>2. verifying' \in [Req -> F!Request] /\ SameBut(r) /\ verifying'[r] = q
  BY <1>1 DEF F!TypeOK, SameBut
<1>3. begun' \in 0..MaxRequests
  <2>1. begun < MaxRequests /\ begun' = begun + 1
    BY DEF F!Begin
  <2>2. begun \in 0..MaxRequests /\ MaxRequests \in Nat
    BY DEF F!TypeOK, F!SecondFactorAssumption
  <2> QED
    BY <2>1, <2>2
<1>4. /\ verifying[r].pc = "idle" /\ overlap' \in BOOLEAN
      /\ overlap' = (overlap \/ \E p \in Req : Serving(p))
  BY DEF F!Begin, F!At, F!TypeOK, Serving
<1> QED
  BY <1>1, <1>2, <1>3, <1>4

-----------------------------------------------------------------------------
(* How many requests hold a token or a code.                                *)

ShowingNext(t) == Cardinality({r \in Req : Shows(verifying'[r], t)})
SpendingNext(t) == Cardinality({r \in Req : Spent(verifying'[r], t)})
TrustedNext(n) == Cardinality({r \in Req : Right(verifying'[r], n)})
MostNext == IF overlap' THEN Cardinality(Req) ELSE 1

LEMMA FewHold ==
  ASSUME F!SecondFactorAssumption, Apart, NEW S \in SUBSET {r \in Req : Serving(r)}
  PROVE  IsFiniteSet(S) /\ Cardinality(S) \in Nat /\ Cardinality(S) <= Most
<1>1. IsFiniteSet(Req) /\ S \subseteq Req
  BY FiniteRequests
<1>2. IsFiniteSet(S) /\ Cardinality(S) \in Nat /\ Cardinality(S) <= Cardinality(Req)
  BY <1>1, FS_Subset, FS_CardinalityType
<1>3. ASSUME ~ overlap
      PROVE  Cardinality(S) <= 1
  <2>1. CASE S = {}
    BY <2>1, FS_EmptySet
  <2>2. ASSUME NEW x \in S
        PROVE  Cardinality(S) <= 1
    <3>1. S = {x}
      BY <1>3 DEF Apart
    <3> QED
      BY <3>1, FS_Singleton
  <2> QED
    BY <2>1, <2>2
<1> QED
  BY <1>2, <1>3 DEF Most

LEMMA HoldBounds ==
  ASSUME F!SecondFactorAssumption, Apart
  PROVE  /\ \A t \in Temp : /\ Showing(t) \in Nat /\ Spending(t) \in Nat
                            /\ Showing(t) + Spending(t) <= Most
         /\ \A n \in 1..MaxMails : Trusted(n) \in Nat /\ Trusted(n) <= Most
<1>1. ASSUME NEW t \in Temp
      PROVE  /\ Showing(t) \in Nat /\ Spending(t) \in Nat
             /\ Showing(t) + Spending(t) <= Most
  <2> DEFINE S == {r \in Req : Shows(verifying[r], t)}
             T == {r \in Req : Spent(verifying[r], t)}
  <2>1. /\ S \in SUBSET {r \in Req : Serving(r)} /\ T \in SUBSET {r \in Req : Serving(r)}
        /\ S \cup T \in SUBSET {r \in Req : Serving(r)} /\ S \cap T = {}
    BY DEF Shows, Spent, Serving
  <2>2. Showing(t) = Cardinality(S) /\ Spending(t) = Cardinality(T)
    BY DEF Showing, Spending
  <2> HIDE DEF S, T
  <2>3. IsFiniteSet(S) /\ Cardinality(S) \in Nat
    BY <2>1, FewHold
  <2>4. IsFiniteSet(T) /\ Cardinality(T) \in Nat
    BY <2>1, FewHold
  <2>5. Cardinality(S \cup T) <= Most
    BY <2>1, FewHold
  <2>6. Cardinality(S \cup T) = Cardinality(S) + Cardinality(T) - Cardinality(S \cap T)
    BY <2>3, <2>4, FS_Union
  <2>7. Cardinality(S \cap T) = 0
    BY <2>1, FS_EmptySet
  <2> QED
    BY <2>2, <2>3, <2>4, <2>5, <2>6, <2>7
<1>2. ASSUME NEW n \in 1..MaxMails
      PROVE  Trusted(n) \in Nat /\ Trusted(n) <= Most
  <2> DEFINE S == {r \in Req : Right(verifying[r], n)}
  <2>1. S \in SUBSET {r \in Req : Serving(r)}
    BY DEF Right, Serving
  <2>2. Trusted(n) = Cardinality(S)
    BY DEF Trusted
  <2> HIDE DEF S
  <2> QED
    BY <2>1, <2>2, FewHold
<1> QED
  BY <1>1, <1>2

LEMMA HoldMoves ==
  ASSUME F!SecondFactorAssumption, NEW r \in Req, SameBut(r)
  PROVE  /\ \A t \in Temp :
              /\ Shift(Showing(t), ShowingNext(t), Shows(verifying[r], t),
                       Shows(verifying'[r], t))
              /\ Shift(Spending(t), SpendingNext(t), Spent(verifying[r], t),
                       Spent(verifying'[r], t))
         /\ \A n \in 1..MaxMails :
              Shift(Trusted(n), TrustedNext(n), Right(verifying[r], n),
                    Right(verifying'[r], n))
<1>0. IsFiniteSet(Req)
  BY FiniteRequests
<1>1. ASSUME NEW t \in Temp
      PROVE  Shift(Showing(t), ShowingNext(t), Shows(verifying[r], t), Shows(verifying'[r], t))
  <2> DEFINE S == {s \in Req : Shows(verifying[s], t)}
             T == {s \in Req : Shows(verifying'[s], t)}
  <2>1. S \in SUBSET Req /\ T \in SUBSET Req /\ \A s \in Req \ {r} : s \in S <=> s \in T
    BY DEF SameBut
  <2>2. (r \in S <=> Shows(verifying[r], t)) /\ (r \in T <=> Shows(verifying'[r], t))
    OBVIOUS
  <2>3. Showing(t) = Cardinality(S) /\ ShowingNext(t) = Cardinality(T)
    BY DEF Showing, ShowingNext
  <2> HIDE DEF S, T
  <2>4. Shift(Cardinality(S), Cardinality(T), r \in S, r \in T)
    BY <1>0, <2>1, Count
  <2> QED
    BY <2>2, <2>3, <2>4 DEF Shift
<1>2. ASSUME NEW t \in Temp
      PROVE  Shift(Spending(t), SpendingNext(t), Spent(verifying[r], t), Spent(verifying'[r], t))
  <2> DEFINE S == {s \in Req : Spent(verifying[s], t)}
             T == {s \in Req : Spent(verifying'[s], t)}
  <2>1. S \in SUBSET Req /\ T \in SUBSET Req /\ \A s \in Req \ {r} : s \in S <=> s \in T
    BY DEF SameBut
  <2>2. (r \in S <=> Spent(verifying[r], t)) /\ (r \in T <=> Spent(verifying'[r], t))
    OBVIOUS
  <2>3. Spending(t) = Cardinality(S) /\ SpendingNext(t) = Cardinality(T)
    BY DEF Spending, SpendingNext
  <2> HIDE DEF S, T
  <2>4. Shift(Cardinality(S), Cardinality(T), r \in S, r \in T)
    BY <1>0, <2>1, Count
  <2> QED
    BY <2>2, <2>3, <2>4 DEF Shift
<1>3. ASSUME NEW n \in 1..MaxMails
      PROVE  Shift(Trusted(n), TrustedNext(n), Right(verifying[r], n), Right(verifying'[r], n))
  <2> DEFINE S == {s \in Req : Right(verifying[s], n)}
             T == {s \in Req : Right(verifying'[s], n)}
  <2>1. S \in SUBSET Req /\ T \in SUBSET Req /\ \A s \in Req \ {r} : s \in S <=> s \in T
    BY DEF SameBut
  <2>2. (r \in S <=> Right(verifying[r], n)) /\ (r \in T <=> Right(verifying'[r], n))
    OBVIOUS
  <2>3. Trusted(n) = Cardinality(S) /\ TrustedNext(n) = Cardinality(T)
    BY DEF Trusted, TrustedNext
  <2> HIDE DEF S, T
  <2>4. Shift(Cardinality(S), Cardinality(T), r \in S, r \in T)
    BY <1>0, <2>1, Count
  <2> QED
    BY <2>2, <2>3, <2>4 DEF Shift
<1> QED
  BY <1>1, <1>2, <1>3

-----------------------------------------------------------------------------
(* What keeps each part of the invariant.                                   *)

LEMMA ApartGoes ==
  ASSUME Apart, NEW r \in Req, SameBut(r), Serving(r), overlap' = overlap
  PROVE  Apart'
  BY DEF Apart, SameBut, Serving

LEMMA ApartBegins ==
  ASSUME Apart, NEW r \in Req, SameBut(r), overlap' = (overlap \/ \E p \in Req : Serving(p))
  PROVE  Apart'
  BY DEF Apart, SameBut, Serving

LEMMA MostGrows ==
  ASSUME F!SecondFactorAssumption, NEW r \in Req, overlap => overlap'
  PROVE  Most \in Nat /\ MostNext \in Nat /\ Most <= MostNext
<1>1. Cardinality(Req) \in Nat /\ Cardinality(Req) # 0
  BY FiniteRequests, FS_CardinalityType, FS_EmptySet
<1> QED
  BY <1>1 DEF Most, MostNext

LEMMA FactorTyped ==
  ASSUME F!TypeOK, verifying' \in [Req -> F!Request], honoured' = honoured,
         skipped' \in BOOLEAN, overlap' \in BOOLEAN, begun' \in 0..MaxRequests,
         errors' \in 0..MaxErrors, app' \in [trusts : BOOLEAN],
         factor' \in [active : BOOLEAN, method : {"", "totp", "email"},
                      codes : SUBSET F!Recovery],
         temps' \subseteq issued'.temps, mail' \in 0..issued'.mails,
         devices' \subseteq Agent \X (1..issued'.devices), issued' \in Issued
  PROVE  F!TypeOK'
  BY DEF F!TypeOK, Issued

\* The types, when the histories stay and what is issued grows.
LEMMA TypesStay ==
  ASSUME FactorTypes, NEW r \in Req, SameBut(r), F!TypeOK', issued' \in Issued,
         issued.temps \subseteq issued'.temps, issued.mails <= issued'.mails,
         honoured' = honoured, Holds(verifying'[r], issued')
  PROVE  FactorTypes'
<1>1. issued.mails \in Nat /\ issued'.mails \in Nat
  BY DEF FactorTypes, Issued
<1>2. ASSUME NEW s \in Req
      PROVE  Holds(verifying'[s], issued')
  <2>1. CASE s = r
    BY <2>1
  <2>2. CASE s # r
    <3>1. verifying'[s] = verifying[s] /\ Holds(verifying[s], issued)
      BY <2>2 DEF SameBut, FactorTypes
    <3>2. verifying[s].code \in Nat
      BY DEF FactorTypes, F!TypeOK, F!Request
    <3> QED
      BY <3>1, <3>2, <1>1 DEF Holds
  <2> QED
    BY <2>1, <2>2
<1>3. /\ \A t \in Temp \ issued'.temps : honoured'.temps[t] = 0
      /\ \A n \in 1..MaxMails : n > issued'.mails => honoured'.mails[n] = 0
  BY <1>1 DEF FactorTypes
<1> QED
  BY <1>2, <1>3 DEF FactorTypes

\* Tokens: the request neither takes one from the store nor has one to delete.
LeavesTokens(r) ==
  /\ temps' = temps /\ honoured'.temps = honoured.temps
  /\ \A t \in Temp : /\ ~ Spent(verifying[r], t)
                     /\ Shows(verifying'[r], t) => Shows(verifying[r], t) \/ t \in temps

LEMMA TokensStay ==
  ASSUME F!SecondFactorAssumption, FactorInv, NEW r \in Req, SameBut(r), LeavesTokens(r),
         overlap => overlap', errors' = 0 => errors = 0
  PROVE  TokensSpent'
<1>1. Most \in Nat /\ MostNext \in Nat /\ Most <= MostNext
  BY MostGrows
<1>2. ASSUME errors' = 0, NEW t \in Temp
      PROVE  IF t \in temps' THEN honoured'.temps[t] <= SpendingNext(t)
             ELSE honoured'.temps[t] + ShowingNext(t) <= MostNext
  <2>1. /\ Showing(t) \in Nat /\ Spending(t) \in Nat /\ honoured.temps[t] \in Nat
        /\ honoured'.temps[t] = honoured.temps[t]
    BY HoldBounds DEF FactorInv, FactorTypes, F!TypeOK, LeavesTokens
  <2>2. /\ Shift(Showing(t), ShowingNext(t), Shows(verifying[r], t), Shows(verifying'[r], t))
        /\ Shift(Spending(t), SpendingNext(t), Spent(verifying[r], t), Spent(verifying'[r], t))
    BY HoldMoves
  <2>3. IF t \in temps THEN honoured.temps[t] <= Spending(t)
        ELSE honoured.temps[t] + Showing(t) <= Most
    BY <1>2 DEF FactorInv, TokensSpent
  <2>4. CASE t \in temps
    <3>1. t \in temps' /\ SpendingNext(t) \in {Spending(t), Spending(t) + 1}
      BY <2>2, <2>4 DEF LeavesTokens, Shift
    <3> QED
      BY <3>1, <2>1, <2>3, <2>4
  <2>5. CASE t \notin temps
    <3>1. t \notin temps' /\ ShowingNext(t) \in {Showing(t), Showing(t) - 1}
      BY <2>2, <2>5 DEF LeavesTokens, Shift
    <3> QED
      BY <3>1, <1>1, <2>1, <2>3, <2>5
  <2> QED
    BY <2>4, <2>5
<1> QED
  BY <1>2 DEF TokensSpent, ShowingNext, Showing, SpendingNext, Spending, MostNext, Most

\* Mailed codes: the request is neither answered with one nor comes to sign in.
LeavesMails(r) ==
  /\ mail' = mail /\ issued'.mails = issued.mails /\ honoured'.mails = honoured.mails
  /\ \A n \in 1..MaxMails :
       /\ ~ (verifying'[r].pc = "session" /\ verifying'[r].code = n)
       /\ Right(verifying'[r], n) => Right(verifying[r], n) \/ n = mail

LEMMA MailsStay ==
  ASSUME F!SecondFactorAssumption, FactorInv, NEW r \in Req, SameBut(r), LeavesMails(r),
         overlap => overlap', errors' = 0 => errors = 0
  PROVE  MailsSpent'
<1>1. Most \in Nat /\ MostNext \in Nat /\ Most <= MostNext
  BY MostGrows
<1>2. ASSUME errors' = 0, NEW n \in 1..MaxMails
      PROVE  IF n = mail' \/ n > issued'.mails
             THEN /\ honoured'.mails[n] = 0
                  /\ \A s \in Req : ~ (verifying'[s].pc = "session" /\ verifying'[s].code = n)
             ELSE honoured'.mails[n] + TrustedNext(n) <= MostNext
  <2>1. /\ Trusted(n) \in Nat /\ honoured.mails[n] \in Nat
        /\ honoured'.mails[n] = honoured.mails[n]
    BY HoldBounds DEF FactorInv, FactorTypes, F!TypeOK, LeavesMails
  <2>2. Shift(Trusted(n), TrustedNext(n), Right(verifying[r], n), Right(verifying'[r], n))
    BY HoldMoves
  <2>3. IF n = mail \/ n > issued.mails
        THEN /\ honoured.mails[n] = 0
             /\ \A s \in Req : ~ (verifying[s].pc = "session" /\ verifying[s].code = n)
        ELSE honoured.mails[n] + Trusted(n) <= Most
    BY <1>2 DEF FactorInv, MailsSpent
  <2>4. CASE n = mail \/ n > issued.mails
    <3>1. n = mail' \/ n > issued'.mails
      BY <2>4 DEF LeavesMails
    <3>2. ASSUME NEW s \in Req
          PROVE  ~ (verifying'[s].pc = "session" /\ verifying'[s].code = n)
      BY <2>3, <2>4 DEF SameBut, LeavesMails
    <3> QED
      BY <3>1, <3>2, <2>1, <2>3, <2>4
  <2>5. CASE ~ (n = mail \/ n > issued.mails)
    <3>1. /\ ~ (n = mail' \/ n > issued'.mails)
          /\ TrustedNext(n) \in {Trusted(n), Trusted(n) - 1}
      BY <2>2, <2>5 DEF LeavesMails, Shift
    <3> QED
      BY <3>1, <1>1, <2>1, <2>3, <2>5
  <2> QED
    BY <2>4, <2>5
<1> QED
  BY <1>2 DEF MailsSpent, TrustedNext, Trusted, MostNext, Most

\* Recovery codes: the list stays, and the request has at most just read it.
LeavesCodes(r) ==
  /\ factor'.codes = factor.codes /\ issued'.batches = issued.batches
  /\ honoured'.recovery = honoured.recovery
  /\ verifying'[r].pc = "rewrite" =>
       verifying'[r].list = factor.codes /\ verifying'[r].recovery \in factor.codes
  /\ verifying'[r].pc = "session" => verifying'[r].recovery \notin F!Recovery

LEMMA CodesStay ==
  ASSUME FactorInv, NEW r \in Req, SameBut(r), LeavesCodes(r), overlap => overlap'
  PROVE  CodesSpent'
<1>1. ASSUME ~ overlap', NEW s \in Req
      PROVE  LET q == verifying'[s] IN
             /\ q.pc = "rewrite" => q.list = factor'.codes /\ q.recovery \in factor'.codes
             /\ q.pc = "session" /\ q.recovery \in F!Recovery =>
                  /\ honoured'.recovery[q.recovery] = 0
                  /\ q.recovery \notin factor'.codes
                  /\ q.recovery[1] <= issued'.batches
  <2>1. CASE s = r
    BY <2>1 DEF LeavesCodes
  <2>2. CASE s # r
    BY <1>1, <2>2 DEF LeavesCodes, SameBut, FactorInv, CodesSpent
  <2> QED
    BY <2>1, <2>2
<1>2. ASSUME ~ overlap'
      PROVE  /\ factor'.codes \subseteq F!Batch(issued'.batches)
             /\ \A c \in F!Recovery :
                  /\ honoured'.recovery[c] <= 1
                  /\ c \in factor'.codes \/ c[1] > issued'.batches => honoured'.recovery[c] = 0
  BY <1>2 DEF LeavesCodes, FactorInv, CodesSpent
<1> QED
  BY <1>1, <1>2 DEF CodesSpent, F!Batch

\* A new list, written when no other request holds one.
LEMMA CodesReplaced ==
  ASSUME FactorInv, honoured'.recovery = honoured.recovery, overlap => overlap',
         issued' \in Issued, issued.batches <= issued'.batches,
         factor'.codes \subseteq F!Batch(issued'.batches), factor'.codes \subseteq F!Recovery,
         factor'.codes = {} \/ issued'.batches > issued.batches,
         ~ overlap' => \A s \in Req : verifying'[s].pc = "idle"
  PROVE  CodesSpent'
<1>1. issued.batches \in Nat /\ issued'.batches \in Nat
  BY DEF FactorInv, FactorTypes, Issued
<1>2. ASSUME NEW c \in factor'.codes
      PROVE  c[1] > issued.batches
  BY <1>1, <1>2 DEF F!Batch
<1>3. \A c \in F!Recovery : c[1] \in Nat
  BY DEF F!Recovery
<1>4. ASSUME ~ overlap', NEW c \in F!Recovery
      PROVE  /\ honoured'.recovery[c] <= 1
             /\ c \in factor'.codes \/ c[1] > issued'.batches => honoured'.recovery[c] = 0
  <2>1. c \in factor'.codes \/ c[1] > issued'.batches => c[1] > issued.batches
    BY <1>1, <1>2, <1>3
  <2> QED
    BY <1>4, <2>1 DEF FactorInv, CodesSpent
<1> QED
  BY <1>4 DEF CodesSpent, F!Batch

\* Devices: none is added, and the request is not about to add one.
LEMMA DevicesStay ==
  ASSUME FactorInv, NEW r \in Req, SameBut(r), devices' \subseteq devices,
         overlap => overlap', verifying'[r].pc # "create"
  PROVE  DevicesReplaced'
  BY DEF FactorInv, DevicesReplaced, SameBut

-----------------------------------------------------------------------------
(* The steps of SecondFactor.                                               *)

FactorRow ==
  [active : BOOLEAN, method : {"", "totp", "email"}, codes : SUBSET F!Recovery]

\* A request begins with nothing in hand, or is served at once.
LEMMA BeginsEmpty ==
  ASSUME F!SecondFactorAssumption, FactorInv, NEW r \in Req, NEW q \in F!Request,
         F!Begin(r, q), q.pc \in {"idle", "temp", "mail", "revoke", "regenerate"},
         temps' = temps, mail' = mail, devices' \subseteq devices, errors' = errors,
         app' \in [trusts : BOOLEAN], factor' \in FactorRow, issued' \in Issued,
         issued'.temps = issued.temps, issued'.mails = issued.mails,
         issued'.devices = issued.devices,
         \/ factor'.codes = factor.codes /\ issued'.batches = issued.batches
         \/ CodesSpent'
  PROVE  FactorInv'
<1>1. /\ verifying' \in [Req -> F!Request] /\ SameBut(r)
      /\ verifying[r].pc = "idle" /\ verifying'[r] = q
      /\ begun' \in 0..MaxRequests /\ honoured' = honoured /\ skipped' = skipped
      /\ overlap' = (overlap \/ \E p \in Req : Serving(p)) /\ overlap' \in BOOLEAN
  BY FactorBegins DEF FactorInv, FactorTypes
<1>2. overlap => overlap'
  BY <1>1
<1>3. F!TypeOK'
  <2>1. /\ F!TypeOK /\ skipped' \in BOOLEAN /\ errors' \in 0..MaxErrors
        /\ temps' \subseteq issued'.temps /\ mail' \in 0..issued'.mails
        /\ devices' \subseteq Agent \X (1..issued'.devices)
    BY <1>1 DEF FactorInv, FactorTypes, F!TypeOK
  <2> QED
    BY <1>1, <2>1, FactorTyped DEF FactorRow
<1>4. FactorTypes'
  <2>1. Holds(verifying'[r], issued')
    BY <1>1 DEF Holds
  <2>2. issued.temps \subseteq issued'.temps /\ issued.mails <= issued'.mails
    BY DEF FactorInv, FactorTypes, Issued
  <2> QED
    BY <1>1, <1>3, <2>1, <2>2, TypesStay DEF FactorInv
<1>5. Apart'
  BY <1>1, ApartBegins DEF FactorInv
<1>6. TokensSpent'
  <2>1. LeavesTokens(r)
    BY <1>1 DEF LeavesTokens, Shows, Spent
  <2> QED
    BY <1>1, <1>2, <2>1, TokensStay
<1>7. MailsSpent'
  <2>1. LeavesMails(r)
    BY <1>1 DEF LeavesMails, Right
  <2> QED
    BY <1>1, <1>2, <2>1, MailsStay
<1>8. CodesSpent'
  <2>1. CASE factor'.codes = factor.codes /\ issued'.batches = issued.batches
    <3>1. LeavesCodes(r)
      BY <1>1, <2>1 DEF LeavesCodes
    <3> QED
      BY <1>1, <1>2, <3>1, CodesStay
  <2> QED
    BY <2>1
<1>9. DevicesReplaced'
  BY <1>1, <1>2, DevicesStay
<1> QED
  BY <1>4, <1>5, <1>6, <1>7, <1>8, <1>9 DEF FactorInv

\* A request that begins alone finds the others at rest.
LEMMA BeginsAlone ==
  ASSUME F!SecondFactorAssumption, FactorInv, NEW r \in Req, F!Begin(r, F!Idle), ~ overlap'
  PROVE  \A s \in Req : verifying'[s].pc = "idle"
<1>1. /\ SameBut(r) /\ verifying'[r] = F!Idle
      /\ overlap' = (overlap \/ \E p \in Req : Serving(p))
  BY FactorBegins, FactorIdle DEF FactorInv, FactorTypes
<1> QED
  BY <1>1, FactorIdle DEF SameBut, Serving

LEMMA FactorTypesOf ==
  ASSUME F!SecondFactorAssumption, FactorInv
  PROVE  /\ F!TypeOK /\ issued \in Issued /\ factor \in FactorRow
         /\ app \in [trusts : BOOLEAN] /\ errors \in 0..MaxErrors /\ begun \in 0..MaxRequests
         /\ skipped \in BOOLEAN /\ overlap \in BOOLEAN
         /\ temps \subseteq issued.temps /\ mail \in 0..issued.mails
         /\ devices \subseteq Agent \X (1..issued.devices)
         /\ verifying \in [Req -> F!Request] /\ MaxErrors \in Nat
  BY DEF F!SecondFactorAssumption, FactorInv, FactorTypes, F!TypeOK, FactorRow

\* LoginUser, the resends, and the routes that list or revoke devices.
LEMMA EmptyRequestsKeep ==
  ASSUME F!SecondFactorAssumption, FactorInv, NEW r \in Req,
         \/ \E a \in Agent : F!LoginUser(r, a)
         \/ \E t \in Temp : F!Resend(r, t)
         \/ F!RevokeTrustedDevice(r) \/ F!RevokeAllTrustedDevices(r) \/ F!FindAllForUser(r)
         \/ F!GenerateNewRecoveryCodes(r)
         \/ F!ToggleUserActive(r) \/ F!UpdateAppSMSTrustedDevice(r)
  PROVE  FactorInv'
<1>0. /\ F!TypeOK /\ issued \in Issued /\ factor \in FactorRow
      /\ app \in [trusts : BOOLEAN] /\ devices \subseteq Agent \X (1..issued.devices)
  BY FactorTypesOf
<1>1. ASSUME NEW a \in Agent, F!LoginUser(r, a)
      PROVE  FactorInv'
  <2> DEFINE q == [F!Idle EXCEPT !.pc = "temp", !.agent = a,
                                 !.code = IF factor.method = "email" THEN 1 ELSE 0]
  <2>1. q \in F!Request /\ q.pc = "temp"
    BY DEF F!Idle, F!Request, F!Steps
  <2>2. /\ F!Begin(r, q)
        /\ UNCHANGED <<factor, app, temps, mail, devices, issued, errors>>
    BY <1>1 DEF F!LoginUser
  <2> HIDE DEF q
  <2> QED
    BY <1>0, <2>1, <2>2, BeginsEmpty
<1>2. ASSUME NEW t \in Temp, F!Resend(r, t)
      PROVE  FactorInv'
  <2> DEFINE q == [F!Idle EXCEPT !.pc = "mail"]
  <2>1. q \in F!Request /\ q.pc = "mail"
    BY DEF F!Idle, F!Request, F!Steps
  <2>2. /\ F!Begin(r, q)
        /\ UNCHANGED <<factor, app, temps, mail, devices, issued, errors>>
    BY <1>2 DEF F!Resend
  <2> HIDE DEF q
  <2> QED
    BY <1>0, <2>1, <2>2, BeginsEmpty
<1>3. CASE F!RevokeTrustedDevice(r) \/ F!RevokeAllTrustedDevices(r)
  <2>1. /\ F!Begin(r, F!Idle) /\ devices' \subseteq devices
        /\ UNCHANGED <<factor, app, temps, mail, issued, errors>>
    BY <1>3 DEF F!RevokeTrustedDevice, F!RevokeAllTrustedDevices
  <2> QED
    BY <1>0, <2>1, FactorIdle, BeginsEmpty
<1>4. CASE F!FindAllForUser(r)
  <2> DEFINE q == [F!Idle EXCEPT !.pc = "revoke", !.found = devices]
  <2>0. devices \subseteq F!Device
    <3>1. issued.devices \in 0..MaxDevices /\ MaxDevices \in Nat
      BY <1>0 DEF Issued, F!SecondFactorAssumption
    <3>2. 1..issued.devices \subseteq 1..MaxDevices
      BY <3>1
    <3> QED
      BY <1>0, <3>2 DEF F!Device
  <2>1. q \in F!Request /\ q.pc = "revoke"
    BY <2>0 DEF F!Idle, F!Request, F!Steps
  <2>2. /\ F!Begin(r, q)
        /\ UNCHANGED <<factor, app, temps, mail, devices, issued, errors>>
    BY <1>4 DEF F!FindAllForUser
  <2> HIDE DEF q
  <2> QED
    BY <1>0, <2>1, <2>2, BeginsEmpty
<1>5. CASE F!GenerateNewRecoveryCodes(r)
  <2> DEFINE q == [F!Idle EXCEPT !.pc = "regenerate"]
  <2>1. q \in F!Request /\ q.pc = "regenerate"
    BY DEF F!Idle, F!Request, F!Steps
  <2>2. /\ F!Begin(r, q)
        /\ UNCHANGED <<factor, app, temps, mail, devices, issued, errors>>
    BY <1>5 DEF F!GenerateNewRecoveryCodes
  <2> HIDE DEF q
  <2> QED
    BY <1>0, <2>1, <2>2, BeginsEmpty
<1>6. CASE F!ToggleUserActive(r)
  <2>1. /\ F!Begin(r, F!Idle)
        /\ UNCHANGED <<app, temps, mail, devices, issued, errors>>
        /\ factor' \in FactorRow /\ factor'.codes = factor.codes
    BY <1>0, <1>6 DEF F!ToggleUserActive, FactorRow
  <2> QED
    BY <1>0, <2>1, FactorIdle, BeginsEmpty
<1>7. CASE F!UpdateAppSMSTrustedDevice(r)
  <2>1. /\ F!Begin(r, F!Idle)
        /\ UNCHANGED <<factor, temps, mail, devices, issued, errors>>
        /\ app' \in [trusts : BOOLEAN]
    BY <1>0, <1>7 DEF F!UpdateAppSMSTrustedDevice
  <2> QED
    BY <1>0, <2>1, FactorIdle, BeginsEmpty
<1> QED
  BY <1>1, <1>2, <1>3, <1>4, <1>5, <1>6, <1>7

\* Enabling a factor makes a new list, and disabling it empties the list.
LEMMA NewFactorKeeps ==
  ASSUME F!SecondFactorAssumption, FactorInv, NEW r \in Req,
         \/ \E method \in {"totp", "email"} : F!Enable2FAWithMethod(r, method)
         \/ F!Disable2FA(r)
  PROVE  FactorInv'
<1>0. /\ F!TypeOK /\ issued \in Issued /\ factor \in FactorRow /\ app \in [trusts : BOOLEAN]
      /\ MaxBatches \in Nat
  BY FactorTypesOf DEF F!SecondFactorAssumption
<1> DEFINE Renewed ==
       /\ F!Begin(r, F!Idle) /\ UNCHANGED <<app, temps, mail, devices, errors>>
       /\ issued' \in Issued /\ issued'.temps = issued.temps /\ issued'.mails = issued.mails
       /\ issued'.devices = issued.devices /\ issued.batches <= issued'.batches
       /\ factor' \in FactorRow /\ factor'.codes \subseteq F!Batch(issued'.batches)
       /\ factor'.codes = {} \/ issued'.batches > issued.batches
<1>1. Renewed
  <2>1. ASSUME NEW method \in {"totp", "email"}, F!Enable2FAWithMethod(r, method)
        PROVE  Renewed
    <3>1. /\ issued' = [issued EXCEPT !.batches = @ + 1] /\ issued.batches < MaxBatches
          /\ factor' = [factor EXCEPT !.method = method, !.codes = F!Batch(issued.batches + 1)]
          /\ F!Begin(r, F!Idle) /\ UNCHANGED <<app, temps, mail, devices, errors>>
      BY <2>1 DEF F!Enable2FAWithMethod, F!NewCodes
    <3>2. /\ issued' \in Issued /\ issued'.temps = issued.temps /\ issued'.mails = issued.mails
          /\ issued'.devices = issued.devices /\ issued'.batches = issued.batches + 1
          /\ issued.batches \in 1..MaxBatches /\ issued.batches + 1 \in 1..MaxBatches
      BY <1>0, <3>1 DEF Issued
    <3>3. F!Batch(issued.batches + 1) \in SUBSET F!Recovery
      BY <3>2 DEF F!Batch, F!Recovery
    <3>4. factor' \in FactorRow /\ factor'.codes = F!Batch(issued'.batches)
      BY <1>0, <2>1, <3>1, <3>2, <3>3 DEF FactorRow
    <3> QED
      BY <3>1, <3>2, <3>4
  <2>2. ASSUME F!Disable2FA(r)
        PROVE  Renewed
    <3>1. /\ F!Begin(r, F!Idle)
          /\ UNCHANGED <<app, temps, mail, devices, issued, errors>>
          /\ factor' = [factor EXCEPT !.method = "", !.codes = {}]
      BY <2>2 DEF F!Disable2FA
    <3>2. factor' \in FactorRow /\ factor'.codes = {}
      BY <1>0, <3>1 DEF FactorRow
    <3>3. issued.batches \in Nat
      BY <1>0 DEF Issued
    <3> QED
      BY <1>0, <3>1, <3>2, <3>3
  <2> QED
    BY <2>1, <2>2
<1>2. honoured' = honoured /\ overlap' = (overlap \/ \E p \in Req : Serving(p))
  BY <1>0, <1>1, FactorIdle, FactorBegins
<1>3. ~ overlap' => \A s \in Req : verifying'[s].pc = "idle"
  BY <1>1, BeginsAlone
<1>4. CodesSpent'
  BY <1>1, <1>2, <1>3, CodesReplaced DEF FactorRow
<1> QED
  BY <1>0, <1>1, <1>4, FactorIdle, BeginsEmpty

\* A request that goes on, or fails, at a step that holds nothing new.
LEMMA GoesQuietly ==
  ASSUME F!SecondFactorAssumption, FactorInv, NEW r \in Req, NEW step \in F!Steps,
         F!Goto(r, step), Serving(r), UNCHANGED <<issued, begun, honoured, overlap>>,
         factor' = factor, app' = app, temps' = temps, mail' = mail,
         devices' \subseteq devices, skipped' \in BOOLEAN,
         errors' = errors \/ (errors' = errors + 1 /\ errors < MaxErrors),
         errors' = errors => verifying[r].pc # "clear",
         step = "drop_mail" => verifying[r].pc = "factor" /\ verifying[r].code = mail,
         step = "session" => \/ verifying[r].pc = "factor" /\ verifying[r].code = 0
                             \/ verifying[r].pc = "drop_mail" /\ errors' = errors + 1,
         step \in {"idle", "mail", "device", "dedup", "drop_mail", "session"},
         step = "dedup" => verifying[r].pc = "clear"
  PROVE  FactorInv'
<1>1. /\ GoesOn(r, step) /\ F!TypeOK /\ Holds(verifying[r], issued)
      /\ errors \in 0..MaxErrors /\ MaxErrors \in Nat
  BY FactorGoes, FactorTypesOf DEF FactorInv, FactorTypes
<1>2. SameBut(r) /\ verifying'[r].pc = step /\ verifying' \in [Req -> F!Request]
  BY <1>1 DEF GoesOn
<1>3. /\ step # "idle" =>
           /\ verifying'[r].temp = verifying[r].temp /\ verifying'[r].code = verifying[r].code
           /\ verifying'[r].recovery = verifying[r].recovery
           /\ verifying'[r].agent = verifying[r].agent
      /\ errors' \in 0..MaxErrors /\ (errors' = 0 => errors' = errors) /\ (overlap => overlap')
      /\ (errors' = 0 => errors = 0)
  BY <1>1 DEF GoesOn
<1>4. F!TypeOK'
  <2>1. /\ overlap' \in BOOLEAN /\ begun' \in 0..MaxRequests /\ app' \in [trusts : BOOLEAN]
        /\ factor' \in FactorRow /\ temps' \subseteq issued'.temps /\ mail' \in 0..issued'.mails
        /\ devices' \subseteq Agent \X (1..issued'.devices) /\ issued' \in Issued
    BY FactorTypesOf
  <2> QED
    BY <1>1, <1>2, <1>3, <2>1, FactorTyped DEF FactorRow
<1>5. FactorTypes'
  <2>1. Holds(verifying'[r], issued')
    BY <1>1, <1>2, <1>3 DEF Holds
  <2>2. issued.temps \subseteq issued'.temps /\ issued.mails <= issued'.mails /\ issued' \in Issued
    BY FactorTypesOf DEF Issued
  <2> QED
    BY <1>2, <1>4, <2>1, <2>2, TypesStay DEF FactorInv
<1>6. Apart'
  BY <1>2, ApartGoes DEF FactorInv
<1>7. TokensSpent'
  <2>1. CASE errors' = 0
    <3>1. LeavesTokens(r)
      BY <1>2, <1>3, <2>1 DEF LeavesTokens, Shows, Spent
    <3> QED
      BY <1>2, <1>3, <3>1, TokensStay
  <2>2. CASE errors' # 0
    BY <2>2 DEF TokensSpent
  <2> QED
    BY <2>1, <2>2
<1>8. MailsSpent'
  <2>1. CASE errors' = 0
    <3>1. /\ step = "session" => verifying'[r].code = 0
          /\ step = "drop_mail" => verifying'[r].code = mail
      BY <1>1, <1>3, <2>1
    <3>2. LeavesMails(r)
      BY <1>2, <3>1 DEF LeavesMails, Right
    <3> QED
      BY <1>2, <1>3, <3>2, MailsStay
  <2>2. CASE errors' # 0
    BY <2>2 DEF MailsSpent
  <2> QED
    BY <2>1, <2>2
<1>9. CodesSpent'
  <2>1. F!Nothing \notin F!Recovery
    BY DEF F!Nothing, F!Recovery
  <2>2. step = "session" => verifying'[r].recovery \notin F!Recovery
    BY <1>1, <1>3, <2>1 DEF Holds
  <2>3. LeavesCodes(r)
    BY <1>2, <2>2 DEF LeavesCodes
  <2> QED
    BY <1>2, <1>3, <2>3, CodesStay
<1>10. DevicesReplaced'
  BY <1>2, <1>3, DevicesStay
<1> QED
  BY <1>5, <1>6, <1>7, <1>8, <1>9, <1>10 DEF FactorInv

\* A command of Redis that fails.
LEMMA FactorFails ==
  ASSUME F!SecondFactorAssumption, FactorInv, NEW r \in Req, NEW step \in F!Steps,
         F!Fail(r, step), Serving(r),
         step = "session" => verifying[r].pc = "drop_mail",
         step \in {"idle", "dedup", "session"}, step = "dedup" => verifying[r].pc = "clear"
  PROVE  FactorInv'
<1>1. /\ F!Goto(r, step) /\ errors < MaxErrors /\ errors' = errors + 1
      /\ UNCHANGED <<factor, app, temps, mail, devices, issued, begun>>
      /\ UNCHANGED <<honoured, skipped, overlap>>
  BY DEF F!Fail, F!history
<1>2. skipped' \in BOOLEAN /\ errors \in Nat
  BY <1>1, FactorTypesOf
<1>3. /\ errors' = errors \/ (errors' = errors + 1 /\ errors < MaxErrors)
      /\ errors' = errors => verifying[r].pc # "clear"
  BY <1>1, <1>2
<1>4. /\ step = "drop_mail" => verifying[r].pc = "factor" /\ verifying[r].code = mail
      /\ step = "session" => \/ verifying[r].pc = "factor" /\ verifying[r].code = 0
                             \/ verifying[r].pc = "drop_mail" /\ errors' = errors + 1
      /\ step \in {"idle", "mail", "device", "dedup", "drop_mail", "session"}
  BY <1>1
<1>5. /\ UNCHANGED <<issued, begun, honoured, overlap>>
      /\ factor' = factor /\ app' = app /\ temps' = temps /\ mail' = mail
      /\ devices' \subseteq devices
  BY <1>1
<1> QED
  BY <1>1, <1>2, <1>3, <1>4, <1>5, GoesQuietly, Zenon

LEMMA QuietStepsKeep ==
  ASSUME F!SecondFactorAssumption, FactorInv, NEW r \in Req,
         F!ValidateTrustedDevice(r) \/ F!VerifyFactor(r)
  PROVE  FactorInv'
<1>0. errors \in Nat
  BY FactorTypesOf
<1>1. CASE F!ValidateTrustedDevice(r)
  <2>1. /\ F!Goto(r, "idle") /\ verifying[r].pc = "device"
        /\ UNCHANGED <<factor, app, temps, mail, devices, issued, begun, errors>>
        /\ UNCHANGED <<honoured, overlap>>
    BY <1>1 DEF F!ValidateTrustedDevice, F!At
  <2>2. skipped' \in BOOLEAN
    BY <1>1, FactorTypesOf DEF F!ValidateTrustedDevice
  <2>3. "idle" \in F!Steps
    BY DEF F!Steps
  <2> QED
    BY <1>0, <2>1, <2>2, <2>3, GoesQuietly DEF Serving
<1>2. CASE F!VerifyFactor(r)
  <2> DEFINE right == F!VerifyTOTP(r) \/ F!VerifyMailedCode(r)
             step == IF ~ right THEN "idle" ELSE IF verifying[r].code = 0 THEN "session"
                     ELSE "drop_mail"
  <2>1. /\ F!Goto(r, step) /\ verifying[r].pc = "factor"
        /\ UNCHANGED <<factor, app, temps, mail, devices, issued, begun, errors>>
        /\ UNCHANGED <<honoured, skipped, overlap>>
    BY <1>2 DEF F!VerifyFactor, F!At, F!history
  <2>2. /\ step \in {"idle", "session", "drop_mail"}
        /\ step = "session" => verifying[r].code = 0
        /\ step = "drop_mail" => verifying[r].code = mail
    BY DEF F!VerifyTOTP, F!VerifyMailedCode
  <2>3. step \in F!Steps /\ skipped' \in BOOLEAN
    BY <2>1, <2>2, FactorTypesOf DEF F!Steps
  <2> HIDE DEF step
  <2> QED
    BY <1>0, <2>1, <2>2, <2>3, GoesQuietly DEF Serving
<1> QED
  BY <1>1, <1>2

\* A temporary token that was never issued is stored.
LEMMA SetTempUserSessionKeeps ==
  ASSUME F!SecondFactorAssumption, FactorInv, NEW r \in Req, F!SetTempUserSession(r)
  PROVE  FactorInv'
<1>0. verifying[r].pc = "temp" /\ Serving(r)
  BY DEF F!SetTempUserSession, F!At, Serving
<1>1. CASE F!Fail(r, "idle")
  <2>1. "idle" \in F!Steps /\ "idle" # "session" /\ "idle" # "dedup"
    BY DEF F!Steps
  <2> QED
    BY <1>0, <1>1, <2>1, FactorFails, Zenon
<1>2. ASSUME NEW u \in Temp \ issued.temps, temps' = temps \cup {u},
             issued' = [issued EXCEPT !.temps = @ \cup {u}],
             F!Goto(r, IF verifying[r].code = 1 THEN "mail" ELSE "device"),
             UNCHANGED <<factor, app, mail, devices, begun, errors, F!history>>
      PROVE  FactorInv'
  <2> DEFINE step == IF verifying[r].code = 1 THEN "mail" ELSE "device"
  <2>1. /\ F!TypeOK /\ issued \in Issued /\ factor \in FactorRow
        /\ app \in [trusts : BOOLEAN] /\ errors \in 0..MaxErrors /\ begun \in 0..MaxRequests
        /\ skipped \in BOOLEAN /\ overlap \in BOOLEAN /\ temps \subseteq issued.temps
        /\ mail \in 0..issued.mails /\ devices \subseteq Agent \X (1..issued.devices)
    BY FactorTypesOf
  <2>2. step \in {"mail", "device"} /\ step \in F!Steps /\ F!Goto(r, step)
    BY <1>2 DEF F!Steps
  <2> HIDE DEF step
  <2>3. SameBut(r) /\ verifying'[r].pc = step /\ verifying' \in [Req -> F!Request]
    BY <2>1, <2>2, FactorGoes DEF GoesOn
  <2>4. /\ issued' \in Issued /\ issued'.temps = issued.temps \cup {u}
        /\ issued'.mails = issued.mails /\ issued'.batches = issued.batches
        /\ issued'.devices = issued.devices /\ issued.mails \in Nat
    BY <1>2, <2>1 DEF Issued
  <2>5. honoured' = honoured /\ skipped' = skipped /\ overlap' = overlap /\ errors' = errors
    BY <1>2 DEF F!history
  <2>6. F!TypeOK'
    <3>1. /\ skipped' \in BOOLEAN /\ overlap' \in BOOLEAN /\ begun' \in 0..MaxRequests
          /\ errors' \in 0..MaxErrors /\ app' \in [trusts : BOOLEAN] /\ factor' \in FactorRow
      BY <1>2, <2>1, <2>5
    <3>2. /\ temps' \subseteq issued'.temps /\ mail' \in 0..issued'.mails
          /\ devices' \subseteq Agent \X (1..issued'.devices)
      BY <1>2, <2>1, <2>4
    <3> QED
      BY <2>1, <2>3, <2>4, <2>5, <3>1, <3>2, FactorTyped DEF FactorRow
  <2>7. FactorTypes'
    <3>1. Holds(verifying'[r], issued')
      BY <2>2, <2>3 DEF Holds
    <3> QED
      BY <2>3, <2>4, <2>5, <2>6, <3>1, TypesStay DEF FactorInv
  <2>8. Apart'
    BY <1>0, <2>3, <2>5, ApartGoes DEF FactorInv
  <2>9. TokensSpent'
    <3>1. Most \in Nat /\ MostNext \in Nat /\ Most <= MostNext
      BY <2>5, MostGrows
    <3>2. ASSUME errors' = 0, NEW t \in Temp
          PROVE  IF t \in temps' THEN honoured'.temps[t] <= SpendingNext(t)
                 ELSE honoured'.temps[t] + ShowingNext(t) <= MostNext
      <4>1. /\ Showing(t) \in Nat /\ Spending(t) \in Nat /\ honoured.temps[t] \in Nat
            /\ honoured'.temps[t] = honoured.temps[t]
        BY <2>1, <2>5, HoldBounds DEF F!TypeOK, FactorInv
      <4>2. SpendingNext(t) = Spending(t) /\ ShowingNext(t) = Showing(t)
        <5>1. /\ ~ Shows(verifying[r], t) /\ ~ Shows(verifying'[r], t)
              /\ ~ Spent(verifying[r], t) /\ ~ Spent(verifying'[r], t)
          BY <1>0, <2>2, <2>3 DEF Shows, Spent
        <5> QED
          BY <2>3, <5>1, HoldMoves DEF Shift
      <4>3. IF t \in temps THEN honoured.temps[t] <= Spending(t)
            ELSE honoured.temps[t] + Showing(t) <= Most
        BY <2>5, <3>2 DEF FactorInv, TokensSpent
      <4>4. t = u => honoured.temps[t] = 0
        BY <1>2 DEF FactorInv, FactorTypes
      <4>5. t \in temps' <=> t \in temps \/ t = u
        BY <1>2
      <4> QED
        BY <3>1, <4>1, <4>2, <4>3, <4>4, <4>5
    <3> QED
      BY <3>2 DEF TokensSpent, ShowingNext, Showing, SpendingNext, Spending, MostNext, Most
  <2>10. MailsSpent'
    <3>1. LeavesMails(r)
      BY <1>2, <2>2, <2>3, <2>4, <2>5 DEF LeavesMails, Right
    <3> QED
      BY <2>3, <2>5, <3>1, MailsStay
  <2>11. CodesSpent'
    <3>1. LeavesCodes(r)
      BY <1>2, <2>2, <2>3, <2>4, <2>5 DEF LeavesCodes
    <3> QED
      BY <2>3, <2>5, <3>1, CodesStay
  <2>12. DevicesReplaced'
    BY <1>2, <2>2, <2>3, <2>5, DevicesStay
  <2> QED
    BY <2>7, <2>8, <2>9, <2>10, <2>11, <2>12 DEF FactorInv
<1> QED
  BY <1>1, <1>2 DEF F!SetTempUserSession

\* A request that goes on without a failure: its types, and that it is still alone.
LEMMA Onward ==
  ASSUME F!SecondFactorAssumption, FactorInv, NEW r \in Req, NEW step \in F!Steps,
         F!Goto(r, step), Serving(r), UNCHANGED <<app, begun, honoured, overlap>>,
         errors' = errors, skipped' = skipped, factor' \in FactorRow, issued' \in Issued,
         issued.temps \subseteq issued'.temps, issued.mails <= issued'.mails,
         temps' \subseteq issued'.temps, mail' \in 0..issued'.mails,
         devices' \subseteq Agent \X (1..issued'.devices),
         step \notin {"factor", "recovery", "rewrite", "drop_mail"},
         step = "session" => verifying[r].pc \in {"drop_mail", "rewrite"},
         step = "clear" => verifying[r].pc = "session",
         step = "dedup" => verifying[r].pc = "clear",
         step = "create" => verifying[r].pc = "dedup"
  PROVE  /\ FactorTypes' /\ Apart' /\ GoesOn(r, step) /\ SameBut(r)
         /\ verifying'[r].pc = step /\ (overlap => overlap') /\ (errors' = 0 => errors = 0)
<1>1. /\ GoesOn(r, step) /\ F!TypeOK /\ Holds(verifying[r], issued)
      /\ errors \in 0..MaxErrors /\ overlap \in BOOLEAN /\ begun \in 0..MaxRequests
      /\ skipped \in BOOLEAN /\ app \in [trusts : BOOLEAN] /\ issued \in Issued
      /\ verifying[r].code \in Nat
  BY FactorGoes, FactorTypesOf DEF FactorInv, FactorTypes, F!TypeOK, F!Request
<1>2. SameBut(r) /\ verifying'[r].pc = step /\ verifying' \in [Req -> F!Request]
  BY <1>1 DEF GoesOn
<1>3. F!TypeOK'
  <2>1. /\ skipped' \in BOOLEAN /\ overlap' \in BOOLEAN /\ begun' \in 0..MaxRequests
        /\ errors' \in 0..MaxErrors /\ app' \in [trusts : BOOLEAN] /\ honoured' = honoured
    BY <1>1
  <2> QED
    BY <1>1, <1>2, <2>1, FactorTyped DEF FactorRow
<1>4. FactorTypes'
  <2>1. issued.mails \in Nat /\ issued'.mails \in Nat
    BY <1>1 DEF Issued
  <2>2. Holds(verifying'[r], issued')
    BY <1>1, <2>1 DEF Holds, GoesOn
  <2>3. honoured' = honoured
    OBVIOUS
  <2> QED
    BY <1>2, <1>3, <2>2, <2>3, TypesStay DEF FactorInv
<1>5. Apart'
  BY <1>2, ApartGoes DEF FactorInv
<1> QED
  BY <1>1, <1>2, <1>4, <1>5

\* A new code replaces the one mailed before.
LEMMA StoreMailedCodeKeeps ==
  ASSUME F!SecondFactorAssumption, FactorInv, NEW r \in Req, F!StoreMailedCode(r)
  PROVE  FactorInv'
<1>0. verifying[r].pc = "mail" /\ Serving(r)
  BY DEF F!StoreMailedCode, F!At, Serving
<1>1. CASE F!Fail(r, "idle")
  <2>1. "idle" \in F!Steps /\ "idle" # "session" /\ "idle" # "dedup"
    BY DEF F!Steps
  <2> QED
    BY <1>0, <1>1, <2>1, FactorFails, Zenon
<1>2. ASSUME issued.mails < MaxMails, issued' = [issued EXCEPT !.mails = @ + 1],
             mail' = issued.mails + 1,
             F!Goto(r, IF verifying[r].agent = F!Nothing THEN "idle" ELSE "device"),
             UNCHANGED <<factor, app, temps, devices, begun, errors, F!history>>
      PROVE  FactorInv'
  <2> DEFINE step == IF verifying[r].agent = F!Nothing THEN "idle" ELSE "device"
  <2>1. /\ issued \in Issued /\ factor \in FactorRow /\ temps \subseteq issued.temps
        /\ mail \in 0..issued.mails /\ devices \subseteq Agent \X (1..issued.devices)
        /\ F!TypeOK
    BY FactorTypesOf
  <2>2. step \in {"idle", "device"} /\ step \in F!Steps /\ F!Goto(r, step)
    BY <1>2 DEF F!Steps
  <2> HIDE DEF step
  <2>3. /\ issued' \in Issued /\ issued'.temps = issued.temps
        /\ issued'.mails = issued.mails + 1 /\ issued'.batches = issued.batches
        /\ issued'.devices = issued.devices /\ issued.mails \in Nat
    <3>1. issued.mails \in Nat /\ issued.mails + 1 \in 0..MaxMails
      BY <1>2, <2>1 DEF Issued, F!SecondFactorAssumption
    <3> QED
      BY <1>2, <2>1, <3>1 DEF Issued
  <2>4. honoured' = honoured /\ skipped' = skipped /\ overlap' = overlap /\ errors' = errors
    BY <1>2 DEF F!history
  <2>5. /\ factor' \in FactorRow /\ issued.temps \subseteq issued'.temps
        /\ issued.mails <= issued'.mails /\ temps' \subseteq issued'.temps
        /\ mail' \in 0..issued'.mails /\ devices' \subseteq Agent \X (1..issued'.devices)
        /\ UNCHANGED <<app, begun, honoured, overlap>>
    BY <1>2, <2>1, <2>3, <2>4
  <2>6. /\ step \notin {"factor", "recovery", "rewrite", "drop_mail"} /\ step # "session"
        /\ step # "clear" /\ step # "dedup" /\ step # "create"
    BY <2>2
  <2>7. /\ FactorTypes' /\ Apart' /\ SameBut(r) /\ verifying'[r].pc = step
        /\ (overlap => overlap') /\ (errors' = 0 => errors = 0)
    BY <1>0, <2>2, <2>3, <2>4, <2>5, <2>6, Onward
  <2>8. TokensSpent'
    <3>1. LeavesTokens(r)
      BY <1>0, <1>2, <2>2, <2>4, <2>7 DEF LeavesTokens, Shows, Spent
    <3> QED
      BY <2>7, <3>1, TokensStay
  <2>9. MailsSpent'
    <3>1. Most \in Nat /\ MostNext \in Nat /\ Most <= MostNext
      BY <2>7, MostGrows
    <3>2. ASSUME errors' = 0, NEW n \in 1..MaxMails
          PROVE  IF n = mail' \/ n > issued'.mails
                 THEN /\ honoured'.mails[n] = 0
                      /\ \A s \in Req : ~ (verifying'[s].pc = "session"
                                           /\ verifying'[s].code = n)
                 ELSE honoured'.mails[n] + TrustedNext(n) <= MostNext
      <4>1. /\ Trusted(n) \in Nat /\ Trusted(n) <= Most /\ honoured.mails[n] \in Nat
            /\ honoured'.mails[n] = honoured.mails[n]
        BY <2>1, <2>4, HoldBounds DEF F!TypeOK, FactorInv
      <4>2. TrustedNext(n) = Trusted(n)
        <5>1. ~ Right(verifying[r], n) /\ ~ Right(verifying'[r], n)
          BY <1>0, <2>2, <2>7 DEF Right
        <5> QED
          BY <2>7, <5>1, HoldMoves DEF Shift
      <4>3. IF n = mail \/ n > issued.mails
            THEN /\ honoured.mails[n] = 0
                 /\ \A s \in Req : ~ (verifying[s].pc = "session" /\ verifying[s].code = n)
            ELSE honoured.mails[n] + Trusted(n) <= Most
        BY <2>7, <3>2 DEF FactorInv, MailsSpent
      <4>4. CASE n > issued.mails
        <5>1. ASSUME NEW s \in Req
              PROVE  ~ (verifying'[s].pc = "session" /\ verifying'[s].code = n)
          BY <4>3, <4>4, <2>2, <2>7 DEF SameBut
        <5> QED
          BY <4>1, <4>3, <4>4, <5>1, <1>2, <2>3
      <4>5. CASE ~ (n > issued.mails)
        BY <3>1, <4>1, <4>2, <4>3, <4>5, <1>2, <2>3
      <4> QED
        BY <4>4, <4>5
    <3> QED
      BY <3>2 DEF MailsSpent, TrustedNext, Trusted, MostNext, Most
  <2>10. CodesSpent'
    <3>1. LeavesCodes(r)
      BY <1>2, <2>2, <2>3, <2>4, <2>7 DEF LeavesCodes
    <3> QED
      BY <2>7, <3>1, CodesStay
  <2>11. DevicesReplaced'
    <3>1. devices' \subseteq devices /\ step # "create"
      BY <1>2, <2>2
    <3> QED
      BY <2>7, <3>1, DevicesStay
  <2> QED
    BY <2>7, <2>8, <2>9, <2>10, <2>11 DEF FactorInv
<1> QED
  BY <1>1, <1>2 DEF F!StoreMailedCode

\* A mailed code that was right is deleted, whichever is stored by then.
LEMMA DeleteCodeKeeps ==
  ASSUME F!SecondFactorAssumption, FactorInv, NEW r \in Req, F!Delete2FAEmailCode(r)
  PROVE  FactorInv'
<1>0. verifying[r].pc = "drop_mail" /\ Serving(r)
  BY DEF F!Delete2FAEmailCode, F!At, Serving
<1>1. CASE F!Fail(r, "session")
  <2>1. "session" \in F!Steps /\ "session" # "dedup"
    BY DEF F!Steps
  <2> QED
    BY <1>0, <1>1, <2>1, FactorFails, Zenon
<1>2. ASSUME mail' = 0, F!Goto(r, "session"),
             UNCHANGED <<factor, app, temps, devices, issued, begun, errors, F!history>>
      PROVE  FactorInv'
  <2>1. /\ issued \in Issued /\ factor \in FactorRow /\ temps \subseteq issued.temps
        /\ mail \in 0..issued.mails /\ devices \subseteq Agent \X (1..issued.devices)
        /\ F!TypeOK /\ Holds(verifying[r], issued)
    BY FactorTypesOf DEF FactorInv, FactorTypes
  <2>2. "session" \in F!Steps
    BY DEF F!Steps
  <2>3. /\ UNCHANGED <<app, begun, honoured, overlap, issued>> /\ errors' = errors
        /\ skipped' = skipped /\ factor' = factor /\ devices' = devices
    BY <1>2 DEF F!history
  <2>4. /\ factor' \in FactorRow /\ issued' \in Issued /\ issued.temps \subseteq issued'.temps
        /\ issued.mails <= issued'.mails /\ temps' \subseteq issued'.temps
        /\ mail' \in 0..issued'.mails /\ devices' \subseteq Agent \X (1..issued'.devices)
        /\ issued.mails \in Nat
    BY <1>2, <2>1, <2>3 DEF Issued
  <2>5. /\ FactorTypes' /\ Apart' /\ GoesOn(r, "session") /\ SameBut(r)
        /\ verifying'[r].pc = "session" /\ (overlap => overlap')
        /\ (errors' = 0 => errors = 0)
    BY <1>0, <1>2, <2>2, <2>3, <2>4, Onward
  <2>6. /\ verifying'[r].temp = verifying[r].temp /\ verifying'[r].code = verifying[r].code
        /\ verifying'[r].recovery = verifying[r].recovery
    BY <2>5 DEF GoesOn
  <2>7. TokensSpent'
    <3>1. LeavesTokens(r)
      BY <1>0, <1>2, <2>3, <2>5, <2>6 DEF LeavesTokens, Shows, Spent
    <3> QED
      BY <2>5, <3>1, TokensStay
  <2>8. MailsSpent'
    <3>1. Most \in Nat /\ MostNext \in Nat /\ Most <= MostNext
      BY <2>5, MostGrows
    <3>2. ASSUME errors' = 0, NEW n \in 1..MaxMails
          PROVE  IF n = mail' \/ n > issued'.mails
                 THEN /\ honoured'.mails[n] = 0
                      /\ \A s \in Req : ~ (verifying'[s].pc = "session"
                                           /\ verifying'[s].code = n)
                 ELSE honoured'.mails[n] + TrustedNext(n) <= MostNext
      <4>1. /\ Trusted(n) \in Nat /\ Trusted(n) <= Most /\ honoured.mails[n] \in Nat
            /\ honoured'.mails[n] = honoured.mails[n]
        BY <2>1, <2>3, HoldBounds DEF F!TypeOK, FactorInv
      <4>2. TrustedNext(n) = Trusted(n)
        <5>1. Right(verifying[r], n) <=> Right(verifying'[r], n)
          BY <1>0, <2>5, <2>6 DEF Right
        <5> QED
          BY <2>5, <5>1, HoldMoves DEF Shift
      <4>3. IF n = mail \/ n > issued.mails
            THEN /\ honoured.mails[n] = 0
                 /\ \A s \in Req : ~ (verifying[s].pc = "session" /\ verifying[s].code = n)
            ELSE honoured.mails[n] + Trusted(n) <= Most
        BY <2>5, <3>2 DEF FactorInv, MailsSpent
      <4>4. CASE n > issued.mails
        <5>1. verifying'[r].code <= issued.mails /\ verifying'[r].code \in Nat
          BY <1>0, <2>1, <2>6 DEF Holds, F!TypeOK, F!Request
        <5>2. ASSUME NEW s \in Req
              PROVE  ~ (verifying'[s].pc = "session" /\ verifying'[s].code = n)
          BY <2>4, <4>3, <4>4, <2>5, <5>1 DEF SameBut
        <5> QED
          BY <4>1, <4>3, <4>4, <5>2, <2>3
      <4>5. CASE ~ (n > issued.mails)
        BY <3>1, <4>1, <4>2, <4>3, <4>5, <1>2, <2>3
      <4> QED
        BY <4>4, <4>5
    <3> QED
      BY <3>2 DEF MailsSpent, TrustedNext, Trusted, MostNext, Most
  <2>9. CodesSpent'
    <3>1. F!Nothing \notin F!Recovery
      BY DEF F!Nothing, F!Recovery
    <3>2. LeavesCodes(r)
      BY <1>0, <2>1, <2>3, <2>5, <2>6, <3>1 DEF LeavesCodes, Holds
    <3> QED
      BY <2>5, <3>2, CodesStay
  <2>10. DevicesReplaced'
    BY <2>3, <2>5, DevicesStay
  <2> QED
    BY <2>5, <2>7, <2>8, <2>9, <2>10 DEF FactorInv
<1> QED
  BY <1>1, <1>2 DEF F!Delete2FAEmailCode

\* VerifyLogin: a request presents a token that is stored, and a factor.
LEMMA VerifyLoginKeeps ==
  ASSUME F!SecondFactorAssumption, FactorInv, NEW r \in Req, NEW t \in Temp,
         NEW a \in Agent, F!VerifyLogin(r, t, a)
  PROVE  FactorInv'
<1>0. /\ issued \in Issued /\ factor \in FactorRow /\ temps \subseteq issued.temps
      /\ mail \in 0..issued.mails /\ devices \subseteq Agent \X (1..issued.devices)
      /\ F!TypeOK /\ skipped \in BOOLEAN /\ app \in [trusts : BOOLEAN]
      /\ errors \in 0..MaxErrors
  BY FactorTypesOf
<1> DEFINE Presents(q) ==
       /\ F!Begin(r, q) /\ q.temp = t /\ q.agent = a /\ q.code <= issued.mails
       /\ \/ q.pc = "recovery" /\ q.recovery \in F!Recovery /\ q.code = 0
          \/ q.pc = "factor" /\ q.recovery = F!Nothing
<1>1. PICK q \in F!Request : Presents(q)
  <2>1. ASSUME NEW c \in F!Recovery,
               F!Begin(r, [F!Idle EXCEPT !.pc = "recovery", !.temp = t, !.agent = a,
                                         !.recovery = c])
        PROVE  \E q \in F!Request : Presents(q)
    <3> DEFINE p == [F!Idle EXCEPT !.pc = "recovery", !.temp = t, !.agent = a,
                                   !.recovery = c]
    <3>1. /\ p \in F!Request /\ p.temp = t /\ p.agent = a /\ p.code = 0
          /\ p.pc = "recovery" /\ p.recovery = c
      BY DEF F!Idle, F!Request, F!Steps
    <3>2. 0 <= issued.mails /\ F!Begin(r, p)
      BY <1>0, <2>1 DEF Issued
    <3> HIDE DEF p
    <3> QED
      BY <3>1, <3>2
  <2>2. ASSUME NEW n \in 0..issued.mails,
               F!Begin(r, [F!Idle EXCEPT !.pc = "factor", !.temp = t, !.agent = a, !.code = n])
        PROVE  \E q \in F!Request : Presents(q)
    <3> DEFINE p == [F!Idle EXCEPT !.pc = "factor", !.temp = t, !.agent = a, !.code = n]
    <3>0. n \in Nat /\ n <= issued.mails
      BY <1>0 DEF Issued
    <3>1. /\ p \in F!Request /\ p.temp = t /\ p.agent = a /\ p.code = n
          /\ p.pc = "factor" /\ p.recovery = F!Nothing
      BY <3>0 DEF F!Idle, F!Request, F!Steps
    <3>2. F!Begin(r, p)
      BY <2>2
    <3> HIDE DEF p
    <3> QED
      BY <3>0, <3>1, <3>2
  <2> QED
    BY <2>1, <2>2 DEF F!VerifyLogin
<1>2. t \in temps /\ UNCHANGED <<factor, app, temps, mail, devices, issued, errors>>
  BY DEF F!VerifyLogin
<1>3. /\ verifying' \in [Req -> F!Request] /\ SameBut(r)
      /\ verifying[r].pc = "idle" /\ verifying'[r] = q
      /\ begun' \in 0..MaxRequests /\ honoured' = honoured /\ skipped' = skipped
      /\ overlap' = (overlap \/ \E p \in Req : Serving(p)) /\ overlap' \in BOOLEAN
  BY <1>0, <1>1, FactorBegins
<1>4. (overlap => overlap') /\ (errors' = 0 => errors = 0)
  BY <1>2, <1>3
<1>5. FactorTypes'
  <2>1. F!TypeOK'
    <3>1. /\ skipped' \in BOOLEAN /\ errors' \in 0..MaxErrors /\ app' \in [trusts : BOOLEAN]
          /\ factor' \in FactorRow /\ temps' \subseteq issued'.temps
          /\ mail' \in 0..issued'.mails /\ issued' \in Issued
          /\ devices' \subseteq Agent \X (1..issued'.devices)
      BY <1>0, <1>2, <1>3
    <3> QED
      BY <1>0, <1>3, <3>1, FactorTyped DEF FactorRow
  <2>2. Holds(verifying'[r], issued')
    BY <1>0, <1>1, <1>2, <1>3 DEF Holds
  <2>3. issued' \in Issued /\ issued.temps \subseteq issued'.temps /\ issued.mails <= issued'.mails
    BY <1>0, <1>2 DEF Issued
  <2> QED
    BY <1>3, <2>1, <2>2, <2>3, TypesStay DEF FactorInv
<1>6. Apart'
  BY <1>3, ApartBegins DEF FactorInv
<1>7. TokensSpent'
  <2>1. LeavesTokens(r)
    BY <1>1, <1>2, <1>3 DEF LeavesTokens, Shows, Spent
  <2> QED
    BY <1>3, <1>4, <2>1, TokensStay
<1>8. MailsSpent'
  <2>1. LeavesMails(r)
    BY <1>1, <1>2, <1>3 DEF LeavesMails, Right
  <2> QED
    BY <1>3, <1>4, <2>1, MailsStay
<1>9. CodesSpent'
  <2>1. LeavesCodes(r)
    BY <1>1, <1>2, <1>3 DEF LeavesCodes
  <2> QED
    BY <1>3, <1>4, <2>1, CodesStay
<1>10. DevicesReplaced'
  BY <1>1, <1>2, <1>3, <1>4, DevicesStay
<1> QED
  BY <1>5, <1>6, <1>7, <1>8, <1>9, <1>10 DEF FactorInv

\* A recovery code is compared with the list, and the list is kept.
LEMMA VerifyRecoveryCodeKeeps ==
  ASSUME F!SecondFactorAssumption, FactorInv, NEW r \in Req, F!VerifyRecoveryCode(r)
  PROVE  FactorInv'
<1>0. /\ verifying[r].pc = "recovery" /\ Serving(r)
      /\ UNCHANGED <<factor, app, temps, mail, devices, issued, begun, errors>>
      /\ UNCHANGED <<honoured, skipped, overlap>>
  BY DEF F!VerifyRecoveryCode, F!At, Serving, F!history
<1>1. CASE factor.method # "" /\ verifying[r].recovery \in factor.codes
  <2> DEFINE q == [verifying[r] EXCEPT !.pc = "rewrite", !.list = factor.codes]
  <2>1. /\ issued \in Issued /\ factor \in FactorRow /\ temps \subseteq issued.temps
        /\ mail \in 0..issued.mails /\ devices \subseteq Agent \X (1..issued.devices)
        /\ F!TypeOK /\ skipped \in BOOLEAN /\ app \in [trusts : BOOLEAN]
        /\ errors \in 0..MaxErrors /\ overlap \in BOOLEAN /\ begun \in 0..MaxRequests
        /\ verifying \in [Req -> F!Request] /\ Holds(verifying[r], issued)
    BY FactorTypesOf DEF FactorInv, FactorTypes
  <2>2. /\ q \in F!Request /\ q.pc = "rewrite" /\ q.list = factor.codes
        /\ q.temp = verifying[r].temp /\ q.code = verifying[r].code
        /\ q.recovery = verifying[r].recovery /\ q.agent = verifying[r].agent
    <3>1. verifying[r] \in F!Request /\ factor.codes \in SUBSET F!Recovery
      BY <2>1 DEF FactorRow
    <3>2. "rewrite" \in F!Steps
      BY DEF F!Steps
    <3> QED
      BY <3>1, <3>2 DEF F!Request
  <2>3. verifying' = [verifying EXCEPT ![r] = q]
    <3>1. verifying' = [verifying EXCEPT ![r].pc = "rewrite", ![r].list = factor.codes]
      BY <1>1 DEF F!VerifyRecoveryCode
    <3> QED
      BY <2>1, <3>1
  <2> HIDE DEF q
  <2>4. verifying' \in [Req -> F!Request] /\ SameBut(r) /\ verifying'[r] = q
    BY <2>1, <2>2, <2>3 DEF SameBut
  <2>5. (overlap => overlap') /\ (errors' = 0 => errors = 0) /\ honoured' = honoured
    BY <1>0
  <2>6. FactorTypes'
    <3>1. F!TypeOK'
      <4>1. /\ skipped' \in BOOLEAN /\ errors' \in 0..MaxErrors /\ app' \in [trusts : BOOLEAN]
            /\ factor' \in FactorRow /\ temps' \subseteq issued'.temps
            /\ mail' \in 0..issued'.mails /\ issued' \in Issued
            /\ devices' \subseteq Agent \X (1..issued'.devices)
            /\ overlap' \in BOOLEAN /\ begun' \in 0..MaxRequests
        BY <1>0, <2>1
      <4> QED
        BY <2>1, <2>4, <2>5, <4>1, FactorTyped DEF FactorRow
    <3>2. Holds(verifying'[r], issued')
      BY <1>0, <2>1, <2>2, <2>4 DEF Holds
    <3>3. /\ issued' \in Issued /\ issued.temps \subseteq issued'.temps
          /\ issued.mails <= issued'.mails
      BY <1>0, <2>1 DEF Issued
    <3> QED
      BY <2>4, <2>5, <3>1, <3>2, <3>3, TypesStay DEF FactorInv
  <2>7. Apart'
    BY <1>0, <2>4, ApartGoes DEF FactorInv
  <2>8. TokensSpent'
    <3>1. LeavesTokens(r)
      BY <1>0, <2>2, <2>4 DEF LeavesTokens, Shows, Spent
    <3> QED
      BY <2>4, <2>5, <3>1, TokensStay
  <2>9. MailsSpent'
    <3>1. LeavesMails(r)
      BY <1>0, <2>2, <2>4 DEF LeavesMails, Right
    <3> QED
      BY <2>4, <2>5, <3>1, MailsStay
  <2>10. CodesSpent'
    <3>1. LeavesCodes(r)
      BY <1>0, <1>1, <2>2, <2>4 DEF LeavesCodes
    <3> QED
      BY <2>4, <2>5, <3>1, CodesStay
  <2>11. DevicesReplaced'
    BY <1>0, <2>2, <2>4, <2>5, DevicesStay
  <2> QED
    BY <2>6, <2>7, <2>8, <2>9, <2>10, <2>11 DEF FactorInv
<1>2. CASE ~ (factor.method # "" /\ verifying[r].recovery \in factor.codes)
  <2>1. "idle" \in F!Steps /\ skipped' \in BOOLEAN
    BY <1>0, FactorTypesOf DEF F!Steps
  <2>2. F!Goto(r, "idle")
    BY <1>2 DEF F!VerifyRecoveryCode
  <2> QED
    BY <1>0, <2>1, <2>2, GoesQuietly
<1> QED
  BY <1>1, <1>2

\* The list that was read is written back without the code.
LEMMA UpdateRecoveryCodesKeeps ==
  ASSUME F!SecondFactorAssumption, FactorInv, NEW r \in Req, F!UpdateRecoveryCodes(r)
  PROVE  FactorInv'
<1> DEFINE q == verifying[r]
           left == q.list \ {q.recovery}
<1>0. /\ q.pc = "rewrite" /\ Serving(r) /\ F!Goto(r, "session")
      /\ factor' = [factor EXCEPT !.codes = left]
      /\ UNCHANGED <<app, temps, mail, devices, issued, begun, errors>>
      /\ UNCHANGED <<honoured, skipped, overlap>>
  BY DEF F!UpdateRecoveryCodes, F!Remaining, F!At, Serving, F!history
<1>1. /\ issued \in Issued /\ factor \in FactorRow /\ temps \subseteq issued.temps
      /\ mail \in 0..issued.mails /\ devices \subseteq Agent \X (1..issued.devices)
      /\ F!TypeOK /\ Holds(q, issued) /\ q \in F!Request
  BY FactorTypesOf DEF FactorInv, FactorTypes
<1>2. q.list \subseteq F!Recovery /\ q.recovery \in F!Recovery /\ q.code = 0
  BY <1>0, <1>1 DEF F!Request, Holds
<1>3. factor' \in FactorRow /\ factor'.codes = left
  BY <1>0, <1>1, <1>2 DEF FactorRow
<1>4. /\ "session" \in F!Steps /\ issued' \in Issued /\ issued.temps \subseteq issued'.temps
      /\ issued.mails <= issued'.mails /\ temps' \subseteq issued'.temps
      /\ mail' \in 0..issued'.mails /\ devices' \subseteq Agent \X (1..issued'.devices)
  BY <1>0, <1>1 DEF F!Steps, Issued
<1>5. /\ FactorTypes' /\ Apart' /\ GoesOn(r, "session") /\ SameBut(r)
      /\ verifying'[r].pc = "session" /\ (overlap => overlap') /\ (errors' = 0 => errors = 0)
  <2>1. UNCHANGED <<app, begun, honoured, overlap>> /\ errors' = errors /\ skipped' = skipped
    BY <1>0
  <2> QED
    BY <1>0, <1>3, <1>4, <2>1, Onward
<1>6. /\ verifying'[r].temp = q.temp /\ verifying'[r].code = q.code
      /\ verifying'[r].recovery = q.recovery
  BY <1>5 DEF GoesOn
<1>7. TokensSpent'
  <2>1. LeavesTokens(r)
    BY <1>0, <1>5, <1>6 DEF LeavesTokens, Shows, Spent
  <2> QED
    BY <1>5, <2>1, TokensStay
<1>8. MailsSpent'
  <2>1. LeavesMails(r)
    BY <1>0, <1>2, <1>5, <1>6 DEF LeavesMails, Right
  <2> QED
    BY <1>5, <2>1, MailsStay
<1>9. CodesSpent'
  <2>1. ASSUME ~ overlap'
        PROVE  /\ ~ overlap /\ left \subseteq factor.codes /\ q.recovery \in factor.codes
               /\ q.recovery \notin left
               /\ \A s \in Req \ {r} : verifying'[s].pc = "idle"
    <3>1. ~ overlap /\ q.list = factor.codes /\ q.recovery \in factor.codes
      BY <1>0, <2>1 DEF FactorInv, CodesSpent
    <3>2. \A s \in Req \ {r} : verifying'[s].pc = "idle"
      BY <1>0, <1>5, <3>1 DEF FactorInv, Apart, Serving, SameBut
    <3> QED
      BY <3>1, <3>2
  <2>2. ASSUME ~ overlap', NEW c \in F!Recovery
        PROVE  /\ honoured'.recovery[c] <= 1
               /\ c \in factor'.codes \/ c[1] > issued'.batches => honoured'.recovery[c] = 0
    BY <1>0, <1>3, <2>1, <2>2 DEF FactorInv, CodesSpent
  <2>3. ASSUME ~ overlap'
        PROVE  /\ honoured'.recovery[q.recovery] = 0 /\ q.recovery \notin factor'.codes
               /\ q.recovery[1] <= issued'.batches
    <3>1. q.recovery \in F!Batch(issued.batches) /\ honoured.recovery[q.recovery] = 0
      BY <1>2, <2>1, <2>3 DEF FactorInv, CodesSpent
    <3>2. q.recovery[1] = issued.batches /\ issued.batches \in Nat
      BY <1>1, <3>1 DEF F!Batch, Issued
    <3> QED
      BY <1>0, <1>3, <2>1, <2>3, <3>1, <3>2
  <2>4. ASSUME ~ overlap'
        PROVE  factor'.codes \subseteq F!Batch(issued'.batches)
    BY <1>0, <1>3, <2>1, <2>4 DEF FactorInv, CodesSpent
  <2>5. ASSUME ~ overlap', NEW s \in Req
        PROVE  LET p == verifying'[s] IN
               /\ p.pc = "rewrite" => p.list = factor'.codes /\ p.recovery \in factor'.codes
               /\ p.pc = "session" /\ p.recovery \in F!Recovery =>
                    /\ honoured'.recovery[p.recovery] = 0
                    /\ p.recovery \notin factor'.codes
                    /\ p.recovery[1] <= issued'.batches
    <3>1. CASE s = r
      BY <1>5, <1>6, <2>3, <2>5, <3>1
    <3>2. CASE s # r
      BY <2>1, <2>5, <3>2
    <3> QED
      BY <3>1, <3>2
  <2> QED
    BY <2>2, <2>4, <2>5 DEF CodesSpent, F!Batch
<1>10. DevicesReplaced'
  <2>1. devices' \subseteq devices
    BY <1>0
  <2> QED
    BY <1>5, <2>1, DevicesStay
<1> QED
  BY <1>5, <1>7, <1>8, <1>9, <1>10 DEF FactorInv

\* A sign-in is counted for the token and the code it was presented.
LEMMA CreateSessionKeeps ==
  ASSUME F!SecondFactorAssumption, FactorInv, NEW r \in Req, F!CreateSession(r)
  PROVE  FactorInv'
<1> DEFINE q == verifying[r]
           One(b) == IF b THEN 1 ELSE 0
<1>0. /\ q.pc = "session" /\ Serving(r) /\ F!Goto(r, "clear")
      /\ honoured' =
           [temps |-> [t \in Temp |-> honoured.temps[t] + One(t = q.temp)],
            mails |-> [n \in 1..MaxMails |-> honoured.mails[n] + One(n = q.code)],
            recovery |-> [c \in F!Recovery |-> honoured.recovery[c] + One(c = q.recovery)]]
      /\ UNCHANGED <<factor, app, temps, mail, devices, issued, begun, errors>>
      /\ skipped' = skipped /\ overlap' = overlap
  BY DEF F!CreateSession, F!At, Serving
<1>1. /\ issued \in Issued /\ F!TypeOK /\ Holds(q, issued) /\ q \in F!Request
      /\ q.temp \in issued.temps /\ q.code <= issued.mails
  BY <1>0, FactorTypesOf DEF FactorInv, FactorTypes, Holds
<1>2. /\ \A t \in Temp : /\ honoured.temps[t] \in Nat
                         /\ honoured'.temps[t] = honoured.temps[t] + One(t = q.temp)
      /\ \A n \in 1..MaxMails :
           /\ honoured.mails[n] \in Nat
           /\ honoured'.mails[n] = honoured.mails[n] + One(n = q.code)
      /\ \A c \in F!Recovery :
           /\ honoured.recovery[c] \in Nat
           /\ honoured'.recovery[c] = honoured.recovery[c] + One(c = q.recovery)
  BY <1>0, <1>1 DEF F!TypeOK
<1>3. honoured' \in [temps : [Temp -> Nat], mails : [1..MaxMails -> Nat],
                     recovery : [F!Recovery -> Nat]]
  <2>1. /\ \A t \in Temp : honoured.temps[t] + One(t = q.temp) \in Nat
        /\ \A n \in 1..MaxMails : honoured.mails[n] + One(n = q.code) \in Nat
        /\ \A c \in F!Recovery : honoured.recovery[c] + One(c = q.recovery) \in Nat
    BY <1>2
  <2> HIDE DEF One
  <2> QED
    BY <1>0, <2>1
<1>4. /\ GoesOn(r, "clear") /\ SameBut(r) /\ verifying'[r].pc = "clear"
      /\ verifying' \in [Req -> F!Request]
      /\ verifying'[r].temp = q.temp /\ verifying'[r].code = q.code
      /\ verifying'[r].agent = q.agent
  <2>1. "clear" \in F!Steps
    BY DEF F!Steps
  <2>2. GoesOn(r, "clear")
    BY <1>0, <1>1, <2>1, FactorGoes
  <2> QED
    BY <2>2 DEF GoesOn
<1>5. F!TypeOK'
  BY <1>0, <1>1, <1>3, <1>4 DEF F!TypeOK
<1>6. FactorTypes'
  <2>1. ASSUME NEW s \in Req
        PROVE  Holds(verifying'[s], issued')
    <3>1. CASE s = r
      BY <1>0, <1>1, <1>4, <3>1 DEF Holds
    <3>2. CASE s # r
      BY <1>0, <1>4, <3>2 DEF SameBut, FactorInv, FactorTypes
    <3> QED
      BY <3>1, <3>2
  <2>2. \A t \in Temp \ issued'.temps : honoured'.temps[t] = 0
    BY <1>0, <1>1, <1>2 DEF FactorInv, FactorTypes
  <2>3. ASSUME NEW n \in 1..MaxMails, n > issued'.mails
        PROVE  honoured'.mails[n] = 0
    <3>1. issued'.mails = issued.mails /\ issued.mails \in Nat /\ q.code \in Nat
      BY <1>0, <1>1 DEF Issued, F!Request
    <3>2. n # q.code /\ honoured.mails[n] = 0
      BY <1>1, <2>3, <3>1 DEF FactorInv, FactorTypes
    <3> QED
      BY <1>2, <3>2
  <2> QED
    BY <1>0, <1>1, <1>5, <2>1, <2>2, <2>3 DEF FactorTypes
<1>7. Apart'
  BY <1>0, <1>4, ApartGoes DEF FactorInv
<1>8. Most \in Nat /\ MostNext = Most
  BY <1>0, MostGrows DEF Most, MostNext
<1> HIDE DEF q
<1>9. TokensSpent'
  <2>1. ASSUME errors' = 0, NEW t \in Temp
        PROVE  IF t \in temps' THEN honoured'.temps[t] <= SpendingNext(t)
               ELSE honoured'.temps[t] + ShowingNext(t) <= MostNext
    <3>1. /\ Showing(t) \in Nat /\ Spending(t) \in Nat /\ honoured.temps[t] \in Nat
          /\ honoured'.temps[t] = honoured.temps[t] + One(t = q.temp)
      BY <1>2, HoldBounds DEF FactorInv
    <3>2. IF t \in temps THEN honoured.temps[t] <= Spending(t)
          ELSE honoured.temps[t] + Showing(t) <= Most
      BY <1>0, <2>1 DEF FactorInv, TokensSpent
    <3>3. /\ Shift(Showing(t), ShowingNext(t), Shows(q, t), Shows(verifying'[r], t))
          /\ Shift(Spending(t), SpendingNext(t), Spent(q, t), Spent(verifying'[r], t))
      BY <1>4, HoldMoves DEF q
    <3>4. CASE t = q.temp
      <4>1. /\ Shows(q, t) /\ ~ Shows(verifying'[r], t)
            /\ ~ Spent(q, t) /\ Spent(verifying'[r], t)
        BY <1>0, <1>4, <3>4 DEF Shows, Spent, q
      <4>2. ShowingNext(t) = Showing(t) - 1 /\ SpendingNext(t) = Spending(t) + 1
        BY <3>3, <4>1 DEF Shift
      <4> QED
        BY <1>0, <1>8, <3>1, <3>2, <3>4, <4>2
    <3>5. CASE t # q.temp
      <4>1. /\ ~ Shows(q, t) /\ ~ Shows(verifying'[r], t)
            /\ ~ Spent(q, t) /\ ~ Spent(verifying'[r], t)
        BY <1>0, <1>4, <3>5 DEF Shows, Spent, q
      <4>2. ShowingNext(t) = Showing(t) /\ SpendingNext(t) = Spending(t)
        BY <3>3, <4>1 DEF Shift
      <4> QED
        BY <1>0, <1>8, <3>1, <3>2, <3>5, <4>2
    <3> QED
      BY <3>4, <3>5
  <2> QED
    BY <2>1 DEF TokensSpent, ShowingNext, Showing, SpendingNext, Spending, MostNext, Most
<1>10. MailsSpent'
  <2>1. ASSUME errors' = 0, NEW n \in 1..MaxMails
        PROVE  IF n = mail' \/ n > issued'.mails
               THEN /\ honoured'.mails[n] = 0
                    /\ \A s \in Req : ~ (verifying'[s].pc = "session"
                                         /\ verifying'[s].code = n)
               ELSE honoured'.mails[n] + TrustedNext(n) <= MostNext
    <3>1. /\ Trusted(n) \in Nat /\ honoured.mails[n] \in Nat
          /\ honoured'.mails[n] = honoured.mails[n] + One(n = q.code)
      BY <1>2, HoldBounds DEF FactorInv
    <3>2. IF n = mail \/ n > issued.mails
          THEN /\ honoured.mails[n] = 0
               /\ \A s \in Req : ~ (verifying[s].pc = "session" /\ verifying[s].code = n)
          ELSE honoured.mails[n] + Trusted(n) <= Most
      BY <1>0, <2>1 DEF FactorInv, MailsSpent
    <3>3. Shift(Trusted(n), TrustedNext(n), Right(q, n), Right(verifying'[r], n))
      BY <1>4, HoldMoves DEF q
    <3>4. CASE n = q.code
      <4>1. Right(q, n) /\ ~ Right(verifying'[r], n)
        BY <1>0, <1>4, <3>4 DEF Right, q
      <4>2. TrustedNext(n) = Trusted(n) - 1
        BY <3>3, <4>1 DEF Shift
      <4>3. ~ (n = mail \/ n > issued.mails)
        BY <1>0, <3>2, <3>4 DEF q
      <4> QED
        BY <1>0, <1>8, <3>1, <3>2, <3>4, <4>2, <4>3
    <3>5. CASE n # q.code
      <4>1. ~ Right(q, n) /\ ~ Right(verifying'[r], n)
        BY <1>0, <1>4, <3>5 DEF Right, q
      <4>2. TrustedNext(n) = Trusted(n)
        BY <3>3, <4>1 DEF Shift
      <4>3. CASE n = mail \/ n > issued.mails
        <5>1. ASSUME NEW s \in Req
              PROVE  ~ (verifying'[s].pc = "session" /\ verifying'[s].code = n)
          BY <1>4, <3>2, <4>3 DEF SameBut
        <5> QED
          BY <1>0, <3>1, <3>2, <3>5, <4>3, <5>1
      <4>4. CASE ~ (n = mail \/ n > issued.mails)
        BY <1>0, <1>8, <3>1, <3>2, <3>5, <4>2, <4>4
      <4> QED
        BY <4>3, <4>4
    <3> QED
      BY <3>4, <3>5
  <2> QED
    BY <2>1 DEF MailsSpent, TrustedNext, Trusted, MostNext, Most
<1>11. CodesSpent'
  <2>1. ASSUME ~ overlap'
        PROVE  ~ overlap /\ \A s \in Req \ {r} : verifying'[s].pc = "idle"
    BY <1>0, <1>4, <2>1 DEF FactorInv, Apart, Serving, SameBut
  <2>2. ASSUME ~ overlap', NEW c \in F!Recovery
        PROVE  /\ honoured'.recovery[c] <= 1
               /\ c \in factor'.codes \/ c[1] > issued'.batches => honoured'.recovery[c] = 0
    <3>1. /\ honoured.recovery[c] \in Nat /\ honoured.recovery[c] <= 1
          /\ honoured'.recovery[c] = honoured.recovery[c] + One(c = q.recovery)
          /\ c \in factor.codes \/ c[1] > issued.batches => honoured.recovery[c] = 0
      BY <1>2, <2>1, <2>2 DEF FactorInv, CodesSpent
    <3>2. CASE c = q.recovery
      <4>1. honoured.recovery[c] = 0 /\ c \notin factor.codes /\ c[1] <= issued.batches
        BY <1>0, <2>1, <2>2, <3>2 DEF FactorInv, CodesSpent, q
      <4>2. c[1] \in Nat /\ issued.batches \in Nat
        BY <1>1 DEF F!Recovery, Issued
      <4> QED
        BY <1>0, <3>1, <3>2, <4>1, <4>2
    <3>3. CASE c # q.recovery
      BY <1>0, <3>1, <3>3
    <3> QED
      BY <3>2, <3>3
  <2>3. ASSUME ~ overlap', NEW s \in Req
        PROVE  verifying'[s].pc \in {"idle", "clear"}
    BY <1>4, <2>1, <2>3
  <2>4. ASSUME ~ overlap'
        PROVE  factor'.codes \subseteq F!Batch(issued'.batches)
    BY <1>0, <2>1, <2>4 DEF FactorInv, CodesSpent
  <2> QED
    BY <2>2, <2>3, <2>4 DEF CodesSpent, F!Batch
<1>12. DevicesReplaced'
  BY <1>0, <1>4, DevicesStay
<1> QED
  BY <1>6, <1>7, <1>9, <1>10, <1>11, <1>12 DEF FactorInv

\* A token that is gone from the store: those that show it are all there will be.
LEMMA TokensGone ==
  ASSUME F!SecondFactorAssumption, FactorInv, temps' \subseteq temps,
         honoured'.temps = honoured.temps, Most \in Nat, MostNext \in Nat, Most <= MostNext,
         errors' = 0 => errors = 0,
         \A t \in Temp : ShowingNext(t) = Showing(t),
         \A t \in temps' : t \in Temp /\ SpendingNext(t) = Spending(t)
  PROVE  TokensSpent'
<1>1. ASSUME errors' = 0, NEW t \in Temp
      PROVE  IF t \in temps' THEN honoured'.temps[t] <= SpendingNext(t)
             ELSE honoured'.temps[t] + ShowingNext(t) <= MostNext
  <2>1. /\ Showing(t) \in Nat /\ Spending(t) \in Nat /\ honoured.temps[t] \in Nat
        /\ Showing(t) + Spending(t) <= Most
    BY HoldBounds DEF FactorInv, FactorTypes, F!TypeOK
  <2>2. IF t \in temps THEN honoured.temps[t] <= Spending(t)
        ELSE honoured.temps[t] + Showing(t) <= Most
    BY <1>1 DEF FactorInv, TokensSpent
  <2>3. CASE t \in temps'
    BY <2>1, <2>2, <2>3
  <2>4. CASE t \notin temps'
    <3>1. honoured.temps[t] + Showing(t) <= Most
      BY <2>1, <2>2
    <3> QED
      BY <2>1, <2>4, <3>1
  <2> QED
    BY <2>3, <2>4
<1> QED
  BY <1>1 DEF TokensSpent, ShowingNext, Showing, SpendingNext, Spending, MostNext, Most

\* The token is deleted, unless the command fails.
LEMMA ClearTempSessionKeeps ==
  ASSUME F!SecondFactorAssumption, FactorInv, NEW r \in Req, F!ClearTempSession(r)
  PROVE  FactorInv'
<1>0. verifying[r].pc = "clear" /\ Serving(r)
  BY DEF F!ClearTempSession, F!At, Serving
<1>1. PICK step \in {"idle", "dedup"} :
        \/ /\ temps' = temps \ {verifying[r].temp}
           /\ F!Goto(r, step)
           /\ UNCHANGED <<factor, app, mail, devices, issued, begun, errors, F!history>>
        \/ F!Fail(r, step)
  BY DEF F!ClearTempSession
<1>2. step \in F!Steps /\ step # "session" /\ step # "create" /\ step # "clear"
  BY DEF F!Steps
<1>3. CASE F!Fail(r, step)
  BY <1>0, <1>2, <1>3, FactorFails, Zenon
<1>4. ASSUME temps' = temps \ {verifying[r].temp}, F!Goto(r, step),
             UNCHANGED <<factor, app, mail, devices, issued, begun, errors, F!history>>
      PROVE  FactorInv'
  <2>1. /\ issued \in Issued /\ factor \in FactorRow /\ temps \subseteq issued.temps
        /\ mail \in 0..issued.mails /\ devices \subseteq Agent \X (1..issued.devices)
        /\ F!TypeOK
    BY FactorTypesOf
  <2>2. /\ UNCHANGED <<app, begun, honoured, overlap>> /\ errors' = errors
        /\ skipped' = skipped /\ factor' = factor /\ devices' = devices /\ mail' = mail
        /\ issued' = issued
    BY <1>4 DEF F!history
  <2>3. /\ factor' \in FactorRow /\ issued' \in Issued /\ issued.temps \subseteq issued'.temps
        /\ issued.mails <= issued'.mails /\ temps' \subseteq issued'.temps
        /\ mail' \in 0..issued'.mails /\ devices' \subseteq Agent \X (1..issued'.devices)
    BY <1>4, <2>1, <2>2 DEF Issued
  <2>4. /\ FactorTypes' /\ Apart' /\ SameBut(r) /\ verifying'[r].pc = step
        /\ (overlap => overlap') /\ (errors' = 0 => errors = 0)
    <3>1. step \notin {"factor", "recovery", "rewrite", "drop_mail"}
      OBVIOUS
    <3> QED
      BY <1>0, <1>2, <1>4, <2>2, <2>3, <3>1, Onward
  <2>5. TokensSpent'
    <3>1. Most \in Nat /\ MostNext \in Nat /\ Most <= MostNext
      BY <2>4, MostGrows
    <3>2. ASSUME NEW t \in Temp
          PROVE  ShowingNext(t) = Showing(t)
      <4>1. ~ Shows(verifying[r], t) /\ ~ Shows(verifying'[r], t)
        BY <1>0, <2>4 DEF Shows
      <4> QED
        BY <2>4, <4>1, HoldMoves DEF Shift
    <3>3. ASSUME NEW t \in temps'
          PROVE  t \in Temp /\ SpendingNext(t) = Spending(t)
      <4>1. t \in Temp /\ t # verifying[r].temp
        BY <1>4, <2>1 DEF Issued
      <4>2. ~ Spent(verifying[r], t) /\ ~ Spent(verifying'[r], t)
        BY <1>2, <2>4, <4>1 DEF Spent
      <4> QED
        BY <2>4, <4>1, <4>2, HoldMoves DEF Shift
    <3>4. temps' \subseteq temps
      BY <1>4
    <3> QED
      BY <2>2, <2>4, <3>1, <3>2, <3>3, <3>4, TokensGone
  <2>6. MailsSpent'
    <3>1. LeavesMails(r)
      BY <2>2, <2>4, <1>2 DEF LeavesMails, Right
    <3> QED
      BY <2>4, <3>1, MailsStay
  <2>7. CodesSpent'
    <3>1. LeavesCodes(r)
      BY <2>2, <2>4 DEF LeavesCodes
    <3> QED
      BY <2>4, <3>1, CodesStay
  <2>8. DevicesReplaced'
    BY <1>2, <2>2, <2>4, DevicesStay
  <2> QED
    BY <2>4, <2>5, <2>6, <2>7, <2>8 DEF FactorInv
<1> QED
  BY <1>1, <1>3, <1>4

\* A browser's devices are deleted before one is made.
LEMMA ReplaceDeviceKeeps ==
  ASSUME F!SecondFactorAssumption, FactorInv, NEW r \in Req,
         F!DeleteByUserAppAndUserAgent(r) \/ F!CreateTrustedDevice(r)
  PROVE  FactorInv'
<1> DEFINE q == verifying[r]
<1>0. /\ issued \in Issued /\ factor \in FactorRow /\ temps \subseteq issued.temps
      /\ mail \in 0..issued.mails /\ devices \subseteq Agent \X (1..issued.devices)
      /\ F!TypeOK /\ Holds(q, issued) /\ issued.devices \in Nat
  BY FactorTypesOf DEF FactorInv, FactorTypes, Issued
<1> DEFINE Replaces(step) ==
       /\ F!Goto(r, step) /\ step \in {"create", "idle"}
       /\ q.pc \in {"dedup", "create"} /\ (step = "create" => q.pc = "dedup")
       /\ UNCHANGED <<factor, app, temps, mail, begun, errors>>
       /\ UNCHANGED <<honoured, skipped, overlap>>
       /\ issued' \in Issued /\ issued'.temps = issued.temps /\ issued'.mails = issued.mails
       /\ issued'.batches = issued.batches
       /\ devices' \subseteq Agent \X (1..issued'.devices)
<1>1. ASSUME NEW step, Replaces(step), DevicesReplaced'
      PROVE  FactorInv'
  <2>1. /\ Serving(r) /\ step \in F!Steps
        /\ step \notin {"factor", "recovery", "rewrite", "drop_mail"}
        /\ step # "session" /\ step # "clear" /\ step # "dedup"
        /\ (step = "create" => verifying[r].pc = "dedup")
    BY <1>1 DEF Serving, F!Steps
  <2>2. /\ UNCHANGED <<app, begun, honoured, overlap>> /\ errors' = errors
        /\ skipped' = skipped /\ factor' = factor /\ mail' = mail /\ temps' = temps
    BY <1>1
  <2>3. /\ factor' \in FactorRow /\ issued' \in Issued /\ issued.temps \subseteq issued'.temps
        /\ issued.mails <= issued'.mails /\ temps' \subseteq issued'.temps
        /\ mail' \in 0..issued'.mails /\ devices' \subseteq Agent \X (1..issued'.devices)
    BY <1>0, <1>1 DEF Issued
  <2>4. /\ FactorTypes' /\ Apart' /\ SameBut(r) /\ verifying'[r].pc = step
        /\ (overlap => overlap') /\ (errors' = 0 => errors = 0)
    BY <1>1, <2>1, <2>2, <2>3, Onward
  <2>5. TokensSpent'
    <3>1. LeavesTokens(r)
      BY <1>1, <2>2, <2>4 DEF LeavesTokens, Shows, Spent
    <3> QED
      BY <2>4, <3>1, TokensStay
  <2>6. MailsSpent'
    <3>1. LeavesMails(r)
      BY <1>1, <2>2, <2>4 DEF LeavesMails, Right
    <3> QED
      BY <2>4, <3>1, MailsStay
  <2>7. CodesSpent'
    <3>1. LeavesCodes(r)
      BY <1>1, <2>2, <2>4 DEF LeavesCodes
    <3> QED
      BY <2>4, <3>1, CodesStay
  <2> QED
    BY <1>1, <2>4, <2>5, <2>6, <2>7 DEF FactorInv
<1>2. CASE F!DeleteByUserAppAndUserAgent(r)
  <2>1. /\ q.pc = "dedup" /\ F!Goto(r, "create")
        /\ devices' = {d \in devices : d[1] # q.agent}
        /\ UNCHANGED <<factor, app, temps, mail, begun, errors, issued>>
        /\ UNCHANGED <<honoured, skipped, overlap>>
    BY <1>2 DEF F!DeleteByUserAppAndUserAgent, F!SameAgent, F!At, F!history
  <2>2. Replaces("create")
    BY <1>0, <2>1 DEF Issued
  <2>3. GoesOn(r, "create")
    BY <1>0, <2>1, FactorGoes DEF F!Steps
  <2>4. DevicesReplaced'
    <3>1. /\ verifying'[r].agent = q.agent
          /\ \A s \in Req \ {r} : verifying'[s] = verifying[s]
      BY <2>3 DEF GoesOn, SameBut
    <3> QED
      BY <2>1, <3>1 DEF FactorInv, DevicesReplaced
  <2> QED
    BY <1>1, <2>2, <2>4
<1>3. CASE F!CreateTrustedDevice(r)
  <2> DEFINE new == <<q.agent, issued.devices + 1>>
  <2>1. /\ q.pc = "create" /\ F!Goto(r, "idle") /\ issued.devices < MaxDevices
        /\ issued' = [issued EXCEPT !.devices = @ + 1]
        /\ devices' = devices \cup {new}
        /\ UNCHANGED <<factor, app, temps, mail, begun, errors>>
        /\ UNCHANGED <<honoured, skipped, overlap>>
    BY <1>3 DEF F!CreateTrustedDevice, F!At, F!history
  <2>2. /\ issued' \in Issued /\ issued'.temps = issued.temps /\ issued'.mails = issued.mails
        /\ issued'.batches = issued.batches /\ issued'.devices = issued.devices + 1
    <3>1. issued.devices + 1 \in 0..MaxDevices
      BY <1>0, <2>1 DEF F!SecondFactorAssumption
    <3> QED
      BY <1>0, <2>1, <3>1 DEF Issued
  <2>3. devices' \subseteq Agent \X (1..issued'.devices)
    <3>1. q.agent \in Agent
      BY <1>0, <2>1 DEF Holds
    <3>2. /\ 1..issued.devices \subseteq 1..issued'.devices
          /\ issued.devices + 1 \in 1..issued'.devices
      BY <1>0, <2>2
    <3> QED
      BY <1>0, <2>1, <3>1, <3>2
  <2>4. Replaces("idle")
    BY <2>1, <2>2, <2>3
  <2>5. DevicesReplaced'
    <3>1. GoesOn(r, "idle")
      BY <1>0, <2>1, FactorGoes DEF F!Steps
    <3>2. /\ verifying'[r].pc = "idle" /\ \A s \in Req \ {r} : verifying'[s] = verifying[s]
      BY <3>1 DEF GoesOn, SameBut
    <3>3. ASSUME ~ overlap'
          PROVE  /\ ~ overlap /\ \A s \in Req \ {r} : verifying'[s].pc = "idle"
                 /\ \A d \in devices : d[1] # q.agent
                 /\ \A d, e \in devices : d[1] = e[1] => d = e
      <4>1. ~ overlap /\ Serving(r)
        BY <2>1, <3>3 DEF Serving
      <4> QED
        BY <2>1, <3>2, <4>1 DEF FactorInv, Apart, Serving, DevicesReplaced
    <3>4. new[1] = q.agent
      OBVIOUS
    <3> HIDE DEF new
    <3>5. ASSUME ~ overlap', NEW d \in devices', NEW e \in devices', d[1] = e[1]
          PROVE  d = e
      BY <2>1, <3>3, <3>4, <3>5
    <3>6. ~ overlap' => \A s \in Req : verifying'[s].pc = "idle"
      BY <3>2, <3>3
    <3> QED
      BY <3>5, <3>6 DEF DevicesReplaced
  <2> QED
    BY <1>1, <2>4, <2>5
<1> QED
  BY <1>2, <1>3

\* The new list of a request that is alone replaces the one before.
LEMMA StoreNewCodesKeeps ==
  ASSUME F!SecondFactorAssumption, FactorInv, NEW r \in Req, F!StoreNewCodes(r)
  PROVE  FactorInv'
<1>0. /\ issued \in Issued /\ factor \in FactorRow /\ temps \subseteq issued.temps
      /\ mail \in 0..issued.mails /\ devices \subseteq Agent \X (1..issued.devices)
      /\ F!TypeOK /\ MaxBatches \in Nat
  BY FactorTypesOf DEF F!SecondFactorAssumption
<1>1. /\ verifying[r].pc = "regenerate" /\ Serving(r) /\ F!Goto(r, "idle")
      /\ issued.batches < MaxBatches /\ issued' = [issued EXCEPT !.batches = @ + 1]
      /\ factor' = [factor EXCEPT !.codes = F!Batch(issued.batches + 1)]
      /\ UNCHANGED <<app, begun, honoured, overlap>> /\ errors' = errors
      /\ skipped' = skipped /\ temps' = temps /\ mail' = mail /\ devices' = devices
  BY DEF F!StoreNewCodes, F!NewCodes, F!At, F!history, Serving
<1>2. /\ issued' \in Issued /\ issued'.temps = issued.temps /\ issued'.mails = issued.mails
      /\ issued'.devices = issued.devices /\ issued'.batches = issued.batches + 1
      /\ issued.batches \in 1..MaxBatches /\ issued.batches + 1 \in 1..MaxBatches
  BY <1>0, <1>1 DEF Issued
<1>3. F!Batch(issued.batches + 1) \in SUBSET F!Recovery
  BY <1>2 DEF F!Batch, F!Recovery
<1>4. factor' \in FactorRow /\ factor'.codes = F!Batch(issued'.batches)
  BY <1>0, <1>1, <1>2, <1>3 DEF FactorRow
<1>5. /\ issued.temps \subseteq issued'.temps /\ issued.mails <= issued'.mails
      /\ temps' \subseteq issued'.temps /\ mail' \in 0..issued'.mails
      /\ devices' \subseteq Agent \X (1..issued'.devices)
  BY <1>0, <1>1, <1>2 DEF Issued
<1>6. /\ FactorTypes' /\ Apart' /\ SameBut(r) /\ verifying'[r].pc = "idle"
      /\ (overlap => overlap') /\ (errors' = 0 => errors = 0)
  <2>1. "idle" \in F!Steps
    BY DEF F!Steps
  <2> QED
    BY <1>1, <1>2, <1>4, <1>5, <2>1, Onward
<1>7. TokensSpent'
  <2>1. LeavesTokens(r)
    BY <1>1, <1>6 DEF LeavesTokens, Shows, Spent
  <2> QED
    BY <1>6, <2>1, TokensStay
<1>8. MailsSpent'
  <2>1. LeavesMails(r)
    BY <1>1, <1>2, <1>6 DEF LeavesMails, Right
  <2> QED
    BY <1>6, <2>1, MailsStay
<1>9. CodesSpent'
  <2>1. ~ overlap' => \A s \in Req : verifying'[s].pc = "idle"
    BY <1>1, <1>6 DEF FactorInv, Apart, Serving, SameBut
  <2>2. /\ factor'.codes \subseteq F!Batch(issued'.batches) /\ factor'.codes \subseteq F!Recovery
        /\ issued.batches <= issued'.batches /\ issued'.batches > issued.batches
        /\ honoured'.recovery = honoured.recovery
    BY <1>1, <1>2, <1>3, <1>4
  <2> QED
    BY <1>2, <1>6, <2>1, <2>2, CodesReplaced
<1>10. DevicesReplaced'
  BY <1>1, <1>6, DevicesStay
<1> QED
  BY <1>6, <1>7, <1>8, <1>9, <1>10 DEF FactorInv

\* The console deletes the devices it has listed, one by one.
LEMMA DeleteByIDKeeps ==
  ASSUME F!SecondFactorAssumption, FactorInv, NEW r \in Req, F!DeleteByID(r)
  PROVE  FactorInv'
<1>0. /\ F!TypeOK /\ issued \in Issued /\ factor \in FactorRow
      /\ app \in [trusts : BOOLEAN] /\ errors \in 0..MaxErrors /\ begun \in 0..MaxRequests
      /\ skipped \in BOOLEAN /\ overlap \in BOOLEAN
      /\ temps \subseteq issued.temps /\ mail \in 0..issued.mails
      /\ devices \subseteq Agent \X (1..issued.devices)
      /\ verifying \in [Req -> F!Request]
  BY FactorTypesOf
<1>1. PICK d \in verifying[r].found :
        /\ devices' = devices \ {d}
        /\ verifying' = [verifying EXCEPT ![r] =
             IF verifying[r].found \ {d} = {} THEN F!Idle
             ELSE [@ EXCEPT !.found = verifying[r].found \ {d}]]
  BY DEF F!DeleteByID
<1>2. /\ verifying[r].pc = "revoke" /\ factor' = factor /\ app' = app /\ temps' = temps
      /\ mail' = mail /\ issued' = issued /\ begun' = begun /\ errors' = errors
      /\ honoured' = honoured /\ skipped' = skipped /\ overlap' = overlap
  BY DEF F!DeleteByID, F!At, F!history
<1>3. /\ verifying' \in [Req -> F!Request] /\ SameBut(r)
      /\ verifying'[r].pc \in {"idle", "revoke"}
  <2>1. verifying[r] \in F!Request
    BY <1>0
  <2>2. PICK q \in F!Request : /\ q.pc \in {"idle", "revoke"}
                              /\ verifying' = [verifying EXCEPT ![r] = q]
    <3>1. CASE verifying[r].found \ {d} = {}
      BY <1>1, <3>1, FactorIdle
    <3>2. CASE verifying[r].found \ {d} # {}
      <4> DEFINE p == [verifying[r] EXCEPT !.found = verifying[r].found \ {d}]
      <4>1. p \in F!Request /\ p.pc = "revoke"
        BY <1>2, <2>1 DEF F!Request
      <4>2. verifying' = [verifying EXCEPT ![r] = p]
        BY <1>1, <3>2
      <4> HIDE DEF p
      <4> QED
        BY <4>1, <4>2
    <3> QED
      BY <3>1, <3>2
  <2> QED
    BY <1>0, <2>2 DEF SameBut
<1>4. F!TypeOK'
  <2>1. /\ skipped' \in BOOLEAN /\ overlap' \in BOOLEAN /\ begun' \in 0..MaxRequests
        /\ errors' \in 0..MaxErrors /\ app' \in [trusts : BOOLEAN] /\ factor' \in FactorRow
        /\ temps' \subseteq issued'.temps /\ mail' \in 0..issued'.mails
        /\ devices' \subseteq Agent \X (1..issued'.devices) /\ issued' \in Issued
    BY <1>0, <1>1, <1>2
  <2> QED
    BY <1>0, <1>2, <1>3, <2>1, FactorTyped DEF FactorRow
<1>5. FactorTypes'
  <2>1. Holds(verifying'[r], issued')
    BY <1>3 DEF Holds
  <2>2. issued.temps \subseteq issued'.temps /\ issued.mails <= issued'.mails /\ issued' \in Issued
    BY <1>0, <1>2 DEF Issued
  <2> QED
    BY <1>2, <1>3, <1>4, <2>1, <2>2, TypesStay DEF FactorInv
<1>6. Apart'
  <2>1. Serving(r)
    BY <1>2 DEF Serving
  <2> QED
    BY <1>2, <1>3, <2>1, ApartGoes DEF FactorInv
<1>7. (overlap => overlap') /\ (errors' = 0 => errors = 0)
  BY <1>2
<1>8. TokensSpent'
  <2>1. LeavesTokens(r)
    BY <1>2, <1>3 DEF LeavesTokens, Shows, Spent
  <2> QED
    BY <1>3, <1>7, <2>1, TokensStay
<1>9. MailsSpent'
  <2>1. LeavesMails(r)
    BY <1>2, <1>3 DEF LeavesMails, Right
  <2> QED
    BY <1>3, <1>7, <2>1, MailsStay
<1>10. CodesSpent'
  <2>1. LeavesCodes(r)
    BY <1>2, <1>3 DEF LeavesCodes
  <2> QED
    BY <1>3, <1>7, <2>1, CodesStay
<1>11. DevicesReplaced'
  BY <1>1, <1>3, <1>7, DevicesStay
<1> QED
  BY <1>5, <1>6, <1>8, <1>9, <1>10, <1>11 DEF FactorInv

\* Keys and rows lapse under whoever is served.
LEMMA FactorExpireKeeps ==
  ASSUME F!SecondFactorAssumption, FactorInv, F!Expire
  PROVE  FactorInv'
<1>0. /\ F!TypeOK /\ issued \in Issued /\ temps \subseteq issued.temps
      /\ mail \in 0..issued.mails /\ devices \subseteq Agent \X (1..issued.devices)
  BY FactorTypesOf
<1>1. /\ factor' = factor /\ app' = app /\ verifying' = verifying /\ issued' = issued
      /\ begun' = begun /\ errors' = errors /\ honoured' = honoured /\ skipped' = skipped
      /\ overlap' = overlap
  BY DEF F!Expire, F!history
<1>2. /\ temps' \subseteq temps /\ devices' \subseteq devices /\ mail' \in {0, mail}
  BY DEF F!Expire
<1>3. FactorTypes'
  <2>1. temps' \subseteq issued'.temps /\ mail' \in 0..issued'.mails
    BY <1>0, <1>1, <1>2 DEF Issued
  <2>2. devices' \subseteq Agent \X (1..issued'.devices)
    BY <1>0, <1>1, <1>2
  <2>3. F!TypeOK'
    BY <1>0, <1>1, <2>1, <2>2 DEF F!TypeOK
  <2> QED
    BY <1>1, <2>3 DEF FactorInv, FactorTypes
<1>4. Apart'
  BY <1>1 DEF FactorInv, Apart, Serving
<1>5. TokensSpent'
  <2>1. Most \in Nat /\ MostNext = Most
    <3>1. Cardinality(Req) \in Nat
      BY FiniteRequests, FS_CardinalityType
    <3> QED
      BY <1>1, <3>1 DEF Most, MostNext
  <2>2. /\ \A t \in Temp : ShowingNext(t) = Showing(t) /\ SpendingNext(t) = Spending(t)
        /\ \A t \in temps' : t \in Temp
    BY <1>0, <1>1, <1>2 DEF ShowingNext, Showing, SpendingNext, Spending, Issued
  <2> QED
    BY <1>1, <1>2, <2>1, <2>2, TokensGone
<1>6. MailsSpent'
  <2>1. ASSUME errors = 0, NEW n \in 1..MaxMails
        PROVE  IF n = mail' \/ n > issued.mails
               THEN /\ honoured.mails[n] = 0
                    /\ \A r \in Req : ~ (verifying[r].pc = "session" /\ verifying[r].code = n)
               ELSE honoured.mails[n] + Trusted(n) <= Most
    <3>1. Trusted(n) \in Nat /\ Trusted(n) <= Most /\ n # 0
      BY HoldBounds DEF FactorInv
    <3>0. honoured.mails[n] \in Nat
      BY <1>0 DEF F!TypeOK
    <3>2. IF n = mail \/ n > issued.mails
          THEN /\ honoured.mails[n] = 0
               /\ \A r \in Req : ~ (verifying[r].pc = "session" /\ verifying[r].code = n)
          ELSE honoured.mails[n] + Trusted(n) <= Most
      BY <2>1 DEF FactorInv, MailsSpent
    <3>3. n = mail' => n = mail
      BY <1>2, <3>1
    <3>4. CASE n = mail' \/ n > issued.mails
      BY <3>2, <3>3, <3>4
    <3>5. CASE ~ (n = mail' \/ n > issued.mails)
      <4>1. Most \in Nat
        BY FiniteRequests, FS_CardinalityType DEF Most
      <4> QED
        BY <3>0, <3>1, <3>2, <3>5, <4>1
    <3> QED
      BY <3>4, <3>5
  <2> QED
    BY <1>1, <2>1 DEF MailsSpent, Trusted, Most
<1>7. CodesSpent'
  BY <1>1 DEF FactorInv, CodesSpent
<1>8. DevicesReplaced'
  BY <1>1, <1>2 DEF FactorInv, DevicesReplaced
<1> QED
  BY <1>3, <1>4, <1>5, <1>6, <1>7, <1>8 DEF FactorInv

-----------------------------------------------------------------------------
(* The invariant of SecondFactor.                                           *)

factorState ==
  <<factor, app, temps, mail, devices, verifying, issued, honoured, skipped,
    begun, errors, overlap>>

LEMMA FactorStarts ==
  ASSUME F!SecondFactorAssumption, F!Init
  PROVE  FactorInv
<1>0. /\ MaxBatches \in Nat \ {0} /\ BatchSize \in Nat \ {0} /\ MaxMails \in Nat
      /\ MaxDevices \in Nat /\ MaxRequests \in Nat /\ MaxErrors \in Nat
  BY DEF F!SecondFactorAssumption
<1>1. /\ temps = {} /\ mail = 0 /\ devices = {} /\ verifying = [r \in Req |-> F!Idle]
      /\ issued = [temps |-> {}, mails |-> 0, batches |-> 1, devices |-> 0]
      /\ factor.codes = F!Batch(1)
      /\ honoured = [temps |-> [t \in Temp |-> 0], mails |-> [n \in 1..MaxMails |-> 0],
                     recovery |-> [c \in F!Recovery |-> 0]]
      /\ errors = 0 /\ overlap = FALSE
  BY DEF F!Init
<1>2. F!Batch(1) \in SUBSET F!Recovery
  BY <1>0 DEF F!Batch, F!Recovery
<1>3. factor \in FactorRow
  BY <1>2 DEF F!Init, FactorRow
<1>4. issued \in Issued /\ issued.batches = 1
  BY <1>0, <1>1 DEF Issued
<1>5. /\ verifying \in [Req -> F!Request] /\ \A r \in Req : verifying[r].pc = "idle"
  BY <1>1, FactorIdle
<1>6. F!TypeOK
  <2>1. app \in [trusts : BOOLEAN] /\ begun = 0 /\ skipped = FALSE
    BY DEF F!Init
  <2>2. honoured \in [temps : [Temp -> Nat], mails : [1..MaxMails -> Nat],
                      recovery : [F!Recovery -> Nat]]
    BY <1>1
  <2>3. /\ temps \subseteq issued.temps /\ issued.temps \subseteq Temp
        /\ mail \in 0..issued.mails /\ devices \subseteq Agent \X (1..issued.devices)
        /\ issued.batches \in 1..MaxBatches
    BY <1>0, <1>1
  <2>4. begun \in 0..MaxRequests /\ errors \in 0..MaxErrors
    BY <1>0, <1>1, <2>1
  <2> QED
    BY <1>1, <1>3, <1>5, <2>1, <2>2, <2>3, <2>4 DEF F!TypeOK, FactorRow
<1>7. FactorTypes
  BY <1>1, <1>4, <1>5, <1>6 DEF FactorTypes, Holds
<1>8. Apart
  BY <1>5 DEF Apart, Serving
<1>9. TokensSpent /\ MailsSpent
  <2>1. \A t \in Temp : Showing(t) \in Nat /\ Showing(t) <= Most /\ Spending(t) \in Nat
    <3>1. Most \in Nat
      BY <1>1 DEF Most
    <3>2. \A t \in Temp : /\ Showing(t) \in Nat /\ Spending(t) \in Nat
                          /\ Showing(t) + Spending(t) <= Most
      BY <1>8, HoldBounds
    <3> QED
      BY <3>1, <3>2
  <2>2. \A n \in 1..MaxMails : Trusted(n) \in Nat /\ Trusted(n) <= Most
    BY <1>8, HoldBounds
  <2>3. /\ \A t \in Temp : honoured.temps[t] = 0
        /\ \A n \in 1..MaxMails : honoured.mails[n] = 0
    BY <1>1
  <2>4. Most \in Nat
    BY <1>1 DEF Most
  <2>5. TokensSpent
    BY <1>1, <2>1, <2>3, <2>4 DEF TokensSpent
  <2>6. MailsSpent
    BY <1>5, <2>2, <2>3, <2>4 DEF MailsSpent
  <2> QED
    BY <2>5, <2>6
<1>10. CodesSpent
  BY <1>1, <1>4, <1>5 DEF CodesSpent
<1>11. DevicesReplaced
  BY <1>1, <1>5 DEF DevicesReplaced
<1> QED
  BY <1>7, <1>8, <1>9, <1>10, <1>11 DEF FactorInv

LEMMA FactorStep ==
  ASSUME F!SecondFactorAssumption, FactorInv, F!Next \/ UNCHANGED factorState
  PROVE  FactorInv'
<1>1. CASE F!Expire
  BY <1>1, FactorExpireKeeps
<1>2. ASSUME NEW r \in Req, NEW a \in Agent, F!LoginUser(r, a)
      PROVE  FactorInv'
  BY <1>2, EmptyRequestsKeep
<1>3. ASSUME NEW r \in Req, NEW a \in Agent, NEW t \in Temp, F!VerifyLogin(r, t, a)
      PROVE  FactorInv'
  BY <1>3, VerifyLoginKeeps
<1>4. ASSUME NEW r \in Req, NEW t \in Temp,
             F!ResendEmail2FACode(r, t) \/ F!ResendSMS2FACode(r, t)
             \/ F!ResendBackupEmail2FACode(r, t)
      PROVE  FactorInv'
  <2>1. F!Resend(r, t)
    BY <1>4 DEF F!ResendEmail2FACode, F!ResendSMS2FACode, F!ResendBackupEmail2FACode
  <2> QED
    BY <2>1, EmptyRequestsKeep
<1>5. ASSUME NEW r \in Req,
             F!Set2FAEmailCode(r) \/ F!GenerateEmail2FACode(r) \/ F!GenerateSMS2FACode(r)
             \/ F!GenerateBackupEmail2FACode(r)
      PROVE  FactorInv'
  <2>1. F!StoreMailedCode(r)
    BY <1>5 DEF F!Set2FAEmailCode, F!GenerateEmail2FACode, F!GenerateSMS2FACode,
                F!GenerateBackupEmail2FACode
  <2> QED
    BY <2>1, StoreMailedCodeKeeps
<1>6. ASSUME NEW r \in Req, F!SetTempUserSession(r)
      PROVE  FactorInv'
  BY <1>6, SetTempUserSessionKeeps
<1>7. ASSUME NEW r \in Req, F!ValidateTrustedDevice(r) \/ F!VerifyFactor(r)
      PROVE  FactorInv'
  BY <1>7, QuietStepsKeep
<1>8. ASSUME NEW r \in Req, F!Delete2FAEmailCode(r)
      PROVE  FactorInv'
  BY <1>8, DeleteCodeKeeps
<1>9. ASSUME NEW r \in Req, F!VerifyRecoveryCode(r)
      PROVE  FactorInv'
  BY <1>9, VerifyRecoveryCodeKeeps
<1>10. ASSUME NEW r \in Req, F!UpdateRecoveryCodes(r)
       PROVE  FactorInv'
  BY <1>10, UpdateRecoveryCodesKeeps
<1>11. ASSUME NEW r \in Req, F!CreateSession(r)
       PROVE  FactorInv'
  BY <1>11, CreateSessionKeeps
<1>12. ASSUME NEW r \in Req, F!ClearTempSession(r)
       PROVE  FactorInv'
  BY <1>12, ClearTempSessionKeeps
<1>13. ASSUME NEW r \in Req, F!DeleteByUserAppAndUserAgent(r) \/ F!CreateTrustedDevice(r)
       PROVE  FactorInv'
  BY <1>13, ReplaceDeviceKeeps
<1>14. ASSUME NEW r \in Req,
              F!RevokeTrustedDevices(r) \/ F!AdminRevokeTrustedDevice(r)
              \/ F!AdminRevokeAllTrustedDevices(r) \/ F!UserRevokeTrustedDevice(r)
       PROVE  FactorInv'
  <2>1. F!RevokeTrustedDevice(r) \/ F!RevokeAllTrustedDevices(r)
    BY <1>14 DEF F!RevokeTrustedDevices, F!AdminRevokeTrustedDevice,
                 F!AdminRevokeAllTrustedDevices, F!UserRevokeTrustedDevice
  <2> QED
    BY <2>1, EmptyRequestsKeep
<1>15. ASSUME NEW r \in Req,
              F!FindAllForUser(r) \/ F!GenerateNewRecoveryCodes(r) \/ F!ToggleUserActive(r)
              \/ F!UpdateAppSMSTrustedDevice(r)
       PROVE  FactorInv'
  BY <1>15, EmptyRequestsKeep
<1>16. ASSUME NEW r \in Req, F!DeleteByID(r)
       PROVE  FactorInv'
  BY <1>16, DeleteByIDKeeps
<1>17. ASSUME NEW r \in Req, F!StoreNewCodes(r)
       PROVE  FactorInv'
  BY <1>17, StoreNewCodesKeeps
<1>18. ASSUME NEW r \in Req,
              F!Disable2FA(r) \/ \E method \in {"totp", "email"} : F!Enable2FAWithMethod(r, method)
       PROVE  FactorInv'
  BY <1>18, NewFactorKeeps
<1>19. CASE UNCHANGED factorState
  <2>1. /\ factor' = factor /\ app' = app /\ temps' = temps /\ mail' = mail
        /\ devices' = devices /\ verifying' = verifying /\ issued' = issued
        /\ honoured' = honoured /\ skipped' = skipped /\ begun' = begun
        /\ errors' = errors /\ overlap' = overlap
    BY <1>19 DEF factorState
  <2> QED
    <3>1. FactorTypes'
      BY <2>1 DEF FactorInv, FactorTypes, F!TypeOK
    <3>2. Apart' /\ DevicesReplaced' /\ CodesSpent'
      BY <2>1 DEF FactorInv, Apart, Serving, CodesSpent, DevicesReplaced
    <3>3. TokensSpent'
      BY <2>1 DEF FactorInv, TokensSpent, Most, Showing, Spending
    <3>4. MailsSpent'
      BY <2>1 DEF FactorInv, MailsSpent, Most, Trusted
    <3> QED
      BY <3>1, <3>2, <3>3, <3>4 DEF FactorInv
<1> QED
  BY <1>1, <1>2, <1>3, <1>4, <1>5, <1>6, <1>7, <1>8, <1>9, <1>10, <1>11, <1>12, <1>13,
     <1>14, <1>15, <1>16, <1>17, <1>18, <1>19 DEF F!Next

LEMMA FactorMeans ==
  ASSUME F!SecondFactorAssumption, FactorInv
  PROVE  F!FactorsOnce
<1>1. F!TypeOK
  BY FactorTypesOf
<1>2. F!HonouredOnce
  <2>1. F!Cardinality(Req) = Cardinality(Req)
    BY SameFiniteSets
  <2>2. ASSUME errors = 0, NEW t \in Temp
        PROVE  honoured.temps[t] <= Most
    <3>1. /\ Showing(t) \in Nat /\ Spending(t) \in Nat /\ honoured.temps[t] \in Nat
          /\ Showing(t) + Spending(t) <= Most /\ Most \in Nat
      BY <1>1, HoldBounds, MostGrows, FiniteRequests, FS_CardinalityType
         DEF FactorInv, F!TypeOK, Most
    <3>2. IF t \in temps THEN honoured.temps[t] <= Spending(t)
          ELSE honoured.temps[t] + Showing(t) <= Most
      BY <2>2 DEF FactorInv, TokensSpent
    <3> QED
      BY <3>1, <3>2
  <2>3. ASSUME errors = 0, NEW n \in 1..MaxMails
        PROVE  honoured.mails[n] <= Most
    <3>1. /\ Trusted(n) \in Nat /\ Trusted(n) <= Most /\ honoured.mails[n] \in Nat
          /\ Most \in Nat
      BY <1>1, HoldBounds, FiniteRequests, FS_CardinalityType
         DEF FactorInv, F!TypeOK, Most
    <3>2. IF n = mail \/ n > issued.mails THEN honoured.mails[n] = 0
          ELSE honoured.mails[n] + Trusted(n) <= Most
      BY <2>3 DEF FactorInv, MailsSpent
    <3> QED
      BY <3>1, <3>2
  <2>4. \A c \in F!Recovery : overlap \/ honoured.recovery[c] <= 1
    BY DEF FactorInv, CodesSpent
  <2> QED
    BY <2>1, <2>2, <2>3, <2>4 DEF F!HonouredOnce, Most
<1>3. F!OldCodesDie
  BY DEF F!OldCodesDie, FactorInv, CodesSpent
<1>4. F!OneDevicePerAgent
  BY DEF F!OneDevicePerAgent, FactorInv, DevicesReplaced
<1> QED
  BY <1>1, <1>2, <1>3, <1>4 DEF F!FactorsOnce

FactorPart == part = "factor" => FactorInv

\* A temporary token, a mailed code or a recovery code signs in once, and a
\* browser has one device, in every interleaving of any number of sign-ins, but
\* for requests that overlap and commands that fail
\* (internal/twofa/service.go:231-264, 359-375, 810-816, internal/twofa/handler.go:443).
THEOREM SecondFactorsOnce == AllSpec => []FactorsOnce
<1>0. F!SecondFactorAssumption
  BY SignInAssumption
<1>1. AllInit => FactorPart
  BY <1>0, FactorStarts DEF AllInit, FactorPart
<1>2. FactorPart /\ [AllNext]_allVars => FactorPart'
  <2> SUFFICES ASSUME FactorPart, [AllNext]_allVars
               PROVE  FactorPart'
    OBVIOUS
  <2>1. CASE SecondFactor
    <3>1. part = "factor" /\ part' = part /\ F!Next
      BY <2>1 DEF SecondFactor
    <3> QED
      BY <1>0, <3>1, FactorStep DEF FactorPart
  <2>2. CASE Lockout \/ RateLimit \/ Enrolment \/ Passkeys
    BY <2>2 DEF Lockout, RateLimit, Enrolment, Passkeys, shared, FactorPart
  <2>3. CASE UNCHANGED allVars
    <3>1. UNCHANGED factorState /\ part' = part
      BY <2>3 DEF allVars, shared, factorVars, factorState
    <3> QED
      BY <1>0, <3>1, FactorStep DEF FactorPart
  <2> QED
    BY <2>1, <2>2, <2>3 DEF AllNext
<1>3. FactorPart => FactorsOnce
  BY <1>0, FactorMeans DEF FactorPart, FactorsOnce
<1> QED
  BY <1>1, <1>2, <1>3, PTL DEF AllSpec


-----------------------------------------------------------------------------
(* Passkeys (Passkeys).  A challenge is drawn once and stored in one place; *)
(* a ceremony takes it from there, and what finishes the ceremony is        *)
(* counted.                                                                 *)

\* A ceremony that may yet let in or register with its challenge.
Due(q, c) ==
  q.challenge = c /\ q.pc \in {"insert", "reread", "count", "recheck", "drop", "grant"}
Awaited(c) == Cardinality({r \in Req : Due(ceremony[r], c)})

\* The places a challenge is stored in, and the one a ceremony takes it from.
Homes(c) ==
  {<<"register", o>> : o \in {p \in P!Owner : regs[p] = c}}
    \cup {<<"second", u>> : u \in {v \in User : seconds[v] = c}}
    \cup {<<"discover", None>> : d \in {e \in {c} : discover[e] # "none"}}
HomeOf(q) ==
  IF q.goal \in {"register", "second"} THEN <<q.goal, q.owner>> ELSE <<"discover", None>>

\* What a ceremony holds.
Carries(q, drawn) ==
  /\ q.pc = "idle" => q = P!Idle
  /\ q.pc # "idle" => /\ q.owner \in P!Owner /\ q.key \in Passkey /\ q.challenge \in 1..drawn
                      /\ q.goal \in {"second", "passwordless"} => q.owner \in User
  /\ q.pc \in {"insert", "drop_reg"} => q.goal = "register"
  /\ q.pc \in {"reread", "count", "recheck", "drop", "grant"} =>
       q.goal \in {"second", "passwordless", "admin"}

PasskeyTypes ==
  /\ P!TypeOK /\ IsFiniteSet(signed)
  /\ \A c \in P!Challenge : used[c] + Awaited(c) <= begun
  /\ \A r \in Req : Carries(ceremony[r], Len(allowed))

\* A challenge has one home, which it leaves for good.
ChallengesHome ==
  \A c \in P!Challenge :
    /\ \A h, i \in Homes(c) : h = i
    /\ c > Len(allowed) => Homes(c) = {} /\ used[c] = 0
    /\ \A r \in Req : \A h \in Homes(c) :
         ceremony[r].challenge = c => h = HomeOf(ceremony[r])

\* It is gone when it has been used, or the ceremony that used it deletes it next.
ChallengesSpent ==
  errors = 0 /\ "challenge" \notin crossed =>
    /\ \A p, r \in Req : ceremony[p].challenge = ceremony[r].challenge => 
         p = r \/ ceremony[p].pc = "idle"
    /\ \A c \in P!Challenge :
         /\ used[c] <= 1
         /\ used[c] = 1 => 
              /\ \A r \in Req : ~ Due(ceremony[r], c)
              /\ Homes(c) = {} \/ \E r \in Req : /\ ceremony[r].challenge = c
                                                 /\ ceremony[r].pc = "drop_reg"
    /\ \A r \in Req : ceremony[r].pc = "grant" => Homes(ceremony[r].challenge) = {}

\* The owner that was found is the owner, and the user is active, until a change.
OwnersStand ==
  "change" \notin crossed =>
    /\ wrong = {}
    /\ \A r \in Req :
         LET q == ceremony[r] IN
         /\ q.pc \in {"count", "recheck", "drop", "grant"} => keys[q.key].owner = q.owner
         /\ q.pc \in {"drop", "grant"} /\ q.goal = "passwordless" => q.owner \in active

\* A passkey is finished with by one ceremony, whose count is not behind the row's.
CountsStand ==
  "key" \notin crossed =>
    /\ \A p, r \in Req : ceremony[p].key = ceremony[r].key => 
         p = r \/ ceremony[p].pc = "idle"
    /\ \A r \in Req : ceremony[r].pc \in {"reread", "count"} =>
         keys[ceremony[r].key].count <= ceremony[r].count

PasskeyInv ==
  PasskeyTypes /\ ChallengesHome /\ ChallengesSpent /\ OwnersStand /\ CountsStand

LEMMA PasskeyConstants ==
  ASSUME SignInAssumption
  PROVE  /\ IsFiniteSet(Req) /\ None \notin P!Owner /\ None \notin Passkey
         /\ \A n \in Nat : n # None
         /\ MaxRequests - 1 \in Nat /\ MaxSigned \in Nat /\ MaxChanges \in Nat
         /\ MaxErrors \in Nat /\ MaxChallenges \in Nat
         /\ \A u \in User : u \in P!Owner
         /\ None \notin P!Challenge
<1>1. P!PasskeysAssumption /\ F!SecondFactorAssumption
  BY DEF SignInAssumption
<1>2. IsFiniteSet(Req)
  BY <1>1, FiniteRequests
<1>3. \A n \in Nat : n # None
  BY <1>1 DEF P!PasskeysAssumption
<1>4. None \notin P!Challenge
  BY <1>3 DEF P!Challenge
<1> QED
  BY <1>1, <1>2, <1>3, <1>4 DEF P!PasskeysAssumption, P!Owner

\* What TypeOK says of the variables that the ceremonies change.
LEMMA PasskeyTyped ==
  ASSUME SignInAssumption, PasskeyInv
  PROVE  /\ P!TypeOK /\ keys \in [Passkey -> P!Key] /\ active \subseteq User
         /\ ceremony \in [Req -> P!Request] /\ used \in [P!Challenge -> Nat]
         /\ begun \in Nat /\ begun <= MaxRequests - 1 /\ errors \in Nat
         /\ Len(allowed) \in Nat /\ Len(allowed) <= MaxChallenges
         /\ \A c \in 1..Len(allowed) : c \in P!Challenge
         /\ allowed \in Seq(SUBSET Passkey)
         /\ \A r \in Req : Carries(ceremony[r], Len(allowed))
<1>1. P!TypeOK /\ \A r \in Req : Carries(ceremony[r], Len(allowed))
  BY DEF PasskeyInv, PasskeyTypes
<1>2. allowed \in Seq(SUBSET Passkey) /\ Len(allowed) <= MaxChallenges
  BY <1>1 DEF P!TypeOK
<1>3. Len(allowed) \in Nat
  BY <1>2
<1>4. MaxRequests - 1 \in Nat /\ MaxErrors \in Nat /\ MaxChallenges \in Nat
  BY PasskeyConstants
<1>5. used \in [P!Challenge -> Nat] /\ begun \in Nat /\ begun <= MaxRequests - 1 /\ errors \in Nat
  BY <1>1, <1>4 DEF P!TypeOK
<1>6. \A c \in 1..Len(allowed) : c \in P!Challenge
  BY <1>2, <1>3, <1>4 DEF P!Challenge
<1> QED
  BY <1>1, <1>2, <1>3, <1>5, <1>6 DEF P!TypeOK

LEMMA PasskeyIdle ==
  ASSUME SignInAssumption
  PROVE  /\ P!Idle \in P!Request /\ P!Idle.pc = "idle" /\ P!Idle.challenge = None
         /\ P!Idle.key = None /\ P!Idle.owner = None /\ P!Idle.goal = "none"
         /\ \A n : Carries(P!Idle, n) /\ \A c : ~ Due(P!Idle, c)
<1>1. 0 \in 0..MaxSigned
  BY PasskeyConstants
<1>2. P!Idle \in P!Request
  BY <1>1 DEF P!Idle, P!Request, P!Steps
<1>3. /\ P!Idle.pc = "idle" /\ P!Idle.challenge = None /\ P!Idle.key = None
      /\ P!Idle.owner = None /\ P!Idle.goal = "none"
  BY DEF P!Idle
<1>4. \A n : Carries(P!Idle, n) /\ \A c : ~ Due(P!Idle, c)
  BY <1>3 DEF Carries, Due
<1> QED
  BY <1>2, <1>3, <1>4

-----------------------------------------------------------------------------
(* What a step does to its ceremony.                                        *)

OthersWait(r) == \A s \in Req \ {r} : ceremony'[s] = ceremony[s]

\* A ceremony went on at step, or ended.
MovesOn(r, step) ==
  /\ ceremony' \in [Req -> P!Request] /\ OthersWait(r) /\ ceremony'[r].pc = step
  /\ step = "idle" => ceremony'[r] = P!Idle
  /\ step # "idle" =>
       /\ ceremony'[r].goal = ceremony[r].goal /\ ceremony'[r].owner = ceremony[r].owner
       /\ ceremony'[r].key = ceremony[r].key /\ ceremony'[r].count = ceremony[r].count
       /\ ceremony'[r].challenge = ceremony[r].challenge

LEMMA CeremonyMoves ==
  ASSUME SignInAssumption, PasskeyInv, NEW r \in Req
  PROVE  /\ P!Finish(r) => MovesOn(r, "idle")
         /\ \A step \in P!Steps \ {"idle"} : P!Goto(r, step) => MovesOn(r, step)
<1>0. ceremony \in [Req -> P!Request]
  BY PasskeyTyped
<1>1. P!Finish(r) => MovesOn(r, "idle")
  BY <1>0, PasskeyIdle DEF P!Finish, MovesOn, OthersWait
<1>2. ASSUME NEW step \in P!Steps \ {"idle"}, P!Goto(r, step)
      PROVE  MovesOn(r, step)
  <2> DEFINE q == [ceremony[r] EXCEPT !.pc = step]
  <2>1. ceremony[r] \in P!Request
    BY <1>0
  <2>2. /\ q \in P!Request /\ q.pc = step /\ q.goal = ceremony[r].goal
        /\ q.owner = ceremony[r].owner /\ q.key = ceremony[r].key
        /\ q.count = ceremony[r].count /\ q.challenge = ceremony[r].challenge
    BY <2>1 DEF P!Request
  <2>3. ceremony' = [ceremony EXCEPT ![r] = q]
    BY <1>2 DEF P!Goto
  <2> HIDE DEF q
  <2> QED
    BY <1>0, <2>2, <2>3 DEF MovesOn, OthersWait
<1> QED
  BY <1>1, <1>2

AwaitedNext(c) == Cardinality({r \in Req : Due(ceremony'[r], c)})
HomesNext(c) ==
  {<<"register", o>> : o \in {p \in P!Owner : regs'[p] = c}}
    \cup {<<"second", u>> : u \in {v \in User : seconds'[v] = c}}
    \cup {<<"discover", None>> : d \in {e \in {c} : discover'[e] # "none"}}

LEMMA AwaitedMoves ==
  ASSUME SignInAssumption, NEW r \in Req, OthersWait(r), NEW c
  PROVE  /\ Awaited(c) \in Nat /\ AwaitedNext(c) \in Nat
         /\ Shift(Awaited(c), AwaitedNext(c), Due(ceremony[r], c), Due(ceremony'[r], c))
<1>0. IsFiniteSet(Req)
  BY PasskeyConstants
<1> DEFINE S == {s \in Req : Due(ceremony[s], c)}
           T == {s \in Req : Due(ceremony'[s], c)}
<1>1. S \in SUBSET Req /\ T \in SUBSET Req /\ \A s \in Req \ {r} : s \in S <=> s \in T
  BY DEF OthersWait
<1>2. (r \in S <=> Due(ceremony[r], c)) /\ (r \in T <=> Due(ceremony'[r], c))
  OBVIOUS
<1>3. Awaited(c) = Cardinality(S) /\ AwaitedNext(c) = Cardinality(T)
  BY DEF Awaited, AwaitedNext
<1> HIDE DEF S, T
<1>4. Cardinality(S) \in Nat /\ Cardinality(T) \in Nat
  BY <1>0, <1>1, FS_Subset, FS_CardinalityType
<1>5. Shift(Cardinality(S), Cardinality(T), r \in S, r \in T)
  BY <1>0, <1>1, Count
<1> QED
  BY <1>2, <1>3, <1>4, <1>5 DEF Shift

LEMMA HomesOf ==
  ASSUME NEW c
  PROVE  /\ \A h \in Homes(c) :
              \/ \E o \in P!Owner : h = <<"register", o>> /\ regs[o] = c
              \/ \E u \in User : h = <<"second", u>> /\ seconds[u] = c
              \/ h = <<"discover", None>> /\ discover[c] # "none"
         /\ \A o \in P!Owner : regs[o] = c => <<"register", o>> \in Homes(c)
         /\ \A u \in User : seconds[u] = c => <<"second", u>> \in Homes(c)
         /\ discover[c] # "none" => <<"discover", None>> \in Homes(c)
  BY DEF Homes

LEMMA HomesOfNext ==
  ASSUME NEW c
  PROVE  /\ \A h \in HomesNext(c) :
              \/ \E o \in P!Owner : h = <<"register", o>> /\ regs'[o] = c
              \/ \E u \in User : h = <<"second", u>> /\ seconds'[u] = c
              \/ h = <<"discover", None>> /\ discover'[c] # "none"
         /\ \A o \in P!Owner : regs'[o] = c => <<"register", o>> \in HomesNext(c)
         /\ \A u \in User : seconds'[u] = c => <<"second", u>> \in HomesNext(c)
         /\ discover'[c] # "none" => <<"discover", None>> \in HomesNext(c)
         /\ Homes(c)' = HomesNext(c)
  BY DEF Homes, HomesNext

-----------------------------------------------------------------------------
(* What keeps each part of the invariant.                                   *)

Cost(q, c) == IF Due(q, c) THEN 1 ELSE 0

LEMMA Balance ==
  ASSUME NEW a \in Nat, NEW b \in Nat, NEW x \in Nat, NEW y \in Nat, NEW u \in Nat,
         NEW v \in Nat, NEW m \in Nat, NEW n \in Nat,
         v + y + m <= u + x + n, b + x = a + y, u + a <= m
  PROVE  v + b <= n
  OBVIOUS

LEMMA PartAtMost ==
  ASSUME NEW a \in Nat, NEW b \in Nat, NEW m \in Nat, NEW n \in Nat, a + b <= m, m <= n
  PROVE  a <= n
  OBVIOUS

LEMMA PasskeyTypesMove ==
  ASSUME SignInAssumption, PasskeyInv, NEW r \in Req, OthersWait(r),
         ceremony' \in [Req -> P!Request], Carries(ceremony'[r], Len(allowed)),
         UNCHANGED <<allowed, made, signed>>,
         keys' \in [Passkey -> P!Key], active' \subseteq User, wrong' \subseteq Passkey,
         regs' \in [P!Owner -> P!Challenge \cup {None}],
         seconds' \in [User -> P!Challenge \cup {None}],
         discover' \in [P!Challenge -> {"none", "app", "admin"}],
         begun' \in 0..(MaxRequests - 1), changes' \in 0..MaxChanges,
         errors' \in 0..MaxErrors, used' \in [P!Challenge -> Nat],
         \A c \in P!Challenge : used'[c] + Cost(ceremony'[r], c) + begun
                                  <= used[c] + Cost(ceremony[r], c) + begun'
  PROVE  PasskeyTypes'
<1>0. /\ P!TypeOK /\ used \in [P!Challenge -> Nat] /\ begun \in Nat
      /\ MaxRequests - 1 \in Nat
      /\ \A s \in Req : Carries(ceremony[s], Len(allowed))
  BY PasskeyTyped, PasskeyConstants
<1>1. ASSUME NEW c \in P!Challenge
      PROVE  used'[c] + AwaitedNext(c) <= begun' /\ used'[c] \in 0..(MaxRequests - 1)
  <2>1. /\ Awaited(c) \in Nat /\ AwaitedNext(c) \in Nat
        /\ Shift(Awaited(c), AwaitedNext(c), Due(ceremony[r], c), Due(ceremony'[r], c))
    BY AwaitedMoves
  <2>2. AwaitedNext(c) + Cost(ceremony[r], c) = Awaited(c) + Cost(ceremony'[r], c)
    BY <2>1 DEF Shift, Cost
  <2>3. used[c] + Awaited(c) <= begun
    BY DEF PasskeyInv, PasskeyTypes
  <2>4. /\ used[c] \in Nat /\ used'[c] \in Nat
        /\ used'[c] + Cost(ceremony'[r], c) + begun <= used[c] + Cost(ceremony[r], c) + begun'
        /\ Cost(ceremony[r], c) \in Nat /\ Cost(ceremony'[r], c) \in Nat
    BY <1>0 DEF Cost
  <2>5. begun' \in Nat /\ begun' <= MaxRequests - 1 /\ MaxRequests - 1 \in Nat
    BY <1>0
  <2>6. used'[c] + AwaitedNext(c) <= begun'
    BY <1>0, <2>1, <2>2, <2>3, <2>4, <2>5, Balance, Zenon
  <2>7. used'[c] <= MaxRequests - 1
    BY <2>1, <2>4, <2>5, <2>6, PartAtMost, Zenon
  <2> QED
    BY <1>0, <2>4, <2>6, <2>7
<1>2. used' \in [P!Challenge -> 0..(MaxRequests - 1)]
  BY <1>1
<1>3. P!TypeOK'
  BY <1>0, <1>2 DEF P!TypeOK
<1>4. ASSUME NEW s \in Req
      PROVE  Carries(ceremony'[s], Len(allowed'))
  BY <1>0 DEF OthersWait
<1>5. IsFiniteSet(signed')
  BY DEF PasskeyInv, PasskeyTypes
<1> QED
  BY <1>1, <1>3, <1>4, <1>5 DEF PasskeyTypes, Awaited, AwaitedNext

LEMMA HomesMove ==
  ASSUME SignInAssumption, PasskeyInv, NEW r \in Req, OthersWait(r), allowed' = allowed,
         \A c \in P!Challenge :
           /\ HomesNext(c) \subseteq Homes(c)
           /\ used'[c] # used[c] => c <= Len(allowed)
           /\ \A h \in HomesNext(c) : ceremony'[r].challenge = c => h = HomeOf(ceremony'[r])
  PROVE  ChallengesHome'
<1>1. ASSUME NEW c \in P!Challenge
      PROVE  /\ \A h, i \in HomesNext(c) : h = i
             /\ c > Len(allowed') => HomesNext(c) = {} /\ used'[c] = 0
             /\ \A s \in Req : \A h \in HomesNext(c) :
                  ceremony'[s].challenge = c => h = HomeOf(ceremony'[s])
  <2>1. /\ \A h, i \in Homes(c) : h = i
        /\ c > Len(allowed) => Homes(c) = {} /\ used[c] = 0
        /\ \A s \in Req : \A h \in Homes(c) :
             ceremony[s].challenge = c => h = HomeOf(ceremony[s])
    BY DEF PasskeyInv, ChallengesHome
  <2>2. c \in Nat /\ Len(allowed) \in Nat
    BY PasskeyTyped, PasskeyConstants DEF P!Challenge
  <2>3. HomesNext(c) \subseteq Homes(c) /\ (used'[c] # used[c] => c <= Len(allowed))
    OBVIOUS
  <2>4. c > Len(allowed') => HomesNext(c) = {} /\ used'[c] = 0
    BY <2>1, <2>2, <2>3
  <2>5. ASSUME NEW s \in Req, NEW h \in HomesNext(c), ceremony'[s].challenge = c
        PROVE  h = HomeOf(ceremony'[s])
    <3>1. CASE s = r
      BY <2>5, <3>1
    <3>2. CASE s # r
      BY <2>1, <2>3, <2>5, <3>2 DEF OthersWait
    <3> QED
      BY <3>1, <3>2
  <2> QED
    BY <2>1, <2>3, <2>4, <2>5
<1> QED
  BY <1>1, HomesOfNext DEF ChallengesHome, HomeOf

\* A ceremony that goes on or ends without using its challenge.
LEMMA SpentMove ==
  ASSUME SignInAssumption, PasskeyInv, NEW r \in Req, OthersWait(r),
         crossed \subseteq crossed', errors' = 0 => errors = 0, used' = used,
         \A c \in P!Challenge : HomesNext(c) \subseteq Homes(c),
         ceremony[r].pc # "idle",
         \/ ceremony'[r] = P!Idle
         \/ ceremony'[r].challenge = ceremony[r].challenge /\ ceremony'[r].pc # "drop_reg",
         errors' = 0 =>
           /\ \A c : Due(ceremony'[r], c) => Due(ceremony[r], c)
           /\ ceremony[r].pc = "drop_reg" => HomesNext(ceremony[r].challenge) = {}
           /\ ceremony'[r].pc = "grant" => HomesNext(ceremony[r].challenge) = {}
  PROVE  ChallengesSpent'
<1>0. /\ \A s \in Req : Carries(ceremony[s], Len(allowed))
      /\ ceremony[r].challenge \in P!Challenge
      /\ P!Idle.challenge = None /\ P!Idle.pc = "idle" /\ None \notin P!Challenge
  <2>1. \A n \in Nat : n # None
    BY PasskeyConstants
  <2> QED
    BY <2>1, PasskeyTyped, PasskeyIdle DEF Carries, P!Challenge
<1> SUFFICES ASSUME errors' = 0, "challenge" \notin crossed'
             PROVE  ChallengesSpent'
  BY DEF ChallengesSpent
<1>1. /\ errors = 0 /\ "challenge" \notin crossed
      /\ \A p, s \in Req : ceremony[p].challenge = ceremony[s].challenge =>
           p = s \/ ceremony[p].pc = "idle"
      /\ \A s \in Req : ceremony[s].pc = "grant" => Homes(ceremony[s].challenge) = {}
  BY DEF PasskeyInv, ChallengesSpent
<1>2. ASSUME NEW p \in Req, NEW s \in Req,
             ceremony'[p].challenge = ceremony'[s].challenge, p # s
      PROVE  ceremony'[p].pc = "idle"
  <2>1. CASE ceremony'[r] = P!Idle
    <3>1. CASE p = r
      BY <2>1, <3>1, <1>0
    <3>2. CASE s = r
      <4>1. ceremony[p].challenge = None /\ ceremony'[p] = ceremony[p]
        BY <1>0, <1>2, <2>1, <3>2 DEF OthersWait
      <4> QED
        BY <1>0, <4>1, PasskeyTyped DEF Carries
    <3>3. CASE p # r /\ s # r
      BY <1>1, <1>2, <3>3 DEF OthersWait
    <3> QED
      BY <3>1, <3>2, <3>3
  <2>2. CASE ceremony'[r].challenge = ceremony[r].challenge
    <3>1. ceremony'[p].challenge = ceremony[p].challenge
          /\ ceremony'[s].challenge = ceremony[s].challenge
      BY <2>2 DEF OthersWait
    <3>2. ceremony[p].pc = "idle" /\ ceremony[s].pc = "idle"
      BY <1>1, <1>2, <3>1
    <3> QED
      BY <3>2 DEF OthersWait
  <2> QED
    BY <2>1, <2>2
<1>3. ASSUME NEW c \in P!Challenge
      PROVE  /\ used'[c] <= 1
             /\ used'[c] = 1 =>
                  /\ \A s \in Req : ~ Due(ceremony'[s], c)
                  /\ HomesNext(c) = {} \/ \E s \in Req : /\ ceremony'[s].challenge = c
                                                         /\ ceremony'[s].pc = "drop_reg"
  <2>1. /\ used[c] <= 1
        /\ used[c] = 1 =>
             /\ \A s \in Req : ~ Due(ceremony[s], c)
             /\ Homes(c) = {} \/ \E s \in Req : /\ ceremony[s].challenge = c
                                                /\ ceremony[s].pc = "drop_reg"
    BY <1>1 DEF PasskeyInv, ChallengesSpent
  <2>2. ASSUME used[c] = 1, NEW s \in Req
        PROVE  ~ Due(ceremony'[s], c)
    BY <2>1, <2>2 DEF OthersWait
  <2>3. ASSUME used[c] = 1, Homes(c) # {}
        PROVE  HomesNext(c) = {} \/ \E s \in Req : /\ ceremony'[s].challenge = c
                                                   /\ ceremony'[s].pc = "drop_reg"
    <3>1. PICK s \in Req : ceremony[s].challenge = c /\ ceremony[s].pc = "drop_reg"
      BY <2>1, <2>3
    <3>2. CASE s = r
      BY <3>1, <3>2
    <3>3. CASE s # r
      BY <3>1, <3>3 DEF OthersWait
    <3> QED
      BY <3>2, <3>3
  <2>4. HomesNext(c) \subseteq Homes(c)
    OBVIOUS
  <2> QED
    BY <2>1, <2>2, <2>3, <2>4
<1>4. ASSUME NEW s \in Req, ceremony'[s].pc = "grant"
      PROVE  HomesNext(ceremony'[s].challenge) = {}
  <2>1. CASE s = r
    BY <1>0, <1>4, <2>1
  <2>2. CASE s # r
    <3>1. ceremony'[s] = ceremony[s] /\ Homes(ceremony[s].challenge) = {}
      BY <1>1, <1>4, <2>2 DEF OthersWait
    <3>2. ceremony[s].challenge \in P!Challenge
      BY <1>4, <3>1, PasskeyTyped DEF Carries
    <3> QED
      BY <3>1, <3>2
  <2> QED
    BY <2>1, <2>2
<1> QED
  BY <1>2, <1>3, <1>4 DEF ChallengesSpent, Due, Homes, HomesNext

\* Those that have found an owner stay right, when the others' keys and users stay.
LEMMA OwnersMove ==
  ASSUME SignInAssumption, PasskeyInv, NEW r \in Req, OthersWait(r), crossed \subseteq crossed',
         active' = active, "change" \notin crossed' => wrong' = {},
         \A k \in Passkey : keys'[k].owner = keys[k].owner \/ keys[k].owner = None,
         "change" \notin crossed' =>
           LET q == ceremony'[r] IN
           /\ q.pc \in {"count", "recheck", "drop", "grant"} => keys'[q.key].owner = q.owner
           /\ q.pc \in {"drop", "grant"} /\ q.goal = "passwordless" => q.owner \in active
  PROVE  OwnersStand'
<1>1. ASSUME "change" \notin crossed', NEW s \in Req,
             ceremony'[s].pc \in {"count", "recheck", "drop", "grant"}
      PROVE  /\ keys'[ceremony'[s].key].owner = ceremony'[s].owner
             /\ ceremony'[s].pc \in {"drop", "grant"} /\ ceremony'[s].goal = "passwordless" =>
                  ceremony'[s].owner \in active'
  <2>1. CASE s = r
    BY <1>1, <2>1
  <2>2. CASE s # r
    <3>1. ceremony'[s] = ceremony[s] /\ "change" \notin crossed
      BY <1>1, <2>2 DEF OthersWait
    <3>2. /\ ceremony[s].key \in Passkey /\ ceremony[s].owner \in P!Owner
          /\ None \notin P!Owner
      BY <1>1, <3>1, PasskeyTyped, PasskeyConstants DEF Carries
    <3>3. /\ keys[ceremony[s].key].owner = ceremony[s].owner
          /\ ceremony[s].pc \in {"drop", "grant"} /\ ceremony[s].goal = "passwordless" =>
               ceremony[s].owner \in active
      BY <1>1, <3>1 DEF PasskeyInv, OwnersStand
    <3> QED
      BY <3>1, <3>2, <3>3
  <2> QED
    BY <2>1, <2>2
<1> QED
  BY <1>1 DEF OwnersStand

\* Only the ceremony of a passkey writes its count.
LEMMA CountsMove ==
  ASSUME SignInAssumption, PasskeyInv, NEW r \in Req, OthersWait(r), crossed' = crossed,
         ceremony[r].pc # "idle",
         ceremony'[r] = P!Idle \/ ceremony'[r].key = ceremony[r].key,
         \A k \in Passkey : k # ceremony[r].key => keys'[k].count = keys[k].count,
         "key" \notin crossed /\ ceremony'[r].pc \in {"reread", "count"} =>
           keys'[ceremony[r].key].count <= ceremony'[r].count
  PROVE  CountsStand'
<1>0. /\ \A s \in Req : Carries(ceremony[s], Len(allowed))
      /\ ceremony[r].key \in Passkey
      /\ P!Idle.key = None /\ P!Idle.pc = "idle" /\ None \notin Passkey
  BY PasskeyTyped, PasskeyIdle, PasskeyConstants DEF Carries
<1> SUFFICES ASSUME "key" \notin crossed
             PROVE  CountsStand'
  BY DEF CountsStand
<1>1. /\ \A p, s \in Req : ceremony[p].key = ceremony[s].key => p = s \/ ceremony[p].pc = "idle"
      /\ \A s \in Req : ceremony[s].pc \in {"reread", "count"} =>
           keys[ceremony[s].key].count <= ceremony[s].count
  BY DEF PasskeyInv, CountsStand
<1>2. ASSUME NEW p \in Req, NEW s \in Req, ceremony'[p].key = ceremony'[s].key, p # s
      PROVE  ceremony'[p].pc = "idle"
  <2>1. CASE ceremony'[r] = P!Idle
    <3>1. CASE p = r
      BY <2>1, <3>1, <1>0
    <3>2. CASE s = r
      <4>1. ceremony[p].key = None /\ ceremony'[p] = ceremony[p]
        BY <1>0, <1>2, <2>1, <3>2 DEF OthersWait
      <4> QED
        BY <1>0, <4>1 DEF Carries
    <3>3. CASE p # r /\ s # r
      BY <1>1, <1>2, <3>3 DEF OthersWait
    <3> QED
      BY <3>1, <3>2, <3>3
  <2>2. CASE ceremony'[r].key = ceremony[r].key
    <3>1. ceremony'[p].key = ceremony[p].key /\ ceremony'[s].key = ceremony[s].key
      BY <2>2 DEF OthersWait
    <3>2. ceremony[p].pc = "idle" /\ ceremony[s].pc = "idle"
      BY <1>1, <1>2, <3>1
    <3> QED
      BY <3>2 DEF OthersWait
  <2> QED
    BY <2>1, <2>2
<1>3. ASSUME NEW s \in Req, ceremony'[s].pc \in {"reread", "count"}
      PROVE  keys'[ceremony'[s].key].count <= ceremony'[s].count
  <2>1. CASE s = r
    BY <1>0, <1>3, <2>1
  <2>2. CASE s # r
    <3>1. ceremony'[s] = ceremony[s]
      BY <2>2 DEF OthersWait
    <3>2. ceremony[s].key # ceremony[r].key /\ ceremony[s].key \in Passkey
      BY <1>0, <1>1, <1>3, <2>2, <3>1 DEF Carries
    <3> QED
      BY <1>1, <1>3, <3>1, <3>2
  <2> QED
    BY <2>1, <2>2
<1> QED
  BY <1>2, <1>3 DEF CountsStand

-----------------------------------------------------------------------------
(* The steps of Passkeys.                                                   *)

\* A ceremony takes a challenge from its home.
LEMMA CeremonyBegins ==
  ASSUME SignInAssumption, PasskeyInv, NEW r \in Req, NEW step, NEW goal, NEW o \in P!Owner,
         NEW k \in Passkey, NEW c \in 1..Len(allowed), NEW count \in 0..MaxSigned,
         P!Begin(r, step, goal, o, k, c, count),
         \/ step = "insert" /\ goal = "register" /\ <<"register", o>> \in Homes(c)
         \/ /\ step \in {"reread", "count"}
            /\ \/ goal = "second" /\ o \in User /\ <<"second", o>> \in Homes(c)
               \/ /\ goal \in {"passwordless", "admin"} /\ (goal = "passwordless" => o \in User)
                  /\ <<"discover", None>> \in Homes(c)
            /\ keys[k].owner = o /\ keys[k].count <= count
  PROVE  PasskeyInv'
<1> DEFINE q == [pc |-> step, goal |-> goal, owner |-> o, key |-> k, challenge |-> c,
                 count |-> count]
<1>0. /\ P!TypeOK /\ ceremony \in [Req -> P!Request] /\ used \in [P!Challenge -> Nat]
      /\ begun \in Nat /\ MaxRequests - 1 \in Nat /\ c \in P!Challenge
      /\ \A s \in Req : Carries(ceremony[s], Len(allowed))
      /\ None \notin P!Owner /\ None \notin Passkey
  BY PasskeyTyped, PasskeyConstants
<1>1. /\ ceremony[r].pc = "idle" /\ begun < MaxRequests - 1 /\ begun' = begun + 1
      /\ ceremony' = [ceremony EXCEPT ![r] = q] /\ crossed' = crossed \cup P!Crossed(c, k)
      /\ keys' = keys /\ active' = active /\ regs' = regs /\ seconds' = seconds
      /\ discover' = discover /\ allowed' = allowed /\ made' = made /\ signed' = signed
      /\ changes' = changes /\ errors' = errors /\ used' = used /\ wrong' = wrong
  BY DEF P!Begin, P!At, P!challenges, P!external
<1>2. /\ q \in P!Request /\ q.pc = step /\ q.goal = goal /\ q.owner = o /\ q.key = k
      /\ q.challenge = c /\ q.count = count
  BY <1>0 DEF P!Request, P!Steps
<1> HIDE DEF q
<1>3. ceremony' \in [Req -> P!Request] /\ OthersWait(r) /\ ceremony'[r] = q
  BY <1>0, <1>1, <1>2 DEF OthersWait
<1>4. ceremony[r].challenge = None /\ ceremony[r].key = None
  <2>1. ceremony[r] = P!Idle
    BY <1>0, <1>1 DEF Carries
  <2> QED
    BY <2>1, PasskeyIdle
<1>5. Carries(q, Len(allowed))
  BY <1>2 DEF Carries
<1>6. /\ "challenge" \notin crossed' =>
           /\ "challenge" \notin crossed /\ \A s \in Req : ceremony[s].challenge # c
      /\ "key" \notin crossed' => "key" \notin crossed /\ \A s \in Req : ceremony[s].key # k
      /\ "change" \notin crossed' => "change" \notin crossed
  BY <1>1 DEF P!Crossed
<1>7. \A d \in P!Challenge : HomesNext(d) = Homes(d)
  BY <1>1 DEF HomesNext, Homes
<1>8. PasskeyTypes'
  <2>1. /\ keys' \in [Passkey -> P!Key] /\ active' \subseteq User /\ wrong' \subseteq Passkey
        /\ regs' \in [P!Owner -> P!Challenge \cup {None}]
        /\ seconds' \in [User -> P!Challenge \cup {None}]
        /\ discover' \in [P!Challenge -> {"none", "app", "admin"}]
        /\ changes' \in 0..MaxChanges /\ errors' \in 0..MaxErrors
        /\ used' \in [P!Challenge -> Nat]
    BY <1>0, <1>1 DEF P!TypeOK
  <2>2. begun' \in 0..(MaxRequests - 1)
    BY <1>0, <1>1
  <2>3. ASSUME NEW d \in P!Challenge
        PROVE  used'[d] + Cost(ceremony'[r], d) + begun <= used[d] + Cost(ceremony[r], d) + begun'
    <3>1. Cost(ceremony'[r], d) \in {0, 1} /\ Cost(ceremony[r], d) \in {0, 1} /\ used[d] \in Nat
      BY <1>0 DEF Cost
    <3> QED
      BY <1>0, <1>1, <3>1
  <2> QED
    BY <1>1, <1>3, <1>5, <2>1, <2>2, <2>3, PasskeyTypesMove
<1>9. ChallengesHome'
  <2>1. ASSUME NEW d \in P!Challenge, NEW h \in HomesNext(d), ceremony'[r].challenge = d
        PROVE  h = HomeOf(ceremony'[r])
    <3>1. d = c /\ h \in Homes(c)
      BY <1>2, <1>3, <1>7, <2>1
    <3>2. HomeOf(q) \in Homes(c)
      BY <1>2 DEF HomeOf
    <3> QED
      BY <1>0, <1>3, <3>1, <3>2 DEF PasskeyInv, ChallengesHome
  <2> QED
    BY <1>1, <1>3, <1>7, <2>1, HomesMove
<1>10. ChallengesSpent'
  <2> SUFFICES ASSUME errors' = 0, "challenge" \notin crossed'
               PROVE  ChallengesSpent'
    BY DEF ChallengesSpent
  <2>1. /\ errors = 0 /\ "challenge" \notin crossed
        /\ \A s \in Req : ceremony[s].challenge # c
    BY <1>1, <1>6
  <2>2. /\ \A p, s \in Req : ceremony[p].challenge = ceremony[s].challenge =>
             p = s \/ ceremony[p].pc = "idle"
        /\ \A s \in Req : ceremony[s].pc = "grant" => Homes(ceremony[s].challenge) = {}
    BY <2>1 DEF PasskeyInv, ChallengesSpent
  <2>3. ASSUME NEW p \in Req, NEW s \in Req,
               ceremony'[p].challenge = ceremony'[s].challenge, p # s
        PROVE  ceremony'[p].pc = "idle"
    BY <1>2, <1>3, <2>1, <2>2, <2>3 DEF OthersWait
  <2>4. ASSUME NEW d \in P!Challenge
        PROVE  /\ used'[d] <= 1
               /\ used'[d] = 1 =>
                    /\ \A s \in Req : ~ Due(ceremony'[s], d)
                    /\ HomesNext(d) = {} \/ \E s \in Req : /\ ceremony'[s].challenge = d
                                                           /\ ceremony'[s].pc = "drop_reg"
    <3>1. /\ used[d] <= 1
          /\ used[d] = 1 =>
               /\ \A s \in Req : ~ Due(ceremony[s], d)
               /\ Homes(d) = {} \/ \E s \in Req : /\ ceremony[s].challenge = d
                                                  /\ ceremony[s].pc = "drop_reg"
      BY <2>1 DEF PasskeyInv, ChallengesSpent
    <3>2. CASE d = c
      <4>1. used[d] # 1
        BY <2>1, <3>1, <3>2
      <4> QED
        BY <1>1, <3>1, <4>1
    <3>3. CASE d # c
      <4>1. \A s \in Req : ceremony'[s] = ceremony[s] \/ (s = r /\ ceremony'[s].challenge = c)
        BY <1>2, <1>3 DEF OthersWait
      <4>2. \A s \in Req : ceremony[s].pc = "drop_reg" => ceremony'[s] = ceremony[s]
        BY <1>1, <1>3 DEF OthersWait
      <4>3. \A s \in Req : Due(ceremony'[s], d) => Due(ceremony[s], d)
        BY <3>3, <4>1 DEF Due
      <4> QED
        BY <1>1, <1>7, <3>1, <4>2, <4>3
    <3> QED
      BY <3>2, <3>3
  <2>5. ASSUME NEW s \in Req, ceremony'[s].pc = "grant"
        PROVE  HomesNext(ceremony'[s].challenge) = {}
    <3>1. s # r
      BY <1>2, <1>3, <2>5
    <3>2. ceremony'[s] = ceremony[s] /\ Homes(ceremony[s].challenge) = {}
      BY <2>2, <2>5, <3>1, <1>3 DEF OthersWait
    <3>3. ceremony[s].challenge \in P!Challenge
      BY <2>5, <3>2, PasskeyTyped DEF Carries
    <3> QED
      BY <1>7, <3>2, <3>3
  <2> QED
    BY <2>3, <2>4, <2>5 DEF ChallengesSpent, Due, Homes, HomesNext
<1>11. OwnersStand'
  <2>1. "change" \notin crossed' => wrong' = {}
    BY <1>1, <1>6 DEF PasskeyInv, OwnersStand
  <2>2. /\ ceremony'[r].pc \in {"count", "recheck", "drop", "grant"} =>
             keys'[ceremony'[r].key].owner = ceremony'[r].owner
        /\ ceremony'[r].pc \notin {"drop", "grant"}
    BY <1>1, <1>2, <1>3
  <2>3. crossed \subseteq crossed' /\ active' = active /\ keys' = keys
    BY <1>1
  <2> QED
    BY <1>3, <2>1, <2>2, <2>3, OwnersMove
<1>12. CountsStand'
  <2> SUFFICES ASSUME "key" \notin crossed'
               PROVE  CountsStand'
    BY DEF CountsStand
  <2>1. /\ \A p, s \in Req : ceremony[p].key = ceremony[s].key =>
             p = s \/ ceremony[p].pc = "idle"
        /\ \A s \in Req : ceremony[s].pc \in {"reread", "count"} =>
             keys[ceremony[s].key].count <= ceremony[s].count
        /\ \A s \in Req : ceremony[s].key # k
    BY <1>6 DEF PasskeyInv, CountsStand
  <2>2. ASSUME NEW p \in Req, NEW s \in Req, ceremony'[p].key = ceremony'[s].key, p # s
        PROVE  ceremony'[p].pc = "idle"
    BY <1>2, <1>3, <2>1, <2>2 DEF OthersWait
  <2>3. ASSUME NEW s \in Req, ceremony'[s].pc \in {"reread", "count"}
        PROVE  keys'[ceremony'[s].key].count <= ceremony'[s].count
    <3>1. CASE s = r
      BY <1>1, <1>2, <1>3, <2>3, <3>1
    <3>2. CASE s # r
      BY <1>1, <1>3, <2>1, <2>3, <3>2 DEF OthersWait
    <3> QED
      BY <3>1, <3>2
  <2> QED
    BY <2>2, <2>3 DEF CountsStand
<1> QED
  BY <1>8, <1>9, <1>10, <1>11, <1>12 DEF PasskeyInv

LEMMA RegisterKeeps ==
  ASSUME SignInAssumption, PasskeyInv, NEW r \in Req, NEW o \in P!Owner, NEW k \in Passkey,
         P!Register(r, o, k)
  PROVE  PasskeyInv'
<1>1. /\ regs[o] # None /\ P!Begin(r, "insert", "register", o, k, regs[o], 0)
  BY DEF P!Register
<1>2. regs[o] \in P!Challenge /\ <<"register", o>> \in Homes(regs[o])
  BY <1>1, PasskeyTyped, HomesOf DEF P!TypeOK
<1>3. regs[o] \in 1..Len(allowed)
  BY <1>2, PasskeyTyped, PasskeyConstants DEF PasskeyInv, ChallengesHome, P!Challenge
<1>4. 0 \in 0..MaxSigned
  BY PasskeyConstants
<1> QED
  BY <1>1, <1>2, <1>3, <1>4, CeremonyBegins

\* The count that is to be stored is not behind the one that was read.
LEMMA AnswerKeeps ==
  ASSUME SignInAssumption, PasskeyInv, NEW r \in Req, NEW s \in signed,
         P!FinishLogin(r, s) \/ P!FinishPasswordlessLogin(r, s) \/ P!FinishAdminLogin(r, s)
  PROVE  PasskeyInv'
<1>1. /\ s.key \in Passkey /\ s.challenge \in P!Challenge /\ s.count \in 1..MaxSigned
      /\ keys[s.key].count \in 0..MaxSigned /\ MaxSigned \in Nat
  BY PasskeyTyped, PasskeyConstants DEF P!TypeOK, P!Assertion, P!Key
<1> DEFINE n == P!ValidatedCount(keys[s.key].count, s.count)
<1>2. n \in 0..MaxSigned /\ keys[s.key].count <= n
  BY <1>1 DEF P!ValidatedCount
<1>3. Homes(s.challenge) # {} => s.challenge \in 1..Len(allowed)
  <2>1. s.challenge > Len(allowed) => Homes(s.challenge) = {}
    BY <1>1 DEF PasskeyInv, ChallengesHome
  <2>2. s.challenge \in Nat /\ s.challenge >= 1 /\ Len(allowed) \in Nat
    BY <1>1, PasskeyTyped, PasskeyConstants DEF P!Challenge
  <2> QED
    BY <2>1, <2>2
<1> HIDE DEF n
<1>4. ASSUME NEW u \in User, seconds[u] = s.challenge, P!Answer(r, s, u, "second", "count")
      PROVE  PasskeyInv'
  <2>1. /\ keys[s.key].owner = u
        /\ P!Begin(r, "count", "second", u, s.key, s.challenge, n)
    BY <1>4 DEF P!Answer, n
  <2>2. u \in P!Owner /\ <<"second", u>> \in Homes(s.challenge)
    BY <1>4, PasskeyConstants, HomesOf
  <2> QED
    BY <1>1, <1>2, <1>3, <2>1, <2>2, CeremonyBegins
<1>5. ASSUME NEW u \in P!Owner, NEW goal \in {"passwordless", "admin"},
             goal = "passwordless" => u \in User,
             discover[s.challenge] # "none", P!Answer(r, s, u, goal, "reread")
      PROVE  PasskeyInv'
  <2>1. /\ keys[s.key].owner = u
        /\ P!Begin(r, "reread", goal, u, s.key, s.challenge, n)
    BY <1>5 DEF P!Answer, n
  <2>2. <<"discover", None>> \in Homes(s.challenge)
    BY <1>5, HomesOf
  <2> QED
    BY <1>1, <1>2, <1>3, <1>5, <2>1, <2>2, CeremonyBegins
<1>6. CASE P!FinishLogin(r, s)
  BY <1>4, <1>6 DEF P!FinishLogin
<1>7. CASE P!FinishPasswordlessLogin(r, s)
  <2>1. PICK u \in active : /\ discover[s.challenge] = "app"
                            /\ P!Answer(r, s, u, "passwordless", "reread")
    BY <1>7 DEF P!FinishPasswordlessLogin
  <2>2. u \in User /\ u \in P!Owner
    BY PasskeyTyped, PasskeyConstants
  <2> QED
    BY <1>5, <2>1, <2>2
<1>8. CASE P!FinishAdminLogin(r, s)
  <2>1. PICK a \in Admin : /\ discover[s.challenge] = "admin"
                           /\ P!Answer(r, s, a, "admin", "reread")
    BY <1>8 DEF P!FinishAdminLogin
  <2>2. a \in P!Owner
    BY DEF P!Owner
  <2> QED
    BY <1>5, <2>1, <2>2
<1> QED
  BY <1>6, <1>7, <1>8

\* A ceremony that ends, or goes on, with its challenge unused.
LEMMA CeremonyGoes ==
  ASSUME SignInAssumption, PasskeyInv, NEW r \in Req, NEW step \in P!Steps, MovesOn(r, step),
         ceremony[r].pc # "idle",
         keys' \in [Passkey -> P!Key], step = "count" => keys' = keys,
         \A k \in Passkey : /\ keys'[k].owner = keys[k].owner
                            /\ k # ceremony[r].key => keys'[k].count = keys[k].count,
         active' = active, allowed' = allowed, made' = made, signed' = signed,
         begun' = begun, changes' = changes, crossed' = crossed, used' = used, wrong' = wrong,
         errors' \in 0..MaxErrors, errors' = 0 => errors = 0,
         regs' \in [P!Owner -> P!Challenge \cup {None}],
         seconds' \in [User -> P!Challenge \cup {None}],
         discover' \in [P!Challenge -> {"none", "app", "admin"}],
         \A c \in P!Challenge : HomesNext(c) \subseteq Homes(c),
         step \in {"count", "recheck", "drop", "grant"} =>
           /\ ceremony[r].pc \in {"reread", "count", "recheck", "drop"}
           /\ ceremony[r].pc = "reread" =>
                keys[ceremony[r].key].owner = ceremony[r].owner
           /\ step \in {"drop", "grant"} /\ ceremony[r].goal = "passwordless"
                /\ ceremony[r].pc # "drop" => ceremony[r].owner \in active,
         step \in {"idle", "count", "recheck", "drop", "grant"},
         step = "count" => ceremony[r].pc = "reread",
         errors' = 0 =>
           /\ ceremony[r].pc = "drop_reg" => HomesNext(ceremony[r].challenge) = {}
           /\ step = "grant" => HomesNext(ceremony[r].challenge) = {}
  PROVE  PasskeyInv'
<1>0. /\ P!TypeOK /\ ceremony \in [Req -> P!Request] /\ used \in [P!Challenge -> Nat]
      /\ begun \in 0..(MaxRequests - 1) /\ begun \in Nat
      /\ Carries(ceremony[r], Len(allowed))
  BY PasskeyTyped DEF P!TypeOK
<1>1. /\ ceremony' \in [Req -> P!Request] /\ OthersWait(r) /\ ceremony'[r].pc = step
      /\ step = "idle" => ceremony'[r] = P!Idle
      /\ step # "idle" =>
           /\ ceremony'[r].goal = ceremony[r].goal /\ ceremony'[r].owner = ceremony[r].owner
           /\ ceremony'[r].key = ceremony[r].key /\ ceremony'[r].count = ceremony[r].count
           /\ ceremony'[r].challenge = ceremony[r].challenge
  BY DEF MovesOn
<1>2. /\ ceremony[r].challenge \in P!Challenge /\ ceremony[r].key \in Passkey
      /\ P!Idle.challenge = None /\ P!Idle.key = None /\ \A c : ~ Due(P!Idle, c)
      /\ None \notin P!Challenge /\ Carries(P!Idle, Len(allowed))
  <2>1. ceremony[r].challenge \in P!Challenge /\ ceremony[r].key \in Passkey
    BY <1>0, PasskeyTyped DEF Carries
  <2> QED
    BY <2>1, PasskeyConstants, PasskeyIdle
<1>3. Carries(ceremony'[r], Len(allowed))
  <2>1. CASE step = "idle"
    BY <1>1, <1>2, <2>1
  <2>2. CASE step # "idle"
    BY <1>0, <1>1, <2>2 DEF Carries
  <2> QED
    BY <2>1, <2>2
<1>4. \A c : Due(ceremony'[r], c) => Due(ceremony[r], c)
  <2>1. CASE step = "idle"
    BY <1>1, <1>2, <2>1
  <2>2. CASE step # "idle"
    BY <1>1, <2>2 DEF Due
  <2> QED
    BY <2>1, <2>2
<1>5. PasskeyTypes'
  <2>1. /\ keys' \in [Passkey -> P!Key] /\ active' \subseteq User /\ wrong' \subseteq Passkey
        /\ begun' \in 0..(MaxRequests - 1) /\ changes' \in 0..MaxChanges
        /\ used' \in [P!Challenge -> Nat]
    BY <1>0 DEF P!TypeOK
  <2>2. ASSUME NEW c \in P!Challenge
        PROVE  used'[c] + Cost(ceremony'[r], c) + begun <= used[c] + Cost(ceremony[r], c) + begun'
    <3>1. /\ Cost(ceremony'[r], c) \in Nat /\ Cost(ceremony[r], c) \in Nat /\ used[c] \in Nat
          /\ Cost(ceremony'[r], c) <= Cost(ceremony[r], c)
      BY <1>0, <1>4 DEF Cost
    <3> QED
      BY <1>0, <3>1
  <2> QED
    BY <1>1, <1>3, <2>1, <2>2, PasskeyTypesMove
<1>6. ChallengesHome'
  <2>1. ASSUME NEW c \in P!Challenge, NEW h \in HomesNext(c), ceremony'[r].challenge = c
        PROVE  h = HomeOf(ceremony'[r])
    <3>1. step # "idle" /\ ceremony[r].challenge = c
      BY <1>1, <1>2, <2>1
    <3>2. HomeOf(ceremony'[r]) = HomeOf(ceremony[r])
      BY <1>1, <3>1 DEF HomeOf
    <3> QED
      BY <2>1, <3>1, <3>2 DEF PasskeyInv, ChallengesHome
  <2> QED
    BY <1>1, <2>1, HomesMove
<1>7. ChallengesSpent'
  <2>1. \/ ceremony'[r] = P!Idle
        \/ ceremony'[r].challenge = ceremony[r].challenge /\ ceremony'[r].pc # "drop_reg"
    BY <1>1
  <2> QED
    BY <1>1, <1>4, <2>1, SpentMove
<1>8. OwnersStand'
  <2>1. "change" \notin crossed' => wrong' = {}
    BY DEF PasskeyInv, OwnersStand
  <2>2. ASSUME "change" \notin crossed'
        PROVE  LET q == ceremony'[r] IN
               /\ q.pc \in {"count", "recheck", "drop", "grant"} => keys'[q.key].owner = q.owner
               /\ q.pc \in {"drop", "grant"} /\ q.goal = "passwordless" => q.owner \in active
    <3>1. CASE step = "idle"
      BY <1>1, <1>2, <3>1, PasskeyIdle
    <3>2. CASE step # "idle"
      <4>1. keys'[ceremony'[r].key].owner = keys[ceremony[r].key].owner
        BY <1>1, <1>2, <3>2
      <4>2. ceremony'[r].pc = step /\ ceremony'[r].owner = ceremony[r].owner
            /\ ceremony'[r].goal = ceremony[r].goal
        BY <1>1, <3>2
      <4> QED
        BY <2>2, <4>1, <4>2 DEF PasskeyInv, OwnersStand
    <3> QED
      BY <3>1, <3>2
  <2>3. \A k \in Passkey : keys'[k].owner = keys[k].owner \/ keys[k].owner = None
    OBVIOUS
  <2>4. OthersWait(r) /\ crossed \subseteq crossed' /\ active' = active
    BY <1>1
  <2> QED
    BY <2>1, <2>2, <2>3, <2>4, OwnersMove
<1>9. CountsStand'
  <2>1. ceremony'[r] = P!Idle \/ ceremony'[r].key = ceremony[r].key
    BY <1>1
  <2>2. "key" \notin crossed /\ ceremony'[r].pc \in {"reread", "count"} =>
          keys'[ceremony[r].key].count <= ceremony'[r].count
    BY <1>1 DEF PasskeyInv, CountsStand
  <2>3. \A k \in Passkey : k # ceremony[r].key => keys'[k].count = keys[k].count
    OBVIOUS
  <2> QED
    BY <1>1, <2>1, <2>2, <2>3, CountsMove
<1> QED
  BY <1>5, <1>6, <1>7, <1>8, <1>9 DEF PasskeyInv

\* The steps that look at a row or at the user, or delete a challenge, or fail.
LEMMA CeremonyStepsKeep ==
  ASSUME SignInAssumption, PasskeyInv, NEW r \in Req,
         \/ P!DeleteWebAuthnRegistrationChallenge(r) \/ P!GetCredentialByCredentialID(r)
         \/ P!RecheckUser(r) \/ P!DeleteWebAuthnLoginChallenge(r) \/ P!Fail(r)
  PROVE  PasskeyInv'
<1>0. /\ P!TypeOK /\ keys \in [Passkey -> P!Key] /\ regs \in [P!Owner -> P!Challenge \cup {None}]
      /\ seconds \in [User -> P!Challenge \cup {None}]
      /\ discover \in [P!Challenge -> {"none", "app", "admin"}]
      /\ errors \in 0..MaxErrors /\ errors \in Nat /\ MaxErrors \in Nat
      /\ Carries(ceremony[r], Len(allowed))
      /\ None \notin P!Challenge
  <2>1. P!TypeOK /\ errors \in Nat /\ Carries(ceremony[r], Len(allowed))
    BY PasskeyTyped
  <2> QED
    BY <2>1, PasskeyConstants DEF P!TypeOK
<1> DEFINE Stay ==
       /\ keys' = keys /\ keys' \in [Passkey -> P!Key] /\ active' = active
       /\ allowed' = allowed /\ made' = made
       /\ signed' = signed /\ begun' = begun /\ changes' = changes /\ crossed' = crossed
       /\ used' = used /\ wrong' = wrong
     Homely == regs' = regs /\ seconds' = seconds /\ discover' = discover
<1>1. ASSUME Homely
      PROVE  /\ \A c \in P!Challenge : HomesNext(c) \subseteq Homes(c)
             /\ regs' \in [P!Owner -> P!Challenge \cup {None}]
             /\ seconds' \in [User -> P!Challenge \cup {None}]
             /\ discover' \in [P!Challenge -> {"none", "app", "admin"}]
  BY <1>0, <1>1 DEF HomesNext, Homes
<1>2. CASE P!DeleteWebAuthnRegistrationChallenge(r)
  <2> DEFINE q == ceremony[r]
  <2>1. /\ q.pc = "drop_reg" /\ P!Finish(r) /\ regs' = [regs EXCEPT ![q.owner] = None]
        /\ seconds' = seconds /\ discover' = discover /\ errors' = errors /\ Stay
    BY <1>0, <1>2 DEF P!DeleteWebAuthnRegistrationChallenge, P!At, P!external, P!Kept, P!history
  <2>2. /\ q.owner \in P!Owner /\ q.goal = "register" /\ q.challenge \in P!Challenge
    BY <1>0, <2>1, PasskeyTyped DEF Carries
  <2>3. MovesOn(r, "idle")
    BY <2>1, CeremonyMoves
  <2>4. /\ regs' \in [P!Owner -> P!Challenge \cup {None}]
        /\ \A o \in P!Owner : regs'[o] = IF o = q.owner THEN None ELSE regs[o]
    BY <1>0, <2>1
  <2>5. \A c \in P!Challenge : HomesNext(c) \subseteq Homes(c)
    BY <1>0, <2>1, <2>4 DEF HomesNext, Homes
  <2>6. HomesNext(q.challenge) = {}
    <3>1. \A h \in HomesNext(q.challenge) : h = <<"register", q.owner>>
      BY <2>2, <2>5 DEF PasskeyInv, ChallengesHome, HomeOf
    <3>2. <<"register", q.owner>> \notin HomesNext(q.challenge)
      BY <1>0, <2>2, <2>4, HomesOfNext
    <3> QED
      BY <3>1, <3>2
  <2>7. "idle" \in P!Steps
    BY DEF P!Steps
  <2> QED
    BY <1>0, <2>1, <2>3, <2>4, <2>5, <2>6, <2>7, CeremonyGoes
<1>3. CASE P!GetCredentialByCredentialID(r)
  <2> DEFINE step == IF keys[ceremony[r].key].owner = ceremony[r].owner THEN "count"
                     ELSE "idle"
  <2>1. /\ ceremony[r].pc = "reread" /\ Homely /\ errors' = errors /\ Stay
        /\ IF keys[ceremony[r].key].owner = ceremony[r].owner
           THEN P!Goto(r, "count") ELSE P!Finish(r)
    BY <1>0, <1>3 DEF P!GetCredentialByCredentialID, P!At, P!challenges, P!external, P!Kept,
                P!history
  <2>2. /\ step \in P!Steps /\ step \in {"count", "idle"}
        /\ step = "count" => keys[ceremony[r].key].owner = ceremony[r].owner
    BY DEF P!Steps
  <2>3. MovesOn(r, step)
    BY <2>1, CeremonyMoves DEF P!Steps
  <2> HIDE DEF step
  <2> QED
    BY <1>0, <1>1, <2>1, <2>2, <2>3, CeremonyGoes
<1>4. CASE P!RecheckUser(r)
  <2> DEFINE step == IF ceremony[r].owner \in active THEN "drop" ELSE "idle"
  <2>1. /\ ceremony[r].pc = "recheck" /\ Homely /\ errors' = errors /\ Stay
        /\ IF ceremony[r].owner \in active THEN P!Goto(r, "drop") ELSE P!Finish(r)
    BY <1>0, <1>4 DEF P!RecheckUser, P!At, P!challenges, P!external, P!Kept, P!history
  <2>2. /\ step \in P!Steps /\ step \in {"drop", "idle"}
        /\ step = "drop" => ceremony[r].owner \in active
    BY DEF P!Steps
  <2>3. MovesOn(r, step)
    BY <2>1, CeremonyMoves DEF P!Steps
  <2> HIDE DEF step
  <2> QED
    BY <1>0, <1>1, <2>1, <2>2, <2>3, CeremonyGoes
<1>5. CASE P!DeleteWebAuthnLoginChallenge(r)
  <2> DEFINE q == ceremony[r]
  <2>1. /\ q.pc = "drop" /\ P!Goto(r, "grant") /\ regs' = regs /\ errors' = errors /\ Stay
        /\ IF q.goal = "second"
           THEN seconds' = [seconds EXCEPT ![q.owner] = None] /\ discover' = discover
           ELSE discover' = [discover EXCEPT ![q.challenge] = "none"] /\ seconds' = seconds
    BY <1>0, <1>5 DEF P!DeleteWebAuthnLoginChallenge, P!At, P!external, P!Kept, P!history
  <2>2. /\ q.goal \in {"second", "passwordless", "admin"} /\ q.challenge \in P!Challenge
        /\ (q.goal = "second" => q.owner \in User)
    BY <1>0, <2>1, PasskeyTyped DEF Carries
  <2>3. MovesOn(r, "grant") /\ "grant" \in P!Steps
    <3>1. "grant" \in P!Steps \ {"idle"}
      BY DEF P!Steps
    <3> QED
      BY <2>1, <3>1, CeremonyMoves
  <2>4. /\ seconds' \in [User -> P!Challenge \cup {None}]
        /\ discover' \in [P!Challenge -> {"none", "app", "admin"}]
        /\ \A u \in User : seconds'[u] =
             IF q.goal = "second" /\ u = q.owner THEN None ELSE seconds[u]
        /\ \A c \in P!Challenge : discover'[c] =
             IF q.goal # "second" /\ c = q.challenge THEN "none" ELSE discover[c]
    <3>1. CASE q.goal = "second"
      BY <1>0, <2>1, <3>1
    <3>2. CASE q.goal # "second"
      BY <1>0, <2>1, <3>2
    <3> QED
      BY <3>1, <3>2
  <2>5. \A c \in P!Challenge : HomesNext(c) \subseteq Homes(c)
    BY <1>0, <2>1, <2>4 DEF HomesNext, Homes
  <2>6. HomesNext(q.challenge) = {}
    <3>1. \A h \in HomesNext(q.challenge) : h = HomeOf(q)
      BY <2>2, <2>5 DEF PasskeyInv, ChallengesHome
    <3>2. HomeOf(q) \notin HomesNext(q.challenge)
      <4>1. CASE q.goal = "second"
        <5>1. HomeOf(q) = <<"second", q.owner>> /\ seconds'[q.owner] = None
          BY <2>2, <2>4, <4>1 DEF HomeOf
        <5> QED
          BY <1>0, <2>2, <5>1, HomesOfNext
      <4>2. CASE q.goal # "second"
        <5>1. HomeOf(q) = <<"discover", None>> /\ discover'[q.challenge] = "none"
          BY <2>2, <2>4, <4>2 DEF HomeOf
        <5> QED
          BY <2>2, <5>1, HomesOfNext
      <4> QED
        BY <4>1, <4>2
    <3> QED
      BY <3>1, <3>2
  <2>7. regs' \in [P!Owner -> P!Challenge \cup {None}]
    BY <1>0, <2>1
  <2> QED
    BY <1>0, <2>1, <2>3, <2>4, <2>5, <2>6, <2>7, CeremonyGoes
<1>6. CASE P!Fail(r)
  <2> DEFINE step == P!AfterFailure(ceremony[r])
  <2>1. /\ ceremony[r].pc # "idle" /\ Homely /\ errors' = errors + 1 /\ Stay
        /\ errors < MaxErrors
        /\ IF step = "idle" THEN P!Finish(r) ELSE P!Goto(r, step)
    BY <1>0, <1>6 DEF P!Fail, P!At, P!challenges, P!external, P!history
  <2>2. /\ step \in {"idle", "recheck", "drop", "grant"} /\ step \in P!Steps
        /\ step = "recheck" => ceremony[r].pc = "count"
        /\ step = "drop" => ceremony[r].pc = "count" /\ ceremony[r].goal # "passwordless"
        /\ step = "grant" => ceremony[r].pc = "drop"
    BY DEF P!AfterFailure, P!Steps
  <2> HIDE DEF step
  <2>3. MovesOn(r, step)
    BY <2>1, <2>2, CeremonyMoves
  <2>4. errors' \in 0..MaxErrors /\ errors' # 0
    BY <1>0, <2>1
  <2> QED
    BY <1>0, <1>1, <2>1, <2>2, <2>3, <2>4, CeremonyGoes
<1> QED
  BY <1>2, <1>3, <1>4, <1>5, <1>6

\* A step beside the ceremonies: a challenge is drawn, keys and rows lapse or go.
LEMMA AtRest ==
  ASSUME SignInAssumption, PasskeyInv, ceremony' = ceremony, used' = used, errors' = errors,
         begun' = begun, crossed \subseteq crossed', P!TypeOK', IsFiniteSet(signed'),
         OwnersStand', Len(allowed') \in Nat, Len(allowed) <= Len(allowed'),
         \A k \in Passkey : keys'[k].count <= keys[k].count,
         \A c \in P!Challenge :
           \/ HomesNext(c) \subseteq Homes(c)
           \/ /\ c > Len(allowed) /\ c <= Len(allowed')
              /\ \A h, i \in HomesNext(c) : h = i
  PROVE  PasskeyInv'
<1>0. /\ \A r \in Req : Carries(ceremony[r], Len(allowed))
      /\ Len(allowed) \in Nat /\ None \notin P!Challenge /\ None \notin Passkey
      /\ keys \in [Passkey -> P!Key] /\ keys' \in [Passkey -> P!Key]
      /\ ceremony \in [Req -> P!Request] /\ MaxSigned \in Nat
      /\ \A c \in P!Challenge : c \in Nat
  BY PasskeyTyped, PasskeyConstants DEF P!TypeOK, P!Challenge
<1>1. ASSUME NEW r \in Req, ceremony[r].pc # "idle"
      PROVE  ceremony[r].challenge \in P!Challenge /\ ceremony[r].challenge <= Len(allowed)
  BY <1>0, <1>1, PasskeyTyped DEF Carries
<1>2. ASSUME NEW r \in Req, ceremony[r].pc = "idle"
      PROVE  ceremony[r].challenge = None /\ ceremony[r].key = None
  BY <1>0, <1>2, PasskeyIdle DEF Carries
<1>3. PasskeyTypes'
  <2>1. ASSUME NEW r \in Req
        PROVE  Carries(ceremony'[r], Len(allowed'))
    BY <1>0 DEF Carries
  <2>2. \A c \in P!Challenge : used'[c] + AwaitedNext(c) <= begun'
    BY DEF PasskeyInv, PasskeyTypes, AwaitedNext, Awaited
  <2> QED
    BY <2>1, <2>2 DEF PasskeyTypes, Awaited, AwaitedNext
<1>4. ChallengesHome'
  <2>1. ASSUME NEW c \in P!Challenge
        PROVE  /\ \A h, i \in HomesNext(c) : h = i
               /\ c > Len(allowed') => HomesNext(c) = {} /\ used'[c] = 0
               /\ \A r \in Req : \A h \in HomesNext(c) :
                    ceremony'[r].challenge = c => h = HomeOf(ceremony'[r])
    <3>1. /\ \A h, i \in Homes(c) : h = i
          /\ c > Len(allowed) => Homes(c) = {} /\ used[c] = 0
          /\ \A r \in Req : \A h \in Homes(c) :
               ceremony[r].challenge = c => h = HomeOf(ceremony[r])
      BY DEF PasskeyInv, ChallengesHome
    <3>2. CASE HomesNext(c) \subseteq Homes(c)
      <4>1. c > Len(allowed') => HomesNext(c) = {} /\ used'[c] = 0
        BY <1>0, <3>1, <3>2
      <4> QED
        BY <3>1, <3>2, <4>1
    <3>3. CASE /\ c > Len(allowed) /\ c <= Len(allowed')
               /\ \A h, i \in HomesNext(c) : h = i
      <4>1. \A r \in Req : ceremony[r].challenge # c
        BY <1>0, <1>1, <1>2, <3>3
      <4> QED
        BY <1>0, <3>3, <4>1
    <3> QED
      BY <3>2, <3>3
  <2> QED
    BY <2>1, HomesOfNext DEF ChallengesHome, HomeOf
<1>5. ChallengesSpent'
  <2> SUFFICES ASSUME errors' = 0, "challenge" \notin crossed'
               PROVE  ChallengesSpent'
    BY DEF ChallengesSpent
  <2>1. /\ errors = 0 /\ "challenge" \notin crossed
        /\ \A p, r \in Req : ceremony'[p].challenge = ceremony'[r].challenge =>
             p = r \/ ceremony'[p].pc = "idle"
    BY DEF PasskeyInv, ChallengesSpent
  <2>2. ASSUME NEW c \in P!Challenge
        PROVE  /\ used'[c] <= 1
               /\ used'[c] = 1 =>
                    /\ \A r \in Req : ~ Due(ceremony'[r], c)
                    /\ HomesNext(c) = {} \/ \E r \in Req : /\ ceremony'[r].challenge = c
                                                           /\ ceremony'[r].pc = "drop_reg"
    <3>1. /\ used[c] <= 1
          /\ used[c] = 1 =>
               /\ \A r \in Req : ~ Due(ceremony[r], c)
               /\ Homes(c) = {} \/ \E r \in Req : /\ ceremony[r].challenge = c
                                                  /\ ceremony[r].pc = "drop_reg"
          /\ c > Len(allowed) => used[c] = 0
      BY <2>1 DEF PasskeyInv, ChallengesSpent, ChallengesHome
    <3>2. CASE HomesNext(c) \subseteq Homes(c)
      BY <3>1, <3>2
    <3>3. CASE c > Len(allowed)
      BY <3>1, <3>3
    <3> QED
      BY <3>2, <3>3
  <2>3. ASSUME NEW r \in Req, ceremony'[r].pc = "grant"
        PROVE  HomesNext(ceremony'[r].challenge) = {}
    <3>1. Homes(ceremony[r].challenge) = {}
      BY <2>1, <2>3 DEF PasskeyInv, ChallengesSpent
    <3>2. ceremony[r].challenge \in P!Challenge /\ ceremony[r].challenge <= Len(allowed)
      BY <1>1, <2>3
    <3>3. ~ (ceremony[r].challenge > Len(allowed))
      BY <1>0, <3>2
    <3> QED
      BY <3>1, <3>2, <3>3
  <2> QED
    BY <2>1, <2>2, <2>3 DEF ChallengesSpent, Due, Homes, HomesNext
<1>6. CountsStand'
  <2>1. ASSUME "key" \notin crossed', NEW r \in Req, ceremony[r].pc \in {"reread", "count"}
        PROVE  keys'[ceremony[r].key].count <= ceremony[r].count
    <3>1. ceremony[r].key \in Passkey /\ keys[ceremony[r].key].count <= ceremony[r].count
      BY <1>0, <2>1 DEF PasskeyInv, CountsStand, Carries
    <3>2. /\ keys[ceremony[r].key].count \in 0..MaxSigned
          /\ keys'[ceremony[r].key].count \in 0..MaxSigned
          /\ ceremony[r].count \in 0..MaxSigned
      BY <1>0, <3>1 DEF P!Key, P!Request
    <3>3. keys'[ceremony[r].key].count <= keys[ceremony[r].key].count
      BY <3>1
    <3> QED
      BY <1>0, <3>1, <3>2, <3>3
  <2>2. "key" \notin crossed' => \A p, r \in Req : ceremony'[p].key = ceremony'[r].key =>
          p = r \/ ceremony'[p].pc = "idle"
    BY DEF PasskeyInv, CountsStand
  <2> QED
    BY <2>1, <2>2 DEF CountsStand
<1> QED
  BY <1>3, <1>4, <1>5, <1>6 DEF PasskeyInv

\* What the owners need, when neither a ceremony nor a row nor a user changes.
LEMMA OwnersRest ==
  ASSUME PasskeyInv, UNCHANGED <<ceremony, keys, active, wrong, crossed>>
  PROVE  OwnersStand'
  BY DEF PasskeyInv, OwnersStand

\* A challenge is drawn into the place of an earlier one.
LEMMA DrawKeeps ==
  ASSUME SignInAssumption, PasskeyInv, NEW c \in P!Challenge,
         \/ \E u \in User : P!BeginRegistration(u, c) \/ P!BeginLogin(u, c)
         \/ \E a \in Admin : P!BeginAdminRegistration(a, c)
         \/ P!BeginPasswordlessLogin(c) \/ P!BeginAdminLogin(c)
  PROVE  PasskeyInv'
<1>0. /\ P!TypeOK /\ Len(allowed) \in Nat /\ allowed \in Seq(SUBSET Passkey)
      /\ None \notin P!Challenge /\ c \in Nat /\ c <= MaxChallenges
      /\ MaxChallenges \in Nat /\ keys \in [Passkey -> P!Key] /\ MaxSigned \in Nat
      /\ \A u \in User : u \in P!Owner
  BY PasskeyTyped, PasskeyConstants DEF P!Challenge
<1> DEFINE Fresh == Homes(c) = {} /\ used[c] = 0
<1>1. ASSUME NEW listed \in SUBSET Passkey, P!Draw(c, listed),
             regs' \in [P!Owner -> P!Challenge \cup {None}],
             seconds' \in [User -> P!Challenge \cup {None}],
             discover' \in [P!Challenge -> {"none", "app", "admin"}],
             \A d \in P!Challenge \ {c} : HomesNext(d) \subseteq Homes(d),
             Homes(c) = {} => \A h, i \in HomesNext(c) : h = i
      PROVE  PasskeyInv'
  <2>1. /\ c = Len(allowed) + 1 /\ allowed' = Append(allowed, listed)
        /\ keys' = keys /\ active' = active /\ made' = made /\ signed' = signed
        /\ ceremony' = ceremony /\ begun' = begun /\ changes' = changes /\ errors' = errors
        /\ used' = used /\ crossed' = crossed /\ wrong' = wrong
    BY <1>1 DEF P!Draw, P!external, P!Kept, P!history
  <2>2. allowed' \in Seq(SUBSET Passkey) /\ Len(allowed') = Len(allowed) + 1
    BY <1>0, <2>1
  <2>3. P!TypeOK'
    <3>1. Len(allowed') <= MaxChallenges
      BY <1>0, <2>1, <2>2
    <3> QED
      BY <1>0, <1>1, <2>1, <2>2, <3>1 DEF P!TypeOK
  <2>4. Homes(c) = {}
    <3>1. c > Len(allowed)
      BY <1>0, <2>1
    <3> QED
      BY <3>1 DEF PasskeyInv, ChallengesHome
  <2>5. OwnersStand'
    BY <2>1, OwnersRest
  <2>6. IsFiniteSet(signed')
    BY <2>1 DEF PasskeyInv, PasskeyTypes
  <2>7. /\ Len(allowed') \in Nat /\ Len(allowed) <= Len(allowed')
        /\ c > Len(allowed) /\ c <= Len(allowed')
    BY <1>0, <2>1, <2>2
  <2>8. \A k \in Passkey : keys'[k].count <= keys[k].count
    BY <1>0, <2>1 DEF P!Key
  <2> QED
    BY <1>1, <2>1, <2>3, <2>4, <2>5, <2>6, <2>7, <2>8, AtRest
<1>2. ASSUME NEW o \in P!Owner, P!StartRegistration(o, c)
      PROVE  PasskeyInv'
  <2>1. /\ P!Draw(c, {}) /\ regs' = [regs EXCEPT ![o] = c] /\ seconds' = seconds
        /\ discover' = discover
    BY <1>2 DEF P!StartRegistration
  <2>2. /\ regs' \in [P!Owner -> P!Challenge \cup {None}]
        /\ \A p \in P!Owner : regs'[p] = IF p = o THEN c ELSE regs[p]
    BY <1>0, <2>1 DEF P!TypeOK
  <2>3. \A d \in P!Challenge \ {c} : HomesNext(d) \subseteq Homes(d)
    BY <2>1, <2>2 DEF HomesNext, Homes
  <2>4. Homes(c) = {} => \A h \in HomesNext(c) : h = <<"register", o>>
    BY <2>1, <2>2, HomesOf, HomesOfNext
  <2>5. /\ seconds' \in [User -> P!Challenge \cup {None}]
        /\ discover' \in [P!Challenge -> {"none", "app", "admin"}]
    BY <1>0, <2>1 DEF P!TypeOK
  <2> QED
    BY <1>1, <2>1, <2>2, <2>3, <2>4, <2>5
<1>3. ASSUME NEW u \in User, P!BeginLogin(u, c)
      PROVE  PasskeyInv'
  <2>1. /\ P!Draw(c, P!Keys(u)) /\ seconds' = [seconds EXCEPT ![u] = c] /\ regs' = regs
        /\ discover' = discover /\ P!Keys(u) \in SUBSET Passkey
    BY <1>3 DEF P!BeginLogin, P!Keys
  <2>2. /\ seconds' \in [User -> P!Challenge \cup {None}]
        /\ \A v \in User : seconds'[v] = IF v = u THEN c ELSE seconds[v]
    BY <1>0, <2>1 DEF P!TypeOK
  <2>3. \A d \in P!Challenge \ {c} : HomesNext(d) \subseteq Homes(d)
    BY <2>1, <2>2 DEF HomesNext, Homes
  <2>4. Homes(c) = {} => \A h \in HomesNext(c) : h = <<"second", u>>
    BY <2>1, <2>2, HomesOf, HomesOfNext
  <2>5. /\ regs' \in [P!Owner -> P!Challenge \cup {None}]
        /\ discover' \in [P!Challenge -> {"none", "app", "admin"}]
    BY <1>0, <2>1 DEF P!TypeOK
  <2> QED
    BY <1>1, <2>1, <2>2, <2>3, <2>4, <2>5
<1>4. ASSUME NEW whose \in {"app", "admin"}, P!StartDiscovery(c, whose)
      PROVE  PasskeyInv'
  <2>1. /\ P!Draw(c, Passkey) /\ discover' = [discover EXCEPT ![c] = whose] /\ regs' = regs
        /\ seconds' = seconds
    BY <1>4 DEF P!StartDiscovery
  <2>2. /\ discover' \in [P!Challenge -> {"none", "app", "admin"}]
        /\ \A d \in P!Challenge : discover'[d] = IF d = c THEN whose ELSE discover[d]
    BY <1>0, <2>1 DEF P!TypeOK
  <2>3. \A d \in P!Challenge \ {c} : HomesNext(d) \subseteq Homes(d)
    BY <2>1, <2>2 DEF HomesNext, Homes
  <2>4. Homes(c) = {} => \A h \in HomesNext(c) : h = <<"discover", None>>
    BY <2>1, <2>2, HomesOf, HomesOfNext
  <2>5. /\ regs' \in [P!Owner -> P!Challenge \cup {None}]
        /\ seconds' \in [User -> P!Challenge \cup {None}]
    BY <1>0, <2>1 DEF P!TypeOK
  <2> QED
    BY <1>1, <2>1, <2>2, <2>3, <2>4, <2>5
<1>5. ASSUME NEW a \in Admin
      PROVE  a \in P!Owner
  BY DEF P!Owner
<1> QED
  BY <1>0, <1>2, <1>3, <1>4, <1>5 DEF P!BeginRegistration, P!BeginAdminRegistration,
     P!BeginPasswordlessLogin, P!BeginAdminLogin

\* A challenge lapses; or an authenticator makes a passkey, or signs.
LEMMA OutsideKeeps ==
  ASSUME SignInAssumption, PasskeyInv,
         \/ P!Expire
         \/ \E k \in Passkey : \/ \E o \in P!Owner : P!MakePasskey(k, o)
                               \/ \E c \in P!Challenge : P!Sign(k, c)
  PROVE  PasskeyInv'
<1>0. /\ P!TypeOK /\ Len(allowed) \in Nat
      /\ None \notin P!Challenge /\ keys \in [Passkey -> P!Key] /\ MaxSigned \in Nat
      /\ IsFiniteSet(signed) /\ signed \subseteq P!Assertion
  BY PasskeyTyped, PasskeyConstants DEF PasskeyInv, PasskeyTypes, P!TypeOK
<1>1. ASSUME UNCHANGED <<allowed, keys, active, ceremony>>, UNCHANGED <<begun, changes, errors>>,
             UNCHANGED <<used, crossed, wrong>>, IsFiniteSet(signed'), P!TypeOK',
             \A c \in P!Challenge : HomesNext(c) \subseteq Homes(c)
      PROVE  PasskeyInv'
  <2>1. OwnersStand'
    BY <1>1, OwnersRest
  <2>2. \A k \in Passkey : keys'[k].count <= keys[k].count
    BY <1>0, <1>1 DEF P!Key
  <2>3. /\ allowed' = allowed /\ ceremony' = ceremony /\ used' = used /\ errors' = errors
        /\ begun' = begun /\ crossed' = crossed
    BY <1>1
  <2>4. crossed \subseteq crossed' /\ Len(allowed') \in Nat /\ Len(allowed) <= Len(allowed')
    BY <1>0, <2>3
  <2> QED
    BY <1>1, <2>1, <2>2, <2>3, <2>4, AtRest
<1>2. CASE P!Expire
  <2>1. /\ UNCHANGED <<allowed, keys, active, ceremony>> /\ UNCHANGED <<begun, changes, errors>>
        /\ UNCHANGED <<used, crossed, wrong>> /\ UNCHANGED <<made, signed>>
    BY <1>2 DEF P!Expire, P!external, P!Kept, P!history
  <2>2. /\ regs' \in [P!Owner -> P!Challenge \cup {None}]
        /\ seconds' \in [User -> P!Challenge \cup {None}]
        /\ discover' \in [P!Challenge -> {"none", "app", "admin"}]
        /\ \A o \in P!Owner : regs'[o] \in {None, regs[o]}
        /\ \A u \in User : seconds'[u] \in {None, seconds[u]}
        /\ \A c \in P!Challenge : discover'[c] \in {"none", discover[c]}
    BY <1>0, <1>2 DEF P!Expire, P!TypeOK
  <2>3. \A c \in P!Challenge : HomesNext(c) \subseteq Homes(c)
    BY <1>0, <2>2 DEF HomesNext, Homes
  <2>4. P!TypeOK' /\ IsFiniteSet(signed')
    BY <1>0, <2>1, <2>2 DEF P!TypeOK
  <2> QED
    BY <1>1, <2>1, <2>3, <2>4
<1>3. ASSUME NEW k \in Passkey, NEW o \in P!Owner, P!MakePasskey(k, o)
      PROVE  PasskeyInv'
  <2>1. /\ UNCHANGED <<allowed, keys, active, ceremony>> /\ UNCHANGED <<begun, changes, errors>>
        /\ UNCHANGED <<used, crossed, wrong>> /\ signed' = signed
        /\ UNCHANGED <<regs, seconds, discover>> /\ made' = [made EXCEPT ![k] = regs[o]]
    BY <1>3 DEF P!MakePasskey, P!challenges, P!Kept, P!history
  <2>2. \A c \in P!Challenge : HomesNext(c) \subseteq Homes(c)
    BY <2>1 DEF HomesNext, Homes
  <2>3. P!TypeOK' /\ IsFiniteSet(signed')
    BY <1>0, <2>1 DEF P!TypeOK
  <2> QED
    BY <1>1, <2>1, <2>2, <2>3
<1>4. ASSUME NEW k \in Passkey, NEW c \in P!Challenge, P!Sign(k, c)
      PROVE  PasskeyInv'
  <2> DEFINE mine == {s \in signed : s.key = k}
             a == [challenge |-> c, key |-> k, count |-> 1 + P!Cardinality(mine)]
  <2>1. /\ UNCHANGED <<allowed, keys, active, ceremony>> /\ UNCHANGED <<begun, changes, errors>>
        /\ UNCHANGED <<used, crossed, wrong>> /\ made' = made
        /\ UNCHANGED <<regs, seconds, discover>> /\ signed' = signed \cup {a}
        /\ P!Cardinality(signed) < MaxSigned
    BY <1>4 DEF P!Sign, P!challenges, P!Kept, P!history
  <2>2. 1 + P!Cardinality(mine) \in 1..MaxSigned
    <3>1. P!Cardinality(mine) = Cardinality(mine) /\ P!Cardinality(signed) = Cardinality(signed)
      BY Zenon DEF P!Cardinality, Cardinality
    <3>2. /\ Cardinality(mine) \in Nat /\ Cardinality(signed) \in Nat
          /\ Cardinality(mine) <= Cardinality(signed)
      BY <1>0, FS_Subset, FS_CardinalityType
    <3> QED
      BY <1>0, <2>1, <3>1, <3>2
  <2>3. a \in P!Assertion
    BY <2>2 DEF P!Assertion
  <2> HIDE DEF a
  <2>4. signed' \subseteq P!Assertion /\ IsFiniteSet(signed')
    BY <1>0, <2>1, <2>3, FS_AddElement
  <2>5. \A d \in P!Challenge : HomesNext(d) \subseteq Homes(d)
    BY <2>1 DEF HomesNext, Homes
  <2>6. P!TypeOK'
    BY <1>0, <2>1, <2>4 DEF P!TypeOK
  <2> QED
    BY <1>1, <2>1, <2>4, <2>5, <2>6
<1> QED
  BY <1>2, <1>3, <1>4

\* The count that the authenticator answered is stored, if the row is there.
LEMMA CountIsStored ==
  ASSUME SignInAssumption, PasskeyInv, NEW r \in Req, P!UpdateCredentialSignCount(r)
  PROVE  PasskeyInv'
<1> DEFINE k == ceremony[r].key
           step == IF ceremony[r].goal = "passwordless" THEN "recheck" ELSE "drop"
<1>0. /\ P!TypeOK /\ regs \in [P!Owner -> P!Challenge \cup {None}]
      /\ seconds \in [User -> P!Challenge \cup {None}]
      /\ discover \in [P!Challenge -> {"none", "app", "admin"}]
      /\ errors \in 0..MaxErrors /\ keys \in [Passkey -> P!Key]
      /\ ceremony[r].count \in 0..MaxSigned
  BY PasskeyTyped DEF P!TypeOK, P!Request
<1>1. /\ ceremony[r].pc = "count" /\ P!Goto(r, step)
      /\ keys' = IF keys[k] = P!NoKey THEN keys
                 ELSE [keys EXCEPT ![k].count = ceremony[r].count]
      /\ active' = active /\ allowed' = allowed /\ made' = made /\ signed' = signed
      /\ begun' = begun /\ changes' = changes /\ crossed' = crossed /\ used' = used
      /\ wrong' = wrong /\ errors' = errors
      /\ regs' = regs /\ seconds' = seconds /\ discover' = discover
  BY DEF P!UpdateCredentialSignCount, P!At, P!challenges, P!external, P!Kept, P!history
<1>2. k \in Passkey
  BY <1>1, PasskeyTyped DEF Carries
<1>3. /\ keys' \in [Passkey -> P!Key]
      /\ \A i \in Passkey : /\ keys'[i].owner = keys[i].owner
                            /\ i # k => keys'[i].count = keys[i].count
  <2>1. CASE keys[k] = P!NoKey
    BY <1>0, <1>1, <2>1
  <2>2. CASE keys[k] # P!NoKey
    <3> DEFINE written == [keys[k] EXCEPT !.count = ceremony[r].count]
    <3>1. keys[k] \in P!Key
      BY <1>0, <1>2
    <3>2. written \in P!Key /\ written.owner = keys[k].owner
      BY <1>0, <3>1 DEF P!Key
    <3>3. keys' = [keys EXCEPT ![k] = written]
      BY <1>1, <2>2
    <3> HIDE DEF written, k
    <3> QED
      BY <1>0, <1>2, <3>2, <3>3
  <2> QED
    BY <2>1, <2>2
<1>4. step \in P!Steps /\ step \in {"recheck", "drop"}
      /\ (step = "drop" => ceremony[r].goal # "passwordless")
  BY DEF P!Steps
<1> HIDE DEF step
<1>5. MovesOn(r, step)
  BY <1>1, <1>4, CeremonyMoves
<1>6. \A c \in P!Challenge : HomesNext(c) \subseteq Homes(c)
  BY <1>1 DEF HomesNext, Homes
<1> QED
  BY <1>0, <1>1, <1>3, <1>4, <1>5, <1>6, CeremonyGoes

\* A challenge is used: by the row of a new passkey, or by a sign-in.
LEMMA ChallengeUsed ==
  ASSUME SignInAssumption, PasskeyInv, NEW r \in Req, NEW step \in {"idle", "drop_reg"},
         MovesOn(r, step), ceremony[r].pc = IF step = "idle" THEN "grant" ELSE "insert",
         used' = [used EXCEPT ![ceremony[r].challenge] = @ + 1],
         active' = active, allowed' = allowed, made' = made, signed' = signed,
         begun' = begun, changes' = changes, crossed' = crossed, errors' = errors,
         regs' = regs, seconds' = seconds, discover' = discover, wrong' \subseteq Passkey,
         "change" \notin crossed => wrong' = {}, keys' \in [Passkey -> P!Key],
         \A k \in Passkey : /\ keys'[k].owner = keys[k].owner \/ keys[k].owner = None
                            /\ keys'[k].count = keys[k].count
  PROVE  PasskeyInv'
<1> DEFINE ch == ceremony[r].challenge
<1>0. /\ P!TypeOK /\ used \in [P!Challenge -> Nat] /\ begun \in 0..(MaxRequests - 1)
      /\ begun \in Nat /\ Carries(ceremony[r], Len(allowed)) /\ None \notin P!Challenge
      /\ ch \in P!Challenge /\ ch \in 1..Len(allowed) /\ P!Idle.challenge = None
      /\ P!Idle.pc = "idle"
  <2>1. /\ Carries(ceremony[r], Len(allowed)) /\ P!TypeOK
        /\ used \in [P!Challenge -> Nat] /\ begun \in Nat
    BY PasskeyTyped
  <2>2. ch \in 1..Len(allowed)
    BY <2>1 DEF Carries
  <2>3. ch \in P!Challenge
    BY <2>2, PasskeyTyped
  <2> HIDE DEF ch
  <2> QED
    BY <2>1, <2>2, <2>3, PasskeyConstants, PasskeyIdle DEF P!TypeOK
<1>1. /\ ceremony' \in [Req -> P!Request] /\ OthersWait(r) /\ ceremony'[r].pc = step
      /\ step = "idle" => ceremony'[r] = P!Idle
      /\ step # "idle" =>
           /\ ceremony'[r].goal = ceremony[r].goal /\ ceremony'[r].owner = ceremony[r].owner
           /\ ceremony'[r].key = ceremony[r].key /\ ceremony'[r].challenge = ch
  BY DEF MovesOn
<1>2. Carries(ceremony'[r], Len(allowed))
  <2>1. CASE step = "idle"
    BY <1>1, <2>1, PasskeyIdle
  <2>2. CASE step # "idle"
    BY <1>0, <1>1, <2>2 DEF Carries
  <2> QED
    BY <2>1, <2>2
<1>3. /\ Due(ceremony[r], ch) /\ \A c : ~ Due(ceremony'[r], c)
      /\ \A c : Due(ceremony[r], c) => c = ch
  BY <1>0, <1>1 DEF Due
<1>4. /\ used' \in [P!Challenge -> Nat]
      /\ \A c \in P!Challenge : used'[c] = IF c = ch THEN used[c] + 1 ELSE used[c]
  BY <1>0
<1> HIDE DEF ch
<1>5. \A c : HomesNext(c) = Homes(c)
  BY DEF HomesNext, Homes
<1>6. PasskeyTypes'
  <2>1. /\ active' \subseteq User /\ changes' \in 0..MaxChanges /\ errors' \in 0..MaxErrors
        /\ begun' \in 0..(MaxRequests - 1)
        /\ regs' \in [P!Owner -> P!Challenge \cup {None}]
        /\ seconds' \in [User -> P!Challenge \cup {None}]
        /\ discover' \in [P!Challenge -> {"none", "app", "admin"}]
    BY <1>0 DEF P!TypeOK
  <2>2. ASSUME NEW c \in P!Challenge
        PROVE  used'[c] + Cost(ceremony'[r], c) + begun <= used[c] + Cost(ceremony[r], c) + begun'
    <3>1. Cost(ceremony'[r], c) = 0 /\ used[c] \in Nat
      BY <1>0, <1>3 DEF Cost
    <3>2. Cost(ceremony[r], c) = IF c = ch THEN 1 ELSE 0
      BY <1>3 DEF Cost
    <3> QED
      BY <1>0, <1>4, <3>1, <3>2
  <2> QED
    BY <1>1, <1>2, <1>4, <2>1, <2>2, PasskeyTypesMove
<1>7. ChallengesHome'
  <2>1. ASSUME NEW c \in P!Challenge, NEW h \in HomesNext(c), ceremony'[r].challenge = c
        PROVE  h = HomeOf(ceremony'[r])
    <3>1. step # "idle" /\ ch = c /\ h \in Homes(c)
      BY <1>0, <1>1, <1>5, <2>1
    <3>2. HomeOf(ceremony'[r]) = HomeOf(ceremony[r])
      BY <1>1, <3>1 DEF HomeOf
    <3> QED
      BY <3>1, <3>2 DEF PasskeyInv, ChallengesHome, ch
  <2>2. \A c \in P!Challenge : used'[c] # used[c] => c <= Len(allowed)
    BY <1>0, <1>4
  <2> QED
    BY <1>1, <1>5, <2>1, <2>2, HomesMove
<1>8. ChallengesSpent'
  <2> SUFFICES ASSUME errors' = 0, "challenge" \notin crossed'
               PROVE  ChallengesSpent'
    BY DEF ChallengesSpent
  <2>1. /\ \A p, s \in Req : ceremony[p].challenge = ceremony[s].challenge =>
             p = s \/ ceremony[p].pc = "idle"
        /\ \A s \in Req : ceremony[s].pc = "grant" => Homes(ceremony[s].challenge) = {}
        /\ \A c \in P!Challenge :
             /\ used[c] <= 1
             /\ used[c] = 1 =>
                  /\ \A s \in Req : ~ Due(ceremony[s], c)
                  /\ Homes(c) = {} \/ \E s \in Req : /\ ceremony[s].challenge = c
                                                     /\ ceremony[s].pc = "drop_reg"
    BY DEF PasskeyInv, ChallengesSpent
  <2>2. \A s \in Req \ {r} : ceremony[s].pc = "idle" \/ ceremony[s].challenge # ch
    BY <2>1 DEF ch
  <2>3. ASSUME NEW p \in Req, NEW s \in Req, ceremony'[p].challenge = ceremony'[s].challenge,
               p # s
        PROVE  ceremony'[p].pc = "idle"
    <3>1. CASE step = "idle"
      <4>1. ceremony'[r].challenge = None /\ ceremony'[r].pc = "idle"
        BY <1>0, <1>1, <3>1
      <4>2. ASSUME NEW t \in Req \ {r}, ceremony[t].challenge = None
            PROVE  ceremony[t].pc = "idle"
        BY <4>2, PasskeyTyped, PasskeyConstants DEF Carries
      <4> QED
        BY <1>1, <2>1, <2>3, <4>1, <4>2 DEF OthersWait
    <3>2. CASE step # "idle"
      BY <1>1, <2>1, <2>3, <3>2 DEF OthersWait, ch
    <3> QED
      BY <3>1, <3>2
  <2>4. ASSUME NEW c \in P!Challenge
        PROVE  /\ used'[c] <= 1
               /\ used'[c] = 1 =>
                    /\ \A s \in Req : ~ Due(ceremony'[s], c)
                    /\ HomesNext(c) = {} \/ \E s \in Req : /\ ceremony'[s].challenge = c
                                                           /\ ceremony'[s].pc = "drop_reg"
    <3>1. CASE c = ch
      <4>1. used[c] = 0
        <5>1. used[c] # 1 /\ used[c] <= 1 /\ used[c] \in Nat
          BY <1>0, <1>3, <2>1, <3>1
        <5> QED
          BY <5>1
      <4>2. \A s \in Req : ~ Due(ceremony'[s], c)
        BY <1>1, <1>3, <2>2, <3>1 DEF OthersWait, Due
      <4>3. HomesNext(c) = {} \/ \E s \in Req : /\ ceremony'[s].challenge = c
                                                /\ ceremony'[s].pc = "drop_reg"
        BY <1>1, <1>5, <2>1, <3>1 DEF ch
      <4> QED
        BY <1>4, <3>1, <4>1, <4>2, <4>3
    <3>2. CASE c # ch
      <4>1. used'[c] = used[c]
        BY <1>4, <3>2
      <4>2. \A s \in Req : Due(ceremony'[s], c) => Due(ceremony[s], c)
        BY <1>3 DEF OthersWait, MovesOn
      <4>3. ceremony[r].pc # "drop_reg"
        OBVIOUS
      <4>4. \A s \in Req : ceremony[s].pc = "drop_reg" => ceremony'[s] = ceremony[s]
        BY <1>1, <4>3 DEF OthersWait
      <4> QED
        BY <1>5, <2>1, <4>1, <4>2, <4>4
    <3> QED
      BY <3>1, <3>2
  <2>5. ASSUME NEW s \in Req, ceremony'[s].pc = "grant"
        PROVE  HomesNext(ceremony'[s].challenge) = {}
    <3>1. s # r
      BY <1>1, <2>5
    <3>2. ceremony'[s] = ceremony[s]
      BY <1>1, <3>1 DEF OthersWait
    <3>3. Homes(ceremony[s].challenge) = {}
      BY <2>1, <2>5, <3>2
    <3> QED
      BY <1>5, <3>2, <3>3
  <2> QED
    BY <2>3, <2>4, <2>5 DEF ChallengesSpent, Due, Homes, HomesNext
<1>9. OwnersStand'
  <2>1. ceremony'[r].pc \notin {"count", "recheck", "drop", "grant"}
    BY <1>1
  <2> QED
    BY <1>1, <2>1, OwnersMove
<1>10. CountsStand'
  <2>1. /\ ceremony[r].pc # "idle" /\ ceremony'[r].pc \notin {"reread", "count"}
        /\ ceremony'[r] = P!Idle \/ ceremony'[r].key = ceremony[r].key
    BY <1>1
  <2> QED
    BY <1>1, <2>1, CountsMove
<1> QED
  BY <1>6, <1>7, <1>8, <1>9, <1>10 DEF PasskeyInv

LEMMA CreateCredentialKeeps ==
  ASSUME SignInAssumption, PasskeyInv, NEW r \in Req, P!CreateCredential(r)
  PROVE  PasskeyInv'
<1> DEFINE k == ceremony[r].key
<1>0. /\ P!TypeOK /\ regs \in [P!Owner -> P!Challenge \cup {None}]
      /\ seconds \in [User -> P!Challenge \cup {None}]
      /\ discover \in [P!Challenge -> {"none", "app", "admin"}]
      /\ errors \in 0..MaxErrors /\ keys \in [Passkey -> P!Key] /\ wrong \subseteq Passkey
  BY PasskeyTyped DEF P!TypeOK
<1>1. /\ ceremony[r].pc = "insert"
      /\ active' = active /\ allowed' = allowed /\ made' = made /\ signed' = signed
      /\ begun' = begun /\ changes' = changes /\ crossed' = crossed
      /\ wrong' = wrong /\ errors' = errors
      /\ regs' = regs /\ seconds' = seconds /\ discover' = discover
  BY DEF P!CreateCredential, P!At, P!challenges, P!external, P!Kept, P!history
<1>2. k \in Passkey /\ ceremony[r].owner \in P!Owner
  BY <1>1, PasskeyTyped DEF Carries
<1>3. CASE keys[k] # P!NoKey
  <2>1. P!Finish(r) /\ keys' = keys /\ used' = used
    BY <1>3 DEF P!CreateCredential
  <2>2. MovesOn(r, "idle") /\ "idle" \in P!Steps
    BY <2>1, CeremonyMoves DEF P!Steps
  <2>3. \A c \in P!Challenge : HomesNext(c) \subseteq Homes(c)
    BY <1>1 DEF HomesNext, Homes
  <2> QED
    BY <1>0, <1>1, <2>1, <2>2, <2>3, CeremonyGoes
<1>4. CASE keys[k] = P!NoKey
  <2>1. /\ keys' = [keys EXCEPT ![k].owner = ceremony[r].owner]
        /\ used' = [used EXCEPT ![ceremony[r].challenge] = @ + 1]
        /\ P!Goto(r, "drop_reg")
    BY <1>4 DEF P!CreateCredential
  <2>2. MovesOn(r, "drop_reg")
    <3>1. "drop_reg" \in P!Steps \ {"idle"}
      BY DEF P!Steps
    <3> QED
      BY <2>1, <3>1, CeremonyMoves
  <2>3. /\ keys' \in [Passkey -> P!Key]
        /\ \A i \in Passkey : /\ keys'[i].owner = keys[i].owner \/ keys[i].owner = None
                              /\ keys'[i].count = keys[i].count
    <3> DEFINE written == [keys[k] EXCEPT !.owner = ceremony[r].owner]
    <3>1. keys[k] \in P!Key /\ keys[k].owner = None
      BY <1>0, <1>2, <1>4 DEF P!NoKey
    <3>2. written \in P!Key /\ written.count = keys[k].count
      BY <1>2, <3>1 DEF P!Key
    <3>3. keys' = [keys EXCEPT ![k] = written]
      BY <2>1
    <3> HIDE DEF written, k
    <3> QED
      BY <1>0, <1>2, <3>1, <3>2, <3>3
  <2>4. "change" \notin crossed => wrong' = {}
    BY <1>1 DEF PasskeyInv, OwnersStand
  <2> QED
    BY <1>0, <1>1, <2>1, <2>2, <2>3, <2>4, ChallengeUsed
<1> QED
  BY <1>3, <1>4

\* The one that is let in owns the passkey and is active, unless that changed.
LEMMA CreateSessionOnce ==
  ASSUME SignInAssumption, PasskeyInv, NEW r \in Req, P!CreateSession(r)
  PROVE  PasskeyInv'
<1> DEFINE q == ceremony[r]
<1>0. /\ P!TypeOK /\ keys \in [Passkey -> P!Key] /\ wrong \subseteq Passkey
  BY PasskeyTyped DEF P!TypeOK
<1>1. /\ q.pc = "grant" /\ P!Finish(r) /\ keys' = keys
      /\ used' = [used EXCEPT ![q.challenge] = @ + 1]
      /\ active' = active /\ allowed' = allowed /\ made' = made /\ signed' = signed
      /\ begun' = begun /\ changes' = changes /\ crossed' = crossed /\ errors' = errors
      /\ regs' = regs /\ seconds' = seconds /\ discover' = discover
      /\ wrong' = IF keys[q.key].owner # q.owner
                       \/ (q.goal = "passwordless" /\ q.owner \notin active)
                  THEN wrong \cup {q.key} ELSE wrong
  BY DEF P!CreateSession, P!At, P!challenges, P!external, P!Kept
<1>2. q.key \in Passkey
  BY <1>1, PasskeyTyped DEF Carries
<1>3. wrong' \subseteq Passkey
  BY <1>0, <1>1, <1>2
<1>4. "change" \notin crossed => wrong' = {}
  BY <1>1 DEF PasskeyInv, OwnersStand
<1>5. MovesOn(r, "idle")
  BY <1>1, CeremonyMoves
<1> QED
  BY <1>0, <1>1, <1>3, <1>4, <1>5, ChallengeUsed

\* Rows and users change under the ceremonies.
LEMMA ChangesKeep ==
  ASSUME SignInAssumption, PasskeyInv,
         \/ \E k \in Passkey : P!Delete(k)
         \/ \E u \in User : P!ToggleUserActive(u)
  PROVE  PasskeyInv'
<1>0. /\ P!TypeOK /\ keys \in [Passkey -> P!Key] /\ active \subseteq User
      /\ Len(allowed) \in Nat /\ IsFiniteSet(signed) /\ MaxSigned \in Nat
      /\ MaxChanges \in Nat /\ changes \in 0..MaxChanges
      /\ \A r \in Req : Carries(ceremony[r], Len(allowed))
  BY PasskeyTyped, PasskeyConstants DEF P!TypeOK, PasskeyInv, PasskeyTypes
<1> DEFINE Beside(late) ==
       /\ changes' = changes + 1 /\ changes < MaxChanges
       /\ crossed' = IF late THEN crossed \cup {"change"} ELSE crossed
       /\ regs' = regs /\ seconds' = seconds /\ discover' = discover /\ allowed' = allowed
       /\ made' = made /\ signed' = signed /\ ceremony' = ceremony /\ begun' = begun
       /\ errors' = errors /\ used' = used /\ wrong' = wrong
<1>1. ASSUME NEW late, P!Change(late)
      PROVE  Beside(late)
  BY <1>1 DEF P!Change, P!challenges, P!external
<1>2. ASSUME NEW late, Beside(late), keys' \in [Passkey -> P!Key], active' \subseteq User,
             \A k \in Passkey : keys'[k].count <= keys[k].count, OwnersStand'
      PROVE  PasskeyInv'
  <2>1. changes' \in 0..MaxChanges
    BY <1>0, <1>2
  <2>2. P!TypeOK'
    BY <1>0, <1>2, <2>1 DEF P!TypeOK
  <2>3. \A c \in P!Challenge : HomesNext(c) \subseteq Homes(c)
    BY <1>2 DEF HomesNext, Homes
  <2>4. IsFiniteSet(signed') /\ Len(allowed') \in Nat /\ Len(allowed) <= Len(allowed')
    BY <1>0, <1>2
  <2>5. crossed \subseteq crossed'
    BY <1>2
  <2> QED
    BY <1>2, <2>2, <2>3, <2>4, <2>5, AtRest
<1>3. ASSUME NEW k \in Passkey, P!Delete(k)
      PROVE  PasskeyInv'
  <2> DEFINE late == \E r \in Req : /\ ceremony[r].key = k
                                    /\ ceremony[r].pc \in {"count", "recheck", "drop", "grant"}
  <2>1. P!Change(late) /\ keys' = [keys EXCEPT ![k] = P!NoKey] /\ active' = active
    BY <1>3 DEF P!Delete
  <2>2. P!NoKey \in P!Key /\ P!NoKey.count = 0
    BY <1>0 DEF P!NoKey, P!Key
  <2>3. /\ keys' \in [Passkey -> P!Key]
        /\ \A i \in Passkey : keys'[i] = IF i = k THEN P!NoKey ELSE keys[i]
    BY <1>0, <2>1, <2>2
  <2>4. \A i \in Passkey : keys'[i].count <= keys[i].count
    BY <1>0, <2>2, <2>3 DEF P!Key
  <2>5. OwnersStand'
    <3>1. Beside(late)
      BY <1>1, <2>1
    <3>2. ASSUME "change" \notin crossed'
          PROVE  "change" \notin crossed /\ ~ late
      BY <3>1, <3>2
    <3>3. ASSUME "change" \notin crossed', NEW r \in Req,
                 ceremony[r].pc \in {"count", "recheck", "drop", "grant"}
          PROVE  keys'[ceremony[r].key] = keys[ceremony[r].key]
      <4>1. ceremony[r].key # k /\ ceremony[r].key \in Passkey
        BY <1>0, <3>2, <3>3 DEF Carries
      <4> QED
        BY <2>3, <4>1
    <3>4. /\ "change" \notin crossed' => "change" \notin crossed
          /\ ceremony' = ceremony /\ active' = active /\ wrong' = wrong
      BY <2>1, <3>1, <3>2
    <3> QED
      BY <3>3, <3>4 DEF PasskeyInv, OwnersStand
  <2>6. Beside(late)
    BY <1>1, <2>1
  <2>7. active' \subseteq User
    BY <1>0, <2>1
  <2> HIDE DEF late
  <2> QED
    BY <1>2, <2>3, <2>4, <2>5, <2>6, <2>7
<1>4. ASSUME NEW u \in User, P!ToggleUserActive(u)
      PROVE  PasskeyInv'
  <2> DEFINE late == \E r \in Req : ceremony[r].owner = u /\ ceremony[r].pc \in {"drop", "grant"}
  <2>1. P!Change(late) /\ keys' = keys /\ active' \subseteq active \cup {u}
        /\ active \ {u} \subseteq active'
    BY <1>4 DEF P!ToggleUserActive
  <2>2. Beside(late)
    BY <1>1, <2>1
  <2>3. OwnersStand'
    <3>1. ASSUME "change" \notin crossed'
          PROVE  "change" \notin crossed /\ ~ late
      BY <2>2, <3>1
    <3>2. ceremony' = ceremony /\ wrong' = wrong
      BY <2>2
    <3> QED
      BY <2>1, <3>1, <3>2 DEF PasskeyInv, OwnersStand
  <2>4. keys' \in [Passkey -> P!Key] /\ active' \subseteq User
        /\ \A k \in Passkey : keys'[k].count <= keys[k].count
    BY <1>0, <2>1 DEF P!Key
  <2> HIDE DEF late
  <2> QED
    BY <1>2, <2>2, <2>3, <2>4
<1> QED
  BY <1>3, <1>4

-----------------------------------------------------------------------------
(* The invariant of Passkeys.                                               *)

passkeyState ==
  <<keys, active, regs, seconds, discover, allowed, made, signed, ceremony, changes, used,
    crossed, wrong, begun, errors>>

LEMMA PasskeyStarts ==
  ASSUME SignInAssumption, P!Init
  PROVE  PasskeyInv
<1>0. /\ None \notin P!Owner /\ MaxRequests - 1 \in Nat /\ MaxSigned \in Nat
      /\ MaxChanges \in Nat /\ MaxErrors \in Nat /\ MaxChallenges \in Nat
      /\ None \notin P!Challenge /\ None \notin Passkey
  BY PasskeyConstants
<1>1. /\ keys = [k \in Passkey |-> P!NoKey] /\ active = User
      /\ regs = [o \in P!Owner |-> None] /\ seconds = [u \in User |-> None]
      /\ discover = [c \in P!Challenge |-> "none"] /\ allowed = << >>
      /\ made = [k \in Passkey |-> None] /\ signed = {}
      /\ ceremony = [r \in Req |-> P!Idle] /\ begun = 0 /\ changes = 0 /\ errors = 0
      /\ used = [c \in P!Challenge |-> 0] /\ crossed = {} /\ wrong = {}
  BY DEF P!Init
<1>2. /\ \A r \in Req : /\ ceremony[r] = P!Idle /\ ceremony[r].pc = "idle"
                        /\ Carries(ceremony[r], Len(allowed))
      /\ ceremony \in [Req -> P!Request] /\ \A r \in Req : \A c : ~ Due(ceremony[r], c)
  BY <1>1, PasskeyIdle
<1>3. P!NoKey \in P!Key
  BY <1>0 DEF P!NoKey, P!Key
<1>4. allowed \in Seq(SUBSET Passkey) /\ Len(allowed) = 0
  BY <1>1
<1>5. P!TypeOK
  <2>1. 0 \in 0..(MaxRequests - 1) /\ 0 \in 0..MaxChanges /\ 0 \in 0..MaxErrors
    BY <1>0
  <2> QED
    BY <1>0, <1>1, <1>2, <1>3, <1>4, <2>1 DEF P!TypeOK
<1>6. PasskeyTypes
  <2>1. ASSUME NEW c \in P!Challenge
        PROVE  used[c] + Awaited(c) <= begun
    <3>1. {r \in Req : Due(ceremony[r], c)} = {}
      BY <1>2
    <3>2. Awaited(c) = 0
      BY <3>1, FS_EmptySet DEF Awaited
    <3> QED
      BY <1>1, <3>2
  <2>2. IsFiniteSet(signed)
    BY <1>1, FS_EmptySet
  <2> QED
    BY <1>2, <1>5, <2>1, <2>2 DEF PasskeyTypes
<1>7. ChallengesHome
  <2>1. \A c \in P!Challenge : Homes(c) = {}
    BY <1>0, <1>1, HomesOf
  <2> QED
    BY <1>1, <2>1 DEF ChallengesHome
<1>8. ChallengesSpent /\ OwnersStand /\ CountsStand
  BY <1>1, <1>2 DEF ChallengesSpent, OwnersStand, CountsStand
<1> QED
  BY <1>6, <1>7, <1>8 DEF PasskeyInv

LEMMA PasskeyStep ==
  ASSUME SignInAssumption, PasskeyInv, P!Next \/ UNCHANGED passkeyState
  PROVE  PasskeyInv'
<1>0. (\A u \in User : u \in P!Owner) /\ (\A a \in Admin : a \in P!Owner)
  BY DEF P!Owner
<1>1. ASSUME NEW r \in Req, P!Serve(r)
      PROVE  PasskeyInv'
  <2>1. ASSUME NEW k \in Passkey,
               \/ \E u \in User : P!FinishRegistration(r, u, k)
               \/ \E a \in Admin : P!FinishAdminRegistration(r, a, k)
        PROVE  PasskeyInv'
    BY <1>0, <2>1, RegisterKeeps DEF P!FinishRegistration, P!FinishAdminRegistration
  <2>2. ASSUME NEW s \in signed,
               \/ P!FinishLogin(r, s) \/ P!FinishPasswordlessLogin(r, s)
               \/ P!FinishAdminLogin(r, s)
        PROVE  PasskeyInv'
    BY <2>2, AnswerKeeps
  <2>3. CASE P!CreateCredential(r)
    BY <2>3, CreateCredentialKeeps
  <2>4. CASE P!UpdateCredentialSignCount(r)
    BY <2>4, CountIsStored
  <2>5. CASE P!CreateSession(r)
    BY <2>5, CreateSessionOnce
  <2>6. CASE \/ P!DeleteWebAuthnRegistrationChallenge(r) \/ P!GetCredentialByCredentialID(r)
             \/ P!RecheckUser(r) \/ P!DeleteWebAuthnLoginChallenge(r) \/ P!Fail(r)
    BY <2>6, CeremonyStepsKeep
  <2> QED
    BY <1>1, <2>1, <2>2, <2>3, <2>4, <2>5, <2>6 DEF P!Serve
<1>2. ASSUME NEW c \in P!Challenge,
             \/ \E u \in User : P!BeginRegistration(u, c) \/ P!BeginLogin(u, c)
             \/ \E a \in Admin : P!BeginAdminRegistration(a, c)
             \/ P!BeginPasswordlessLogin(c) \/ P!BeginAdminLogin(c)
      PROVE  PasskeyInv'
  BY <1>2, DrawKeeps
<1>3. ASSUME NEW k \in Passkey,
             \/ \E o \in P!Owner : P!MakePasskey(k, o)
             \/ \E c \in P!Challenge : P!Sign(k, c)
      PROVE  PasskeyInv'
  BY <1>3, OutsideKeeps
<1>4. ASSUME NEW k \in Passkey,
             P!DeleteCredential(k) \/ P!PasskeyDelete(k) \/ P!DeleteAdminCredential(k)
      PROVE  PasskeyInv'
  BY <1>4, ChangesKeep DEF P!DeleteCredential, P!PasskeyDelete, P!DeleteAdminCredential
<1>5. ASSUME NEW u \in User, P!ToggleUserActive(u)
      PROVE  PasskeyInv'
  BY <1>5, ChangesKeep
<1>6. CASE P!Expire
  BY <1>6, OutsideKeeps
<1>7. CASE UNCHANGED passkeyState
  <2>1. /\ keys' = keys /\ active' = active /\ regs' = regs /\ seconds' = seconds
        /\ discover' = discover /\ allowed' = allowed /\ made' = made /\ signed' = signed
        /\ ceremony' = ceremony /\ changes' = changes /\ used' = used /\ crossed' = crossed
        /\ wrong' = wrong /\ begun' = begun /\ errors' = errors
    BY <1>7 DEF passkeyState
  <2>2. /\ P!TypeOK /\ IsFiniteSet(signed) /\ Len(allowed) \in Nat /\ MaxSigned \in Nat
        /\ keys \in [Passkey -> P!Key]
    BY PasskeyTyped, PasskeyConstants DEF PasskeyInv, PasskeyTypes
  <2>3. P!TypeOK'
    BY <2>1, <2>2 DEF P!TypeOK
  <2>4. OwnersStand'
    BY <2>1, OwnersRest
  <2>5. \A c \in P!Challenge : HomesNext(c) \subseteq Homes(c)
    BY <2>1 DEF HomesNext, Homes
  <2>6. \A k \in Passkey : keys'[k].count <= keys[k].count
    BY <2>1, <2>2 DEF P!Key
  <2>7. /\ crossed \subseteq crossed' /\ IsFiniteSet(signed') /\ Len(allowed') \in Nat
        /\ Len(allowed) <= Len(allowed')
    BY <2>1, <2>2
  <2> QED
    BY <2>1, <2>3, <2>4, <2>5, <2>6, <2>7, AtRest
<1> QED
  BY <1>1, <1>2, <1>3, <1>4, <1>5, <1>6, <1>7 DEF P!Next

LEMMA PasskeyMeans ==
  ASSUME SignInAssumption, PasskeyInv
  PROVE  P!PasskeysOnce
<1>1. P!TypeOK /\ used \in [P!Challenge -> Nat] /\ errors \in Nat
  BY PasskeyTyped
<1>2. P!ChallengeOnce
  BY <1>1 DEF P!ChallengeOnce, PasskeyInv, ChallengesSpent
<1>3. P!OutKeptOut
  BY DEF P!OutKeptOut, PasskeyInv, OwnersStand
<1> QED
  BY <1>1, <1>2, <1>3 DEF P!PasskeysOnce

\* Which steps write the rows of passkeys.
LEMMA KeysWritten ==
  ASSUME P!Next
  PROVE  \/ keys' = keys
         \/ \E r \in Req : P!CreateCredential(r) \/ P!UpdateCredentialSignCount(r)
         \/ \E k \in Passkey : keys' = [keys EXCEPT ![k] = P!NoKey]
<1>1. ASSUME NEW r \in Req, P!Serve(r)
      PROVE  keys' = keys \/ P!CreateCredential(r) \/ P!UpdateCredentialSignCount(r)
  BY <1>1 DEF P!Serve, P!FinishRegistration, P!FinishAdminRegistration, P!Register, P!Begin,
     P!FinishLogin, P!FinishPasswordlessLogin, P!FinishAdminLogin, P!Answer,
     P!DeleteWebAuthnRegistrationChallenge, P!GetCredentialByCredentialID, P!RecheckUser,
     P!DeleteWebAuthnLoginChallenge, P!CreateSession, P!Fail
<1>2. ASSUME NEW c \in P!Challenge,
             \/ \E u \in User : P!BeginRegistration(u, c) \/ P!BeginLogin(u, c)
             \/ \E a \in Admin : P!BeginAdminRegistration(a, c)
             \/ P!BeginPasswordlessLogin(c) \/ P!BeginAdminLogin(c)
      PROVE  keys' = keys
  BY <1>2 DEF P!BeginRegistration, P!BeginLogin, P!BeginAdminRegistration,
     P!BeginPasswordlessLogin, P!BeginAdminLogin, P!StartRegistration, P!StartDiscovery, P!Draw
<1>3. ASSUME NEW k \in Passkey,
             P!DeleteCredential(k) \/ P!PasskeyDelete(k) \/ P!DeleteAdminCredential(k)
      PROVE  keys' = [keys EXCEPT ![k] = P!NoKey]
  BY <1>3 DEF P!DeleteCredential, P!PasskeyDelete, P!DeleteAdminCredential, P!Delete
<1>4. ASSUME NEW k \in Passkey,
             \/ \E o \in P!Owner : P!MakePasskey(k, o)
             \/ \E c \in P!Challenge : P!Sign(k, c)
      PROVE  keys' = keys
  BY <1>4 DEF P!MakePasskey, P!Sign
<1>5. (P!Expire \/ \E u \in User : P!ToggleUserActive(u)) => keys' = keys
  BY DEF P!Expire, P!ToggleUserActive
<1> QED
  BY <1>1, <1>2, <1>3, <1>4, <1>5 DEF P!Next

LEMMA CountsGrow ==
  ASSUME SignInAssumption, PasskeyInv, P!Next
  PROVE  P!CountKept
<1>0. keys \in [Passkey -> P!Key] /\ MaxSigned \in Nat
      /\ \A k \in Passkey : keys[k].count \in Nat
  BY PasskeyTyped, PasskeyConstants DEF P!Key
<1>1. CASE keys' = keys
  BY <1>0, <1>1 DEF P!CountKept
<1>2. ASSUME NEW k \in Passkey, keys' = [keys EXCEPT ![k] = P!NoKey]
      PROVE  P!CountKept
  <2>1. ASSUME NEW i \in Passkey, keys'[i].owner # None
        PROVE  keys'[i] = keys[i]
    BY <1>0, <1>2, <2>1 DEF P!NoKey
  <2> QED
    BY <1>0, <2>1 DEF P!CountKept
<1>3. ASSUME NEW r \in Req, P!CreateCredential(r)
      PROVE  P!CountKept
  <2>1. \A i \in Passkey : keys'[i].count = keys[i].count
    <3>1. \/ keys' = keys
          \/ keys' = [keys EXCEPT ![ceremony[r].key].owner = ceremony[r].owner]
      BY <1>3 DEF P!CreateCredential
    <3> QED
      BY <1>0, <3>1 DEF P!Key
  <2> QED
    BY <1>0, <2>1 DEF P!CountKept
<1>4. ASSUME NEW r \in Req, P!UpdateCredentialSignCount(r)
      PROVE  P!CountKept
  <2> DEFINE k == ceremony[r].key
  <2>1. /\ ceremony[r].pc = "count"
        /\ \/ keys' = keys
           \/ keys' = [keys EXCEPT ![k].count = ceremony[r].count]
    BY <1>4 DEF P!UpdateCredentialSignCount, P!At
  <2>2. "key" \in crossed \/ keys[k].count <= ceremony[r].count
    BY <2>1 DEF PasskeyInv, CountsStand
  <2>3. /\ \A i \in Passkey : i # k => keys'[i].count = keys[i].count
        /\ keys'[k].count \in {keys[k].count, ceremony[r].count} \/ k \notin Passkey
    BY <1>0, <2>1 DEF P!Key
  <2>4. k \in Passkey /\ ceremony[r].count \in Nat /\ keys[k].count \in Nat
    BY <1>0, <2>1, PasskeyTyped DEF Carries, P!Request
  <2> HIDE DEF k
  <2> QED
    BY <1>0, <2>2, <2>3, <2>4 DEF P!CountKept
<1> QED
  BY <1>1, <1>2, <1>3, <1>4, KeysWritten

PasskeyPart == part = "passkeys" => PasskeyInv

LEMMA PasskeyAlways == AllSpec => []PasskeyPart
<1>0. SignInAssumption
  BY SignInAssumption
<1>1. AllInit => PasskeyPart
  BY <1>0, PasskeyStarts DEF AllInit, PasskeyPart
<1>2. PasskeyPart /\ [AllNext]_allVars => PasskeyPart'
  <2> SUFFICES ASSUME PasskeyPart, [AllNext]_allVars
               PROVE  PasskeyPart'
    OBVIOUS
  <2>1. CASE Passkeys
    <3>1. part = "passkeys" /\ part' = part /\ P!Next
      BY <2>1 DEF Passkeys
    <3> QED
      BY <1>0, <3>1, PasskeyStep DEF PasskeyPart
  <2>2. CASE Lockout \/ RateLimit \/ Enrolment \/ SecondFactor
    BY <2>2 DEF Lockout, RateLimit, Enrolment, SecondFactor, shared, PasskeyPart
  <2>3. CASE UNCHANGED allVars
    <3>1. UNCHANGED passkeyState /\ part' = part
      BY <2>3 DEF allVars, shared, passkeyVars, passkeyState
    <3> QED
      BY <1>0, <3>1, PasskeyStep DEF PasskeyPart
  <2> QED
    BY <2>1, <2>2, <2>3 DEF AllNext
<1> QED
  BY <1>1, <1>2, PTL DEF AllSpec

\* A challenge registers or lets in once, and a deleted passkey or an inactive user
\* not at all, for any number of ceremonies that are finished at the same time, but
\* for the overlaps and failures that are named
\* (internal/webauthn/service.go:186, 305, 429, 465).
THEOREM PasskeysLetInOnce == AllSpec => []PasskeysOnce
<1>1. PasskeyPart => PasskeysOnce
  BY SignInAssumption, PasskeyMeans DEF PasskeyPart, PasskeysOnce
<1> QED
  BY <1>1, PasskeyAlways, PTL

\* No step takes the stored count of a passkey back, unless two requests had read
\* it before either wrote it (internal/webauthn/repository.go:69).
THEOREM PasskeyCountGrows == AllSpec => CountGrows
<1>0. SignInAssumption
  BY SignInAssumption
<1>1. PasskeyPart /\ [AllNext]_allVars => [part = "passkeys" => P!CountKept]_allVars
  <2> SUFFICES ASSUME PasskeyPart, AllNext, part = "passkeys"
               PROVE  P!CountKept
    OBVIOUS
  <2>1. P!Next
    BY DEF AllNext, Lockout, RateLimit, Enrolment, SecondFactor, Passkeys
  <2> QED
    BY <1>0, <2>1, CountsGrow DEF PasskeyPart
<1> QED
  BY <1>1, PasskeyAlways, PTL DEF AllSpec, CountGrows

=============================================================================
