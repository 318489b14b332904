------------------------------ MODULE MCSignIn ------------------------------
(***************************************************************************)
(* The modules that guard and complete a sign-in, side by side: a behaviour *)
(* is one of the module that part names, with the others at rest.  They    *)
(* share no state in the program but the client's and the user's identity. *)
(* Init, Next and Spec without a prefix are those of Lockout.              *)
(***************************************************************************)
EXTENDS Lockout, TLC

CONSTANTS
  None, Entry, MaxAttempts, Window, LockoutDuration, Grace, MaxOutages,
  Phone, Backup, Secret, Temp, Agent, BatchSize, MaxBatches, MaxMails, MaxDevices,
  User, Admin, Passkey, MaxChallenges, MaxSigned, MaxChanges

VARIABLES
  part, begun,
  attempts, lockout, entries, current, limited, sweeping, up, outages, admitted,
  raced,
  row, setup, code, tokens, enrolling, shown, owned, saved,
  factor, app, temps, mail, devices, verifying, issued, honoured, skipped,
  keys, active, regs, seconds, discover, allowed, made, signed, ceremony, changes,
  used, crossed, wrong

R == INSTANCE RateLimit WITH req <- limited, LockoutThreshold <- LockoutThreshold - 1
E == INSTANCE Enrolment WITH req <- enrolling, served <- begun,
                             MaxRequests <- MaxRequests + 1
F == INSTANCE SecondFactor WITH req <- verifying, served <- begun, row <- factor
P == INSTANCE Passkeys WITH req <- ceremony, served <- begun, overlap <- crossed,
                            MaxRequests <- MaxRequests - 1

ASSUME SignInAssumption ==
  /\ LockoutAssumption /\ R!RateLimitAssumption /\ E!EnrolmentAssumption
  /\ F!SecondFactorAssumption /\ P!PasskeysAssumption

\* The two tiers of the lock.
Durations == <<1, 2>>

\* Of Lockout's, enrolment and second factors use errors and overlap, and passkeys use
\* errors.
lockoutVars ==
  <<now, lock, counter, req, served, guesses, blind, strikes, unearned>>
enrolmentVars == <<row, setup, code, tokens, enrolling, shown, owned, saved>>
factorVars == <<factor, app, temps, mail, devices, verifying, issued, honoured, skipped>>
limitVars == <<attempts, lockout, entries, current, limited, sweeping, up, outages,
               admitted, raced>>
passkeyVars == <<keys, active, regs, seconds, discover, allowed, made, signed, ceremony,
                 changes, used, crossed, wrong>>
shared == <<part, begun, errors, overlap>>
allVars == <<shared, lockoutVars, limitVars, enrolmentVars, factorVars, passkeyVars>>

Parts == {"lockout", "limit", "enrolment", "factor", "passkeys"}
\* Of the others, a part that is not run is nothing but None.
AllInit ==
  /\ part \in Parts /\ begun = 0 /\ Init
  /\ IF part = "limit" THEN R!Init ELSE
       attempts = None /\ lockout = None /\ entries = None /\ current = None /\
       limited = None /\ sweeping = None /\ up = None /\ outages = None /\
       admitted = None /\ raced = None
  /\ IF part = "enrolment" THEN E!Init ELSE
       row = None /\ setup = None /\ code = None /\ tokens = None /\
       enrolling = None /\ shown = None /\ owned = None /\ saved = None
  /\ IF part = "factor" THEN F!Init ELSE
       factor = None /\ app = None /\ temps = None /\ mail = None /\ devices = None /\
       verifying = None /\ issued = None /\ honoured = None /\ skipped = None
  /\ IF part = "passkeys" THEN P!Init ELSE
       keys = None /\ active = None /\ regs = None /\ seconds = None /\
       discover = None /\ allowed = None /\ made = None /\ signed = None /\
       ceremony = None /\ changes = None /\ used = None /\ crossed = None /\
       wrong = None

Lockout == /\ part = "lockout" /\ Next
           /\ UNCHANGED <<part, begun, limitVars, enrolmentVars, factorVars, passkeyVars>>
RateLimit == /\ part = "limit" /\ R!Next
             /\ UNCHANGED <<shared, lockoutVars, enrolmentVars, factorVars, passkeyVars>>
Enrolment == /\ part = "enrolment" /\ E!Next
             /\ UNCHANGED <<part, lockoutVars, limitVars, factorVars, passkeyVars>>
SecondFactor == /\ part = "factor" /\ F!Next
                /\ UNCHANGED <<part, lockoutVars, limitVars, enrolmentVars, passkeyVars>>
Passkeys == /\ part = "passkeys" /\ P!Next
            /\ UNCHANGED <<part, overlap, lockoutVars, limitVars, enrolmentVars, factorVars>>
AllNext == Lockout \/ RateLimit \/ Enrolment \/ SecondFactor \/ Passkeys

AllSpec == AllInit /\ [][AllNext]_allVars

Symmetry == Permutations(Req) \cup Permutations(Entry)

\* Neither store of the rate limiter lets more through than its limit and races
\* (middleware/rate_limit.go:228), and both are well typed.
WindowLimit == part = "limit" => R!TypeOK /\ R!WindowLimit

\* A number or address marked as verified was answered by its owner
\* (twofa/handler.go), in a well-typed state.
VerifiedByOwner == part = "enrolment" => E!TypeOK /\ E!VerifiedByOwner

\* What signs in as a second factor does so once (twofa/service.go:255).
FactorsOnce == part = "factor" => F!FactorsOnce

\* A passkey lets in its owner, once for each challenge (webauthn/service.go:186).
PasskeysOnce == part = "passkeys" => P!PasskeysOnce

\* The stored count of a passkey never goes back, but for overlaps
\* (webauthn/repository.go:69).
CountGrows == [][part = "passkeys" => P!CountKept]_allVars
=============================================================================
