---------------------------- MODULE MCBackground ----------------------------
(***************************************************************************)
(* What goes on in the background, side by side: webhook deliveries, the   *)
(* activity log and its cleanup, the end of the sessions of a group, and   *)
(* the clock of the rate limiter.  A behaviour is one of the module that   *)
(* part names, with the others at rest; they share no state but the        *)
(* database that fails.  Init, Next and Spec without a prefix are those of *)
(* ActivityLog.                                                            *)
(***************************************************************************)
EXTENDS ActivityLog

CONSTANTS
  Message, Endpoint, MaxAttempts, PollLimit, MaxDeliveries, MaxToggles, MaxErrors,
  MaxCrashes,
  LogRow, Forcer, Cleaner, CleanupBatchSize, MaxRuns,
  App, Account, Req, Token, Detectors, MaxSessions, MaxRequests, MaxEvents, None,
  Window, LockoutThreshold, LockoutDuration, Grace, MaxOutages

VARIABLES
  part, errors,
  endpoints, log, retrier, sent, toggles, crashes,
  rows, isRunning, totalCleaned, run, cleanupShutdown, overlap,
  group, members, app, live, meta, refreshed, tokens, work, queue, seen, found, made,
  served, edits, restarts, honoured, fate, due, heeded,
  attempts, lockout, entries, current, limited, sweeping, up, outages, admitted, raced

W == INSTANCE Webhooks WITH Event <- Message, worker <- retrier
C == INSTANCE LogCleanup WITH Worker <- Cleaner, shutdown <- cleanupShutdown
G == INSTANCE SessionGroups
R == INSTANCE RateLimit WITH req <- limited

ASSUME BackgroundAssumption ==
  /\ W!WebhooksAssumption /\ ActivityLogAssumption /\ C!LogCleanupAssumption
  /\ G!SessionGroupsAssumption

webhookVars == <<endpoints, log, retrier, sent, toggles, crashes>>
cleanupVars == <<rows, isRunning, totalCleaned, run, cleanupShutdown, overlap>>
groupVars ==
  <<group, members, app, live, meta, refreshed, tokens, work, queue, seen, found, made,
    served, edits, restarts, honoured, fate, due, heeded>>
limitVars == <<attempts, lockout, entries, current, limited, sweeping, up, outages,
               admitted, raced>>

Parts == {"webhooks", "log", "cleanup", "groups", "limit"}
AllInit ==
  /\ part \in Parts
  /\ W!Init /\ Init /\ C!Init /\ G!Init /\ R!Init

Webhooks == /\ part = "webhooks" /\ W!Next
            /\ UNCHANGED <<part, vars, cleanupVars, groupVars, limitVars>>
ActivityLog == /\ part = "log" /\ Next
               /\ UNCHANGED <<part, errors, webhookVars, cleanupVars, groupVars,
                              limitVars>>
LogCleanup == /\ part = "cleanup" /\ C!Next
              /\ UNCHANGED <<part, webhookVars, vars, groupVars, limitVars>>
SessionGroups == /\ part = "groups" /\ G!Next
                 /\ UNCHANGED <<part, webhookVars, vars, cleanupVars, limitVars>>
RateLimit == /\ part = "limit" /\ R!Next
             /\ UNCHANGED <<part, errors, webhookVars, vars, cleanupVars, groupVars>>
AllNext == Webhooks \/ ActivityLog \/ LogCleanup \/ SessionGroups \/ RateLimit

\* The fairness the modules state, or less: where one of many goroutines moves on
\* the others do too, as none of them can do so for ever.
webhooks == <<webhookVars, errors>>
cleanup == <<cleanupVars, errors>>
Fairness ==
  /\ WF_webhooks(part = "webhooks" /\ \E i \in DOMAIN log : W!Answer(i) \/ W!Store(i))
  /\ WF_webhooks(part = "webhooks" /\ \E i \in DOMAIN log : W!ComeDue(i))
  /\ WF_webhooks(part = "webhooks" /\ W!Poll)
  /\ WF_vars(part = "log" /\ (WorkerReceive \/ Process("worker")))
  /\ WF_cleanup(part = "cleanup" /\ \E r \in Forcer \cup {Cleaner} : C!Proceed(r))
  /\ WF_groupVars(part = "groups" /\ \E w \in Req \cup Detectors : G!Expiry(w))
  /\ WF_groupVars(part = "groups" /\ G!ListenForKeyExpirations)
  /\ WF_groupVars(part = "groups" /\ G!Scan)
  /\ WF_limitVars(part = "limit" /\ R!Tick)

AllSpec ==
  /\ AllInit
  /\ [][AllNext]_<<part, errors, webhookVars, vars, cleanupVars, groupVars, limitVars>>
  /\ Fairness

\* The attempts for an event come one after another until one is accepted
\* (webhook/service.go:311-326).
AttemptsSound == part = "webhooks" => W!AttemptsSound

\* An event is accepted or refused MaxAttempts times, and its attempts come to an
\* end (webhook/service.go:253).
DeliveriesEnd == W!DeliveriesEnd

\* A cleanup comes to an end, and Shutdown waits for it (log/cleanup.go:97, 230).
CleanupsFinish == C!CleanupsFinish

\* A logout or an expiry in a group ends the sessions in the peers
\* (user/service.go:413, sessiongroup/expiry.go:151).
GroupLogoutCompletes == G!GroupLogoutCompletes

\* A client that Redis rejects is let in again (rate_limit.go:228-236).
LetInAgain == R!LetInAgain
=============================================================================
