------------------------------ MODULE Webhooks ------------------------------
(***************************************************************************)
(* Webhook deliveries of one event type of one application:                *)
(* internal/webhook, service.go and repository.go.                         *)
(*                                                                         *)
(* Every attempt runs in a goroutine of its own: it posts the event, and   *)
(* then stores one row that says how it went and when to try again.  One   *)
(* worker polls the rows that are due and starts the next attempts.        *)
(*                                                                         *)
(* The rows live in the database; attempts and the worker die with the     *)
(* process.  Back-off times are abstracted: a scheduled row becomes due at *)
(* some later instant.                                                     *)
(***************************************************************************)
EXTENDS Integers, Sequences, FiniteSets

CONSTANTS
  Event,          \* events to dispatch
  Endpoint,       \* identifiers of registered endpoints
  MaxAttempts,    \* maxAttempts, 5 in the code
  PollLimit,      \* rows fetched by one poll, 100 in the code
  MaxDeliveries,  \* bound: attempts made in all
  MaxToggles,     \* bound: times endpoints are enabled or disabled
  MaxErrors,      \* bound: database statements that fail
  MaxCrashes      \* bound: times the process dies and starts again

\* What the code lets the constants be.
WebhooksAssumption ==
  /\ MaxAttempts \in Nat \ {0} /\ PollLimit \in Nat \ {0}
  /\ MaxDeliveries \in Nat /\ MaxToggles \in Nat
  /\ MaxErrors \in Nat /\ MaxCrashes \in Nat

VARIABLES
  endpoints,  \* webhook_endpoints
  log,        \* the attempts, in the order they were started
  worker,     \* the retry worker
  sent,       \* events dispatched
  toggles, errors, crashes

vars == <<endpoints, log, worker, sent, toggles, errors, crashes>>

\* An attempt is posting, then has an answer, then is a row of
\* webhook_deliveries; it is lost when it never becomes one.
Attempt ==
  [ state   : {"posting", "answered", "stored", "lost"},
    event   : Event,
    ep      : Endpoint,
    attempt : 1 .. MaxAttempts,
    success : BOOLEAN,
    retry   : {"never", "later", "due"} ]

\* The rows still to look at, and what was decided for the first of them.
Worker == [todo : Seq(1 .. MaxDeliveries), verdict : {"none", "retry", "drop"}]
Idle == [todo |-> <<>>, verdict |-> "none"]

Init ==
  /\ endpoints = [ep \in Endpoint |-> "none"]
  /\ log = <<>>
  /\ worker = Idle
  /\ sent = {}
  /\ toggles = 0 /\ errors = 0 /\ crashes = 0

-----------------------------------------------------------------------------
(* The endpoint registry                                                   *)

Registered == {ep \in Endpoint : endpoints[ep] \in {"active", "disabled"}}
Active == {ep \in Endpoint : endpoints[ep] = "active"}

\* A partial unique index allows one endpoint per event that is not deleted.
RegisterEndpoint(ep) ==
  /\ endpoints[ep] = "none" /\ Registered = {}
  /\ endpoints' = [endpoints EXCEPT ![ep] = "active"]
  /\ UNCHANGED <<log, worker, sent, toggles, errors, crashes>>

SetEndpointActive(ep, isActive) ==
  /\ ep \in Registered /\ toggles < MaxToggles
  /\ toggles' = toggles + 1
  /\ endpoints' = [endpoints EXCEPT ![ep] = IF isActive THEN "active" ELSE "disabled"]
  /\ UNCHANGED <<log, worker, sent, errors, crashes>>

DeleteEndpoint(ep) ==
  /\ ep \in Registered /\ toggles < MaxToggles
  /\ toggles' = toggles + 1
  /\ endpoints' = [endpoints EXCEPT ![ep] = "deleted"]
  /\ UNCHANGED <<log, worker, sent, errors, crashes>>

\* The routes of the administrators, of the application, and the console.
AdminCreateEndpoint(ep) == RegisterEndpoint(ep)
AdminDeleteEndpoint(ep) == DeleteEndpoint(ep)
AppCreateEndpoint(ep) == RegisterEndpoint(ep)
AppToggleEndpoint(ep) == \E isActive \in BOOLEAN : SetEndpointActive(ep, isActive)
AppDeleteEndpoint(ep) == DeleteEndpoint(ep)
WebhookCreate(ep) == RegisterEndpoint(ep)
WebhookToggle(ep) == \E isActive \in BOOLEAN : SetEndpointActive(ep, isActive)
WebhookDelete(ep) == DeleteEndpoint(ep)

-----------------------------------------------------------------------------
(* Dispatch and delivery                                                   *)

Started(e, ep, n) ==
  [state |-> "posting", event |-> e, ep |-> ep, attempt |-> n,
   success |-> FALSE, retry |-> "never"]

\* No active endpoint: the event is not delivered to anyone.
Dispatch(e) ==
  /\ e \notin sent /\ Len(log) < MaxDeliveries
  /\ sent' = sent \cup {e}
  /\ IF Active = {} THEN log' = log
                    ELSE \E ep \in Active : log' = Append(log, Started(e, ep, 1))
  /\ UNCHANGED <<endpoints, worker, toggles, errors, crashes>>

DispatchFails(e) ==
  /\ e \notin sent /\ errors < MaxErrors
  /\ sent' = sent \cup {e}
  /\ errors' = errors + 1
  /\ UNCHANGED <<endpoints, log, worker, toggles, crashes>>

\* The POST ends: with a 2xx status, or with another one, an error or a timeout.
Post(i, success) ==
  /\ log[i].state = "posting"
  /\ log' = [log EXCEPT ![i].state = "answered", ![i].success = success]
  /\ UNCHANGED <<endpoints, worker, sent, toggles, errors, crashes>>

\* Mutant of RetryFor: a successful attempt is scheduled again.
RetryAlways(a) == IF a.attempt < MaxAttempts THEN "later" ELSE "never"
\* Mutants of RetryFor: off by one, in both directions.
RetryTooOften(a) ==
  IF ~a.success /\ a.attempt <= MaxAttempts THEN "later" ELSE "never"
RetryTooRarely(a) ==
  IF ~a.success /\ a.attempt + 1 < MaxAttempts THEN "later" ELSE "never"

RetryFor(a) ==
  IF ~a.success /\ a.attempt < MaxAttempts THEN "later" ELSE "never"

CreateDelivery(i) ==
  /\ log[i].state = "answered"
  /\ log' = [log EXCEPT ![i].state = "stored", ![i].retry = RetryFor(log[i])]
  /\ UNCHANGED <<endpoints, worker, sent, toggles, errors, crashes>>

\* The error is logged and the attempt is forgotten, its retry with it.
CreateDeliveryFails(i) ==
  /\ log[i].state = "answered" /\ errors < MaxErrors
  /\ errors' = errors + 1
  /\ log' = [log EXCEPT ![i].state = "lost"]
  /\ UNCHANGED <<endpoints, worker, sent, toggles, crashes>>

-----------------------------------------------------------------------------
(* The retry worker                                                        *)

\* next_retry_at is reached.
ComeDue(i) ==
  /\ log[i].state = "stored" /\ log[i].retry = "later"
  /\ log' = [log EXCEPT ![i].retry = "due"]
  /\ UNCHANGED <<endpoints, worker, sent, toggles, errors, crashes>>

Due == {i \in DOMAIN log : log[i].retry = "due"}

\* The batch: rows that are due, in some order, PollLimit of them at most.
Batches ==
  LET n == IF Cardinality(Due) < PollLimit THEN Cardinality(Due) ELSE PollLimit
  IN  {b \in [1 .. n -> Due] : \A j, k \in 1 .. n : b[j] = b[k] => j = k}

GetPendingRetries ==
  /\ worker.todo = <<>> /\ Due # {}
  /\ \E b \in Batches : worker' = [worker EXCEPT !.todo = b]
  /\ UNCHANGED <<endpoints, log, sent, toggles, errors, crashes>>

\* A row whose endpoint cannot be read is dropped like one whose endpoint is
\* gone or disabled.
GetEndpointByID ==
  /\ worker.todo # <<>> /\ worker.verdict = "none"
  /\ \/ /\ worker' = [worker EXCEPT !.verdict =
                        IF log[Head(worker.todo)].ep \in Active THEN "retry" ELSE "drop"]
        /\ UNCHANGED errors
     \/ /\ errors < MaxErrors
        /\ errors' = errors + 1
        /\ worker' = [worker EXCEPT !.verdict = "drop"]
  /\ UNCHANGED <<endpoints, log, sent, toggles, crashes>>

\* The next attempt starts, unless the row is dropped.
Continue(rows) ==
  LET a == log[Head(worker.todo)] IN
  /\ worker.verdict = "retry" => Len(log) < MaxDeliveries
  /\ log' = IF worker.verdict = "retry"
              THEN Append(rows, Started(a.event, a.ep, a.attempt + 1)) ELSE rows
  /\ worker' = [todo |-> Tail(worker.todo), verdict |-> "none"]

\* Mutant of ClearRetrySchedule: the schedule is left in place.
ClearNothing ==
  /\ worker.verdict # "none"
  /\ Continue(log)
  /\ UNCHANGED <<endpoints, sent, toggles, errors, crashes>>

ClearRetrySchedule ==
  /\ worker.verdict # "none"
  /\ Continue([log EXCEPT ![Head(worker.todo)].retry = "never"])
  /\ UNCHANGED <<endpoints, sent, toggles, errors, crashes>>

\* The error is logged and the worker goes on all the same.
ClearRetryScheduleFails ==
  /\ worker.verdict # "none" /\ errors < MaxErrors
  /\ errors' = errors + 1
  /\ Continue(log)
  /\ UNCHANGED <<endpoints, sent, toggles, crashes>>

\* The process dies and starts again; no handler of main waits for attempts.
Crash ==
  /\ crashes < MaxCrashes
  /\ crashes' = crashes + 1
  /\ log' = [i \in DOMAIN log |->
               IF log[i].state = "stored" THEN log[i]
                                          ELSE [log[i] EXCEPT !.state = "lost"]]
  /\ worker' = Idle
  /\ UNCHANGED <<endpoints, sent, toggles, errors>>

-----------------------------------------------------------------------------
Registry ==
  \E ep \in Endpoint :
    \/ AdminCreateEndpoint(ep) \/ AppCreateEndpoint(ep) \/ WebhookCreate(ep)
    \/ AdminDeleteEndpoint(ep) \/ AppDeleteEndpoint(ep) \/ WebhookDelete(ep)
    \/ AppToggleEndpoint(ep) \/ WebhookToggle(ep)

Answer(i) == \E success \in BOOLEAN : Post(i, success)
Store(i) == CreateDelivery(i) \/ CreateDeliveryFails(i)
Clear == ClearRetrySchedule \/ ClearRetryScheduleFails
Poll == GetPendingRetries \/ GetEndpointByID \/ Clear

Next ==
  \/ Registry
  \/ \E e \in Event : Dispatch(e) \/ DispatchFails(e)
  \/ \E i \in DOMAIN log : Answer(i) \/ Store(i) \/ ComeDue(i)
  \/ Poll
  \/ Crash

Spec == Init /\ [][Next]_vars

\* The HTTP client gives up after deliveryTimeout, goroutines are scheduled,
\* time passes and the ticker ticks.
Fairness ==
  /\ \A i \in 1 .. MaxDeliveries :
       /\ WF_vars(i \in DOMAIN log /\ Answer(i))
       /\ WF_vars(i \in DOMAIN log /\ Store(i))
       /\ WF_vars(i \in DOMAIN log /\ ComeDue(i))
  /\ WF_vars(Poll)

FairSpec == Spec /\ Fairness

-----------------------------------------------------------------------------
(* Properties                                                              *)

TypeOK ==
  /\ endpoints \in [Endpoint -> {"none", "active", "disabled", "deleted"}]
  /\ log \in Seq(Attempt) /\ Len(log) <= MaxDeliveries
  /\ worker \in Worker
  /\ sent \subseteq Event
  /\ toggles \in 0 .. MaxToggles
  /\ errors \in 0 .. MaxErrors
  /\ crashes \in 0 .. MaxCrashes

Unanswered(i) == log[i].state \in {"posting", "answered"}
Scheduled(i) == log[i].state = "stored" /\ log[i].retry # "never"
Pending(e) == {i \in DOMAIN log : log[i].event = e /\ (Unanswered(i) \/ Scheduled(i))}

\* Retries replace each other: an event has one attempt under way or
\* scheduled, and one more for each database statement that failed, because
\* processRetries goes on when it could not clear a schedule.
OneAttemptAtATime == \A e \in Event : Cardinality(Pending(e)) <= 1 + errors

\* Once the receiver has accepted an event it is not sent it again, unless a
\* database statement failed.
AcceptedOnce ==
  \A i, j \in DOMAIN log :
    /\ log[i].event = log[j].event /\ i # j
    /\ log[i].success
    => j \notin Pending(log[j].event) \/ errors > 0

\* An attempt follows a stored failure of the attempt before it, whose
\* schedule has been used up: no attempt number is skipped or repeated.
AttemptsInOrder ==
  \A j \in DOMAIN log :
    log[j].attempt > 1 =>
      \E i \in 1 .. j - 1 :
        /\ log[i].event = log[j].event
        /\ log[i].attempt = log[j].attempt - 1
        /\ log[i].state = "stored" /\ ~log[i].success
        /\ log[i].retry = "never" \/ errors > 0

Accepted(e) == \E i \in DOMAIN log : log[i].event = e /\ log[i].success
Exhausted(e) ==
  \E i \in DOMAIN log : /\ log[i].event = e /\ log[i].state = "stored"
                        /\ log[i].attempt = MaxAttempts
Undisturbed == toggles = 0 /\ errors = 0 /\ crashes = 0

\* While the database and the process work and the endpoint stays active,
\* every event that was dispatched to an endpoint is accepted in the end, or
\* has been refused MaxAttempts times.
Settles ==
  []Undisturbed =>
    \A e \in Event : Pending(e) # {} ~> Accepted(e) \/ Exhausted(e)

\* Whatever fails, the attempts for an event come to an end.
RetriesEnd == <>[](\A e \in Event : Pending(e) = {})

\* The attempts for an event come one after another until one is accepted
\* (service.go:253, 311-326).
AttemptsSound == TypeOK /\ OneAttemptAtATime /\ AcceptedOnce /\ AttemptsInOrder

\* An event is accepted or refused MaxAttempts times, and its attempts come to an end
\* (service.go:253, 311).
DeliveriesEnd == Settles /\ RetriesEnd
=============================================================================
