-------------------------------- MODULE Fleet --------------------------------
(***************************************************************************)
(* The telemetry of one vehicle and the maintenance alerts it raises:      *)
(* internal/handler, internal/service and internal/repository of fleet-api.*)
(*                                                                         *)
(* The vehicle takes readings of its odometer; a reading is delivered      *)
(* late, twice, out of order or not at all, with the time it was taken or  *)
(* without one.  Distances are counted so that StepKm of them are 5000 km. *)
(***************************************************************************)
EXTENDS Naturals, FiniteSets

CONSTANTS
  StepKm,        \* 5000 km
  MaxKm,         \* bound: where the odometer stops
  Req,           \* slots for requests being served at the same time
  MaxTime,       \* bound: readings taken and samples received
  MaxErrors,     \* bound: statements and posts that fail
  None           \* no sample

\* What the code lets the constants be.
FleetAssumption ==
  /\ StepKm \in Nat \ {0} /\ MaxKm \in Nat /\ None \notin Nat
  /\ MaxTime \in Nat /\ MaxErrors \in Nat

VARIABLES
  vehicle,    \* the row of vehicles is there
  now,        \* the time, which advances with readings and samples
  odometer,   \* the vehicle's odometer
  readings,   \* readings it took: the time and the distance
  telemetry,  \* rows of telemetry: the time and the distance
  req,        \* the state of every request slot
  errors,     \* statements and posts that have failed so far
  alerts,     \* alerts posted: how many for every step of 5000 km
  lost,       \* history: the post of an alert, or the request before it, failed
  overlap     \* history: samples overlapped, or one was older than another

history == <<alerts, lost, overlap>>
vars == <<vehicle, now, odometer, readings, telemetry, req, errors, history>>

Km == 1 .. MaxKm
Time == 1 .. MaxTime
Sample == [time : Time, km : Km]
Step(km) == km \div StepKm
Request == [pc : {"idle", "last", "create", "alert"}, sample : Sample \cup {None},
            last : Sample \cup {None}]
Idle == [pc |-> "idle", sample |-> None, last |-> None]

Init ==
  /\ vehicle = FALSE /\ now = 0 /\ odometer = 0 /\ readings = {} /\ telemetry = {}
  /\ req = [r \in Req |-> Idle] /\ errors = 0
  /\ alerts = [s \in 0 .. Step(MaxKm) |-> 0] /\ lost = FALSE /\ overlap = FALSE

At(r, step) == req[r].pc = step
Goto(r, step) == req' = [req EXCEPT ![r].pc = step]
Finish(r) == req' = [req EXCEPT ![r] = Idle]

-----------------------------------------------------------------------------
CreateVehicle ==
  /\ ~vehicle /\ vehicle' = TRUE
  /\ UNCHANGED <<now, odometer, readings, telemetry, req, errors, history>>

\* The vehicle moves on and reads its odometer.
Drive(km) ==
  /\ vehicle /\ km > odometer /\ now < MaxTime /\ now' = now + 1
  /\ odometer' = km /\ readings' = readings \cup {[time |-> now', km |-> km]}
  /\ UNCHANGED <<vehicle, telemetry, req, errors, history>>

\* A sample arrives with the time of its reading, or gets the time of its arrival.
RecordTelemetry(r, reading, stamped) ==
  /\ vehicle /\ At(r, "idle") /\ now < MaxTime /\ reading \in readings
  /\ now' = now + 1
  /\ LET sample == IF stamped THEN reading ELSE [reading EXCEPT !.time = now'] IN
       /\ req' = [req EXCEPT ![r] = [pc |-> "last", sample |-> sample, last |-> None]]
       /\ overlap' = (overlap \/ \E q \in Req : ~At(q, "idle")
                        \/ \E t \in telemetry : t.km > sample.km \/ t.time > sample.time)
  /\ UNCHANGED <<vehicle, odometer, readings, telemetry, errors, alerts, lost>>

LastForVehicle(r) ==
  /\ At(r, "last")
  /\ \E last \in telemetry \cup {None} :
       /\ last = None => telemetry = {}
       /\ \A t \in telemetry : t.time <= last.time
       /\ req' = [req EXCEPT ![r].pc = "create", ![r].last = last]
  /\ UNCHANGED <<vehicle, now, odometer, readings, telemetry, errors, history>>

\* Mutants of ShouldTriggerMaintenance: the last reading's step triggers again;
\* the step is compared with the one before it.
TriggerAgain(last, km) ==
  km >= StepKm /\ Step(km) >= Step(IF last = None THEN 0 ELSE last.km)
TriggerAtExactStep(last, km) ==
  km >= StepKm /\ km % StepKm = 0 /\ Step(km) > Step(IF last = None THEN 0 ELSE last.km)

ShouldTriggerMaintenance(last, km) ==
  km >= StepKm /\ Step(km) > Step(IF last = None THEN 0 ELSE last.km)

Create(r) ==
  /\ At(r, "create")
  /\ telemetry' = telemetry \cup {req[r].sample}
  /\ IF ShouldTriggerMaintenance(req[r].last, req[r].sample.km)
       THEN Goto(r, "alert") ELSE Finish(r)
  /\ UNCHANGED <<vehicle, now, odometer, readings, errors, history>>

TriggerMaintenanceAlert(r) ==
  /\ At(r, "alert")
  /\ alerts' = [alerts EXCEPT ![Step(req[r].sample.km)] = @ + 1]
  /\ Finish(r)
  /\ UNCHANGED <<vehicle, now, odometer, readings, telemetry, errors, lost, overlap>>

\* A statement or the post fails, or the process crashes: the client is told.
Fail(r) ==
  /\ ~At(r, "idle") /\ errors < MaxErrors /\ errors' = errors + 1
  /\ Finish(r) /\ lost' = (lost \/ At(r, "alert"))
  /\ UNCHANGED <<vehicle, now, odometer, readings, telemetry, alerts, overlap>>

Next ==
  \/ CreateVehicle \/ \E km \in Km : Drive(km)
  \/ \E r \in Req :
       \/ \E reading \in readings, stamped \in BOOLEAN : RecordTelemetry(r, reading, stamped)
       \/ LastForVehicle(r) \/ Create(r) \/ TriggerMaintenanceAlert(r) \/ Fail(r)

Spec == Init /\ [][Next]_vars

-----------------------------------------------------------------------------
(* Properties                                                              *)

\* Rows, requests and counters keep to the values the code gives them.
TypeOK ==
  /\ vehicle \in BOOLEAN /\ now \in 0 .. MaxTime /\ odometer \in 0 .. MaxKm
  /\ readings \subseteq Sample /\ telemetry \subseteq Sample
  /\ req \in [Req -> Request] /\ errors \in 0 .. MaxErrors
  /\ DOMAIN alerts = 0 .. Step(MaxKm) /\ \A s \in DOMAIN alerts : alerts[s] \in 0 .. MaxTime

\* Samples that are served one at a time, in the order of their times and of their
\* distances, raise one alert for each step of 5000 km, whatever is delivered
\* again or without its time (internal/service/telemetry_service.go:77).
AlertedOnce == ~overlap => \A s \in DOMAIN alerts : alerts[s] <= 1

\* The highest step a stored sample has reached has been alerted, or is about to
\* be, unless the post of an alert failed: samples that overlap, that are late or
\* that are repeated never hide it, although each of them is compared with only
\* the last row (internal/service/telemetry_service.go:57).
HighestAlerted ==
  \A t \in telemetry :
    \/ lost \/ Step(t.km) = 0
    \/ \E u \in telemetry : Step(u.km) > Step(t.km)
    \/ alerts[Step(t.km)] > 0
    \/ \E r \in Req : At(r, "alert") /\ Step(req[r].sample.km) = Step(t.km)

\* Every step is alerted, and once (internal/service/telemetry_service.go:57, 77).
AlertsMatch == TypeOK /\ AlertedOnce /\ HighestAlerted
=============================================================================
