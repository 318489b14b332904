---------------------------- MODULE ActivityLog -----------------------------
(***************************************************************************)
(* The activity log's queue: internal/log/service.go.                      *)
(*                                                                         *)
(* Handlers put entries into a bounded channel and never wait; one worker  *)
(* takes them out and writes them to the database, with retries.  Shutdown *)
(* cancels the worker and drains the channel itself, so that for a while   *)
(* the channel has two readers, each with an entry of its own in hand.     *)
(***************************************************************************)
EXTENDS Integers, Sequences, FiniteSets

CONSTANTS
  Entry,       \* entries that pass the filters of LogActivity, once each
  Capacity,    \* of the channel, 1000 in the code
  MaxRetries,  \* attempts to write an entry, 3 in the code
  MaxFailures, \* bound: writes that fail
  NoEntry      \* nothing in hand

\* What the code lets the constants be.
ActivityLogAssumption ==
  /\ NoEntry \notin Entry
  /\ Capacity \in Nat \ {0} /\ MaxRetries \in Nat \ {0} /\ MaxFailures \in Nat

VARIABLES
  channel,   \* logChannel
  hand,      \* the entry each reader is processing
  worker,    \* whether the worker goroutine still runs
  shutdown,  \* where the call of Shutdown is
  emitted,   \* entries in the order LogActivity was called
  stored,    \* rows in the order they were written
  dropped,   \* entries that found the channel full
  lost,      \* entries given up after MaxRetries attempts
  promised,  \* history: entries emitted before Shutdown was called
  failures

vars == <<channel, hand, worker, shutdown, emitted, stored, dropped, lost,
          promised, failures>>

Reader == {"worker", "shutdown"}
EmptyHand == [entry |-> NoEntry, attempt |-> 1]
SetOf(s) == {s[i] : i \in DOMAIN s}

Init ==
  /\ channel = <<>>
  /\ hand = [r \in Reader |-> EmptyHand]
  /\ worker = "running" /\ shutdown = "not_called"
  /\ emitted = <<>> /\ stored = <<>> /\ dropped = {} /\ lost = {}
  /\ promised = {} /\ failures = 0

-----------------------------------------------------------------------------
\* Mutant of LogActivity: a full channel loses its oldest entry.
LogActivityDropsOldest(e) ==
  /\ e \notin SetOf(emitted)
  /\ emitted' = Append(emitted, e)
  /\ IF Len(channel) < Capacity
       THEN channel' = Append(channel, e)
       ELSE channel' = Append(Tail(channel), e)
  /\ UNCHANGED <<hand, worker, shutdown, stored, dropped, lost, promised, failures>>

\* Mutant of LogActivity: off by one.
LogActivityTooEarly(e) ==
  /\ e \notin SetOf(emitted)
  /\ emitted' = Append(emitted, e)
  /\ IF Len(channel) + 1 < Capacity
       THEN channel' = Append(channel, e) /\ dropped' = dropped
       ELSE channel' = channel /\ dropped' = dropped \cup {e}
  /\ UNCHANGED <<hand, worker, shutdown, stored, lost, promised, failures>>

\* A send that would block drops the entry instead.
LogActivity(e) ==
  /\ e \notin SetOf(emitted)
  /\ emitted' = Append(emitted, e)
  /\ IF Len(channel) < Capacity
       THEN channel' = Append(channel, e) /\ dropped' = dropped
       ELSE channel' = channel /\ dropped' = dropped \cup {e}
  /\ UNCHANGED <<hand, worker, shutdown, stored, lost, promised, failures>>

Receive(r) ==
  /\ hand[r] = EmptyHand /\ channel # <<>>
  /\ hand' = [hand EXCEPT ![r].entry = Head(channel)]
  /\ channel' = Tail(channel)

\* Both cases of the worker's select may be ready; it then picks either.
WorkerReceive ==
  /\ worker = "running"
  /\ Receive("worker")
  /\ UNCHANGED <<worker, shutdown, emitted, stored, dropped, lost, promised, failures>>

WorkerDone ==
  /\ worker = "running" /\ hand["worker"] = EmptyHand
  /\ shutdown # "not_called"
  /\ worker' = "done"
  /\ UNCHANGED <<channel, hand, shutdown, emitted, stored, dropped, lost, promised,
                 failures>>

\* processLogEntry: the INSERT succeeds.
Create(r) ==
  /\ hand[r].entry # NoEntry
  /\ stored' = Append(stored, hand[r].entry)
  /\ hand' = [hand EXCEPT ![r] = EmptyHand]
  /\ UNCHANGED <<channel, worker, shutdown, emitted, dropped, lost, promised, failures>>

\* Mutant of CreateFails: the entry goes back to the channel, if there is room.
CreateFailsRequeues(r) ==
  /\ hand[r].entry # NoEntry /\ failures < MaxFailures
  /\ failures' = failures + 1
  /\ Len(channel) < Capacity
  /\ channel' = Append(channel, hand[r].entry)
  /\ hand' = [hand EXCEPT ![r] = EmptyHand]
  /\ UNCHANGED <<worker, shutdown, emitted, stored, dropped, lost, promised>>

\* Mutant of CreateFails: one attempt too many.
CreateFailsOnceMore(r) ==
  /\ hand[r].entry # NoEntry /\ failures < MaxFailures
  /\ failures' = failures + 1
  /\ IF hand[r].attempt <= MaxRetries
       THEN /\ hand' = [hand EXCEPT ![r].attempt = @ + 1]
            /\ lost' = lost
       ELSE /\ hand' = [hand EXCEPT ![r] = EmptyHand]
            /\ lost' = lost \cup {hand[r].entry}
  /\ UNCHANGED <<channel, worker, shutdown, emitted, stored, dropped, promised>>

\* It fails: the reader sleeps and tries again, MaxRetries times in all.
CreateFails(r) ==
  /\ hand[r].entry # NoEntry /\ failures < MaxFailures
  /\ failures' = failures + 1
  /\ IF hand[r].attempt < MaxRetries
       THEN /\ hand' = [hand EXCEPT ![r].attempt = @ + 1]
            /\ lost' = lost
       ELSE /\ hand' = [hand EXCEPT ![r] = EmptyHand]
            /\ lost' = lost \cup {hand[r].entry}
  /\ UNCHANGED <<channel, worker, shutdown, emitted, stored, dropped, promised>>

Shutdown ==
  /\ shutdown = "not_called"
  /\ shutdown' = "draining"
  /\ promised' = SetOf(emitted)
  /\ UNCHANGED <<channel, hand, worker, emitted, stored, dropped, lost, failures>>

ShutdownReceive ==
  /\ shutdown = "draining"
  /\ Receive("shutdown")
  /\ UNCHANGED <<worker, shutdown, emitted, stored, dropped, lost, promised, failures>>

\* Mutant of ShutdownComplete: select picks the default case at any time.
ShutdownCompleteEarly ==
  /\ shutdown = "draining" /\ hand["shutdown"] = EmptyHand
  /\ shutdown' = "complete"
  /\ UNCHANGED <<channel, hand, worker, emitted, stored, dropped, lost, promised,
                 failures>>

\* The default case: the channel is empty.
ShutdownComplete ==
  /\ shutdown = "draining" /\ hand["shutdown"] = EmptyHand
  /\ channel = <<>>
  /\ shutdown' = "complete"
  /\ UNCHANGED <<channel, hand, worker, emitted, stored, dropped, lost, promised,
                 failures>>

ShutdownTimeout ==
  /\ shutdown = "draining" /\ hand["shutdown"] = EmptyHand
  /\ shutdown' = "timed_out"
  /\ UNCHANGED <<channel, hand, worker, emitted, stored, dropped, lost, promised,
                 failures>>

-----------------------------------------------------------------------------
Process(r) == Create(r) \/ CreateFails(r)

Next ==
  \/ \E e \in Entry : LogActivity(e)
  \/ WorkerReceive \/ WorkerDone
  \/ \E r \in Reader : Process(r)
  \/ Shutdown \/ ShutdownReceive \/ ShutdownComplete \/ ShutdownTimeout

Spec == Init /\ [][Next]_vars

\* Goroutines are scheduled and the database answers.
FairSpec ==
  /\ Spec
  /\ WF_vars(WorkerReceive)
  /\ WF_vars(Process("worker"))

-----------------------------------------------------------------------------
(* Properties                                                              *)

InHand == {hand[r].entry : r \in Reader} \ {NoEntry}

TypeOK ==
  /\ channel \in Seq(Entry) /\ Len(channel) <= Capacity
  /\ hand \in [Reader -> [entry : Entry \cup {NoEntry}, attempt : 1 .. MaxRetries]]
  /\ worker \in {"running", "done"}
  /\ shutdown \in {"not_called", "draining", "complete", "timed_out"}
  /\ emitted \in Seq(Entry) /\ stored \in Seq(Entry)
  /\ dropped \subseteq Entry /\ lost \subseteq Entry /\ promised \subseteq Entry
  /\ failures \in 0 .. MaxFailures

\* No entry vanishes and none is written twice, whichever of the two readers
\* gets it: an emitted entry is queued, in one hand, stored, dropped on a full
\* channel or given up, and exactly one of these.
EachEntryOnce ==
  /\ SetOf(emitted) = SetOf(channel) \cup InHand \cup SetOf(stored) \cup dropped \cup lost
  /\ Len(emitted) = Len(channel) + Cardinality({r \in Reader : hand[r].entry # NoEntry})
                      + Len(stored) + Cardinality(dropped) + Cardinality(lost)

\* a is logged before b.
Before(a, b) ==
  \E i, j \in DOMAIN emitted : i < j /\ emitted[i] = a /\ emitted[j] = b

\* Until Shutdown adds a second reader, rows are written in the order in which
\* the activities were logged, retries included.
StoredInOrder ==
  shutdown = "not_called" =>
    \A i, j \in DOMAIN stored : i < j => Before(stored[i], stored[j])

\* An entry is dropped only when Capacity entries logged before it had not
\* been settled yet, so a database that keeps up loses nothing.
DroppedUnderPressure ==
  [][\A e \in dropped' \ dropped :
       Capacity <= Cardinality({x \in SetOf(emitted) :
                      x \notin SetOf(stored) \cup dropped \cup lost})]_vars

\* In the end every entry is written, given up or dropped, unless Shutdown is called.
QueuedIsProcessed ==
  <>[](\/ SetOf(emitted) \subseteq SetOf(stored) \cup lost \cup dropped
       \/ shutdown # "not_called")

\* service.go:364: Shutdown processes the remaining entries.  When it reports
\* that it is complete, all that was logged before it was called is settled or
\* in the hand of the worker, for which Shutdown does not wait.
ShutdownDrains ==
  shutdown = "complete" =>
    promised \subseteq SetOf(stored) \cup dropped \cup lost \cup {hand["worker"].entry}

\* No entry vanishes, is written twice or overtakes another, up to a complete Shutdown
\* (service.go:122-339, 364).
EntriesKept == TypeOK /\ EachEntryOnce /\ StoredInOrder /\ ShutdownDrains

\* Entries are dropped only when the backlog is full, and what is queued is processed
\* (service.go:196-205, 215).
QueueServed == DroppedUnderPressure /\ QueuedIsProcessed
=============================================================================
