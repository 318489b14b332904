----------------------------- MODULE LogCleanup -----------------------------
(***************************************************************************)
(* The cleanup of expired activity logs: internal/log/cleanup.go.          *)
(*                                                                         *)
(* The worker goroutine and callers of ForceCleanup run the same cleanup.  *)
(* They share isRunning and totalCleaned without a lock, so every read and *)
(* every write of them is a step of its own.  The program has no caller of *)
(* ForceCleanup yet: Forcer = {} is the program as it is.                  *)
(***************************************************************************)
EXTENDS Integers, FiniteSets

CONSTANTS
  LogRow,       \* rows of activity_logs
  Forcer,       \* goroutines that call ForceCleanup
  Worker,       \* the worker goroutine
  CleanupBatchSize,
  MaxRuns,      \* bound: cleanups that each goroutine starts
  MaxErrors     \* bound: DELETE statements that fail

\* What the code lets the constants be.
LogCleanupAssumption ==
  /\ Worker \notin Forcer /\ IsFiniteSet(LogRow)
  /\ CleanupBatchSize \in Nat \ {0} /\ MaxRuns \in Nat /\ MaxErrors \in Nat

VARIABLES
  rows,          \* what became of each row: kept, expired or deleted
  isRunning,     \* cs.isRunning
  totalCleaned,  \* cs.totalCleaned
  run,           \* the state of every goroutine
  shutdown,      \* where the call of Shutdown is
  overlap,       \* history: two of the cleanups at work have met
  errors

vars == <<rows, isRunning, totalCleaned, run, shutdown, overlap, errors>>

Runner == Forcer \cup {Worker}

\* pc: waiting (initial sleep, ticker or caller), about to set isRunning,
\* deleting, adding to the total in two steps, clearing isRunning; the worker
\* may be done.
Run ==
  [ pc      : {"waiting", "starting", "deleting", "reading", "adding", "ending", "done"},
    due     : SUBSET LogRow,          \* rows whose expires_at is before the start
    deleted : 0 .. Cardinality(LogRow),
    total   : 0 .. Cardinality(LogRow),  \* totalCleaned as it was read
    runs    : 0 .. MaxRuns ]

Init ==
  /\ rows = [x \in LogRow |-> "kept"]
  /\ isRunning = FALSE
  /\ totalCleaned = 0
  /\ run = [r \in Runner |->
              [pc |-> "waiting", due |-> {}, deleted |-> 0, total |-> 0, runs |-> 0]]
  /\ shutdown = "not_called"
  /\ overlap = FALSE /\ errors = 0

\* Cleanups between the raising and the clearing of the flag.
Cleaning == {r \in Runner : run[r].pc \in {"deleting", "reading", "adding", "ending"}}

Expired == {x \in LogRow : rows[x] = "expired"}
Deleted == {x \in LogRow : rows[x] = "deleted"}

Expire(x) ==
  /\ rows[x] = "kept"
  /\ rows' = [rows EXCEPT ![x] = "expired"]
  /\ UNCHANGED <<isRunning, totalCleaned, run, shutdown, overlap, errors>>

-----------------------------------------------------------------------------
\* The test of isRunning: a cleanup already in progress is not joined.  The
\* worker may come here after Shutdown: it sleeps before its first cleanup, and
\* its select picks any case that is ready.
Check(r) ==
  /\ run[r].pc = "waiting" /\ run[r].runs < MaxRuns
  /\ run' = [run EXCEPT ![r].runs = @ + 1,
                        ![r].pc = IF isRunning THEN "waiting" ELSE "starting"]
  /\ UNCHANGED <<rows, isRunning, totalCleaned, shutdown, overlap, errors>>

\* Mutant of Start: the flag is not raised.
StartUnannounced(r) ==
  /\ run[r].pc = "starting"
  /\ overlap' = (overlap \/ Cleaning # {})
  /\ run' = [run EXCEPT ![r].pc = "deleting", ![r].due = Expired, ![r].deleted = 0]
  /\ UNCHANGED <<rows, isRunning, totalCleaned, shutdown, errors>>

Start(r) ==
  /\ run[r].pc = "starting"
  /\ isRunning' = TRUE
  /\ overlap' = (overlap \/ Cleaning # {})
  /\ run' = [run EXCEPT ![r].pc = "deleting", ![r].due = Expired, ![r].deleted = 0]
  /\ UNCHANGED <<rows, totalCleaned, shutdown, errors>>

\* What one DELETE removes of the rows that are left: at most CleanupBatchSize
\* where the driver puts the LIMIT into the statement, and all of them where it
\* does not (the code asks GORM for a LIMIT; DELETE in PostgreSQL has none).
Batches(left) ==
  {b \in SUBSET left : Cardinality(b) = CleanupBatchSize \/ b = left}

\* Mutant of DeleteBatch: what was due is counted, not what was deleted.
DeleteBatchMiscounted(r) ==
  /\ run[r].pc = "deleting"
  /\ \E batch \in Batches(run[r].due \cap Expired) :
       /\ rows' = [x \in LogRow |-> IF x \in batch THEN "deleted" ELSE rows[x]]
       /\ run' = [run EXCEPT
            ![r].deleted = Cardinality(run[r].due),
            ![r].pc = IF Cardinality(batch) < CleanupBatchSize THEN "reading" ELSE @]
  /\ UNCHANGED <<isRunning, totalCleaned, shutdown, overlap, errors>>

\* Mutant of DeleteBatch: a full batch ends the cleanup, a partial one does not.
DeleteBatchInverted(r) ==
  /\ run[r].pc = "deleting"
  /\ \E batch \in Batches(run[r].due \cap Expired) :
       /\ rows' = [x \in LogRow |-> IF x \in batch THEN "deleted" ELSE rows[x]]
       /\ run' = [run EXCEPT
            ![r].deleted = @ + Cardinality(batch),
            ![r].pc = IF Cardinality(batch) < CleanupBatchSize THEN @ ELSE "reading"]
  /\ UNCHANGED <<isRunning, totalCleaned, shutdown, overlap, errors>>

\* One DELETE; one that removes less than a full batch is the last.
DeleteBatch(r) ==
  /\ run[r].pc = "deleting"
  /\ \E batch \in Batches(run[r].due \cap Expired) :
       /\ rows' = [x \in LogRow |-> IF x \in batch THEN "deleted" ELSE rows[x]]
       /\ run' = [run EXCEPT
            ![r].deleted = @ + Cardinality(batch),
            ![r].pc = IF Cardinality(batch) < CleanupBatchSize THEN "reading" ELSE @]
  /\ UNCHANGED <<isRunning, totalCleaned, shutdown, overlap, errors>>

\* Mutant of DeleteFails: the early return skips the deferred function.
DeleteFailsUndeferred(r) ==
  /\ run[r].pc = "deleting" /\ errors < MaxErrors
  /\ errors' = errors + 1
  /\ run' = [run EXCEPT ![r].pc = "waiting"]
  /\ UNCHANGED <<rows, isRunning, totalCleaned, shutdown, overlap>>

\* What earlier batches deleted is not added to the total.
DeleteFails(r) ==
  /\ run[r].pc = "deleting" /\ errors < MaxErrors
  /\ errors' = errors + 1
  /\ run' = [run EXCEPT ![r].pc = "ending"]
  /\ UNCHANGED <<rows, isRunning, totalCleaned, shutdown, overlap>>

\* Mutant of AddTotal: a running total is added as if it were the batch's.
AddTotalTwice(r) ==
  /\ run[r].pc = "adding"
  /\ totalCleaned' = run[r].total + totalCleaned + run[r].deleted
  /\ run' = [run EXCEPT ![r].pc = "ending"]
  /\ UNCHANGED <<rows, isRunning, shutdown, overlap, errors>>

ReadTotal(r) ==
  /\ run[r].pc = "reading"
  /\ run' = [run EXCEPT ![r].pc = "adding", ![r].total = totalCleaned]
  /\ UNCHANGED <<rows, isRunning, totalCleaned, shutdown, overlap, errors>>

AddTotal(r) ==
  /\ run[r].pc = "adding"
  /\ totalCleaned' = run[r].total + run[r].deleted
  /\ run' = [run EXCEPT ![r].pc = "ending"]
  /\ UNCHANGED <<rows, isRunning, shutdown, overlap, errors>>

\* The deferred function.
Finish(r) ==
  /\ run[r].pc = "ending"
  /\ isRunning' = FALSE
  /\ overlap' = (overlap /\ Cleaning # {r})
  /\ run' = [run EXCEPT ![r].pc = "waiting"]
  /\ UNCHANGED <<rows, totalCleaned, shutdown, errors>>

WorkerDone ==
  /\ run[Worker].pc = "waiting" /\ run[Worker].runs > 0
  /\ shutdown # "not_called"
  /\ run' = [run EXCEPT ![Worker].pc = "done"]
  /\ UNCHANGED <<rows, isRunning, totalCleaned, shutdown, overlap, errors>>

Shutdown ==
  /\ shutdown = "not_called"
  /\ shutdown' = "waiting"
  /\ UNCHANGED <<rows, isRunning, totalCleaned, run, overlap, errors>>

ShutdownComplete ==
  /\ shutdown = "waiting" /\ ~isRunning
  /\ shutdown' = "complete"
  /\ UNCHANGED <<rows, isRunning, totalCleaned, run, overlap, errors>>

ShutdownTimeout ==
  /\ shutdown = "waiting" /\ isRunning
  /\ shutdown' = "timed_out"
  /\ UNCHANGED <<rows, isRunning, totalCleaned, run, overlap, errors>>

-----------------------------------------------------------------------------
Proceed(r) ==
  Start(r) \/ DeleteBatch(r) \/ DeleteFails(r) \/ ReadTotal(r) \/ AddTotal(r) \/ Finish(r)

Next ==
  \/ \E x \in LogRow : Expire(x)
  \/ \E r \in Runner : Check(r) \/ Proceed(r)
  \/ WorkerDone
  \/ Shutdown \/ ShutdownComplete \/ ShutdownTimeout

Spec == Init /\ [][Next]_vars

\* A cleanup that has begun runs on.  Nothing more is assumed: the next tick is
\* hours away.
FairSpec == Spec /\ \A r \in Runner : WF_vars(Proceed(r))

-----------------------------------------------------------------------------
(* Properties                                                              *)

TypeOK ==
  /\ rows \in [LogRow -> {"kept", "expired", "deleted"}]
  /\ isRunning \in BOOLEAN
  /\ totalCleaned \in 0 .. Cardinality(LogRow)
  /\ run \in [Runner -> Run]
  /\ shutdown \in {"not_called", "waiting", "complete", "timed_out"}
  /\ overlap \in BOOLEAN
  /\ errors \in 0 .. MaxErrors

Counted(r) == IF run[r].pc \in {"deleting", "reading", "adding"} THEN run[r].deleted ELSE 0

\* However the cleanups overlap, no row is counted twice: what each of them
\* counts are rows that it has deleted itself, and an update of the total that
\* another one overwrites only loses rows.
NeverOvercounts ==
  \A r \in Runner : totalCleaned + Counted(r) <= Cardinality(Deleted)

\* isRunning is not left behind: when no cleanup runs, none is announced, so
\* the next one is not skipped for ever.
NoStaleFlag == Cleaning = {} => ~isRunning

\* A cleanup that has begun comes to an end, and then either its rows are gone
\* or a DELETE has failed.
CleanupEnds ==
  \A r \in Runner :
    run[r].pc = "deleting" ~>
      r \notin Cleaning /\ (run[r].due \subseteq Deleted \/ errors > 0)

\* cleanup.go:230: Shutdown waits for a running cleanup to finish.  It looks at
\* the flag only, which two cleanups that pass the test together clear twice:
\* apart from that, no cleanup is at work when it reports completion.
ShutdownWaits ==
  [][shutdown # "complete" /\ shutdown' = "complete"
       => Cleaning = {} \/ overlap]_vars

\* Cleanups that overlap count no row twice and leave no flag behind (cleanup.go:97-118).
CleanupsSound == TypeOK /\ NeverOvercounts /\ NoStaleFlag

\* A cleanup comes to an end, and Shutdown waits for it (cleanup.go:97, 230).
CleanupsFinish == ShutdownWaits /\ CleanupEnds
=============================================================================
