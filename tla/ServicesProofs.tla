---------------------------- MODULE ServicesProofs ----------------------------
(***************************************************************************)
(* What MCConsole promises of the services that stand by themselves:       *)
(* LogCleanup, ApiKeys and Fleet.                                          *)
(*                                                                         *)
(* The first section proves CleanupsSound of LogCleanup, for every finite  *)
(* set of rows, any number of goroutines that call ForceCleanup and any    *)
(* size of a batch.  NeverOvercounts is not inductive: what a cleanup adds *)
(* to the total is a sum of two numbers it holds, and nothing says that    *)
(* they stand for different rows.  RowsAttributed does: every row counted  *)
(* by a cleanup at work is its own, and the total, as it is and as it was  *)
(* last read, is covered by the deleted rows that no cleanup at work owns. *)
(***************************************************************************)
EXTENDS MCConsole, FiniteSetTheorems, TLAPS

\* Deleted rows that no cleanup at work has counted.
Settled(own) == Deleted \ UNION {own[r] : r \in Runner}

Attributed(own) ==
  /\ \A r \in Runner : own[r] \subseteq Deleted /\ Cardinality(own[r]) = Counted(r)
  /\ \A r, q \in Runner : r # q => own[r] \cap own[q] = {}
  /\ totalCleaned <= Cardinality(Settled(own))
  /\ \A r \in Runner :
       run[r].pc = "adding" => run[r].total <= Cardinality(Settled(own))

RowsAttributed == \E own \in [Runner -> SUBSET LogRow] : Attributed(own)

\* Cleanups that have met are remembered until the last of them ends.
OverlapSeen ==
  /\ \A r, q \in Cleaning : r # q => overlap
  /\ ~isRunning => Cleaning = {} \/ overlap

CleanupInv == TypeOK /\ RowsAttributed /\ NoStaleFlag /\ OverlapSeen

-----------------------------------------------------------------------------
LEMMA DeletedFinite ==
  ASSUME LogCleanupAssumption, NEW R \in SUBSET LogRow
  PROVE  IsFiniteSet(R) /\ Cardinality(R) \in Nat /\ Cardinality(R) <= Cardinality(LogRow)
BY FS_Subset, FS_CardinalityType DEF LogCleanupAssumption

\* Disjoint sets of rows count together.
LEMMA DisjointSum ==
  ASSUME LogCleanupAssumption, NEW R \in SUBSET LogRow, NEW T \in SUBSET LogRow, R \cap T = {}
  PROVE  Cardinality(R \cup T) = Cardinality(R) + Cardinality(T)
<1>1. IsFiniteSet(R) /\ IsFiniteSet(T) /\ Cardinality(R) \in Nat /\ Cardinality(T) \in Nat
  BY DeletedFinite
<1>2. Cardinality(R \cup T) = Cardinality(R) + Cardinality(T) - Cardinality(R \cap T)
  BY <1>1, FS_Union
<1>3. Cardinality(R \cap T) = 0
  BY FS_EmptySet
<1> QED
  BY <1>1, <1>2, <1>3

LEMMA NoOvercount ==
  LogCleanupAssumption /\ TypeOK /\ RowsAttributed => NeverOvercounts
<1> SUFFICES ASSUME LogCleanupAssumption, TypeOK, RowsAttributed, NEW r \in Runner
             PROVE  totalCleaned + Counted(r) <= Cardinality(Deleted)
  BY DEF NeverOvercounts
<1>1. PICK own \in [Runner -> SUBSET LogRow] : Attributed(own)
  BY DEF RowsAttributed
<1>2. /\ own[r] \in SUBSET LogRow /\ Settled(own) \in SUBSET LogRow
      /\ own[r] \cap Settled(own) = {}
      /\ own[r] \cup Settled(own) \in SUBSET Deleted /\ Deleted \in SUBSET LogRow
  BY <1>1 DEF Settled, Attributed, Deleted
<1>3. Cardinality(own[r] \cup Settled(own)) = Cardinality(own[r]) + Cardinality(Settled(own))
  BY <1>2, DisjointSum
<1>4. Cardinality(own[r] \cup Settled(own)) <= Cardinality(Deleted)
  BY <1>2, DeletedFinite, FS_Subset
<1>5. Cardinality(own[r]) = Counted(r) /\ totalCleaned <= Cardinality(Settled(own))
  BY <1>1 DEF Attributed
<1>6. /\ Cardinality(own[r]) \in Nat /\ Cardinality(Settled(own)) \in Nat
      /\ Cardinality(Deleted) \in Nat /\ totalCleaned \in Nat
  BY <1>2, DeletedFinite DEF TypeOK
<1> QED
  BY <1>3, <1>4, <1>5, <1>6

\* A step that deletes nothing and leaves every count as it was.
LEMMA AttributedKept ==
  ASSUME RowsAttributed, Deleted' = Deleted, totalCleaned' = totalCleaned,
         \A r \in Runner : Counted(r)' = Counted(r),
         \A r \in Runner : run'[r].pc = "adding" =>
           \/ run[r].pc = "adding" /\ run'[r].total = run[r].total
           \/ run'[r].total = totalCleaned
  PROVE  RowsAttributed'
<1>1. PICK own \in [Runner -> SUBSET LogRow] : Attributed(own)
  BY DEF RowsAttributed
<1>2. Attributed(own)'
  <2>1. Settled(own)' = Settled(own)
    BY DEF Settled
  <2> QED
    BY <1>1, <2>1 DEF Attributed
<1> QED
  BY <1>2 DEF RowsAttributed

\* r counts no more, and what it had counted is covered by the new total or lost.
LEMMA AttributedEnd ==
  ASSUME LogCleanupAssumption, TypeOK, RowsAttributed, NEW r \in Runner,
         rows' = rows, Counted(r)' = 0, run'[r].pc # "adding",
         \A q \in Runner \ {r} : run'[q] = run[q],
         \/ totalCleaned' = totalCleaned
         \/ /\ run[r].pc = "adding"
            /\ totalCleaned' = run[r].total + Counted(r)
  PROVE  RowsAttributed'
<1>1. PICK own \in [Runner -> SUBSET LogRow] : Attributed(own)
  BY DEF RowsAttributed
<1> DEFINE left == [own EXCEPT ![r] = {}]
<1>2. left \in [Runner -> SUBSET LogRow]
  OBVIOUS
<1>3. Settled(left) = Settled(own) \cup own[r]
  <2>1. UNION {left[q] : q \in Runner} = (UNION {own[q] : q \in Runner}) \ own[r]
    BY <1>1 DEF Attributed
  <2>2. own[r] \subseteq Deleted
    BY <1>1 DEF Attributed
  <2> QED
    BY <2>1, <2>2 DEF Settled
<1>4. /\ Settled(own) \in SUBSET LogRow /\ own[r] \in SUBSET LogRow
      /\ Settled(own) \cap own[r] = {}
  BY <1>1 DEF Settled, Attributed, Deleted
<1>5. Cardinality(Settled(left)) = Cardinality(Settled(own)) + Cardinality(own[r])
  BY <1>3, <1>4, DisjointSum
<1>6. Cardinality(Settled(own)) \in Nat /\ Cardinality(own[r]) \in Nat
  BY <1>4, DeletedFinite
<1>7. Deleted' = Deleted /\ Settled(left)' = Settled(left)
  BY DEF Deleted, Settled
<1> HIDE DEF left
<1>8. Attributed(left)'
  <2>1. \A q \in Runner : left[q] \subseteq Deleted' /\ Cardinality(left[q]) = Counted(q)'
    BY <1>1, <1>7, FS_EmptySet DEF Attributed, Counted, left
  <2>2. \A p, q \in Runner : p # q => left[p] \cap left[q] = {}
    BY <1>1 DEF Attributed, left
  <2>3. totalCleaned' <= Cardinality(Settled(left)')
    <3>1. CASE totalCleaned' = totalCleaned
      BY <1>1, <1>5, <1>6, <1>7, <3>1 DEF Attributed, TypeOK
    <3>2. CASE run[r].pc = "adding" /\ totalCleaned' = run[r].total + Counted(r)
      <4>1. run[r].total <= Cardinality(Settled(own)) /\ Cardinality(own[r]) = Counted(r)
        BY <1>1, <3>2 DEF Attributed
      <4>2. run[r].total \in Nat
        BY DEF TypeOK, Run
      <4> QED
        BY <1>5, <1>6, <1>7, <3>2, <4>1, <4>2
    <3> QED
      BY <3>1, <3>2
  <2>4. \A q \in Runner :
          run'[q].pc = "adding" => run'[q].total <= Cardinality(Settled(left)')
    <3> SUFFICES ASSUME NEW q \in Runner, run'[q].pc = "adding"
                 PROVE  run'[q].total <= Cardinality(Settled(left)')
      OBVIOUS
    <3>1. run'[q] = run[q]
      OBVIOUS
    <3>2. run[q].total <= Cardinality(Settled(own)) /\ run[q].total \in Nat
      BY <1>1, <3>1 DEF Attributed, TypeOK, Run
    <3> QED
      BY <1>5, <1>6, <1>7, <3>1, <3>2
  <2> QED
    BY <2>1, <2>2, <2>3, <2>4 DEF Attributed
<1> QED
  BY <1>2, <1>8 DEF RowsAttributed

\* r deletes a batch of expired rows and counts it.
LEMMA AttributedBatch ==
  ASSUME LogCleanupAssumption, TypeOK, RowsAttributed, NEW r \in Runner,
         NEW batch \in SUBSET Expired, run[r].pc = "deleting",
         rows' = [x \in LogRow |-> IF x \in batch THEN "deleted" ELSE rows[x]],
         Counted(r)' = Counted(r) + Cardinality(batch), run'[r].pc # "adding",
         \A q \in Runner \ {r} : run'[q] = run[q],
         totalCleaned' = totalCleaned
  PROVE  RowsAttributed'
<1>1. PICK own \in [Runner -> SUBSET LogRow] : Attributed(own)
  BY DEF RowsAttributed
<1> DEFINE more == [own EXCEPT ![r] = @ \cup batch]
<1>2. /\ Deleted' = Deleted \cup batch /\ batch \cap Deleted = {}
      /\ batch \in SUBSET LogRow
  BY DEF Deleted, Expired, TypeOK
<1>3. more \in [Runner -> SUBSET LogRow]
  BY <1>2
<1>4. Settled(more)' = Settled(own)
  <2>1. UNION {more[q] : q \in Runner} = (UNION {own[q] : q \in Runner}) \cup batch
    OBVIOUS
  <2> HIDE DEF more
  <2> QED
    BY <1>2, <2>1 DEF Settled
<1>5. Cardinality(own[r] \cup batch) = Cardinality(own[r]) + Cardinality(batch)
  <2>1. own[r] \cap batch = {} /\ own[r] \in SUBSET LogRow
    BY <1>1, <1>2 DEF Attributed
  <2> QED
    BY <1>2, <2>1, DisjointSum
<1>6. Attributed(more)'
  <2>1. \A q \in Runner : more[q] \subseteq Deleted' /\ Cardinality(more[q]) = Counted(q)'
    BY <1>1, <1>2, <1>5 DEF Attributed, Counted
  <2>2. \A p, q \in Runner : p # q => more[p] \cap more[q] = {}
    BY <1>1, <1>2 DEF Attributed
  <2> HIDE DEF more
  <2>3. totalCleaned' <= Cardinality(Settled(more)')
    BY <1>1, <1>4 DEF Attributed
  <2>4. \A q \in Runner :
          run'[q].pc = "adding" => run'[q].total <= Cardinality(Settled(more)')
    BY <1>1, <1>4 DEF Attributed
  <2> QED
    BY <2>1, <2>2, <2>3, <2>4 DEF Attributed
<1> QED
  BY <1>3, <1>6 DEF RowsAttributed

-----------------------------------------------------------------------------
LEMMA InitCleanup == LogCleanupAssumption /\ Init => CleanupInv
<1> SUFFICES ASSUME LogCleanupAssumption, Init PROVE CleanupInv
  OBVIOUS
<1>1. Cardinality(LogRow) \in Nat
  BY DeletedFinite
<1>2. TypeOK
  <2>1. [pc |-> "waiting", due |-> {}, deleted |-> 0, total |-> 0, runs |-> 0] \in Run
    BY <1>1 DEF Run, LogCleanupAssumption
  <2>2. run \in [Runner -> Run]
    BY <2>1 DEF Init
  <2> QED
    <3>1. rows \in [LogRow -> {"kept", "expired", "deleted"}]
      BY DEF Init
    <3>2. totalCleaned \in 0 .. Cardinality(LogRow) /\ errors \in 0 .. MaxErrors
      BY <1>1 DEF Init, LogCleanupAssumption
    <3> QED
      BY <2>2, <3>1, <3>2 DEF Init, TypeOK
<1>3. RowsAttributed
  <2> DEFINE own == [r \in Runner |-> {}]
  <2>1. own \in [Runner -> SUBSET LogRow]
    OBVIOUS
  <2>2. Settled(own) = {} /\ \A r \in Runner : Counted(r) = 0
    BY DEF Init, Settled, Deleted, Counted
  <2>3. Attributed(own)
    <3>1. totalCleaned = 0 /\ \A r \in Runner : run[r].pc = "waiting" /\ own[r] = {}
      BY DEF Init
    <3>2. Cardinality({}) = 0
      BY FS_EmptySet
    <3> HIDE DEF own
    <3>3. \A r \in Runner : own[r] \subseteq Deleted /\ Cardinality(own[r]) = Counted(r)
      BY <2>2, <3>1, <3>2
    <3>4. totalCleaned <= Cardinality(Settled(own))
      BY <2>2, <3>1, <3>2
    <3> QED
      BY <3>1, <3>3, <3>4 DEF Attributed
  <2> QED
    BY <2>1, <2>3 DEF RowsAttributed
<1>4. NoStaleFlag /\ OverlapSeen
  BY DEF Init, NoStaleFlag, OverlapSeen, Cleaning
<1> QED
  BY <1>2, <1>3, <1>4 DEF CleanupInv

LEMMA NextCleanup == LogCleanupAssumption /\ CleanupInv /\ [Next]_vars => CleanupInv'
<1> SUFFICES ASSUME LogCleanupAssumption, CleanupInv, [Next]_vars PROVE CleanupInv'
  OBVIOUS
<1>0. /\ TypeOK /\ RowsAttributed /\ NoStaleFlag /\ OverlapSeen
      /\ run \in [Runner -> Run]
      /\ Cardinality(LogRow) \in Nat
  BY DeletedFinite DEF CleanupInv, TypeOK
<1>1. CASE UNCHANGED vars
  <2>1. TypeOK' /\ NoStaleFlag' /\ OverlapSeen'
    BY <1>0, <1>1 DEF vars, TypeOK, NoStaleFlag, OverlapSeen, Cleaning
  <2>2. RowsAttributed'
    BY <1>0, <1>1, AttributedKept DEF vars, Deleted, Counted
  <2> QED
    BY <2>1, <2>2 DEF CleanupInv
<1>2. ASSUME NEW x \in LogRow, Expire(x) PROVE CleanupInv'
  <2>1. TypeOK' /\ NoStaleFlag' /\ OverlapSeen'
    BY <1>0, <1>2 DEF Expire, TypeOK, NoStaleFlag, OverlapSeen, Cleaning
  <2>2. RowsAttributed'
    <3>1. Deleted' = Deleted
      BY <1>0, <1>2 DEF Expire, Deleted, TypeOK
    <3> QED
      BY <1>0, <1>2, <3>1, AttributedKept DEF Expire, Counted
  <2> QED
    BY <2>1, <2>2 DEF CleanupInv
<1>3. ASSUME NEW r \in Runner, Check(r) PROVE CleanupInv'
  <2>1. TypeOK'
    <3>1. run[r] \in Run /\ run[r].runs + 1 \in 0 .. MaxRuns
      BY <1>0, <1>3 DEF Check, Run, LogCleanupAssumption
    <3>2. run' \in [Runner -> Run]
      BY <1>0, <1>3, <3>1 DEF Check, Run
    <3> QED
      BY <1>0, <1>3, <3>2 DEF Check, TypeOK
  <2>2. NoStaleFlag' /\ OverlapSeen'
    <3>1. Cleaning' = Cleaning
      BY <1>0, <1>3 DEF Check, Cleaning, Run
    <3> QED
      BY <1>0, <1>3, <3>1 DEF NoStaleFlag, OverlapSeen, Check
  <2>3. RowsAttributed'
    BY <1>0, <1>3, AttributedKept DEF Check, Deleted, Counted, Run
  <2> QED
    BY <2>1, <2>2, <2>3 DEF CleanupInv
<1>4. ASSUME NEW r \in Runner, Start(r) PROVE CleanupInv'
  <2>1. TypeOK'
    <3>1. Expired \in SUBSET LogRow /\ 0 \in 0 .. Cardinality(LogRow)
      BY <1>0 DEF Expired
    <3>2. [run[r] EXCEPT !.pc = "deleting", !.due = Expired, !.deleted = 0] \in Run
      BY <1>0, <3>1 DEF Run
    <3>3. run' \in [Runner -> Run]
      BY <1>0, <1>4, <3>2 DEF Start
    <3> QED
      BY <1>0, <1>4, <3>3 DEF Start, TypeOK
  <2>2. NoStaleFlag' /\ OverlapSeen'
    <3>1. isRunning' = TRUE /\ overlap' = (overlap \/ Cleaning # {})
      BY <1>4 DEF Start
    <3>2. Cleaning' = Cleaning \cup {r}
      BY <1>0, <1>4 DEF Start, Cleaning, Run
    <3> QED
      BY <1>0, <3>1, <3>2 DEF NoStaleFlag, OverlapSeen
  <2>3. RowsAttributed'
    BY <1>0, <1>4, AttributedKept DEF Start, Deleted, Counted, Run
  <2> QED
    BY <2>1, <2>2, <2>3 DEF CleanupInv
<1>5. ASSUME NEW r \in Runner, DeleteBatch(r) PROVE CleanupInv'
  <2>1. PICK batch \in Batches(run[r].due \cap Expired) :
          /\ rows' = [x \in LogRow |-> IF x \in batch THEN "deleted" ELSE rows[x]]
          /\ run' = [run EXCEPT
               ![r].deleted = @ + Cardinality(batch),
               ![r].pc = IF Cardinality(batch) < CleanupBatchSize THEN "reading" ELSE @]
    BY <1>5 DEF DeleteBatch
  <2>2. /\ batch \in SUBSET Expired /\ batch \in SUBSET LogRow
        /\ Cardinality(batch) \in Nat /\ run[r].deleted \in Nat
        /\ run[r].pc = "deleting"
        /\ UNCHANGED <<isRunning, totalCleaned, shutdown, overlap, errors>>
    <3>1. batch \in SUBSET Expired /\ batch \in SUBSET LogRow
      BY DEF Batches, Expired
    <3> QED
      BY <1>0, <1>5, <3>1, DeletedFinite DEF DeleteBatch, Run
  <2>3. /\ run'[r].deleted = run[r].deleted + Cardinality(batch)
        /\ run'[r].pc \in {"deleting", "reading"}
        /\ run'[r].due = run[r].due /\ run'[r].total = run[r].total
        /\ run'[r].runs = run[r].runs
        /\ \A q \in Runner \ {r} : run'[q] = run[q]
    BY <1>0, <2>1, <2>2 DEF Run
  <2>4. RowsAttributed'
    <3>1. Counted(r)' = Counted(r) + Cardinality(batch)
      BY <2>2, <2>3 DEF Counted
    <3> QED
      BY <1>0, <2>1, <2>2, <2>3, <3>1, AttributedBatch
  <2>5. run'[r].deleted <= Cardinality(LogRow)
    <3>1. PICK own \in [Runner -> SUBSET LogRow] : Attributed(own)'
      BY <2>4 DEF RowsAttributed
    <3>2. Cardinality(own[r]) = run'[r].deleted
      BY <2>3, <3>1 DEF Attributed, Counted
    <3> QED
      BY <3>2, DeletedFinite
  <2>6. TypeOK'
    <3>1. run' = [run EXCEPT ![r] = run'[r]] /\ run'[r] \in Run
      <4>1. run'[r] = [run[r] EXCEPT !.deleted = run'[r].deleted, !.pc = run'[r].pc]
        BY <1>0, <2>1, <2>3
      <4>2. run'[r].deleted \in 0 .. Cardinality(LogRow)
        BY <1>0, <2>2, <2>3, <2>5
      <4>3. run[r] \in Run
        BY <1>0
      <4> QED
        BY <2>1, <2>3, <4>1, <4>2, <4>3 DEF Run
    <3>2. run' \in [Runner -> Run]
      BY <1>0, <3>1
    <3>3. rows' \in [LogRow -> {"kept", "expired", "deleted"}]
      BY <1>0, <2>1 DEF TypeOK
    <3> QED
      BY <1>0, <2>2, <3>2, <3>3 DEF TypeOK
  <2>7. NoStaleFlag' /\ OverlapSeen'
    <3>1. Cleaning' = Cleaning
      BY <2>2, <2>3 DEF Cleaning
    <3> QED
      BY <1>0, <2>2, <3>1 DEF NoStaleFlag, OverlapSeen
  <2> QED
    BY <2>4, <2>6, <2>7 DEF CleanupInv
<1>6. ASSUME NEW r \in Runner, DeleteFails(r) PROVE CleanupInv'
  <2>1. TypeOK'
    BY <1>0, <1>6 DEF DeleteFails, TypeOK, Run, LogCleanupAssumption
  <2>2. NoStaleFlag' /\ OverlapSeen'
    <3>1. Cleaning' = Cleaning
      BY <1>0, <1>6 DEF DeleteFails, Cleaning, Run
    <3> QED
      BY <1>0, <1>6, <3>1 DEF NoStaleFlag, OverlapSeen, DeleteFails
  <2>3. RowsAttributed'
    BY <1>0, <1>6, AttributedEnd DEF DeleteFails, Counted, Run
  <2> QED
    BY <2>1, <2>2, <2>3 DEF CleanupInv
<1>7. ASSUME NEW r \in Runner, ReadTotal(r) PROVE CleanupInv'
  <2>1. TypeOK'
    BY ZenonT(60), <1>0, <1>7 DEF ReadTotal, TypeOK, Run
  <2>2. NoStaleFlag' /\ OverlapSeen'
    <3>1. Cleaning' = Cleaning
      BY <1>0, <1>7 DEF ReadTotal, Cleaning, Run
    <3> QED
      BY <1>0, <1>7, <3>1 DEF NoStaleFlag, OverlapSeen, ReadTotal
  <2>3. RowsAttributed'
    BY <1>0, <1>7, AttributedKept DEF ReadTotal, Deleted, Counted, Run
  <2> QED
    BY <2>1, <2>2, <2>3 DEF CleanupInv
<1>8. ASSUME NEW r \in Runner, AddTotal(r) PROVE CleanupInv'
  <2>1. RowsAttributed'
    BY <1>0, <1>8, AttributedEnd DEF AddTotal, Counted, Run
  <2>2. totalCleaned' \in 0 .. Cardinality(LogRow)
    <3>1. PICK own \in [Runner -> SUBSET LogRow] : Attributed(own)'
      BY <2>1 DEF RowsAttributed
    <3>2. /\ totalCleaned' <= Cardinality(Settled(own)')
          /\ Settled(own)' \in SUBSET LogRow
      BY <3>1 DEF Attributed, Settled, Deleted
    <3>3. /\ Cardinality(Settled(own)') <= Cardinality(LogRow)
          /\ Cardinality(Settled(own)') \in Nat
      BY <3>2, DeletedFinite
    <3>4. totalCleaned' \in Nat
      BY <1>0, <1>8 DEF AddTotal, Run
    <3> QED
      BY <1>0, <3>2, <3>3, <3>4
  <2>3. TypeOK'
    BY <1>0, <1>8, <2>2 DEF AddTotal, TypeOK, Run
  <2>4. NoStaleFlag' /\ OverlapSeen'
    <3>1. Cleaning' = Cleaning
      BY <1>0, <1>8 DEF AddTotal, Cleaning, Run
    <3> QED
      BY <1>0, <1>8, <3>1 DEF NoStaleFlag, OverlapSeen, AddTotal
  <2> QED
    BY <2>1, <2>3, <2>4 DEF CleanupInv
<1>9. ASSUME NEW r \in Runner, Finish(r) PROVE CleanupInv'
  <2>1. TypeOK'
    BY <1>0, <1>9 DEF Finish, TypeOK, Run
  <2>2. NoStaleFlag' /\ OverlapSeen'
    <3>1. isRunning' = FALSE /\ overlap' = (overlap /\ Cleaning # {r})
      BY <1>9 DEF Finish
    <3>2. Cleaning' = Cleaning \ {r} /\ r \in Cleaning
      BY <1>0, <1>9 DEF Finish, Cleaning, Run
    <3> QED
      BY <1>0, <3>1, <3>2 DEF NoStaleFlag, OverlapSeen
  <2>3. RowsAttributed'
    BY <1>0, <1>9, AttributedKept DEF Finish, Deleted, Counted, Run
  <2> QED
    BY <2>1, <2>2, <2>3 DEF CleanupInv
<1>10. ASSUME WorkerDone PROVE CleanupInv'
  <2>0. Worker \in Runner
    BY DEF Runner
  <2>1. TypeOK'
    BY <1>0, <1>10, <2>0 DEF WorkerDone, TypeOK, Run
  <2>2. NoStaleFlag' /\ OverlapSeen'
    <3>1. Cleaning' = Cleaning
      BY <1>0, <1>10, <2>0 DEF WorkerDone, Cleaning, Run
    <3> QED
      BY <1>0, <1>10, <3>1 DEF NoStaleFlag, OverlapSeen, WorkerDone
  <2>3. RowsAttributed'
    BY <1>0, <1>10, <2>0, AttributedKept DEF WorkerDone, Deleted, Counted, Run
  <2> QED
    BY <2>1, <2>2, <2>3 DEF CleanupInv
<1>11. ASSUME Shutdown \/ ShutdownComplete \/ ShutdownTimeout PROVE CleanupInv'
  <2>0. /\ UNCHANGED <<rows, isRunning, totalCleaned, run, overlap, errors>>
        /\ shutdown' \in {"waiting", "complete", "timed_out"}
    BY <1>11 DEF Shutdown, ShutdownComplete, ShutdownTimeout
  <2>1. TypeOK' /\ NoStaleFlag' /\ OverlapSeen'
    BY <1>0, <2>0 DEF TypeOK, NoStaleFlag, OverlapSeen, Cleaning
  <2>2. RowsAttributed'
    BY <1>0, <2>0, AttributedKept DEF Deleted, Counted
  <2> QED
    BY <2>1, <2>2 DEF CleanupInv
<1> QED
  BY <1>1, <1>2, <1>3, <1>4, <1>5, <1>6, <1>7, <1>8, <1>9, <1>10, <1>11
  DEF Next, Proceed

LEMMA CleanupInvariant == ASSUME LogCleanupAssumption PROVE Spec => []CleanupInv
BY InitCleanup, NextCleanup, PTL DEF Spec

\* However many cleanups overlap on the unprotected isRunning and totalCleaned, no row is
\* counted twice and the flag is not left raised (cleanup.go:97-118).
THEOREM CleanupsAreSound == ASSUME LogCleanupAssumption PROVE Spec => []CleanupsSound
<1>1. CleanupInv => CleanupsSound
  BY NoOvercount DEF CleanupInv, CleanupsSound
<1> QED
  BY <1>1, CleanupInvariant, PTL

\* Shutdown, which looks at the flag only, reports completion over a cleanup at work only
\* when two of them had met (cleanup.go:230).
THEOREM ShutdownWaitsForCleanups == ASSUME LogCleanupAssumption PROVE Spec => ShutdownWaits
<1>1. CleanupInv /\ [Next]_vars =>
        [shutdown # "complete" /\ shutdown' = "complete" => Cleaning = {} \/ overlap]_vars
  <2> SUFFICES ASSUME CleanupInv, Next, shutdown # "complete", shutdown' = "complete"
               PROVE  Cleaning = {} \/ overlap
    OBVIOUS
  <2>1. ShutdownComplete
    BY DEF Next, Proceed, Expire, Check, Start, DeleteBatch, DeleteFails, ReadTotal,
       AddTotal, Finish, WorkerDone, Shutdown, ShutdownTimeout
  <2> QED
    BY <2>1 DEF ShutdownComplete, CleanupInv, OverlapSeen
<1> QED
  BY <1>1, CleanupInvariant, PTL DEF Spec, ShutdownWaits

-----------------------------------------------------------------------------
(***************************************************************************)
(* KeysKept of ApiKeys, for any keys, applications and warning days, up to *)
(* any time and for any number of requests and failures.                   *)
(*                                                                         *)
(* A warning is due from Lead before the expiry.  One of the two half days *)
(* that follow is a day of the check: what InTime says of them leads to    *)
(* WarnedInTime.  WarnedOnce needs that a check has read the marks of the  *)
(* keys that it has not come to yet: ReadSound.                            *)
(***************************************************************************)

\* A check that has read its keys, and one that is at a key.
Running == {"next", "early", "last", "mark_early", "mark_last"}
AtKey == Running \ {"next"}

\* A check has yet to decide about a warning.
ToDo(c, k, kind) ==
  \/ c.pc \in Running /\ k \in c.rows
  \/ c.key = k /\ (c.pc = "early" \/ (kind = "last" /\ c.pc \in {"mark_early", "last"}))

KeyHistory ==
  /\ mails \in [ApiKey -> [K!Kinds -> Nat]]
  /\ made \in [ApiKey -> 0 .. LastTime \cup {None}]
  /\ ended \subseteq ApiKey
  /\ calm \in Nat /\ calm <= now /\ (since # None => since <= calm)

\* A key that is stored was made, once, and has been revoked when it has ended.
KeyRows ==
  \A k \in ApiKey :
    /\ keys[k] # None => made[k] # None
    /\ k \in ended => made[k] # None
    /\ keys[k] # None => (keys[k].revoked <=> k \in ended)

\* A mark is that of a mail, and a mail is marked or about to be.
Marks ==
  \A k \in ApiKey, kind \in K!Kinds :
    /\ made[k] = None => mails[k][kind] = 0
    /\ keys[k] # None /\ kind \in keys[k].notified => mails[k][kind] > 0
    /\ keys[k] # None /\ k \notin unmarked /\ mails[k][kind] > 0
         => kind \in keys[k].notified \/ (check.pc = K!Mark[kind] /\ check.key = k)
    /\ check.pc = K!Mark[kind] /\ check.key = k => mails[k][kind] > 0

\* The row of a key as the check read it.
ReadOf(c, k) ==
  /\ c.read[k] \in K!Row /\ c.read[k].expires # None
  /\ c.read[k].expires > now /\ c.read[k].expires <= now + 2 * EarlyDays
  /\ made[k] # None
  /\ keys[k] # None => keys[k].expires = c.read[k].expires
  /\ \A kind \in c.read[k].notified : mails[k][kind] > 0

ReadSound ==
  /\ check.pc \in Running => \A k \in check.rows : ReadOf(check, k)
  /\ check.pc \in AtKey =>
       check.key \in ApiKey /\ check.key \notin check.rows /\ ReadOf(check, check.key)
  /\ \A k \in ApiKey, kind \in K!Kinds :
       ToDo(check, k, kind) /\ k \notin unmarked /\ mails[k][kind] > 0
         => kind \in check.read[k].notified

Few == \A k \in ApiKey, kind \in K!Kinds : k \notin unmarked => mails[k][kind] <= 1

\* A key that was made, and a process that is calm, before the warning was due.
Awaits(k, kind) ==
  /\ keys[k] # None /\ k \notin ended /\ keys[k].expires # None /\ since # None
  /\ made[k] + 1 + K!Lead[kind] <= keys[k].expires
  /\ calm + 1 + K!Lead[kind] <= keys[k].expires

\* When a warning is due.
Due(k, kind) == keys[k].expires - K!Lead[kind]
Odd == (now - since) % 2 = 1

\* In the first of two half days, or in the second, there is a check.
InTime ==
  \A k \in ApiKey, kind \in K!Kinds :
    Awaits(k, kind) =>
      /\ now >= Due(k, kind) + 2 => mails[k][kind] > 0
      /\ now = Due(k, kind) + 1 /\ Odd => mails[k][kind] > 0
      /\ now \in {Due(k, kind), Due(k, kind) + 1} /\ ~ Odd
           => mails[k][kind] > 0 \/ check.pc = "due" \/ ToDo(check, k, kind)

KeysInv ==
  /\ K!TypeOK /\ KeyHistory /\ KeyRows /\ Marks /\ ReadSound /\ Few /\ InTime

-----------------------------------------------------------------------------
LEMMA KeyConstants ==
  /\ EarlyDays \in Nat /\ EarlyDays >= 2 /\ LastTime \in Nat /\ MaxCalls \in Nat
  /\ MaxErrors \in Nat /\ None \notin ApiKey /\ None \notin App /\ None \notin Int
  /\ K!Lead["early"] = 2 * EarlyDays /\ K!Lead["last"] = 3 /\ K!Day = 2
  /\ K!Kinds = {"early", "last"}
  /\ \A kind \in K!Kinds : K!Lead[kind] \in Nat /\ K!Lead[kind] >= 3
                           /\ K!Lead[kind] <= 2 * EarlyDays
<1>1. K!ApiKeysAssumption
  BY ConsoleAssumption, Zenon
<1>2. EarlyDays \in Nat /\ EarlyDays >= 2
  BY <1>1 DEF K!ApiKeysAssumption
<1>3. K!Lead["early"] = 2 * EarlyDays /\ K!Lead["last"] = 3
  BY <1>2 DEF K!Lead, K!Day
<1>4. QED
  BY <1>1, <1>2, <1>3 DEF K!ApiKeysAssumption, K!Kinds, K!Day

LEMMA KeysHas ==
  ASSUME KeysInv
  PROVE  K!TypeOK /\ KeyHistory /\ KeyRows /\ Marks /\ ReadSound /\ Few /\ InTime
BY Zenon DEF KeysInv

LEMMA KeysTyped ==
  ASSUME K!TypeOK
  PROVE  /\ now \in 0 .. LastTime /\ keys \in [ApiKey -> K!Row \cup {None}]
         /\ since \in 0 .. LastTime \cup {None} /\ check \in K!Check
         /\ calls \subseteq ApiKey /\ served \in 0 .. MaxCalls /\ errors \in 0 .. MaxErrors
BY Zenon DEF K!TypeOK

LEMMA CheckTyped ==
  ASSUME K!TypeOK
  PROVE  /\ check.pc \in {"idle", "due", "next", "early", "last", "mark_early", "mark_last"}
         /\ check.rows \subseteq ApiKey /\ check.key \in ApiKey \cup {None}
         /\ check.read \in [ApiKey -> K!Row \cup {None}]
<1>1. check \in K!Check
  BY KeysTyped
<1>2. QED
  BY <1>1 DEF K!Check

LEMMA KeyRowTyped ==
  ASSUME NEW x \in K!Row
  PROVE  /\ x.app \in App \cup {None} /\ x.expires \in 0 .. LastTime + 1 \cup {None}
         /\ x.revoked \in BOOLEAN /\ x.used \in BOOLEAN /\ x.notified \subseteq K!Kinds
BY DEF K!Row

LEMMA OneKeyRow ==
  ASSUME K!TypeOK, NEW k \in ApiKey
  PROVE  keys[k] \in K!Row \cup {None}
<1>1. keys \in [ApiKey -> K!Row \cup {None}]
  BY KeysTyped
<1>. HIDE DEF K!Row
<1>2. QED
  BY <1>1

LEMMA MailsTyped ==
  ASSUME KeyHistory, NEW k \in ApiKey, NEW kind \in K!Kinds
  PROVE  mails[k][kind] \in Nat
BY DEF KeyHistory

LEMMA NoCheckIs ==
  /\ K!NoCheck \in K!Check /\ K!NoCheck.pc = "idle"
  /\ [K!NoCheck EXCEPT !.pc = "due"] \in K!Check
  /\ [K!NoCheck EXCEPT !.pc = "due"].pc = "due"
<1>. DEFINE f == [k \in ApiKey |-> None]
<1>1. f \in [ApiKey -> K!Row \cup {None}]
  <2>. HIDE DEF K!Row
  <2>1. QED
    OBVIOUS
<1>2. K!NoCheck = [pc |-> "idle", rows |-> {}, key |-> None, read |-> f]
  BY DEF K!NoCheck
<1>. HIDE DEF f
<1>3. QED
  BY <1>1, <1>2 DEF K!Check

\* What the invariant says of a check that is not at work.
LEMMA Resting ==
  ASSUME check.pc \in {"idle", "due"}, NEW k, NEW kind
  PROVE  ~ ToDo(check, k, kind)
BY DEF ToDo, Running

-----------------------------------------------------------------------------
(* The console and the requests. *)

\* The keys, the check and the mails stay.
LEMMA KeysStay ==
  ASSUME KeysInv,
         UNCHANGED <<now, keys, since, check, made, ended, mails, calm, unmarked>>,
         calls' \subseteq ApiKey, served' \in 0 .. MaxCalls, errors' \in 0 .. MaxErrors
  PROVE  KeysInv'
<1>0. K!TypeOK /\ KeyHistory /\ KeyRows /\ Marks /\ ReadSound /\ Few /\ InTime
  BY KeysHas
<1>1. K!TypeOK'
  BY <1>0, Zenon DEF K!TypeOK
<1>2. KeyHistory' /\ KeyRows' /\ Few'
  BY <1>0 DEF KeyHistory, KeyRows, Few
<1>3. Marks'
  BY <1>0 DEF Marks
<1>4. ReadSound'
  BY <1>0 DEF ReadSound, ReadOf
<1>5. InTime'
  BY <1>0 DEF InTime, Awaits, Due, Odd
<1>6. QED
  BY <1>1, <1>2, <1>3, <1>4, <1>5, Zenon DEF KeysInv

LEMMA AdmitKeeps ==
  ASSUME KeysInv, NEW k \in ApiKey, K!Admit(k)
  PROVE  KeysInv'
<1>0. K!TypeOK
  BY KeysHas
<1>1. /\ served < MaxCalls /\ served' = served + 1 /\ calls' = calls \cup {k}
      /\ UNCHANGED <<now, keys, since, check, errors, made, ended, mails, calm, unmarked>>
  BY DEF K!Admit, K!history
<1>2. /\ calls' \subseteq ApiKey /\ served' \in 0 .. MaxCalls /\ errors' \in 0 .. MaxErrors
  BY <1>0, <1>1, KeysTyped, KeyConstants
<1>3. QED
  BY <1>1, <1>2, KeysStay

\* A row is deleted, or written with the expiry and the marks it had.
LEMMA KeyWritten ==
  ASSUME KeysInv, NEW k \in ApiKey, keys[k] # None, NEW y,
         keys' = [keys EXCEPT ![k] = y],
         y \in K!Row \cup {None},
         y # None => y.expires = keys[k].expires /\ y.notified = keys[k].notified,
         ended' \in {ended, ended \cup {k}},
         y # None => (y.revoked <=> k \in ended'),
         calls' \subseteq ApiKey,
         UNCHANGED <<now, since, check, served, errors, made, mails, calm, unmarked>>
  PROVE  KeysInv'
<1>0. K!TypeOK /\ KeyHistory /\ KeyRows /\ Marks /\ ReadSound /\ Few /\ InTime
  BY KeysHas
<1>1. /\ keys' \in [ApiKey -> K!Row \cup {None}] /\ keys'[k] = y
      /\ \A j \in ApiKey : j # k => keys'[j] = keys[j]
  <2>1. keys \in [ApiKey -> K!Row \cup {None}]
    BY <1>0, KeysTyped
  <2>. HIDE DEF K!Row
  <2>2. QED
    BY <2>1
<1>2. K!TypeOK'
  BY <1>0, <1>1, Zenon DEF K!TypeOK
<1>3. KeyHistory' /\ Few'
  BY <1>0 DEF KeyHistory, Few
<1>4. KeyRows'
  <2>1. made[k] # None
    BY <1>0 DEF KeyRows
  <2>2. QED
    BY <1>0, <1>1, <2>1 DEF KeyRows
<1>5. \A j \in ApiKey : keys'[j] # None =>
        /\ keys[j] # None /\ keys'[j].expires = keys[j].expires
        /\ keys'[j].notified = keys[j].notified
  BY <1>1
<1>6. Marks'
  BY <1>0, <1>5 DEF Marks
<1>7. ReadSound'
  <2>1. ASSUME NEW j \in ApiKey, ReadOf(check, j)
        PROVE  ReadOf(check, j)'
    BY <1>5, <2>1 DEF ReadOf
  <2>2. check.rows \subseteq ApiKey
    BY <1>0, CheckTyped
  <2>3. QED
    BY <1>0, <2>1, <2>2 DEF ReadSound
<1>8. InTime'
  <2>1. ASSUME NEW j \in ApiKey, NEW kind \in K!Kinds, Awaits(j, kind)'
        PROVE  Awaits(j, kind) /\ Due(j, kind)' = Due(j, kind)
    <3>1. keys'[j] # None /\ keys[j] # None /\ keys'[j].expires = keys[j].expires
      BY <1>5, <2>1 DEF Awaits
    <3>2. QED
      BY <2>1, <3>1 DEF Awaits, Due
  <2>2. Odd' = Odd
    BY DEF Odd
  <2>3. QED
    BY <1>0, <2>1, <2>2 DEF InTime
<1>9. QED
  BY <1>2, <1>3, <1>4, <1>6, <1>7, <1>8, Zenon DEF KeysInv

LEMMA RevokeKeeps ==
  ASSUME KeysInv, NEW k \in ApiKey, K!ApiKeyRevoke(k)
  PROVE  KeysInv'
<1>0. K!TypeOK
  BY KeysHas
<1>. DEFINE y == [keys[k] EXCEPT !.revoked = TRUE]
<1>1. /\ keys[k] # None /\ keys' = [keys EXCEPT ![k] = y] /\ ended' = ended \cup {k}
      /\ UNCHANGED <<now, since, check, calls, served, errors, made, mails, calm, unmarked>>
  BY DEF K!ApiKeyRevoke, K!Present
<1>2. keys[k] \in K!Row
  BY <1>0, <1>1, OneKeyRow
<1>3. /\ y \in K!Row /\ y.expires = keys[k].expires /\ y.notified = keys[k].notified
      /\ y.revoked = TRUE
  BY <1>2 DEF K!Row
<1>. HIDE DEF y
<1>4. calls' \subseteq ApiKey
  BY <1>0, <1>1, KeysTyped
<1>5. QED
  BY <1>1, <1>3, <1>4, KeyWritten

LEMMA KeyDeleteKeeps ==
  ASSUME KeysInv, NEW k \in ApiKey, K!ApiKeyDelete(k)
  PROVE  KeysInv'
<1>0. K!TypeOK
  BY KeysHas
<1>1. /\ keys[k] # None /\ keys' = [keys EXCEPT ![k] = None] /\ ended' = ended \cup {k}
      /\ UNCHANGED <<now, since, check, calls, served, errors, made, mails, calm, unmarked>>
  BY DEF K!ApiKeyDelete, K!Present
<1>2. calls' \subseteq ApiKey
  BY <1>0, <1>1, KeysTyped
<1>3. QED
  BY <1>1, <1>2, KeyWritten

LEMMA LastUsedKeeps ==
  ASSUME KeysInv, NEW k \in ApiKey, K!UpdateApiKeyLastUsed(k)
  PROVE  KeysInv'
<1>0. K!TypeOK /\ KeyRows
  BY KeysHas
<1>. DEFINE y == [keys[k] EXCEPT !.used = TRUE]
<1>1. /\ calls' = calls \ {k}
      /\ keys' = IF keys[k] # None THEN [keys EXCEPT ![k] = y] ELSE keys
      /\ UNCHANGED <<now, since, check, served, errors, made, ended, mails, calm, unmarked>>
  BY DEF K!UpdateApiKeyLastUsed, K!Present, K!history
<1>2. /\ calls' \subseteq ApiKey /\ served' \in 0 .. MaxCalls /\ errors' \in 0 .. MaxErrors
  BY <1>0, <1>1, KeysTyped
<1>3. CASE keys[k] = None
  BY <1>1, <1>2, <1>3, KeysStay
<1>4. CASE keys[k] # None
  <2>1. keys[k] \in K!Row
    BY <1>0, <1>4, OneKeyRow
  <2>2. /\ y \in K!Row /\ y.expires = keys[k].expires /\ y.notified = keys[k].notified
        /\ y.revoked = keys[k].revoked
    BY <2>1 DEF K!Row
  <2>3. y.revoked <=> k \in ended'
    BY <1>0, <1>1, <1>4, <2>2 DEF KeyRows
  <2>. HIDE DEF y
  <2>4. keys' = [keys EXCEPT ![k] = y]
    BY <1>1, <1>4
  <2>5. QED
    BY <1>1, <1>2, <1>4, <2>2, <2>3, <2>4, KeyWritten
<1>5. QED
  BY <1>3, <1>4

\* A key that was never made is in no check and has had no mail.
LEMMA KeyCreateKeeps ==
  ASSUME KeysInv, NEW k \in ApiKey, NEW app \in App \cup {None},
         NEW e \in 0 .. LastTime + 1 \cup {None}, K!ApiKeyCreate(k, app, e)
  PROVE  KeysInv'
<1>0. K!TypeOK /\ KeyHistory /\ KeyRows /\ Marks /\ ReadSound /\ Few /\ InTime
  BY KeysHas
<1>. DEFINE y == [app |-> app, expires |-> e, revoked |-> FALSE, used |-> FALSE,
                  notified |-> {}]
<1>1. /\ made[k] = None /\ keys' = [keys EXCEPT ![k] = y]
      /\ made' = [made EXCEPT ![k] = now]
      /\ UNCHANGED <<now, since, check, calls, served, errors, ended, mails, calm, unmarked>>
  BY DEF K!ApiKeyCreate
<1>2. /\ y \in K!Row /\ y.expires = e /\ y.revoked = FALSE /\ y.notified = {}
  BY DEF K!Row
<1>. HIDE DEF y
<1>3. now \in 0 .. LastTime /\ now # None /\ now \in Nat
  BY <1>0, KeysTyped, KeyConstants
<1>4. /\ keys' \in [ApiKey -> K!Row \cup {None}] /\ keys'[k] = y
      /\ \A j \in ApiKey : j # k => keys'[j] = keys[j]
  <2>1. keys \in [ApiKey -> K!Row \cup {None}]
    BY <1>0, KeysTyped
  <2>. HIDE DEF K!Row
  <2>2. QED
    BY <1>1, <1>2, <2>1
<1>5. /\ made' \in [ApiKey -> 0 .. LastTime \cup {None}] /\ made'[k] = now
      /\ \A j \in ApiKey : j # k => made'[j] = made[j]
  BY <1>0, <1>1, <1>3 DEF KeyHistory
<1>6. K!TypeOK'
  BY <1>0, <1>1, <1>4, Zenon DEF K!TypeOK
<1>7. KeyHistory'
  BY <1>0, <1>1, <1>5 DEF KeyHistory
<1>8. Few'
  BY <1>0, <1>1 DEF Few
<1>9. KeyRows'
  <2>1. k \notin ended
    BY <1>0, <1>1 DEF KeyRows
  <2>2. QED
    BY <1>0, <1>1, <1>2, <1>3, <1>4, <1>5, <2>1 DEF KeyRows
<1>10. Marks'
  <2>. SUFFICES ASSUME NEW j \in ApiKey, NEW kind \in K!Kinds
                PROVE  /\ made'[j] = None => mails[j][kind] = 0
                       /\ keys'[j] # None /\ kind \in keys'[j].notified
                            => mails[j][kind] > 0
                       /\ keys'[j] # None /\ j \notin unmarked /\ mails[j][kind] > 0
                            => \/ kind \in keys'[j].notified
                               \/ check.pc = K!Mark[kind] /\ check.key = j
                       /\ check.pc = K!Mark[kind] /\ check.key = j => mails[j][kind] > 0
    BY <1>1 DEF Marks
  <2>1. CASE j = k
    <3>1. mails[k][kind] = 0
      BY <1>0, <1>1 DEF Marks
    <3>2. check.pc = K!Mark[kind] /\ check.key = j => mails[j][kind] > 0
      BY <1>0 DEF Marks
    <3>3. QED
      BY <1>2, <1>3, <1>4, <1>5, <2>1, <3>1, <3>2
  <2>2. CASE j # k
    BY <1>0, <1>4, <1>5, <2>2 DEF Marks
  <2>3. QED
    BY <2>1, <2>2
<1>11. ReadSound'
  <2>1. ASSUME NEW j \in ApiKey, ReadOf(check, j)
        PROVE  ReadOf(check, j)'
    <3>1. j # k
      BY <1>1, <2>1 DEF ReadOf
    <3>2. keys'[j] = keys[j] /\ made'[j] = made[j]
      BY <1>4, <1>5, <3>1
    <3>3. QED
      BY <1>1, <2>1, <3>2 DEF ReadOf
  <2>2. check.rows \subseteq ApiKey
    BY <1>0, CheckTyped
  <2>3. QED
    BY <1>0, <1>1, <2>1, <2>2 DEF ReadSound
<1>12. InTime'
  <2>1. Odd' = Odd
    BY <1>1 DEF Odd
  <2>2. ASSUME NEW j \in ApiKey, NEW kind \in K!Kinds, Awaits(j, kind)'
        PROVE  \/ Awaits(j, kind) /\ Due(j, kind)' = Due(j, kind)
               \/ Due(j, kind)' \in Int /\ now < Due(j, kind)'
    <3>1. CASE j = k
      <4>1. /\ e \in 0 .. LastTime + 1 /\ Due(j, kind)' = e - K!Lead[kind]
            /\ now + 1 + K!Lead[kind] <= e
        BY <1>2, <1>3, <1>4, <1>5, <2>2, <3>1 DEF Awaits, Due
      <4>2. QED
        BY <1>3, <4>1, KeyConstants
    <3>2. CASE j # k
      <4>1. keys'[j] = keys[j] /\ made'[j] = made[j]
        BY <1>4, <1>5, <3>2
      <4>2. QED
        BY <1>1, <2>2, <4>1 DEF Awaits, Due
    <3>3. QED
      BY <3>1, <3>2
  <2>3. QED
    BY <1>0, <1>1, <1>3, <2>1, <2>2 DEF InTime
<1>13. QED
  BY <1>6, <1>7, <1>8, <1>9, <1>10, <1>11, <1>12, Zenon DEF KeysInv

-----------------------------------------------------------------------------
(* The daily check. *)

\* The check goes on, and leaves no warning that it had to decide about.
LEMMA CheckMoves ==
  ASSUME KeysInv,
         UNCHANGED <<now, keys, since, calls, served, errors, made, ended, mails, calm,
                     unmarked>>,
         check' \in K!Check, check.pc \notin {"mark_early", "mark_last"},
         check'.pc \notin {"mark_early", "mark_last"}, ReadSound',
         \A k \in ApiKey, kind \in K!Kinds :
           Awaits(k, kind) /\ now \in {Due(k, kind), Due(k, kind) + 1}
             /\ (check.pc = "due" \/ ToDo(check, k, kind))
             => mails[k][kind] > 0 \/ check'.pc = "due" \/ ToDo(check', k, kind)
  PROVE  KeysInv'
<1>0. K!TypeOK /\ KeyHistory /\ KeyRows /\ Marks /\ ReadSound /\ Few /\ InTime
  BY KeysHas
<1>1. K!TypeOK'
  BY <1>0, Zenon DEF K!TypeOK
<1>2. KeyHistory' /\ KeyRows' /\ Few'
  BY <1>0 DEF KeyHistory, KeyRows, Few
<1>3. Marks'
  <2>1. \A kind \in K!Kinds : check.pc # K!Mark[kind] /\ check'.pc # K!Mark[kind]
    BY DEF K!Kinds, K!Mark
  <2>2. QED
    BY <1>0, <2>1 DEF Marks
<1>4. InTime'
  <2>1. Odd' = Odd
    BY DEF Odd
  <2>2. ASSUME NEW k \in ApiKey, NEW kind \in K!Kinds
        PROVE  Awaits(k, kind)' = Awaits(k, kind) /\ Due(k, kind)' = Due(k, kind)
    BY DEF Awaits, Due
  <2>3. QED
    BY <1>0, <2>1, <2>2 DEF InTime
<1>5. QED
  BY <1>1, <1>2, <1>3, <1>4, Zenon DEF KeysInv

\* What the check has read stays true of what has not changed.
LEMMA ReadStays ==
  ASSUME UNCHANGED <<now, keys, made, mails>>, NEW c, c.read = check.read, NEW k,
         ReadOf(check, k)
  PROVE  ReadOf(c, k)'
BY DEF ReadOf

LEMMA RunCheckKeeps ==
  ASSUME KeysInv, K!RunCheck
  PROVE  KeysInv'
<1>0. K!TypeOK /\ KeyHistory /\ KeyRows /\ Marks /\ ReadSound /\ Few /\ InTime
  BY KeysHas
<1>. DEFINE due == K!GetKeysExpiringWithin(EarlyDays)
            f == [k \in ApiKey |-> IF k \in due THEN keys[k] ELSE None]
            c == [K!NoCheck EXCEPT !.pc = "next", !.rows = due, !.read = f]
<1>1. /\ check.pc = "due" /\ check' = c
      /\ UNCHANGED <<now, keys, since, calls, served, errors, made, ended, mails, calm,
                     unmarked>>
  BY DEF K!RunCheck, K!history
<1>2. now \in Nat
  BY <1>0, KeysTyped
<1>3. \A k \in ApiKey : k \in due <=>
        /\ keys[k] # None /\ ~ keys[k].revoked /\ keys[k].expires # None
        /\ keys[k].expires > now /\ keys[k].expires <= now + 2 * EarlyDays
  BY DEF K!GetKeysExpiringWithin, K!Present, K!Day
<1>4. due \subseteq ApiKey
  BY DEF K!GetKeysExpiringWithin
<1>. HIDE DEF due
<1>5. f \in [ApiKey -> K!Row \cup {None}] /\ \A k \in due : f[k] = keys[k]
  <2>1. \A k \in ApiKey : keys[k] \in K!Row \cup {None}
    BY <1>0, OneKeyRow
  <2>. HIDE DEF K!Row
  <2>2. QED
    BY <1>4, <2>1
<1>. HIDE DEF f
<1>6. c \in K!Check /\ c.pc = "next" /\ c.rows = due /\ c.read = f
  <2>. DEFINE g == [k \in ApiKey |-> None]
  <2>1. K!NoCheck = [pc |-> "idle", rows |-> {}, key |-> None, read |-> g]
    BY DEF K!NoCheck
  <2>. HIDE DEF g
  <2>2. QED
    BY <1>4, <1>5, <2>1 DEF K!Check
<1>. HIDE DEF c
<1>7. \A k \in due : ReadOf(check, k)'
  <2>. SUFFICES ASSUME NEW k \in due PROVE ReadOf(check, k)'
    OBVIOUS
  <2>1. k \in ApiKey /\ keys[k] # None /\ f[k] = keys[k]
    BY <1>3, <1>4, <1>5
  <2>2. keys[k] \in K!Row /\ keys[k].notified \subseteq K!Kinds
    BY <1>0, <2>1, OneKeyRow, KeyRowTyped
  <2>3. \A kind \in keys[k].notified : mails[k][kind] > 0
    BY <1>0, <2>1, <2>2 DEF Marks
  <2>4. made[k] # None
    BY <1>0, <2>1 DEF KeyRows
  <2>5. check'.read[k] = keys[k] /\ keys'[k] = keys[k] /\ made'[k] = made[k] /\ now' = now
        /\ mails' = mails
    BY <1>1, <1>6, <2>1
  <2>6. keys[k].expires # None /\ keys[k].expires > now
        /\ keys[k].expires <= now + 2 * EarlyDays
    BY <1>3, <2>1
  <2>7. QED
    BY <2>2, <2>3, <2>4, <2>5, <2>6 DEF ReadOf
<1>8. ReadSound'
  <2>1. check'.pc \in Running => \A k \in check'.rows : ReadOf(check, k)'
    BY <1>1, <1>6, <1>7
  <2>2. check'.pc \notin AtKey
    BY <1>1, <1>6 DEF AtKey, Running
  <2>3. ASSUME NEW k \in ApiKey, NEW kind \in K!Kinds, ToDo(check', k, kind),
               k \notin unmarked', mails'[k][kind] > 0
        PROVE  kind \in check'.read[k].notified
    <3>1. k \in due
      BY <1>1, <1>6, <2>3 DEF ToDo
    <3>2. check.pc # K!Mark[kind]
      BY <1>1 DEF K!Kinds, K!Mark
    <3>3. kind \in keys[k].notified
      BY <1>0, <1>1, <1>3, <2>3, <3>1, <3>2 DEF Marks
    <3>4. QED
      BY <1>1, <1>5, <1>6, <3>1, <3>3
  <2>4. QED
    BY <2>1, <2>2, <2>3, Zenon DEF ReadSound
<1>9. ASSUME NEW k \in ApiKey, NEW kind \in K!Kinds, Awaits(k, kind),
             now \in {Due(k, kind), Due(k, kind) + 1}
      PROVE  ToDo(check', k, kind)
  <2>1. keys[k] # None /\ keys[k] \in K!Row /\ keys[k].expires # None
    BY <1>0, <1>9, OneKeyRow DEF Awaits
  <2>2. keys[k].expires \in Nat
    BY <2>1, KeyRowTyped, KeyConstants
  <2>3. ~ keys[k].revoked
    BY <1>0, <1>9, <2>1 DEF KeyRows, Awaits
  <2>4. keys[k].expires > now /\ keys[k].expires <= now + 2 * EarlyDays
    <3>. DEFINE e == keys[k].expires
                l == K!Lead[kind]
    <3>1. e \in Nat /\ l \in Nat /\ l >= 3 /\ l <= 2 * EarlyDays /\ EarlyDays \in Nat
      BY <2>2, KeyConstants
    <3>2. now = e - l \/ now = e - l + 1
      BY <1>9 DEF Due
    <3>. HIDE DEF e, l
    <3>3. e > now /\ e <= now + 2 * EarlyDays
      BY <1>2, <3>1, <3>2
    <3>4. QED
      BY <3>3 DEF e
  <2>5. k \in due
    BY <1>3, <2>1, <2>3, <2>4
  <2>6. QED
    BY <1>1, <1>6, <2>5 DEF ToDo, Running
<1>10. /\ check' \in K!Check /\ check.pc \notin {"mark_early", "mark_last"}
       /\ check'.pc \notin {"mark_early", "mark_last"}
  BY <1>1, <1>6
<1>11. QED
  BY <1>1, <1>8, <1>9, <1>10, CheckMoves

LEMMA NextKeyKeeps ==
  ASSUME KeysInv, K!NextKey
  PROVE  KeysInv'
<1>0. K!TypeOK /\ KeyHistory /\ KeyRows /\ Marks /\ ReadSound /\ Few /\ InTime
  BY KeysHas
<1>1. /\ check.pc = "next"
      /\ UNCHANGED <<now, keys, since, calls, served, errors, made, ended, mails, calm,
                     unmarked>>
  BY DEF K!NextKey, K!history
<1>2. check \in K!Check /\ check.rows \subseteq ApiKey
  BY <1>0, KeysTyped, CheckTyped
<1>3. CASE check.rows = {}
  <2>1. check' = K!NoCheck /\ check' \in K!Check /\ check'.pc = "idle"
    BY <1>3, NoCheckIs DEF K!NextKey
  <2>2. ReadSound'
    <3>1. /\ check'.pc \notin Running /\ check'.pc \notin AtKey
          /\ \A k, kind : ~ ToDo(check', k, kind)
      BY <2>1 DEF Running, AtKey, ToDo
    <3>2. QED
      BY <3>1 DEF ReadSound
  <2>3. \A k \in ApiKey, kind \in K!Kinds : ~ (check.pc = "due" \/ ToDo(check, k, kind))
    BY <1>1, <1>3 DEF ToDo
  <2>4. QED
    BY <1>1, <2>1, <2>2, <2>3, CheckMoves
<1>4. CASE check.rows # {}
  <2>1. PICK j \in check.rows :
          check' = [check EXCEPT !.pc = "early", !.key = j, !.rows = check.rows \ {j}]
    BY <1>4 DEF K!NextKey
  <2>2. /\ check' \in K!Check /\ check'.pc = "early" /\ check'.key = j
        /\ check'.rows = check.rows \ {j} /\ check'.read = check.read
    <3>. DEFINE s == check.rows \ {j}
    <3>1. s \subseteq ApiKey /\ j \in ApiKey
      BY <1>2
    <3>2. check' = [check EXCEPT !.pc = "early", !.key = j, !.rows = s]
      BY <2>1
    <3>. HIDE DEF s
    <3>3. /\ check' \in K!Check /\ check'.pc = "early" /\ check'.key = j
          /\ check'.rows = s /\ check'.read = check.read
      BY <1>2, <3>1, <3>2 DEF K!Check
    <3>4. QED
      BY <3>3 DEF s
  <2>3. \A k \in check.rows : ReadOf(check, k)
    BY <1>0, <1>1 DEF ReadSound, Running
  <2>4. \A k \in check.rows : ReadOf(check, k)'
    BY <1>1, <2>2, <2>3 DEF ReadOf
  <2>5. \A k, kind : ToDo(check', k, kind) <=> ToDo(check, k, kind)
    BY <1>1, <2>1, <2>2 DEF ToDo, Running
  <2>6. ReadSound'
    <3>1. check'.pc \in Running => \A k \in check'.rows : ReadOf(check, k)'
      BY <2>2, <2>4
    <3>2. check'.key \in ApiKey /\ check'.key \notin check'.rows
      BY <1>2, <2>2
    <3>3. \A k \in ApiKey, kind \in K!Kinds :
            ToDo(check', k, kind) /\ k \notin unmarked' /\ mails'[k][kind] > 0
              => kind \in check'.read[k].notified
      BY <1>0, <1>1, <2>2, <2>5 DEF ReadSound
    <3>4. ReadOf(check, check.key)'
      BY <2>2, <2>4
    <3>5. QED
      BY <3>1, <3>2, <3>3, <3>4, Zenon DEF ReadSound
  <2>7. /\ check' \in K!Check /\ check.pc \notin {"mark_early", "mark_last"}
        /\ check'.pc \notin {"mark_early", "mark_last"}
    BY <1>1, <2>2
  <2>8. QED
    BY <1>1, <2>5, <2>6, <2>7, CheckMoves
<1>5. QED
  BY <1>3, <1>4

\* A check that is at a key decides about one warning at a time.
LEMMA Decides ==
  ASSUME NEW c, NEW d, NEW kind \in K!Kinds, c.pc = kind, c.key \notin c.rows,
         d.rows = c.rows, d.key = c.key, d.pc \in {K!Mark[kind], K!After[kind]},
         NEW k, NEW other \in K!Kinds
  PROVE  /\ ToDo(c, c.key, kind)
         /\ ToDo(d, k, other) => ToDo(c, k, other) /\ (k # c.key \/ other # kind)
         /\ ToDo(c, k, other) /\ (k # c.key \/ other # kind) => ToDo(d, k, other)
<1>1. CASE kind = "early"
  <2>1. d.pc \in {"mark_early", "last"}
    BY <1>1 DEF K!Mark, K!After
  <2>2. other \in {"early", "last"}
    BY DEF K!Kinds
  <2>3. QED
    BY <1>1, <2>1, <2>2 DEF ToDo, Running
<1>2. CASE kind = "last"
  <2>1. d.pc \in {"mark_last", "next"}
    BY <1>2 DEF K!Mark, K!After
  <2>2. other \in {"early", "last"}
    BY DEF K!Kinds
  <2>3. QED
    BY <1>2, <2>1, <2>2 DEF ToDo, Running
<1>3. QED
  BY <1>1, <1>2 DEF K!Kinds

\* The check, at another place.
LEMMA CheckGoes ==
  ASSUME K!TypeOK, NEW p \in {"next", "early", "last", "mark_early", "mark_last"},
         check' = [check EXCEPT !.pc = p]
  PROVE  /\ check' \in K!Check /\ check'.pc = p /\ check'.rows = check.rows
         /\ check'.key = check.key /\ check'.read = check.read
<1>1. check \in K!Check
  BY KeysTyped
<1>2. QED
  BY <1>1 DEF K!Check

LEMMA SendsKeeps ==
  ASSUME KeysInv, NEW kind \in K!Kinds, K!SendNotification(kind),
         K!Outstanding(kind, check.read[check.key])
  PROVE  KeysInv'
<1>0. K!TypeOK /\ KeyHistory /\ KeyRows /\ Marks /\ ReadSound /\ Few /\ InTime
  BY KeysHas
<1>. DEFINE j == check.key
            p == K!Mark[kind]
<1>1. /\ check.pc = kind /\ mails' = [mails EXCEPT ![j][kind] = @ + 1]
      /\ check' = [check EXCEPT !.pc = p]
      /\ UNCHANGED <<now, keys, since, calls, served, errors, made, ended, calm, unmarked>>
  BY DEF K!SendNotification
<1>2. check.pc \in AtKey /\ check.pc \in Running
  BY <1>1 DEF K!Kinds, AtKey, Running
<1>3. j \in ApiKey /\ j \notin check.rows /\ ReadOf(check, j)
  BY <1>0, <1>2 DEF ReadSound
<1>4. p \in {"mark_early", "mark_last"}
  BY DEF K!Kinds, K!Mark
<1>. HIDE DEF p
<1>5. /\ check' \in K!Check /\ check'.pc = p /\ check'.rows = check.rows
      /\ check'.key = j /\ check'.read = check.read
  BY <1>0, <1>1, <1>4, CheckGoes
<1>6. /\ mails' \in [ApiKey -> [K!Kinds -> Nat]] /\ mails'[j][kind] = mails[j][kind] + 1
      /\ \A k \in ApiKey, other \in K!Kinds :
           k # j \/ other # kind => mails'[k][other] = mails[k][other]
  <2>1. mails \in [ApiKey -> [K!Kinds -> Nat]]
    BY <1>0 DEF KeyHistory
  <2>2. mails[j] \in [K!Kinds -> Nat] /\ mails[j][kind] \in Nat
    BY <1>3, <2>1
  <2>. DEFINE g == [mails[j] EXCEPT ![kind] = mails[j][kind] + 1]
  <2>3. g \in [K!Kinds -> Nat] /\ g[kind] = mails[j][kind] + 1
        /\ \A other \in K!Kinds : other # kind => g[other] = mails[j][other]
    BY <2>2
  <2>4. mails' = [mails EXCEPT ![j] = g]
    BY <1>1
  <2>. HIDE DEF g
  <2>5. /\ mails' \in [ApiKey -> [K!Kinds -> Nat]] /\ mails'[j] = g
        /\ \A k \in ApiKey : k # j => mails'[k] = mails[k]
    BY <1>3, <2>1, <2>3, <2>4
  <2>6. QED
    BY <2>3, <2>5
<1>7. \A k \in ApiKey, other \in K!Kinds :
        /\ mails[k][other] \in Nat /\ mails'[k][other] \in Nat
        /\ mails[k][other] <= mails'[k][other]
  BY <1>0, <1>6, MailsTyped
<1>8. \A k \in ApiKey, other \in K!Kinds :
        /\ ToDo(check, j, kind)
        /\ ToDo(check', k, other) => ToDo(check, k, other) /\ (k # j \/ other # kind)
        /\ ToDo(check, k, other) /\ (k # j \/ other # kind) => ToDo(check', k, other)
  <2>1. /\ check.pc = kind /\ check.key \notin check.rows /\ check'.rows = check.rows
        /\ check'.key = check.key /\ check'.pc \in {K!Mark[kind], K!After[kind]}
    BY <1>1, <1>3, <1>5 DEF p
  <2>2. QED
    BY <2>1, Decides, Zenon
<1>9. mails'[j][kind] > 0
  BY <1>3, <1>6, <1>7
<1>10. K!TypeOK'
  BY <1>0, <1>1, <1>5, Zenon DEF K!TypeOK
<1>11. KeyHistory'
  BY <1>0, <1>1, <1>6 DEF KeyHistory
<1>12. KeyRows'
  BY <1>0, <1>1 DEF KeyRows
<1>13. Few'
  <2>1. j \notin unmarked => mails[j][kind] = 0
    <3>1. kind \notin check.read[j].notified
      BY DEF K!Outstanding
    <3>2. ToDo(check, j, kind)
      BY <1>3, <1>8
    <3>3. j \notin unmarked => ~ (mails[j][kind] > 0)
      BY <1>0, <1>3, <3>1, <3>2 DEF ReadSound
    <3>4. QED
      BY <1>3, <1>7, <3>3
  <2>2. QED
    BY <1>0, <1>1, <1>6, <2>1 DEF Few
<1>14. Marks'
  <2>. SUFFICES ASSUME NEW k \in ApiKey, NEW other \in K!Kinds
                PROVE  /\ made[k] = None => mails'[k][other] = 0
                       /\ keys[k] # None /\ other \in keys[k].notified
                            => mails'[k][other] > 0
                       /\ keys[k] # None /\ k \notin unmarked /\ mails'[k][other] > 0
                            => \/ other \in keys[k].notified
                               \/ check'.pc = K!Mark[other] /\ check'.key = k
                       /\ check'.pc = K!Mark[other] /\ check'.key = k
                            => mails'[k][other] > 0
    BY <1>1 DEF Marks
  <2>1. CASE k = j /\ other = kind
    BY <1>3, <1>5, <1>9, <2>1 DEF ReadOf, p
  <2>2. CASE k # j \/ other # kind
    <3>1. mails'[k][other] = mails[k][other]
      BY <1>6, <2>2
    <3>2. check.pc # K!Mark[other]
      BY <1>1 DEF K!Kinds, K!Mark
    <3>3. check'.pc = K!Mark[other] /\ check'.key = k => k = j /\ other = kind
      BY <1>5 DEF K!Kinds, K!Mark, p
    <3>4. QED
      BY <1>0, <2>2, <3>1, <3>2, <3>3 DEF Marks
  <2>3. QED
    BY <2>1, <2>2
<1>15. \A k \in ApiKey : ReadOf(check, k) => ReadOf(check, k)'
  <2>. SUFFICES ASSUME NEW k \in ApiKey, ReadOf(check, k) PROVE ReadOf(check, k)'
    OBVIOUS
  <2>1. check.read[k].notified \subseteq K!Kinds
    BY KeyRowTyped DEF ReadOf
  <2>2. \A other \in check.read[k].notified : mails'[k][other] > 0
    BY <1>7, <2>1 DEF ReadOf
  <2>3. QED
    BY <1>1, <1>5, <2>2 DEF ReadOf
<1>16. ReadSound'
  <2>1. check.rows \subseteq ApiKey
    BY <1>0, CheckTyped
  <2>2. check'.pc \in Running => \A k \in check'.rows : ReadOf(check, k)'
    BY <1>0, <1>2, <1>5, <1>15, <2>1 DEF ReadSound
  <2>3. check'.key \in ApiKey /\ check'.key \notin check'.rows /\ ReadOf(check, check.key)'
    BY <1>3, <1>5, <1>15
  <2>4. ASSUME NEW k \in ApiKey, NEW other \in K!Kinds, ToDo(check', k, other),
               k \notin unmarked', mails'[k][other] > 0
        PROVE  other \in check'.read[k].notified
    <3>1. ToDo(check, k, other) /\ mails'[k][other] = mails[k][other]
      BY <1>6, <1>8, <2>4
    <3>2. QED
      BY <1>0, <1>1, <1>5, <2>4, <3>1 DEF ReadSound
  <2>5. QED
    BY <2>2, <2>3, <2>4, Zenon DEF ReadSound
<1>17. InTime'
  <2>1. Odd' = Odd
    BY <1>1 DEF Odd
  <2>2. ASSUME NEW k \in ApiKey, NEW other \in K!Kinds
        PROVE  /\ Awaits(k, other)' = Awaits(k, other) /\ Due(k, other)' = Due(k, other)
               /\ mails[k][other] > 0 => mails'[k][other] > 0
               /\ ToDo(check, k, other) => mails'[k][other] > 0 \/ ToDo(check', k, other)
               /\ check.pc # "due"
    BY <1>1, <1>2, <1>7, <1>8, <1>9 DEF Awaits, Due, Running
  <2>3. QED
    BY <1>0, <1>1, <2>1, <2>2 DEF InTime
<1>18. QED
  BY <1>10, <1>11, <1>12, <1>13, <1>14, <1>16, <1>17, Zenon DEF KeysInv

\* A warning is passed over that was mailed before, or that is not due.
LEMMA PassesKeeps ==
  ASSUME KeysInv, NEW kind \in K!Kinds, K!SendNotification(kind),
         ~ K!Outstanding(kind, check.read[check.key])
  PROVE  KeysInv'
<1>0. K!TypeOK /\ KeyHistory /\ KeyRows /\ Marks /\ ReadSound /\ Few /\ InTime
  BY KeysHas
<1>. DEFINE j == check.key
            p == K!After[kind]
<1>1. /\ check.pc = kind /\ check' = [check EXCEPT !.pc = p]
      /\ UNCHANGED <<now, keys, since, calls, served, errors, made, ended, mails, calm,
                     unmarked>>
  BY DEF K!SendNotification
<1>2. check.pc \in AtKey /\ check.pc \in Running
      /\ check.pc \notin {"due", "mark_early", "mark_last"}
  BY <1>1 DEF K!Kinds, AtKey, Running
<1>3. j \in ApiKey /\ j \notin check.rows /\ ReadOf(check, j)
  BY <1>0, <1>2 DEF ReadSound
<1>4. p \in {"last", "next"}
  BY DEF K!Kinds, K!After
<1>. HIDE DEF p
<1>5. /\ check' \in K!Check /\ check'.pc = p /\ check'.rows = check.rows
      /\ check'.key = j /\ check'.read = check.read
  BY <1>0, <1>1, <1>4, CheckGoes
<1>6. \A k \in ApiKey, other \in K!Kinds :
        /\ ToDo(check', k, other) => ToDo(check, k, other)
        /\ ToDo(check, k, other) /\ (k # j \/ other # kind) => ToDo(check', k, other)
  <2>1. /\ check.pc = kind /\ check.key \notin check.rows /\ check'.rows = check.rows
        /\ check'.key = check.key /\ check'.pc \in {K!Mark[kind], K!After[kind]}
    BY <1>1, <1>3, <1>5 DEF p
  <2>2. QED
    BY <2>1, Decides, Zenon
<1>7. ReadSound'
  <2>1. \A k \in ApiKey : ReadOf(check, k) => ReadOf(check, k)'
    BY <1>1, <1>5 DEF ReadOf
  <2>2. check.rows \subseteq ApiKey
    BY <1>0, CheckTyped
  <2>3. check'.pc \in Running => \A k \in check'.rows : ReadOf(check, k)'
    BY <1>0, <1>2, <1>5, <2>1, <2>2 DEF ReadSound
  <2>4. check'.key \in ApiKey /\ check'.key \notin check'.rows /\ ReadOf(check, check.key)'
    BY <1>3, <1>5, <2>1
  <2>5. \A k \in ApiKey, other \in K!Kinds :
          ToDo(check', k, other) /\ k \notin unmarked' /\ mails'[k][other] > 0
            => other \in check'.read[k].notified
    BY <1>0, <1>1, <1>5, <1>6 DEF ReadSound
  <2>6. QED
    BY <2>3, <2>4, <2>5, Zenon DEF ReadSound
<1>8. ASSUME Awaits(j, kind), now \in {Due(j, kind), Due(j, kind) + 1}
      PROVE  mails[j][kind] > 0
  <2>. DEFINE e == check.read[j].expires
              l == K!Lead[kind]
              n == check.read[j].notified
  <2>1. e \in Nat /\ keys[j].expires = e /\ now \in Nat
    <3>1. keys[j] # None /\ keys[j].expires = e /\ check.read[j] \in K!Row /\ e # None
      BY <1>3, <1>8 DEF ReadOf, Awaits
    <3>2. QED
      BY <1>0, <3>1, KeyRowTyped, KeysTyped, KeyConstants
  <2>2. now = e - l \/ now = e - l + 1
    BY <1>8, <2>1 DEF Due
  <2>3. EarlyDays \in Nat /\ l \in Nat /\ (kind = "early" => l = 2 * EarlyDays)
        /\ (kind = "last" => l = 3) /\ kind \in {"early", "last"}
    BY KeyConstants
  <2>4. K!DaysLeft(check.read[j]) = (e - now) \div 2
    BY DEF K!DaysLeft, K!Day
  <2>. HIDE DEF e, l
  <2>5. kind = "early" => (e - now) \div 2 <= EarlyDays
    <3>1. kind = "early" => e - now \in Int /\ e - now <= 2 * EarlyDays
      BY <2>1, <2>2, <2>3
    <3>2. \A x \in Int, m \in Nat : x <= 2 * m => x \div 2 <= m
      OBVIOUS
    <3>3. QED
      BY <2>3, <3>1, <3>2
  <2>6. kind = "last" => (e - now) \div 2 <= 1
    <3>1. kind = "last" => e - now \in {2, 3}
      BY <2>1, <2>2, <2>3
    <3>2. 2 \div 2 <= 1 /\ 3 \div 2 <= 1
      OBVIOUS
    <3>3. QED
      BY <3>1, <3>2
  <2>7. kind \in n
    <3>1. kind \notin n => ~ (IF kind = "early" THEN (e - now) \div 2 <= EarlyDays
                              ELSE (e - now) \div 2 <= 1)
      BY <2>4 DEF K!Outstanding, K!Soon
    <3>2. QED
      BY <2>3, <2>5, <2>6, <3>1
  <2>8. QED
    BY <1>3, <2>7 DEF ReadOf
<1>9. ASSUME NEW k \in ApiKey, NEW other \in K!Kinds,
             Awaits(k, other), now \in {Due(k, other), Due(k, other) + 1},
             check.pc = "due" \/ ToDo(check, k, other)
      PROVE  mails[k][other] > 0 \/ ToDo(check', k, other)
  <2>1. CASE k = j /\ other = kind
    BY <1>8, <1>9, <2>1
  <2>2. CASE k # j \/ other # kind
    BY <1>2, <1>6, <1>9, <2>2
  <2>3. QED
    BY <2>1, <2>2
<1>10. check'.pc \notin {"mark_early", "mark_last"}
  BY <1>4, <1>5
<1>11. QED
  BY <1>1, <1>2, <1>5, <1>7, <1>9, <1>10, CheckMoves

\* The mark is written in the row as it is, not as it was read.
LEMMA MarkKeeps ==
  ASSUME KeysInv, NEW kind \in K!Kinds, K!MarkApiKeyNotified(kind)
  PROVE  KeysInv'
<1>0. K!TypeOK /\ KeyHistory /\ KeyRows /\ Marks /\ ReadSound /\ Few /\ InTime
  BY KeysHas
<1>. DEFINE j == check.key
            p == K!After[kind]
            y == IF keys[j] = None THEN None
                 ELSE [keys[j] EXCEPT !.notified = keys[j].notified \cup {kind}]
<1>1. /\ check.pc = K!Mark[kind] /\ check' = [check EXCEPT !.pc = p]
      /\ UNCHANGED <<now, since, calls, served, errors, made, ended, mails, calm, unmarked>>
  BY DEF K!MarkApiKeyNotified, K!history
<1>2. check.pc \in AtKey /\ check.pc \in Running /\ check.pc # "due"
  BY <1>1 DEF K!Kinds, K!Mark, AtKey, Running
<1>3. j \in ApiKey /\ j \notin check.rows /\ ReadOf(check, j)
  BY <1>0, <1>2 DEF ReadSound
<1>4. keys' = [keys EXCEPT ![j] = y]
  BY DEF K!MarkApiKeyNotified, K!Marked
<1>5. p \in {"last", "next"}
  BY DEF K!Kinds, K!After
<1>. HIDE DEF p
<1>6. /\ check' \in K!Check /\ check'.pc = p /\ check'.rows = check.rows
      /\ check'.key = j /\ check'.read = check.read
  BY <1>0, <1>1, <1>5, CheckGoes
<1>7. \A k, other : other \in K!Kinds =>
        /\ ToDo(check', k, other) => ToDo(check, k, other)
        /\ ToDo(check, k, other) => ToDo(check', k, other)
  <2>1. CASE kind = "early"
    BY <1>1, <1>6, <2>1 DEF ToDo, Running, K!Mark, K!After, p
  <2>2. CASE kind = "last"
    BY <1>1, <1>6, <2>2 DEF ToDo, Running, K!Mark, K!After, p
  <2>3. QED
    BY <2>1, <2>2 DEF K!Kinds
<1>8. keys[j] # None =>
        /\ y \in K!Row /\ y.expires = keys[j].expires /\ y.revoked = keys[j].revoked
        /\ y.notified = keys[j].notified \cup {kind}
  <2>. SUFFICES ASSUME keys[j] # None
                PROVE  /\ y \in K!Row /\ y.expires = keys[j].expires
                       /\ y.revoked = keys[j].revoked
                       /\ y.notified = keys[j].notified \cup {kind}
    OBVIOUS
  <2>1. keys[j] \in K!Row
    BY <1>0, <1>3, OneKeyRow
  <2>2. y = [keys[j] EXCEPT !.notified = keys[j].notified \cup {kind}]
    OBVIOUS
  <2>. HIDE DEF y
  <2>3. QED
    BY <2>1, <2>2 DEF K!Row
<1>9. keys[j] = None => y = None
  OBVIOUS
<1>. HIDE DEF y
<1>10. /\ keys' \in [ApiKey -> K!Row \cup {None}] /\ keys'[j] = y
       /\ \A k \in ApiKey : k # j => keys'[k] = keys[k]
  <2>1. keys \in [ApiKey -> K!Row \cup {None}]
    BY <1>0, KeysTyped
  <2>. HIDE DEF K!Row
  <2>2. QED
    BY <1>3, <1>4, <1>8, <1>9, <2>1
<1>11. \A k \in ApiKey : keys'[k] # None =>
         /\ keys[k] # None /\ keys'[k].expires = keys[k].expires
         /\ keys'[k].revoked = keys[k].revoked
         /\ keys'[k].notified
              = IF k = j THEN keys[k].notified \cup {kind} ELSE keys[k].notified
  BY <1>8, <1>9, <1>10
<1>12. K!TypeOK'
  BY <1>0, <1>1, <1>6, <1>10, Zenon DEF K!TypeOK
<1>13. KeyHistory' /\ Few'
  BY <1>0, <1>1 DEF KeyHistory, Few
<1>14. KeyRows'
  BY <1>0, <1>1, <1>11 DEF KeyRows
<1>15. mails[j][kind] > 0
  BY <1>0, <1>1, <1>3 DEF Marks
<1>16. Marks'
  <2>. SUFFICES ASSUME NEW k \in ApiKey, NEW other \in K!Kinds
                PROVE  /\ made[k] = None => mails[k][other] = 0
                       /\ keys'[k] # None /\ other \in keys'[k].notified
                            => mails[k][other] > 0
                       /\ keys'[k] # None /\ k \notin unmarked /\ mails[k][other] > 0
                            => other \in keys'[k].notified
                       /\ check'.pc # K!Mark[other]
    BY <1>1 DEF Marks
  <2>1. check.pc = K!Mark[other] => other = kind
    BY <1>1 DEF K!Kinds, K!Mark
  <2>0. check'.pc # K!Mark[other]
    BY <1>5, <1>6 DEF K!Kinds, K!Mark
  <2>2. CASE k = j
    <3>1. /\ made[j] = None => mails[j][other] = 0
          /\ keys[j] # None /\ other \in keys[j].notified => mails[j][other] > 0
          /\ keys[j] # None /\ j \notin unmarked /\ mails[j][other] > 0
               => other \in keys[j].notified \/ other = kind
      BY <1>0, <1>3, <2>1 DEF Marks
    <3>2. keys'[j] # None =>
            keys[j] # None /\ keys'[j].notified = keys[j].notified \cup {kind}
      BY <1>3, <1>11
    <3>3. QED
      BY <1>15, <2>0, <2>2, <3>1, <3>2
  <2>3. CASE k # j
    BY <1>0, <1>11, <2>0, <2>3 DEF Marks
  <2>4. QED
    BY <2>2, <2>3
<1>17. ReadSound'
  <2>1. \A k \in ApiKey : ReadOf(check, k) => ReadOf(check, k)'
    <3>. SUFFICES ASSUME NEW k \in ApiKey, ReadOf(check, k) PROVE ReadOf(check, k)'
      OBVIOUS
    <3>1. check'.read[k] = check.read[k]
      BY <1>6
    <3>2. keys'[k] # None => keys'[k].expires = check.read[k].expires
      BY <1>11 DEF ReadOf
    <3>3. QED
      BY <1>1, <3>1, <3>2 DEF ReadOf
  <2>2. check.rows \subseteq ApiKey
    BY <1>0, CheckTyped
  <2>3. check'.pc \in Running => \A k \in check'.rows : ReadOf(check, k)'
    BY <1>0, <1>2, <1>6, <2>1, <2>2 DEF ReadSound
  <2>4. check'.key \in ApiKey /\ check'.key \notin check'.rows /\ ReadOf(check, check.key)'
    BY <1>3, <1>6, <2>1
  <2>5. \A k \in ApiKey, other \in K!Kinds :
          ToDo(check', k, other) /\ k \notin unmarked' /\ mails'[k][other] > 0
            => other \in check'.read[k].notified
    BY <1>0, <1>1, <1>6, <1>7 DEF ReadSound
  <2>6. QED
    BY <2>3, <2>4, <2>5, Zenon DEF ReadSound
<1>18. InTime'
  <2>1. Odd' = Odd
    BY <1>1 DEF Odd
  <2>2. ASSUME NEW k \in ApiKey, NEW other \in K!Kinds, Awaits(k, other)'
        PROVE  Awaits(k, other) /\ Due(k, other)' = Due(k, other)
    <3>1. keys'[k] # None /\ keys[k] # None /\ keys'[k].expires = keys[k].expires
      BY <1>11, <2>2 DEF Awaits
    <3>2. QED
      BY <1>1, <2>2, <3>1 DEF Awaits, Due
  <2>3. QED
    BY <1>0, <1>1, <1>2, <1>7, <2>1, <2>2 DEF InTime
<1>19. QED
  BY <1>12, <1>13, <1>14, <1>16, <1>17, <1>18, Zenon DEF KeysInv

-----------------------------------------------------------------------------
(* Time, failures and restarts. *)

LEMMA TickKeeps ==
  ASSUME KeysInv, K!Tick
  PROVE  KeysInv'
<1>0. K!TypeOK /\ KeyHistory /\ KeyRows /\ Marks /\ ReadSound /\ Few /\ InTime
  BY KeysHas
<1>1. /\ check.pc = "idle" /\ now < LastTime /\ now' = now + 1
      /\ check' = IF since # None /\ (now' - since) % 2 = 0
                  THEN [K!NoCheck EXCEPT !.pc = "due"] ELSE K!NoCheck
      /\ UNCHANGED <<keys, since, calls, served, errors, made, ended, mails, calm, unmarked>>
  BY DEF K!Tick, K!history, K!Day
<1>2. /\ check' \in K!Check /\ check'.pc \in {"idle", "due"}
      /\ since # None /\ (now' - since) % 2 = 0 => check'.pc = "due"
  BY <1>1, NoCheckIs
<1>3. now \in Nat /\ now' \in 0 .. LastTime
  BY <1>0, <1>1, KeysTyped, KeyConstants
<1>4. K!TypeOK'
  BY <1>0, <1>1, <1>2, <1>3, Zenon DEF K!TypeOK
<1>5. KeyHistory' /\ KeyRows' /\ Few'
  <2>1. KeyRows' /\ Few'
    BY <1>0, <1>1 DEF KeyRows, Few
  <2>2. calm' \in Nat /\ calm' <= now'
    BY <1>0, <1>1, <1>3 DEF KeyHistory
  <2>3. QED
    BY <1>0, <1>1, <2>1, <2>2 DEF KeyHistory
<1>6. Marks'
  <2>1. \A kind \in K!Kinds : check.pc # K!Mark[kind] /\ check'.pc # K!Mark[kind]
    BY <1>1, <1>2 DEF K!Kinds, K!Mark
  <2>2. QED
    BY <1>0, <1>1, <2>1 DEF Marks
<1>7. ReadSound'
  <2>1. /\ check'.pc \notin Running /\ check'.pc \notin AtKey
        /\ \A k, kind : ~ ToDo(check', k, kind)
    BY <1>2 DEF Running, AtKey, ToDo
  <2>2. QED
    BY <2>1 DEF ReadSound
<1>8. InTime'
  <2>. SUFFICES ASSUME NEW k \in ApiKey, NEW kind \in K!Kinds, Awaits(k, kind)'
                PROVE  /\ now' >= Due(k, kind)' + 2 => mails[k][kind] > 0
                       /\ now' = Due(k, kind)' + 1 /\ Odd' => mails[k][kind] > 0
                       /\ ~ Odd' => check'.pc = "due"
    BY <1>1 DEF InTime
  <2>1. /\ Awaits(k, kind) /\ Due(k, kind)' = Due(k, kind)
        /\ since # None /\ keys[k] # None /\ keys[k].expires # None
    BY <1>1 DEF Awaits, Due
  <2>2. since \in Nat /\ Due(k, kind) \in Int
    <3>1. keys[k] \in K!Row
      BY <1>0, <2>1, OneKeyRow
    <3>2. keys[k].expires \in Nat /\ since \in Nat
      BY <1>0, <2>1, <3>1, KeyRowTyped, KeysTyped, KeyConstants
    <3>3. K!Lead[kind] \in Nat
      BY KeyConstants
    <3>4. QED
      BY <3>2, <3>3 DEF Due
  <2>3. (Odd' <=> ~ Odd) /\ (~ Odd' => (now' - since) % 2 = 0)
    <3>1. \A x \in Int : /\ x % 2 = 0 \/ x % 2 = 1
                         /\ (x + 1) % 2 = 1 <=> x % 2 # 1
      OBVIOUS
    <3>2. now - since \in Int /\ now' - since = (now - since) + 1 /\ now' - since \in Int
      BY <1>1, <1>3, <2>2
    <3>3. QED
      BY <1>1, <3>1, <3>2 DEF Odd
  <2>4. ~ Odd' => check'.pc = "due"
    BY <1>2, <2>1, <2>3
  <2>5. ~ ToDo(check, k, kind) /\ check.pc # "due"
    BY <1>1, Resting
  <2>6. now' = Due(k, kind) + 1 /\ Odd' => mails[k][kind] > 0
    <3>. SUFFICES ASSUME now' = Due(k, kind) + 1, Odd' PROVE mails[k][kind] > 0
      OBVIOUS
    <3>1. now = Due(k, kind) /\ ~ Odd
      BY <1>1, <1>3, <2>2, <2>3
    <3>2. QED
      BY <1>0, <2>1, <2>5, <3>1 DEF InTime
  <2>7. now' >= Due(k, kind) + 2 => mails[k][kind] > 0
    <3>. SUFFICES ASSUME now' >= Due(k, kind) + 2 PROVE mails[k][kind] > 0
      OBVIOUS
    <3>1. now = Due(k, kind) + 1 \/ now >= Due(k, kind) + 2
      BY <1>1, <1>3, <2>2
    <3>2. QED
      BY <1>0, <2>1, <2>5, <3>1 DEF InTime
  <2>8. QED
    BY <2>1, <2>4, <2>6, <2>7
<1>9. QED
  BY <1>4, <1>5, <1>6, <1>7, <1>8, Zenon DEF KeysInv

\* A failure, a crash and a start end the calm: no key waits that was due.
LEMMA Disturbed ==
  ASSUME KeysInv,
         UNCHANGED <<now, keys, served, made, ended, mails>>,
         calls' \subseteq ApiKey, errors' \in 0 .. MaxErrors,
         since' \in {since, now, None}, calm' = now, check' \in K!Check,
         unmarked \subseteq unmarked',
         \A kind \in K!Kinds : check.pc = K!Mark[kind] => check.key \in unmarked',
         \/ check'.pc \in {"idle", "due"}
         \/ /\ check.pc \in AtKey /\ check'.pc \in {"last", "next"}
            /\ check'.rows = check.rows /\ check'.key = check.key
            /\ check'.read = check.read
            /\ check'.pc = "last" => check.pc \in {"early", "mark_early"}
  PROVE  KeysInv'
<1>0. K!TypeOK /\ KeyHistory /\ KeyRows /\ Marks /\ ReadSound /\ Few /\ InTime
  BY KeysHas
<1>1. now \in 0 .. LastTime /\ now \in Nat /\ since \in 0 .. LastTime \cup {None}
  BY <1>0, KeysTyped, KeyConstants
<1>2. since' \in 0 .. LastTime \cup {None} /\ (since' # None => since' <= now)
  <2>1. since # None => since \in Nat /\ calm \in Nat /\ since <= calm /\ calm <= now
    BY <1>0, <1>1, KeyConstants DEF KeyHistory
  <2>2. QED
    BY <1>1, <2>1
<1>3. K!TypeOK'
  BY <1>0, <1>2, Zenon DEF K!TypeOK
<1>4. KeyHistory'
  BY <1>0, <1>1, <1>2 DEF KeyHistory
<1>5. KeyRows' /\ Few'
  BY <1>0 DEF KeyRows, Few
<1>6. Marks'
  <2>1. \A kind \in K!Kinds : check'.pc # K!Mark[kind]
    BY DEF K!Kinds, K!Mark
  <2>2. QED
    BY <1>0, <2>1 DEF Marks
<1>7. ReadSound'
  <2>1. CASE check'.pc \in {"idle", "due"}
    <3>1. /\ check'.pc \notin Running /\ check'.pc \notin AtKey
          /\ \A k, kind : ~ ToDo(check', k, kind)
      BY <2>1 DEF Running, AtKey, ToDo
    <3>2. QED
      BY <3>1 DEF ReadSound
  <2>2. CASE /\ check.pc \in AtKey /\ check'.pc \in {"last", "next"}
             /\ check'.rows = check.rows /\ check'.key = check.key
             /\ check'.read = check.read
             /\ check'.pc = "last" => check.pc \in {"early", "mark_early"}
    <3>1. \A k \in ApiKey : ReadOf(check, k) => ReadOf(check, k)'
      BY <2>2 DEF ReadOf
    <3>2. check.rows \subseteq ApiKey /\ check.pc \in Running
      BY <1>0, <2>2, CheckTyped DEF AtKey
    <3>3. \A k, kind : ToDo(check', k, kind) => ToDo(check, k, kind)
      BY <2>2, <3>2 DEF ToDo
    <3>4. check'.pc \in Running => \A k \in check'.rows : ReadOf(check, k)'
      BY <1>0, <2>2, <3>1, <3>2 DEF ReadSound
    <3>5. check'.key \in ApiKey /\ check'.key \notin check'.rows /\ ReadOf(check, check.key)'
      BY <1>0, <2>2, <3>1 DEF ReadSound
    <3>6. \A k \in ApiKey, kind \in K!Kinds :
            ToDo(check', k, kind) /\ k \notin unmarked' /\ mails'[k][kind] > 0
              => kind \in check'.read[k].notified
      BY <1>0, <2>2, <3>3 DEF ReadSound
    <3>7. QED
      BY <3>4, <3>5, <3>6, Zenon DEF ReadSound
  <2>3. QED
    BY <2>1, <2>2
<1>8. InTime'
  <2>1. ASSUME NEW k \in ApiKey, NEW kind \in K!Kinds, Awaits(k, kind)'
        PROVE  Due(k, kind)' \in Int /\ now' < Due(k, kind)'
    <3>1. /\ keys[k] # None /\ keys[k].expires # None
          /\ now + 1 + K!Lead[kind] <= keys[k].expires
          /\ Due(k, kind)' = keys[k].expires - K!Lead[kind]
      BY <2>1 DEF Awaits, Due
    <3>2. keys[k].expires \in Nat /\ K!Lead[kind] \in Nat
      BY <1>0, <3>1, OneKeyRow, KeyRowTyped, KeyConstants
    <3>3. QED
      BY <1>1, <3>1, <3>2
  <2>2. QED
    BY <1>1, <2>1 DEF InTime
<1>9. QED
  BY <1>3, <1>4, <1>5, <1>6, <1>7, <1>8, Zenon DEF KeysInv

LEMMA UnmarkedGrows ==
  ASSUME NEW x, x = K!Unmarked
  PROVE  /\ unmarked \subseteq x
         /\ \A kind \in K!Kinds : check.pc = K!Mark[kind] => check.key \in x
BY DEF K!Unmarked

LEMMA CheckFailKeeps ==
  ASSUME KeysInv, K!Fail
  PROVE  KeysInv'
<1>0. K!TypeOK
  BY KeysHas
<1>. DEFINE p == IF check.pc \in {"early", "mark_early"} THEN "last" ELSE "next"
<1>1. /\ check.pc \notin {"idle", "next"} /\ errors < MaxErrors /\ errors' = errors + 1
      /\ check' = IF check.pc = "due" THEN K!NoCheck ELSE [check EXCEPT !.pc = p]
      /\ calm' = now /\ unmarked' = K!Unmarked
      /\ UNCHANGED <<now, keys, since, calls, served, made, ended, mails>>
  BY DEF K!Fail
<1>2. errors' \in 0 .. MaxErrors /\ calls' \subseteq ApiKey
  BY <1>0, <1>1, KeysTyped, KeyConstants
<1>3. /\ unmarked \subseteq unmarked'
      /\ \A kind \in K!Kinds : check.pc = K!Mark[kind] => check.key \in unmarked'
  BY <1>1, UnmarkedGrows
<1>4. CASE check.pc = "due"
  <2>1. check' \in K!Check /\ check'.pc = "idle"
    BY <1>1, <1>4, NoCheckIs
  <2>2. QED
    BY <1>1, <1>2, <1>3, <2>1, Disturbed
<1>5. CASE check.pc # "due"
  <2>1. check.pc \in AtKey
    BY <1>0, <1>1, <1>5, CheckTyped DEF AtKey, Running
  <2>2. p \in {"last", "next"} /\ (p = "last" => check.pc \in {"early", "mark_early"})
    OBVIOUS
  <2>3. check' = [check EXCEPT !.pc = p]
    BY <1>1, <1>5
  <2>. HIDE DEF p
  <2>4. /\ check' \in K!Check /\ check'.pc = p /\ check'.rows = check.rows
        /\ check'.key = check.key /\ check'.read = check.read
    BY <1>0, <2>2, <2>3, CheckGoes
  <2>5. QED
    BY <1>1, <1>2, <1>3, <2>1, <2>2, <2>4, Disturbed
<1>6. QED
  BY <1>4, <1>5

LEMMA CrashKeeps ==
  ASSUME KeysInv, K!Crash
  PROVE  KeysInv'
<1>0. K!TypeOK
  BY KeysHas
<1>1. /\ errors < MaxErrors /\ errors' = errors + 1
      /\ since' = None /\ check' = K!NoCheck /\ calls' = {}
      /\ calm' = now /\ unmarked' = K!Unmarked
      /\ UNCHANGED <<now, keys, served, made, ended, mails>>
  BY DEF K!Crash
<1>2. errors' \in 0 .. MaxErrors /\ calls' \subseteq ApiKey
  BY <1>0, <1>1, KeysTyped, KeyConstants
<1>3. /\ unmarked \subseteq unmarked'
      /\ \A kind \in K!Kinds : check.pc = K!Mark[kind] => check.key \in unmarked'
  BY <1>1, UnmarkedGrows
<1>4. check' \in K!Check /\ check'.pc = "idle" /\ since' \in {since, now, None}
  BY <1>1, NoCheckIs
<1>5. QED
  BY <1>1, <1>2, <1>3, <1>4, Disturbed

LEMMA CheckStartKeeps ==
  ASSUME KeysInv, K!Start
  PROVE  KeysInv'
<1>0. K!TypeOK
  BY KeysHas
<1>1. /\ check.pc = "idle" /\ since' = now /\ calm' = now
      /\ check' = [K!NoCheck EXCEPT !.pc = "due"]
      /\ UNCHANGED <<now, keys, calls, served, errors, made, ended, mails, unmarked>>
  BY DEF K!Start
<1>2. errors' \in 0 .. MaxErrors /\ calls' \subseteq ApiKey
  BY <1>0, <1>1, KeysTyped
<1>3. /\ unmarked \subseteq unmarked'
      /\ \A kind \in K!Kinds : check.pc = K!Mark[kind] => check.key \in unmarked'
  BY <1>1 DEF K!Kinds, K!Mark
<1>4. check' \in K!Check /\ check'.pc = "due" /\ since' \in {since, now, None}
  BY <1>1, NoCheckIs
<1>5. QED
  BY <1>1, <1>2, <1>3, <1>4, Disturbed

-----------------------------------------------------------------------------
LEMMA InitKeys ==
  ASSUME K!Init, now = 0, served = 0
  PROVE  KeysInv
<1>1. /\ keys = [k \in ApiKey |-> None] /\ since = 0
      /\ check = [K!NoCheck EXCEPT !.pc = "due"] /\ calls = {} /\ errors = 0
      /\ made = [k \in ApiKey |-> None] /\ ended = {}
      /\ mails = [k \in ApiKey |-> [kind \in K!Kinds |-> 0]] /\ calm = 0 /\ unmarked = {}
  BY DEF K!Init
<1>2. check \in K!Check /\ check.pc = "due"
  BY <1>1, NoCheckIs
<1>3. K!TypeOK
  <2>1. keys \in [ApiKey -> K!Row \cup {None}]
    <3>. HIDE DEF K!Row
    <3>1. QED
      BY <1>1
  <2>2. /\ now \in 0 .. LastTime /\ since \in 0 .. LastTime \cup {None}
        /\ calls \subseteq ApiKey /\ served \in 0 .. MaxCalls /\ errors \in 0 .. MaxErrors
    BY <1>1, KeyConstants
  <2>3. QED
    BY <1>2, <2>1, <2>2, Zenon DEF K!TypeOK
<1>4. \A k \in ApiKey, kind \in K!Kinds : mails[k][kind] = 0 /\ keys[k] = None
  BY <1>1
<1>5. KeyHistory
  BY <1>1 DEF KeyHistory
<1>6. KeyRows /\ Marks /\ Few
  <2>1. \A kind \in K!Kinds : check.pc # K!Mark[kind]
    BY <1>2 DEF K!Kinds, K!Mark
  <2>2. QED
    BY <1>1, <1>4, <2>1 DEF KeyRows, Marks, Few
<1>7. ReadSound
  <2>1. /\ check.pc \notin Running /\ check.pc \notin AtKey
        /\ \A k, kind : ~ ToDo(check, k, kind)
    BY <1>2 DEF Running, AtKey, ToDo
  <2>2. QED
    BY <2>1 DEF ReadSound
<1>8. InTime
  BY <1>4 DEF InTime, Awaits
<1>9. QED
  BY <1>3, <1>5, <1>6, <1>7, <1>8, Zenon DEF KeysInv

LEMMA NextKeys ==
  ASSUME KeysInv, K!Next
  PROVE  KeysInv'
<1>1. ASSUME NEW k \in ApiKey, NEW app \in App \cup {None},
             NEW e \in 0 .. LastTime + 1 \cup {None}, K!ApiKeyCreate(k, app, e)
      PROVE  KeysInv'
  BY <1>1, KeyCreateKeeps
<1>2. ASSUME NEW k \in ApiKey,
             K!ApiKeyRevoke(k) \/ K!ApiKeyDelete(k) \/ K!UpdateApiKeyLastUsed(k)
      PROVE  KeysInv'
  BY <1>2, RevokeKeeps, KeyDeleteKeeps, LastUsedKeeps
<1>3. ASSUME NEW k \in ApiKey, K!AdminAuthMiddleware(k)
      PROVE  KeysInv'
  BY <1>3, AdmitKeeps DEF K!AdminAuthMiddleware
<1>4. ASSUME NEW k \in ApiKey, NEW header, NEW route,
             K!AppApiKeyMiddleware(k, header, route)
      PROVE  KeysInv'
  BY <1>4, AdmitKeeps DEF K!AppApiKeyMiddleware
<1>5. ASSUME NEW kind \in K!Kinds, K!SendNotification(kind) \/ K!MarkApiKeyNotified(kind)
      PROVE  KeysInv'
  BY <1>5, SendsKeeps, PassesKeeps, MarkKeeps, Zenon
<1>6. CASE K!RunCheck \/ K!NextKey \/ K!Tick \/ K!Fail \/ K!Crash \/ K!Start
  BY <1>6, RunCheckKeeps, NextKeyKeeps, TickKeeps, CheckFailKeeps, CrashKeeps,
    CheckStartKeeps
<1>7. QED
  BY <1>1, <1>2, <1>3, <1>4, <1>5, <1>6, Zenon DEF K!Next

LEMMA StillKeys ==
  ASSUME KeysInv, UNCHANGED <<keyVars, now, served, errors>>
  PROVE  KeysInv'
<1>0. K!TypeOK
  BY KeysHas
<1>1. UNCHANGED <<now, keys, since, check, calls, served, errors, made, ended, mails, calm,
                  unmarked>>
  BY DEF keyVars
<1>2. calls' \subseteq ApiKey /\ served' \in 0 .. MaxCalls /\ errors' \in 0 .. MaxErrors
  BY <1>0, <1>1, KeysTyped
<1>3. QED
  BY <1>1, <1>2, KeysStay

LEMMA WhatIsKept ==
  ASSUME KeysInv
  PROVE  K!KeysKept
<1>0. K!TypeOK /\ KeyHistory /\ KeyRows /\ Few /\ InTime
  BY KeysHas
<1>1. K!RevokedForEver
  BY <1>0 DEF KeyHistory, KeyRows, K!RevokedForEver, K!Present
<1>2. K!WarnedOnce
  BY <1>0 DEF Few, K!WarnedOnce
<1>3. K!WarnedInTime
  <2>. SUFFICES ASSUME NEW k \in ApiKey, NEW kind \in K!Kinds, Awaits(k, kind),
                       now + K!Lead[kind] >= keys[k].expires + 2
                PROVE  mails[k][kind] > 0
    BY DEF K!WarnedInTime, K!Present, Awaits
  <2>1. /\ keys[k].expires \in Nat /\ K!Lead[kind] \in Nat /\ now \in Nat
    BY <1>0, OneKeyRow, KeyRowTyped, KeysTyped, KeyConstants DEF Awaits
  <2>2. now >= Due(k, kind) + 2
    BY <2>1 DEF Due
  <2>3. QED
    BY <1>0, <2>2 DEF InTime
<1>4. QED
  BY <1>0, <1>1, <1>2, <1>3, Zenon DEF K!KeysKept

\* A revoked key stays out, and one that expires is warned of in time and once, whatever
\* goroutines, restarts and failures the daily check overlaps with
\* (internal/admin/repository.go:1127, internal/admin/apikey_notification.go:96, 104).
THEOREM KeysAreKept == AllSpec => []KeysKept
<1>. DEFINE Inv == part = "keys" => KeysInv
            all == <<part, shared, cleanupVars, emailVars, fleetVars, orderVars, keyVars,
                     appVars, adminVars, importVars, settingVars>>
<1>1. AllInit => Inv
  BY InitKeys DEF AllInit
<1>2. Inv /\ [AllNext]_all => Inv'
  <2>. SUFFICES ASSUME Inv, [AllNext]_all, part' = "keys" PROVE KeysInv'
    OBVIOUS
  <2>1. CASE ApiKeys
    BY <2>1, NextKeys DEF ApiKeys
  <2>2. CASE UNCHANGED all
    BY <2>2, StillKeys DEF shared
  <2>3. CASE \/ EmailConfig \/ Fleet \/ WorkOrders \/ Applications \/ Settings
             \/ AdminAccounts \/ UserImport \/ LogCleanup
    BY <2>3 DEF EmailConfig, Fleet, WorkOrders, Applications, Settings, AdminAccounts,
      UserImport, LogCleanup
  <2>4. QED
    BY <2>1, <2>2, <2>3, Zenon DEF AllNext
<1>3. Inv => KeysKept
  BY WhatIsKept DEF KeysKept
<1>4. QED
  BY <1>1, <1>2, <1>3, PTL DEF AllSpec

-----------------------------------------------------------------------------
(***************************************************************************)
(* AlertsMatch of Fleet, for any distances, times and number of requests   *)
(* and failures.                                                           *)
(*                                                                         *)
(* A step is alerted once since samples that come in order compare with    *)
(* the row of the greatest distance: rows of one time are of one distance  *)
(* (Seen), so that the row of the latest time is that row (InOrder).  That *)
(* alerts stay within their bound is a count: each is the share of a       *)
(* request that is over (Raised).                                          *)
(***************************************************************************)

Busy(req) == {r \in Req : req[r].pc # "idle"}

\* What a request is about.
FleetRequests ==
  \A r \in Req :
    /\ fleetReq[r].pc # "idle" => fleetReq[r].sample \in F!Sample
    /\ fleetReq[r].pc = "create" =>
         fleetReq[r].last = None \/ fleetReq[r].last \in telemetry

Raised ==
  /\ IsFiniteSet(Busy(fleetReq))
  /\ \A s \in 0 .. F!Step(MaxKm) : alerts[s] + Cardinality(Busy(fleetReq)) <= now

\* Samples of one time are one sample.
Seen(x) ==
  x \in readings \/ x \in telemetry \/ \E r \in Busy(fleetReq) : x = fleetReq[r].sample
OneSample ==
  /\ \A x \in F!Sample : Seen(x) => x.time <= now
  /\ \A x, y \in F!Sample : Seen(x) /\ Seen(y) /\ x.time = y.time => x.km = y.km

\* Samples that came in order, one at a time.
InOrder ==
  /\ \A r, s \in Req : r # s => fleetReq[r].pc = "idle" \/ fleetReq[s].pc = "idle"
  /\ \A t, u \in telemetry : t.time <= u.time => t.km <= u.km
  /\ \A r \in Req, t \in telemetry :
       /\ fleetReq[r].pc \in {"last", "create"} =>
            t.km <= fleetReq[r].sample.km /\ t.time <= fleetReq[r].sample.time
       /\ fleetReq[r].pc = "create" =>
            fleetReq[r].last # None /\ t.time <= fleetReq[r].last.time
  /\ \A s \in 0 .. F!Step(MaxKm) :
       alerts[s] > 0 => alerts[s] = 1 /\ \E t \in telemetry : F!Step(t.km) = s
  /\ \A r \in Req :
       fleetReq[r].pc = "alert" =>
         fleetReq[r].sample \in telemetry /\ alerts[F!Step(fleetReq[r].sample.km)] = 0

FleetInv ==
  /\ F!TypeOK /\ FleetRequests /\ Raised /\ OneSample /\ F!HighestAlerted
  /\ overlap \in BOOLEAN /\ (~ overlap => InOrder)

-----------------------------------------------------------------------------
LEMMA FleetConstants ==
  /\ StepKm \in Nat /\ StepKm > 0 /\ MaxKm \in Nat /\ None \notin Nat
  /\ MaxTime \in Nat /\ MaxErrors \in Nat
<1>1. F!FleetAssumption
  BY ConsoleAssumption, Zenon
<1>2. QED
  BY <1>1 DEF F!FleetAssumption

\* Steps count the multiples of 5000 km.
LEMMA StepsGrow ==
  ASSUME NEW x \in Nat, NEW y \in Nat, x <= y
  PROVE  /\ F!Step(x) \in Nat /\ F!Step(y) \in Nat /\ F!Step(x) <= F!Step(y)
         /\ x < StepKm => F!Step(x) = 0
         /\ F!Step(0) = 0
BY FleetConstants, SMTT(60) DEF F!Step

LEMMA FleetHas ==
  ASSUME FleetInv
  PROVE  /\ F!TypeOK /\ FleetRequests /\ Raised /\ OneSample /\ F!HighestAlerted
         /\ overlap \in BOOLEAN /\ (~ overlap => InOrder)
BY Zenon DEF FleetInv

LEMMA FleetTyped ==
  ASSUME F!TypeOK
  PROVE  /\ vehicle \in BOOLEAN /\ now \in 0 .. MaxTime /\ now \in Nat
         /\ odometer \in 0 .. MaxKm
         /\ readings \subseteq F!Sample /\ telemetry \subseteq F!Sample
         /\ fleetReq \in [Req -> F!Request] /\ errors \in 0 .. MaxErrors
         /\ DOMAIN alerts = 0 .. F!Step(MaxKm)
         /\ \A s \in 0 .. F!Step(MaxKm) : alerts[s] \in 0 .. MaxTime /\ alerts[s] \in Nat
<1>1. /\ vehicle \in BOOLEAN /\ now \in 0 .. MaxTime /\ odometer \in 0 .. MaxKm
      /\ readings \subseteq F!Sample /\ telemetry \subseteq F!Sample
      /\ fleetReq \in [Req -> F!Request] /\ errors \in 0 .. MaxErrors
      /\ DOMAIN alerts = 0 .. F!Step(MaxKm)
      /\ \A s \in DOMAIN alerts : alerts[s] \in 0 .. MaxTime
  BY Zenon DEF F!TypeOK
<1>2. \A n \in 0 .. MaxTime : n \in Nat
  BY FleetConstants
<1>3. QED
  BY <1>1, <1>2

LEMMA FleetRequestTyped ==
  ASSUME F!TypeOK, NEW r \in Req
  PROVE  /\ fleetReq[r] \in F!Request
         /\ fleetReq[r].pc \in {"idle", "last", "create", "alert"}
         /\ fleetReq[r].sample \in F!Sample \cup {None}
         /\ fleetReq[r].last \in F!Sample \cup {None}
<1>1. fleetReq[r] \in F!Request
  <2>. HIDE DEF F!Request
  <2>1. QED
    BY FleetTyped
<1>2. QED
  BY <1>1 DEF F!Request

LEMMA SampleTyped ==
  ASSUME NEW x \in F!Sample
  PROVE  /\ x.time \in 1 .. MaxTime /\ x.time \in Nat /\ x.km \in 1 .. MaxKm /\ x.km \in Nat
         /\ F!Step(x.km) \in 0 .. F!Step(MaxKm) /\ F!Step(x.km) \in Nat
<1>1. x.time \in 1 .. MaxTime /\ x.km \in 1 .. MaxKm
  BY DEF F!Sample, F!Time, F!Km
<1>2. x.km \in Nat /\ x.km <= MaxKm /\ x.time \in Nat
  BY <1>1, FleetConstants
<1>3. F!Step(x.km) \in Nat /\ F!Step(MaxKm) \in Nat /\ F!Step(x.km) <= F!Step(MaxKm)
  BY <1>2, FleetConstants, StepsGrow
<1>4. QED
  BY <1>1, <1>2, <1>3

LEMMA FleetIdle ==
  F!Idle \in F!Request /\ F!Idle.pc = "idle" /\ F!Idle.sample = None
BY DEF F!Idle, F!Request

LEMMA FleetGoes ==
  ASSUME F!TypeOK, NEW r \in Req, NEW x \in F!Request,
         fleetReq' = [fleetReq EXCEPT ![r] = x]
  PROVE  /\ fleetReq' \in [Req -> F!Request] /\ fleetReq'[r] = x
         /\ \A s \in Req : s # r => fleetReq'[s] = fleetReq[s]
<1>1. fleetReq \in [Req -> F!Request]
  BY FleetTyped
<1>. HIDE DEF F!Request
<1>2. QED
  BY <1>1

\* How many requests are at work.
LEMMA BusyMoves ==
  ASSUME IsFiniteSet(Busy(fleetReq)), NEW r \in Req,
         \A s \in Req : s # r => fleetReq'[s] = fleetReq[s]
  PROVE  /\ IsFiniteSet(Busy(fleetReq')) /\ Cardinality(Busy(fleetReq)) \in Nat
         /\ Cardinality(Busy(fleetReq')) \in Nat
         /\ fleetReq[r].pc = "idle" =>
              Cardinality(Busy(fleetReq')) <= Cardinality(Busy(fleetReq)) + 1
         /\ fleetReq[r].pc # "idle" =>
              Cardinality(Busy(fleetReq')) <= Cardinality(Busy(fleetReq))
         /\ fleetReq[r].pc # "idle" /\ fleetReq'[r].pc = "idle" =>
              Cardinality(Busy(fleetReq')) = Cardinality(Busy(fleetReq)) - 1
<1>. DEFINE old == Busy(fleetReq)
            new == Busy(fleetReq')
<1>1. IsFiniteSet(old) /\ Cardinality(old) \in Nat
  BY FS_CardinalityType
<1>2. new \subseteq old \cup {r} /\ (fleetReq[r].pc # "idle" => r \in old)
      /\ (fleetReq[r].pc = "idle" => r \notin old)
      /\ (fleetReq[r].pc # "idle" /\ fleetReq'[r].pc = "idle" => new = old \ {r})
  BY DEF Busy
<1>. HIDE DEF old, new
<1>3. /\ IsFiniteSet(old \cup {r})
      /\ r \notin old => Cardinality(old \cup {r}) = Cardinality(old) + 1
      /\ IsFiniteSet(old \ {r})
      /\ r \in old => Cardinality(old \ {r}) = Cardinality(old) - 1
  BY <1>1, FS_AddElement, FS_RemoveElement
<1>4. IsFiniteSet(new) /\ Cardinality(new) \in Nat
      /\ Cardinality(new) <= Cardinality(old \cup {r})
  BY <1>2, <1>3, FS_Subset, FS_CardinalityType
<1>5. r \in old => old \cup {r} = old
  OBVIOUS
<1>6. /\ IsFiniteSet(new) /\ Cardinality(old) \in Nat /\ Cardinality(new) \in Nat
      /\ fleetReq[r].pc = "idle" => Cardinality(new) <= Cardinality(old) + 1
      /\ fleetReq[r].pc # "idle" => Cardinality(new) <= Cardinality(old)
      /\ fleetReq[r].pc # "idle" /\ fleetReq'[r].pc = "idle" =>
           Cardinality(new) = Cardinality(old) - 1
  BY <1>1, <1>2, <1>3, <1>4, <1>5
<1>7. QED
  BY <1>6 DEF old, new

\* The requests, the rows and the alerts stay.
LEMMA FleetStays ==
  ASSUME FleetInv, vehicle' \in BOOLEAN,
         UNCHANGED <<now, odometer, readings, telemetry, fleetReq, errors, alerts, lost,
                     overlap>>
  PROVE  FleetInv'
<1>0. /\ F!TypeOK /\ FleetRequests /\ Raised /\ OneSample /\ F!HighestAlerted
      /\ overlap \in BOOLEAN /\ (~ overlap => InOrder)
  BY FleetHas
<1>1. F!TypeOK'
  BY <1>0, Zenon DEF F!TypeOK
<1>2. FleetRequests'
  BY <1>0 DEF FleetRequests
<1>3. Raised'
  BY <1>0 DEF Raised, Busy
<1>4. OneSample'
  BY <1>0 DEF OneSample, Seen, Busy
<1>5. F!HighestAlerted'
  BY <1>0 DEF F!HighestAlerted, F!At
<1>6. overlap' \in BOOLEAN /\ (~ overlap' => InOrder')
  BY <1>0 DEF InOrder
<1>7. QED
  BY <1>1, <1>2, <1>3, <1>4, <1>5, <1>6, Zenon DEF FleetInv

\* A sample of a time that no other has.
LEMMA NewTime ==
  ASSUME OneSample, now \in Nat, now' = now + 1, NEW n \in F!Sample, n.time = now',
         \A x \in F!Sample : Seen(x)' => Seen(x) \/ x = n
  PROVE  OneSample'
<1>1. \A x \in F!Sample : x.time \in Nat
  BY SampleTyped
<1>2. \A x \in F!Sample : Seen(x) => x.time <= now /\ x.time # now'
  BY <1>1 DEF OneSample
<1>3. \A x \in F!Sample : Seen(x)' => x.time <= now'
  BY <1>1, <1>2
<1>4. \A x, y \in F!Sample : Seen(x)' /\ Seen(y)' /\ x.time = y.time => x.km = y.km
  BY <1>2 DEF OneSample
<1>5. QED
  BY <1>3, <1>4 DEF OneSample

-----------------------------------------------------------------------------
LEMMA VehicleKeeps ==
  ASSUME FleetInv, F!CreateVehicle
  PROVE  FleetInv'
<1>0. /\ F!TypeOK /\ FleetRequests /\ Raised /\ OneSample /\ F!HighestAlerted
      /\ overlap \in BOOLEAN /\ (~ overlap => InOrder)
  BY FleetHas
<1>1. /\ vehicle' = TRUE
      /\ UNCHANGED <<now, odometer, readings, telemetry, fleetReq, errors, alerts, lost,
                     overlap>>
  BY DEF F!CreateVehicle, F!history
<1>2. vehicle' \in BOOLEAN
  BY <1>1
<1>3. QED
  BY <1>0, <1>1, <1>2, FleetStays

LEMMA DriveKeeps ==
  ASSUME FleetInv, NEW km \in F!Km, F!Drive(km)
  PROVE  FleetInv'
<1>0. /\ F!TypeOK /\ FleetRequests /\ Raised /\ OneSample /\ F!HighestAlerted
      /\ overlap \in BOOLEAN /\ (~ overlap => InOrder)
  BY FleetHas
<1>. DEFINE n == [time |-> now', km |-> km]
<1>1. /\ now < MaxTime /\ now' = now + 1 /\ odometer' = km /\ readings' = readings \cup {n}
      /\ UNCHANGED <<vehicle, telemetry, fleetReq, errors, alerts, lost, overlap>>
  BY DEF F!Drive, F!history
<1>2. now \in Nat /\ now' \in 1 .. MaxTime /\ now' \in 0 .. MaxTime
  BY <1>0, <1>1, FleetTyped, FleetConstants
<1>3. n \in F!Sample /\ n.time = now'
  BY <1>2 DEF F!Sample, F!Time
<1>. HIDE DEF n
<1>4. F!TypeOK'
  <2>1. readings' \subseteq F!Sample /\ odometer' \in 0 .. MaxKm
    BY <1>0, <1>1, <1>3, FleetTyped DEF F!Km
  <2>2. QED
    BY <1>0, <1>1, <1>2, <2>1, Zenon DEF F!TypeOK
<1>5. FleetRequests'
  BY <1>0, <1>1 DEF FleetRequests
<1>6. Raised'
  <2>1. Cardinality(Busy(fleetReq)) \in Nat
    BY <1>0, FS_CardinalityType DEF Raised
  <2>2. \A s \in 0 .. F!Step(MaxKm) : alerts[s] \in Nat
    BY <1>0, FleetTyped
  <2>3. Busy(fleetReq)' = Busy(fleetReq)
    BY <1>1 DEF Busy
  <2>4. QED
    BY <1>0, <1>1, <1>2, <2>1, <2>2, <2>3 DEF Raised
<1>7. \A x \in F!Sample : Seen(x)' => Seen(x) \/ x = n
  BY <1>1 DEF Seen, Busy
<1>8. OneSample'
  BY <1>0, <1>1, <1>2, <1>3, <1>7, NewTime
<1>9. F!HighestAlerted'
  BY <1>0, <1>1 DEF F!HighestAlerted, F!At
<1>10. overlap' \in BOOLEAN /\ (~ overlap' => InOrder')
  BY <1>0, <1>1 DEF InOrder
<1>11. QED
  BY <1>4, <1>5, <1>6, <1>8, <1>9, <1>10, Zenon DEF FleetInv

\* A sample arrives: in order, or the overlap is noted.
LEMMA RecordKeeps ==
  ASSUME FleetInv, NEW r \in Req, NEW reading \in readings, NEW stamped \in BOOLEAN,
         F!RecordTelemetry(r, reading, stamped)
  PROVE  FleetInv'
<1>0. /\ F!TypeOK /\ FleetRequests /\ Raised /\ OneSample /\ F!HighestAlerted
      /\ overlap \in BOOLEAN /\ (~ overlap => InOrder)
  BY FleetHas
<1>. DEFINE n == IF stamped THEN reading ELSE [reading EXCEPT !.time = now']
            x == [pc |-> "last", sample |-> n, last |-> None]
<1>1. /\ fleetReq[r].pc = "idle" /\ now < MaxTime /\ now' = now + 1
      /\ fleetReq' = [fleetReq EXCEPT ![r] = x]
      /\ overlap' = (overlap \/ \E q \in Req : fleetReq[q].pc # "idle"
                       \/ \E t \in telemetry : t.km > n.km \/ t.time > n.time)
      /\ UNCHANGED <<vehicle, odometer, readings, telemetry, errors, alerts, lost>>
  BY DEF F!RecordTelemetry, F!At
<1>2. now \in Nat /\ now' \in 1 .. MaxTime /\ now' \in 0 .. MaxTime
  BY <1>0, <1>1, FleetTyped, FleetConstants
<1>3. reading \in F!Sample
  BY <1>0, FleetTyped
<1>4. n \in F!Sample /\ (n = reading \/ n.time = now')
  <2>1. CASE stamped
    BY <1>3, <2>1
  <2>2. CASE ~ stamped
    <3>1. n = [reading EXCEPT !.time = now']
      BY <2>2
    <3>2. QED
      BY <1>2, <1>3, <3>1 DEF F!Sample, F!Time
  <2>3. QED
    BY <2>1, <2>2
<1>. HIDE DEF n
<1>5. x \in F!Request /\ x.pc = "last" /\ x.sample = n
  BY <1>4 DEF F!Request
<1>. HIDE DEF x
<1>6. /\ fleetReq' \in [Req -> F!Request] /\ fleetReq'[r] = x
      /\ \A s \in Req : s # r => fleetReq'[s] = fleetReq[s]
  BY <1>0, <1>1, <1>5, FleetGoes
<1>7. F!TypeOK'
  BY <1>0, <1>1, <1>2, <1>6, Zenon DEF F!TypeOK
<1>8. FleetRequests'
  BY <1>0, <1>1, <1>4, <1>5, <1>6 DEF FleetRequests
<1>9. Raised'
  <2>1. IsFiniteSet(Busy(fleetReq))
    BY <1>0 DEF Raised
  <2>2. /\ IsFiniteSet(Busy(fleetReq')) /\ Cardinality(Busy(fleetReq)) \in Nat
        /\ Cardinality(Busy(fleetReq')) \in Nat
        /\ Cardinality(Busy(fleetReq')) <= Cardinality(Busy(fleetReq)) + 1
    BY <1>1, <1>6, <2>1, BusyMoves
  <2>3. \A s \in 0 .. F!Step(MaxKm) : alerts[s] \in Nat
    BY <1>0, FleetTyped
  <2>4. \A s \in 0 .. F!Step(MaxKm) : alerts[s] + Cardinality(Busy(fleetReq')) <= now'
    BY <1>0, <1>1, <1>2, <2>2, <2>3 DEF Raised
  <2>5. QED
    BY <1>1, <2>2, <2>4 DEF Raised, Busy
<1>10. \A y \in F!Sample : Seen(y)' => Seen(y) \/ y = n
  BY <1>1, <1>5, <1>6 DEF Seen, Busy
<1>11. OneSample'
  <2>1. CASE n = reading
    <3>1. Seen(n)
      BY <2>1 DEF Seen
    <3>2. \A y \in F!Sample : Seen(y)' => Seen(y)
      BY <1>10, <3>1
    <3>3. QED
      BY <1>0, <1>1, <1>2, <3>2, SampleTyped DEF OneSample
  <2>2. CASE n.time = now'
    BY <1>0, <1>1, <1>2, <1>4, <1>10, <2>2, NewTime
  <2>3. QED
    BY <1>4, <2>1, <2>2
<1>12. F!HighestAlerted'
  BY <1>0, <1>1, <1>6 DEF F!HighestAlerted, F!At
<1>13. overlap' \in BOOLEAN
  BY <1>0, <1>1
<1>14. ASSUME ~ overlap'
       PROVE  InOrder'
  <2>1. /\ ~ overlap /\ InOrder
        /\ \A q \in Req : fleetReq[q].pc = "idle"
        /\ \A t \in telemetry : ~ (t.km > n.km) /\ ~ (t.time > n.time)
    BY <1>0, <1>1, <1>14
  <2>2. \A t \in telemetry : t.km <= n.km /\ t.time <= n.time
    <3>1. \A t \in telemetry : t.km \in Nat /\ t.time \in Nat
      BY <1>0, FleetTyped, SampleTyped
    <3>2. n.km \in Nat /\ n.time \in Nat
      BY <1>4, SampleTyped
    <3>3. QED
      BY <2>1, <3>1, <3>2
  <2>3. \A s \in Req : fleetReq'[s].pc = IF s = r THEN "last" ELSE "idle"
    BY <1>5, <1>6, <2>1
  <2>4. fleetReq'[r].sample = n
    BY <1>5, <1>6
  <2>5. QED
    BY <1>1, <2>1, <2>2, <2>3, <2>4 DEF InOrder
<1>15. QED
  BY <1>7, <1>8, <1>9, <1>11, <1>12, <1>13, <1>14, Zenon DEF FleetInv

LEMMA LastKeeps ==
  ASSUME FleetInv, NEW r \in Req, F!LastForVehicle(r)
  PROVE  FleetInv'
<1>0. /\ F!TypeOK /\ FleetRequests /\ Raised /\ OneSample /\ F!HighestAlerted
      /\ overlap \in BOOLEAN /\ (~ overlap => InOrder)
  BY FleetHas
<1>1. PICK last \in telemetry \cup {None} :
        /\ last = None => telemetry = {}
        /\ \A t \in telemetry : t.time <= last.time
        /\ fleetReq' = [fleetReq EXCEPT ![r].pc = "create", ![r].last = last]
  BY DEF F!LastForVehicle
<1>2. /\ fleetReq[r].pc = "last"
      /\ UNCHANGED <<vehicle, now, odometer, readings, telemetry, errors, alerts, lost,
                     overlap>>
  BY DEF F!LastForVehicle, F!At, F!history
<1>. DEFINE x == [fleetReq[r] EXCEPT !.pc = "create", !.last = last]
<1>3. last \in F!Sample \cup {None} /\ fleetReq[r] \in F!Request
  BY <1>0, <1>1, FleetTyped, FleetRequestTyped
<1>4. /\ x \in F!Request /\ x.pc = "create" /\ x.sample = fleetReq[r].sample
      /\ x.last = last
  BY <1>3 DEF F!Request
<1>5. fleetReq' = [fleetReq EXCEPT ![r] = x]
  <2>1. fleetReq \in [Req -> F!Request]
    BY <1>0, FleetTyped
  <2>2. QED
    BY <1>1, <2>1 DEF F!Request
<1>. HIDE DEF x
<1>6. /\ fleetReq' \in [Req -> F!Request] /\ fleetReq'[r] = x
      /\ \A s \in Req : s # r => fleetReq'[s] = fleetReq[s]
  BY <1>0, <1>4, <1>5, FleetGoes
<1>7. F!TypeOK'
  BY <1>0, <1>2, <1>6, Zenon DEF F!TypeOK
<1>8. FleetRequests'
  BY <1>0, <1>1, <1>2, <1>4, <1>6 DEF FleetRequests
<1>9. Busy(fleetReq)' = Busy(fleetReq)
  BY <1>2, <1>4, <1>6 DEF Busy
<1>10. Raised'
  BY <1>0, <1>2, <1>9 DEF Raised
<1>11. \A y \in F!Sample : Seen(y)' => Seen(y)
  <2>1. \A s \in Req : fleetReq'[s].sample = fleetReq[s].sample
    BY <1>4, <1>6
  <2>2. Busy(fleetReq) \subseteq Req /\ Busy(fleetReq') = Busy(fleetReq)
    BY <1>9 DEF Busy
  <2>3. QED
    BY <1>2, <2>1, <2>2 DEF Seen
<1>12. OneSample'
  BY <1>0, <1>2, <1>11 DEF OneSample
<1>13. F!HighestAlerted'
  BY <1>0, <1>2, <1>4, <1>6 DEF F!HighestAlerted, F!At
<1>14. ASSUME ~ overlap' PROVE InOrder'
  <2>1. InOrder
    BY <1>0, <1>2, <1>14
  <2>2. /\ \A q, s \in Req : q # s => fleetReq'[q].pc = "idle" \/ fleetReq'[s].pc = "idle"
        /\ \A t, u \in telemetry' : t.time <= u.time => t.km <= u.km
    BY <1>2, <1>4, <1>6, <2>1 DEF InOrder
  <2>3. \A q \in Req, t \in telemetry' :
          /\ fleetReq'[q].pc \in {"last", "create"} =>
               t.km <= fleetReq'[q].sample.km /\ t.time <= fleetReq'[q].sample.time
          /\ fleetReq'[q].pc = "create" =>
               fleetReq'[q].last # None /\ t.time <= fleetReq'[q].last.time
    BY <1>1, <1>2, <1>4, <1>6, <2>1 DEF InOrder
  <2>4. \A s \in 0 .. F!Step(MaxKm) :
          alerts'[s] > 0 => alerts'[s] = 1 /\ \E t \in telemetry' : F!Step(t.km) = s
    BY <1>2, <2>1 DEF InOrder
  <2>5. \A q \in Req :
          fleetReq'[q].pc = "alert" =>
            /\ fleetReq'[q].sample \in telemetry'
            /\ alerts'[F!Step(fleetReq'[q].sample.km)] = 0
    BY <1>2, <1>4, <1>6, <2>1 DEF InOrder
  <2>6. QED
    BY <2>2, <2>3, <2>4, <2>5 DEF InOrder
<1>15. overlap' \in BOOLEAN
  BY <1>0, <1>2
<1>16. QED
  BY <1>7, <1>8, <1>10, <1>12, <1>13, <1>14, <1>15, Zenon DEF FleetInv

\* The row is stored; its step is that of the last row, or is about to be alerted.
LEMMA StoreKeeps ==
  ASSUME FleetInv, NEW r \in Req, F!Create(r)
  PROVE  FleetInv'
<1>0. /\ F!TypeOK /\ FleetRequests /\ Raised /\ OneSample /\ F!HighestAlerted
      /\ overlap \in BOOLEAN /\ (~ overlap => InOrder)
  BY FleetHas
<1>. DEFINE n == fleetReq[r].sample
            p == fleetReq[r].last
            high == n.km >= StepKm /\ F!Step(n.km) > F!Step(IF p = None THEN 0 ELSE p.km)
<1>1. /\ fleetReq[r].pc = "create" /\ telemetry' = telemetry \cup {n}
      /\ IF high THEN fleetReq' = [fleetReq EXCEPT ![r].pc = "alert"]
         ELSE fleetReq' = [fleetReq EXCEPT ![r] = F!Idle]
      /\ UNCHANGED <<vehicle, now, odometer, readings, errors, alerts, lost, overlap>>
  BY DEF F!Create, F!At, F!Goto, F!Finish, F!ShouldTriggerMaintenance, F!history
<1>2. n \in F!Sample /\ (p = None \/ p \in telemetry) /\ fleetReq[r] \in F!Request
  BY <1>0, <1>1, FleetRequestTyped DEF FleetRequests
<1>3. telemetry \subseteq F!Sample
  BY <1>0, FleetTyped
<1>4. PICK x \in F!Request :
        /\ fleetReq' = [fleetReq EXCEPT ![r] = x]
        /\ IF high THEN x.pc = "alert" /\ x.sample = n ELSE x.pc = "idle"
  <2>1. CASE high
    <3>. DEFINE x == [fleetReq[r] EXCEPT !.pc = "alert"]
    <3>1. x \in F!Request /\ x.pc = "alert" /\ x.sample = n
      BY <1>2 DEF F!Request
    <3>2. fleetReq' = [fleetReq EXCEPT ![r] = x]
      BY <1>1, <2>1
    <3>3. QED
      BY <2>1, <3>1, <3>2
  <2>2. CASE ~ high
    BY <1>1, <2>2, FleetIdle
  <2>3. QED
    BY <2>1, <2>2
<1>5. /\ fleetReq' \in [Req -> F!Request] /\ fleetReq'[r] = x
      /\ \A s \in Req : s # r => fleetReq'[s] = fleetReq[s]
  BY <1>0, <1>4, FleetGoes
<1>6. F!TypeOK'
  <2>1. telemetry' \subseteq F!Sample
    BY <1>1, <1>2, <1>3
  <2>2. QED
    BY <1>0, <1>1, <1>5, <2>1, Zenon DEF F!TypeOK
<1>7. x.pc \in {"alert", "idle"}
  BY <1>4
<1>8. FleetRequests'
  <2>. SUFFICES ASSUME NEW s \in Req
                PROVE  /\ fleetReq'[s].pc # "idle" => fleetReq'[s].sample \in F!Sample
                       /\ fleetReq'[s].pc = "create" =>
                            fleetReq'[s].last = None \/ fleetReq'[s].last \in telemetry'
    BY DEF FleetRequests
  <2>1. CASE s = r
    BY <1>2, <1>4, <1>5, <1>7, <2>1
  <2>2. CASE s # r
    BY <1>0, <1>1, <1>5, <2>2 DEF FleetRequests
  <2>3. QED
    BY <2>1, <2>2
<1>9. Raised'
  <2>1. IsFiniteSet(Busy(fleetReq))
    BY <1>0 DEF Raised
  <2>2. /\ IsFiniteSet(Busy(fleetReq')) /\ Cardinality(Busy(fleetReq)) \in Nat
        /\ Cardinality(Busy(fleetReq')) \in Nat
        /\ Cardinality(Busy(fleetReq')) <= Cardinality(Busy(fleetReq))
    BY <1>1, <1>5, <2>1, BusyMoves
  <2>3. \A s \in 0 .. F!Step(MaxKm) : alerts[s] \in Nat
    BY <1>0, FleetTyped
  <2>4. now \in Nat
    BY <1>0, FleetTyped
  <2>5. \A s \in 0 .. F!Step(MaxKm) : alerts[s] + Cardinality(Busy(fleetReq')) <= now
    BY <1>0, <2>2, <2>3, <2>4 DEF Raised
  <2>6. QED
    BY <1>1, <2>2, <2>5 DEF Raised, Busy
<1>10. \A y \in F!Sample : Seen(y)' => Seen(y)
  <2>1. r \in Busy(fleetReq)
    BY <1>1 DEF Busy
  <2>2. Seen(n)
    BY <2>1 DEF Seen
  <2>3. \A s \in Busy(fleetReq') : s \in Busy(fleetReq)
          /\ fleetReq'[s].sample = fleetReq[s].sample
    <3>. SUFFICES ASSUME NEW s \in Busy(fleetReq')
                  PROVE  s \in Busy(fleetReq) /\ fleetReq'[s].sample = fleetReq[s].sample
      OBVIOUS
    <3>1. s \in Req /\ fleetReq'[s].pc # "idle"
      BY DEF Busy
    <3>2. CASE s = r
      BY <1>4, <1>5, <2>1, <3>1, <3>2
    <3>3. CASE s # r
      BY <1>5, <3>1, <3>3 DEF Busy
    <3>4. QED
      BY <3>2, <3>3
  <2>4. QED
    BY <1>1, <2>2, <2>3 DEF Seen
<1>11. OneSample'
  BY <1>0, <1>1, <1>10 DEF OneSample
<1>12. \A t \in telemetry' : F!Step(t.km) \in Nat /\ t.km \in Nat /\ t.time \in Nat
  BY <1>1, <1>2, <1>3, SampleTyped
<1>13. F!Step(0) = 0 /\ (n.km < StepKm => F!Step(n.km) = 0) /\ n.km \in Nat
  <2>1. n.km \in Nat /\ 0 \in Nat /\ n.km <= n.km
    BY <1>2, SampleTyped
  <2>2. QED
    BY <2>1, StepsGrow
<1>14. F!HighestAlerted'
  <2>. SUFFICES ASSUME NEW t \in telemetry', ~ lost, F!Step(t.km) # 0,
                       \A u \in telemetry' : ~ (F!Step(u.km) > F!Step(t.km)),
                       ~ (alerts[F!Step(t.km)] > 0)
                PROVE  \E s \in Req : /\ fleetReq'[s].pc = "alert"
                                      /\ F!Step(fleetReq'[s].sample.km) = F!Step(t.km)
    BY <1>1 DEF F!HighestAlerted, F!At
  <2>1. ASSUME NEW v \in telemetry, F!Step(v.km) = F!Step(t.km)
        PROVE  \E s \in Req : /\ fleetReq'[s].pc = "alert"
                              /\ F!Step(fleetReq'[s].sample.km) = F!Step(t.km)
    <3>1. PICK s \in Req : /\ fleetReq[s].pc = "alert"
                           /\ F!Step(fleetReq[s].sample.km) = F!Step(t.km)
      BY <1>0, <1>1, <2>1 DEF F!HighestAlerted, F!At
    <3>2. s # r
      BY <1>1, <3>1
    <3>3. fleetReq'[s] = fleetReq[s]
      BY <1>5, <3>2
    <3>4. QED
      BY <3>1, <3>3
  <2>2. CASE t = n
    <3>1. CASE high
      BY <1>4, <1>5, <2>2, <3>1
    <3>2. CASE ~ high
      <4>1. ~ (n.km < StepKm)
        BY <1>13, <2>2
      <4>2. F!Step(n.km) \in Nat /\ n.km >= StepKm
        BY <1>2, <1>13, <4>1, SampleTyped, FleetConstants
      <4>3. ~ (F!Step(n.km) > F!Step(IF p = None THEN 0 ELSE p.km))
        BY <3>2, <4>2
      <4>4. p # None /\ p \in telemetry
        BY <1>2, <1>13, <2>2, <4>2, <4>3
      <4>5. F!Step(p.km) \in Nat /\ F!Step(n.km) <= F!Step(p.km)
        BY <1>1, <1>12, <4>2, <4>3, <4>4
      <4>6. F!Step(p.km) = F!Step(t.km)
        BY <1>1, <2>2, <4>2, <4>4, <4>5
      <4>7. QED
        BY <2>1, <4>4, <4>6
    <3>3. QED
      BY <3>1, <3>2
  <2>3. CASE t \in telemetry
    BY <2>1, <2>3
  <2>4. QED
    BY <1>1, <2>2, <2>3
<1>15. ASSUME ~ overlap' PROVE InOrder'
  <2>1. InOrder
    BY <1>0, <1>1, <1>15
  <2>2. \A s \in Req : s # r => fleetReq[s].pc = "idle" /\ fleetReq'[s].pc = "idle"
    BY <1>1, <1>5, <2>1 DEF InOrder
  <2>3. \A t \in telemetry : t.km <= n.km /\ t.time <= n.time
    BY <1>1, <2>1 DEF InOrder
  <2>4. \A q, s \in Req : q # s => fleetReq'[q].pc = "idle" \/ fleetReq'[s].pc = "idle"
    BY <2>2
  <2>5. \A t, u \in telemetry' : t.time <= u.time => t.km <= u.km
    <3>. SUFFICES ASSUME NEW t \in telemetry', NEW u \in telemetry', t.time <= u.time
                  PROVE  t.km <= u.km
      OBVIOUS
    <3>1. CASE t \in telemetry /\ u \in telemetry
      BY <2>1, <3>1 DEF InOrder
    <3>2. CASE u = n
      BY <1>1, <1>12, <2>3, <3>2
    <3>3. CASE t = n /\ u \in telemetry
      <4>1. u.time = n.time
        BY <1>12, <2>3, <3>3
      <4>2. Seen(n) /\ Seen(u) /\ u \in F!Sample
        <5>1. r \in Busy(fleetReq)
          BY <1>1 DEF Busy
        <5>2. QED
          BY <1>3, <3>3, <5>1 DEF Seen
      <4>3. u.km = n.km
        BY <1>0, <1>2, <4>1, <4>2 DEF OneSample
      <4>4. QED
        BY <1>12, <3>3, <4>3
    <3>4. QED
      BY <1>1, <3>1, <3>2, <3>3
  <2>6. \A s \in Req : fleetReq'[s].pc \notin {"last", "create"}
    BY <1>5, <1>7, <2>2
  <2>7. \A s \in 0 .. F!Step(MaxKm) :
          alerts'[s] > 0 => alerts'[s] = 1 /\ \E t \in telemetry' : F!Step(t.km) = s
    BY <1>1, <2>1 DEF InOrder
  <2>8. ASSUME NEW s \in Req, fleetReq'[s].pc = "alert"
        PROVE  /\ fleetReq'[s].sample \in telemetry'
               /\ alerts'[F!Step(fleetReq'[s].sample.km)] = 0
    <3>1. s = r /\ high /\ fleetReq'[s].sample = n
      BY <1>4, <1>5, <2>2, <2>8
    <3>2. F!Step(n.km) \in 0 .. F!Step(MaxKm) /\ F!Step(n.km) \in Nat
      BY <1>2, SampleTyped
    <3>3. ASSUME alerts[F!Step(n.km)] > 0 PROVE FALSE
      <4>1. PICK t \in telemetry : F!Step(t.km) = F!Step(n.km)
        BY <2>1, <3>2, <3>3 DEF InOrder
      <4>2. p # None /\ t.time <= p.time /\ p \in telemetry
        BY <1>1, <1>2, <2>1 DEF InOrder
      <4>3. t.km <= p.km /\ t.km \in Nat /\ p.km \in Nat
        BY <1>1, <1>12, <2>1, <4>2 DEF InOrder
      <4>4. F!Step(t.km) <= F!Step(p.km) /\ F!Step(p.km) \in Nat
        BY <4>3, StepsGrow
      <4>5. F!Step(n.km) > F!Step(p.km)
        BY <3>1, <4>2
      <4>6. QED
        BY <3>2, <4>1, <4>4, <4>5
    <3>4. alerts[F!Step(n.km)] \in Nat
      BY <1>0, <3>2, FleetTyped
    <3>5. QED
      BY <1>1, <3>1, <3>3, <3>4
  <2>9. QED
    BY <2>4, <2>5, <2>6, <2>7, <2>8 DEF InOrder
<1>16. overlap' \in BOOLEAN
  BY <1>0, <1>1
<1>17. QED
  BY <1>6, <1>8, <1>9, <1>11, <1>14, <1>15, <1>16, Zenon DEF FleetInv

\* A request ends with its alert posted, or with a failure.
LEMMA EndsKeeps ==
  ASSUME FleetInv, NEW r \in Req, F!TriggerMaintenanceAlert(r) \/ F!Fail(r)
  PROVE  FleetInv'
<1>0. /\ F!TypeOK /\ FleetRequests /\ Raised /\ OneSample /\ F!HighestAlerted
      /\ overlap \in BOOLEAN /\ (~ overlap => InOrder)
  BY FleetHas
<1>. DEFINE n == fleetReq[r].sample
            st == F!Step(n.km)
<1>1. /\ fleetReq[r].pc # "idle" /\ fleetReq' = [fleetReq EXCEPT ![r] = F!Idle]
      /\ UNCHANGED <<vehicle, now, odometer, readings, telemetry, overlap>>
  BY DEF F!TriggerMaintenanceAlert, F!Fail, F!At, F!Finish
<1>2. \/ /\ fleetReq[r].pc = "alert" /\ alerts' = [alerts EXCEPT ![st] = @ + 1]
         /\ UNCHANGED <<errors, lost>>
      \/ /\ alerts' = alerts /\ errors < MaxErrors /\ errors' = errors + 1
         /\ lost' = (lost \/ fleetReq[r].pc = "alert")
  BY DEF F!TriggerMaintenanceAlert, F!Fail, F!At
<1>3. n \in F!Sample /\ st \in 0 .. F!Step(MaxKm)
  <2>1. n \in F!Sample
    BY <1>0, <1>1 DEF FleetRequests
  <2>2. QED
    BY <2>1, SampleTyped
<1>. HIDE DEF st
<1>4. /\ fleetReq' \in [Req -> F!Request] /\ fleetReq'[r].pc = "idle"
      /\ \A s \in Req : s # r => fleetReq'[s] = fleetReq[s]
  <2>. HIDE DEF F!Idle
  <2>1. QED
    BY <1>0, <1>1, FleetIdle, FleetGoes
<1>5. errors' \in 0 .. MaxErrors
  <2>1. errors \in 0 .. MaxErrors
    BY <1>0, FleetTyped
  <2>2. QED
    BY <1>2, <2>1, FleetConstants
<1>6. /\ now \in Nat /\ now <= MaxTime /\ DOMAIN alerts = 0 .. F!Step(MaxKm)
      /\ \A s \in 0 .. F!Step(MaxKm) : alerts[s] \in Nat
  <2>1. now \in 0 .. MaxTime /\ now \in Nat
    BY <1>0, FleetTyped
  <2>2. QED
    BY <1>0, <2>1, FleetTyped, FleetConstants
<1>7. /\ DOMAIN alerts' = 0 .. F!Step(MaxKm)
      /\ \A s \in 0 .. F!Step(MaxKm) : s # st => alerts'[s] = alerts[s]
      /\ \/ alerts'[st] = alerts[st] + 1 /\ fleetReq[r].pc = "alert" /\ lost' = lost
         \/ alerts' = alerts
  BY <1>2, <1>3, <1>6
<1>8. \A s \in 0 .. F!Step(MaxKm) :
        alerts'[s] \in Nat /\ alerts'[s] <= alerts[s] + 1 /\ alerts[s] <= alerts'[s]
  BY <1>6, <1>7
<1>9. Raised'
  <2>1. IsFiniteSet(Busy(fleetReq))
    BY <1>0 DEF Raised
  <2>2. /\ IsFiniteSet(Busy(fleetReq')) /\ Cardinality(Busy(fleetReq)) \in Nat
        /\ Cardinality(Busy(fleetReq')) \in Nat
        /\ Cardinality(Busy(fleetReq')) = Cardinality(Busy(fleetReq)) - 1
    BY <1>1, <1>4, <2>1, BusyMoves
  <2>3. \A s \in 0 .. F!Step(MaxKm) :
          alerts[s] + Cardinality(Busy(fleetReq)) <= now
    BY <1>0 DEF Raised
  <2>4. \A s \in 0 .. F!Step(MaxKm) : alerts'[s] + Cardinality(Busy(fleetReq')) <= now
    BY <1>6, <1>8, <2>2, <2>3
  <2>5. QED
    BY <1>1, <2>2, <2>4 DEF Raised, Busy
<1>10. \A s \in 0 .. F!Step(MaxKm) : alerts'[s] \in 0 .. MaxTime
  <2>1. IsFiniteSet(Busy(fleetReq')) /\ Cardinality(Busy(fleetReq')) \in Nat
    <3>1. IsFiniteSet(Busy(fleetReq'))
      BY <1>9 DEF Raised, Busy
    <3>2. QED
      BY <3>1, FS_CardinalityType
  <2>2. \A s \in 0 .. F!Step(MaxKm) : alerts'[s] + Cardinality(Busy(fleetReq')) <= now
    BY <1>1, <1>9 DEF Raised, Busy
  <2>3. QED
    BY <1>6, <1>8, <2>1, <2>2, FleetConstants
<1>11. F!TypeOK'
  BY <1>0, <1>1, <1>4, <1>5, <1>7, <1>10, Zenon DEF F!TypeOK
<1>12. FleetRequests'
  BY <1>0, <1>1, <1>4 DEF FleetRequests
<1>13. OneSample'
  <2>1. \A y \in F!Sample : Seen(y)' => Seen(y)
    <3>1. \A s \in Busy(fleetReq') : s \in Busy(fleetReq) /\ fleetReq'[s] = fleetReq[s]
      BY <1>4 DEF Busy
    <3>2. QED
      BY <1>1, <3>1 DEF Seen
  <2>2. QED
    BY <1>0, <1>1, <2>1 DEF OneSample
<1>14. F!HighestAlerted'
  <2>. SUFFICES ASSUME NEW t \in telemetry, ~ lost', F!Step(t.km) # 0,
                       \A u \in telemetry : ~ (F!Step(u.km) > F!Step(t.km)),
                       ~ (alerts'[F!Step(t.km)] > 0)
                PROVE  \E s \in Req : /\ fleetReq'[s].pc = "alert"
                                      /\ F!Step(fleetReq'[s].sample.km) = F!Step(t.km)
    BY <1>1 DEF F!HighestAlerted, F!At
  <2>1. F!Step(t.km) \in 0 .. F!Step(MaxKm)
    BY <1>0, FleetTyped, SampleTyped
  <2>2. ~ lost /\ ~ (alerts[F!Step(t.km)] > 0)
    <3>1. ~ lost
      BY <1>2, Zenon
    <3>2. ~ (alerts[F!Step(t.km)] > 0)
      BY <1>6, <1>8, <2>1
    <3>3. QED
      BY <3>1, <3>2
  <2>3. PICK s \in Req : /\ fleetReq[s].pc = "alert"
                         /\ F!Step(fleetReq[s].sample.km) = F!Step(t.km)
    BY <1>0, <2>2 DEF F!HighestAlerted, F!At
  <2>4. s # r
    <3>. SUFFICES ASSUME s = r PROVE FALSE
      OBVIOUS
    <3>1. F!Step(t.km) = st /\ fleetReq[r].pc = "alert"
      BY <2>3 DEF st
    <3>2. alerts' = [alerts EXCEPT ![st] = @ + 1]
      BY <1>2, <3>1
    <3>3. alerts'[st] = alerts[st] + 1
      BY <1>3, <1>6, <3>2
    <3>4. QED
      BY <1>3, <1>6, <3>1, <3>3
  <2>5. QED
    BY <1>4, <2>3, <2>4
<1>15. ASSUME ~ overlap' PROVE InOrder'
  <2>1. InOrder
    BY <1>0, <1>1, <1>15
  <2>2. \A s \in Req : fleetReq'[s].pc = "idle"
    BY <1>1, <1>4, <2>1 DEF InOrder
  <2>3. \A s \in 0 .. F!Step(MaxKm) :
          alerts'[s] > 0 => alerts'[s] = 1 /\ \E t \in telemetry' : F!Step(t.km) = s
    <3>. SUFFICES ASSUME NEW s \in 0 .. F!Step(MaxKm), alerts'[s] > 0
                  PROVE  alerts'[s] = 1 /\ \E t \in telemetry : F!Step(t.km) = s
      BY <1>1
    <3>1. CASE alerts'[s] = alerts[s]
      BY <2>1, <3>1 DEF InOrder
    <3>2. CASE alerts'[s] # alerts[s]
      <4>1. s = st /\ fleetReq[r].pc = "alert" /\ alerts'[s] = alerts[s] + 1
        BY <1>7, <3>2
      <4>2. n \in telemetry /\ alerts[st] = 0
        BY <2>1, <4>1 DEF InOrder, st
      <4>3. QED
        BY <4>1, <4>2 DEF st
    <3>3. QED
      BY <3>1, <3>2
  <2>4. \A t, u \in telemetry' : t.time <= u.time => t.km <= u.km
    BY <1>1, <2>1 DEF InOrder
  <2>5. QED
    BY <2>2, <2>3, <2>4 DEF InOrder
<1>16. overlap' \in BOOLEAN
  BY <1>0, <1>1
<1>17. QED
  BY <1>9, <1>11, <1>12, <1>13, <1>14, <1>15, <1>16, Zenon DEF FleetInv

-----------------------------------------------------------------------------
LEMMA InitFleet ==
  ASSUME F!Init, now = 0, overlap = FALSE
  PROVE  FleetInv
<1>1. /\ vehicle = FALSE /\ odometer = 0 /\ readings = {} /\ telemetry = {}
      /\ fleetReq = [r \in Req |-> F!Idle] /\ errors = 0
      /\ alerts = [s \in 0 .. F!Step(MaxKm) |-> 0]
  BY DEF F!Init
<1>2. fleetReq \in [Req -> F!Request] /\ \A r \in Req : fleetReq[r].pc = "idle"
  <2>. HIDE DEF F!Request, F!Idle
  <2>1. QED
    BY <1>1, FleetIdle
<1>3. F!TypeOK
  <2>0. now = 0 /\ MaxTime \in Nat /\ MaxKm \in Nat /\ MaxErrors \in Nat
    BY FleetConstants
  <2>1. /\ vehicle \in BOOLEAN /\ now \in 0 .. MaxTime /\ odometer \in 0 .. MaxKm
        /\ readings \subseteq F!Sample /\ telemetry \subseteq F!Sample
        /\ errors \in 0 .. MaxErrors
        /\ DOMAIN alerts = 0 .. F!Step(MaxKm)
        /\ \A s \in DOMAIN alerts : alerts[s] \in 0 .. MaxTime
    <3>1. vehicle \in BOOLEAN /\ readings \subseteq F!Sample /\ telemetry \subseteq F!Sample
      BY <1>1
    <3>2. now \in 0 .. MaxTime /\ odometer \in 0 .. MaxKm /\ errors \in 0 .. MaxErrors
      BY <1>1, <2>0
    <3>3. /\ DOMAIN alerts = 0 .. F!Step(MaxKm)
          /\ \A s \in DOMAIN alerts : alerts[s] = 0
      BY <1>1, Zenon
    <3>4. \A s \in DOMAIN alerts : alerts[s] \in 0 .. MaxTime
      BY <2>0, <3>3
    <3>5. QED
      BY <3>1, <3>2, <3>3, <3>4
  <2>2. QED
    BY <1>2, <2>1, Zenon DEF F!TypeOK
<1>4. Busy(fleetReq) = {}
  BY <1>2 DEF Busy
<1>5. Raised
  <2>1. IsFiniteSet({}) /\ Cardinality({}) = 0
    BY FS_EmptySet
  <2>2. \A s \in 0 .. F!Step(MaxKm) : alerts[s] = 0
    BY <1>1
  <2>3. QED
    BY <1>4, <2>1, <2>2 DEF Raised
<1>6. FleetRequests /\ F!HighestAlerted
  BY <1>1, <1>2 DEF FleetRequests, F!HighestAlerted
<1>7. OneSample
  BY <1>1, <1>4 DEF OneSample, Seen
<1>8. InOrder
  <2>1. \A s \in 0 .. F!Step(MaxKm) : ~ (alerts[s] > 0)
    BY <1>1
  <2>2. QED
    BY <1>1, <1>2, <2>1 DEF InOrder
<1>9. QED
  BY <1>3, <1>5, <1>6, <1>7, <1>8 DEF FleetInv

LEMMA NextFleet ==
  ASSUME FleetInv, F!Next
  PROVE  FleetInv'
<1>1. CASE F!CreateVehicle
  BY <1>1, VehicleKeeps
<1>2. ASSUME NEW km \in F!Km, F!Drive(km)
      PROVE  FleetInv'
  BY <1>2, DriveKeeps
<1>3. ASSUME NEW r \in Req, NEW reading \in readings, NEW stamped \in BOOLEAN,
             F!RecordTelemetry(r, reading, stamped)
      PROVE  FleetInv'
  BY <1>3, RecordKeeps
<1>4. ASSUME NEW r \in Req,
             \/ F!LastForVehicle(r) \/ F!Create(r) \/ F!TriggerMaintenanceAlert(r)
             \/ F!Fail(r)
      PROVE  FleetInv'
  BY <1>4, LastKeeps, StoreKeeps, EndsKeeps
<1>5. QED
  BY <1>1, <1>2, <1>3, <1>4, Zenon DEF F!Next

LEMMA StillFleet ==
  ASSUME FleetInv, UNCHANGED <<fleetVars, now, errors, overlap>>
  PROVE  FleetInv'
<1>1. UNCHANGED <<vehicle, now, odometer, readings, telemetry, fleetReq, errors, alerts,
                  lost, overlap>>
  BY DEF fleetVars
<1>2. vehicle' \in BOOLEAN
  BY <1>1, FleetHas, FleetTyped
<1>3. QED
  BY <1>1, <1>2, FleetStays

\* Every step of 5000 km is alerted, and once when the samples come in order, whatever
\* is delivered late, twice or without a time
\* (internal/service/telemetry_service.go:57, 77).
THEOREM StepsAreAlerted == AllSpec => []AlertsMatch
<1>. DEFINE Inv == part = "fleet" => FleetInv
            all == <<part, shared, cleanupVars, emailVars, fleetVars, orderVars, keyVars,
                     appVars, adminVars, importVars, settingVars>>
<1>1. AllInit => Inv
  BY InitFleet DEF AllInit, Init
<1>2. Inv /\ [AllNext]_all => Inv'
  <2>. SUFFICES ASSUME Inv, [AllNext]_all, part' = "fleet" PROVE FleetInv'
    OBVIOUS
  <2>1. CASE Fleet
    BY <2>1, NextFleet DEF Fleet
  <2>2. CASE UNCHANGED all
    BY <2>2, StillFleet DEF shared
  <2>3. CASE \/ EmailConfig \/ WorkOrders \/ ApiKeys \/ Applications \/ Settings
             \/ AdminAccounts \/ UserImport \/ LogCleanup
    BY <2>3 DEF EmailConfig, WorkOrders, ApiKeys, Applications, Settings, AdminAccounts,
      UserImport, LogCleanup
  <2>4. QED
    BY <2>1, <2>2, <2>3, Zenon DEF AllNext
<1>3. Inv => AlertsMatch
  <2>. SUFFICES ASSUME FleetInv PROVE F!AlertsMatch
    BY DEF AlertsMatch
  <2>1. F!TypeOK /\ F!HighestAlerted /\ (~ overlap => InOrder)
    BY FleetHas
  <2>2. DOMAIN alerts = 0 .. F!Step(MaxKm)
        /\ \A s \in 0 .. F!Step(MaxKm) : alerts[s] \in Nat
    BY <2>1, FleetTyped
  <2>3. F!AlertedOnce
    BY <2>1, <2>2 DEF F!AlertedOnce, InOrder
  <2>4. QED
    BY <2>1, <2>3, Zenon DEF F!AlertsMatch
<1>4. QED
  BY <1>1, <1>2, <1>3, PTL DEF AllSpec
=============================================================================
