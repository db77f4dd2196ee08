--------------------------- MODULE JobCoreProofs ----------------------------
(***************************************************************************)
(* Proofs about JobCore: type correctness.                                 *)
(***************************************************************************)
EXTENDS JobCore, FiniteSetTheorems, TLAPS

-----------------------------------------------------------------------------
(* Small facts.                                                            *)

\* The clamped subtraction of fl.queue_release stays a natural number.
LEMMA MinusType == \A a \in Nat, n \in Int : Minus(a, n) \in Nat
BY DEF Minus

\* Every set of jobs is finite, so its cardinality is a number.
LEMMA JobSets == \A S \in SUBSET Job : IsFiniteSet(S) /\ Cardinality(S) \in Nat
BY FS_Subset, FS_CardinalityType, FiniteAssumption

\* Closing executions yields executions.
LEMMA CloseType ==
  ASSUME NEW rows \in SUBSET Execution, NEW fences, NEW o \in Outcome
  PROVE  /\ CloseFence(rows, fences, o) \in SUBSET Execution
         /\ CloseOpen(rows, o) \in SUBSET Execution
BY DEF CloseFence, CloseOpen, Execution

\* Every update of a jobs row yields a row.
LEMMA RowTypes ==
  ASSUME NEW row \in Row
  PROVE  /\ \A w \in Worker : claim[w].shard \in Shard => ClaimedRow(w, row) \in Row
         /\ StartedRow(row) \in Row
         /\ \A n \in Nat : WokenRow(row, n) \in Row
         /\ CompletedRow(row) \in Row
         /\ \A p \in BOOLEAN : FailedRow(row, p) \in Row
         /\ KilledRow(row) \in Row
         /\ \A now \in BOOLEAN : SnoozedRow(row, now) \in Row
         /\ QueuedRow(row) \in Row
         /\ CancelledRow(row) \in Row
         /\ \A now \in BOOLEAN : ReplayedRow(row, now) \in Row
         /\ [row EXCEPT !.ripe = TRUE] \in Row
         /\ [row EXCEPT !.deadline = "past"] \in Row
<1>1. /\ Status = {"claimed", "running", "scheduled", "queued", "retry_wait",
                   "completed", "dead_letter", "cancelled"}
      /\ row.status \in Status /\ row.fence \in Nat /\ row.attempt \in Nat
      /\ row.snoozes \in Nat /\ row.gen \in Nat /\ row.pending \in Nat
      /\ row.ripe \in BOOLEAN
  BY DEF Row, Status, Active, Waiting, Terminal
<1>2. /\ row.fence + 1 \in Nat /\ row.attempt + 1 \in Nat
      /\ row.snoozes + 1 \in Nat /\ row.gen + 1 \in Nat
      /\ \A n \in Nat : Minus(row.pending, n) \in Nat
  BY <1>1 DEF Minus
<1>3. NoWorker \in Worker \cup {NoWorker}
  OBVIOUS
<1>4. "null" \in {"null", "ahead", "past"} /\ "ahead" \in {"null", "ahead", "past"}
      /\ "past" \in {"null", "ahead", "past"}
  OBVIOUS
<1>5. ASSUME NEW w \in Worker, claim[w].shard \in Shard PROVE ClaimedRow(w, row) \in Row
  <2>1. w \in Worker \cup {NoWorker} /\ "claimed" \in Status
    BY <1>1
  <2> QED
    BY <1>2, <1>4, <1>5, <2>1, Zenon DEF ClaimedRow, Row
<1>6. StartedRow(row) \in Row
  <2>1. "running" \in Status
    BY <1>1
  <2> QED
    BY <1>2, <2>1, Zenon DEF StartedRow, Row
<1>7. ASSUME NEW n \in Nat PROVE WokenRow(row, n) \in Row
  <2> DEFINE st == IF n >= row.pending /\ row.ripe THEN "queued" ELSE row.status
  <2>1. st \in Status /\ Minus(row.pending, n) \in Nat
    BY <1>1, <1>2
  <2>2. [row EXCEPT !.pending = Minus(@, n), !.status = st] \in Row
    <3> HIDE DEF st
    <3> QED BY <2>1, Zenon DEF Row
  <2> QED
    BY <2>2 DEF WokenRow
<1>8. CompletedRow(row) \in Row /\ CancelledRow(row) \in Row /\ KilledRow(row) \in Row
  <2>1. "completed" \in Status /\ "cancelled" \in Status /\ 0 \in Nat
    BY <1>1
  <2> QED
    BY <1>3, <2>1, Zenon DEF CompletedRow, CancelledRow, KilledRow, Row
<1>9. ASSUME NEW p \in BOOLEAN PROVE FailedRow(row, p) \in Row
  <2> DEFINE dead == p \/ row.attempt >= MaxAttempts
             st == IF dead THEN "dead_letter" ELSE "retry_wait"
             rp == row.ripe /\ dead
  <2>1. st \in Status /\ rp \in BOOLEAN /\ dead \in BOOLEAN
    BY <1>1
  <2>2. [row EXCEPT !.status = st, !.ripe = rp, !.finished = dead, !.owner = NoWorker] \in Row
    <3> HIDE DEF st, rp, dead
    <3> QED BY <1>3, <2>1, Zenon DEF Row
  <2> QED
    BY <2>2, Zenon DEF FailedRow
<1>10. ASSUME NEW now \in BOOLEAN
       PROVE SnoozedRow(row, now) \in Row /\ ReplayedRow(row, now) \in Row
  <2>1. "scheduled" \in Status /\ "queued" \in Status /\ 0 \in Nat /\ FALSE \in BOOLEAN
    BY <1>1
  <2> QED
    BY <1>2, <1>3, <1>4, <2>1, Zenon DEF SnoozedRow, ReplayedRow, Row
<1>11. QueuedRow(row) \in Row /\ [row EXCEPT !.ripe = TRUE] \in Row
       /\ [row EXCEPT !.deadline = "past"] \in Row
  <2>1. "queued" \in Status /\ TRUE \in BOOLEAN
    BY <1>1
  <2> QED
    BY <1>4, <2>1, Zenon DEF QueuedRow, Row
<1> QED
  BY <1>5, <1>6, <1>7, <1>8, <1>9, <1>10, <1>11

LEMMA RunTypes ==
  ASSUME TypeOK, NEW r \in runs
  PROVE  /\ r \in Run /\ r.job \in Job /\ r.worker \in Worker /\ r.fence \in Nat
         /\ \A pc \in {"claimed", "running", "fenced", "done", "unmatched"} :
              [r EXCEPT !.pc = pc] \in Run
<1>1. r \in Run
  BY DEF TypeOK
<1> QED
  BY <1>1 DEF Run

-----------------------------------------------------------------------------
(* Type correctness.                                                       *)

LEMMA ReleaseType ==
  ASSUME TypeOK, NEW s \in Shard, NEW n \in Int, Release(s, n)
  PROVE  inFlight' \in [Shard -> Nat]
BY MinusType DEF TypeOK, Release

LEMMA InitType == Init => TypeOK
<1> SUFFICES ASSUME Init PROVE TypeOK
  OBVIOUS
<1>1. 0 \in Shard
  BY SizeAssumption DEF Shard
<1>2. \A j \in Job : Cardinality(Parents(j)) \in Nat
  BY JobSets DEF Parents
<1>3. PICK due \in SUBSET Job :
       jobs = [j \in Job |->
         [status |-> IF Parents(j) = {} /\ j \in due THEN "queued" ELSE "scheduled",
          fence |-> 0, attempt |-> 0, snoozes |-> 0, gen |-> 0, shard |-> 0,
          owner |-> NoWorker, ripe |-> j \in due, deadline |-> "null",
          finished |-> FALSE, pending |-> Cardinality(Parents(j))]]
  BY DEF Init
<1>4. jobs \in [Job -> Row]
  BY <1>1, <1>2, <1>3 DEF Row, Status, Active, Waiting, Terminal
<1>5. claim \in [Worker -> [n : 0 .. MaxConcurrency, shard : Shard]]
  BY <1>1, SizeAssumption DEF Init
<1> QED
  BY <1>1, <1>4, <1>5 DEF Init, TypeOK, Execution, Run

LEMMA TakeType ==
  ASSUME TypeOK, NEW w \in Worker, NEW picked \in SUBSET Job, TakeRows(w, picked), EndClaim(w)
  PROVE  /\ jobs' \in [Job -> Row]
         /\ lease' \in [Job -> {"none", "live", "expired"}]
         /\ claim' \in [Worker -> [n : 0 .. MaxConcurrency, shard : Shard]]
<1>1. \A j \in Job : ClaimedRow(w, jobs[j]) \in Row
  BY RowTypes DEF TypeOK
<1>2. claim' \in [Worker -> [n : 0 .. MaxConcurrency, shard : Shard]]
  BY SizeAssumption DEF TypeOK, EndClaim
<1> QED
  BY <1>1, <1>2 DEF TypeOK, TakeRows

LEMMA ReportFailureType ==
  ASSUME TypeOK, NEW j \in Job, NEW o \in Outcome, NEW p \in BOOLEAN,
         ReportFailure(j, o, p)
  PROVE  /\ jobs' \in [Job -> Row]
         /\ execs' \in [Job -> SUBSET Execution]
         /\ lease' \in [Job -> {"none", "live", "expired"}]
         /\ dlq' \in [Job -> {"none", "unreplayed", "replayed"}]
         /\ inFlight' \in [Shard -> Nat]
<1>1. FailedRow(jobs[j], p) \in Row /\ \A k \in Job : KilledRow(jobs[k]) \in Row
  BY RowTypes DEF TypeOK
<1>2. jobs' \in [Job -> Row]
  BY <1>1 DEF ReportFailure, TypeOK
<1>3. execs' \in [Job -> SUBSET Execution]
  BY CloseType DEF ReportFailure, TypeOK
<1>4. inFlight' \in [Shard -> Nat]
  <2>1. jobs[j].shard \in Shard
    BY DEF TypeOK, Row
  <2>2. Release(jobs[j].shard, 1)
    BY DEF ReportFailure
  <2> QED
    BY <2>1, <2>2, ReleaseType
<1> QED
  BY <1>2, <1>3, <1>4 DEF ReportFailure, TypeOK

LEMMA FlushType ==
  ASSUME TypeOK, NEW w \in Worker, Flush(w)
  PROVE  TypeOK'
<1>1. PICK batch \in SUBSET {r \in runs : r.worker = w /\ r.pc = "done"} :
        LET matched == {r \in batch : Holds(r, {"running"})}
            done == {r.job : r \in matched}
            missed == {r \in batch : r.job \notin done}
        IN /\ jobs' = [k \in Job |-> IF k \in done THEN CompletedRow(jobs[k])
                          ELSE WokenRow(jobs[k], Cardinality(Parents(k) \cap done))]
           /\ execs' = [k \in Job |->
                CloseFence(execs[k], {r.fence : r \in {m \in matched : m.job = k}}, "success")]
           /\ lease' = [k \in Job |-> IF k \in done THEN "none" ELSE lease[k]]
           /\ inFlight' = [s \in Shard |->
                Minus(inFlight[s], Cardinality({k \in done : jobs[k].shard = s}))]
           /\ runs' = (runs \ batch) \cup {[r EXCEPT !.pc = "unmatched"] : r \in missed}
           /\ UNCHANGED <<dlq, claim, reap, bulk>>
  BY DEF Flush, Flushed
<1> DEFINE matched == {r \in batch : Holds(r, {"running"})}
           done == {r.job : r \in matched}
           missed == {r \in batch : r.job \notin done}
<1>2. done \in SUBSET Job
  BY RunTypes
<1> HIDE DEF done
<1>3. \A k \in Job : Cardinality(Parents(k) \cap done) \in Nat
  BY <1>2, JobSets
<1>4. jobs' \in [Job -> Row]
  BY <1>1, <1>3, RowTypes DEF TypeOK, done
<1>5. execs' \in [Job -> SUBSET Execution]
  <2>1. "success" \in Outcome
    BY DEF Outcome
  <2> QED
    BY <1>1, <2>1, CloseType DEF TypeOK
<1>6. inFlight' \in [Shard -> Nat]
  <2>1. \A s \in Shard : Cardinality({k \in done : jobs[k].shard = s}) \in Int
    BY <1>2, JobSets
  <2> QED
    BY <1>1, <2>1, MinusType DEF TypeOK, done
<1>7. runs' \subseteq Run
  BY <1>1, RunTypes DEF TypeOK
<1> QED
  BY <1>1, <1>4, <1>5, <1>6, <1>7 DEF TypeOK

LEMMA ClaimStepType ==
  ASSUME TypeOK, NEW w \in Worker,
         \/ Admit(w) \/ Take(w) \/ TakeFails(w) \/ DropReservation(w)
         \/ TakeAckLost(w)
  PROVE  TypeOK'
<1>0. claim[w].shard \in Shard /\ claim[w].n \in Int
  BY SizeAssumption DEF TypeOK
<1>1. CASE Admit(w)
  BY <1>1, SizeAssumption DEF Admit, TypeOK
<1>2. CASE Take(w)
  <2>1. PICK picked \in SUBSET Job :
          /\ TakeRows(w, picked)
          /\ Release(claim[w].shard, claim[w].n - Cardinality(picked))
          /\ EndClaim(w)
          /\ runs' = runs \cup {[worker |-> w, job |-> j, fence |-> jobs[j].fence + 1,
                                 pc |-> "claimed"] : j \in picked}
          /\ UNCHANGED <<execs, dlq, reap, bulk>>
    BY <1>2 DEF Take
  <2>2. inFlight' \in [Shard -> Nat]
    <3>1. claim[w].n - Cardinality(picked) \in Int
      BY <1>0, JobSets
    <3> QED
      BY <1>0, <2>1, <3>1, ReleaseType
  <2>3. runs' \subseteq Run
    BY <2>1 DEF TypeOK, Run, Row
  <2> QED
    BY <2>1, <2>2, <2>3, TakeType DEF TypeOK
<1>3. CASE TakeFails(w) \/ DropReservation(w)
  <2>1. claim' \in [Worker -> [n : 0 .. MaxConcurrency, shard : Shard]]
    BY <1>3, SizeAssumption DEF TypeOK, TakeFails, DropReservation, EndClaim
  <2>2. inFlight' \in [Shard -> Nat]
    BY <1>0, <1>3, ReleaseType DEF TypeOK, TakeFails, DropReservation
  <2> QED
    BY <1>3, <2>1, <2>2 DEF TypeOK, TakeFails, DropReservation
<1>4. CASE TakeAckLost(w)
  <2>1. PICK picked \in SUBSET Job :
          /\ TakeRows(w, picked)
          /\ Release(claim[w].shard, (claim[w].n - Cardinality(picked)) + claim[w].n)
          /\ EndClaim(w)
          /\ UNCHANGED <<execs, dlq, runs, reap, bulk>>
    BY <1>4 DEF TakeAckLost
  <2>2. inFlight' \in [Shard -> Nat]
    <3>1. (claim[w].n - Cardinality(picked)) + claim[w].n \in Int
      BY <1>0, JobSets
    <3> QED
      BY <1>0, <2>1, <3>1, ReleaseType
  <2> QED
    BY <2>1, <2>2, TakeType DEF TypeOK
<1> QED
  BY <1>1, <1>2, <1>3, <1>4

LEMMA RunStepType ==
  ASSUME TypeOK, NEW r \in runs,
         \/ Start(r) \/ Extend(r) \/ HandlerOK(r) \/ Fail(r)
         \/ Snooze(r) \/ Probe(r) \/ Abandon(r)
  PROVE  TypeOK'
<1>0. /\ r.job \in Job /\ r.fence \in Nat /\ jobs[r.job] \in Row
      /\ jobs[r.job].shard \in Shard
      /\ \A pc \in {"claimed", "running", "fenced", "done", "unmatched"} :
           Move(r, pc) => runs' \subseteq Run
      /\ Leave(r) => runs' \subseteq Run
  BY RunTypes DEF TypeOK, Row, Move, Leave
<1>1. CASE Start(r)
  <2>1. runs' \subseteq Run
    BY <1>0, <1>1 DEF Start
  <2>2. jobs' \in [Job -> Row]
    <3>1. StartedRow(jobs[r.job]) \in Row
      BY <1>0, RowTypes
    <3> QED
      BY <1>0, <1>1, <3>1 DEF Start, TypeOK
  <2>3. [gen |-> jobs[r.job].gen, attempt |-> jobs[r.job].attempt + 1,
         fence |-> r.fence, outcome |-> "open"] \in Execution
    BY <1>0 DEF Execution, Outcome, Row
  <2>4. execs' \in [Job -> SUBSET Execution]
    BY <1>0, <1>1, <2>3 DEF Start, TypeOK
  <2> QED
    BY <1>1, <2>1, <2>2, <2>4 DEF Start, TypeOK
<1>2. CASE Extend(r)
  <2>1. runs' \subseteq Run
    BY <1>0, <1>2 DEF Extend, Extended, TypeOK
  <2> QED
    BY <1>0, <1>2, <2>1 DEF Extend, Extended, TypeOK
<1>3. CASE HandlerOK(r) \/ Abandon(r)
  <2>1. runs' \subseteq Run
    BY <1>0, <1>3 DEF HandlerOK, Abandon
  <2> QED
    BY <1>3, <2>1 DEF HandlerOK, Abandon, TypeOK
<1>4. CASE Fail(r)
  <2>1. runs' \subseteq Run
    BY <1>0, <1>4 DEF Fail
  <2>2. "retryable_error" \in Outcome /\ "permanent_error" \in Outcome
    BY DEF Outcome
  <2> QED
    BY <1>0, <1>4, <2>1, <2>2, ReportFailureType DEF Fail, TypeOK
<1>5. CASE Snooze(r)
  <2>1. runs' \subseteq Run
    BY <1>0, <1>5 DEF Snooze
  <2>2. jobs' \in [Job -> Row]
    <3>1. \A now \in BOOLEAN : SnoozedRow(jobs[r.job], now) \in Row
      BY <1>0, RowTypes
    <3> QED
      BY <1>0, <1>5, <3>1 DEF Snooze, TypeOK
  <2>3. execs' \in [Job -> SUBSET Execution]
    <3>1. CloseFence(execs[r.job], {r.fence}, "snoozed") \in SUBSET Execution
      BY <1>0, CloseType DEF TypeOK, Outcome
    <3> QED
      BY <1>0, <1>5, <3>1 DEF Snooze, TypeOK
  <2>4. inFlight' \in [Shard -> Nat]
    BY <1>0, <1>5, ReleaseType DEF Snooze, TypeOK
  <2> QED
    BY <1>0, <1>5, <2>1, <2>2, <2>3, <2>4 DEF Snooze, TypeOK
<1>6. CASE Probe(r)
  <2>1. runs' \subseteq Run
    BY <1>0, <1>6 DEF Probe
  <2>2. ProbeOutcome(r) \in Outcome
    BY DEF ProbeOutcome, Outcome
  <2>3. execs' \in [Job -> SUBSET Execution]
    BY <1>0, <1>6, <2>2, CloseType DEF Probe, TypeOK
  <2> QED
    BY <1>6, <2>1, <2>3 DEF Probe, TypeOK
<1> QED
  BY <1>1, <1>2, <1>3, <1>4, <1>5, <1>6

LEMMA SchedulerStepType ==
  ASSUME TypeOK, SchedulerStep
  PROVE  TypeOK'
<1>1. CASE Promote
  <2>1. jobs' \in [Job -> Row]
    <3>1. \A j \in Job : QueuedRow(jobs[j]) \in Row
      BY RowTypes DEF TypeOK
    <3> QED
      BY <1>1, <3>1 DEF Promote, TypeOK
  <2> QED
    BY <1>1, <2>1 DEF Promote, TypeOK
<1>2. ASSUME NEW s \in Scheduler, ReadExpired(s) PROVE TypeOK'
  BY <1>2 DEF ReadExpired, TypeOK
<1>3. ASSUME NEW s \in Scheduler, ReportLost(s) PROVE TypeOK'
  <2>1. PICK j \in reap[s] :
          /\ reap' = [reap EXCEPT ![s] = @ \ {j}]
          /\ IF jobs[j].status \in Active
             THEN ReportFailure(j, "lost", FALSE)
             ELSE UNCHANGED <<jobs, execs, lease, dlq, inFlight>>
          /\ UNCHANGED <<claim, runs, bulk>>
    BY <1>3 DEF ReportLost
  <2>2. j \in Job /\ reap' \in [Scheduler -> SUBSET Job] /\ "lost" \in Outcome
    BY <1>3, <2>1 DEF TypeOK, Outcome
  <2> QED
    BY <2>1, <2>2, ReportFailureType DEF TypeOK
<1> QED
  BY <1>1, <1>2, <1>3 DEF SchedulerStep

LEMMA ApiStepType ==
  ASSUME TypeOK, ApiStep
  PROVE  TypeOK'
<1>1. ASSUME NEW j \in Job, RetryNow(j) PROVE TypeOK'
  <2>1. jobs' \in [Job -> Row]
    BY <1>1, RowTypes DEF RetryNow, TypeOK
  <2> QED
    BY <1>1, <2>1 DEF RetryNow, TypeOK
<1>2. ASSUME NEW j \in Job, Cancel(j) PROVE TypeOK'
  <2>0. CancelEffect(j, Active) /\ jobs[j].shard \in Shard
    BY <1>2 DEF Cancel, TypeOK, Row
  <2>1. jobs' \in [Job -> Row]
    BY <2>0, RowTypes DEF CancelEffect, TypeOK
  <2>2. execs' \in [Job -> SUBSET Execution]
    <3>1. CloseOpen(execs[j], "cancelled") \in SUBSET Execution
      BY CloseType DEF TypeOK, Outcome
    <3> QED
      BY <2>0, <3>1 DEF CancelEffect, TypeOK
  <2>3. inFlight' \in [Shard -> Nat]
    BY <2>0, ReleaseType DEF CancelEffect, TypeOK
  <2> QED
    BY <2>0, <2>1, <2>2, <2>3 DEF CancelEffect, TypeOK
<1>3. ASSUME NEW j \in Job, ReplayJob(j) PROVE TypeOK'
  <2>1. jobs' \in [Job -> Row]
    BY <1>3, RowTypes DEF ReplayJob, TypeOK
  <2> QED
    BY <1>3, <2>1 DEF ReplayJob, TypeOK
<1>4. CASE BulkRead
  BY <1>4 DEF BulkRead, TypeOK
<1>5. CASE BulkReplay
  <2>1. jobs' \in [Job -> Row]
    <3>1. ASSUME NEW j \in Job, NEW now PROVE ReplayedRow(jobs[j], j \in now) \in Row
      <4>1. jobs[j] \in Row /\ (j \in now) \in BOOLEAN
        BY DEF TypeOK
      <4> QED
        BY <4>1, RowTypes
    <3>2. PICK now \in SUBSET bulk :
            jobs' = [j \in Job |-> IF j \in {k \in bulk : jobs[k].status = "dead_letter"}
                                   THEN ReplayedRow(jobs[j], j \in now) ELSE jobs[j]]
      BY <1>5 DEF BulkReplay
    <3> QED
      BY <3>1, <3>2 DEF TypeOK
  <2> QED
    BY <1>5, <2>1 DEF BulkReplay, TypeOK
<1> QED
  BY <1>1, <1>2, <1>3, <1>4, <1>5 DEF ApiStep

LEMMA ClockStepType ==
  ASSUME TypeOK, NEW j \in Job, RunAtArrives(j) \/ LeaseRunsOut(j) \/ DeadlinePasses(j)
  PROVE  TypeOK'
<1>1. CASE RunAtArrives(j) \/ DeadlinePasses(j)
  <2>1. jobs' \in [Job -> Row]
    <3>1. [jobs[j] EXCEPT !.ripe = TRUE] \in Row /\ [jobs[j] EXCEPT !.deadline = "past"] \in Row
      BY RowTypes DEF TypeOK
    <3>2. CASE RunAtArrives(j)
      BY <3>1, <3>2 DEF RunAtArrives, TypeOK
    <3>3. CASE DeadlinePasses(j)
      BY <3>1, <3>3 DEF DeadlinePasses, TypeOK
    <3> QED
      BY <1>1, <3>2, <3>3
  <2> QED
    BY <1>1, <2>1 DEF RunAtArrives, DeadlinePasses, TypeOK
<1>2. CASE LeaseRunsOut(j)
  BY <1>2 DEF LeaseRunsOut, TypeOK
<1> QED
  BY <1>1, <1>2

LEMMA NextType == TypeOK /\ [Next]_vars => TypeOK'
<1> SUFFICES ASSUME TypeOK, [Next]_vars PROVE TypeOK'
  OBVIOUS
<1>1. CASE ClaimStep \/ \E w \in Worker : TakeAckLost(w)
  BY <1>1, ClaimStepType DEF ClaimStep
<1>2. CASE RunStep
  <2>1. ASSUME NEW w \in Worker, Crash(w) PROVE TypeOK'
    <3>1. claim' \in [Worker -> [n : 0 .. MaxConcurrency, shard : Shard]]
      BY <2>1, SizeAssumption DEF Crash, EndClaim, TypeOK
    <3> QED
      BY <2>1, <3>1 DEF Crash, TypeOK
  <2> QED
    BY <1>2, <2>1, RunStepType, FlushType DEF RunStep
<1>3. CASE SchedulerStep \/ ApiStep \/ ClockStep
  BY <1>3, SchedulerStepType, ApiStepType, ClockStepType DEF ClockStep
<1>4. CASE UNCHANGED vars
  BY <1>4 DEF vars, TypeOK
<1> QED
  BY <1>1, <1>2, <1>3, <1>4 DEF Next, AckedNext

\* Type correctness: every row the code writes is a row of its table, and every
\* counter stays a natural number, lost answers and late releases included.
THEOREM TypeCorrect == Spec => []TypeOK
<1>1. Init => TypeOK
  BY InitType
<1>2. TypeOK /\ [Next]_vars => TypeOK'
  BY NextType
<1> QED
  BY <1>1, <1>2, PTL DEF Spec
=============================================================================
