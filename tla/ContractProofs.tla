--------------------------- MODULE ContractProofs ---------------------------
(***************************************************************************)
(* The rows that the code writes obey the contract of the jobs table, and  *)
(* a closed execution stays as it was closed, for any number of jobs,      *)
(* workers and schedulers.                                                 *)
(***************************************************************************)
EXTENDS FencingProofs

\* A step of one row: the contract does not see it, or it is an edge.
Legal(old, new) ==
  \/ /\ new.status = old.status /\ new.fence = old.fence
     /\ new.attempt = old.attempt /\ new.gen = old.gen
  \/ Fsm!Edge(old, new)

RowsLegal == \A j \in Job : Legal(jobs[j], jobs'[j])

\* Each update of a row, from the states its guard allows, is an edge.
LEMMA LegalUpdates ==
  ASSUME NEW row \in Row, NEW new
  PROVE  /\ \A w \in Worker : row.status = "queued" /\ new = ClaimedRow(w, row) => Legal(row, new)
         /\ row.status = "claimed" /\ new = StartedRow(row) => Legal(row, new)
         /\ row.status = "running" /\ new = CompletedRow(row) => Legal(row, new)
         /\ \A n \in Nat : new = WokenRow(row, n) => Legal(row, new)
         /\ \A p \in BOOLEAN : row.status \in Active /\ new = FailedRow(row, p) => Legal(row, new)
         /\ row.status \in Waiting /\ new = KilledRow(row) => Legal(row, new)
         /\ \A now \in BOOLEAN : row.status = "running" /\ new = SnoozedRow(row, now) => Legal(row, new)
         /\ row.status \in {"scheduled", "retry_wait"} /\ new = QueuedRow(row) => Legal(row, new)
         /\ row.status \in Status \ Terminal /\ new = CancelledRow(row) => Legal(row, new)
         /\ \A now \in BOOLEAN : row.status = "dead_letter" /\ new = ReplayedRow(row, now)
              => Legal(row, new)
<1> USE DEF Legal, Fsm!Edge, Fsm!LegalTransition
<1>1. ASSUME NEW w \in Worker, row.status = "queued", new = ClaimedRow(w, row) PROVE Legal(row, new)
  BY <1>1, ClaimedFields
<1>2. ASSUME row.status = "claimed", new = StartedRow(row) PROVE Legal(row, new)
  BY <1>2, StartedFields
<1>3. ASSUME row.status = "running", new = CompletedRow(row) PROVE Legal(row, new)
  BY <1>3, EndedFields
<1>4. ASSUME NEW n \in Nat, new = WokenRow(row, n) PROVE Legal(row, new)
  BY <1>4, WokenFields
<1>5. ASSUME NEW p \in BOOLEAN, row.status \in Active, new = FailedRow(row, p) PROVE Legal(row, new)
  BY <1>5, FailedFields DEF Active
<1>6. ASSUME row.status \in Waiting, new = KilledRow(row) PROVE Legal(row, new)
  BY <1>6, EndedFields DEF Waiting
<1>7. ASSUME NEW now \in BOOLEAN, row.status = "running", new = SnoozedRow(row, now)
      PROVE  Legal(row, new)
  BY <1>7, SnoozedFields
<1>8. ASSUME row.status \in {"scheduled", "retry_wait"}, new = QueuedRow(row) PROVE Legal(row, new)
  BY <1>8, QueuedFields
<1>9. ASSUME row.status \in Status \ Terminal, new = CancelledRow(row) PROVE Legal(row, new)
  BY <1>9, EndedFields DEF Status, Terminal, Active, Waiting
<1>10. ASSUME NEW now \in BOOLEAN, row.status = "dead_letter", new = ReplayedRow(row, now)
       PROVE  Legal(row, new)
  BY <1>10, ReplayedFields
<1> HIDE DEF Legal, Fsm!Edge, Fsm!LegalTransition
<1> QED
  BY <1>1, <1>2, <1>3, <1>4, <1>5, <1>6, <1>7, <1>8, <1>9, <1>10, Zenon

LEMMA RowsStay == jobs' = jobs => RowsLegal
BY DEF RowsLegal, Legal

LEMMA ReportFailureLegal ==
  ASSUME TypeOK, NEW j \in Job, NEW o, NEW p \in BOOLEAN, jobs[j].status \in Active,
         ReportFailure(j, o, p)
  PROVE  RowsLegal
<1>1. \A k \in Job : jobs[k] \in Row
  BY DEF TypeOK
<1>2. ASSUME NEW k \in Job
      PROVE  \/ k = j /\ jobs'[k] = FailedRow(jobs[k], p)
             \/ jobs[k].status \in Waiting /\ jobs'[k] = KilledRow(jobs[k])
             \/ jobs'[k] = jobs[k]
  BY Zenon DEF ReportFailure
<1> QED
  BY <1>1, <1>2, LegalUpdates DEF RowsLegal, Legal

LEMMA ClaimStepLegal ==
  ASSUME TypeOK, NEW w \in Worker,
         \/ Admit(w) \/ Take(w) \/ TakeFails(w) \/ DropReservation(w) \/ TakeAckLost(w)
  PROVE  RowsLegal
<1>1. \A k \in Job : jobs[k] \in Row
  BY DEF TypeOK
<1>2. CASE Admit(w) \/ TakeFails(w) \/ DropReservation(w)
  BY <1>2, RowsStay DEF Admit, TakeFails, DropReservation
<1>3. CASE Take(w) \/ TakeAckLost(w)
  <2>1. PICK picked \in SUBSET Job : Takable(w, picked) /\ TakeRows(w, picked)
    BY <1>3 DEF Take, TakeAckLost
  <2>2. \A k \in Job : \/ jobs[k].status = "queued" /\ jobs'[k] = ClaimedRow(w, jobs[k])
                       \/ jobs'[k] = jobs[k]
    BY <2>1, Zenon DEF TakeRows, Takable
  <2> QED
    BY <1>1, <2>2, LegalUpdates DEF RowsLegal, Legal
<1> QED
  BY <1>2, <1>3

LEMMA RunStepLegal ==
  ASSUME TypeOK, NEW r \in runs,
         \/ Start(r) \/ Extend(r) \/ HandlerOK(r) \/ Fail(r)
         \/ Snooze(r) \/ Probe(r) \/ Abandon(r)
  PROVE  RowsLegal
<1>1. /\ \A k \in Job : jobs[k] \in Row
      /\ jobs \in [Job -> Row] /\ r.job \in Job
  BY RunTypes DEF TypeOK
<1>2. CASE Extend(r) \/ HandlerOK(r) \/ Probe(r) \/ Abandon(r)
  BY <1>2, RowsStay DEF Extend, HandlerOK, Probe, Abandon
<1>3. CASE Start(r)
  <2>1. \/ jobs' = jobs
        \/ /\ jobs[r.job].status = "claimed"
           /\ jobs' = [jobs EXCEPT ![r.job] = StartedRow(jobs[r.job])]
    BY <1>3 DEF Start, Holds
  <2> QED
    BY <1>1, <2>1, RowsStay, LegalUpdates DEF RowsLegal, Legal
<1>4. CASE Fail(r)
  <2>1. \/ jobs' = jobs
        \/ /\ jobs[r.job].status \in Active
           /\ \E o, p : p \in BOOLEAN /\ ReportFailure(r.job, o, p)
    BY <1>4 DEF Fail, Holds
  <2> QED
    BY <1>1, <2>1, RowsStay, ReportFailureLegal
<1>5. CASE Snooze(r)
  <2>1. \/ jobs' = jobs
        \/ /\ jobs[r.job].status = "running"
           /\ \E now \in BOOLEAN : jobs' = [jobs EXCEPT ![r.job] = SnoozedRow(jobs[r.job], now)]
    BY <1>5 DEF Snooze, Holds
  <2> QED
    BY <1>1, <2>1, RowsStay, LegalUpdates DEF RowsLegal, Legal
<1> QED
  BY <1>2, <1>3, <1>4, <1>5

LEMMA FlushLegal ==
  ASSUME TypeOK, NEW w \in Worker, Flush(w)
  PROVE  RowsLegal
<1>1. \A k \in Job : jobs[k] \in Row
  BY DEF TypeOK
<1>2. PICK matched \in SUBSET {r \in runs : Holds(r, {"running"})} :
        jobs' = [k \in Job |->
          IF k \in {r.job : r \in matched} THEN CompletedRow(jobs[k])
          ELSE WokenRow(jobs[k], Cardinality(Parents(k) \cap {r.job : r \in matched}))]
  <2>1. PICK batch \in SUBSET {r \in runs : r.worker = w /\ r.pc = "done"} :
        LET matched == {r \in batch : Holds(r, {"running"})}
            done == {r.job : r \in matched}
        IN jobs' = [k \in Job |-> IF k \in done THEN CompletedRow(jobs[k])
                          ELSE WokenRow(jobs[k], Cardinality(Parents(k) \cap done))]
    BY Zenon DEF Flush
  <2> WITNESS {r \in batch : Holds(r, {"running"})} \in SUBSET {r \in runs : Holds(r, {"running"})}
  <2> QED
    BY <2>1, Zenon
<1> DEFINE done == {r.job : r \in matched}
<1>3. done \in SUBSET Job
  BY RunTypes
<1>4. ASSUME NEW k \in Job
      PROVE  \/ jobs[k].status = "running" /\ jobs'[k] = CompletedRow(jobs[k])
             \/ \E n \in Nat : jobs'[k] = WokenRow(jobs[k], n)
  <2>1. Cardinality(Parents(k) \cap done) \in Nat
    BY <1>3, JobSets
  <2>2. k \in done => jobs[k].status = "running"
    BY DEF Holds
  <2> QED
    BY <1>2, <2>1, <2>2, Zenon
<1> QED
  BY <1>1, <1>4, LegalUpdates DEF RowsLegal

LEMMA SchedulerStepLegal ==
  ASSUME TypeOK, SchedulerStep
  PROVE  RowsLegal
<1>1. \A k \in Job : jobs[k] \in Row
  BY DEF TypeOK
<1>2. CASE Promote
  <2>1. \A k \in Job : \/ /\ jobs[k].status \in {"scheduled", "retry_wait"}
                          /\ jobs'[k] = QueuedRow(jobs[k])
                       \/ jobs'[k] = jobs[k]
    BY <1>2, Zenon DEF Promote
  <2> QED
    BY <1>1, <2>1, LegalUpdates DEF RowsLegal, Legal
<1>3. ASSUME NEW s \in Scheduler, ReadExpired(s) PROVE RowsLegal
  BY <1>3, RowsStay DEF ReadExpired
<1>4. ASSUME NEW s \in Scheduler, ReportLost(s) PROVE RowsLegal
  <2>1. \/ jobs' = jobs
        \/ \E j \in Job : jobs[j].status \in Active /\ ReportFailure(j, "lost", FALSE)
    BY <1>4 DEF ReportLost, TypeOK
  <2> QED
    BY <2>1, RowsStay, ReportFailureLegal
<1> QED
  BY <1>2, <1>3, <1>4 DEF SchedulerStep

LEMMA ApiStepLegal ==
  ASSUME TypeOK, ApiStep
  PROVE  RowsLegal
<1>1. /\ \A k \in Job : jobs[k] \in Row /\ jobs[k].status \in Status
      /\ jobs \in [Job -> Row]
  BY DEF TypeOK, Row
<1>2. ASSUME NEW j \in Job, RetryNow(j) PROVE RowsLegal
  <2>1. /\ jobs[j].status \in {"scheduled", "retry_wait"}
        /\ jobs' = [jobs EXCEPT ![j] = QueuedRow(jobs[j])]
    BY <1>2 DEF RetryNow
  <2> QED
    BY <1>1, <2>1, LegalUpdates DEF RowsLegal, Legal
<1>3. ASSUME NEW j \in Job, Cancel(j) PROVE RowsLegal
  <2>1. /\ jobs[j].status \in Status \ Terminal
        /\ jobs' = [jobs EXCEPT ![j] = CancelledRow(jobs[j])]
    BY <1>1, <1>3 DEF Cancel, CancelEffect
  <2> QED
    BY <1>1, <2>1, LegalUpdates DEF RowsLegal, Legal
<1>4. ASSUME NEW j \in Job, ReplayJob(j) PROVE RowsLegal
  <2>1. PICK new : /\ jobs[j].status = "dead_letter" /\ jobs' = [jobs EXCEPT ![j] = new]
                   /\ \E now \in BOOLEAN : new = ReplayedRow(jobs[j], now)
    BY <1>4, Zenon DEF ReplayJob
  <2>2. Legal(jobs[j], new)
    BY <1>1, <2>1, LegalUpdates
  <2> QED
    BY <1>1, <2>1, <2>2 DEF RowsLegal, Legal
<1>5. CASE BulkRead
  BY <1>5, RowsStay DEF BulkRead
<1>6. CASE BulkReplay
  <2>1. ASSUME NEW k \in Job
        PROVE  \/ jobs'[k] = jobs[k]
               \/ jobs[k].status = "dead_letter"
                  /\ \E now \in BOOLEAN : jobs'[k] = ReplayedRow(jobs[k], now)
    <3>1. PICK now : jobs' = [j \in Job |->
            IF j \in {i \in bulk : jobs[i].status = "dead_letter"}
            THEN ReplayedRow(jobs[j], j \in now) ELSE jobs[j]]
      BY <1>6, Zenon DEF BulkReplay
    <3>2. (k \in now) \in BOOLEAN
      OBVIOUS
    <3> QED
      BY <3>1, <3>2, Zenon
  <2> QED
    BY <1>1, <2>1, LegalUpdates DEF RowsLegal, Legal
<1> QED
  BY <1>2, <1>3, <1>4, <1>5, <1>6 DEF ApiStep

LEMMA ClockStepLegal ==
  ASSUME TypeOK, NEW j \in Job, RunAtArrives(j) \/ LeaseRunsOut(j) \/ DeadlinePasses(j)
  PROVE  RowsLegal
<1>1. jobs \in [Job -> Row] /\ jobs[j] \in Row
  BY DEF TypeOK
<1>2. CASE RunAtArrives(j) \/ DeadlinePasses(j)
  <2>1. PICK new : /\ jobs' = [jobs EXCEPT ![j] = new]
                   /\ \/ new = [jobs[j] EXCEPT !.ripe = TRUE]
                      \/ /\ jobs[j].deadline = "ahead"
                         /\ new = [jobs[j] EXCEPT !.deadline = "past"]
    BY <1>2 DEF RunAtArrives, DeadlinePasses
  <2>2. Legal(jobs[j], new)
    BY <1>1, <2>1, ClockFields DEF Legal
  <2> QED
    BY <1>1, <2>1, <2>2 DEF RowsLegal, Legal
<1>3. CASE LeaseRunsOut(j)
  BY <1>3, RowsStay DEF LeaseRunsOut
<1> QED
  BY <1>2, <1>3

LEMMA NextLegal == TypeOK /\ [Next]_vars => RowsLegal
<1> SUFFICES ASSUME TypeOK, [Next]_vars PROVE RowsLegal
  OBVIOUS
<1>1. CASE ClaimStep \/ \E w \in Worker : TakeAckLost(w)
  BY <1>1, ClaimStepLegal DEF ClaimStep
<1>2. CASE RunStep
  <2>1. ASSUME NEW w \in Worker, Crash(w) PROVE RowsLegal
    BY <2>1, RowsStay DEF Crash
  <2> QED
    BY <1>2, <2>1, RunStepLegal, FlushLegal DEF RunStep
<1>3. CASE SchedulerStep \/ ApiStep \/ ClockStep
  BY <1>3, SchedulerStepLegal, ApiStepLegal, ClockStepLegal DEF ClockStep
<1>4. CASE UNCHANGED vars
  BY <1>4, RowsStay DEF vars
<1> QED
  BY <1>1, <1>2, <1>3, <1>4 DEF Next, AckedNext

-----------------------------------------------------------------------------
(* The refinement.                                                         *)

\* Every behaviour of the code, seen through the status and the counters of the
\* rows, is a behaviour of the contract: only the edges of legal_transition,
\* the fence moved by claim and snooze alone, the attempt by start alone, the
\* generation by replay alone.
THEOREM ImplementsContract == Spec => FsmSpec
<1> DEFINE c == [j \in Job |-> [status |-> jobs[j].status, fence |-> jobs[j].fence,
                                attempt |-> jobs[j].attempt, gen |-> jobs[j].gen]]
<1>1. Init => Fsm!Init
  <2> SUFFICES ASSUME Init PROVE Fsm!Init
    OBVIOUS
  <2>1. \A j \in Job : /\ jobs[j].status \in {"scheduled", "queued"}
                       /\ jobs[j].fence = 0 /\ jobs[j].attempt = 0 /\ jobs[j].gen = 0
    BY DEF Init
  <2> QED
    BY <2>1 DEF Fsm!Init
<1>2. TypeOK /\ TypeOK' /\ [Next]_vars => [Fsm!Next]_c
  <2> SUFFICES ASSUME TypeOK, TypeOK', [Next]_vars PROVE Fsm!Next
    OBVIOUS
  <2>1. RowsLegal
    BY NextLegal
  <2>2. c' \in [Job -> Fsm!ContractRow]
    BY DEF TypeOK, Row, Status, Active, Waiting, Terminal, Fsm!ContractRow, Fsm!Status
  <2>3. ASSUME NEW j \in Job, c'[j] # c[j] PROVE Fsm!Edge(c[j], c'[j])
    BY <2>1, <2>3 DEF RowsLegal, Legal, Fsm!Edge
  <2> QED
    BY <2>2, <2>3 DEF Fsm!Next
<1> QED
  BY <1>1, <1>2, TypeCorrect, PTL DEF Spec, FsmSpec, Fsm!Spec

-----------------------------------------------------------------------------
(* Closed executions.                                                      *)

Closed(rows) == {e \in rows : e.outcome # "open"}
ClosedKept == \A j \in Job : Closed(execs[j]) \subseteq execs'[j]

\* Closing, by fence or altogether, leaves what is closed as it is.
LEMMA ClosingKeeps ==
  ASSUME NEW rows, NEW fences, NEW o
  PROVE  /\ Closed(rows) \subseteq CloseFence(rows, fences, o)
         /\ Closed(rows) \subseteq CloseOpen(rows, o)
BY DEF Closed, CloseFence, CloseOpen

LEMMA ExecsStay == execs' = execs => ClosedKept
BY DEF ClosedKept, Closed

LEMMA JobCloses ==
  ASSUME TypeOK, NEW j \in Job, NEW o, execs' = [execs EXCEPT ![j] = CloseOpen(execs[j], o)]
  PROVE  ClosedKept
<1>1. execs \in [Job -> SUBSET Execution]
  BY DEF TypeOK
<1> QED
  BY <1>1, ClosingKeeps DEF ClosedKept, Closed

LEMMA ReportFailureCloses ==
  ASSUME TypeOK, NEW j \in Job, NEW o, NEW p, ReportFailure(j, o, p)
  PROVE  ClosedKept
<1>1. execs' = [execs EXCEPT ![j] = CloseOpen(execs[j], o)]
  BY DEF ReportFailure
<1> QED
  BY <1>1, JobCloses

LEMMA RunStepCloses ==
  ASSUME TypeOK, NEW r \in runs,
         \/ Start(r) \/ Extend(r) \/ HandlerOK(r) \/ Fail(r)
         \/ Snooze(r) \/ Probe(r) \/ Abandon(r)
  PROVE  ClosedKept
<1>1. execs \in [Job -> SUBSET Execution] /\ r.job \in Job
  BY RunTypes DEF TypeOK
<1>2. CASE Extend(r) \/ HandlerOK(r) \/ Abandon(r)
  BY <1>2, ExecsStay DEF Extend, HandlerOK, Abandon
<1>3. CASE Start(r)
  <2>1. execs' = execs \/ \E e : execs' = [execs EXCEPT ![r.job] = execs[r.job] \cup {e}]
    BY <1>3 DEF Start
  <2> QED
    BY <1>1, <2>1, ExecsStay DEF ClosedKept, Closed
<1>4. CASE Fail(r)
  <2>1. execs' = execs \/ \E o, p : ReportFailure(r.job, o, p)
    BY <1>4 DEF Fail
  <2> QED
    BY <1>1, <2>1, ExecsStay, ReportFailureCloses
<1>5. CASE Snooze(r) \/ Probe(r)
  <2>1. \/ execs' = execs
        \/ \E o : execs' = [execs EXCEPT ![r.job] = CloseFence(execs[r.job], {r.fence}, o)]
    BY <1>5 DEF Snooze, Probe
  <2> QED
    BY <1>1, <2>1, ExecsStay, ClosingKeeps DEF ClosedKept, Closed
<1> QED
  BY <1>2, <1>3, <1>4, <1>5

LEMMA FlushCloses ==
  ASSUME NEW w \in Worker, Flush(w)
  PROVE  ClosedKept
<1>1. PICK matched : execs' = [k \in Job |->
        CloseFence(execs[k], {r.fence : r \in {m \in matched : m.job = k}}, "success")]
  BY Zenon DEF Flush
<1> QED
  BY <1>1, ClosingKeeps, Zenon DEF ClosedKept

LEMMA NextCloses == TypeOK /\ [Next]_vars => ClosedKept
<1> SUFFICES ASSUME TypeOK, [Next]_vars PROVE ClosedKept
  OBVIOUS
<1>1. CASE ClaimStep \/ \E w \in Worker : TakeAckLost(w)
  BY <1>1, ExecsStay DEF ClaimStep, Admit, Take, TakeFails, DropReservation, TakeAckLost
<1>2. CASE RunStep
  <2>1. ASSUME NEW w \in Worker, Crash(w) PROVE ClosedKept
    BY <2>1, ExecsStay DEF Crash
  <2> QED
    BY <1>2, <2>1, RunStepCloses, FlushCloses DEF RunStep
<1>3. CASE SchedulerStep
  <2>1. ASSUME NEW s \in Scheduler, ReportLost(s) PROVE ClosedKept
    <3>1. execs' = execs \/ \E j \in Job, p \in BOOLEAN : ReportFailure(j, "lost", p)
      BY <2>1 DEF ReportLost, TypeOK
    <3> QED
      BY <3>1, ExecsStay, ReportFailureCloses
  <2> QED
    BY <1>3, <2>1, ExecsStay DEF SchedulerStep, Promote, ReadExpired
<1>4. CASE ApiStep
  <2>1. ASSUME NEW j \in Job, Cancel(j) PROVE ClosedKept
    <3>1. execs' = execs \/ execs' = [execs EXCEPT ![j] = CloseOpen(execs[j], "cancelled")]
      BY <2>1, Zenon DEF Cancel, CancelEffect
    <3> QED
      BY <3>1, ExecsStay, JobCloses
  <2> QED
    BY <1>4, <2>1, ExecsStay DEF ApiStep, RetryNow, ReplayJob, BulkRead, BulkReplay
<1>5. CASE ClockStep
  BY <1>5, ExecsStay DEF ClockStep, RunAtArrives, LeaseRunsOut, DeadlinePasses
<1>6. CASE UNCHANGED vars
  BY <1>6, ExecsStay DEF vars
<1> QED
  BY <1>1, <1>2, <1>3, <1>4, <1>5, <1>6 DEF Next, AckedNext

\* je_no_reclose never has to refuse a write: late reports, probes, reaps,
\* cancels and replays leave a closed execution with the outcome it has.
THEOREM ClosedForGood == Spec => ClosedStaysClosed
<1>1. TypeOK /\ [Next]_vars =>
        [\A j \in Job : \A e \in execs[j] : e.outcome # "open" => e \in execs'[j]]_vars
  BY NextCloses DEF ClosedKept, Closed
<1> QED
  BY <1>1, TypeCorrect, PTL DEF Spec, ClosedStaysClosed
=============================================================================
