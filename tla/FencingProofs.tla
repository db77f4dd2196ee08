--------------------------- MODULE FencingProofs ----------------------------
(***************************************************************************)
(* Fencing, for any number of jobs, workers and schedulers.                *)
(***************************************************************************)
EXTENDS JobCoreProofs

\* The open execution of a running job.
Current(row) == [gen |-> row.gen, attempt |-> row.attempt, fence |-> row.fence,
                 outcome |-> "open"]

\* The inductive invariant of one job: its row, its executions, its lease.
OpenInv(row, rows) ==
  /\ row.status = "running" => Current(row) \in rows
  /\ \A e \in rows : e.outcome = "open" => row.status = "running" /\ e = Current(row)

WonInv(row, rows) ==
  /\ row.status = "completed" => \E e \in rows : e.outcome = "success"
  /\ \A e \in rows : e.outcome = "success" =>
       row.status = "completed" /\ e.fence = row.fence

PastInv(row, rows) ==
  /\ \A e \in rows : /\ e.fence <= row.fence /\ e.gen <= row.gen
                     /\ e.gen = row.gen => e.attempt <= row.attempt
                     /\ row.status \in {"claimed"} => e.fence # row.fence
  /\ \A e1, e2 \in rows : (\/ e1.gen = e2.gen /\ e1.attempt = e2.attempt
                           \/ e1.fence = e2.fence) => e1 = e2

CheckInv(row) ==
  /\ row.status \in Terminal <=> row.finished
  /\ row.status \in Active => row.owner # NoWorker /\ row.deadline # "null"
  /\ row.status \in Waiting => row.owner = NoWorker
  /\ row.fence >= row.attempt + (IF row.status = "claimed" THEN 1 ELSE 0)
  /\ DepsCheck(row)

JobInv(row, rows, ls) ==
  /\ OpenInv(row, rows) /\ WonInv(row, rows) /\ PastInv(row, rows) /\ CheckInv(row)
  /\ (ls # "none") <=> (row.status \in Active)

FencingInv ==
  /\ TypeOK
  /\ FenceHeldOnce
  /\ \A j \in Job : JobInv(jobs[j], execs[j], lease[j])

-----------------------------------------------------------------------------
(* What each update does to the fields of a row.                           *)

LEMMA RowFields ==
  ASSUME NEW row \in Row
  PROVE  /\ row.fence \in Nat /\ row.attempt \in Nat /\ row.gen \in Nat
         /\ row.pending \in Nat /\ row.status \in Status /\ row.finished \in BOOLEAN
BY DEF Row

LEMMA ClaimedFields ==
  ASSUME NEW row \in Row, NEW w \in Worker, NEW new, new = ClaimedRow(w, row)
  PROVE  /\ new.status = "claimed" /\ new.fence = row.fence + 1
         /\ new.attempt = row.attempt /\ new.gen = row.gen /\ new.owner = w
         /\ new.deadline = "ahead" /\ new.finished = row.finished
         /\ new.pending = row.pending /\ new.shard = claim[w].shard
BY DEF ClaimedRow, Row

LEMMA StartedFields ==
  ASSUME NEW row \in Row, NEW new, new = StartedRow(row)
  PROVE  /\ new.status = "running" /\ new.fence = row.fence
         /\ new.attempt = row.attempt + 1 /\ new.gen = row.gen /\ new.owner = row.owner
         /\ new.deadline = row.deadline /\ new.finished = row.finished
         /\ new.pending = row.pending /\ new.shard = row.shard
BY DEF StartedRow, Row

LEMMA WokenFields ==
  ASSUME NEW row \in Row, NEW n \in Nat, NEW new, new = WokenRow(row, n)
  PROVE  /\ new.fence = row.fence /\ new.attempt = row.attempt /\ new.gen = row.gen
         /\ new.owner = row.owner /\ new.deadline = row.deadline
         /\ new.finished = row.finished /\ new.shard = row.shard
         /\ IF n > 0 /\ row.status = "scheduled" /\ row.pending > 0
            THEN /\ new.pending = Minus(row.pending, n)
                 /\ \/ new.status = "scheduled"
                    \/ new.status = "queued" /\ n >= row.pending
            ELSE new = row
BY DEF WokenRow, Row

LEMMA EndedFields ==
  ASSUME NEW row \in Row, NEW new,
         new = CompletedRow(row) \/ new = KilledRow(row) \/ new = CancelledRow(row)
  PROVE  /\ new.fence = row.fence /\ new.attempt = row.attempt /\ new.gen = row.gen
         /\ new.owner = NoWorker /\ new.deadline = row.deadline /\ new.finished
         /\ new.shard = row.shard
         /\ new = CompletedRow(row) => new.status = "completed" /\ new.pending = row.pending
         /\ new = KilledRow(row) => new.status = "cancelled" /\ new.pending = 0
         /\ new = CancelledRow(row) => new.status = "cancelled" /\ new.pending = row.pending
<1>1. ASSUME new = CompletedRow(row)
      PROVE  /\ new.fence = row.fence /\ new.attempt = row.attempt /\ new.gen = row.gen
             /\ new.owner = NoWorker /\ new.deadline = row.deadline /\ new.finished
             /\ new.shard = row.shard /\ new.status = "completed" /\ new.pending = row.pending
  BY <1>1 DEF CompletedRow, Row
<1>2. ASSUME new = KilledRow(row)
      PROVE  /\ new.fence = row.fence /\ new.attempt = row.attempt /\ new.gen = row.gen
             /\ new.owner = NoWorker /\ new.deadline = row.deadline /\ new.finished
             /\ new.shard = row.shard /\ new.status = "cancelled" /\ new.pending = 0
  BY <1>2 DEF KilledRow, Row
<1>3. ASSUME new = CancelledRow(row)
      PROVE  /\ new.fence = row.fence /\ new.attempt = row.attempt /\ new.gen = row.gen
             /\ new.owner = NoWorker /\ new.deadline = row.deadline /\ new.finished
             /\ new.shard = row.shard /\ new.status = "cancelled" /\ new.pending = row.pending
  BY <1>3 DEF CancelledRow, Row
<1> QED
  BY <1>1, <1>2, <1>3

LEMMA FailedFields ==
  ASSUME NEW row \in Row, NEW p \in BOOLEAN, NEW new, new = FailedRow(row, p)
  PROVE  /\ new.status \in {"dead_letter", "retry_wait"}
         /\ new.finished <=> new.status = "dead_letter"
         /\ new.fence = row.fence /\ new.attempt = row.attempt /\ new.gen = row.gen
         /\ new.owner = NoWorker /\ new.pending = row.pending /\ new.shard = row.shard
BY DEF FailedRow, Row

LEMMA SnoozedFields ==
  ASSUME NEW row \in Row, NEW now \in BOOLEAN, NEW new, new = SnoozedRow(row, now)
  PROVE  /\ new.status = "scheduled" /\ new.fence = row.fence + 1
         /\ new.attempt = row.attempt /\ new.gen = row.gen /\ new.owner = NoWorker
         /\ new.finished = row.finished /\ new.pending = row.pending
         /\ new.shard = row.shard
BY DEF SnoozedRow, Row

LEMMA QueuedFields ==
  ASSUME NEW row \in Row, NEW new, new = QueuedRow(row)
  PROVE  /\ new.status = "queued" /\ new.fence = row.fence
         /\ new.attempt = row.attempt /\ new.gen = row.gen /\ new.owner = row.owner
         /\ new.finished = row.finished /\ new.pending = row.pending
         /\ new.shard = row.shard
BY DEF QueuedRow, Row

LEMMA ReplayedFields ==
  ASSUME NEW row \in Row, NEW now \in BOOLEAN, NEW new, new = ReplayedRow(row, now)
  PROVE  /\ new.status = "queued" /\ new.fence = row.fence
         /\ new.attempt = 0 /\ new.gen = row.gen + 1 /\ new.owner = NoWorker
         /\ ~ new.finished /\ new.pending = row.pending /\ new.shard = row.shard
BY DEF ReplayedRow, Row

\* The clock changes only ripe and deadline.
LEMMA ClockFields ==
  ASSUME NEW row \in Row, NEW new,
         \/ new = [row EXCEPT !.ripe = TRUE]
         \/ row.deadline = "ahead" /\ new = [row EXCEPT !.deadline = "past"]
  PROVE  /\ new.status = row.status /\ new.fence = row.fence
         /\ new.attempt = row.attempt /\ new.gen = row.gen /\ new.owner = row.owner
         /\ new.finished = row.finished /\ new.pending = row.pending
         /\ new.shard = row.shard
         /\ new.deadline = "null" <=> row.deadline = "null"
BY DEF Row

-----------------------------------------------------------------------------
(* The executions of one job.                                              *)

LEMMA ExecutionFields ==
  ASSUME NEW rows \in SUBSET Execution
  PROVE  \A e \in rows : e.fence \in Nat /\ e.gen \in Nat /\ e.attempt \in Nat
BY DEF Execution

\* Closing by fence closes nothing unless the job is running under that fence,
\* and then it closes what is open.
LEMMA CloseSame ==
  ASSUME NEW row \in Row, NEW rows \in SUBSET Execution, NEW fences, NEW o,
         OpenInv(row, rows)
  PROVE  /\ row.status # "running" => CloseOpen(rows, o) = rows
         /\ row.status # "running" \/ row.fence \notin fences => CloseFence(rows, fences, o) = rows
         /\ row.fence \in fences => CloseFence(rows, fences, o) = CloseOpen(rows, o)
<1>1. \A e \in rows : e.outcome = "open" => row.status = "running" /\ e.fence = row.fence
  BY DEF OpenInv, Current
<1>2. row.status # "running" => CloseOpen(rows, o) = rows
  BY <1>1 DEF CloseOpen
<1>3. row.status # "running" \/ row.fence \notin fences => CloseFence(rows, fences, o) = rows
  BY <1>1 DEF CloseFence
<1>4. row.fence \in fences => CloseFence(rows, fences, o) = CloseOpen(rows, o)
  BY <1>1 DEF CloseFence, CloseOpen
<1> QED
  BY <1>2, <1>3, <1>4

\* A job that is neither running nor completed moves to such a state: its
\* executions stay consistent when fence and generation do not go back.
LEMMA QuietMove ==
  ASSUME NEW row \in Row, NEW new \in Row, NEW rows \in SUBSET Execution,
         OpenInv(row, rows), WonInv(row, rows), PastInv(row, rows),
         row.status \notin {"running", "completed"},
         new.status \notin {"running", "completed"},
         new.fence >= row.fence,
         new.status = "claimed" => row.status = "claimed" \/ new.fence > row.fence,
         \/ new.gen = row.gen /\ new.attempt = row.attempt
         \/ new.gen > row.gen
  PROVE  OpenInv(new, rows) /\ WonInv(new, rows) /\ PastInv(new, rows)
<1>1. OpenInv(new, rows) /\ WonInv(new, rows)
  BY DEF OpenInv, WonInv
<1>2. PastInv(new, rows)
  BY RowFields, ExecutionFields DEF PastInv
<1> QED
  BY <1>1, <1>2

\* An active job leaves the active states and its open execution is closed;
\* the outcome is success exactly when the job completes.
LEMMA ClosingMove ==
  ASSUME NEW row \in Row, NEW new \in Row, NEW rows \in SUBSET Execution, NEW o \in Outcome,
         OpenInv(row, rows), WonInv(row, rows), PastInv(row, rows),
         row.status \in Active, new.status \notin Active, o # "open",
         new.status = "completed" <=> o = "success",
         o = "success" => row.status = "running" /\ new.fence = row.fence,
         new.fence >= row.fence, new.gen = row.gen, new.attempt = row.attempt
  PROVE  /\ OpenInv(new, CloseOpen(rows, o))
         /\ WonInv(new, CloseOpen(rows, o))
         /\ PastInv(new, CloseOpen(rows, o))
<1> DEFINE Shut(e) == IF e.outcome = "open" THEN [e EXCEPT !.outcome = o] ELSE e
<1>1. \A e \in rows :
        /\ Shut(e).fence = e.fence /\ Shut(e).gen = e.gen /\ Shut(e).attempt = e.attempt
        /\ Shut(e).outcome = IF e.outcome = "open" THEN o ELSE e.outcome
  BY DEF Execution
<1>2. CloseOpen(rows, o) = {Shut(e) : e \in rows}
  BY DEF CloseOpen
<1> HIDE DEF Shut
<1>3. OpenInv(new, CloseOpen(rows, o))
  BY <1>1, <1>2 DEF OpenInv, Active
<1>4. WonInv(new, CloseOpen(rows, o))
  <2>1. ASSUME o = "success"
        PROVE  Shut(Current(row)) \in CloseOpen(rows, o)
               /\ Shut(Current(row)).outcome = "success"
    <3>1. Current(row) \in rows /\ Current(row).outcome = "open"
      BY <2>1 DEF OpenInv, Current
    <3> QED
      BY <1>1, <1>2, <2>1, <3>1
  <2>2. ASSUME NEW e \in rows, Shut(e).outcome = "success"
        PROVE  new.status = "completed" /\ Shut(e).fence = new.fence
    <3>1. e.outcome # "success"
      BY DEF WonInv, Active
    <3>2. e.outcome = "open" /\ o = "success"
      BY <1>1, <2>2, <3>1
    <3>3. e.fence = row.fence
      BY <3>2 DEF OpenInv, Current
    <3> QED
      BY <1>1, <3>2, <3>3
  <2> QED
    BY <1>2, <2>1, <2>2 DEF WonInv
<1>5. PastInv(new, CloseOpen(rows, o))
  <2>1. \A e \in rows : /\ Shut(e).fence <= new.fence /\ Shut(e).gen <= new.gen
                        /\ Shut(e).gen = new.gen => Shut(e).attempt <= new.attempt
    BY <1>1, RowFields, ExecutionFields DEF PastInv
  <2>2. \A e1, e2 \in rows : (\/ Shut(e1).gen = Shut(e2).gen /\ Shut(e1).attempt = Shut(e2).attempt
                              \/ Shut(e1).fence = Shut(e2).fence) => Shut(e1) = Shut(e2)
    BY <1>1 DEF PastInv
  <2> QED
    BY <1>2, <2>1, <2>2 DEF PastInv, Active
<1> QED
  BY <1>3, <1>4, <1>5

-----------------------------------------------------------------------------
(* Each update keeps the invariant of its job.                             *)

LEMMA ClaimedKeeps ==
  ASSUME NEW row \in Row, NEW rows \in SUBSET Execution, NEW w \in Worker, NEW ls,
         claim[w].shard \in Shard, JobInv(row, rows, ls), row.status = "queued"
  PROVE  JobInv(ClaimedRow(w, row), rows, "live")
<1>0. PICK new : new = ClaimedRow(w, row)
  OBVIOUS
<1>1. new \in Row
  BY <1>0, RowTypes
<1>2. OpenInv(new, rows) /\ WonInv(new, rows) /\ PastInv(new, rows)
  BY <1>0, <1>1, ClaimedFields, RowFields, QuietMove DEF JobInv
<1>3. CheckInv(new) /\ new.status \in Active
  BY <1>0, ClaimedFields, RowFields, WorkerAssumption
     DEF JobInv, CheckInv, DepsCheck, Terminal, Active, Waiting
<1> QED
  BY <1>0, <1>2, <1>3 DEF JobInv

LEMMA StartedKeeps ==
  ASSUME NEW row \in Row, NEW rows \in SUBSET Execution, NEW ls,
         JobInv(row, rows, ls), row.status = "claimed"
  PROVE  JobInv(StartedRow(row), rows \cup {Current(StartedRow(row))}, ls)
<1>0. PICK new : new = StartedRow(row)
  OBVIOUS
<1>1. /\ new.status = "running" /\ new.fence = row.fence /\ new.attempt = row.attempt + 1
      /\ new.gen = row.gen /\ new.owner = row.owner /\ new.deadline = row.deadline
      /\ new.finished = row.finished /\ new.pending = row.pending
  BY <1>0, StartedFields
<1>2. /\ Current(new).gen = new.gen /\ Current(new).attempt = new.attempt
      /\ Current(new).fence = new.fence /\ Current(new).outcome = "open"
  BY DEF Current
<1>3. OpenInv(new, rows \cup {Current(new)}) /\ WonInv(new, rows \cup {Current(new)})
  BY <1>1, <1>2 DEF JobInv, OpenInv, WonInv
<1>4. PastInv(new, rows \cup {Current(new)})
  <2>1. \A e \in rows : e.fence < new.fence
    BY <1>1, RowFields, ExecutionFields DEF JobInv, PastInv
  <2>2. \A e \in rows : e.gen <= new.gen /\ (e.gen = new.gen => e.attempt < new.attempt)
    BY <1>1, RowFields, ExecutionFields DEF JobInv, PastInv
  <2>3. new.fence \in Nat /\ new.gen \in Nat /\ new.attempt \in Nat
    BY <1>1, RowFields
  <2> QED
    BY <1>1, <1>2, <2>1, <2>2, <2>3, ExecutionFields DEF JobInv, PastInv
<1>5. CheckInv(new) /\ new.status \in Active /\ row.status \in Active
  BY <1>1, RowFields DEF JobInv, CheckInv, DepsCheck, Terminal, Active, Waiting
<1> QED
  BY <1>0, <1>3, <1>4, <1>5 DEF JobInv

LEMMA CompletedKeeps ==
  ASSUME NEW row \in Row, NEW rows \in SUBSET Execution, NEW ls,
         JobInv(row, rows, ls), row.status = "running"
  PROVE  JobInv(CompletedRow(row), CloseOpen(rows, "success"), "none")
<1>0. PICK new : new = CompletedRow(row)
  OBVIOUS
<1>1. new \in Row
  BY <1>0, RowTypes
<1>2. /\ OpenInv(new, CloseOpen(rows, "success")) /\ WonInv(new, CloseOpen(rows, "success"))
      /\ PastInv(new, CloseOpen(rows, "success"))
  BY <1>0, <1>1, EndedFields, RowFields, ClosingMove DEF JobInv, Active, Outcome
<1>3. CheckInv(new) /\ new.status \notin Active
  BY <1>0, EndedFields, RowFields DEF JobInv, CheckInv, DepsCheck, Terminal, Active, Waiting
<1> QED
  BY <1>0, <1>2, <1>3 DEF JobInv

LEMMA FailedKeeps ==
  ASSUME NEW row \in Row, NEW rows \in SUBSET Execution, NEW ls, NEW p \in BOOLEAN,
         NEW o \in Outcome \ {"open", "success"}, JobInv(row, rows, ls), row.status \in Active
  PROVE  JobInv(FailedRow(row, p), CloseOpen(rows, o), "none")
<1>0. PICK new : new = FailedRow(row, p)
  OBVIOUS
<1>1. new \in Row
  BY <1>0, RowTypes
<1>2. OpenInv(new, CloseOpen(rows, o)) /\ WonInv(new, CloseOpen(rows, o))
      /\ PastInv(new, CloseOpen(rows, o))
  BY <1>0, <1>1, FailedFields, RowFields, ClosingMove DEF JobInv, Active
<1>3. CheckInv(new) /\ new.status \notin Active
  BY <1>0, FailedFields, RowFields DEF JobInv, CheckInv, DepsCheck, Terminal, Active, Waiting
<1> QED
  BY <1>0, <1>2, <1>3 DEF JobInv

LEMMA SnoozedKeeps ==
  ASSUME NEW row \in Row, NEW rows \in SUBSET Execution, NEW ls, NEW now \in BOOLEAN,
         JobInv(row, rows, ls), row.status = "running"
  PROVE  JobInv(SnoozedRow(row, now), CloseOpen(rows, "snoozed"), "none")
<1>0. PICK new : new = SnoozedRow(row, now)
  OBVIOUS
<1>1. new \in Row
  BY <1>0, RowTypes
<1>2. /\ OpenInv(new, CloseOpen(rows, "snoozed")) /\ WonInv(new, CloseOpen(rows, "snoozed"))
      /\ PastInv(new, CloseOpen(rows, "snoozed"))
  BY <1>0, <1>1, SnoozedFields, RowFields, ClosingMove DEF JobInv, Active, Outcome
<1>3. CheckInv(new) /\ new.status \notin Active
  BY <1>0, SnoozedFields, RowFields DEF JobInv, CheckInv, DepsCheck, Terminal, Active, Waiting
<1> QED
  BY <1>0, <1>2, <1>3 DEF JobInv

LEMMA CancelledKeeps ==
  ASSUME NEW row \in Row, NEW rows \in SUBSET Execution, NEW ls,
         JobInv(row, rows, ls), row.status \notin Terminal, DepsCheck(CancelledRow(row))
  PROVE  /\ row.status \in Active =>
              JobInv(CancelledRow(row), CloseOpen(rows, "cancelled"), "none")
         /\ row.status \notin Active => JobInv(CancelledRow(row), rows, ls)
<1>0. PICK new : new = CancelledRow(row)
  OBVIOUS
<1>1. new \in Row /\ new.status = "cancelled" /\ new.fence = row.fence
      /\ new.attempt = row.attempt /\ new.gen = row.gen
  BY <1>0, RowTypes, EndedFields
<1>2. CheckInv(new) /\ new.status \notin Active
  BY <1>0, EndedFields, RowFields DEF JobInv, CheckInv, Terminal, Active, Waiting
<1>3. CASE row.status \in Active
  <2>1. /\ OpenInv(new, CloseOpen(rows, "cancelled"))
        /\ WonInv(new, CloseOpen(rows, "cancelled"))
        /\ PastInv(new, CloseOpen(rows, "cancelled"))
    BY <1>1, <1>3, RowFields, ClosingMove DEF JobInv, Active, Outcome
  <2> QED
    BY <1>0, <1>2, <1>3, <2>1 DEF JobInv
<1>4. CASE row.status \notin Active
  <2>1. OpenInv(new, rows) /\ WonInv(new, rows) /\ PastInv(new, rows)
    BY <1>1, <1>4, RowFields, QuietMove DEF JobInv, Active, Terminal
  <2> QED
    BY <1>0, <1>2, <1>4, <2>1 DEF JobInv
<1> QED
  BY <1>3, <1>4

LEMMA WaitingKeeps ==
  ASSUME NEW row \in Row, NEW rows \in SUBSET Execution, NEW ls, JobInv(row, rows, ls)
  PROVE  /\ row.status \in Waiting => JobInv(KilledRow(row), rows, ls)
         /\ row.status \in {"scheduled", "retry_wait"} /\ row.pending = 0 =>
              JobInv(QueuedRow(row), rows, ls)
         /\ \A now \in BOOLEAN :
              row.status = "dead_letter" => JobInv(ReplayedRow(row, now), rows, ls)
<1>1. ASSUME row.status \in Waiting PROVE JobInv(KilledRow(row), rows, ls)
  <2>0. PICK new : new = KilledRow(row)
    OBVIOUS
  <2>1. new \in Row
    BY <2>0, RowTypes
  <2>2. OpenInv(new, rows) /\ WonInv(new, rows) /\ PastInv(new, rows)
    BY <1>1, <2>0, <2>1, EndedFields, RowFields, QuietMove DEF JobInv, Waiting
  <2>3. CheckInv(new) /\ new.status \notin Active /\ row.status \notin Active
    BY <1>1, <2>0, EndedFields, RowFields
       DEF JobInv, CheckInv, DepsCheck, Terminal, Active, Waiting
  <2> QED
    BY <2>0, <2>2, <2>3 DEF JobInv
<1>2. ASSUME row.status \in {"scheduled", "retry_wait"}, row.pending = 0
      PROVE  JobInv(QueuedRow(row), rows, ls)
  <2>0. PICK new : new = QueuedRow(row)
    OBVIOUS
  <2>1. new \in Row
    BY <2>0, RowTypes
  <2>2. OpenInv(new, rows) /\ WonInv(new, rows) /\ PastInv(new, rows)
    BY <1>2, <2>0, <2>1, QueuedFields, RowFields, QuietMove DEF JobInv
  <2>3. CheckInv(new) /\ new.status \notin Active /\ row.status \notin Active
    BY <1>2, <2>0, QueuedFields, RowFields
       DEF JobInv, CheckInv, DepsCheck, Terminal, Active, Waiting
  <2> QED
    BY <2>0, <2>2, <2>3 DEF JobInv
<1>3. ASSUME NEW now \in BOOLEAN, row.status = "dead_letter"
      PROVE  JobInv(ReplayedRow(row, now), rows, ls)
  <2>0. PICK new : new = ReplayedRow(row, now)
    OBVIOUS
  <2>1. new \in Row
    BY <2>0, RowTypes
  <2>2. OpenInv(new, rows) /\ WonInv(new, rows) /\ PastInv(new, rows)
    BY <1>3, <2>0, <2>1, ReplayedFields, RowFields, QuietMove DEF JobInv
  <2>3. CheckInv(new) /\ new.status \notin Active /\ row.status \notin Active
    BY <1>3, <2>0, ReplayedFields, RowFields
       DEF JobInv, CheckInv, DepsCheck, Terminal, Active, Waiting
  <2> QED
    BY <2>0, <2>2, <2>3 DEF JobInv
<1> QED
  BY <1>1, <1>2, <1>3

LEMMA WokenKeeps ==
  ASSUME NEW row \in Row, NEW rows \in SUBSET Execution, NEW ls, NEW n \in Nat,
         JobInv(row, rows, ls)
  PROVE  JobInv(WokenRow(row, n), rows, ls)
<1>0. PICK new : new = WokenRow(row, n)
  OBVIOUS
<1>1. new \in Row
  BY <1>0, RowTypes
<1>2. CASE n > 0 /\ row.status = "scheduled" /\ row.pending > 0
  <2>0. /\ new.status \in {"scheduled", "queued"}
        /\ new.fence = row.fence /\ new.attempt = row.attempt /\ new.gen = row.gen
        /\ new.owner = row.owner /\ new.finished = row.finished
        /\ new.status = "queued" => new.pending = 0
    BY <1>0, <1>2, WokenFields, RowFields DEF Minus
  <2>1. OpenInv(new, rows) /\ WonInv(new, rows) /\ PastInv(new, rows)
    BY <1>1, <1>2, <2>0, RowFields, QuietMove DEF JobInv
  <2>2. CheckInv(new) /\ new.status \notin Active /\ row.status \notin Active
    BY <1>2, <2>0, RowFields DEF JobInv, CheckInv, DepsCheck, Terminal, Active, Waiting
  <2> QED
    BY <1>0, <2>1, <2>2 DEF JobInv
<1>3. CASE ~(n > 0 /\ row.status = "scheduled" /\ row.pending > 0)
  BY <1>0, <1>3, WokenFields
<1> QED
  BY <1>2, <1>3

LEMMA ClockKeeps ==
  ASSUME NEW row \in Row, NEW rows \in SUBSET Execution, NEW ls, JobInv(row, rows, ls),
         NEW new, \/ new = [row EXCEPT !.ripe = TRUE]
                  \/ row.deadline = "ahead" /\ new = [row EXCEPT !.deadline = "past"]
  PROVE  JobInv(new, rows, ls)
<1>1. /\ new.status = row.status /\ new.fence = row.fence
      /\ new.attempt = row.attempt /\ new.gen = row.gen /\ new.owner = row.owner
      /\ new.finished = row.finished /\ new.pending = row.pending
      /\ new.deadline = "null" <=> row.deadline = "null"
  BY ClockFields
<1>2. Current(new) = Current(row)
  BY <1>1 DEF Current
<1> QED
  BY <1>1, <1>2 DEF JobInv, OpenInv, WonInv, PastInv, CheckInv, DepsCheck

LEMMA LeaseKeeps ==
  ASSUME NEW row, NEW rows, NEW ls, NEW new, JobInv(row, rows, ls),
         ls # "none", new # "none"
  PROVE  JobInv(row, rows, new)
BY DEF JobInv

-----------------------------------------------------------------------------
(* The runs: a step that hands out no fence keeps fences held once.        *)

FencesGrow == \A j \in Job : jobs[j].fence <= jobs'[j].fence
RowsKept == \A j \in Job : JobInv(jobs'[j], execs'[j], lease'[j])

LEMMA HeldFewer ==
  ASSUME TypeOK, TypeOK', FenceHeldOnce, FencesGrow, runs' \subseteq runs
  PROVE  FenceHeldOnce'
<1>1. \A r \in runs : r.job \in Job /\ r.fence \in Nat
  BY RunTypes
<1>2. \A j \in Job : jobs[j].fence \in Nat /\ jobs'[j].fence \in Nat
  BY DEF TypeOK, Row
<1> QED
  BY <1>1, <1>2 DEF FenceHeldOnce, FencesGrow

LEMMA HeldMoved ==
  ASSUME TypeOK, TypeOK', FenceHeldOnce, FencesGrow, NEW r \in runs, NEW pc, Move(r, pc)
  PROVE  FenceHeldOnce'
<1>1. \A x \in runs : x.job \in Job /\ x.fence \in Nat
  BY RunTypes
<1>2. \A j \in Job : jobs[j].fence \in Nat /\ jobs'[j].fence \in Nat
  BY DEF TypeOK, Row
<1>3. PICK m : m = [r EXCEPT !.pc = pc]
  OBVIOUS
<1>4. m.job = r.job /\ m.fence = r.fence
  BY <1>3 DEF TypeOK, Run
<1>5. runs' = (runs \ {r}) \cup {m}
  BY <1>3 DEF Move
<1> QED
  BY <1>1, <1>2, <1>4, <1>5 DEF FenceHeldOnce, FencesGrow

LEMMA FencesSame == jobs' = jobs /\ TypeOK => FencesGrow
BY DEF TypeOK, Row, FencesGrow

LEMMA RowsSame == UNCHANGED <<jobs, execs, lease>> /\ FencingInv => RowsKept
BY DEF FencingInv, RowsKept

-----------------------------------------------------------------------------
(* The steps.                                                              *)

LEMMA ReportFailureKeeps ==
  ASSUME FencingInv, NEW j \in Job, NEW o \in Outcome \ {"open", "success"},
         NEW p \in BOOLEAN, jobs[j].status \in Active, ReportFailure(j, o, p)
  PROVE  RowsKept /\ FencesGrow
<1> USE DEF FencingInv
<1>0. \A k \in Job : jobs[k] \in Row /\ execs[k] \in SUBSET Execution
  BY DEF TypeOK
<1>1. JobInv(jobs'[j], execs'[j], lease'[j]) /\ jobs'[j].fence = jobs[j].fence
  <2>1. jobs'[j] = FailedRow(jobs[j], p) /\ execs'[j] = CloseOpen(execs[j], o)
        /\ lease'[j] = "none"
    BY DEF ReportFailure, TypeOK
  <2> QED
    BY <1>0, <2>1, FailedKeeps, FailedFields
<1>2. ASSUME NEW k \in Job, k # j
      PROVE  JobInv(jobs'[k], execs'[k], lease'[k]) /\ jobs'[k].fence = jobs[k].fence
  <2>1. execs'[k] = execs[k] /\ lease'[k] = lease[k]
    BY <1>2 DEF ReportFailure, TypeOK
  <2>2. \/ jobs'[k] = jobs[k]
        \/ jobs'[k] = KilledRow(jobs[k]) /\ jobs[k].status \in Waiting
    BY <1>2 DEF ReportFailure
  <2> QED
    BY <1>0, <2>1, <2>2, WaitingKeeps, EndedFields
<1> QED
  BY <1>0, <1>1, <1>2, RowFields DEF RowsKept, FencesGrow

LEMMA TakeKeeps ==
  ASSUME FencingInv, NEW w \in Worker, NEW picked \in SUBSET Job,
         Takable(w, picked), TakeRows(w, picked), execs' = execs
  PROVE  /\ RowsKept /\ FencesGrow
         /\ \A j \in picked : jobs'[j].fence = jobs[j].fence + 1
<1> USE DEF FencingInv
<1>0. \A k \in Job : jobs[k] \in Row /\ execs[k] \in SUBSET Execution
  BY DEF TypeOK
<1>1. claim[w].shard \in Shard
  BY DEF TypeOK
<1>2. ASSUME NEW j \in picked
      PROVE  JobInv(jobs'[j], execs'[j], lease'[j]) /\ jobs'[j].fence = jobs[j].fence + 1
  <2>1. jobs'[j] = ClaimedRow(w, jobs[j]) /\ lease'[j] = "live" /\ execs'[j] = execs[j]
        /\ jobs[j].status = "queued"
    BY DEF TakeRows, Takable
  <2> QED
    BY <1>0, <1>1, <2>1, ClaimedKeeps, ClaimedFields
<1>3. ASSUME NEW j \in Job \ picked
      PROVE  JobInv(jobs'[j], execs'[j], lease'[j]) /\ jobs'[j].fence = jobs[j].fence
  BY DEF TakeRows
<1> QED
  BY <1>0, <1>2, <1>3, RowFields DEF RowsKept, FencesGrow

LEMMA ClaimStepFencing ==
  ASSUME FencingInv, NEW w \in Worker,
         \/ Admit(w) \/ Take(w) \/ TakeFails(w) \/ DropReservation(w) \/ TakeAckLost(w)
  PROVE  FencingInv'
<1>0. TypeOK' /\ TypeOK /\ FenceHeldOnce
  BY ClaimStepType DEF FencingInv
<1>1. CASE Admit(w) \/ TakeFails(w) \/ DropReservation(w)
  <2>1. UNCHANGED <<jobs, execs, lease, runs>>
    BY <1>1 DEF Admit, TakeFails, DropReservation
  <2> QED
    BY <1>0, <2>1, RowsSame, FencesSame, HeldFewer DEF FencingInv, RowsKept
<1>2. CASE TakeAckLost(w)
  <2>1. RowsKept /\ FencesGrow /\ runs' = runs
    BY <1>2, TakeKeeps DEF TakeAckLost
  <2> QED
    BY <1>0, <2>1, HeldFewer DEF FencingInv, RowsKept
<1>3. CASE Take(w)
  <2>1. PICK picked \in SUBSET Job :
          /\ Takable(w, picked) /\ TakeRows(w, picked) /\ execs' = execs
          /\ runs' = runs \cup {[worker |-> w, job |-> j, fence |-> jobs[j].fence + 1,
                                 pc |-> "claimed"] : j \in picked}
    BY <1>3 DEF Take
  <2>2. RowsKept /\ FencesGrow /\ \A j \in picked : jobs'[j].fence = jobs[j].fence + 1
    BY <2>1, TakeKeeps
  <2>3. \A r \in runs : r.job \in Job /\ r.fence \in Nat
    BY <1>0, RunTypes
  <2>4. \A j \in Job : jobs[j].fence \in Nat /\ jobs'[j].fence \in Nat
    BY <1>0 DEF TypeOK, Row
  <2>5. FenceHeldOnce'
    BY <1>0, <2>1, <2>2, <2>3, <2>4 DEF FenceHeldOnce, FencesGrow
  <2> QED
    BY <1>0, <2>2, <2>5 DEF FencingInv, RowsKept
<1> QED
  BY <1>1, <1>2, <1>3

LEMMA RunStepFencing ==
  ASSUME FencingInv, NEW r \in runs,
         \/ Start(r) \/ Extend(r) \/ HandlerOK(r) \/ Fail(r)
         \/ Snooze(r) \/ Probe(r) \/ Abandon(r)
  PROVE  FencingInv'
<1>0. TypeOK' /\ TypeOK /\ FenceHeldOnce
  BY RunStepType DEF FencingInv
<1>1. /\ \A k \in Job : /\ jobs[k] \in Row /\ execs[k] \in SUBSET Execution
                        /\ JobInv(jobs[k], execs[k], lease[k])
      /\ r.job \in Job
      /\ jobs \in [Job -> Row] /\ lease \in [Job -> {"none", "live", "expired"}]
      /\ execs \in [Job -> SUBSET Execution]
  BY <1>0, RunTypes DEF TypeOK, FencingInv
<1>2. Leave(r) => runs' \subseteq runs
  BY DEF Leave
<1>3. SUFFICES RowsKept /\ FencesGrow /\ (runs' \subseteq runs \/ \E pc : Move(r, pc))
  BY <1>0, HeldFewer, HeldMoved DEF FencingInv, RowsKept
<1>4. CASE Start(r) /\ Holds(r, {"claimed"})
  <2>1. /\ jobs' = [jobs EXCEPT ![r.job] = StartedRow(jobs[r.job])]
        /\ execs' = [execs EXCEPT ![r.job] = execs[r.job] \cup
               {[gen |-> jobs[r.job].gen, attempt |-> jobs[r.job].attempt + 1,
                 fence |-> r.fence, outcome |-> "open"]}]
        /\ lease' = lease /\ Move(r, "running")
    BY <1>4 DEF Start
  <2>2. Current(StartedRow(jobs[r.job])) =
          [gen |-> jobs[r.job].gen, attempt |-> jobs[r.job].attempt + 1,
           fence |-> r.fence, outcome |-> "open"]
    BY <1>1, <1>4, StartedFields DEF Current, Holds
  <2>3. jobs[r.job].status = "claimed"
    BY <1>4 DEF Holds
  <2>4. JobInv(jobs'[r.job], execs'[r.job], lease'[r.job])
        /\ jobs'[r.job].fence = jobs[r.job].fence
    BY <1>1, <2>1, <2>2, <2>3, StartedKeeps, StartedFields
  <2>5. RowsKept
    BY <1>1, <2>1, <2>4 DEF RowsKept
  <2>6. FencesGrow
    BY <1>1, <2>1, <2>4, RowFields DEF FencesGrow
  <2> QED
    BY <2>1, <2>5, <2>6
<1>5. CASE Start(r) /\ ~Holds(r, {"claimed"})
  <2>1. UNCHANGED <<jobs, execs, lease>> /\ runs' \subseteq runs
    BY <1>2, <1>5 DEF Start
  <2> QED
    BY <1>0, <2>1, RowsSame, FencesSame
<1>6. CASE Extend(r)
  <2>1. jobs' = jobs /\ execs' = execs /\ (runs' = runs \/ Move(r, "fenced"))
    BY <1>6 DEF Extend
  <2>2. RowsKept
    BY <1>1, <1>6, LeaseKeeps DEF Extend, Extended, RowsKept
  <2> QED
    BY <1>0, <2>1, <2>2, FencesSame
<1>7. CASE HandlerOK(r) \/ Abandon(r)
  <2>1. UNCHANGED <<jobs, execs, lease>> /\ (runs' \subseteq runs \/ Move(r, "done"))
    BY <1>2, <1>7 DEF HandlerOK, Abandon
  <2> QED
    BY <1>0, <2>1, RowsSame, FencesSame
<1>8. CASE Fail(r)
  <2>1. runs' \subseteq runs
    BY <1>2, <1>8 DEF Fail
  <2>2. CASE Holds(r, Active)
    <3>1. {"retryable_error", "permanent_error"} \subseteq Outcome \ {"open", "success"}
      BY DEF Outcome
    <3>2. jobs[r.job].status \in Active
      BY <2>2 DEF Holds
    <3>3. PICK o \in {"retryable_error", "permanent_error"}, p \in BOOLEAN :
            ReportFailure(r.job, o, p)
      BY <1>8, <2>2 DEF Fail
    <3> QED
      BY <1>1, <2>1, <3>1, <3>2, <3>3, ReportFailureKeeps
  <2>3. CASE ~Holds(r, Active)
    <3>1. UNCHANGED <<jobs, execs, lease>>
      BY <1>8, <2>3 DEF Fail
    <3> QED
      BY <1>0, <2>1, <3>1, RowsSame, FencesSame
  <2> QED
    BY <2>2, <2>3
<1>9. CASE Snooze(r)
  <2>1. runs' \subseteq runs
    BY <1>2, <1>9 DEF Snooze
  <2>2. CASE Holds(r, {"running"}) /\ jobs[r.job].snoozes < MaxAttempts
    <3>1. PICK now \in BOOLEAN : jobs' = [jobs EXCEPT ![r.job] = SnoozedRow(jobs[r.job], now)]
      BY <1>9, <2>2 DEF Snooze
    <3>2. /\ execs' = [execs EXCEPT ![r.job] = CloseFence(execs[r.job], {r.fence}, "snoozed")]
          /\ lease' = [lease EXCEPT ![r.job] = "none"]
      BY <1>9, <2>2 DEF Snooze
    <3>3. jobs[r.job].status = "running" /\ jobs[r.job].fence \in {r.fence}
      BY <2>2 DEF Holds
    <3>4. CloseFence(execs[r.job], {r.fence}, "snoozed") = CloseOpen(execs[r.job], "snoozed")
      <4>1. /\ jobs[r.job] \in Row /\ execs[r.job] \in SUBSET Execution
            /\ OpenInv(jobs[r.job], execs[r.job])
        BY <1>1 DEF JobInv
      <4> QED
        BY <3>3, <4>1, CloseSame
    <3>5. JobInv(jobs'[r.job], execs'[r.job], lease'[r.job])
          /\ jobs'[r.job].fence = jobs[r.job].fence + 1
      BY <1>1, <3>1, <3>2, <3>3, <3>4, SnoozedKeeps, SnoozedFields
    <3>6. RowsKept
      BY <1>1, <3>1, <3>2, <3>5 DEF RowsKept
    <3>7. FencesGrow
      <4>1. \A k \in Job : k # r.job => jobs'[k] = jobs[k]
        BY <1>1, <3>1
      <4>2. \A k \in Job : jobs[k].fence \in Nat
        BY <1>1, RowFields
      <4>3. jobs'[r.job].fence = jobs[r.job].fence + 1
        BY <3>5
      <4> QED
        BY <4>1, <4>2, <4>3 DEF FencesGrow
    <3> QED
      BY <2>1, <3>6, <3>7
  <2>3. CASE ~(Holds(r, {"running"}) /\ jobs[r.job].snoozes < MaxAttempts)
    <3>1. UNCHANGED <<jobs, execs, lease>>
      BY <1>9, <2>3 DEF Snooze
    <3> QED
      BY <1>0, <2>1, <3>1, RowsSame, FencesSame
  <2> QED
    BY <2>2, <2>3
<1>10. CASE Probe(r)
  <2>1. runs' \subseteq runs /\ jobs' = jobs /\ lease' = lease
    BY <1>2, <1>10 DEF Probe
  <2>2. CASE Holds(r, Active)
    BY <1>0, <1>10, <2>1, <2>2, RowsSame, FencesSame DEF Probe
  <2>3. CASE ~Holds(r, Active)
    <3>1. jobs[r.job].status # "running" \/ jobs[r.job].fence \notin {r.fence}
      BY <2>3 DEF Holds, Active
    <3>2. CloseFence(execs[r.job], {r.fence}, ProbeOutcome(r)) = execs[r.job]
      <4>1. /\ jobs[r.job] \in Row /\ execs[r.job] \in SUBSET Execution
            /\ OpenInv(jobs[r.job], execs[r.job])
        BY <1>1 DEF JobInv
      <4> QED
        BY <3>1, <4>1, CloseSame
    <3>3. execs' = execs
      BY <1>1, <1>10, <2>3, <3>2 DEF Probe
    <3> QED
      BY <1>0, <2>1, <3>3, RowsSame, FencesSame
  <2> QED
    BY <2>2, <2>3
<1> QED
  BY <1>4, <1>5, <1>6, <1>7, <1>8, <1>9, <1>10

LEMMA FlushFencing ==
  ASSUME FencingInv, NEW w \in Worker, Flush(w)
  PROVE  FencingInv'
<1>0. TypeOK' /\ TypeOK /\ FenceHeldOnce
  BY FlushType DEF FencingInv
<1>1. \A k \in Job : /\ jobs[k] \in Row /\ execs[k] \in SUBSET Execution
                     /\ JobInv(jobs[k], execs[k], lease[k])
  BY <1>0 DEF TypeOK, FencingInv
<1>2. PICK batch \in SUBSET {r \in runs : r.worker = w /\ r.pc = "done"} :
        LET matched == {r \in batch : Holds(r, {"running"})}
            done == {r.job : r \in matched}
            missed == {r \in batch : r.job \notin done}
        IN /\ jobs' = [k \in Job |-> IF k \in done THEN CompletedRow(jobs[k])
                          ELSE WokenRow(jobs[k], Cardinality(Parents(k) \cap done))]
           /\ execs' = [k \in Job |->
                CloseFence(execs[k], {r.fence : r \in {m \in matched : m.job = k}}, "success")]
           /\ lease' = [k \in Job |-> IF k \in done THEN "none" ELSE lease[k]]
           /\ runs' = (runs \ batch) \cup {[r EXCEPT !.pc = "unmatched"] : r \in missed}
  BY DEF Flush, Flushed
<1> DEFINE matched == {r \in batch : Holds(r, {"running"})}
           done == {r.job : r \in matched}
           missed == {r \in batch : r.job \notin done}
           fences(k) == {r.fence : r \in {m \in matched : m.job = k}}
<1>3. done \in SUBSET Job
  BY <1>0, RunTypes
<1>4. ASSUME NEW k \in done
      PROVE  JobInv(jobs'[k], execs'[k], lease'[k]) /\ jobs'[k].fence = jobs[k].fence
  <2>1. PICK r \in matched : r.job = k
    OBVIOUS
  <2>2. k \in Job /\ jobs[k].status = "running" /\ jobs[k].fence \in fences(k)
    BY <1>3, <2>1 DEF Holds
  <2>3. CloseFence(execs[k], fences(k), "success") = CloseOpen(execs[k], "success")
    <3>1. jobs[k] \in Row /\ execs[k] \in SUBSET Execution /\ OpenInv(jobs[k], execs[k])
      BY <1>1, <2>2 DEF JobInv
    <3> QED
      BY <2>2, <3>1, CloseSame
  <2>4. jobs'[k] = CompletedRow(jobs[k]) /\ lease'[k] = "none"
        /\ execs'[k] = CloseFence(execs[k], fences(k), "success")
    BY <1>2, <2>2
  <2> QED
    BY <1>1, <2>2, <2>3, <2>4, CompletedKeeps, EndedFields
<1>5. ASSUME NEW k \in Job, k \notin done
      PROVE  JobInv(jobs'[k], execs'[k], lease'[k]) /\ jobs'[k].fence = jobs[k].fence
  <2>1. fences(k) = {}
    BY <1>5
  <2>2. CloseFence(execs[k], fences(k), "success") = execs[k]
    <3>1. jobs[k] \in Row /\ execs[k] \in SUBSET Execution /\ OpenInv(jobs[k], execs[k])
      BY <1>1, <1>5 DEF JobInv
    <3> QED
      BY <2>1, <3>1, CloseSame
  <2>3. PICK n : n = Cardinality(Parents(k) \cap done)
    OBVIOUS
  <2>4. n \in Nat
    BY <1>3, <2>3, JobSets
  <2>5. jobs'[k] = WokenRow(jobs[k], n) /\ lease'[k] = lease[k] /\ execs'[k] = execs[k]
    BY <1>2, <1>5, <2>2, <2>3
  <2> QED
    BY <1>1, <2>4, <2>5, WokenKeeps, WokenFields
<1>6. RowsKept
  BY <1>4, <1>5 DEF RowsKept
<1>7. FencesGrow
  BY <1>1, <1>4, <1>5, RowFields DEF FencesGrow
<1>8. FenceHeldOnce'
  <2>1. \A x \in runs : x.job \in Job /\ x.fence \in Nat
    BY <1>0, RunTypes
  <2>2. \A j \in Job : jobs[j].fence \in Nat /\ jobs'[j].fence \in Nat
    BY <1>0 DEF TypeOK, Row
  <2> DEFINE lost(r) == [r EXCEPT !.pc = "unmatched"]
  <2>3. \A r \in runs : lost(r).job = r.job /\ lost(r).fence = r.fence
    BY <1>0 DEF TypeOK, Run
  <2>4. \A x \in runs' : x \in runs \ batch \/ \E r \in batch : x = lost(r)
    BY <1>2
  <2> HIDE DEF lost
  <2>5. \A x \in runs' : \E r \in runs : /\ x.job = r.job /\ x.fence = r.fence
                                         /\ \/ x = r /\ r \notin batch
                                            \/ x = lost(r) /\ r \in batch
    BY <2>3, <2>4
  <2> QED
    BY <1>0, <1>7, <2>1, <2>2, <2>5 DEF FenceHeldOnce, FencesGrow
<1> QED
  BY <1>0, <1>6, <1>8 DEF FencingInv, RowsKept

LEMMA SchedulerStepFencing ==
  ASSUME FencingInv, SchedulerStep
  PROVE  FencingInv'
<1>0. TypeOK' /\ TypeOK /\ FenceHeldOnce
  BY SchedulerStepType DEF FencingInv
<1>1. \A k \in Job : /\ jobs[k] \in Row /\ execs[k] \in SUBSET Execution
                     /\ JobInv(jobs[k], execs[k], lease[k])
  BY <1>0 DEF TypeOK, FencingInv
<1>2. SUFFICES RowsKept /\ FencesGrow /\ runs' = runs
  BY <1>0, HeldFewer DEF FencingInv, RowsKept
<1>3. CASE Promote
  <2>1. runs' = runs /\ execs' = execs /\ lease' = lease
    BY <1>3 DEF Promote
  <2>2. ASSUME NEW k \in Job
        PROVE  JobInv(jobs'[k], execs[k], lease[k]) /\ jobs'[k].fence = jobs[k].fence
    <3>1. \/ jobs'[k] = jobs[k]
          \/ /\ jobs'[k] = QueuedRow(jobs[k])
             /\ jobs[k].status \in {"scheduled", "retry_wait"} /\ jobs[k].pending = 0
      BY <1>3 DEF Promote
    <3> QED
      BY <1>1, <3>1, WaitingKeeps, QueuedFields
  <2> QED
    BY <1>1, <2>1, <2>2, RowFields DEF RowsKept, FencesGrow
<1>4. ASSUME NEW s \in Scheduler, ReadExpired(s) PROVE RowsKept /\ FencesGrow /\ runs' = runs
  BY <1>0, <1>4, RowsSame, FencesSame DEF ReadExpired
<1>5. ASSUME NEW s \in Scheduler, ReportLost(s) PROVE RowsKept /\ FencesGrow /\ runs' = runs
  <2>1. PICK j \in reap[s] :
          /\ IF jobs[j].status \in Active
             THEN ReportFailure(j, "lost", FALSE)
             ELSE UNCHANGED <<jobs, execs, lease, dlq, inFlight>>
          /\ UNCHANGED <<claim, runs, bulk>>
    BY <1>5 DEF ReportLost
  <2>2. j \in Job /\ "lost" \in Outcome \ {"open", "success"}
    BY <1>0, <1>5, <2>1 DEF TypeOK, Outcome
  <2> QED
    BY <1>0, <2>1, <2>2, ReportFailureKeeps, RowsSame, FencesSame
<1> QED
  BY <1>3, <1>4, <1>5 DEF SchedulerStep

LEMMA ApiStepFencing ==
  ASSUME FencingInv, ApiStep
  PROVE  FencingInv'
<1>0. TypeOK' /\ TypeOK /\ FenceHeldOnce
  BY ApiStepType DEF FencingInv
<1>1. /\ \A k \in Job : /\ jobs[k] \in Row /\ execs[k] \in SUBSET Execution
                        /\ JobInv(jobs[k], execs[k], lease[k])
      /\ jobs \in [Job -> Row] /\ lease \in [Job -> {"none", "live", "expired"}]
      /\ execs \in [Job -> SUBSET Execution]
  BY <1>0 DEF TypeOK, FencingInv
<1>2. SUFFICES RowsKept /\ FencesGrow /\ runs' = runs
  BY <1>0, HeldFewer DEF FencingInv, RowsKept
<1>3. ASSUME NEW j \in Job, RetryNow(j) PROVE RowsKept /\ FencesGrow /\ runs' = runs
  <2>1. /\ jobs' = [jobs EXCEPT ![j] = QueuedRow(jobs[j])]
        /\ UNCHANGED <<execs, lease, runs>>
        /\ jobs[j].status \in {"scheduled", "retry_wait"} /\ jobs[j].pending = 0
    BY <1>3 DEF RetryNow
  <2>2. JobInv(QueuedRow(jobs[j]), execs[j], lease[j])
        /\ QueuedRow(jobs[j]).fence = jobs[j].fence
    BY <1>1, <2>1, WaitingKeeps, QueuedFields
  <2> QED
    BY <1>1, <2>1, <2>2, RowFields DEF RowsKept, FencesGrow
<1>4. ASSUME NEW j \in Job, Cancel(j) PROVE RowsKept /\ FencesGrow /\ runs' = runs
  <2>1. /\ jobs[j].status \notin Terminal /\ DepsCheck(CancelledRow(jobs[j]))
        /\ jobs' = [jobs EXCEPT ![j] = CancelledRow(jobs[j])] /\ runs' = runs
    BY <1>4 DEF Cancel, CancelEffect
  <2>2. CancelledRow(jobs[j]).fence = jobs[j].fence
    BY <1>1, EndedFields
  <2>3. FencesGrow
    BY <1>1, <2>1, <2>2, RowFields DEF FencesGrow
  <2>4. CASE jobs[j].status \in Active
    <3>1. /\ execs' = [execs EXCEPT ![j] = CloseOpen(execs[j], "cancelled")]
          /\ lease' = [lease EXCEPT ![j] = "none"]
      BY <1>4, <2>4 DEF Cancel, CancelEffect
    <3>2. JobInv(CancelledRow(jobs[j]), CloseOpen(execs[j], "cancelled"), "none")
      BY <1>1, <2>1, <2>4, CancelledKeeps
    <3> QED
      BY <1>1, <2>1, <2>3, <3>1, <3>2 DEF RowsKept
  <2>5. CASE jobs[j].status \notin Active
    <3>1. UNCHANGED <<execs, lease>>
      BY <1>4, <2>5 DEF Cancel, CancelEffect
    <3>2. JobInv(CancelledRow(jobs[j]), execs[j], lease[j])
      BY <1>1, <2>1, <2>5, CancelledKeeps
    <3> QED
      BY <1>1, <2>1, <2>3, <3>1, <3>2 DEF RowsKept
  <2> QED
    BY <2>4, <2>5
<1>5. ASSUME NEW j \in Job, ReplayJob(j) PROVE RowsKept /\ FencesGrow /\ runs' = runs
  <2>1. PICK new : /\ new = ReplayedRow(jobs[j], TRUE)
                   /\ jobs' = [jobs EXCEPT ![j] = new]
                   /\ UNCHANGED <<execs, lease, runs>> /\ jobs[j].status = "dead_letter"
    BY <1>5 DEF ReplayJob
  <2>2. JobInv(new, execs[j], lease[j]) /\ new.fence = jobs[j].fence
    <3>1. TRUE \in BOOLEAN /\ jobs[j] \in Row /\ new = ReplayedRow(jobs[j], TRUE)
      BY <1>1, <2>1
    <3>2. new.fence = jobs[j].fence
      BY <3>1, ReplayedFields
    <3>3. JobInv(new, execs[j], lease[j])
      BY <1>1, <2>1, <3>1, WaitingKeeps
    <3> QED
      BY <3>2, <3>3
  <2>3. jobs' = [jobs EXCEPT ![j] = new] /\ UNCHANGED <<execs, lease, runs>>
    BY <2>1
  <2> QED
    BY <1>1, <2>2, <2>3, RowFields DEF RowsKept, FencesGrow
<1>6. CASE BulkRead
  BY <1>0, <1>6, RowsSame, FencesSame DEF BulkRead
<1>7. CASE BulkReplay
  <2>1. UNCHANGED <<execs, lease, runs>>
    BY <1>7 DEF BulkReplay
  <2>2. ASSUME NEW k \in Job
        PROVE  JobInv(jobs'[k], execs[k], lease[k]) /\ jobs'[k].fence = jobs[k].fence
    <3>1. \/ jobs'[k] = jobs[k]
          \/ jobs[k].status = "dead_letter"
             /\ \E now \in BOOLEAN : jobs'[k] = ReplayedRow(jobs[k], now)
      <4>1. PICK now : jobs' = [j \in Job |->
              IF j \in {i \in bulk : jobs[i].status = "dead_letter"}
              THEN ReplayedRow(jobs[j], j \in now) ELSE jobs[j]]
        BY <1>7, Zenon DEF BulkReplay
      <4>2. (k \in now) \in BOOLEAN
        OBVIOUS
      <4> QED
        BY <4>1, <4>2, Zenon
    <3> QED
      BY <1>1, <3>1, WaitingKeeps, ReplayedFields
  <2> QED
    BY <1>1, <2>1, <2>2, RowFields DEF RowsKept, FencesGrow
<1> QED
  BY <1>3, <1>4, <1>5, <1>6, <1>7 DEF ApiStep

LEMMA ClockStepFencing ==
  ASSUME FencingInv, NEW j \in Job, RunAtArrives(j) \/ LeaseRunsOut(j) \/ DeadlinePasses(j)
  PROVE  FencingInv'
<1>0. TypeOK' /\ TypeOK /\ FenceHeldOnce
  BY ClockStepType DEF FencingInv
<1>1. /\ \A k \in Job : /\ jobs[k] \in Row /\ execs[k] \in SUBSET Execution
                        /\ JobInv(jobs[k], execs[k], lease[k])
      /\ jobs \in [Job -> Row] /\ lease \in [Job -> {"none", "live", "expired"}]
  BY <1>0 DEF TypeOK, FencingInv
<1>2. SUFFICES RowsKept /\ FencesGrow /\ runs' = runs
  BY <1>0, HeldFewer DEF FencingInv, RowsKept
<1>3. CASE RunAtArrives(j) \/ DeadlinePasses(j)
  <2>1. PICK new : /\ jobs' = [jobs EXCEPT ![j] = new]
                   /\ \/ new = [jobs[j] EXCEPT !.ripe = TRUE]
                      \/ /\ jobs[j].deadline = "ahead"
                         /\ new = [jobs[j] EXCEPT !.deadline = "past"]
    BY <1>3 DEF RunAtArrives, DeadlinePasses
  <2>2. UNCHANGED <<execs, lease, runs>>
    BY <1>3 DEF RunAtArrives, DeadlinePasses
  <2>3. JobInv(new, execs[j], lease[j]) /\ new.fence = jobs[j].fence
    BY <1>1, <2>1, ClockKeeps, ClockFields
  <2> QED
    BY <1>1, <2>1, <2>2, <2>3, RowFields DEF RowsKept, FencesGrow
<1>4. CASE LeaseRunsOut(j)
  <2>1. RowsKept
    BY <1>1, <1>4, LeaseKeeps DEF LeaseRunsOut, RowsKept
  <2> QED
    BY <1>0, <1>4, <2>1, FencesSame DEF LeaseRunsOut
<1> QED
  BY <1>3, <1>4

LEMMA InitFencing == Init => FencingInv
<1> SUFFICES ASSUME Init PROVE FencingInv
  OBVIOUS
<1>1. TypeOK
  BY InitType
<1>2. \A j \in Job : execs[j] = {} /\ lease[j] = "none"
  BY DEF Init
<1>3. ASSUME NEW j \in Job PROVE CheckInv(jobs[j]) /\ jobs[j].status \in {"scheduled", "queued"}
  <2>1. PICK due \in SUBSET Job :
         jobs = [k \in Job |->
           [status |-> IF Parents(k) = {} /\ k \in due THEN "queued" ELSE "scheduled",
            fence |-> 0, attempt |-> 0, snoozes |-> 0, gen |-> 0, shard |-> 0,
            owner |-> NoWorker, ripe |-> k \in due, deadline |-> "null",
            finished |-> FALSE, pending |-> Cardinality(Parents(k))]]
    BY DEF Init
  <2>2. Parents(j) = {} => Cardinality(Parents(j)) = 0
    BY FS_EmptySet
  <2> QED
    BY <2>1, <2>2 DEF CheckInv, DepsCheck, Terminal, Active, Waiting
<1>4. \A j \in Job : JobInv(jobs[j], execs[j], lease[j])
  BY <1>2, <1>3 DEF JobInv, OpenInv, WonInv, PastInv, Active
<1> QED
  BY <1>1, <1>4 DEF FencingInv, FenceHeldOnce, Init

LEMMA NextFencing == FencingInv /\ [Next]_vars => FencingInv'
<1> SUFFICES ASSUME FencingInv, [Next]_vars PROVE FencingInv'
  OBVIOUS
<1>1. CASE ClaimStep \/ \E w \in Worker : TakeAckLost(w)
  BY <1>1, ClaimStepFencing DEF ClaimStep
<1>2. CASE RunStep
  <2>1. ASSUME NEW w \in Worker, Crash(w) PROVE FencingInv'
    <3>1. UNCHANGED <<jobs, execs, lease>> /\ runs' \subseteq runs
      BY <2>1 DEF Crash
    <3>2. TypeOK /\ TypeOK' /\ FenceHeldOnce
      BY <1>2, NextType DEF FencingInv, Next, AckedNext
    <3> QED
      BY <3>1, <3>2, RowsSame, FencesSame, HeldFewer DEF FencingInv, RowsKept
  <2> QED
    BY <1>2, <2>1, RunStepFencing, FlushFencing DEF RunStep
<1>3. CASE SchedulerStep \/ ApiStep \/ ClockStep
  BY <1>3, SchedulerStepFencing, ApiStepFencing, ClockStepFencing DEF ClockStep
<1>4. CASE UNCHANGED vars
  BY <1>4 DEF vars, FencingInv, TypeOK, FenceHeldOnce
<1> QED
  BY <1>1, <1>2, <1>3, <1>4 DEF Next, AckedNext

-----------------------------------------------------------------------------
(* The theorems.                                                           *)

\* FencingInv is an inductive invariant of everything the queue does.
THEOREM FencingInductive == Spec => []FencingInv
BY InitFencing, NextFencing, PTL DEF Spec

\* The ledger: the open executions of a job are the one its row stands for.
LEMMA LedgerFromInv == FencingInv => LedgerMatchesRow
<1> SUFFICES ASSUME FencingInv, NEW j \in Job
             PROVE  OpenExecs(j) = IF jobs[j].status = "running" THEN {Current(jobs[j])}
                                                                ELSE {}
  BY DEF LedgerMatchesRow, Current
<1>1. OpenInv(jobs[j], execs[j])
  BY DEF FencingInv, JobInv
<1>2. Current(jobs[j]).outcome = "open"
  BY DEF Current
<1> QED
  BY <1>1, <1>2, Zenon DEF OpenInv, OpenExecs

\* A completed job has exactly one successful execution.
LEMMA OnceFromInv == FencingInv => CompletedOnce
<1> SUFFICES ASSUME FencingInv, NEW j \in Job, NEW won,
                    won = {e \in execs[j] : e.outcome = "success"}
             PROVE  IF jobs[j].status = "completed"
                    THEN Cardinality(won) = 1 /\ \A e \in won : e.fence = jobs[j].fence
                    ELSE won = {}
  BY Zenon DEF CompletedOnce
<1>1. WonInv(jobs[j], execs[j]) /\ PastInv(jobs[j], execs[j])
  BY DEF FencingInv, JobInv
<1>2. ASSUME jobs[j].status = "completed" PROVE Cardinality(won) = 1
  <2>1. PICK e \in execs[j] : e.outcome = "success"
    BY <1>1, <1>2 DEF WonInv
  <2>2. won = {e}
    BY <1>1, <2>1 DEF WonInv, PastInv
  <2> QED
    BY <2>2, FS_Singleton
<1> QED
  BY <1>1, <1>2 DEF WonInv

\* Fencing: claim hands out every fence of a job to at most one run.
THEOREM FenceUnique == Spec => []FenceHeldOnce
<1>1. FencingInv => FenceHeldOnce
  BY DEF FencingInv
<1> QED
  BY <1>1, FencingInductive, PTL

\* job_executions has one open row per running job and none for any other, so
\* neither Probe's CloseExecution nor the orphan sweep has anything to close.
THEOREM LedgerCorrect == Spec => []LedgerMatchesRow
BY LedgerFromInv, FencingInductive, PTL

\* A lease row exists exactly for the claimed and running jobs.
THEOREM LeaseCorrect == Spec => []LeaseIffActive
<1>1. FencingInv => LeaseIffActive
  BY DEF FencingInv, JobInv, LeaseIffActive
<1> QED
  BY <1>1, FencingInductive, PTL

\* However many workers ran a job, at most one success is recorded, under the
\* fence the job ended with.
THEOREM CompletionExactlyOnce == Spec => []CompletedOnce
BY OnceFromInv, FencingInductive, PTL

\* Start never meets a unique key of job_executions.
THEOREM AttemptsNeverCollide == Spec => []AttemptsUnique
<1>1. FencingInv => AttemptsUnique
  BY DEF FencingInv, JobInv, PastInv, AttemptsUnique
<1> QED
  BY <1>1, FencingInductive, PTL

\* The ledger of every job agrees with its row, and no attempt or fence has two
\* executions in it (Start, Report, replay).
THEOREM LedgerIsExact == Spec => []LedgerExact
<1>1. LedgerMatchesRow /\ AttemptsUnique => LedgerExact
  BY DEF LedgerExact
<1> QED
  BY <1>1, LedgerCorrect, AttemptsNeverCollide, PTL

\* No write to the jobs table is refused by one of its check constraints.
THEOREM ChecksHold == Spec => []RowChecks
<1>1. FencingInv => RowChecks
  <2> SUFFICES ASSUME FencingInv, NEW j \in Job
               PROVE  CheckInv(jobs[j]) /\ jobs[j].fence >= jobs[j].attempt
    BY DEF RowChecks, CheckInv
  <2>1. CheckInv(jobs[j]) /\ jobs[j] \in Row
    BY DEF FencingInv, JobInv, TypeOK
  <2> QED
    BY <2>1, RowFields DEF CheckInv
<1> QED
  BY <1>1, FencingInductive, PTL
=============================================================================
