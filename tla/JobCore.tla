------------------------------- MODULE JobCore ------------------------------
(***************************************************************************)
(* One queue of Fenceline: the rows of jobs, job_leases, job_executions,   *)
(* dead_letter_jobs and queue_shards, the workers that claim, run and      *)
(* report, the schedulers that promote and reap, and the API calls that    *)
(* cancel, retry and replay.                                               *)
(*                                                                         *)
(* A SQL statement or function that locks the row it decides on is one     *)
(* action.  Where the code reads in one transaction and writes in another  *)
(* (admit then claim, list expired leases then report them, list dead jobs *)
(* then replay them, claim then start then report) there are two actions   *)
(* and anything may happen in between.                                     *)
(*                                                                         *)
(* Clock values are abstracted to the comparisons the code makes: whether  *)
(* run_at has come, whether a lease or a deadline is past.                 *)
(***************************************************************************)
EXTENDS Integers, FiniteSets

CONSTANTS
  Job,             \* the jobs of the queue
  Worker,          \* worker processes
  NoWorker,        \* worker_id is null
  Scheduler,       \* scheduler processes, each with its own reaper
  Deps,            \* job_dependencies: pairs <<parent, child>>
  Shards,          \* queues.shards
  MaxConcurrency,  \* queues.max_concurrency
  Concurrency,     \* worker Config.Concurrency
  MaxAttempts,     \* retry_policies.max_attempts
  MaxFence,        \* bound: a job is claimed only below this fence
  MaxGen           \* bound: a job is replayed only below this generation

Shard == 0 .. Shards - 1
Active == {"claimed", "running"}
Waiting == {"scheduled", "queued", "retry_wait"}
Terminal == {"completed", "dead_letter", "cancelled"}
Status == Active \cup Waiting \cup Terminal
Outcome == {"open", "success", "retryable_error", "permanent_error", "lost",
            "snoozed", "cancelled", "fenced", "timeout"}

Parents(j) == {p \in Job : <<p, j>> \in Deps}
Children(j) == {c \in Job : <<j, c>> \in Deps}

\* The recursive query "down": the least set that holds the children of j and
\* is closed under taking children.
Descendants(j) ==
  {k \in Job : \A S \in SUBSET Job :
     (Children(j) \subseteq S /\ \A x \in S : Children(x) \subseteq S) => k \in S}

ASSUME WorkerAssumption == NoWorker \notin Worker
ASSUME FiniteAssumption == IsFiniteSet(Job) /\ IsFiniteSet(Worker)
ASSUME SizeAssumption ==
  /\ Shards \in Nat \ {0}
  /\ MaxConcurrency \in Nat
  /\ Concurrency \in Nat
  /\ MaxAttempts \in Nat \ {0}
  /\ MaxFence \in Nat
  /\ MaxGen \in Nat
ASSUME AcyclicAssumption == \A j \in Job : j \notin Descendants(j)

VARIABLES
  jobs,      \* Job -> row of the jobs table
  lease,     \* Job -> its job_leases row: absent, live or past expires_at
  execs,     \* Job -> its job_executions rows
  dlq,       \* Job -> its dead_letter_jobs row
  inFlight,  \* Shard -> queue_shards.in_flight
  claim,     \* Worker -> what its claim loop has admitted and not yet taken
  runs,      \* the goroutines that hold a claimed job
  reap,      \* Scheduler -> job ids its reaper read as expired
  bulk       \* job ids a bulk replay has selected and not yet written

vars == <<jobs, lease, execs, dlq, inFlight, claim, runs, reap, bulk>>

Row == [status : Status, fence : Nat, attempt : Nat, snoozes : Nat, gen : Nat,
        shard : Shard, owner : Worker \cup {NoWorker}, ripe : BOOLEAN,
        deadline : {"null", "ahead", "past"}, finished : BOOLEAN, pending : Nat]

Execution == [gen : Nat, attempt : Nat, fence : Nat, outcome : Outcome]

\* A goroutine of runOne, or its entry in the completions buffer.
Run == [worker : Worker, job : Job, fence : Nat,
        pc : {"claimed", "running", "fenced", "done", "unmatched"}]

TypeOK ==
  /\ jobs \in [Job -> Row]
  /\ lease \in [Job -> {"none", "live", "expired"}]
  /\ execs \in [Job -> SUBSET Execution]
  /\ dlq \in [Job -> {"none", "unreplayed", "replayed"}]
  /\ inFlight \in [Shard -> Nat]
  /\ claim \in [Worker -> [n : 0 .. MaxConcurrency, shard : Shard]]
  /\ runs \subseteq Run
  /\ reap \in [Scheduler -> SUBSET Job]
  /\ bulk \subseteq Job

Init ==
  /\ \E due \in SUBSET Job :
       jobs = [j \in Job |->
         [status |-> IF Parents(j) = {} /\ j \in due THEN "queued" ELSE "scheduled",
          fence |-> 0, attempt |-> 0, snoozes |-> 0, gen |-> 0, shard |-> 0,
          owner |-> NoWorker, ripe |-> j \in due, deadline |-> "null",
          finished |-> FALSE, pending |-> Cardinality(Parents(j))]]
  /\ lease = [j \in Job |-> "none"]
  /\ execs = [j \in Job |-> {}]
  /\ dlq = [j \in Job |-> "none"]
  /\ inFlight = [s \in Shard |-> 0]
  /\ claim = [w \in Worker |-> [n |-> 0, shard |-> 0]]
  /\ runs = {}
  /\ reap = [s \in Scheduler |-> {}]
  /\ bulk = {}

-----------------------------------------------------------------------------
(* Admission: queue_shards and the reservation a claim loop holds.         *)

\* (mutant) every shard gets the rounded-up share
SlotsRoundedUp(s) == (MaxConcurrency + Shards - 1) \div Shards

Slots(s) == MaxConcurrency \div Shards + (IF s < MaxConcurrency % Shards THEN 1 ELSE 0)

\* (mutant) no greatest(.., 0)
MinusUnclamped(a, n) == a - n

Minus(a, n) == IF a > n THEN a - n ELSE 0

\* fl.queue_release, the counter never going below zero.
Release(s, n) == inFlight' = [inFlight EXCEPT ![s] = Minus(@, n)]

\* The goroutines counted by the worker's "active"; an entry of the
\* completions buffer no longer is.
Busy(w) == {r \in runs : r.worker = w /\ r.pc \in {"claimed", "running", "fenced"}}

\* fl.queue_admit with the queue open: some shard with room, and no more slots
\* than the worker asked for or the shard has left.  The rate limit and a
\* half open breaker can only make it fewer.
Admit(w) ==
  \E s \in Shard, n \in 1 .. MaxConcurrency :
    /\ claim[w].n = 0
    /\ n <= Concurrency - Cardinality(Busy(w))
    /\ inFlight[s] + n <= Slots(s)
    /\ inFlight' = [inFlight EXCEPT ![s] = @ + n]
    /\ claim' = [claim EXCEPT ![w] = [n |-> n, shard |-> s]]
    /\ UNCHANGED <<jobs, lease, execs, dlq, runs, reap, bulk>>

\* take: any ripe queued jobs, since types, priorities and rows locked by
\* others select among them.
Takable(w, picked) ==
  /\ claim[w].n > 0
  /\ Cardinality(picked) <= claim[w].n
  /\ \A j \in picked : jobs[j].status = "queued" /\ jobs[j].ripe /\ jobs[j].fence < MaxFence

\* (mutant) the claim hands out the fence of the previous claim
ClaimedRowKeepsFence(w, row) ==
  [row EXCEPT !.status = "claimed", !.shard = claim[w].shard, !.owner = w,
              !.deadline = "ahead"]

ClaimedRow(w, row) ==
  [row EXCEPT !.status = "claimed", !.fence = @ + 1, !.shard = claim[w].shard,
              !.owner = w, !.deadline = "ahead"]

TakeRows(w, picked) ==
  /\ jobs' = [j \in Job |-> IF j \in picked THEN ClaimedRow(w, jobs[j]) ELSE jobs[j]]
  /\ lease' = [j \in Job |-> IF j \in picked THEN "live" ELSE lease[j]]

EndClaim(w) == claim' = [claim EXCEPT ![w].n = 0]

\* (mutant) the slots of the jobs taken are given back as well
TakeGivesAllBack(w) ==
  \E picked \in SUBSET Job :
    /\ Takable(w, picked)
    /\ TakeRows(w, picked)
    /\ Release(claim[w].shard, claim[w].n)
    /\ EndClaim(w)
    /\ runs' = runs \cup {[worker |-> w, job |-> j, fence |-> jobs[j].fence + 1,
                           pc |-> "claimed"] : j \in picked}
    /\ UNCHANGED <<execs, dlq, reap, bulk>>

Take(w) ==
  \E picked \in SUBSET Job :
    /\ Takable(w, picked)
    /\ TakeRows(w, picked)
    /\ Release(claim[w].shard, claim[w].n - Cardinality(picked))
    /\ EndClaim(w)
    /\ runs' = runs \cup {[worker |-> w, job |-> j, fence |-> jobs[j].fence + 1,
                           pc |-> "claimed"] : j \in picked}
    /\ UNCHANGED <<execs, dlq, reap, bulk>>

\* take fails before it commits, and the whole reservation is given back.
TakeFails(w) ==
  /\ claim[w].n > 0
  /\ Release(claim[w].shard, claim[w].n)
  /\ EndClaim(w)
  /\ UNCHANGED <<jobs, lease, execs, dlq, runs, reap, bulk>>

\* The answer to admit is lost, or giving the reservation back fails: nobody
\* knows of the slots any more.
DropReservation(w) ==
  /\ claim[w].n > 0
  /\ EndClaim(w)
  /\ UNCHANGED <<jobs, lease, execs, dlq, inFlight, runs, reap, bulk>>

\* The commit of take is applied but its answer is lost, so Claim takes it for
\* a failure and gives the whole reservation back.
TakeAckLost(w) ==
  \E picked \in SUBSET Job :
    /\ Takable(w, picked)
    /\ picked # {}
    /\ TakeRows(w, picked)
    /\ Release(claim[w].shard, (claim[w].n - Cardinality(picked)) + claim[w].n)
    /\ EndClaim(w)
    /\ UNCHANGED <<execs, dlq, runs, reap, bulk>>

-----------------------------------------------------------------------------
(* Running a claimed job.                                                  *)

\* (mutant) the write does not carry its fence
HoldsAnyFence(r, states) == jobs[r.job].status \in states

\* The fencing test every write of a run makes on the job row.
Holds(r, states) == jobs[r.job].fence = r.fence /\ jobs[r.job].status \in states

Leave(r) == runs' = runs \ {r}
Move(r, pc) == runs' = (runs \ {r}) \cup {[r EXCEPT !.pc = pc]}

\* (mutants) a closed execution is closed again; an open one is left open
CloseFenceAgain(rows, fences, outcome) ==
  {IF e.fence \in fences THEN [e EXCEPT !.outcome = outcome] ELSE e : e \in rows}
CloseOpenForgotten(rows, outcome) == rows

\* Close the open executions with one of these fences, or every open one.
CloseFence(rows, fences, outcome) ==
  {IF e.fence \in fences /\ e.outcome = "open" THEN [e EXCEPT !.outcome = outcome]
                                              ELSE e : e \in rows}
CloseOpen(rows, outcome) ==
  {IF e.outcome = "open" THEN [e EXCEPT !.outcome = outcome] ELSE e : e \in rows}

StartedRow(row) == [row EXCEPT !.status = "running", !.attempt = @ + 1]

Start(r) ==
  /\ r.pc = "claimed"
  /\ IF Holds(r, {"claimed"})
     THEN /\ jobs' = [jobs EXCEPT ![r.job] = StartedRow(@)]
          /\ execs' = [execs EXCEPT ![r.job] = @ \cup
               {[gen |-> jobs[r.job].gen, attempt |-> jobs[r.job].attempt + 1,
                 fence |-> r.fence, outcome |-> "open"]}]
          /\ Move(r, "running")
     ELSE /\ Leave(r)
          /\ UNCHANGED <<jobs, execs>>
  /\ UNCHANGED <<lease, dlq, inFlight, claim, reap, bulk>>

\* (mutant) the new expiry is not capped by the deadline
ExtendedUncapped(row) == "live"

\* extendSQL: the new expiry is capped by the deadline.
Extended(row) == IF row.deadline = "past" THEN "expired" ELSE "live"

\* The lease loop.
Extend(r) ==
  /\ r.pc = "running"
  /\ IF Holds(r, {"running"}) /\ lease[r.job] # "none"
     THEN /\ lease' = [lease EXCEPT ![r.job] = Extended(jobs[r.job])]
          /\ UNCHANGED runs
     ELSE /\ Move(r, "fenced")
          /\ UNCHANGED lease
  /\ UNCHANGED <<jobs, execs, dlq, inFlight, claim, reap, bulk>>

HandlerOK(r) ==
  /\ r.pc = "running"
  /\ Move(r, "done")
  /\ UNCHANGED <<jobs, lease, execs, dlq, inFlight, claim, reap, bulk>>

\* (mutant) the first parent to finish releases the child
WokenRowByFirst(row, n) ==
  IF n > 0 /\ row.status = "scheduled" /\ row.pending > 0
  THEN [row EXCEPT !.pending = @ - 1, !.status = IF row.ripe THEN "queued" ELSE @]
  ELSE row

\* fl.finish_dependents, called once for each of n parents of the job.
WokenRow(row, n) ==
  IF n > 0 /\ row.status = "scheduled" /\ row.pending > 0
  THEN [row EXCEPT !.pending = Minus(@, n),
                   !.status = IF n >= row.pending /\ row.ripe THEN "queued" ELSE @]
  ELSE row

CompletedRow(row) == [row EXCEPT !.status = "completed", !.finished = TRUE, !.owner = NoWorker]

\* What flush leaves of a batch: a run to probe for each entry whose job is not
\* among the completed ids.
Flushed(batch, done) ==
  (runs \ batch) \cup {[r EXCEPT !.pc = "unmatched"] : r \in {b \in batch : b.job \notin done}}

\* report_success_batch for the buffered runs of a worker.
Flush(w) ==
  \E batch \in SUBSET {r \in runs : r.worker = w /\ r.pc = "done"} :
    LET matched == {r \in batch : Holds(r, {"running"})}
        done == {r.job : r \in matched}
    IN /\ batch # {}
       /\ jobs' = [k \in Job |-> IF k \in done THEN CompletedRow(jobs[k])
                                 ELSE WokenRow(jobs[k], Cardinality(Parents(k) \cap done))]
       /\ execs' = [k \in Job |->
            CloseFence(execs[k], {r.fence : r \in {m \in matched : m.job = k}}, "success")]
       /\ lease' = [k \in Job |-> IF k \in done THEN "none" ELSE lease[k]]
       /\ inFlight' = [s \in Shard |->
            Minus(inFlight[s], Cardinality({k \in done : jobs[k].shard = s}))]
       /\ runs' = Flushed(batch, done)
       /\ UNCHANGED <<dlq, claim, reap, bulk>>

FailedRow(row, permanent) ==
  LET dead == permanent \/ row.attempt >= MaxAttempts
  IN [row EXCEPT !.status = IF dead THEN "dead_letter" ELSE "retry_wait",
                 !.ripe = @ /\ dead, !.finished = dead, !.owner = NoWorker]

\* fl.cancel_descendants
KilledRow(row) ==
  [row EXCEPT !.status = "cancelled", !.finished = TRUE, !.pending = 0, !.owner = NoWorker]

\* fl.report_failure once its update has found the row: descendants of a dead
\* letter that are not yet active are cancelled, the open execution and the
\* lease go, the dead letter row is inserted unless there is one already.
ReportFailure(j, outcome, permanent) ==
  LET row == FailedRow(jobs[j], permanent)
      dead == row.status = "dead_letter"
      killed == {k \in Descendants(j) : dead /\ jobs[k].status \in Waiting}
  IN /\ jobs' = [k \in Job |->
           IF k = j THEN row
           ELSE IF k \in killed THEN KilledRow(jobs[k]) ELSE jobs[k]]
     /\ execs' = [execs EXCEPT ![j] = CloseOpen(@, outcome)]
     /\ lease' = [lease EXCEPT ![j] = "none"]
     /\ dlq' = [dlq EXCEPT ![j] = IF dead /\ @ = "none" THEN "unreplayed" ELSE @]
     /\ Release(jobs[j].shard, 1)

Fail(r) ==
  /\ r.pc = "running"
  /\ Leave(r)
  /\ IF Holds(r, Active)
     THEN \/ ReportFailure(r.job, "retryable_error", FALSE)
          \/ ReportFailure(r.job, "permanent_error", TRUE)
     ELSE UNCHANGED <<jobs, execs, lease, dlq, inFlight>>
  /\ UNCHANGED <<claim, reap, bulk>>

SnoozedRow(row, now) ==
  [row EXCEPT !.status = "scheduled", !.fence = @ + 1, !.snoozes = @ + 1,
              !.ripe = now, !.owner = NoWorker, !.deadline = "null"]

\* A delay of zero is allowed, so the job may be ripe at once.
Snooze(r) ==
  /\ r.pc = "running"
  /\ Leave(r)
  /\ IF Holds(r, {"running"}) /\ jobs[r.job].snoozes < MaxAttempts
     THEN /\ \E now \in BOOLEAN :
               jobs' = [jobs EXCEPT ![r.job] = SnoozedRow(@, now)]
          /\ execs' = [execs EXCEPT ![r.job] = CloseFence(@, {r.fence}, "snoozed")]
          /\ lease' = [lease EXCEPT ![r.job] = "none"]
          /\ Release(jobs[r.job].shard, 1)
     ELSE UNCHANGED <<jobs, execs, lease, inFlight>>
  /\ UNCHANGED <<dlq, claim, reap, bulk>>

\* jobs.Probe followed by CloseExecution of the run's own execution.
ProbeOutcome(r) ==
  IF jobs[r.job].fence # r.fence THEN "fenced"
  ELSE IF jobs[r.job].status = "cancelled" THEN "cancelled"
  ELSE IF jobs[r.job].deadline = "past" THEN "timeout" ELSE "fenced"

Probe(r) ==
  /\ r.pc \in {"fenced", "unmatched"}
  /\ Leave(r)
  /\ execs' = IF Holds(r, Active) THEN execs
              ELSE [execs EXCEPT ![r.job] = CloseFence(@, {r.fence}, ProbeOutcome(r))]
  /\ UNCHANGED <<jobs, lease, dlq, inFlight, claim, reap, bulk>>

\* A run ends without a report: no handler for the type, the worker is
\* draining, the drain timed out, or the database kept failing.
Abandon(r) ==
  /\ Leave(r)
  /\ UNCHANGED <<jobs, lease, execs, dlq, inFlight, claim, reap, bulk>>

\* A worker process dies; it comes back with nothing in memory.
Crash(w) ==
  /\ runs' = {r \in runs : r.worker # w}
  /\ EndClaim(w)
  /\ UNCHANGED <<jobs, lease, execs, dlq, inFlight, reap, bulk>>

-----------------------------------------------------------------------------
(* The schedulers.                                                         *)

\* The first half of Reap.  The limit is taken to be no smaller than Job.
ReadExpired(s) ==
  /\ reap' = [reap EXCEPT ![s] =
       {j \in Job : jobs[j].status \in Active /\ lease[j] = "expired"}]
  /\ UNCHANGED <<jobs, lease, execs, dlq, inFlight, claim, runs, bulk>>

\* The second half, for one id of the list: report_failure with a null fence.
ReportLost(s) ==
  \E j \in reap[s] :
    /\ reap' = [reap EXCEPT ![s] = @ \ {j}]
    /\ IF jobs[j].status \in Active
       THEN ReportFailure(j, "lost", FALSE)
       ELSE UNCHANGED <<jobs, execs, lease, dlq, inFlight>>
    /\ UNCHANGED <<claim, runs, bulk>>

QueuedRow(row) == [row EXCEPT !.status = "queued", !.ripe = TRUE]

Promote ==
  \E ids \in SUBSET {j \in Job : /\ jobs[j].status \in {"scheduled", "retry_wait"}
                                 /\ jobs[j].ripe /\ jobs[j].pending = 0} :
    /\ ids # {}
    /\ jobs' = [j \in Job |-> IF j \in ids THEN QueuedRow(jobs[j]) ELSE jobs[j]]
    /\ UNCHANGED <<lease, execs, dlq, inFlight, claim, runs, reap, bulk>>

-----------------------------------------------------------------------------
(* The API.                                                                *)

RetryNow(j) ==
  /\ jobs[j].status \in {"retry_wait", "scheduled"} /\ jobs[j].pending = 0
  /\ jobs' = [jobs EXCEPT ![j] = QueuedRow(@)]
  /\ UNCHANGED <<lease, execs, dlq, inFlight, claim, runs, reap, bulk>>

CancelledRow(row) ==
  [row EXCEPT !.status = "cancelled", !.finished = TRUE, !.owner = NoWorker]

\* jobs_deps_only_while_scheduled
DepsCheck(row) == row.pending = 0 \/ row.status = "scheduled"

\* cancelJob once cancelSQL has taken effect: a job in one of these states also
\* gives up its execution, its lease and its slot.
CancelEffect(j, held) ==
  /\ jobs' = [jobs EXCEPT ![j] = CancelledRow(@)]
  /\ IF jobs[j].status \in held
     THEN /\ execs' = [execs EXCEPT ![j] = CloseOpen(@, "cancelled")]
          /\ lease' = [lease EXCEPT ![j] = "none"]
          /\ Release(jobs[j].shard, 1)
     ELSE UNCHANGED <<execs, lease, inFlight>>
  /\ UNCHANGED <<dlq, claim, runs, reap, bulk>>

\* (mutants) a terminal job is cancelled; a claimed job keeps what it holds
CancelTooLate(j) ==
  /\ DepsCheck(CancelledRow(jobs[j]))
  /\ CancelEffect(j, Active)
CancelRunningOnly(j) ==
  /\ jobs[j].status \notin Terminal
  /\ DepsCheck(CancelledRow(jobs[j]))
  /\ CancelEffect(j, {"running"})

\* The update is refused by the check constraint while the job
\* still waits for a parent, and the transaction is rolled back.
Cancel(j) ==
  /\ jobs[j].status \notin Terminal
  /\ DepsCheck(CancelledRow(jobs[j]))
  /\ CancelEffect(j, Active)

ReplayedRow(row, now) ==
  [row EXCEPT !.status = "queued", !.attempt = 0, !.gen = @ + 1, !.ripe = now,
              !.finished = FALSE, !.owner = NoWorker]

ReplayJob(j) ==
  /\ \A k \in Descendants(j) : jobs[k].status # "cancelled"
  /\ jobs[j].status = "dead_letter"
  /\ jobs[j].gen < MaxGen
  /\ jobs' = [jobs EXCEPT ![j] = ReplayedRow(@, TRUE)]
  /\ dlq' = [dlq EXCEPT ![j] = IF @ = "none" THEN @ ELSE "replayed"]
  /\ UNCHANGED <<lease, execs, inFlight, claim, runs, reap, bulk>>

\* fl.replay_dead first selects the ids, without locking them ...
BulkRead ==
  \E ids \in SUBSET {j \in Job : /\ dlq[j] = "unreplayed" /\ jobs[j].status = "dead_letter"
                                 /\ \A c \in Children(j) : jobs[c].status # "cancelled"} :
    /\ bulk = {} /\ ids # {}
    /\ bulk' = ids
    /\ UNCHANGED <<jobs, lease, execs, dlq, inFlight, claim, runs, reap>>

\* ... and then writes the ones still dead, staggering run_at, and marks all.
BulkReplay ==
  \E now \in SUBSET bulk :
    LET dead == {j \in bulk : jobs[j].status = "dead_letter"}
    IN /\ bulk # {}
       /\ \A j \in dead : jobs[j].gen < MaxGen
       /\ jobs' = [j \in Job |-> IF j \in dead THEN ReplayedRow(jobs[j], j \in now)
                                 ELSE jobs[j]]
       /\ dlq' = [j \in Job |-> IF j \in bulk /\ dlq[j] # "none" THEN "replayed" ELSE dlq[j]]
       /\ bulk' = {}
       /\ UNCHANGED <<lease, execs, inFlight, claim, runs, reap>>

-----------------------------------------------------------------------------
(* The clock, fl.now(), moves past an instant some query compares it with.  *)

RunAtArrives(j) ==
  /\ ~ jobs[j].ripe
  /\ jobs' = [jobs EXCEPT ![j].ripe = TRUE]
  /\ UNCHANGED <<lease, execs, dlq, inFlight, claim, runs, reap, bulk>>

LeaseRunsOut(j) ==
  /\ lease[j] = "live"
  /\ lease' = [lease EXCEPT ![j] = "expired"]
  /\ UNCHANGED <<jobs, execs, dlq, inFlight, claim, runs, reap, bulk>>

DeadlinePasses(j) ==
  /\ jobs[j].deadline = "ahead"
  /\ jobs' = [jobs EXCEPT ![j].deadline = "past"]
  /\ UNCHANGED <<lease, execs, dlq, inFlight, claim, runs, reap, bulk>>

-----------------------------------------------------------------------------
ClaimStep == \E w \in Worker : Admit(w) \/ Take(w) \/ TakeFails(w) \/ DropReservation(w)

RunStep ==
  \/ \E r \in runs : \/ Start(r) \/ Extend(r) \/ HandlerOK(r) \/ Fail(r)
                     \/ Snooze(r) \/ Probe(r) \/ Abandon(r)
  \/ \E w \in Worker : Flush(w) \/ Crash(w)

SchedulerStep == Promote \/ \E s \in Scheduler : ReadExpired(s) \/ ReportLost(s)

ApiStep ==
  \/ \E j \in Job : RetryNow(j) \/ Cancel(j) \/ ReplayJob(j)
  \/ BulkRead \/ BulkReplay

ClockStep == \E j \in Job : RunAtArrives(j) \/ LeaseRunsOut(j) \/ DeadlinePasses(j)

\* Everything but a lost answer to the commit of a claim.
AckedNext == ClaimStep \/ RunStep \/ SchedulerStep \/ ApiStep \/ ClockStep

Next == AckedNext \/ \E w \in Worker : TakeAckLost(w)

AckedSpec == Init /\ [][AckedNext]_vars
Spec == Init /\ [][Next]_vars

\* Each scheduler's reap loop keeps running, and time passes: a deadline is
\* reached, and a lease that the deadline caps runs out.  Nothing is assumed
\* of workers, handlers or the API.
Fairness ==
  /\ \A s \in Scheduler : WF_vars(ReadExpired(s)) /\ WF_vars(ReportLost(s))
  /\ \A j \in Job : /\ WF_vars(DeadlinePasses(j))
                    /\ WF_vars(jobs[j].deadline = "past" /\ LeaseRunsOut(j))

FairSpec == Spec /\ Fairness

-----------------------------------------------------------------------------
(* Properties.                                                             *)

ActiveOn(s) == {j \in Job : jobs[j].status \in Active /\ jobs[j].shard = s}
OpenExecs(j) == {e \in execs[j] : e.outcome = "open"}

\* The slots of shard s that a claim loop has reserved and not yet used.
Reserved(s) == {p \in Worker \X (1 .. MaxConcurrency) :
                  claim[p[1]].shard = s /\ p[2] <= claim[p[1]].n}

\* Fencing: a job's fence is held by at most one run, and no run holds a fence
\* the job has not yet reached.  Claim is the only place a fence is handed out.
FenceHeldOnce ==
  \A r1, r2 \in runs :
    /\ r1.fence <= jobs[r1.job].fence
    /\ r1.job = r2.job /\ r1.fence = r2.fence => r1 = r2

\* The ledger agrees with the job row: a running job has exactly one open
\* execution, the one of its current fence, attempt and generation, and no
\* other job has any (uq_exec_one_open, and what the orphan sweep looks for).
LedgerMatchesRow ==
  \A j \in Job :
    OpenExecs(j) =
      IF jobs[j].status = "running"
      THEN {[gen |-> jobs[j].gen, attempt |-> jobs[j].attempt, fence |-> jobs[j].fence,
             outcome |-> "open"]}
      ELSE {}

\* A job has a lease row exactly while it is claimed or running, so the reaper,
\* which joins on job_leases, can see every job that could be lost.
LeaseIffActive ==
  \A j \in Job : (lease[j] # "none") <=> (jobs[j].status \in Active)

\* Exactly-once effect: a completed job has one successful execution, of its
\* last fence, and no other job has any, however many workers ran it.
CompletedOnce ==
  \A j \in Job :
    LET won == {e \in execs[j] : e.outcome = "success"}
    IN IF jobs[j].status = "completed"
       THEN Cardinality(won) = 1 /\ \A e \in won : e.fence = jobs[j].fence
       ELSE won = {}

\* The insert of Start never meets the unique keys of job_executions: one row
\* per attempt of a generation, and one row per fence.
AttemptsUnique ==
  \A j \in Job : \A e1, e2 \in execs[j] :
    \/ e1.gen = e2.gen /\ e1.attempt = e2.attempt
    \/ e1.fence = e2.fence
    => e1 = e2

\* The ledger is what a reader may take it for: it agrees with the row, and no
\* execution stands for two (Start, Report and the replays).
LedgerExact == LedgerMatchesRow /\ AttemptsUnique

\* No update but the cancelling of a job that waits for a parent is refused by
\* a check constraint of the jobs table: finished_at
\* marks the terminal states, an active job has owner and deadline, a waiting
\* one has no owner, fence >= attempt_count, pending_deps only while scheduled.
RowChecks ==
  \A j \in Job :
    LET row == jobs[j]
    IN /\ row.status \in Terminal <=> row.finished
       /\ row.status \in Active => row.owner # NoWorker /\ row.deadline # "null"
       /\ row.status \in Waiting => row.owner = NoWorker
       /\ row.fence >= row.attempt
       /\ DepsCheck(row)

\* A job leaves "scheduled" for work only after every parent has completed,
\* and while it waits pending_deps counts the parents still to complete.
ParentsFirst ==
  \A j \in Job : jobs[j].status # "cancelled" =>
    jobs[j].pending = Cardinality({p \in Parents(j) : jobs[p].status # "completed"})

\* in_flight of a shard is at least the active jobs that hold its slots plus
\* the slots reserved by claim loops, and never more than the shard's slots.
CounterCovers ==
  \A s \in Shard :
    /\ Cardinality(ActiveOn(s)) + Cardinality(Reserved(s)) <= inFlight[s]
    /\ inFlight[s] <= Slots(s)

\* The queue's concurrency limit: never more claimed or running jobs than
\* max_concurrency over all shards.
WithinConcurrency ==
  Cardinality({j \in Job : jobs[j].status \in Active}) <= MaxConcurrency

\* Nothing is overwritten: an execution, once closed, keeps its outcome through
\* late reports, probes, reaps and replays (je_no_reclose).
ClosedStaysClosed ==
  [][\A j \in Job : \A e \in execs[j] :
       e.outcome # "open" => e \in execs'[j]]_vars

\* Recovery: an active job does not stay active for ever, whatever happens to
\* its worker; it is reported, cancelled, or reaped after its deadline.
Recovered == \A j \in Job : jobs[j].status \in Active ~> jobs[j].status \notin Active

\* The rows the code writes obey the contract of the jobs table.
Fsm == INSTANCE JobFsm WITH
  contract <- [j \in Job |-> [status |-> jobs[j].status, fence |-> jobs[j].fence,
                              attempt |-> jobs[j].attempt, gen |-> jobs[j].gen]]
FsmSpec == Fsm!Spec
=============================================================================
