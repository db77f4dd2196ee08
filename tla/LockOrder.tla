------------------------------ MODULE LockOrder ------------------------------
(***************************************************************************)
(* The locks that transactions take and wait for, in the order in which    *)
(* their statements take them: rows of jobs, job_executions, job_leases,   *)
(* queue_stats_minute, queues and queue_shards, and the advisory lock of a *)
(* project's outbox.  Nothing is said of what they write.                  *)
(*                                                                         *)
(* A plan is a sequence of sets: a statement that locks several rows locks *)
(* them in an order only the planner knows.                                *)
(***************************************************************************)
EXTENDS Integers, SequencesExt

CONSTANTS
  Proc,       \* connections
  Job,        \* jobs, numbered as their ids compare
  Owned,      \* Proc -> jobs that a worker on this connection runs
  Children,   \* Job -> jobs that depend on it
  QueueOf,    \* Job -> queue, a number
  ProjectOf,  \* queue -> project, a number
  MaxBatch    \* bound: jobs of one statement

Queue == {QueueOf[j] : j \in Job}
Project == {ProjectOf[q] : q \in Queue}

\* The documented order of the tables is the number of the lock.
Jobs(S) == {<<1, j>> : j \in S}
Execs(S) == {<<2, j>> : j \in S}
Leases(S) == {<<3, j>> : j \in S}
Stats(Q) == {<<4, q>> : q \in Q}
Queues(Q) == {<<5, q>> : q \in Q}
Shards(Q) == {<<6, q>> : q \in Q}
Outbox(P) == {<<7, p>> : p \in P}
Lock == Jobs(Job) \cup Execs(Job) \cup Leases(Job) \cup Stats(Queue) \cup Queues(Queue)
          \cup Shards(Queue) \cup Outbox(Project)

QueuesOf(S) == {QueueOf[j] : j \in S}
ProjectsOf(S) == {ProjectOf[q] : q \in QueuesOf(S)}

\* One lock after the other, in the order of the keys.
InOrder(L) == LET s == SetToSortSeq(L, LAMBDA a, b : a[2] < b[2]) IN [i \in DOMAIN s |-> {s[i]}]

VARIABLES
  plan,  \* Proc -> the locks still to take
  held,  \* Proc -> the locks it has
  want   \* Proc -> the lock it waits for, at most one

vars == <<plan, held, want>>

TypeOK ==
  /\ plan \in [Proc -> Seq(SUBSET Lock)]
  /\ held \in [Proc -> SUBSET Lock] /\ want \in [Proc -> SUBSET Lock]
  /\ \A p \in Proc : /\ Cardinality(want[p]) <= 1
                     /\ \A r \in Proc \ {p} : held[p] \cap held[r] = {}

Init ==
  /\ plan = [p \in Proc |-> <<>>]
  /\ held = [p \in Proc |-> {}] /\ want = [p \in Proc |-> {}]

-----------------------------------------------------------------------------
(* The transactions.                                                       *)

\* cancel_descendants: every job below
Below(j) ==
  LET Down[S \in SUBSET Job] ==
        LET T == S \cup UNION {Children[k] : k \in S} IN IF T = S THEN S ELSE Down[T]
  IN Down[Children[j]]

\* report_success_batch: finish_dependents for one job after the other
SuccessPlan(S) ==
  LET ids == SetToSortSeq(S, LAMBDA a, b : a < b)
  IN <<Jobs(S)>> \o [i \in DOMAIN ids |-> Jobs(Children[ids[i]])]
       \o <<Execs(S), Leases(S), Stats(QueuesOf(S))>>
       \o InOrder(Shards(QueuesOf(S))) \o InOrder(Outbox(ProjectsOf(S)))

\* (mutant) the slot is released before anything else
FailurePlanShardFirst(j) ==
  <<Shards({QueueOf[j]}), Jobs({j}), Jobs(Below(j)), Execs({j}), Leases({j}),
    Stats({QueueOf[j]}), Outbox(ProjectsOf({j}))>>

\* report_failure, at the last attempt
FailurePlan(j) ==
  <<Jobs({j}), Jobs(Below(j)), Execs({j}), Leases({j}), Stats({QueueOf[j]}),
    Shards({QueueOf[j]}), Outbox(ProjectsOf({j}))>>

\* report_snooze; cancelJob of a running job
ReleasePlan(j) ==
  <<Jobs({j}), Execs({j}), Leases({j}), Shards({QueueOf[j]}), Outbox(ProjectsOf({j}))>>

\* retryJob, replayJob
RequeuePlan(j) == <<Jobs({j}), Outbox(ProjectsOf({j}))>>

\* the half open branch of queue_admit; updateQueue with its trigger
AdmitPlan(q) == <<Queues({q}), Shards({q})>>

\* setPaused; breakerOpenSQL, breakerReopenSQL, breakerCloseSQL
QueuePlan(q) == <<Queues({q}), Outbox({ProjectOf[q]})>>

\* take: the jobs are locked at once, skipping what others hold.
TakePlan(S) == <<Leases(S), Shards(QueuesOf(S))>>

\* Promote: the same, and an event for every job
PromotePlan(S) == <<Outbox(ProjectsOf(S))>>

Idle(p) == plan[p] = <<>> /\ want[p] = {} /\ held[p] = {}
Held == UNION {held[p] : p \in Proc}

\* for update skip locked
Lockable == {j \in Job : <<1, j>> \notin Held}

Batches(S) == {B \in SUBSET S : B # {} /\ Cardinality(B) <= MaxBatch}

\* Jobs without a parent among them: a child does not run before its parents.
Apart(B) == \A j, k \in B : k \notin Below(j)

\* What is left of steps for one that holds the locks L.
Left(steps, L) ==
  LET i == SelectInSeq(steps, LAMBDA s : ~(s \subseteq L))
  IN IF i = 0 THEN <<>> ELSE SubSeq(steps, i, Len(steps))

Begin(p, steps, locks) ==
  /\ Idle(p)
  /\ plan' = [plan EXCEPT ![p] = Left(steps, locks)]
  /\ held' = [held EXCEPT ![p] = locks]
  /\ UNCHANGED want

CompleteBatch(p) == \E B \in Batches(Owned[p]) : Apart(B) /\ Begin(p, SuccessPlan(B), {})
ReportFailure(p) == \E j \in Job : Begin(p, FailurePlan(j), {})
ReportSnooze(p) == \E j \in Job : Begin(p, ReleasePlan(j), {})
Requeue(p) == \E j \in Job : Begin(p, RequeuePlan(j), {})
AdmitProbe(p) == \E q \in Queue : Begin(p, AdmitPlan(q), {})
SwitchQueue(p) == \E q \in Queue : Begin(p, QueuePlan(q), {})
Take(p) == \E B \in Batches(Lockable) :
             Cardinality(QueuesOf(B)) = 1 /\ Begin(p, TakePlan(B), Jobs(B))
Promote(p) == \E B \in Batches(Lockable) :
                Begin(p, PromotePlan(B), Jobs(B))

-----------------------------------------------------------------------------
(* Locking, by the database.                                               *)

Hold(p, L) ==
  /\ held' = [held EXCEPT ![p] = @ \cup L]
  /\ plan' = [plan EXCEPT ![p] = Left(@, held[p] \cup L)]

\* A lock is taken, or waited for.
Ask(p) ==
  /\ plan[p] # <<>> /\ want[p] = {}
  /\ \E l \in plan[p][1] \ held[p] :
       \/ l \notin Held /\ Hold(p, {l}) /\ UNCHANGED want
       \/ l \in Held /\ want' = [want EXCEPT ![p] = {l}] /\ UNCHANGED <<held, plan>>

Granted(p) ==
  /\ want[p] # {} /\ want[p] \cap Held = {}
  /\ Hold(p, want[p])
  /\ want' = [want EXCEPT ![p] = {}]

Commit(p) ==
  /\ plan[p] = <<>> /\ held[p] # {} /\ want[p] = {}
  /\ held' = [held EXCEPT ![p] = {}]
  /\ UNCHANGED <<plan, want>>

Next ==
  \E p \in Proc :
    \/ CompleteBatch(p) \/ ReportFailure(p) \/ ReportSnooze(p) \/ Requeue(p)
    \/ AdmitProbe(p) \/ SwitchQueue(p) \/ Take(p) \/ Promote(p)
    \/ Ask(p) \/ Granted(p) \/ Commit(p)

Spec == Init /\ [][Next]_vars

-----------------------------------------------------------------------------
(* Properties.                                                             *)

WaitsIn(p, D) == \E r \in D : want[p] \cap held[r] # {}

\* No transactions wait for each other in a circle: neither workers' reports,
\* claims and the reaper nor pauses, cancels and the breaker ever make the
\* database kill one of them (the order of locks in migrations/028).
NoCycle == \A D \in SUBSET Proc \ {{}} : \E p \in D : ~WaitsIn(p, D)
=============================================================================
