------------------------------ MODULE Breaker -------------------------------
(***************************************************************************)
(* The circuit breaker of one queue: the sweep Breaker of the schedulers,  *)
(* the branch of fl.queue_admit for a breaker that is not closed, and the  *)
(* jobs whose outcomes decide.                                             *)
(*                                                                         *)
(* queue_admit first reads the state without a lock.  Only if it read a    *)
(* breaker that is not closed does it lock the row and look again; the     *)
(* lock is kept to the end, so the rest is one step.  A sweep reads the    *)
(* row, then the outcomes, then writes if the state is still the one read. *)
(***************************************************************************)
EXTENDS Integers, Sequences, FiniteSets

CONSTANTS
  Job,         \* jobs of the queue
  Worker,      \* workers claiming from it
  Scheduler,   \* schedulers sweeping
  None,
  Window,      \* outcomes the sweep looks at
  Trip,        \* failures among them that open the breaker
  Cooldown,    \* time it stays open
  MaxInFlight, \* slots of the queue
  MaxTime      \* bound: the clock stops, and no breaker opens beyond it

ASSUME BreakerAssumption ==
  /\ Window \in Nat \ {0} /\ Trip \in Nat \ {0} /\ Cooldown \in Nat /\ MaxInFlight \in Nat
  /\ MaxTime \in Nat

VARIABLES
  now,
  breaker,   \* breaker_state, breaker_open_until, breaker_probe_budget
  period,    \* how often it has become half open
  jobs,      \* Job -> its status and the period it was admitted in as a probe
  done,      \* the last outcomes, newest first
  adm,       \* Worker -> its call of Claim
  sweep      \* Scheduler -> its sweep

vars == <<now, breaker, period, jobs, done, adm, sweep>>

Failure == {"retryable_error", "permanent_error", "timeout", "lost"}
Outcome == {"success", "retryable_error", "snoozed"}

TypeOK ==
  /\ now \in 0 .. MaxTime
  /\ breaker \in [state : {"closed", "open", "half_open"}, until : 0 .. MaxTime + Cooldown,
                  budget : {0, 1}]
  /\ period \in Nat
  /\ jobs \in [Job -> [status : {"queued", "running", "gone"}, probe : 0 .. period]]
  /\ \A i \in DOMAIN done : done[i].out \in Outcome /\ done[i].at \in 0 .. now
  /\ \A w \in Worker : adm[w].pc \in {"idle", "read", "take"} /\ adm[w].probe \in 0 .. period
  /\ \A p \in Scheduler : sweep[p].pc \in {"idle", "closed", "half_open", "open", "reopen", "close"}

Init ==
  /\ now = 0
  /\ breaker = [state |-> "closed", until |-> 0, budget |-> 0]
  /\ period = 0
  /\ jobs = [j \in Job |-> [status |-> "queued", probe |-> 0]]
  /\ done = << >>
  /\ adm = [w \in Worker |-> [pc |-> "idle", state |-> None, probe |-> 0]]
  /\ sweep = [p \in Scheduler |-> [pc |-> "idle", until |-> 0]]

-----------------------------------------------------------------------------
(* Claiming.                                                               *)

NoCall == [pc |-> "idle", state |-> None, probe |-> 0]

InFlight ==
  Cardinality({j \in Job : jobs[j].status = "running"})
    + Cardinality({w \in Worker : adm[w].pc = "take"})

\* The unlocked read at the head of queue_admit.
ReadState(w) ==
  /\ adm[w].pc = "idle"
  /\ adm' = [adm EXCEPT ![w] = [@ EXCEPT !.pc = "read", !.state = breaker.state]]
  /\ UNCHANGED <<now, breaker, period, jobs, done, sweep>>

\* A breaker that was closed when it was read is not looked at again.
AdmitClosed(w) ==
  /\ adm[w].pc = "read" /\ adm[w].state = "closed"
  /\ adm' = [adm EXCEPT ![w] =
       IF InFlight < MaxInFlight THEN [pc |-> "take", state |-> None, probe |-> 0] ELSE NoCall]
  /\ UNCHANGED <<now, breaker, period, jobs, done, sweep>>

\* (mutant) the deadline of an open breaker is taken for its age
CooledNever == FALSE

\* coalesce(breaker_open_until, fl.now()) > fl.now() does not hold
Cooled == breaker.until <= now

\* (mutant) a probe that is admitted leaves the budget as it is
BudgetKept(b, slots) == b

\* breaker_probe_budget - slots
Budget(b, slots) == b - slots

\* The row is locked: an open breaker is half opened once it has cooled down,
\* and a half open one admits as long as its budget lasts.
AdmitProbe(w) ==
  LET opens == breaker.state = "open"
      budget == IF opens THEN 1 ELSE breaker.budget
      this == IF opens THEN period + 1 ELSE period
      slots == IF InFlight < MaxInFlight THEN 1 ELSE 0
  IN /\ adm[w].pc = "read" /\ adm[w].state # "closed"
     /\ \/ /\ (opens /\ ~Cooled) \/ budget = 0
           /\ adm' = [adm EXCEPT ![w] = NoCall]
           /\ UNCHANGED <<breaker, period>>
        \/ /\ ~(opens /\ ~Cooled) /\ budget > 0
           /\ breaker' = [breaker EXCEPT
                !.state = IF opens THEN "half_open" ELSE @, !.budget = Budget(budget, slots)]
           /\ period' = this
           /\ adm' = [adm EXCEPT ![w] =
                IF slots = 1 THEN [pc |-> "take", state |-> None, probe |-> this] ELSE NoCall]
     /\ UNCHANGED <<now, jobs, done, sweep>>

\* take: a queued job, or none and the slot is given back.
Take(w) ==
  /\ adm[w].pc = "take"
  /\ LET queued == {j \in Job : jobs[j].status = "queued"}
     IN \/ \E j \in queued :
             jobs' = [jobs EXCEPT ![j] = [status |-> "running", probe |-> adm[w].probe]]
        \/ queued = {} /\ UNCHANGED jobs
  /\ adm' = [adm EXCEPT ![w] = NoCall]
  /\ UNCHANGED <<now, breaker, period, done, sweep>>

\* take fails, and Claim gives the slot back.
TakeFails(w) ==
  /\ adm[w].pc = "take"
  /\ adm' = [adm EXCEPT ![w] = NoCall]
  /\ UNCHANGED <<now, breaker, period, jobs, done, sweep>>

\* The job's execution is closed; it is queued again or has gone for good.
Finish(j, out) ==
  /\ jobs[j].status = "running"
  /\ \E s \in {"queued", "gone"} :
       /\ out = "success" => s = "gone"
       /\ jobs' = [jobs EXCEPT ![j] = [status |-> s, probe |-> 0]]
  /\ done' = SubSeq(<<[out |-> out, at |-> now]>> \o done, 1,
                    IF Len(done) < Window THEN Len(done) + 1 ELSE Window)
  /\ UNCHANGED <<now, breaker, period, adm, sweep>>

\* A new job is submitted.
Submit(j) ==
  /\ jobs[j].status = "gone"
  /\ jobs' = [jobs EXCEPT ![j].status = "queued"]
  /\ UNCHANGED <<now, breaker, period, done, adm, sweep>>

-----------------------------------------------------------------------------
(* The sweep.                                                              *)

NoSweep == [pc |-> "idle", until |-> 0]

\* breakerQueuesSQL
SweepRead(p) ==
  /\ sweep[p].pc = "idle"
  /\ breaker.state # "open"
  /\ sweep' = [sweep EXCEPT ![p] = [pc |-> breaker.state, until |-> breaker.until]]
  /\ UNCHANGED <<now, breaker, period, jobs, done, adm>>

\* breakerWindowSQL and isFailure
Failures == Cardinality({i \in DOMAIN done : done[i].out \in Failure})

SweepCount(p) ==
  /\ sweep[p].pc = "closed"
  /\ sweep' = [sweep EXCEPT ![p] = IF Failures >= Trip THEN [@ EXCEPT !.pc = "open"] ELSE NoSweep]
  /\ UNCHANGED <<now, breaker, period, jobs, done, adm>>

\* (mutant) the last outcome decides, whenever it was
ProbeOutcomeAnyTime(until) == IF done = << >> THEN None ELSE done[1].out

\* breakerProbeSQL: the last outcome, if it is not older than the cooldown
ProbeOutcome(until) == IF done = << >> \/ done[1].at < until THEN None ELSE done[1].out

SweepProbe(p) ==
  LET out == ProbeOutcome(sweep[p].until)
  IN /\ sweep[p].pc = "half_open"
     /\ sweep' = [sweep EXCEPT ![p] =
          IF out = "success" THEN [@ EXCEPT !.pc = "close"]
          ELSE IF out \in Failure THEN [@ EXCEPT !.pc = "reopen"] ELSE NoSweep]
     /\ UNCHANGED <<now, breaker, period, jobs, done, adm>>

\* breakerCloseSQL
Closed == [state |-> "closed", until |-> 0, budget |-> 0]

\* breakerOpenSQL, breakerReopenSQL
Opened == [state |-> "open", until |-> now + Cooldown, budget |-> 0]

\* The update finds the row only in the state that it expects.
SweepWrite(p) ==
  LET from == IF sweep[p].pc = "open" THEN "closed" ELSE "half_open"
  IN /\ sweep[p].pc \in {"open", "reopen", "close"}
     /\ sweep[p].pc # "close" => now + Cooldown <= MaxTime
     /\ breaker' = IF breaker.state # from THEN breaker
                   ELSE IF sweep[p].pc = "close" THEN Closed ELSE Opened
     /\ sweep' = [sweep EXCEPT ![p] = NoSweep]
     /\ UNCHANGED <<now, period, jobs, done, adm>>

Tick ==
  /\ now < MaxTime
  /\ now' = now + 1
  /\ UNCHANGED <<breaker, period, jobs, done, adm, sweep>>

ClaimStep(w) == ReadState(w) \/ AdmitClosed(w) \/ AdmitProbe(w) \/ Take(w)

SweepStep(p) == SweepRead(p) \/ SweepCount(p) \/ SweepProbe(p) \/ SweepWrite(p)

Next ==
  \/ \E w \in Worker : ClaimStep(w) \/ TakeFails(w)
  \/ \E j \in Job : Submit(j) \/ \E out \in Outcome : Finish(j, out)
  \/ \E p \in Scheduler : SweepStep(p)
  \/ Tick

Spec == Init /\ [][Next]_vars

\* Workers poll, schedulers sweep and time passes.  A handler may run for ever.
FairSpec ==
  /\ Spec
  /\ \A w \in Worker : WF_vars(ClaimStep(w))
  /\ \A p \in Scheduler : WF_vars(SweepStep(p))
  /\ WF_vars(Tick)

-----------------------------------------------------------------------------
(* Properties.                                                             *)

\* The row obeys queues_probe_budget_sane and queues_open_has_deadline whatever
\* admissions and sweeps do to it in turn: no update of theirs is refused.
RowSane ==
  /\ breaker.budget = 0 \/ breaker.state = "half_open"
  /\ breaker.state = "open" => breaker.until > 0 \/ Cooldown = 0

\* Each time the breaker is half open it lets one probe through, however many
\* workers ask at once: the budget is not raced (AdmitProbe under the row lock).
OneProbePerPeriod ==
  \A n \in 1 .. period :
    Cardinality({j \in Job : jobs[j].status = "running" /\ jobs[j].probe = n})
      + Cardinality({w \in Worker : adm[w].pc = "take" /\ adm[w].probe = n})
      + (IF n = period THEN breaker.budget ELSE 0) <= 1

\* What holds in every state: the types, the check constraints of the row, and
\* one probe for each half open period (queue_admit, Breaker).
BreakerSafe == TypeOK /\ RowSane /\ OneProbePerPeriod

\* What closes a breaker, or opens it again, finished after the cooldown that
\* this half open period follows (breakerProbeSQL and the update after it).
DecidesOnThisPeriod ==
  [][\A p \in Scheduler :
       (sweep[p].pc \in {"reopen", "close"} /\ breaker.state = "half_open"
         /\ breaker'.state # "half_open" /\ sweep'[p] # sweep[p])
       => \E i \in DOMAIN done : done[i].at >= breaker.until]_vars

\* An open breaker does not stay open: once it has cooled down some worker's
\* next claim half opens it.
OpenEnds == breaker.state = "open" ~> breaker.state # "open"
=============================================================================
