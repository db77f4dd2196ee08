-------------------------------- MODULE Cron --------------------------------
(***************************************************************************)
(* Cron schedules: the sweep Materialize, run by every scheduler, and the  *)
(* API calls that create, change, pause, resume and delete a schedule.     *)
(*                                                                         *)
(* Materialize is one transaction of several statements.  It reads the     *)
(* clock, locks the due rows (skipping those another sweep has locked),    *)
(* decides about each of them, and commits.  Other sweeps and the API run  *)
(* between any two of its steps; what they write to a locked row waits.    *)
(* A PATCH reads the row without a lock, computes the next tick from what  *)
(* it read, and writes later.                                              *)
(*                                                                         *)
(* An expression is its period, a time zone an offset: the ticks of (e, z) *)
(* are the times congruent to z modulo e.  Period 0 is an expression that  *)
(* names no date (0 0 30 2 * ), for which the cron library answers the     *)
(* zero time.                                                              *)
(***************************************************************************)
EXTENDS Integers, FiniteSets

CONSTANTS
  Schedule,    \* ids of schedules
  Scheduler,   \* scheduler processes
  Client,      \* API requests that patch a schedule
  Expr,        \* cron expressions, as periods
  Zone,        \* time zones, as offsets
  Unknown,     \* zones that the tz data of the schedulers lacks
  Patch,       \* bodies of PATCH requests
  Keep,        \* a field left out of a body, and the absence of a value
  Batch,       \* Config.Batch
  TickCap,     \* 100000 in Materialize
  MaxTime,     \* bound: the clock stops here
  MaxFaults    \* bound: transactions that fail

ASSUME ExprAssumption == Expr \subseteq Nat /\ Zone \subseteq Nat
ASSUME BoundAssumption == TickCap \in Nat /\ MaxTime \in Nat /\ Batch \in Nat /\ MaxFaults \in Nat
ASSUME KeepAssumption == Keep \notin Nat

VARIABLES
  now,     \* fl.now()
  rows,    \* Schedule -> row of the schedules table
  jobs,    \* the jobs made by schedules
  told,    \* Schedule -> ticks reported by ticks_skipped and tick_skipped_overlap
  sweep,   \* Scheduler -> its transaction in Materialize
  patch,   \* Client -> a PATCH between its read and its write
  faults   \* failures so far

vars == <<now, rows, jobs, told, sweep, patch, faults>>

Row == [live : BOOLEAN, expr : Nat, zone : Nat, enabled : BOOLEAN,
        overlap : {"allow", "skip"}, catchup : {"skip", "fire_once"},
        next : Nat, last : Nat \cup {Keep}, created : Nat,
        moved : BOOLEAN]   \* (history) a PATCH has set next_run_at

\* under is the overlap policy the job was made under.
Job == [id : Nat, sched : Schedule, tick : Nat, under : {"allow", "skip"},
        open : BOOLEAN, replayed : BOOLEAN]

\* What a sweep has decided about a schedule and will write at its commit.
Decision == [row : Row, fire : Nat \cup {Keep}, skipped : Nat, overlapped : Nat]

\* A schedule that has not been created yet.
NoRow == [live |-> FALSE, expr |-> 0, zone |-> 0, enabled |-> FALSE, overlap |-> "skip",
          catchup |-> "skip", next |-> 0, last |-> Keep, created |-> 0, moved |-> FALSE]
NoSweep == [pc |-> "idle", at |-> 0, todo |-> {}, done |-> << >>]
NoPatch == [sched |-> Keep, body |-> Keep, next |-> Keep]

TypeOK ==
  /\ now \in 1 .. MaxTime
  /\ rows \in [Schedule -> Row]
  /\ \A j \in jobs : j \in Job
  /\ told \in [Schedule -> Nat]
  /\ \A p \in Scheduler :
       /\ sweep[p].pc \in {"idle", "begun", "locked"}
       /\ sweep[p].at \in 0 .. now
       /\ sweep[p].todo \subseteq Schedule
       /\ \A s \in DOMAIN sweep[p].done : s \in Schedule /\ sweep[p].done[s] \in Decision
  /\ \A c \in Client : patch[c].next \in Nat \cup {Keep}
  /\ faults \in 0 .. MaxFaults

Init ==
  /\ now = 1
  /\ rows = [s \in Schedule |-> NoRow]
  /\ jobs = {}
  /\ told = [s \in Schedule |-> 0]
  /\ sweep = [p \in Scheduler |-> NoSweep]
  /\ patch = [c \in Client |-> NoPatch]
  /\ faults = 0

-----------------------------------------------------------------------------
(* Ticks.                                                                  *)

NextTick(e, z, t) == IF e = 0 THEN 0 ELSE t + 1 + ((z - t - 1) % e)

IsTick(e, z, t) == e # 0 /\ (t - z) % e = 0

\* The values of t in the loop of Materialize, but for the cap: next_run_at
\* and the ticks after it up to the time the sweep began.
Passed(r, at) ==
  IF r.next > at THEN {}
  ELSE {r.next} \cup {t \in r.next + 1 .. at : IsTick(r.expr, r.zone, t)}

\* The loop stops once count exceeds the cap.  With no tick at all it goes
\* round on the zero time until then.
Walked(r, at) ==
  LET all == Passed(r, at)
  IN {t \in all : Cardinality({u \in all : u < t}) <= TickCap}

Count(r, at) == IF r.expr = 0 THEN TickCap + 1 ELSE Cardinality(Walked(r, at))

Last(r, at) ==
  IF r.expr = 0 THEN 0
  ELSE CHOOSE t \in Walked(r, at) \cup {r.next} : \A u \in Walked(r, at) : u <= t

-----------------------------------------------------------------------------
(* The sweep.                                                              *)

\* (mutant) the due rows are read without "for update"
LockedNever(s) == FALSE

\* A sweep keeps the rows it read until its transaction ends.
Locked(s) == \E p \in Scheduler : s \in sweep[p].todo \cup DOMAIN sweep[p].done

Due(s) == rows[s].live /\ rows[s].enabled /\ rows[s].next <= now

Begin(p) ==
  /\ sweep[p].pc = "idle"
  /\ sweep' = [sweep EXCEPT ![p] = [NoSweep EXCEPT !.pc = "begun", !.at = now]]
  /\ UNCHANGED <<now, rows, jobs, told, patch, faults>>

\* for update skip locked
Free(s) == Due(s) /\ ~Locked(s)

\* The due rows, oldest first, at most Batch of them.
ReadDue(p) ==
  LET due == {s \in Schedule : Free(s)}
  IN /\ sweep[p].pc = "begun"
     /\ \E S \in SUBSET due :
          /\ Cardinality(S) = Batch \/ (Cardinality(S) < Batch /\ S = due)
          /\ \A s \in S, d \in due \ S : rows[s].next <= rows[d].next
          /\ sweep' = [sweep EXCEPT ![p] =
               IF S = {} THEN NoSweep ELSE [@ EXCEPT !.pc = "locked", !.todo = S]]
     /\ UNCHANGED <<now, rows, jobs, told, patch, faults>>

\* overlapSQL
Clear(s) == ~\E j \in jobs : j.sched = s /\ j.open

\* (mutant) fire_once counts the tick it fires as skipped too
CatchupCountsFired(r, n) ==
  [fire |-> n <= 1 \/ r.catchup = "fire_once", skipped |-> IF n > 1 THEN n ELSE 0]

\* After more than one missed tick, fire only the last of them or none.
Catchup(r, n) ==
  [fire |-> n <= 1 \/ r.catchup = "fire_once",
   skipped |-> IF n <= 1 THEN 0 ELSE IF r.catchup = "fire_once" THEN n - 1 ELSE n]

\* (mutant) the tick of an earlier job is fired again
TakenNever(s, t) == FALSE

\* on conflict (schedule_id, scheduled_for) do nothing
Taken(s, t) == \E j \in jobs : j.sched = s /\ j.tick = t

\* (mutant) next_run_at is computed from its old value
NextAfterNext(r, at) == NextTick(r.expr, r.zone, r.next)

\* (mutant) next_run_at is left where it was
NextStays(r, at) == r.next

NextFuture(r, at) == NextTick(r.expr, r.zone, Last(r, at))

\* What the sweep decides for a row whose expression it can evaluate.
Decide(s, r, at) ==
  LET n == Count(r, at)
      t == Last(r, at)
      catch == Catchup(r, n)
      held == catch.fire /\ r.overlap = "skip" /\ ~Clear(s)
      fire == catch.fire /\ ~held /\ ~Taken(s, t)
  IN [row |-> [r EXCEPT !.next = NextFuture(r, at), !.last = IF fire THEN t ELSE @],
      fire |-> IF fire THEN t ELSE Keep,
      skipped |-> catch.skipped,
      overlapped |-> IF held THEN 1 ELSE 0]

\* disableSchedule, when NextTick fails.
Disable(r) ==
  [row |-> [r EXCEPT !.enabled = FALSE], fire |-> Keep, skipped |-> 0, overlapped |-> 0]

Process(p, s) ==
  /\ sweep[p].pc = "locked"
  /\ s \in sweep[p].todo
  /\ LET d == IF rows[s].zone \in Unknown THEN Disable(rows[s])
              ELSE Decide(s, rows[s], sweep[p].at)
         old == sweep[p].done
     IN sweep' = [sweep EXCEPT
          ![p].todo = @ \ {s},
          ![p].done = [x \in DOMAIN old \cup {s} |-> IF x = s THEN d ELSE old[x]]]
  /\ UNCHANGED <<now, rows, jobs, told, patch, faults>>

\* Jobs made by p, numbered from n.
Made(p) ==
  LET done == sweep[p].done
      fired == {s \in DOMAIN done : done[s].fire # Keep}
      id == CHOOSE f \in [fired -> 1 .. Cardinality(fired)] :
              \A a, b \in fired : a # b => f[a] # f[b]
  IN {[id |-> Cardinality(jobs) + id[s], sched |-> s, tick |-> done[s].fire,
       under |-> done[s].row.overlap, open |-> TRUE, replayed |-> FALSE] : s \in fired}

\* The reported ticks are counted up to one more than there can be.
Told(n) == IF n > MaxTime THEN MaxTime + 1 ELSE n

Commit(p) ==
  /\ sweep[p].pc = "locked"
  /\ sweep[p].todo = {}
  /\ LET done == sweep[p].done
     IN /\ rows' = [s \in Schedule |-> IF s \in DOMAIN done THEN done[s].row ELSE rows[s]]
        /\ told' = [s \in Schedule |->
             IF s \in DOMAIN done
             THEN Told(told[s] + done[s].skipped + done[s].overlapped) ELSE told[s]]
  /\ jobs' = jobs \cup Made(p)
  /\ sweep' = [sweep EXCEPT ![p] = NoSweep]
  /\ UNCHANGED <<now, patch, faults>>

\* The transaction fails, or its process dies: nothing of it stays.
Rollback(p) ==
  /\ sweep[p].pc # "idle"
  /\ faults < MaxFaults
  /\ faults' = faults + 1
  /\ sweep' = [sweep EXCEPT ![p] = NoSweep]
  /\ UNCHANGED <<now, rows, jobs, told, patch>>

-----------------------------------------------------------------------------
(* The API.                                                                *)

Create(s, e, z, o, k) ==
  /\ rows[s].created = 0
  /\ rows' = [rows EXCEPT ![s] =
       [live |-> TRUE, expr |-> e, zone |-> z, enabled |-> TRUE, overlap |-> o,
        catchup |-> k, next |-> NextTick(e, z, now), last |-> Keep, created |-> now,
        moved |-> FALSE]]
  /\ UNCHANGED <<now, jobs, told, sweep, patch, faults>>

Coalesce(new, old) == IF new = Keep THEN old ELSE new

\* updateSchedule up to its update: next_run_at is recomputed when the body
\* names an expression or a zone, from the row as it is read here.
PatchRead(c, s, body) ==
  /\ patch[c] = NoPatch
  /\ rows[s].live
  /\ patch' = [patch EXCEPT ![c] =
       [sched |-> s, body |-> body,
        next |-> IF body.expr = Keep /\ body.zone = Keep THEN Keep
                 ELSE NextTick(Coalesce(body.expr, rows[s].expr),
                               Coalesce(body.zone, rows[s].zone), now)]]
  /\ UNCHANGED <<now, rows, jobs, told, sweep, faults>>

PatchedRow(r, body, next) ==
  [r EXCEPT !.expr = Coalesce(body.expr, @), !.zone = Coalesce(body.zone, @),
            !.overlap = Coalesce(body.overlap, @), !.catchup = Coalesce(body.catchup, @),
            !.enabled = Coalesce(body.enabled, @), !.next = Coalesce(next, @),
            !.moved = @ \/ next # Keep]

\* updateScheduleSQL waits for the row; it finds nothing when it was deleted.
PatchWrite(c) ==
  LET s == patch[c].sched
  IN /\ patch[c] # NoPatch
     /\ ~Locked(s)
     /\ rows' = [rows EXCEPT ![s] =
          IF @.live THEN PatchedRow(@, patch[c].body, patch[c].next) ELSE @]
     /\ patch' = [patch EXCEPT ![c] = NoPatch]
     /\ UNCHANGED <<now, jobs, told, sweep, faults>>

SetEnabled(s, on) ==
  /\ rows[s].live /\ ~Locked(s)
  /\ rows' = [rows EXCEPT ![s].enabled = on]
  /\ UNCHANGED <<now, jobs, told, sweep, patch, faults>>

\* The jobs of a deleted schedule lose their schedule_id, and no sweep looks
\* at it again.
Delete(s) ==
  /\ rows[s].live /\ ~Locked(s)
  /\ rows' = [rows EXCEPT ![s].live = FALSE]
  /\ UNCHANGED <<now, jobs, told, sweep, patch, faults>>

-----------------------------------------------------------------------------
(* What the rest of the system does to a schedule's jobs, and the clock.   *)

Finish(j) ==
  /\ j \in jobs /\ j.open
  /\ jobs' = (jobs \ {j}) \cup {[j EXCEPT !.open = FALSE]}
  /\ UNCHANGED <<now, rows, told, sweep, patch, faults>>

\* A dead job is replayed.
Replay(j) ==
  /\ j \in jobs /\ ~j.open /\ ~j.replayed
  /\ jobs' = (jobs \ {j}) \cup {[j EXCEPT !.open = TRUE, !.replayed = TRUE]}
  /\ UNCHANGED <<now, rows, told, sweep, patch, faults>>

Tick ==
  /\ now < MaxTime
  /\ now' = now + 1
  /\ UNCHANGED <<rows, jobs, told, sweep, patch, faults>>

SweepStep(p) ==
  \/ Begin(p)
  \/ ReadDue(p)
  \/ \E s \in Schedule : Process(p, s)
  \/ Commit(p)

ApiStep ==
  \/ \E s \in Schedule, e \in Expr, z \in Zone, o \in {"allow", "skip"},
        k \in {"skip", "fire_once"} : Create(s, e, z, o, k)
  \/ \E s \in Schedule : Delete(s) \/ \E on \in BOOLEAN : SetEnabled(s, on)
  \/ \E c \in Client : PatchWrite(c)
  \/ \E c \in Client, s \in Schedule, b \in Patch : PatchRead(c, s, b)

Next ==
  \/ \E p \in Scheduler : SweepStep(p) \/ Rollback(p)
  \/ ApiStep
  \/ \E j \in jobs : Finish(j) \/ Replay(j)
  \/ Tick

Spec == Init /\ [][Next]_vars

\* scheduler.go calls Materialize again and again.
FairSpec == Spec /\ \A p \in Scheduler : WF_vars(SweepStep(p))

-----------------------------------------------------------------------------
(* Properties.                                                             *)

\* A tick makes at most one job, however many schedulers sweep and although a
\* PATCH may set next_run_at back to a tick that has fired since it read the
\* row (insertScheduledJobSQL and its unique index).
TickOnce == \A a, b \in jobs : a.sched = b.sched /\ a.tick = b.tick => a = b

\* Under overlap_policy skip a tick is not started while an earlier one is
\* unfinished: of the jobs made under it, and not revived by a replay, at most
\* one is open (overlapSQL, which sees only committed jobs).
NoOverlap ==
  \A a, b \in jobs :
    (/\ a.sched = b.sched /\ a.under = "skip" /\ b.under = "skip"
     /\ a.open /\ b.open /\ ~a.replayed /\ ~b.replayed) => a = b

\* Once a pause or a delete has returned, no sweep that read the row before it
\* makes another job of that schedule (setScheduleEnabled against Materialize).
QuietWhilePaused ==
  [][\A j \in jobs' : (\A k \in jobs : k.id # j.id) =>
       rows[j.sched].live /\ rows[j.sched].enabled]_vars

\* A sweep leaves nothing behind that was due when it began: it moves
\* next_run_at past the time it read (Materialize, nextFuture).
SweepCatchesUp ==
  \A p \in Scheduler : \A s \in DOMAIN sweep[p].done :
    LET r == sweep[p].done[s].row IN r.enabled => r.next > sweep[p].at

\* What holds in every state: the types, one job for a tick, no tick beside an
\* unfinished one under skip, and sweeps that catch up (Materialize).
CronSafe == TypeOK /\ TickOnce /\ NoOverlap /\ SweepCatchesUp

\* Without a PATCH that moves next_run_at, every tick from the creation of a
\* schedule to its next_run_at either made a job or was reported as skipped,
\* exactly once (the counts of Materialize, over pauses, outages, rollbacks).
TicksAccounted ==
  \A s \in Schedule : rows[s].created # 0 /\ ~rows[s].moved =>
    LET r == rows[s]
    IN Cardinality({t \in r.created + 1 .. r.next - 1 : IsTick(r.expr, r.zone, t)})
         = Cardinality({j \in jobs : j.sched = s}) + told[s]

\* A schedule that is due does not stay due: a sweep reaches it, although
\* sweeps fail, skip what others have locked, and take a batch at a time.
Settles == \A s \in Schedule : Due(s) ~> ~Due(s)
=============================================================================
