----------------------------- MODULE CronProofs -----------------------------
(***************************************************************************)
(* A tick fires at most once, does not overlap an earlier one, and not     *)
(* after a pause, for any number of schedules, schedulers and clients, any *)
(* expressions, and any failures.                                          *)
(*                                                                         *)
(* All three rest on one fact: what a sweep has decided about a row stays  *)
(* true until its commit, because it alone holds the row.                  *)
(***************************************************************************)
EXTENDS Cron, TLAPS

JobFields == {"id", "sched", "tick", "under", "open", "replayed"}

SweepFields == {"pc", "at", "todo", "done"}

RowFields ==
  {"live", "expr", "zone", "enabled", "overlap", "catchup", "next", "last", "created",
   "moved"}

\* A row that was not created is not live.
RowOK(r) == DOMAIN r = RowFields /\ (r.created = 0 => ~r.live)

Shape ==
  /\ now \in Nat \ {0}
  /\ sweep = [p \in Scheduler |-> sweep[p]]
  /\ \A p \in Scheduler : DOMAIN sweep[p] = SweepFields
  /\ rows = [s \in Schedule |-> rows[s]] /\ \A s \in Schedule : RowOK(rows[s])
  /\ \A j \in jobs : DOMAIN j = JobFields

\* The rows a sweep has locked.
Holding(p) == sweep[p].todo \cup DOMAIN sweep[p].done

\* No row is locked twice, and a locked row is a live and enabled one.
LockInv ==
  /\ \A p \in Scheduler : Holding(p) \subseteq Schedule
  /\ \A p, q \in Scheduler : p # q => Holding(p) \cap Holding(q) = {}
  /\ \A p \in Scheduler : \A s \in Holding(p) :
       rows[s].live /\ rows[s].enabled

\* No unfinished job of s stands in the way, but for those a replay revived.
Idle(s) == \A j \in jobs : j.sched = s => ~j.open \/ j.replayed

DecisionHolds(s, d) ==
  /\ RowOK(d.row)
  /\ d.fire # Keep => ~Taken(s, d.fire) /\ (d.row.overlap = "skip" => Idle(s))

\* What a sweep decided still holds.
DecisionInv ==
  \A p \in Scheduler : \A s \in DOMAIN sweep[p].done : DecisionHolds(s, sweep[p].done[s])

CronInv == Shape /\ LockInv /\ DecisionInv /\ TickOnce /\ NoOverlap

LEMMA CronInit == Init => CronInv
<1>1. SUFFICES ASSUME Init PROVE CronInv
  OBVIOUS
<1>2. \A p \in Scheduler : sweep[p].todo = {} /\ DOMAIN sweep[p].done = {}
  BY <1>1 DEF Init, NoSweep
<1>3. RowOK(NoRow)
  BY DEF RowOK, RowFields, NoRow
<1>4. DOMAIN NoSweep = SweepFields
  BY DEF NoSweep, SweepFields
<1>5. Shape
  BY <1>1, <1>3, <1>4 DEF Init, Shape
<1>6. QED
  BY <1>1, <1>2, <1>5 DEF Init, CronInv, LockInv, Holding, DecisionInv, TickOnce, NoOverlap

LEMMA RowExcept ==
  ASSUME NEW r, RowOK(r), NEW x,
         \/ \E on : x = [r EXCEPT !.enabled = on]
         \/ x = [r EXCEPT !.live = FALSE]
         \/ \E n, l : x = [r EXCEPT !.next = n, !.last = l]
         \/ \E body, n : x = PatchedRow(r, body, n)
  PROVE  RowOK(x)
  BY DEF RowOK, RowFields, PatchedRow

\* Steps that touch neither sweeps nor jobs, and only rows that are not locked.
LEMMA CronApi ==
  ASSUME CronInv, UNCHANGED <<sweep, jobs>>, now' \in Nat \ {0}, NEW s,
         rows' = [rows EXCEPT ![s] = rows'[s]],
         s \in Schedule => RowOK(rows'[s]),
         ~Locked(s) \/ rows'[s] = rows[s]
  PROVE  CronInv'
<1> USE DEF CronInv
<1>1. TickOnce' /\ NoOverlap'
  BY DEF TickOnce, NoOverlap
<1>2. Shape'
  BY DEF Shape
<1>3. \A p \in Scheduler : \A x \in Holding(p) : rows'[x] = rows[x]
  BY DEF LockInv, Locked, Holding, Shape
<1>4. LockInv'
  BY <1>3 DEF LockInv, Holding
<1>5. DecisionInv'
  BY DEF DecisionInv, DecisionHolds, Taken, Idle
<1>6. QED
  BY <1>1, <1>2, <1>4, <1>5

LEMMA CronRequests ==
  ASSUME CronInv, ApiStep \/ Tick
  PROVE  CronInv'
<1> USE DEF CronInv
<1>1. ASSUME UNCHANGED <<sweep, jobs, rows>>, now' \in Nat \ {0} PROVE CronInv'
  <2>1. Shape'
    BY <1>1 DEF Shape
  <2>2. LockInv' /\ TickOnce' /\ NoOverlap'
    BY <1>1 DEF LockInv, Holding, TickOnce, NoOverlap
  <2>3. DecisionInv'
    BY <1>1 DEF DecisionInv, DecisionHolds, Taken, Idle
  <2>4. QED
    BY <2>1, <2>2, <2>3
<1>2. CASE Tick
  BY <1>1, <1>2 DEF Tick, Shape
<1>3. ASSUME NEW s \in Schedule, NEW e, NEW z, NEW o, NEW k, Create(s, e, z, o, k) PROVE CronInv'
  <2>1. /\ UNCHANGED <<sweep, jobs, now>> /\ rows[s].created = 0
        /\ rows' = [rows EXCEPT ![s] = rows'[s]]
        /\ rows'[s] = [live |-> TRUE, expr |-> e, zone |-> z, enabled |-> TRUE, overlap |-> o,
                       catchup |-> k, next |-> NextTick(e, z, now), last |-> Keep, created |-> now,
                       moved |-> FALSE]
    BY <1>3 DEF Create, Shape
  <2>2. ~Locked(s)
    BY <2>1 DEF Locked, LockInv, Holding, Shape, RowOK
  <2>3. RowOK(rows'[s])
    BY <2>1 DEF RowOK, RowFields, Shape
  <2>4. now' \in Nat \ {0}
    BY <2>1 DEF Shape
  <2>5. QED
    BY <2>1, <2>2, <2>3, <2>4, CronApi
<1>4. ASSUME NEW s \in Schedule, Delete(s) \/ \E on \in BOOLEAN : SetEnabled(s, on) PROVE CronInv'
  <2>1. PICK x : /\ rows' = [rows EXCEPT ![s] = x]
                 /\ x = [rows[s] EXCEPT !.live = FALSE] \/ \E on : x = [rows[s] EXCEPT !.enabled = on]
    BY <1>4 DEF Delete, SetEnabled
  <2>2. UNCHANGED <<sweep, jobs, now>> /\ ~Locked(s)
    BY <1>4 DEF Delete, SetEnabled
  <2>3. RowOK(rows[s])
    BY DEF Shape
  <2>4. RowOK(x)
    BY <2>1, <2>3, RowExcept
  <2>5. rows'[s] = x /\ now' \in Nat \ {0}
    BY <2>1, <2>2 DEF Shape
  <2>6. QED
    BY <2>1, <2>2, <2>4, <2>5, CronApi
<1>5. ASSUME NEW c \in Client, PatchWrite(c) PROVE CronInv'
  <2> DEFINE s == patch[c].sched
  <2>1. PICK x : /\ rows' = [rows EXCEPT ![s] = x]
                 /\ x = rows[s] \/ \E body, n : x = PatchedRow(rows[s], body, n)
    BY <1>5 DEF PatchWrite
  <2>2. UNCHANGED <<sweep, jobs, now>> /\ ~Locked(s)
    BY <1>5 DEF PatchWrite
  <2>3. s \in Schedule => RowOK(rows[s])
    BY DEF Shape
  <2>4. s \in Schedule => RowOK(x)
    BY <2>1, <2>3, RowExcept
  <2>5. (s \in Schedule => rows'[s] = x) /\ now' \in Nat \ {0}
    BY <2>1, <2>2 DEF Shape
  <2>6. rows' = [rows EXCEPT ![s] = rows'[s]]
    BY <2>1, <2>5 DEF Shape
  <2>7. QED
    BY <2>2, <2>4, <2>5, <2>6, CronApi
<1>6. ASSUME NEW c \in Client, NEW s \in Schedule, NEW b \in Patch, PatchRead(c, s, b) PROVE CronInv'
  BY <1>1, <1>6 DEF PatchRead, Shape
<1>7. QED
  BY <1>2, <1>3, <1>4, <1>5, <1>6 DEF ApiStep

\* A job keeps its schedule, tick and policy; a replay is remembered.
LEMMA JobExcept ==
  ASSUME NEW j, DOMAIN j = JobFields, NEW x,
         x = [j EXCEPT !.open = FALSE] \/ x = [j EXCEPT !.open = TRUE, !.replayed = TRUE]
  PROVE  /\ DOMAIN x = JobFields /\ x.id = j.id
         /\ x.sched = j.sched /\ x.tick = j.tick /\ x.under = j.under /\ x.id = j.id
         /\ ~x.open \/ x.replayed
  BY DEF JobFields

LEMMA CronJobs ==
  ASSUME CronInv, NEW j \in jobs, Finish(j) \/ Replay(j)
  PROVE  CronInv'
<1> USE DEF CronInv
<1>1. UNCHANGED <<now, rows, sweep>>
  BY DEF Finish, Replay
<1>2. PICK x : /\ jobs' = (jobs \ {j}) \cup {x} /\ DOMAIN x = JobFields
               /\ x.sched = j.sched /\ x.tick = j.tick /\ x.under = j.under
               /\ ~x.open \/ x.replayed
  <2>1. PICK y : /\ jobs' = (jobs \ {j}) \cup {y}
                 /\ y = [j EXCEPT !.open = FALSE] \/ y = [j EXCEPT !.open = TRUE, !.replayed = TRUE]
    BY DEF Finish, Replay
  <2>2. DOMAIN j = JobFields
    BY DEF Shape
  <2>3. /\ DOMAIN y = JobFields /\ y.sched = j.sched /\ y.tick = j.tick /\ y.under = j.under
        /\ ~y.open \/ y.replayed
    BY <2>1, <2>2, JobExcept
  <2>4. QED
    BY <2>1, <2>3
<1>3. x.sched = j.sched /\ x.tick = j.tick
  BY <1>2
<1>4. Shape'
  BY <1>1, <1>2, <1>3 DEF Shape
<1>5. TickOnce'
  BY <1>2, <1>3 DEF TickOnce
<1>6. NoOverlap'
  BY <1>2 DEF NoOverlap
<1>7. \A s, t : Taken(s, t)' => Taken(s, t)
  BY <1>2, <1>3 DEF Taken
<1>8. \A s : Idle(s) => Idle(s)'
  BY <1>2 DEF Idle
<1>9. DecisionInv'
  BY <1>1, <1>7, <1>8 DEF DecisionInv, DecisionHolds
<1>10. LockInv'
  BY <1>1 DEF LockInv, Holding
<1>11. QED
  BY <1>4, <1>5, <1>6, <1>9, <1>10

\* A sweep begins, locks free rows, or gives everything up.
SweepSet(p) ==
  \E x : /\ sweep' = [sweep EXCEPT ![p] = x] /\ DOMAIN x = SweepFields
         /\ x.todo \subseteq {s \in Schedule : Free(s)}
         /\ DOMAIN x.done = {} \/ x.done = sweep[p].done

LEMMA CronRead ==
  ASSUME CronInv, NEW p \in Scheduler, Begin(p) \/ ReadDue(p) \/ Rollback(p)
  PROVE  CronInv'
<1> USE DEF CronInv
<1>1. UNCHANGED <<now, rows, jobs>>
  BY DEF Begin, ReadDue, Rollback
<1>2. ASSUME NEW x, x = NoSweep \/ x = [NoSweep EXCEPT !.pc = "begun", !.at = now]
      PROVE  DOMAIN x = SweepFields /\ x.todo = {} /\ DOMAIN x.done = {}
  <2>1. DOMAIN << >> = {}
    OBVIOUS
  <2>2. DOMAIN NoSweep = SweepFields /\ NoSweep.todo = {} /\ DOMAIN NoSweep.done = {}
    BY <2>1 DEF NoSweep, SweepFields
  <2>3. QED
    BY <1>2, <2>2 DEF SweepFields
<1>3. ASSUME NEW S
      PROVE  LET x == [sweep[p] EXCEPT !.pc = "locked", !.todo = S]
             IN  DOMAIN x = SweepFields /\ x.todo = S /\ x.done = sweep[p].done
  BY DEF Shape, SweepFields
<1>4. SweepSet(p)
  <2>1. CASE Begin(p)
    BY <1>2, <2>1 DEF Begin, SweepSet
  <2>2. CASE ReadDue(p)
    <3>1. PICK S \in SUBSET {s \in Schedule : Free(s)} :
            sweep' = [sweep EXCEPT ![p] =
              IF S = {} THEN NoSweep ELSE [sweep[p] EXCEPT !.pc = "locked", !.todo = S]]
      BY <2>2 DEF ReadDue
    <3>2. CASE S = {}
      BY <1>2, <3>1, <3>2 DEF SweepSet
    <3>3. CASE S # {}
      BY <1>3, <3>1, <3>3 DEF SweepSet
    <3>4. QED
      BY <3>2, <3>3
  <2>3. CASE Rollback(p)
    BY <1>2, <2>3 DEF Rollback, SweepSet
  <2>4. QED
    BY <2>1, <2>2, <2>3
<1>5. PICK x : /\ sweep' = [sweep EXCEPT ![p] = x] /\ DOMAIN x = SweepFields
               /\ x.todo \subseteq {s \in Schedule : Free(s)}
               /\ DOMAIN x.done = {} \/ x.done = sweep[p].done
  BY <1>4 DEF SweepSet
<1>6. Shape' /\ sweep'[p] = x /\ \A q \in Scheduler \ {p} : sweep'[q] = sweep[q]
  BY <1>1, <1>5 DEF Shape
<1>7. \A s \in x.todo : /\ s \in Schedule /\ rows[s].live /\ rows[s].enabled
                        /\ \A q \in Scheduler : s \notin Holding(q)
  BY <1>5 DEF Free, Due, Locked, Holding
<1>8. /\ Holding(p)' = x.todo \cup DOMAIN x.done /\ DOMAIN x.done \subseteq Holding(p)
      /\ \A q \in Scheduler \ {p} : Holding(q)' = Holding(q)
  BY <1>5, <1>6 DEF Holding
<1>9. LockInv'
  BY <1>1, <1>7, <1>8 DEF LockInv
<1>10. DecisionInv'
  BY <1>1, <1>5, <1>6 DEF DecisionInv, DecisionHolds, Taken, Idle
<1>11. TickOnce' /\ NoOverlap'
  BY <1>1 DEF TickOnce, NoOverlap
<1>12. QED
  BY <1>6, <1>9, <1>10, <1>11

\* A tick is fired only if no job has it, and under skip only if none is open.
LEMMA DecideHolds ==
  ASSUME NEW s, NEW r, NEW at, RowOK(r)
  PROVE  DecisionHolds(s, Decide(s, r, at)) /\ DecisionHolds(s, Disable(r))
<1>1. DecisionHolds(s, Disable(r))
  <2>1. RowOK([r EXCEPT !.enabled = FALSE])
    BY RowExcept
  <2>2. QED
    BY <2>1 DEF Disable, DecisionHolds
<1>2. /\ Decide(s, r, at).fire # Keep => /\ Decide(s, r, at).fire = Last(r, at) /\ ~Taken(s, Last(r, at))
                                         /\ r.overlap = "skip" => Clear(s)
      /\ \E n, l : Decide(s, r, at).row = [r EXCEPT !.next = n, !.last = l]
  BY DEF Decide
<1>3. Clear(s) => Idle(s)
  BY DEF Clear, Idle
<1>4. PICK n, l : Decide(s, r, at).row = [r EXCEPT !.next = n, !.last = l]
  BY <1>2
<1>5. RowOK(Decide(s, r, at).row)
  BY <1>4, RowExcept
<1>6. Decide(s, r, at).row.overlap = r.overlap
  BY <1>4 DEF RowOK, RowFields
<1>7. QED
  BY <1>1, <1>2, <1>3, <1>5, <1>6 DEF DecisionHolds

LEMMA CronProcess ==
  ASSUME CronInv, NEW p \in Scheduler, NEW s \in Schedule, Process(p, s)
  PROVE  CronInv'
<1> USE DEF CronInv
<1> DEFINE old == sweep[p].done
<1>1. UNCHANGED <<now, rows, jobs>> /\ s \in sweep[p].todo
  BY DEF Process
<1>2. RowOK(rows[s])
  BY DEF Shape
<1>3. PICK d : /\ DecisionHolds(s, d)
               /\ sweep' = [sweep EXCEPT ![p].todo = @ \ {s},
                    ![p].done = [x \in DOMAIN old \cup {s} |-> IF x = s THEN d ELSE old[x]]]
  <2>1. CASE rows[s].zone \in Unknown
    BY <1>2, <2>1, DecideHolds DEF Process
  <2>2. CASE rows[s].zone \notin Unknown
    BY <1>2, <2>2, DecideHolds DEF Process
  <2>3. QED
    BY <2>1, <2>2
<1> DEFINE new == [x \in DOMAIN old \cup {s} |-> IF x = s THEN d ELSE old[x]]
<1>4. /\ sweep' = [q \in Scheduler |-> sweep'[q]]
      /\ DOMAIN sweep'[p] = SweepFields
      /\ sweep'[p].todo = sweep[p].todo \ {s} /\ sweep'[p].done = new
      /\ \A q \in Scheduler \ {p} : sweep'[q] = sweep[q]
  BY <1>3 DEF Shape, SweepFields
<1>5. Shape'
  BY <1>1, <1>4 DEF Shape
<1>6. \A q \in Scheduler : Holding(q)' = Holding(q)
  BY <1>1, <1>4 DEF Holding
<1>7. LockInv'
  BY <1>1, <1>6 DEF LockInv
<1>9. DecisionInv'
  <2>1. SUFFICES ASSUME NEW q \in Scheduler, NEW x \in DOMAIN sweep'[q].done
                 PROVE  DecisionHolds(x, sweep'[q].done[x])
    BY <1>1 DEF DecisionInv, DecisionHolds, Taken, Idle
  <2>2. CASE q # p
    BY <1>4, <2>1, <2>2 DEF DecisionInv
  <2>3. CASE q = p /\ x = s
    BY <1>3, <1>4, <2>3
  <2>4. CASE q = p /\ x # s
    <3>1. x \in DOMAIN old /\ sweep'[q].done[x] = old[x]
      BY <1>4, <2>1, <2>4
    <3>2. QED
      BY <2>4, <3>1 DEF DecisionInv
  <2>5. QED
    BY <2>2, <2>3, <2>4
<1>10. TickOnce' /\ NoOverlap'
  BY <1>1 DEF TickOnce, NoOverlap
<1>11. QED
  BY <1>5, <1>7, <1>9, <1>10

\* A commit makes one job for each schedule that it decided to fire.
LEMMA MadeJobs ==
  ASSUME NEW p
  PROVE  /\ \A m \in Made(p) :
              /\ m.sched \in DOMAIN sweep[p].done /\ sweep[p].done[m.sched].fire # Keep
              /\ m.tick = sweep[p].done[m.sched].fire
              /\ m.under = sweep[p].done[m.sched].row.overlap
              /\ DOMAIN m = JobFields
         /\ \A m, n \in Made(p) : m.sched = n.sched => m = n
<1> DEFINE done == sweep[p].done
           fired == {s \in DOMAIN done : done[s].fire # Keep}
           Of(f, s) == [id |-> Cardinality(jobs) + f[s], sched |-> s, tick |-> done[s].fire,
                        under |-> done[s].row.overlap, open |-> TRUE, replayed |-> FALSE]
<1>1. PICK f : Made(p) = {Of(f, s) : s \in fired}
  BY DEF Made
<1>2. \A s : /\ Of(f, s).sched = s /\ Of(f, s).tick = done[s].fire
             /\ Of(f, s).under = done[s].row.overlap /\ DOMAIN Of(f, s) = JobFields
  BY DEF JobFields
<1> HIDE DEF Of
<1>3. QED
  BY <1>1, <1>2

LEMMA CronCommit ==
  ASSUME CronInv, NEW p \in Scheduler, Commit(p)
  PROVE  CronInv'
<1> USE DEF CronInv
<1> DEFINE done == sweep[p].done
<1>1. /\ now' = now /\ jobs' = jobs \cup Made(p)
      /\ rows' = [s \in Schedule |-> IF s \in DOMAIN done THEN done[s].row ELSE rows[s]]
      /\ sweep' = [sweep EXCEPT ![p] = NoSweep]
  BY DEF Commit
<1>2. DOMAIN NoSweep = SweepFields /\ NoSweep.todo = {} /\ DOMAIN NoSweep.done = {}
  <2>1. DOMAIN << >> = {}
    OBVIOUS
  <2>2. QED
    BY <2>1 DEF NoSweep, SweepFields
<1>3. \A s \in DOMAIN done : DecisionHolds(s, done[s]) /\ s \in Holding(p) /\ s \in Schedule
  BY DEF DecisionInv, Holding, LockInv
<1>4. /\ sweep' = [q \in Scheduler |-> sweep'[q]] /\ sweep'[p] = NoSweep
      /\ \A q \in Scheduler \ {p} : sweep'[q] = sweep[q]
  BY <1>1 DEF Shape
<1>5. Shape'
  <2>1. \A s \in Schedule : RowOK(rows'[s])
    BY <1>1, <1>3 DEF Shape, DecisionHolds
  <2>2. \A j \in jobs' : DOMAIN j = JobFields
    BY <1>1, MadeJobs DEF Shape
  <2>3. QED
    BY <1>1, <1>2, <1>4, <2>1, <2>2 DEF Shape
<1>6. Holding(p)' = {} /\ \A q \in Scheduler \ {p} : Holding(q)' = Holding(q)
  BY <1>2, <1>4 DEF Holding
<1>7. \A q \in Scheduler \ {p} : \A s \in Holding(q) : s \notin DOMAIN done /\ rows'[s] = rows[s]
  BY <1>1, <1>3 DEF LockInv
<1>8. LockInv'
  BY <1>6, <1>7 DEF LockInv
<1>9. DecisionInv'
  <2>1. SUFFICES ASSUME NEW q \in Scheduler \ {p}, NEW s \in DOMAIN sweep[q].done
                 PROVE  DecisionHolds(s, sweep[q].done[s])'
    BY <1>2, <1>4 DEF DecisionInv
  <2>2. DecisionHolds(s, sweep[q].done[s]) /\ s \notin DOMAIN done
    BY <1>7 DEF DecisionInv, Holding
  <2>3. \A m \in Made(p) : m.sched # s
    BY <2>2, MadeJobs
  <2>4. (Idle(s) => Idle(s)') /\ \A t : Taken(s, t)' => Taken(s, t)
    BY <1>1, <2>3 DEF Idle, Taken
  <2>5. QED
    BY <1>4, <2>2, <2>4 DEF DecisionHolds
<1>10. \A m \in Made(p) : /\ ~Taken(m.sched, m.tick)
                          /\ m.under = "skip" => Idle(m.sched)
  BY <1>3, MadeJobs DEF DecisionHolds
<1>11. TickOnce'
  BY <1>1, <1>10, MadeJobs DEF TickOnce, Taken
<1>12. NoOverlap'
  BY <1>1, <1>10, MadeJobs DEF NoOverlap, Idle
<1>13. QED
  BY <1>5, <1>8, <1>9, <1>11, <1>12

LEMMA CronNext == CronInv /\ [Next]_vars => CronInv'
<1>1. ASSUME CronInv, UNCHANGED vars PROVE CronInv'
  BY <1>1 DEF CronInv, vars, Shape, LockInv, Holding, DecisionInv, DecisionHolds, Taken, Idle,
              TickOnce, NoOverlap
<1>2. QED
  BY <1>1, CronRequests, CronJobs, CronRead, CronProcess, CronCommit DEF Next, SweepStep

\* What a sweep has decided about a row it locked stays true until it commits:
\* that no job has the tick, and under overlap_policy skip that none is open
\* (Materialize, against other sweeps, the API and the workers).
THEOREM CronInductive == Spec => []CronInv
  BY CronInit, CronNext, PTL DEF Spec

\* A tick makes at most one job (insertScheduledJobSQL).
THEOREM TicksFireOnce == Spec => []TickOnce
<1>1. CronInv => TickOnce
  BY DEF CronInv
<1>2. QED
  BY <1>1, CronInductive, PTL

\* Under overlap_policy skip no tick starts beside an unfinished one (overlapSQL).
THEOREM TicksDoNotOverlap == Spec => []NoOverlap
<1>1. CronInv => NoOverlap
  BY DEF CronInv
<1>2. QED
  BY <1>1, CronInductive, PTL

\* A schedule that was paused or deleted makes no further job, although a sweep
\* may have read it before (the row lock of Materialize).
THEOREM PauseIsFinal == Spec => QuietWhilePaused
<1> DEFINE Quiet == \A j \in jobs' : (\A k \in jobs : k.id # j.id) =>
                      rows[j.sched].live /\ rows[j.sched].enabled
<1>1. CronInv /\ [Next]_vars => [Quiet]_vars
  <2>1. SUFFICES ASSUME CronInv, Next PROVE Quiet
    OBVIOUS
  <2>2. ASSUME jobs' = jobs PROVE Quiet
    BY <2>2
  <2>3. ASSUME NEW p \in Scheduler, Commit(p) PROVE Quiet
    <3>1. jobs' = jobs \cup Made(p)
      BY <2>3 DEF Commit
    <3>2. \A s \in DOMAIN sweep[p].done : rows[s].live /\ rows[s].enabled
      BY <2>1 DEF CronInv, LockInv, Holding
    <3>3. QED
      BY <3>1, <3>2, MadeJobs
  <2>4. ASSUME NEW j \in jobs, Finish(j) \/ Replay(j) PROVE Quiet
    <3>1. PICK x : /\ jobs' = (jobs \ {j}) \cup {x}
                   /\ \/ x = [j EXCEPT !.open = FALSE]
                      \/ x = [j EXCEPT !.open = TRUE, !.replayed = TRUE]
      BY <2>4 DEF Finish, Replay
    <3>2. x.id = j.id
      BY <2>1, <3>1, JobExcept DEF CronInv, Shape
    <3>3. QED
      BY <3>1, <3>2
  <2>5. QED
    BY <2>1, <2>2, <2>3, <2>4 DEF Next, SweepStep, ApiStep, Begin, ReadDue, Process, Rollback,
         Create, Delete, SetEnabled, PatchWrite, PatchRead, Tick
<1>2. QED
  BY <1>1, CronInductive, PTL DEF Spec, QuietWhilePaused
=============================================================================
