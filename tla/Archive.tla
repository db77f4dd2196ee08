------------------------------ MODULE Archive -------------------------------
(***************************************************************************)
(* The archiver: finished jobs move with their executions, dead letters    *)
(* and logs to cold tables, expired idempotency keys are pruned.  Several  *)
(* archivers run beside workers that still write, replays of dead letters  *)
(* and submissions that look up their key.                                 *)
(*                                                                         *)
(* Archive is one transaction.  The rows it picked are locked, and so are  *)
(* with them the executions and the dead letter; log lines have no foreign *)
(* key, and a worker may append one at any time.  Times are whole days.    *)
(***************************************************************************)
EXTENDS Integers, FiniteSets

CONSTANTS
  Job,
  Archiver,
  After,       \* Config.After
  DeadAfter,   \* Config.DeadLetter
  KeyLife,     \* days until a key expires
  Hot,         \* days for which Maintain keeps the hot log lines
  Batch,       \* Config.Batch
  MaxTime,     \* bound: days
  MaxGen,      \* bound: replays of a job
  MaxLogs,     \* bound: log lines of a job
  Busy         \* bound: the jobs that log and are replayed

ASSUME ArchiveAssumption ==
  /\ After \in Nat /\ DeadAfter \in Nat /\ KeyLife \in 0 .. After /\ Hot \in Nat
  /\ Batch \in Nat \ {0} /\ MaxTime \in Nat /\ MaxGen \in Nat /\ MaxLogs \in Nat
  /\ Busy \subseteq Job

VARIABLES
  now,
  jobs,    \* Job -> where its row is, status, when created and finished, generation
  execs,   \* Job -> executions in the hot and in the cold table, and one still open
  logs,    \* Job -> its log lines in the hot and in the cold table and how many there have been
  late,    \* Job -> hot lines that came after the others had been moved
  dead,    \* Job -> where its dead letter is, if any
  key,     \* Job -> whether an idempotency key names it
  arch     \* Archiver -> its transaction: the ids it holds, and the lines it moves

vars == <<now, jobs, execs, logs, late, dead, key, arch>>

Line == (1 .. MaxLogs) \X (0 .. MaxTime)  \* a number, and the day of writing

Terminal == {"completed", "cancelled", "dead_letter"}
Idle == [pc |-> "idle", ids |-> {}, lines |-> [j \in Job |-> {}]]
Held(j) == \E a \in Archiver : j \in arch[a].ids

TypeOK ==
  /\ now \in 0 .. MaxTime
  /\ jobs \in [Job -> [at : {"unborn", "hot", "cold"}, status : {"queued", "running"} \cup Terminal,
                       created : 0 .. MaxTime, finished : 0 .. MaxTime, gen : 0 .. MaxGen]]
  /\ \A j \in Job : /\ execs[j].hot \in Nat /\ execs[j].cold \in Nat /\ execs[j].open \in BOOLEAN
                    /\ logs[j].hot \subseteq Line /\ logs[j].cold \subseteq Line
                    /\ logs[j].n \in 0 .. MaxLogs /\ late[j] \subseteq logs[j].hot
  /\ dead \in [Job -> {"none", "hot", "cold"}] /\ key \in [Job -> BOOLEAN]
  /\ \A a \in Archiver : /\ arch[a].pc \in {"idle", "logs", "rest"}
                         /\ Cardinality(arch[a].ids) <= Batch

Init ==
  /\ now = 0
  /\ jobs = [j \in Job |->
       [at |-> "unborn", status |-> "queued", created |-> 0, finished |-> 0, gen |-> 0]]
  /\ execs = [j \in Job |-> [hot |-> 0, cold |-> 0, open |-> FALSE]]
  /\ logs = [j \in Job |-> [hot |-> {}, cold |-> {}, n |-> 0]]
  /\ late = [j \in Job |-> {}]
  /\ dead = [j \in Job |-> "none"] /\ key = [j \in Job |-> FALSE]
  /\ arch = [a \in Archiver |-> Idle]

-----------------------------------------------------------------------------
(* The life of a job.                                                      *)

Submit(j) ==
  /\ jobs[j].at = "unborn"
  /\ jobs' = [jobs EXCEPT ![j].at = "hot", ![j].created = now]
  /\ key' = [key EXCEPT ![j] = TRUE]
  /\ UNCHANGED <<now, execs, logs, late, dead, arch>>

Run(j) ==
  /\ jobs[j].at = "hot" /\ jobs[j].status = "queued"
  /\ jobs' = [jobs EXCEPT ![j].status = "running"]
  /\ execs' = [execs EXCEPT ![j].hot = @ + 1, ![j].open = TRUE]
  /\ UNCHANGED <<now, logs, late, dead, key, arch>>

\* Every way to finish closes the execution in its own transaction.
Finish(j) ==
  /\ jobs[j].at = "hot" /\ jobs[j].status = "running"
  /\ \E s \in Terminal :
       /\ jobs' = [jobs EXCEPT ![j].status = s, ![j].finished = now]
       /\ dead' = [dead EXCEPT ![j] = IF s = "dead_letter" THEN "hot" ELSE @]
  /\ execs' = [execs EXCEPT ![j].open = FALSE]
  /\ UNCHANGED <<now, logs, late, key, arch>>

\* AppendLogs, by a worker that runs the job or has run it
WriteLog(j) ==
  /\ execs[j].hot + execs[j].cold > 0
  /\ j \in Busy /\ logs[j].n < MaxLogs
  /\ LET line == <<logs[j].n + 1, now>>
         isLate == jobs[j].at = "cold" \/ \E a \in Archiver : j \in arch[a].ids /\ arch[a].pc = "rest"
     IN /\ logs' = [logs EXCEPT ![j].hot = @ \cup {line}, ![j].n = @ + 1]
        /\ late' = [late EXCEPT ![j] = IF isLate THEN @ \cup {line} ELSE @]
  /\ UNCHANGED <<now, jobs, execs, dead, key, arch>>

\* Maintain drops the partitions of old lines, and waits for a transaction
\* that has deleted from them.
DropLines ==
  /\ \A a \in Archiver : arch[a].pc # "rest"
  /\ logs' = [j \in Job |-> [logs[j] EXCEPT !.hot = {x \in @ : x[2] >= now - Hot}]]
  /\ late' = [j \in Job |-> late[j] \cap logs'[j].hot]
  /\ UNCHANGED <<now, jobs, execs, dead, key, arch>>

\* replayJob waits for the row; if it has gone there is nothing to replay.
Replay(j) ==
  /\ jobs[j].at = "hot" /\ jobs[j].status = "dead_letter" /\ ~Held(j)
  /\ j \in Busy /\ jobs[j].gen < MaxGen
  /\ jobs' = [jobs EXCEPT ![j].status = "queued", ![j].gen = @ + 1, ![j].finished = 0]
  /\ UNCHANGED <<now, execs, logs, late, dead, key, arch>>

-----------------------------------------------------------------------------
(* The archiver.                                                           *)

\* (mutant) the age is not looked at
OldEnoughAlways(j) == TRUE

OldEnough(j) ==
  /\ jobs[j].finished < now - After
  /\ jobs[j].status = "dead_letter" => jobs[j].finished < now - DeadAfter

\* for update skip locked
Free(j) == ~Held(j)

Finished(j) == jobs[j].status \in Terminal /\ ~execs[j].open

\* (mutant) dead letters are never picked
PickableNotDead ==
  {j \in Job : jobs[j].at = "hot" /\ Finished(j) /\ OldEnough(j) /\ Free(j) /\ dead[j] = "none"}

Pickable == {j \in Job : jobs[j].at = "hot" /\ Finished(j) /\ OldEnough(j) /\ Free(j)}

WithinBatch(S) == Cardinality(S) <= Batch /\ (Cardinality(S) = Batch \/ S = Pickable)

\* pickSQL: the oldest first
Pick(a) ==
  /\ arch[a].pc = "idle"
  /\ \E S \in SUBSET Pickable :
       /\ S # {} /\ WithinBatch(S)
       /\ \A j \in S, k \in Pickable \ S : jobs[j].finished <= jobs[k].finished
       /\ arch' = [arch EXCEPT ![a] = [Idle EXCEPT !.pc = "logs", !.ids = S]]
  /\ UNCHANGED <<now, jobs, execs, logs, late, dead, key>>

\* (mutant) the executions have gone before, and the join finds no line
LinesNone(a, j) == {}

\* moveLogsSQL joins the executions, which are still there.
Lines(a, j) == IF j \in arch[a].ids THEN logs[j].hot ELSE {}

MoveLogs(a) ==
  /\ arch[a].pc = "logs"
  /\ arch' = [arch EXCEPT ![a].pc = "rest", ![a].lines = [j \in Job |-> Lines(a, j)]]
  /\ UNCHANGED <<now, jobs, execs, logs, late, dead, key>>

Moved(e) == [e EXCEPT !.hot = 0, !.cold = @ + e.hot]

\* moveExecsSQL, moveDeadLettersSQL, moveJobsSQL and the commit
MoveRest(a) ==
  LET S == arch[a].ids
  IN /\ arch[a].pc = "rest"
     /\ jobs' = [j \in Job |-> IF j \in S THEN [jobs[j] EXCEPT !.at = "cold"] ELSE jobs[j]]
     /\ execs' = [j \in Job |-> IF j \in S THEN Moved(execs[j]) ELSE execs[j]]
     /\ dead' = [j \in Job |-> IF j \in S /\ dead[j] = "hot" THEN "cold" ELSE dead[j]]
     /\ logs' = [j \in Job |-> [logs[j] EXCEPT !.hot = @ \ arch[a].lines[j],
                                               !.cold = @ \cup arch[a].lines[j]]]
     /\ arch' = [arch EXCEPT ![a] = Idle]
     /\ UNCHANGED <<now, late, key>>

\* An error, or the archiver dies: the transaction is rolled back.
Rollback(a) ==
  /\ arch[a].pc # "idle"
  /\ arch' = [arch EXCEPT ![a] = Idle]
  /\ late' = [j \in Job |-> IF j \in arch[a].ids THEN {} ELSE late[j]]
  /\ UNCHANGED <<now, jobs, execs, logs, dead, key>>

KeyLive(j) == key[j] /\ jobs[j].created + KeyLife > now

\* pruneSQL
Prune ==
  /\ key' = [j \in Job |-> key[j] /\ jobs[j].created + KeyLife >= now]
  /\ UNCHANGED <<now, jobs, execs, logs, late, dead, arch>>

Tick ==
  /\ now < MaxTime
  /\ now' = now + 1
  /\ UNCHANGED <<jobs, execs, logs, late, dead, key, arch>>

Next ==
  \/ \E j \in Job : Submit(j) \/ Run(j) \/ Finish(j) \/ WriteLog(j) \/ Replay(j)
  \/ \E a \in Archiver : Pick(a) \/ MoveLogs(a) \/ MoveRest(a) \/ Rollback(a)
  \/ DropLines \/ Prune \/ Tick

Spec == Init /\ [][Next]_vars

\* Archive is called every minute and goes through in the end.
FairSpec ==
  /\ Spec
  /\ \A a \in Archiver : WF_vars(Pick(a)) /\ SF_vars(MoveLogs(a)) /\ SF_vars(MoveRest(a))

-----------------------------------------------------------------------------
(* Properties.                                                             *)

\* A job and what is known of it are in the same place, never in two and never
\* in none: executions and dead letter are hot while the job is, and cold after
\* (the four moves of Archive, with several archivers and replays).
LedgerMovesWhole ==
  \A j \in Job :
    /\ jobs[j].at = "hot" => execs[j].cold = 0 /\ dead[j] # "cold"
    /\ jobs[j].at = "cold" => execs[j].hot = 0 /\ dead[j] # "hot"

\* What is archived was finished: its execution is closed, and nobody runs it
\* again (pickSQL and its row locks against claims and replays).
ColdIsFinished ==
  \A j \in Job : jobs[j].at = "cold" \/ Held(j) => jobs[j].status \in Terminal /\ ~execs[j].open

\* Of an archived job only those lines stay in the hot table that came after
\* its lines had been moved (moveLogsSQL before moveExecsSQL).
LogsMoveWithJob ==
  \A j \in Job : jobs[j].at = "cold" => logs[j].hot \subseteq late[j]

\* A key that has not expired names a job that can still be loaded: a repeated
\* submission finds its answer (After is not less than the life of a key).
LiveKeyFindsJob == \A j \in Job : KeyLive(j) => jobs[j].at = "hot"

\* A dead letter can be replayed for as long as DeadLetter says (pickSQL).
DeadLettersStay ==
  \A j \in Job : dead[j] = "cold" /\ jobs[j].status = "dead_letter" =>
    jobs[j].finished + DeadAfter < now

\* What holds in every state: the types, a batch within its limit among them, a
\* job in one place with all that is known of it, only when finished, and dead
\* letters for their own term (the moves of Archive, pickSQL).
ArchiveSafe ==
  TypeOK /\ LedgerMovesWhole /\ ColdIsFinished /\ LogsMoveWithJob /\ DeadLettersStay

\* A finished job that is old enough is archived, or replayed.
OldJobsGo == \A j \in Job : (jobs[j].at = "hot" /\ Finished(j) /\ OldEnough(j)) ~>
               (jobs[j].at = "cold" \/ ~Finished(j))
=============================================================================
