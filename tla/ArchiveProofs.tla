---------------------------- MODULE ArchiveProofs ---------------------------
(***************************************************************************)
(* The archiver moves a job whole and only when it is finished and old,    *)
(* for any number of jobs and archivers, any batch and any ages.           *)
(***************************************************************************)
EXTENDS Archive, TLAPS

RowSet ==
  [at : {"unborn", "hot", "cold"}, status : {"queued", "running"} \cup Terminal,
   created : 0 .. MaxTime, finished : 0 .. MaxTime, gen : 0 .. MaxGen]
ExecSet == [hot : Nat, cold : Nat, open : BOOLEAN]
LogSet == [hot : SUBSET Line, cold : SUBSET Line, n : 0 .. MaxLogs]
ArchSet == [pc : {"idle", "logs", "rest"}, ids : SUBSET Job, lines : [Job -> SUBSET Line]]

Types ==
  /\ now \in 0 .. MaxTime
  /\ jobs \in [Job -> RowSet] /\ execs \in [Job -> ExecSet] /\ logs \in [Job -> LogSet]
  /\ late \in [Job -> SUBSET Line]
  /\ dead \in [Job -> {"none", "hot", "cold"}] /\ key \in [Job -> BOOLEAN]
  /\ arch \in [Archiver -> ArchSet]

\* What a job's row says, what is stored of it, and where.
PlaceInv(j) ==
  /\ jobs[j].at = "unborn" => /\ execs[j].hot = 0 /\ execs[j].cold = 0 /\ ~execs[j].open
                              /\ dead[j] = "none" /\ ~key[j] /\ jobs[j].status = "queued"
  /\ jobs[j].at = "hot" => execs[j].cold = 0 /\ dead[j] # "cold"
  /\ jobs[j].at = "cold" => execs[j].hot = 0 /\ dead[j] # "hot"
  /\ jobs[j].at = "hot" /\ jobs[j].status # "running" => ~execs[j].open
  /\ jobs[j].status \in Terminal => jobs[j].created <= jobs[j].finished
  /\ jobs[j].created <= now

\* A job is old enough to go.
Aged(j) ==
  /\ jobs[j].status \in Terminal /\ ~execs[j].open
  /\ jobs[j].finished < now - After
  /\ jobs[j].status = "dead_letter" => jobs[j].finished < now - DeadAfter

\* The jobs an archiver holds are hot, finished and old, and held by it alone.
HeldInv ==
  /\ \A a \in Archiver : \A j \in arch[a].ids : jobs[j].at = "hot" /\ Aged(j)
  /\ \A a, b \in Archiver : a # b => arch[a].ids \cap arch[b].ids = {}
  /\ \A a \in Archiver : arch[a].pc = "idle" => arch[a].ids = {}

ColdInv == \A j \in Job : jobs[j].at = "cold" => Aged(j)

ArchiveInv == Types /\ (\A j \in Job : PlaceInv(j)) /\ HeldInv /\ ColdInv

LEMMA ArchiveInit == Init => ArchiveInv
<1>1. SUFFICES ASSUME Init PROVE ArchiveInv
  OBVIOUS
<1>2. 0 \in 0 .. MaxTime /\ 0 \in 0 .. MaxGen /\ 0 \in 0 .. MaxLogs
  BY ArchiveAssumption
<1>3. Types
  BY <1>1, <1>2 DEF Init, Types, RowSet, ExecSet, LogSet, ArchSet, Idle
<1>4. QED
  BY <1>1, <1>3 DEF Init, ArchiveInv, PlaceInv, HeldInv, ColdInv, Idle, Terminal

\* Steps that write the row of one job that is hot and not held, or unborn.
LEMMA ArchiveJobStep ==
  ASSUME ArchiveInv, NEW j \in Job, Submit(j) \/ Run(j) \/ Finish(j) \/ Replay(j)
  PROVE  ArchiveInv'
<1> USE DEF ArchiveInv
<1>1. /\ UNCHANGED <<now, logs, late, arch>>
      /\ \A k \in Job \ {j} : jobs'[k] = jobs[k] /\ execs'[k] = execs[k] /\ dead'[k] = dead[k]
                              /\ key'[k] = key[k]
  BY DEF Types, Submit, Run, Finish, Replay
<1>2. jobs[j].at # "cold" /\ ~Held(j) /\ jobs'[j].at # "cold"
  <2>1. CASE Submit(j)
    BY <2>1 DEF Submit, Held, HeldInv, Types, RowSet, ArchSet
  <2>2. CASE Run(j)
    BY <2>2 DEF Run, Held, HeldInv, Aged, Terminal, Types, RowSet, ArchSet
  <2>3. CASE Finish(j)
    BY <2>3 DEF Finish, Held, HeldInv, Aged, Terminal, Types, RowSet, ArchSet
  <2>4. CASE Replay(j)
    BY <2>4 DEF Replay, Types, RowSet
  <2>5. QED
    BY <2>1, <2>2, <2>3, <2>4
<1>3. Types'
  <2>1. CASE Submit(j)
    <3>1. [jobs[j] EXCEPT !.at = "hot", !.created = now] \in RowSet
      BY DEF Types, RowSet
    <3>2. jobs' \in [Job -> RowSet] /\ key' \in [Job -> BOOLEAN]
      BY <2>1, <3>1 DEF Submit, Types
    <3>3. QED
      BY <2>1, <3>2 DEF Submit, Types
  <2>2. CASE Run(j)
    <3>1. [jobs[j] EXCEPT !.status = "running"] \in RowSet
      BY DEF Types, RowSet
    <3>2. PICK n \in Nat : n = execs[j].hot + 1
      BY DEF Types, ExecSet
    <3>6. [execs[j] EXCEPT !.hot = n, !.open = TRUE] \in ExecSet
      BY DEF Types, ExecSet
    <3>3. jobs' \in [Job -> RowSet]
      BY <2>2, <3>1 DEF Run, Types
    <3>4. execs' \in [Job -> ExecSet]
      BY <2>2, <3>2, <3>6 DEF Run, Types
    <3>5. QED
      BY <2>2, <3>3, <3>4 DEF Run, Types
  <2>3. CASE Finish(j)
    <3>1. PICK s \in Terminal :
            /\ jobs' = [jobs EXCEPT ![j].status = s, ![j].finished = now]
            /\ dead' = [dead EXCEPT ![j] = IF s = "dead_letter" THEN "hot" ELSE @]
      BY <2>3 DEF Finish
    <3>2. [jobs[j] EXCEPT !.status = s, !.finished = now] \in RowSet
      BY DEF Types, RowSet
    <3>3. [execs[j] EXCEPT !.open = FALSE] \in ExecSet
      BY DEF Types, ExecSet
    <3>4. jobs' \in [Job -> RowSet]
      BY <3>1, <3>2 DEF Types
    <3>5. execs' \in [Job -> ExecSet]
      BY <2>3, <3>3 DEF Finish, Types
    <3>6. dead' \in [Job -> {"none", "hot", "cold"}]
      BY <3>1 DEF Types
    <3>7. QED
      BY <2>3, <3>4, <3>5, <3>6 DEF Finish, Types
  <2>4. CASE Replay(j)
    BY <2>4, ArchiveAssumption DEF Replay, Types, RowSet
  <2>5. QED
    BY <2>1, <2>2, <2>3, <2>4
<1>4. PlaceInv(j)'
  <2>1. CASE Submit(j)
    BY <2>1 DEF Submit, PlaceInv, Types, RowSet, ExecSet, Terminal
  <2>2. CASE Run(j)
    BY <2>2 DEF Run, PlaceInv, Types, RowSet, ExecSet, Terminal
  <2>3. CASE Finish(j)
    BY <2>3 DEF Finish, PlaceInv, Types, RowSet, ExecSet, Terminal
  <2>4. CASE Replay(j)
    BY <2>4 DEF Replay, PlaceInv, Types, RowSet, ExecSet, Terminal
  <2>5. QED
    BY <2>1, <2>2, <2>3, <2>4
<1>5. \A k \in Job : PlaceInv(k)'
  BY <1>1, <1>4 DEF PlaceInv
<1>6. HeldInv'
  BY <1>1, <1>2 DEF HeldInv, Held, Aged, Types, ArchSet
<1>7. ColdInv'
  BY <1>1, <1>2 DEF ColdInv, Aged
<1>8. QED
  BY <1>3, <1>5, <1>6, <1>7

\* Log lines do not bear on where a job is.
LEMMA ArchiveLogStep ==
  ASSUME ArchiveInv, DropLines \/ \E j \in Job : WriteLog(j)
  PROVE  ArchiveInv'
<1> USE DEF ArchiveInv
<1>1. UNCHANGED <<now, jobs, execs, dead, key, arch>>
  BY DEF DropLines, WriteLog
<1>2. logs' \in [Job -> LogSet] /\ late' \in [Job -> SUBSET Line]
  <2>1. CASE DropLines
    BY <2>1 DEF DropLines, Types, LogSet
  <2>2. ASSUME NEW j \in Job, WriteLog(j) PROVE logs' \in [Job -> LogSet] /\ late' \in [Job -> SUBSET Line]
    <3>1. <<logs[j].n + 1, now>> \in Line /\ logs[j].n + 1 \in 0 .. MaxLogs
      BY <2>2, ArchiveAssumption DEF WriteLog, Types, LogSet, Line
    <3>2. QED
      BY <2>2, <3>1 DEF WriteLog, Types, LogSet
  <2>3. QED
    BY <2>1, <2>2
<1>3. Types'
  BY <1>1, <1>2 DEF Types
<1>4. QED
  BY <1>1, <1>3 DEF PlaceInv, HeldInv, ColdInv, Aged

LEMMA ArchivePick ==
  ASSUME ArchiveInv, NEW a \in Archiver, Pick(a)
  PROVE  ArchiveInv'
<1> USE DEF ArchiveInv
<1>1. PICK S \in SUBSET Pickable :
        arch' = [arch EXCEPT ![a] = [pc |-> "logs", ids |-> S, lines |-> [j \in Job |-> {}]]]
  BY DEF Pick, Idle
<1>2. UNCHANGED <<now, jobs, execs, logs, late, dead, key>> /\ arch[a].pc = "idle"
  BY DEF Pick
<1>3. \A j \in S : j \in Job /\ jobs[j].at = "hot" /\ Aged(j) /\ ~Held(j)
  BY DEF Pickable, Finished, OldEnough, Free, Aged
<1>4. Types'
  BY <1>1, <1>2, <1>3 DEF Types, ArchSet
<1>5. \A b \in Archiver : arch'[b] = IF b = a THEN [pc |-> "logs", ids |-> S, lines |-> [j \in Job |-> {}]] ELSE arch[b]
  BY <1>1 DEF Types
<1>6. HeldInv'
  BY <1>2, <1>3, <1>5 DEF HeldInv, Held, Aged
<1>7. QED
  BY <1>2, <1>4, <1>6 DEF PlaceInv, ColdInv, Aged

LEMMA ArchiveMoveLogs ==
  ASSUME ArchiveInv, NEW a \in Archiver, MoveLogs(a)
  PROVE  ArchiveInv'
<1> USE DEF ArchiveInv
<1>1. UNCHANGED <<now, jobs, execs, logs, late, dead, key>> /\ arch[a].pc = "logs"
  BY DEF MoveLogs
<1>2. [j \in Job |-> Lines(a, j)] \in [Job -> SUBSET Line]
  BY DEF Lines, Types, LogSet
<1>3. arch' \in [Archiver -> ArchSet]
  <2>1. [arch[a] EXCEPT !.pc = "rest", !.lines = [j \in Job |-> Lines(a, j)]] \in ArchSet
    BY <1>2 DEF Types, ArchSet
  <2>2. QED
    BY <2>1 DEF MoveLogs, Types
<1>4. \A b \in Archiver : arch'[b].ids = arch[b].ids /\ (arch'[b].pc = "idle" => arch[b].pc = "idle")
  BY <1>2 DEF MoveLogs, Types, ArchSet
<1>5. HeldInv'
  BY <1>1, <1>4 DEF HeldInv, Aged
<1>6. QED
  BY <1>1, <1>3, <1>5 DEF Types, PlaceInv, ColdInv, Aged

LEMMA MovedFields ==
  ASSUME NEW e \in ExecSet
  PROVE  Moved(e) \in ExecSet /\ Moved(e).hot = 0 /\ Moved(e).open = e.open
<1>1. Moved(e).hot = 0 /\ Moved(e).open = e.open
  BY DEF Moved, ExecSet
<1>2. PICK n \in Nat : n = e.cold + e.hot
  BY DEF ExecSet
<1>3. [e EXCEPT !.hot = 0, !.cold = n] \in ExecSet
  BY DEF ExecSet
<1>4. QED
  BY <1>1, <1>2, <1>3 DEF Moved

LEMMA ColdRow ==
  ASSUME NEW r \in RowSet, NEW x, x = [r EXCEPT !.at = "cold"]
  PROVE  /\ x \in RowSet /\ x.at = "cold" /\ x.status = r.status
         /\ x.created = r.created /\ x.finished = r.finished
  BY DEF RowSet

LEMMA ArchiveMoveRest ==
  ASSUME ArchiveInv, NEW a \in Archiver, MoveRest(a)
  PROVE  ArchiveInv'
<1> USE DEF ArchiveInv
<1> DEFINE S == arch[a].ids
<1>1. /\ S \subseteq Job /\ UNCHANGED <<now, late, key>>
      /\ \A j \in S : jobs[j].at = "hot" /\ Aged(j)
  BY DEF MoveRest, HeldInv, Types, ArchSet
<1>2. \A j \in Job : /\ Moved(execs[j]) \in ExecSet /\ Moved(execs[j]).hot = 0
                     /\ Moved(execs[j]).open = execs[j].open
  BY MovedFields DEF Types
<1>3. \A j \in S : /\ jobs'[j] = [jobs[j] EXCEPT !.at = "cold"] /\ execs'[j] = Moved(execs[j])
                   /\ dead'[j] # "hot"
  BY <1>1 DEF MoveRest
<1>4. \A j \in Job \ S : jobs'[j] = jobs[j] /\ execs'[j] = execs[j] /\ dead'[j] = dead[j]
  BY DEF MoveRest
<1>5. \A b \in Archiver :
        arch'[b] = IF b = a THEN [pc |-> "idle", ids |-> {}, lines |-> [j \in Job |-> {}]] ELSE arch[b]
  BY DEF MoveRest, Types, Idle
<1>6. Types'
  <2>1. jobs' \in [Job -> RowSet]
    BY ColdRow DEF MoveRest, Types
  <2>2. execs' \in [Job -> ExecSet]
    BY <1>2 DEF MoveRest, Types
  <2>3. logs' \in [Job -> LogSet] /\ dead' \in [Job -> {"none", "hot", "cold"}]
    <3>1. dead' \in [Job -> {"none", "hot", "cold"}]
      BY DEF MoveRest, Types
    <3>2. \A j \in Job : arch[a].lines[j] \subseteq Line /\ logs[j] \in LogSet
      BY DEF Types, ArchSet
    <3>3. ASSUME NEW j \in Job
          PROVE  [logs[j] EXCEPT !.hot = logs[j].hot \ arch[a].lines[j],
                                 !.cold = logs[j].cold \cup arch[a].lines[j]] \in LogSet
      BY <3>2 DEF LogSet
    <3>4. QED
      BY <3>1, <3>3 DEF MoveRest
  <2>4. arch' \in [Archiver -> ArchSet]
    BY DEF MoveRest, Types, ArchSet, Idle
  <2>5. QED
    BY <1>1, <2>1, <2>2, <2>3, <2>4 DEF Types
<1>7. \A j \in S : /\ jobs'[j].at = "cold" /\ jobs'[j].status = jobs[j].status
                   /\ jobs'[j].created = jobs[j].created /\ jobs'[j].finished = jobs[j].finished
                   /\ execs'[j].hot = 0 /\ execs'[j].open = execs[j].open
  <2>1. SUFFICES ASSUME NEW j \in S
                 PROVE  /\ jobs'[j].at = "cold" /\ jobs'[j].status = jobs[j].status
                        /\ jobs'[j].created = jobs[j].created
                        /\ jobs'[j].finished = jobs[j].finished
                        /\ execs'[j].hot = 0 /\ execs'[j].open = execs[j].open
    OBVIOUS
  <2>2. j \in Job /\ jobs[j] \in RowSet /\ jobs'[j] = [jobs[j] EXCEPT !.at = "cold"]
    BY <1>1, <1>3 DEF Types
  <2>3. execs'[j].hot = 0 /\ execs'[j].open = execs[j].open
    BY <2>2, <1>2, <1>3
  <2>4. QED
    BY <2>2, <2>3, ColdRow
<1>8. \A j \in Job : PlaceInv(j)'
  <2>1. ASSUME NEW j \in S PROVE PlaceInv(j)'
    BY <2>1, <1>1, <1>3, <1>7 DEF PlaceInv, Aged
  <2>2. ASSUME NEW j \in Job \ S PROVE PlaceInv(j)'
    BY <2>2, <1>1, <1>4 DEF PlaceInv
  <2>3. QED
    BY <2>1, <2>2
<1>9. HeldInv'
  <2>1. \A b \in Archiver \ {a} : \A j \in arch[b].ids : j \in Job \ S
    BY DEF HeldInv, Types, ArchSet
  <2>2. \A b \in Archiver : \A j \in arch'[b].ids : (jobs[j].at = "hot" /\ Aged(j))'
    BY <1>1, <1>4, <1>5, <2>1 DEF HeldInv, Aged
  <2>3. QED
    BY <1>5, <2>2 DEF HeldInv
<1>10. ColdInv'
  BY <1>1, <1>4, <1>7 DEF ColdInv, Aged
<1>11. QED
  BY <1>6, <1>8, <1>9, <1>10

LEMMA ArchiveRollback ==
  ASSUME ArchiveInv, NEW a \in Archiver, Rollback(a)
  PROVE  ArchiveInv'
<1> USE DEF ArchiveInv
<1>1. UNCHANGED <<now, jobs, execs, logs, dead, key>>
  BY DEF Rollback
<1>2. \A b \in Archiver :
        arch'[b] = IF b = a THEN [pc |-> "idle", ids |-> {}, lines |-> [j \in Job |-> {}]] ELSE arch[b]
  BY DEF Rollback, Types, Idle
<1>3. Types'
  BY <1>1 DEF Rollback, Types, ArchSet, Idle
<1>4. HeldInv'
  BY <1>1, <1>2 DEF HeldInv, Aged
<1>5. QED
  BY <1>1, <1>3, <1>4 DEF PlaceInv, ColdInv, Aged

LEMMA ArchiveTimeStep ==
  ASSUME ArchiveInv, Prune \/ Tick
  PROVE  ArchiveInv'
<1> USE DEF ArchiveInv
<1>1. /\ UNCHANGED <<jobs, execs, logs, late, dead, arch>>
      /\ now' \in 0 .. MaxTime /\ now <= now'
      /\ key' \in [Job -> BOOLEAN] /\ \A j \in Job : key'[j] => key[j]
  <2>1. CASE Prune
    BY <2>1 DEF Prune, Types
  <2>2. CASE Tick
    BY <2>2, ArchiveAssumption DEF Tick, Types
  <2>3. QED
    BY <2>1, <2>2
<1>2. Types'
  BY <1>1 DEF Types
<1>3. \A j \in Job : jobs[j].created \in Int /\ jobs[j].finished \in Int
  BY DEF Types, RowSet
<1>4. \A j \in Job : Aged(j) => Aged(j)'
  BY <1>1, <1>3, ArchiveAssumption DEF Aged, Types
<1>5. \A j \in Job : PlaceInv(j)'
  BY <1>1, <1>3 DEF PlaceInv, Types
<1>6. HeldInv' /\ ColdInv'
  BY <1>1, <1>4 DEF HeldInv, ColdInv, Types, ArchSet
<1>7. QED
  BY <1>2, <1>5, <1>6

LEMMA ArchiveStutter == ArchiveInv /\ UNCHANGED vars => ArchiveInv'
  BY DEF ArchiveInv, vars, Types, PlaceInv, HeldInv, ColdInv, Aged

LEMMA ArchiveNext == ArchiveInv /\ [Next]_vars => ArchiveInv'
<1>1. SUFFICES ASSUME ArchiveInv, [Next]_vars PROVE ArchiveInv'
  OBVIOUS
<1>2. ASSUME NEW j \in Job, Submit(j) \/ Run(j) \/ Finish(j) \/ WriteLog(j) \/ Replay(j)
      PROVE  ArchiveInv'
  BY <1>1, <1>2, ArchiveJobStep, ArchiveLogStep
<1>3. ASSUME NEW a \in Archiver, Pick(a) \/ MoveLogs(a) \/ MoveRest(a) \/ Rollback(a)
      PROVE  ArchiveInv'
  BY <1>1, <1>3, ArchivePick, ArchiveMoveLogs, ArchiveMoveRest, ArchiveRollback
<1>4. CASE DropLines \/ Prune \/ Tick
  BY <1>1, <1>4, ArchiveLogStep, ArchiveTimeStep
<1>5. CASE UNCHANGED vars
  BY <1>1, <1>5, ArchiveStutter
<1>6. QED
  BY <1>1, <1>2, <1>3, <1>4, <1>5 DEF Next

\* The places of a job, its executions and its dead letter, the jobs held by
\* archivers and their ages fit together at every moment.
THEOREM ArchiveInductive == Spec => []ArchiveInv
  BY ArchiveInit, ArchiveNext, PTL DEF Spec

\* A job and what is known of it are in the same place (the four moves of
\* Archive, with several archivers, rollbacks and replays).
THEOREM LedgerWhole == Spec => []LedgerMovesWhole
<1>1. ArchiveInv => LedgerMovesWhole
  BY DEF ArchiveInv, PlaceInv, LedgerMovesWhole
<1>2. QED
  BY <1>1, ArchiveInductive, PTL

\* Only finished jobs are archived, and no archived job runs again (pickSQL).
THEOREM ColdFinished == Spec => []ColdIsFinished
<1>1. ArchiveInv => ColdIsFinished
  BY DEF ArchiveInv, HeldInv, ColdInv, Aged, ColdIsFinished, Held, Types, ArchSet
<1>2. QED
  BY <1>1, ArchiveInductive, PTL

\* A key that has not expired names a job that can be loaded, because a key does
\* not outlive After (pickSQL against the lookup of submitJob).
THEOREM LiveKeysFind == Spec => []LiveKeyFindsJob
<1>1. ArchiveInv => LiveKeyFindsJob
  <2>1. SUFFICES ASSUME ArchiveInv, NEW j \in Job, KeyLive(j) PROVE jobs[j].at = "hot"
    BY DEF LiveKeyFindsJob
  <2>2. jobs[j].at # "unborn"
    BY <2>1 DEF ArchiveInv, PlaceInv, KeyLive
  <2>3. jobs[j].at # "cold"
    <3>1. SUFFICES ASSUME jobs[j].at = "cold" PROVE FALSE
      OBVIOUS
    <3>2. jobs[j].created <= jobs[j].finished /\ jobs[j].finished < now - After
      BY <2>1, <3>1 DEF ArchiveInv, PlaceInv, ColdInv, Aged
    <3>3. jobs[j].created \in Int /\ jobs[j].finished \in Int /\ now \in Int
      BY <2>1 DEF ArchiveInv, Types, RowSet
    <3>4. jobs[j].created + KeyLife > now
      BY <2>1 DEF KeyLive
    <3>5. QED
      BY <3>2, <3>3, <3>4, ArchiveAssumption
  <2>4. QED
    BY <2>1, <2>2, <2>3 DEF ArchiveInv, Types, RowSet
<1>2. QED
  BY <1>1, ArchiveInductive, PTL

\* An archived dead letter is older than DeadLetter (pickSQL).
THEOREM DeadLettersKept == Spec => []DeadLettersStay
<1>1. ArchiveInv => DeadLettersStay
  <2>1. SUFFICES ASSUME ArchiveInv, NEW j \in Job, dead[j] = "cold", jobs[j].status = "dead_letter"
                 PROVE  jobs[j].finished + DeadAfter < now
    BY DEF DeadLettersStay
  <2>2. jobs[j].at = "cold"
    BY <2>1 DEF ArchiveInv, PlaceInv, Types, RowSet
  <2>3. jobs[j].finished < now - DeadAfter /\ jobs[j].finished \in Int /\ now \in Int
    BY <2>1, <2>2 DEF ArchiveInv, ColdInv, Aged, Types, RowSet
  <2>4. QED
    BY <2>3, ArchiveAssumption
<1>2. QED
  BY <1>1, ArchiveInductive, PTL
=============================================================================
