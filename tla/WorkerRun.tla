----------------------------- MODULE WorkerRun ------------------------------
(***************************************************************************)
(* One worker process from its start to its exit: the main goroutine of    *)
(* Run, a goroutine runOne with its lease loop for every claimed job, the  *)
(* completions channel and completeLoop, the handlers' log lines, and the  *)
(* drain that SIGTERM starts.                                              *)
(*                                                                         *)
(* The row of a job is kept as this worker sees it: its status, and        *)
(* whether the fence is still the worker's (mine).  What the rest of the   *)
(* system does with a row is JobCore's subject.  A write that is retried   *)
(* (startJob, extend, snooze, report, flush) is one step with its last     *)
(* answer, which may be an error.  Claim asks for the types that have a    *)
(* handler, so the missing handler of runOne does not occur.               *)
(***************************************************************************)
EXTENDS Integers, Sequences, FiniteSets

CONSTANTS
  Job,
  Concurrency,
  CompleteBatch,
  MaxLines        \* maxPending of a log buffer

ASSUME WorkerAssumption ==
  Concurrency \in Nat \ {0} /\ CompleteBatch \in Nat \ {0} /\ MaxLines \in Nat

VARIABLES
  row,       \* Job -> status of the job
  mine,      \* Job -> whether this worker's fence is the row's
  state,     \* workers.state
  main,      \* where Run is
  stopped,   \* stopCtx is cancelled
  aborted,   \* runCtx is cancelled
  go,        \* Job -> where its runOne is
  result,    \* Job -> what the handler returned
  lease,     \* Job -> where its leaseLoop is
  fenced,    \* Job -> the flag of runOne
  lines,     \* Job -> lines in the log buffer
  taken,     \* Job -> lines taken by the lease loop and not yet written
  chan,      \* completions
  closed,
  loop,      \* where completeLoop is
  buf,       \* its buffer
  dropped    \* (history) the jobs of a flush that failed

vars == <<row, mine, state, main, stopped, aborted, go, result, lease, fenced, lines, taken,
          chan, closed, loop, buf, dropped>>

rowVars == <<row, mine>>
mainVars == <<state, main, stopped, aborted>>
goVars == <<go, result, lease, fenced, lines, taken>>
loopVars == <<chan, closed, loop, buf, dropped>>

Alive(j) == go[j] \notin {"none", "gone"}

TypeOK ==
  /\ row \in [Job -> {"queued", "claimed", "running", "completed", "retry_wait", "scheduled"}]
  /\ mine \in [Job -> BOOLEAN] /\ fenced \in [Job -> BOOLEAN]
  /\ state \in {"active", "draining", "dead"}
  /\ main \in {"announce", "check", "claim", "wait", "drain", "aborting", "close", "flushing",
               "exit"}
  /\ stopped \in BOOLEAN /\ aborted \in BOOLEAN /\ closed \in BOOLEAN
  /\ go \in [Job -> {"none", "begin", "start", "handler", "returned", "logs", "send", "snooze",
                     "report", "probe", "gone"}]
  /\ result \in [Job -> {"none", "ok", "error", "snooze"}]
  /\ lease \in [Job -> {"none", "ticking", "writing", "extending", "done"}]
  /\ lines \in [Job -> 0 .. MaxLines] /\ taken \in [Job -> 0 .. MaxLines]
  /\ Len(chan) <= 2 * CompleteBatch /\ Len(buf) <= CompleteBatch
  /\ loop \in {"select", "flush", "last", "exit"} /\ dropped \subseteq Job

Init ==
  /\ row = [j \in Job |-> "queued"] /\ mine = [j \in Job |-> FALSE]
  /\ state = "active" /\ main = "announce" /\ stopped = FALSE /\ aborted = FALSE
  /\ go = [j \in Job |-> "none"] /\ result = [j \in Job |-> "none"]
  /\ lease = [j \in Job |-> "none"] /\ fenced = [j \in Job |-> FALSE]
  /\ lines = [j \in Job |-> 0] /\ taken = [j \in Job |-> 0]
  /\ chan = <<>> /\ closed = FALSE /\ loop = "select" /\ buf = <<>> /\ dropped = {}

-----------------------------------------------------------------------------
(* Run.                                                                    *)

Goes(pc) == main' = pc /\ UNCHANGED <<state, stopped, aborted>>

\* announce; without it Run returns at once and nothing was deferred yet.
Announce ==
  /\ main = "announce"
  /\ Goes("check") \/ Goes("exit")
  /\ UNCHANGED <<rowVars, goVars, loopVars>>

Sigterm ==
  /\ ~stopped
  /\ stopped' = TRUE
  /\ UNCHANGED <<rowVars, state, main, aborted, goVars, loopVars>>

\* retire is tried once and its error is dropped.
Retired(s) == state' = s \/ UNCHANGED state

\* The condition of the claim loop, and retire("draining") behind the loop.
Check ==
  /\ main = "check"
  /\ \/ ~stopped /\ Goes("claim")
     \/ stopped /\ main' = "drain" /\ Retired("draining") /\ UNCHANGED <<stopped, aborted>>
  /\ UNCHANGED <<rowVars, goVars, loopVars>>

Free == Concurrency - Cardinality({j \in Job : Alive(j)})

\* Claim, and a goroutine for every job it returns.
ClaimJobs ==
  /\ main = "claim"
  /\ \E S \in SUBSET {j \in Job : row[j] = "queued"} :
       /\ S # {} => Cardinality(S) <= Free
       /\ row' = [j \in Job |-> IF j \in S THEN "claimed" ELSE row[j]]
       /\ mine' = [j \in Job |-> mine[j] \/ j \in S]
       /\ go' = [j \in Job |-> IF j \in S THEN "begin" ELSE go[j]]
  /\ Goes("wait")
  /\ UNCHANGED <<result, lease, fenced, lines, taken, loopVars>>

\* wait: the poll, a wake-up or the signal
WaitOver ==
  /\ main = "wait"
  /\ Goes("check")
  /\ UNCHANGED <<rowVars, goVars, loopVars>>

AllDone == \A j \in Job : ~Alive(j)

Drained ==
  /\ main = "drain" /\ AllDone
  /\ Goes("close")
  /\ UNCHANGED <<rowVars, goVars, loopVars>>

\* (mutant) the handlers are not told
DrainTimeoutSilent ==
  /\ main = "drain"
  /\ main' = "aborting"
  /\ UNCHANGED <<rowVars, state, stopped, aborted, goVars, loopVars>>

\* cfg.Drain has passed.
DrainTimeout ==
  /\ main = "drain"
  /\ aborted' = TRUE /\ main' = "aborting"
  /\ UNCHANGED <<rowVars, state, stopped, goVars, loopVars>>

Aborted ==
  /\ main = "aborting" /\ AllDone
  /\ Goes("close")
  /\ UNCHANGED <<rowVars, goVars, loopVars>>

CloseCompletions ==
  /\ main = "close"
  /\ closed' = TRUE
  /\ Goes("flushing")
  /\ UNCHANGED <<rowVars, goVars, chan, loop, buf, dropped>>

\* <-completed, and the deferred calls: retire("dead") and abort
Exit ==
  /\ main = "flushing" /\ loop = "exit"
  /\ main' = "exit" /\ Retired("dead") /\ aborted' = TRUE
  /\ UNCHANGED <<rowVars, stopped, goVars, loopVars>>

-----------------------------------------------------------------------------
(* runOne.                                                                 *)

At(j, pc) == go[j] = pc
Step(j, pc) == go' = [go EXCEPT ![j] = pc]

\* A job claimed while the signal came stays claimed.
Begin(j) ==
  /\ At(j, "begin")
  /\ Step(j, IF stopped THEN "gone" ELSE "start")
  /\ UNCHANGED <<rowVars, mainVars, result, lease, fenced, lines, taken, loopVars>>

\* startJob: started; or fenced; or failed, perhaps after it was applied
StartJob(j) ==
  /\ At(j, "start")
  /\ \/ /\ mine[j] /\ ~aborted
        /\ row' = [row EXCEPT ![j] = "running"]
        /\ Step(j, "handler") /\ lease' = [lease EXCEPT ![j] = "ticking"]
     \/ /\ ~mine[j]
        /\ Step(j, "gone") /\ UNCHANGED <<row, lease>>
     \/ /\ mine[j]
        /\ row' = row \/ row' = [row EXCEPT ![j] = "running"]
        /\ Step(j, "gone") /\ UNCHANGED lease
  /\ UNCHANGED <<mine, mainVars, result, fenced, lines, taken, loopVars>>

Room(j) == lines[j] < MaxLines

\* logbuf.add; lines beyond the limit are dropped.
HandlerLogs(j) ==
  /\ At(j, "handler") /\ Room(j)
  /\ lines' = [lines EXCEPT ![j] = @ + 1]
  /\ UNCHANGED <<rowVars, mainVars, go, result, lease, fenced, taken, loopVars>>

\* call, with a panic turned into an error; then cancelJob
HandlerReturns(j) ==
  /\ At(j, "handler")
  /\ \E r \in {"ok", "error", "snooze"} : result' = [result EXCEPT ![j] = r]
  /\ Step(j, "returned")
  /\ UNCHANGED <<rowVars, mainVars, lease, fenced, lines, taken, loopVars>>

\* (mutant) runOne does not wait for its lease loop
ExtDoneAlways(j) == TRUE

\* <-extDone
ExtDone(j) == lease[j] = "done"

LeaseEnded(j) ==
  /\ At(j, "returned") /\ ExtDone(j)
  /\ Step(j, "logs")
  /\ UNCHANGED <<rowVars, mainVars, result, lease, fenced, lines, taken, loopVars>>

\* What runOne does with the handler's result, in the order of its checks.
Outcome(j) ==
  IF fenced[j] THEN "probe"
  ELSE IF result[j] = "ok" THEN "send"
  ELSE IF result[j] = "snooze" THEN "snooze"
  ELSE IF aborted THEN "gone" ELSE "report"

\* logbuf.take, of the last lines
LastLines(j) == lines' = [lines EXCEPT ![j] = 0]

\* writeLogs
FinalLogs(j) ==
  /\ At(j, "logs")
  /\ LastLines(j)
  /\ Step(j, Outcome(j))
  /\ UNCHANGED <<rowVars, mainVars, result, lease, fenced, taken, loopVars>>

\* completions <- finished; it blocks while the channel is full.
SendDone(j) ==
  /\ At(j, "send") /\ ~closed /\ Len(chan) < 2 * CompleteBatch
  /\ chan' = Append(chan, j)
  /\ Step(j, "gone")
  /\ UNCHANGED <<rowVars, mainVars, result, lease, fenced, lines, taken, closed, loop, buf, dropped>>

\* snooze, report
Written(j, pc, s) ==
  /\ At(j, pc)
  /\ \/ mine[j] /\ row' = [row EXCEPT ![j] = s] /\ mine' = [mine EXCEPT ![j] = FALSE]
     \/ UNCHANGED rowVars
  /\ Step(j, "gone")
  /\ UNCHANGED <<mainVars, result, lease, fenced, lines, taken, loopVars>>

SnoozeJob(j) == Written(j, "snooze", "scheduled")
Report(j) == Written(j, "report", "retry_wait")

\* probe finds out why; the execution has been closed by who took the job.
Probe(j) ==
  /\ At(j, "probe")
  /\ Step(j, "gone")
  /\ UNCHANGED <<rowVars, mainVars, result, lease, fenced, lines, taken, loopVars>>

\* jobCtx is cancelled.
CtxDone(j) == aborted \/ fenced[j] \/ go[j] # "handler"

\* leaseLoop: a tick takes the lines, writes them, then extends the lease.
LeaseTick(j) ==
  /\ lease[j] = "ticking"
  /\ lines' = [lines EXCEPT ![j] = 0] /\ taken' = [taken EXCEPT ![j] = lines[j]]
  /\ lease' = [lease EXCEPT ![j] = "writing"]
  /\ UNCHANGED <<rowVars, mainVars, go, result, fenced, loopVars>>

LeaseWrites(j) ==
  /\ lease[j] = "writing"
  /\ taken' = [taken EXCEPT ![j] = 0]
  /\ lease' = [lease EXCEPT ![j] = "extending"]
  /\ UNCHANGED <<rowVars, mainVars, go, result, fenced, lines, loopVars>>

Extend(j) ==
  /\ lease[j] = "extending"
  /\ \/ mine[j] /\ lease' = [lease EXCEPT ![j] = "ticking"] /\ UNCHANGED fenced
     \/ /\ ~mine[j]
        /\ lease' = [lease EXCEPT ![j] = "done"] /\ fenced' = [fenced EXCEPT ![j] = TRUE]
     \/ /\ lease' = [lease EXCEPT ![j] = IF CtxDone(j) THEN "done" ELSE "ticking"]
        /\ UNCHANGED fenced
  /\ UNCHANGED <<rowVars, mainVars, go, result, lines, taken, loopVars>>

LeaseStops(j) ==
  /\ lease[j] = "ticking" /\ CtxDone(j)
  /\ lease' = [lease EXCEPT ![j] = "done"]
  /\ UNCHANGED <<rowVars, mainVars, go, result, fenced, lines, taken, loopVars>>

\* The job is reaped or cancelled.
LoseJob(j) ==
  /\ mine[j] /\ row[j] \in {"claimed", "running"}
  /\ mine' = [mine EXCEPT ![j] = FALSE] /\ row' = [row EXCEPT ![j] = "retry_wait"]
  /\ UNCHANGED <<mainVars, goVars, loopVars>>

-----------------------------------------------------------------------------
(* completeLoop.                                                           *)

Receive ==
  /\ loop = "select" /\ chan # <<>>
  /\ buf' = Append(buf, Head(chan)) /\ chan' = Tail(chan)
  /\ loop' = IF Len(buf) + 1 >= CompleteBatch THEN "flush" ELSE "select"
  /\ UNCHANGED <<rowVars, mainVars, goVars, closed, dropped>>

CompleteTick ==
  /\ loop = "select" /\ buf # <<>>
  /\ loop' = "flush"
  /\ UNCHANGED <<rowVars, mainVars, goVars, chan, closed, buf, dropped>>

\* (mutant) what is in the buffer is forgotten
ChannelClosedExits ==
  /\ loop = "select" /\ closed /\ chan = <<>>
  /\ loop' = "exit"
  /\ UNCHANGED <<rowVars, mainVars, goVars, chan, closed, buf, dropped>>

ChannelClosed ==
  /\ loop = "select" /\ closed /\ chan = <<>>
  /\ loop' = "last"
  /\ UNCHANGED <<rowVars, mainVars, goVars, chan, closed, buf, dropped>>

InBuf(j) == \E i \in DOMAIN buf : buf[i] = j

\* flush: CompleteBatch, and a probe of the jobs it did not complete
Flush ==
  /\ loop \in {"flush", "last"}
  /\ \/ /\ row' = [j \in Job |-> IF InBuf(j) /\ mine[j] THEN "completed" ELSE row[j]]
        /\ mine' = [j \in Job |-> mine[j] /\ ~InBuf(j)]
        /\ UNCHANGED dropped
     \/ /\ dropped' = dropped \cup {j \in Job : InBuf(j)}
        /\ UNCHANGED rowVars
  /\ buf' = <<>>
  /\ loop' = IF loop = "last" THEN "exit" ELSE "select"
  /\ UNCHANGED <<mainVars, goVars, chan, closed>>

MainStep ==
  \/ Announce \/ Check \/ ClaimJobs \/ WaitOver \/ Drained \/ DrainTimeout \/ Aborted
  \/ CloseCompletions \/ Exit

LeaseStep(j) == LeaseTick(j) \/ LeaseWrites(j) \/ Extend(j) \/ LeaseStops(j)

RunStep(j) ==
  \/ Begin(j) \/ StartJob(j) \/ LeaseEnded(j) \/ FinalLogs(j) \/ SendDone(j) \/ SnoozeJob(j)
  \/ Report(j) \/ Probe(j)

LoopStep == Receive \/ CompleteTick \/ ChannelClosed \/ Flush

\* An exited process does nothing more.
Rest == main = "exit" /\ UNCHANGED vars

Next ==
  \/ MainStep \/ Sigterm \/ Rest
  \/ \E j \in Job : RunStep(j) \/ LeaseStep(j) \/ HandlerLogs(j) \/ HandlerReturns(j) \/ LoseJob(j)
  \/ LoopStep

Spec == Init /\ [][Next]_vars

\* Go schedules every goroutine and timers fire.  A handler may run for ever,
\* but returns when its context is cancelled.
FairSpec ==
  /\ Spec
  /\ WF_vars(MainStep) /\ WF_vars(LoopStep)
  /\ \A j \in Job : /\ WF_vars(RunStep(j)) /\ SF_vars(LeaseStops(j))
                    /\ WF_vars(LeaseStep(j))
                    /\ WF_vars(HandlerReturns(j) /\ CtxDone(j))

-----------------------------------------------------------------------------
(* Properties.                                                             *)

\* Nobody can send on the channel once it is closed (Go would panic and lose
\* the buffer): Run closes it behind the last goroutine, also after a drain
\* that timed out.
NoSendOnClosed == closed => AllDone

\* When the process has gone, or its row says so, every job whose handler
\* succeeded under a fence that still holds is completed, unless the write of
\* its own batch failed (runOne, the channel, completeLoop's last flush).
SuccessIsReported ==
  main = "exit" \/ state = "dead" =>
    \A j \in Job : result[j] = "ok" /\ mine[j] =>
      fenced[j] \/ row[j] = "completed" \/ j \in dropped

\* A goroutine whose lease loop found the job gone reports nothing about it:
\* the flag is read only when the loop can no longer set it (runOne waits for
\* extDone).
FencedIsSilent ==
  \A j \in Job : go[j] \in {"send", "snooze", "report"} => ~fenced[j] /\ lease[j] = "done"

\* Before the outcome of a job is written, all lines its handler logged have
\* been handed to the database (the last take in runOne, after the lease loop).
LogsBeforeOutcome ==
  \A j \in Job : go[j] \in {"send", "snooze", "report", "probe"} => lines[j] = 0 /\ taken[j] = 0

\* What holds in every state: the types, a channel and a buffer within their
\* sizes among them, nobody left to send on a closed channel, silence after a
\* fence, and the lines before the outcome (Run, runOne, leaseLoop, completeLoop).
WorkerSafe == TypeOK /\ NoSendOnClosed /\ FencedIsSilent /\ LogsBeforeOutcome

\* A worker that is told to stop exits, as long as handlers heed their context
\* (drain, abort, the blocked senders and completeLoop do not wait in a circle).
Exits == stopped ~> main = "exit"
=============================================================================
