--------------------------- MODULE WorkerRunProofs --------------------------
(***************************************************************************)
(* What the goroutines of a worker may rely on, for any number of jobs,    *)
(* slots, lines and batches.                                               *)
(***************************************************************************)
EXTENDS WorkerRun, TLAPS

\* Past the wait for its lease loop.
Settled == {"logs", "send", "snooze", "report", "probe"}

Types ==
  /\ row \in [Job -> {"queued", "claimed", "running", "completed", "retry_wait", "scheduled"}]
  /\ mine \in [Job -> BOOLEAN] /\ fenced \in [Job -> BOOLEAN]
  /\ go \in [Job -> {"none", "begin", "start", "handler", "returned", "logs", "send", "snooze",
                     "report", "probe", "gone"}]
  /\ result \in [Job -> {"none", "ok", "error", "snooze"}]
  /\ lease \in [Job -> {"none", "ticking", "writing", "extending", "done"}]
  /\ lines \in [Job -> Nat] /\ taken \in [Job -> Nat]

\* A goroutine, its lease loop and its log buffer.
GoInv ==
  \A j \in Job :
    /\ go[j] \in Settled => lease[j] = "done"
    /\ go[j] \in {"send", "snooze", "report"} => ~fenced[j]
    /\ go[j] \in {"send", "snooze", "report", "probe"} => lines[j] = 0
    /\ taken[j] # 0 => lease[j] = "writing"
    /\ go[j] \in {"none", "begin", "start"} => lease[j] = "none"
    /\ go[j] \in {"none", "begin", "start", "handler"} => result[j] = "none"
    /\ row[j] = "queued" => go[j] = "none"

\* The channel is closed behind the last goroutine.
MainInv ==
  /\ closed => main \in {"flushing", "exit"}
  /\ main \in {"announce", "close", "flushing", "exit"} => AllDone

WorkerInv == Types /\ GoInv /\ MainInv

LEMMA WorkerInit == Init => WorkerInv
  BY DEF Init, WorkerInv, Types, GoInv, MainInv, AllDone, Alive, Settled

\* Steps of Run that start no goroutine, and of completeLoop.
LEMMA WorkerMain ==
  ASSUME WorkerInv,
         \/ Announce \/ Check \/ WaitOver \/ Drained \/ DrainTimeout \/ Aborted
         \/ CloseCompletions \/ Exit \/ Sigterm \/ Rest \/ Receive \/ CompleteTick \/ ChannelClosed
  PROVE  WorkerInv'
<1> USE DEF WorkerInv
<1>1. UNCHANGED <<row, mine, go, result, lease, fenced, lines, taken>>
  BY DEF Announce, Check, WaitOver, Drained, DrainTimeout, Aborted, CloseCompletions, Exit, Sigterm,
         Rest, Receive, CompleteTick, ChannelClosed, rowVars, goVars, vars
<1>2. Types' /\ GoInv'
  BY <1>1 DEF Types, GoInv
<1>3. AllDone' = AllDone
  BY <1>1 DEF AllDone, Alive
<1>4. MainInv'
  BY <1>3 DEF MainInv, Announce, Check, WaitOver, Drained, DrainTimeout, Aborted, CloseCompletions,
              Exit, Sigterm, Rest, Receive, CompleteTick, ChannelClosed, Goes, loopVars, mainVars, vars
<1>5. QED
  BY <1>2, <1>4

\* A job that is claimed has no goroutine: it was queued.
LEMMA WorkerClaim ==
  ASSUME WorkerInv, ClaimJobs
  PROVE  WorkerInv'
<1> USE DEF WorkerInv
<1>1. PICK S \in SUBSET {j \in Job : row[j] = "queued"} :
        /\ row' = [j \in Job |-> IF j \in S THEN "claimed" ELSE row[j]]
        /\ mine' = [j \in Job |-> mine[j] \/ j \in S]
        /\ go' = [j \in Job |-> IF j \in S THEN "begin" ELSE go[j]]
  BY DEF ClaimJobs
<1>2. UNCHANGED <<result, lease, fenced, lines, taken, closed>> /\ main = "claim" /\ main' = "wait"
  BY DEF ClaimJobs, Goes, loopVars
<1>3. mine' \in [Job -> BOOLEAN]
  BY <1>1 DEF Types
<1>4. Types'
  BY <1>1, <1>2, <1>3 DEF Types
<1>5. GoInv'
  BY <1>1, <1>2 DEF GoInv, Types, Settled
<1>6. MainInv'
  BY <1>2 DEF MainInv
<1>7. QED
  BY <1>4, <1>5, <1>6

\* What the goroutine of j does is its own: the other jobs keep what they have,
\* and Run has not passed its waits.
Own(j) ==
  /\ UNCHANGED <<main, closed>> /\ Alive(j)
  /\ \A k \in Job \ {j} :
       /\ row'[k] = row[k] /\ go'[k] = go[k] /\ result'[k] = result[k] /\ lease'[k] = lease[k]
       /\ fenced'[k] = fenced[k] /\ lines'[k] = lines[k] /\ taken'[k] = taken[k]

GoInvOf(j) ==
  /\ go[j] \in Settled => lease[j] = "done"
  /\ go[j] \in {"send", "snooze", "report"} => ~fenced[j]
  /\ go[j] \in {"send", "snooze", "report", "probe"} => lines[j] = 0
  /\ taken[j] # 0 => lease[j] = "writing"
  /\ go[j] \in {"none", "begin", "start"} => lease[j] = "none"
  /\ go[j] \in {"none", "begin", "start", "handler"} => result[j] = "none"
  /\ row[j] = "queued" => go[j] = "none"

LEMMA OwnSuffices ==
  ASSUME WorkerInv, NEW j \in Job, Own(j), Types', GoInvOf(j)'
  PROVE  WorkerInv'
<1>1. GoInv'
  BY DEF WorkerInv, GoInv, GoInvOf, Own
<1>2. MainInv'
  BY DEF WorkerInv, MainInv, Own, AllDone
<1>3. QED
  BY <1>1, <1>2 DEF WorkerInv

LEMMA WorkerStart ==
  ASSUME WorkerInv, NEW j \in Job, Begin(j) \/ StartJob(j)
  PROVE  WorkerInv'
<1> USE DEF WorkerInv
<1>1. /\ UNCHANGED <<main, closed, mine, result, fenced, lines, taken>>
      /\ go[j] \in {"begin", "start"}
      /\ go' = [go EXCEPT ![j] = go'[j]] /\ go'[j] \in {"start", "handler", "gone"}
      /\ row' = row \/ row' = [row EXCEPT ![j] = "running"]
      /\ \/ lease' = lease /\ go'[j] # "handler"
         \/ lease' = [lease EXCEPT ![j] = "ticking"] /\ go'[j] = "handler"
  BY DEF Begin, StartJob, At, Step, Types, rowVars, mainVars, loopVars
<1>2. Types'
  BY <1>1 DEF Types
<1>3. Own(j)
  BY <1>1 DEF Own, Alive, Types
<1>4. GoInvOf(j)'
  BY <1>1 DEF GoInv, GoInvOf, Types, Settled
<1>5. QED
  BY <1>2, <1>3, <1>4, OwnSuffices

LEMMA WorkerHandler ==
  ASSUME WorkerInv, NEW j \in Job, HandlerLogs(j) \/ HandlerReturns(j) \/ LeaseEnded(j)
  PROVE  WorkerInv'
<1> USE DEF WorkerInv
<1>1. CASE HandlerLogs(j)
  <2>1. /\ UNCHANGED <<main, closed, row, mine, go, result, lease, fenced, taken>>
        /\ go[j] = "handler" /\ lines' = [lines EXCEPT ![j] = lines[j] + 1]
    BY <1>1 DEF HandlerLogs, At, rowVars, mainVars, loopVars
  <2>2. Types'
    BY <2>1 DEF Types
  <2>3. Own(j)
    BY <2>1 DEF Own, Alive, Types
  <2>4. GoInvOf(j)'
    BY <2>1 DEF GoInv, GoInvOf, Types, Settled
  <2>5. QED
    BY <2>2, <2>3, <2>4, OwnSuffices
<1>2. CASE HandlerReturns(j)
  <2>1. PICK r \in {"ok", "error", "snooze"} : result' = [result EXCEPT ![j] = r]
    BY <1>2 DEF HandlerReturns
  <2>2. /\ UNCHANGED <<main, closed, row, mine, lease, fenced, lines, taken>>
        /\ go[j] = "handler" /\ go' = [go EXCEPT ![j] = "returned"]
    BY <1>2 DEF HandlerReturns, At, Step, rowVars, mainVars, loopVars
  <2>3. Types'
    BY <2>1, <2>2 DEF Types
  <2>4. Own(j)
    BY <2>1, <2>2 DEF Own, Alive, Types
  <2>5. GoInvOf(j)'
    BY <2>1, <2>2 DEF GoInv, GoInvOf, Types, Settled
  <2>6. QED
    BY <2>3, <2>4, <2>5, OwnSuffices
<1>3. CASE LeaseEnded(j)
  <2>1. /\ UNCHANGED <<main, closed, row, mine, result, lease, fenced, lines, taken>>
        /\ go[j] = "returned" /\ go' = [go EXCEPT ![j] = "logs"] /\ lease[j] = "done"
    BY <1>3 DEF LeaseEnded, ExtDone, At, Step, rowVars, mainVars, loopVars
  <2>2. Types'
    BY <2>1 DEF Types
  <2>3. Own(j)
    BY <2>1 DEF Own, Alive, Types
  <2>4. GoInvOf(j)'
    BY <2>1 DEF GoInv, GoInvOf, Types, Settled
  <2>5. QED
    BY <2>2, <2>3, <2>4, OwnSuffices
<1>4. QED
  BY <1>1, <1>2, <1>3

\* The flag and the buffer are read when the lease loop has ended.
LEMMA WorkerOutcome ==
  ASSUME WorkerInv, NEW j \in Job, FinalLogs(j)
  PROVE  WorkerInv'
<1> USE DEF WorkerInv
<1>1. /\ UNCHANGED <<main, closed, row, mine, result, lease, fenced, taken>>
      /\ go[j] = "logs" /\ go' = [go EXCEPT ![j] = Outcome(j)] /\ lines' = [lines EXCEPT ![j] = 0]
  BY DEF FinalLogs, LastLines, At, Step, rowVars, mainVars, loopVars
<1>2. /\ Outcome(j) \in {"probe", "send", "snooze", "gone", "report"}
      /\ Outcome(j) \in {"send", "snooze", "report"} => ~fenced[j]
  BY DEF Outcome
<1>3. Types'
  BY <1>1, <1>2 DEF Types
<1>4. Own(j)
  BY <1>1 DEF Own, Alive, Types
<1>5. GoInvOf(j)'
  BY <1>1, <1>2 DEF GoInv, GoInvOf, Types, Settled
<1>6. QED
  BY <1>3, <1>4, <1>5, OwnSuffices

LEMMA WorkerEnd ==
  ASSUME WorkerInv, NEW j \in Job, SendDone(j) \/ SnoozeJob(j) \/ Report(j) \/ Probe(j)
  PROVE  WorkerInv'
<1> USE DEF WorkerInv
<1>1. /\ UNCHANGED <<main, closed, result, lease, fenced, lines, taken>>
      /\ go[j] \in {"send", "snooze", "report", "probe"} /\ go' = [go EXCEPT ![j] = "gone"]
      /\ mine' = mine \/ mine' = [mine EXCEPT ![j] = FALSE]
      /\ \/ row' = row \/ row' = [row EXCEPT ![j] = "scheduled"]
         \/ row' = [row EXCEPT ![j] = "retry_wait"]
  BY DEF SendDone, SnoozeJob, Report, Written, Probe, At, Step, rowVars, mainVars, loopVars
<1>2. Types'
  BY <1>1 DEF Types
<1>3. Own(j)
  BY <1>1 DEF Own, Alive, Types
<1>4. GoInvOf(j)'
  BY <1>1 DEF GoInv, GoInvOf, Types, Settled
<1>5. QED
  BY <1>2, <1>3, <1>4, OwnSuffices

\* While the lease loop is alive the goroutine waits for it or runs the handler.
LEMMA WorkerLease ==
  ASSUME WorkerInv, NEW j \in Job, LeaseStep(j)
  PROVE  WorkerInv'
<1> USE DEF WorkerInv
<1>1. /\ UNCHANGED <<main, closed, row, mine, go, result>>
      /\ lease[j] \in {"ticking", "writing", "extending"}
      /\ lease' = [lease EXCEPT ![j] = lease'[j]]
      /\ lease'[j] \in {"ticking", "writing", "extending", "done"}
      /\ fenced' = fenced \/ fenced' = [fenced EXCEPT ![j] = TRUE]
      /\ lines' = lines \/ lines' = [lines EXCEPT ![j] = 0]
  <2>1. CASE LeaseTick(j)
    BY <2>1 DEF LeaseTick, Types, rowVars, mainVars, loopVars
  <2>2. CASE LeaseWrites(j)
    BY <2>2 DEF LeaseWrites, Types, rowVars, mainVars, loopVars
  <2>3. CASE Extend(j)
    BY <2>3 DEF Extend, Types, rowVars, mainVars, loopVars
  <2>4. CASE LeaseStops(j)
    BY <2>4 DEF LeaseStops, Types, rowVars, mainVars, loopVars
  <2>5. QED
    BY <2>1, <2>2, <2>3, <2>4 DEF LeaseStep
<1>2. /\ taken' = [taken EXCEPT ![j] = taken'[j]] /\ taken'[j] \in Nat
      /\ taken'[j] # 0 => lease'[j] = "writing"
  <2>1. CASE LeaseTick(j)
    BY <2>1 DEF LeaseTick, Types
  <2>2. CASE LeaseWrites(j)
    BY <2>2 DEF LeaseWrites, Types
  <2>3. CASE Extend(j)
    BY <2>3 DEF Extend, Types, GoInv
  <2>4. CASE LeaseStops(j)
    BY <2>4 DEF LeaseStops, Types, GoInv
  <2>5. QED
    BY <2>1, <2>2, <2>3, <2>4 DEF LeaseStep
<1>3. Types'
  <2>1. fenced' \in [Job -> BOOLEAN]
    BY <1>1 DEF Types
  <2>2. lines' \in [Job -> Nat] /\ taken' \in [Job -> Nat]
    BY <1>1, <1>2 DEF Types
  <2>3. lease' \in [Job -> {"none", "ticking", "writing", "extending", "done"}]
    BY <1>1 DEF Types
  <2>4. QED
    BY <1>1, <2>1, <2>2, <2>3 DEF Types
<1>4. GoInv'
  <2>1. go[j] \in {"handler", "returned", "gone"} /\ row[j] # "queued"
    BY <1>1 DEF GoInv, Types, Settled
  <2>2. GoInvOf(j)'
    BY <1>1, <1>2, <2>1 DEF GoInv, GoInvOf, Settled
  <2>3. \A k \in Job \ {j} : /\ lease'[k] = lease[k] /\ fenced'[k] = fenced[k]
                             /\ lines'[k] = lines[k] /\ taken'[k] = taken[k]
    BY <1>1, <1>2 DEF Types
  <2>4. \A k \in Job \ {j} : GoInvOf(k)'
    BY <1>1, <2>3 DEF GoInv, GoInvOf
  <2>5. QED
    BY <2>2, <2>4 DEF GoInv, GoInvOf
<1>5. MainInv'
  BY <1>1 DEF MainInv, AllDone, Alive
<1>6. QED
  BY <1>3, <1>4, <1>5

\* A job is lost or completed in the database alone.
LEMMA WorkerRows ==
  ASSUME WorkerInv, Flush \/ \E j \in Job : LoseJob(j)
  PROVE  WorkerInv'
<1> USE DEF WorkerInv
<1>1. /\ UNCHANGED <<main, closed, go, result, lease, fenced, lines, taken>>
      /\ mine' \in [Job -> BOOLEAN]
      /\ row' \in [Job -> {"queued", "claimed", "running", "completed", "retry_wait", "scheduled"}]
      /\ \A j \in Job : row'[j] = "queued" => row[j] = "queued"
  <2>1. CASE Flush
    <3>1. UNCHANGED <<main, closed, go, result, lease, fenced, lines, taken>>
      BY <2>1 DEF Flush, mainVars, goVars
    <3>2. CASE UNCHANGED rowVars
      BY <3>1, <3>2 DEF rowVars, Types
    <3>3. CASE /\ row' = [j \in Job |-> IF InBuf(j) /\ mine[j] THEN "completed" ELSE row[j]]
               /\ mine' = [j \in Job |-> mine[j] /\ ~InBuf(j)]
      <4>1. mine' \in [Job -> BOOLEAN]
        BY <3>3 DEF Types
      <4>2. QED
        BY <3>1, <3>3, <4>1 DEF Types
    <3>4. QED
      BY <2>1, <3>2, <3>3 DEF Flush
  <2>2. CASE \E j \in Job : LoseJob(j)
    BY <2>2 DEF LoseJob, Types, mainVars, goVars, loopVars
  <2>3. QED
    BY <2>1, <2>2
<1>2. Types'
  BY <1>1 DEF Types
<1>3. GoInv' /\ MainInv'
  BY <1>1 DEF GoInv, MainInv, AllDone, Alive
<1>4. QED
  BY <1>2, <1>3

LEMMA WorkerStutter == WorkerInv /\ UNCHANGED vars => WorkerInv'
  BY DEF WorkerInv, vars, Types, GoInv, MainInv, AllDone, Alive

LEMMA WorkerNext == WorkerInv /\ [Next]_vars => WorkerInv'
<1>1. SUFFICES ASSUME WorkerInv, [Next]_vars PROVE WorkerInv'
  OBVIOUS
<1>2. CASE MainStep \/ Sigterm \/ Rest
  BY <1>1, <1>2, WorkerMain, WorkerClaim DEF MainStep
<1>3. ASSUME NEW j \in Job, RunStep(j) PROVE WorkerInv'
  BY <1>1, <1>3, WorkerStart, WorkerHandler, WorkerOutcome, WorkerEnd DEF RunStep
<1>4. ASSUME NEW j \in Job, LeaseStep(j) \/ HandlerLogs(j) \/ HandlerReturns(j) \/ LoseJob(j)
      PROVE  WorkerInv'
  BY <1>1, <1>4, WorkerLease, WorkerHandler, WorkerRows
<1>5. CASE LoopStep
  BY <1>1, <1>5, WorkerMain, WorkerRows DEF LoopStep
<1>6. CASE UNCHANGED vars
  BY <1>1, <1>6, WorkerStutter
<1>7. QED
  BY <1>1, <1>2, <1>3, <1>4, <1>5, <1>6 DEF Next

\* Goroutines, lease loops, log buffers and the steps of Run fit together at
\* every moment of a worker's life.
THEOREM WorkerInductive == Spec => []WorkerInv
  BY WorkerInit, WorkerNext, PTL DEF Spec

\* Where the news of a success is: with the goroutine, in the channel, in the
\* buffer, or in the database.  The loop ends when there is none left.
OnItsWay(j) ==
  \/ go[j] \in {"returned", "logs", "send"}
  \/ \E i \in DOMAIN chan : chan[i] = j
  \/ InBuf(j)

LoopInv ==
  /\ chan \in Seq(Job) /\ buf \in Seq(Job)
  /\ loop \in {"last", "exit"} => closed /\ chan = <<>>
  /\ loop = "exit" => buf = <<>>
  /\ main = "announce" => \A j \in Job : go[j] = "none"
  /\ main = "exit" => loop = "exit" \/ \A j \in Job : go[j] = "none"
  /\ state = "dead" => main = "exit"
  /\ \A j \in Job : result[j] = "ok" /\ mine[j] => fenced[j] \/ OnItsWay(j) \/ j \in dropped

SuccessInv == WorkerInv /\ LoopInv

LEMMA SuccessInit == Init => SuccessInv
  BY WorkerInit DEF Init, SuccessInv, LoopInv

LEMMA LoopMain ==
  ASSUME WorkerInv, LoopInv, MainStep \/ Sigterm \/ Rest
  PROVE  LoopInv'
<1>1. CASE Announce \/ Check \/ WaitOver \/ Drained \/ DrainTimeout \/ Aborted \/ CloseCompletions
           \/ Sigterm \/ Rest
  <2>1. UNCHANGED <<mine, go, result, fenced, chan, buf, loop, dropped>>
    BY <1>1 DEF Announce, Check, WaitOver, Drained, DrainTimeout, Aborted, CloseCompletions, Sigterm,
         Rest, rowVars, goVars, loopVars, vars
  <2>2. /\ closed => closed'
        /\ main' = "exit" => main \in {"exit", "announce"}
        /\ main' = "announce" => main = "announce"
        /\ state' = "dead" => state = "dead"
        /\ main = "exit" => main' = "exit"
    BY <1>1 DEF Announce, Check, WaitOver, Drained, DrainTimeout, Aborted, CloseCompletions, Sigterm,
         Rest, Goes, Retired, mainVars, loopVars, vars
  <2>3. QED
    BY <2>1, <2>2 DEF LoopInv, OnItsWay, InBuf
<1>2. CASE Exit
  <2>1. UNCHANGED <<mine, go, result, fenced, chan, buf, loop, closed, dropped>>
        /\ loop = "exit" /\ main' = "exit"
    BY <1>2 DEF Exit, rowVars, goVars, loopVars
  <2>2. QED
    BY <2>1 DEF LoopInv, OnItsWay, InBuf
<1>3. CASE ClaimJobs
  <2>1. PICK S \in SUBSET {j \in Job : row[j] = "queued"} :
          /\ mine' = [j \in Job |-> mine[j] \/ j \in S]
          /\ go' = [j \in Job |-> IF j \in S THEN "begin" ELSE go[j]]
    BY <1>3 DEF ClaimJobs
  <2>2. /\ UNCHANGED <<result, fenced, chan, buf, loop, closed, state, dropped>>
        /\ main = "claim" /\ main' = "wait"
    BY <1>3 DEF ClaimJobs, Goes, loopVars
  <2>3. \A j \in S : result[j] # "ok"
    BY DEF WorkerInv, GoInv
  <2>4. QED
    BY <2>1, <2>2, <2>3 DEF LoopInv, OnItsWay, InBuf
<1>4. QED
  BY <1>1, <1>2, <1>3 DEF MainStep

LEMMA LoopRun ==
  ASSUME WorkerInv, LoopInv, NEW j \in Job,
         \/ Begin(j) \/ StartJob(j) \/ LeaseEnded(j) \/ FinalLogs(j) \/ SnoozeJob(j) \/ Report(j)
         \/ Probe(j) \/ HandlerLogs(j) \/ HandlerReturns(j)
  PROVE  LoopInv'
<1> USE DEF WorkerInv
<1>1. UNCHANGED <<main, state, closed, fenced, chan, buf, loop, dropped>> /\ go[j] # "none"
  BY DEF At, Begin, StartJob, LeaseEnded, FinalLogs, SnoozeJob, Report, Written, Probe, HandlerLogs,
         HandlerReturns, mainVars, loopVars
<1>2. \A k \in Job \ {j} : go'[k] = go[k] /\ result'[k] = result[k] /\ mine'[k] = mine[k]
  BY DEF Begin, StartJob, LeaseEnded, FinalLogs, SnoozeJob, Report, Written, Probe, HandlerLogs,
         HandlerReturns, Step, rowVars, Types
<1>3. result'[j] = "ok" /\ mine'[j] =>
        \/ fenced'[j] \/ go'[j] \in {"returned", "logs", "send"}
        \/ result[j] = "ok" /\ mine[j] /\ go[j] \notin {"returned", "logs", "send"}
  <2>1. CASE Begin(j) \/ StartJob(j) \/ HandlerLogs(j)
    BY <2>1 DEF Begin, StartJob, HandlerLogs, At, GoInv
  <2>2. CASE HandlerReturns(j) \/ LeaseEnded(j)
    BY <2>2 DEF HandlerReturns, LeaseEnded, Step, Types
  <2>3. CASE FinalLogs(j)
    <3>1. UNCHANGED <<result, fenced>> /\ go' = [go EXCEPT ![j] = Outcome(j)]
      BY <2>3 DEF FinalLogs, Step
    <3>2. fenced[j] \/ result[j] # "ok" \/ Outcome(j) = "send"
      BY DEF Outcome
    <3>3. QED
      BY <3>1, <3>2 DEF Types
  <2>4. CASE SnoozeJob(j) \/ Report(j) \/ Probe(j)
    <3>1. result' = result /\ go[j] \in {"snooze", "report", "probe"}
      BY <2>4 DEF SnoozeJob, Report, Written, Probe, At
    <3>2. mine'[j] => mine[j]
      BY <2>4 DEF SnoozeJob, Report, Written, Probe, rowVars, Types
    <3>3. QED
      BY <3>1, <3>2
  <2>5. QED
    BY <2>1, <2>2, <2>3, <2>4
<1>4. QED
  BY <1>1, <1>2, <1>3 DEF LoopInv, OnItsWay, InBuf

LEMMA LoopSend ==
  ASSUME WorkerInv, LoopInv, NEW j \in Job, SendDone(j)
  PROVE  LoopInv'
<1> USE DEF WorkerInv
<1>1. /\ UNCHANGED <<main, state, closed, mine, result, fenced, buf, loop, dropped>> /\ ~closed
      /\ go[j] = "send"
      /\ chan' = Append(chan, j) /\ go' = [go EXCEPT ![j] = "gone"]
  BY DEF SendDone, At, Step, rowVars, mainVars
<1>2. chan' \in Seq(Job) /\ (\E i \in DOMAIN chan' : chan'[i] = j)
      /\ \A i \in DOMAIN chan : i \in DOMAIN chan' /\ chan'[i] = chan[i]
  BY <1>1 DEF LoopInv
<1>3. \A k \in Job : OnItsWay(k) => OnItsWay(k)'
  BY <1>1, <1>2 DEF OnItsWay, InBuf, Types
<1>4. QED
  BY <1>1, <1>2, <1>3 DEF LoopInv

LEMMA LoopLease ==
  ASSUME WorkerInv, LoopInv, NEW j \in Job, LeaseStep(j) \/ LoseJob(j)
  PROVE  LoopInv'
<1> USE DEF WorkerInv
<1>1. UNCHANGED <<main, state, closed, go, result, chan, buf, loop, dropped>>
  BY DEF LeaseStep, LeaseTick, LeaseWrites, Extend, LeaseStops, LoseJob, mainVars, goVars, loopVars
<1>2. \A k \in Job : (mine'[k] => mine[k]) /\ (fenced[k] => fenced'[k])
  <2>1. CASE LeaseTick(j) \/ LeaseWrites(j) \/ LeaseStops(j)
    BY <2>1 DEF LeaseTick, LeaseWrites, LeaseStops, rowVars
  <2>2. CASE Extend(j)
    BY <2>2 DEF Extend, rowVars, Types
  <2>3. CASE LoseJob(j)
    BY <2>3 DEF LoseJob, goVars, Types
  <2>4. QED
    BY <2>1, <2>2, <2>3 DEF LeaseStep
<1>3. QED
  BY <1>1, <1>2 DEF LoopInv, OnItsWay, InBuf

LEMMA LoopReceive ==
  ASSUME WorkerInv, LoopInv, Receive
  PROVE  LoopInv'
<1>1. /\ UNCHANGED <<main, state, closed, mine, go, result, fenced, dropped>>
      /\ loop = "select" /\ loop' \in {"flush", "select"}
      /\ chan # <<>> /\ buf' = Append(buf, Head(chan)) /\ chan' = Tail(chan)
  BY DEF Receive, rowVars, mainVars, goVars
<1>2. chan' \in Seq(Job) /\ buf' \in Seq(Job)
  BY <1>1 DEF LoopInv
<1>3. \A i \in DOMAIN buf : i \in DOMAIN buf' /\ buf'[i] = buf[i]
  BY <1>1 DEF LoopInv
<1>4. \E i \in DOMAIN buf' : buf'[i] = Head(chan)
  BY <1>1 DEF LoopInv
<1>5. \A i \in DOMAIN chan : chan[i] = Head(chan) \/ (i - 1 \in DOMAIN chan' /\ chan'[i - 1] = chan[i])
  BY <1>1 DEF LoopInv
<1>6. \A j \in Job : OnItsWay(j) => OnItsWay(j)'
  BY <1>1, <1>3, <1>4, <1>5 DEF OnItsWay, InBuf
<1>7. QED
  BY <1>1, <1>2, <1>6 DEF LoopInv

LEMMA LoopRest ==
  ASSUME WorkerInv, LoopInv, CompleteTick \/ ChannelClosed \/ Flush
  PROVE  LoopInv'
<1>1. CASE CompleteTick \/ ChannelClosed
  <2>1. /\ UNCHANGED <<main, state, closed, mine, go, result, fenced, chan, buf, dropped>>
        /\ loop = "select"
        /\ loop' = "flush" \/ (loop' = "last" /\ closed /\ chan = <<>>)
    BY <1>1 DEF CompleteTick, ChannelClosed, rowVars, mainVars, goVars
  <2>2. QED
    BY <2>1 DEF LoopInv, OnItsWay, InBuf
<1>2. CASE Flush
  <2>1. /\ UNCHANGED <<main, state, closed, go, result, fenced, chan>>
        /\ loop \in {"flush", "last"} /\ buf' = <<>>
        /\ loop' = IF loop = "last" THEN "exit" ELSE "select"
        /\ dropped \subseteq dropped'
    BY <1>2 DEF Flush, mainVars, goVars
  <2>2. \A j \in Job : mine'[j] => mine[j] /\ (~InBuf(j) \/ j \in dropped')
    <3>1. CASE mine' = [j \in Job |-> mine[j] /\ ~InBuf(j)]
      BY <3>1
    <3>2. CASE dropped' = dropped \cup {j \in Job : InBuf(j)} /\ UNCHANGED rowVars
      BY <3>2 DEF rowVars
    <3>3. QED
      BY <1>2, <3>1, <3>2 DEF Flush
  <2>3. \A j \in Job : OnItsWay(j) /\ ~InBuf(j) => OnItsWay(j)'
    BY <2>1 DEF OnItsWay
  <2>4. buf' \in Seq(Job)
    BY <2>1
  <2>5. QED
    BY <2>1, <2>2, <2>3, <2>4 DEF LoopInv
<1>3. QED
  BY <1>1, <1>2

LEMMA LoopStutter == LoopInv /\ UNCHANGED vars => LoopInv'
  BY DEF LoopInv, vars, OnItsWay, InBuf

LEMMA SuccessNext == SuccessInv /\ [Next]_vars => SuccessInv'
<1>1. SUFFICES ASSUME SuccessInv, [Next]_vars PROVE LoopInv'
  BY WorkerNext DEF SuccessInv
<1>2. WorkerInv /\ LoopInv
  BY <1>1 DEF SuccessInv
<1>3. CASE MainStep \/ Sigterm \/ Rest
  BY <1>1, <1>2, <1>3, LoopMain
<1>4. ASSUME NEW j \in Job, RunStep(j) PROVE LoopInv'
  BY <1>2, <1>4, LoopRun, LoopSend DEF RunStep
<1>5. ASSUME NEW j \in Job, LeaseStep(j) \/ HandlerLogs(j) \/ HandlerReturns(j) \/ LoseJob(j)
      PROVE  LoopInv'
  BY <1>2, <1>5, LoopRun, LoopLease
<1>6. CASE LoopStep
  BY <1>1, <1>2, <1>6, LoopReceive, LoopRest DEF LoopStep
<1>7. CASE UNCHANGED vars
  BY <1>2, <1>7, LoopStutter
<1>8. QED
  BY <1>1, <1>3, <1>4, <1>5, <1>6, <1>7 DEF Next

\* A worker that has gone has reported every success of a job it still held,
\* but for those of a batch whose write failed: runOne, the channel and the
\* last flush of completeLoop lose none, whatever the drain cuts short.
THEOREM SuccessNeverLost == Spec => []SuccessIsReported
<1>1. SuccessInv => SuccessIsReported
  <2>1. SUFFICES ASSUME SuccessInv, main = "exit" \/ state = "dead",
                        NEW j \in Job, result[j] = "ok", mine[j]
                 PROVE  fenced[j] \/ j \in dropped
    BY DEF SuccessIsReported
  <2>2. closed /\ chan = <<>> /\ buf = <<>>
    <3>1. go[j] # "none"
      BY <2>1 DEF SuccessInv, WorkerInv, GoInv
    <3>2. QED
      BY <2>1, <3>1 DEF SuccessInv, LoopInv
  <2>3. go[j] \notin {"returned", "logs", "send"}
    BY <2>1, <2>2 DEF SuccessInv, WorkerInv, MainInv, AllDone, Alive
  <2>4. QED
    BY <2>1, <2>2, <2>3 DEF SuccessInv, LoopInv, OnItsWay, InBuf
<1>2. QED
  BY <1>1, SuccessInit, SuccessNext, PTL DEF Spec

\* No goroutine can send on the closed channel of completions (Run).
THEOREM NeverSendsOnClosed == Spec => []NoSendOnClosed
<1>1. WorkerInv => NoSendOnClosed
  BY DEF WorkerInv, MainInv, NoSendOnClosed
<1>2. QED
  BY <1>1, WorkerInductive, PTL

\* A goroutine that learnt from its lease loop that the job is gone reports
\* nothing about it (runOne waits for leaseLoop before it reads the flag).
THEOREM FencedSilent == Spec => []FencedIsSilent
<1>1. WorkerInv => FencedIsSilent
  BY DEF WorkerInv, GoInv, FencedIsSilent, Settled
<1>2. QED
  BY <1>1, WorkerInductive, PTL

\* The handler's lines are handed over before the outcome (runOne).
THEOREM LogsFirst == Spec => []LogsBeforeOutcome
<1>1. WorkerInv => LogsBeforeOutcome
  BY DEF WorkerInv, GoInv, LogsBeforeOutcome, Settled
<1>2. QED
  BY <1>1, WorkerInductive, PTL
=============================================================================
