------------------------------ MODULE Summaries ------------------------------
(***************************************************************************)
(* Failure summaries.  A scheduler looks for queues whose failures have    *)
(* another digest than their summary, reads the failures of each, has a    *)
(* text written about them and saves it with the digest it read first.     *)
(* The API lists the failures of a queue and says, from the digest, how    *)
(* the text beside them stands to them.                                    *)
(*                                                                         *)
(* A text is the set of failures it was written from.  There are not more  *)
(* classes than a listing has groups (summaryGroups).                      *)
(***************************************************************************)
EXTENDS Integers, FiniteSets, Sequences

CONSTANTS
  Queue,      \* queues, numbered as their ids compare
  Class,      \* error classes
  Scheduler,
  Reader,     \* requests to the API
  Limit,      \* Config.Batch: queues of one sweep
  Window,     \* FailureWindow
  MaxFails,   \* bound: failures
  MaxTime     \* bound: hours

VARIABLES
  now,
  fails,      \* failed executions, numbered in the order in which they failed
  summaries,  \* Queue -> its row of failure_summaries: digest and text, or no row
  sweep,      \* Scheduler -> the queues it still has to do, and what it has read of the first
  answer      \* Reader -> the answer as far as it is made

vars == <<now, fails, summaries, sweep, answer>>

Failure == [n : 1 .. MaxFails, q : Queue, class : Class, at : 0 .. MaxTime]
NoRow == [digest |-> [c \in Class |-> 0], text |-> {}]
NoAnswer == [q |-> 0, state |-> "none", beside |-> {}, text |-> {}]

TypeOK ==
  /\ now \in 0 .. MaxTime /\ fails \subseteq Failure
  /\ \A q \in Queue : summaries[q].digest \in [Class -> Nat] /\ summaries[q].text \subseteq Failure
  /\ \A s \in Scheduler : /\ sweep[s].pc \in {"idle", "read", "ask"}
                          /\ Len(sweep[s].todo) <= Limit /\ sweep[s].fails \subseteq Failure
  /\ \A r \in Reader : /\ answer[r].state \in {"none", "listed", "pending", "current", "stale"}
                       /\ answer[r].beside \subseteq Failure

Init ==
  /\ now = 0 /\ fails = {}
  /\ summaries = [q \in Queue |-> NoRow]
  /\ sweep = [s \in Scheduler |-> [pc |-> "idle", todo |-> <<>>, fails |-> {}]]
  /\ answer = [r \in Reader |-> NoAnswer]

\* report_failure closes an execution with an error.
Fail(q, c) ==
  /\ Cardinality(fails) < MaxFails
  /\ fails' = fails \cup {[n |-> Cardinality(fails) + 1, q |-> q, class |-> c, at |-> now]}
  /\ UNCHANGED <<now, summaries, sweep, answer>>

Hour ==
  /\ now < MaxTime
  /\ now' = now + 1
  /\ UNCHANGED <<fails, summaries, sweep, answer>>

\* failuresSQL
Failures(q) == {f \in fails : f.q = q /\ f.at >= now - Window}

\* fl.failure_digest
Digest(q) == [c \in Class |-> Cardinality({f \in Failures(q) : f.class = c})]

-----------------------------------------------------------------------------
(* Summarize.                                                              *)

\* staleSummariesSQL
Stale(q) == Failures(q) # {} /\ summaries[q].digest # Digest(q)

\* The first queues, at most Limit.
IsTodo(todo) ==
  LET S == {q \in Queue : Stale(q)}
      T == {todo[i] : i \in DOMAIN todo}
  IN /\ T \subseteq S /\ (T = S \/ Len(todo) = Limit) /\ Len(todo) <= Limit
     /\ \A i, k \in DOMAIN todo : i < k => todo[i] < todo[k]
     /\ \A q \in S \ T, p \in T : p < q

FindStale(s) ==
  /\ sweep[s].pc = "idle"
  /\ \E todo \in UNION {[1 .. n -> Queue] : n \in 1 .. Cardinality(Queue)} :
       /\ IsTodo(todo)
       /\ sweep' = [sweep EXCEPT ![s].pc = "read",
            ![s].todo = [i \in DOMAIN todo |-> [q |-> todo[i], digest |-> Digest(todo[i])]]]
  /\ UNCHANGED <<now, fails, summaries, answer>>

After(s) ==
  LET rest == Tail(sweep[s].todo)
  IN [pc |-> IF rest = <<>> THEN "idle" ELSE "read", todo |-> rest, fails |-> {}]

ReadFails(s) ==
  LET read == Failures(sweep[s].todo[1].q)
  IN /\ sweep[s].pc = "read"
     /\ sweep' = [sweep EXCEPT ![s] = IF read = {} THEN After(s)
                                      ELSE [@ EXCEPT !.pc = "ask", !.fails = read]]
     /\ UNCHANGED <<now, fails, summaries, answer>>

\* (mutant) the digest is computed when the text is saved
SavedLate(todo) == Digest(todo.q)

\* The digest that is saved is the one of the first read.
Saved(todo) == todo.digest

\* ai.Summarize answers, and saveSummarySQL
Save(s) ==
  LET todo == sweep[s].todo[1]
  IN /\ sweep[s].pc = "ask"
     /\ summaries' = [summaries EXCEPT ![todo.q] = [digest |-> Saved(todo), text |-> sweep[s].fails]]
     /\ sweep' = [sweep EXCEPT ![s] = After(s)]
     /\ UNCHANGED <<now, fails, answer>>

\* ai.Summarize fails: the next queue
NoText(s) ==
  /\ sweep[s].pc = "ask"
  /\ sweep' = [sweep EXCEPT ![s] = After(s)]
  /\ UNCHANGED <<now, fails, summaries, answer>>

\* An error of the database, or the scheduler stops
Abandon(s) ==
  /\ sweep[s].pc # "idle"
  /\ sweep' = [sweep EXCEPT ![s] = [pc |-> "idle", todo |-> <<>>, fails |-> {}]]
  /\ UNCHANGED <<now, fails, summaries, answer>>

-----------------------------------------------------------------------------
(* failureSummary.                                                         *)

List(r, q) ==
  /\ answer[r].state = "none"
  /\ answer' = [answer EXCEPT ![r] = [q |-> q, state |-> "listed", beside |-> Failures(q), text |-> {}]]
  /\ UNCHANGED <<now, fails, summaries, sweep>>

\* cachedSummarySQL, with a key in the environment
StateOf(q) ==
  CASE summaries[q] = NoRow -> "pending"
    [] summaries[q].digest = Digest(q) -> "current"
    [] OTHER -> "stale"

Answer(r) ==
  LET q == answer[r].q
  IN /\ answer[r].state = "listed"
     /\ answer' = [answer EXCEPT ![r].state = StateOf(q), ![r].text = summaries[q].text]
     /\ UNCHANGED <<now, fails, summaries, sweep>>

Again(r) ==
  /\ answer[r].state \in {"pending", "current", "stale"}
  /\ answer' = [answer EXCEPT ![r] = NoAnswer]
  /\ UNCHANGED <<now, fails, summaries, sweep>>

Next ==
  \/ \E q \in Queue, c \in Class : Fail(q, c)
  \/ Hour
  \/ \E s \in Scheduler : FindStale(s) \/ ReadFails(s) \/ Save(s) \/ NoText(s) \/ Abandon(s)
  \/ \E r \in Reader : (\E q \in Queue : List(r, q)) \/ Answer(r) \/ Again(r)

Spec == Init /\ [][Next]_vars

-----------------------------------------------------------------------------
(* Properties.                                                             *)

\* A text that is called current leaves out none of the failures listed beside
\* it, as long as none of them is a day old: the scheduler takes the digest
\* before the failures and the API after them, so whatever fails between two
\* reads makes the digests differ (Summarize, failureSummary).
CurrentCovers ==
  \A r \in Reader :
    answer[r].state = "current" /\ (\A f \in fails : f.q = answer[r].q => f.at >= now - Window)
      => answer[r].beside \subseteq answer[r].text
=============================================================================
