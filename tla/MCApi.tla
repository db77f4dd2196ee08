-------------------------------- MODULE MCApi --------------------------------
(***************************************************************************)
(* A small instance of what the API answers from the database: the pages   *)
(* of a listing in Paging, the request transactions of Tenancy, and the    *)
(* failure summaries that Summaries keeps beside the failures.  The three  *)
(* have no state in common, and a behaviour follows one of them.           *)
(***************************************************************************)
EXTENDS Paging, Tenancy, TLC

CONSTANTS o1, o2, p1, p2, p3, y1, y2, y3, q1, q2, u1, u3, n1, n2, c1, c2, s1, s2, k1, k2

VARIABLES part, now, fails, summaries, sweep, answer  \* all but the first of Summaries

summaryVars == <<now, fails, summaries, sweep, answer>>

\* Rows with equal times, and times that agree in their milliseconds.
Rows == {<<1000, 1>>, <<1000, 2>>, <<1001, 1>>, <<1001, 3>>, <<2500, 2>>}
RowTime == [r \in Rows |-> r[1]]
RowId == [r \in Rows |-> r[2]]
Limits == {-1, 0, 1, 3, 9}

\* An organization with two projects, a policy in each, and one queue.
Entry(at, up, name, policy) ==
  [at |-> at, up |-> up, name |-> name, policy |-> policy, lo |-> 1, hi |-> 1]
MCStartRow ==
  [e \in Entity |->
     CASE e = o1 -> Entry("live", None, n1, None)
       [] e = p1 -> Entry("live", o1, n1, None)
       [] e = p2 -> Entry("live", o1, n2, None)
       [] e = y1 -> Entry("live", p1, n1, None)
       [] e = y2 -> Entry("live", p2, n1, None)
       [] e = q1 -> Entry("live", p1, n1, y1)
       [] OTHER -> Entry("unborn", None, n1, None)]
MCStartRole == [ou \in Org \X User |-> IF ou = <<o1, u1>> THEN 3 ELSE -1]

\* Two queues, two schedulers that do one queue a sweep, and two classes.
S == INSTANCE Summaries WITH
       Queue <- {1, 2}, Class <- {k1, k2}, Scheduler <- {s1, s2}, Reader <- {1},
       Limit <- 1, Window <- 0, MaxFails <- 2, MaxTime <- 1

ApiInit ==
  /\ part \in {"paging", "tenancy", "summaries"} /\ Init /\ TenancyInit /\ S!Init
  /\ part # "paging" => table = {}

ApiNext ==
  \/ part = "paging" /\ Next /\ UNCHANGED <<part, tenancyVars, summaryVars>>
  \/ part = "tenancy" /\ TenancyNext /\ UNCHANGED <<part, vars, summaryVars>>
  \/ part = "summaries" /\ S!Next /\ UNCHANGED <<part, vars, tenancyVars>>

ApiSpec == ApiInit /\ [][ApiNext]_<<part, vars, tenancyVars, summaryVars>>

Alike == Permutations(Client)

-----------------------------------------------------------------------------
(* The property of Summaries.                                              *)

\* A sweep does at most Limit queues.  A text that is called current leaves out
\* none of the failures listed beside it, as long as none of the queue's is a
\* day old: the scheduler takes the digest before the failures and the API after
\* them, so whatever fails between two reads makes the digests differ
\* (Summarize, failureSummary).
SummariesSafe == part = "summaries" => S!TypeOK /\ S!CurrentCovers
=============================================================================
