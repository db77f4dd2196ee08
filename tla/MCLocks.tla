------------------------------- MODULE MCLocks -------------------------------
(***************************************************************************)
(* A small instance of what rests on locks of the database: the advisory   *)
(* lock of Migrate, the slots and tokens that Admission changes under the  *)
(* row locks of shards, and the order of all row locks in LockOrder.  The  *)
(* three have no state in common, and a behaviour follows one of them.     *)
(***************************************************************************)
EXTENDS Migrate, Admission, TLC

CONSTANTS r1, r2, r3, j1, j2, w1, w2

VARIABLES part, plan, held, want  \* the last three of LockOrder

lockVars == <<plan, held, want>>

\* Two runners of a release, and one of the release before.
Releases == [r \in Runner |-> IF r = r3 THEN {1, 2} ELSE {1, 2, 3}]

\* A queue over two shards with a burst of 2; its limit may go down, its rate
\* limit away, and its shards be joined.
Limited(l, n, r) == [limit |-> l, shards |-> n, rate |-> r, burst |-> 2]
Start2 == Limited(2, 2, 1)
Changes == {Limited(1, 2, 0), Limited(2, 1, 1)}

\* One project with two queues; job 2 is the child of job 1.
L == INSTANCE LockOrder WITH
       Proc <- {1, 2, 3}, Job <- {1, 2}, Owned <- 1 :> {1} @@ 2 :> {2} @@ 3 :> {},
       Children <- 1 :> {2} @@ 2 :> {}, QueueOf <- 1 :> 1 @@ 2 :> 2,
       ProjectOf <- 1 :> 1 @@ 2 :> 1, MaxBatch <- 2

LocksInit == part \in {"migrate", "order", "admission"} /\ Init /\ L!Init /\ AdmitInit

LocksNext ==
  \/ part = "migrate" /\ Next /\ UNCHANGED <<part, lockVars, admitVars>>
  \/ part = "order" /\ L!Next /\ UNCHANGED <<part, vars, admitVars>>
  \/ part = "admission" /\ AdmitNext /\ UNCHANGED <<part, vars, lockVars>>

LocksSpec == LocksInit /\ [][LocksNext]_<<part, vars, lockVars, admitVars>>

Symmetric == Permutations(Worker) \cup Permutations(Job)

-----------------------------------------------------------------------------
(* The property of LockOrder.                                              *)

\* No two transactions hold the same lock, and none wait for each other in a
\* circle: neither workers' reports, claims and the reaper nor pauses, cancels
\* and the breaker ever make the database kill one of them (the order of locks
\* in migrations/028).
OrderSafe == part = "order" => L!TypeOK /\ L!NoCycle
=============================================================================
