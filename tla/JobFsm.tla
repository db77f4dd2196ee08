------------------------------- MODULE JobFsm -------------------------------
(***************************************************************************)
(* What the jobs table promises about one job, whoever writes the row: the *)
(* nineteen edges of fl.legal_transition, the jobs_fsm trigger that lets   *)
(* the fence only grow, and what each edge does to the counters of the     *)
(* row.  JobCore, the model of the code that writes the rows, is shown to  *)
(* implement this specification.                                           *)
(***************************************************************************)
EXTENDS Integers

CONSTANT Job

VARIABLE contract    \* Job -> the part of the jobs row the contract speaks of

Status == {"scheduled", "queued", "claimed", "running", "retry_wait",
           "completed", "dead_letter", "cancelled"}

ContractRow == [status : Status, fence : Nat, attempt : Nat, gen : Nat]

LegalTransition ==
  { <<"scheduled", "queued">>,     <<"scheduled", "cancelled">>,
    <<"queued", "claimed">>,       <<"queued", "cancelled">>,
    <<"claimed", "running">>,      <<"claimed", "queued">>,
    <<"claimed", "retry_wait">>,   <<"claimed", "cancelled">>,
    <<"claimed", "dead_letter">>,  <<"running", "completed">>,
    <<"running", "retry_wait">>,   <<"running", "dead_letter">>,
    <<"running", "cancelled">>,    <<"running", "queued">>,
    <<"running", "scheduled">>,    <<"retry_wait", "queued">>,
    <<"retry_wait", "cancelled">>, <<"retry_wait", "dead_letter">>,
    <<"dead_letter", "queued">> }

\* A row moves along an edge.  Claiming and snoozing take the next fence,
\* starting takes the next attempt, leaving the dead letter state opens a new
\* replay generation; no other edge touches a counter.
Edge(old, new) ==
  /\ <<old.status, new.status>> \in LegalTransition
  /\ new.fence = IF \/ new.status = "claimed"
                    \/ old.status = "running" /\ new.status = "scheduled"
                 THEN old.fence + 1
                 ELSE old.fence
  /\ new.attempt = IF new.status = "running" THEN old.attempt + 1
                   ELSE IF old.status = "dead_letter" THEN 0
                   ELSE old.attempt
  /\ new.gen = IF old.status = "dead_letter" THEN old.gen + 1 ELSE old.gen

Init ==
  contract \in [Job -> [status : {"scheduled", "queued"}, fence : {0},
                        attempt : {0}, gen : {0}]]

\* One transaction may move several rows (a batch of completions and the
\* children they wake, a dead letter and the descendants it cancels).
Next ==
  /\ contract' \in [Job -> ContractRow]
  /\ \A j \in Job : contract'[j] # contract[j] => Edge(contract[j], contract'[j])

Spec == Init /\ [][Next]_contract
=============================================================================
