----------------------------- MODULE Submission -----------------------------
(***************************************************************************)
(* Submitting jobs to one queue: submitJob statement by statement, with    *)
(* idempotency keys, the depth cap and depends_on, against everything that *)
(* happens to parents and keys meanwhile.                                  *)
(*                                                                         *)
(* A request is a READ COMMITTED transaction: each statement sees what is  *)
(* committed when it starts.  The rows it has inserted are invisible to    *)
(* others until it commits, and so are the ones it has deleted gone, but a *)
(* key that it has inserted or deleted makes other writers of that key     *)
(* wait.  Statements that only touch rows nobody else sees are taken       *)
(* together with the next one that does.                                   *)
(*                                                                         *)
(* A job is reduced to what submission and dependencies look at; claimed   *)
(* and running are one status, and retry_wait counts as queued.            *)
(***************************************************************************)
EXTENDS Integers, FiniteSets

CONSTANTS
  Job,         \* ids of jobs, numbers
  Existing,    \* jobs that may be there at the start
  Foreign,     \* those of them that belong to another project
  Client,      \* concurrent requests
  Key,         \* idempotency keys
  Body,        \* what a request says of the job itself
  None,        \* no key, no job
  MaxDepth,    \* queues.max_depth
  MaxTries,    \* maxTxRetries
  MaxParents,  \* bound: parents named by a request
  MaxReplays,  \* bound: replays of a job
  Worked,      \* bound: jobs that anything happens to after submission
  MaxTunings   \* bound: changes of the queue's defaults

ASSUME SubmissionAssumption ==
  /\ Job \subseteq Nat /\ Existing \subseteq Job /\ Foreign \subseteq Existing /\ None \notin Job /\ None \notin Key
  /\ MaxDepth \in Nat /\ MaxTries \in Nat \ {0} /\ MaxParents \in Nat /\ MaxReplays \in Nat
  /\ MaxTunings \in Nat

VARIABLES
  jobs,      \* Job -> row, or unborn
  edges,     \* job_dependencies, as <<parent, child>>
  keys,      \* idempotency_keys: Key -> the job it names, or None
  default,   \* default_priority and retry policy of the queue
  reqs,      \* Client -> the request it is serving
  answers,   \* Client -> the answer to the last request, if that was a repeat
  stray,     \* (history) jobs whose live key a request took for the expired one
  seeded     \* (bound) jobs were there at the start: no keys in this behaviour

vars == <<jobs, edges, keys, default, reqs, answers, stray, seeded>>
histVars == <<stray, seeded>>

Status == {"unborn", "scheduled", "queued", "running", "completed", "dead_letter", "cancelled"}
Terminal == {"completed", "dead_letter", "cancelled"}

\* fp is the stored fingerprint, fresh is the time up to the key's expires_at,
\* gen is replay_generation.
Row == [status : Status, pending : Nat, later : BOOLEAN, key : Key \cup {None},
        fp : (Body \X (0 .. MaxTunings)) \cup {None}, fresh : BOOLEAN, gen : 0 .. MaxReplays]

Unborn == [status |-> "unborn", pending |-> 0, later |-> FALSE, key |-> None,
           fp |-> None, fresh |-> FALSE, gen |-> 0]

Idle == [pc |-> "idle"]
NoAnswer == [what |-> "none", job |-> None]

\* old is the job of the key row that was found expired, drops whether that
\* row is deleted, pending the number of parents counted, new the job inserted,
\* orig the job that the key named, with the same body, when the request began.
Request == [pc : {"depth", "find", "drop", "wait", "count", "insert", "commit"},
            key : Key \cup {None}, body : Body, parents : SUBSET Job, later : BOOLEAN,
            fp : (Body \X (0 .. MaxTunings)) \cup {None}, tries : 1 .. MaxTries, old : Job \cup {None}, drops : BOOLEAN, pending : Nat,
            new : Job \cup {None}, orig : Job \cup {None}]

TypeOK ==
  /\ jobs \in [Job -> Row]
  /\ edges \subseteq Job \X Job
  /\ keys \in [Key -> Job \cup {None}]
  /\ default \in 0 .. MaxTunings
  /\ \A c \in Client : reqs[c] = Idle \/ reqs[c] \in Request
  /\ answers \in [Client -> [what : {"none", "job", "full", "conflict", "error"}, job : Job \cup {None}]]

Init ==
  /\ seeded \in BOOLEAN
  /\ jobs = [j \in Job |->
       IF seeded /\ j \in Existing THEN [Unborn EXCEPT !.status = "queued"] ELSE Unborn]
  /\ edges = {}
  /\ keys = [k \in Key |-> None]
  /\ default = 0
  /\ reqs = [c \in Client |-> Idle]
  /\ answers = [c \in Client |-> NoAnswer]
  /\ stray = {}

Born == {j \in Job : jobs[j].status # "unborn"}
Finished(j) == jobs[j].status \in Terminal

-----------------------------------------------------------------------------
(* The request.                                                            *)

\* fingerprint: the body, and the defaults where it leaves them open.
Fingerprint(body) == <<body, default>>

Queued == Cardinality({j \in Born \ Foreign : jobs[j].status = "queued"})

At(c, pc) == reqs[c].pc = pc
Goes(c, pc) == reqs' = [reqs EXCEPT ![c].pc = pc]
Answer(c, w, j) ==
  /\ answers' = [answers EXCEPT ![c] =
       IF reqs[c].orig = None THEN NoAnswer ELSE [what |-> w, job |-> j]]
  /\ reqs' = [reqs EXCEPT ![c] = Idle]

\* A request begins only while ids are left (a bound).  Original is the job
\* that a repeat must find.
Original(k, body) ==
  IF k # None /\ keys[k] # None /\ jobs[keys[k]].fresh /\ jobs[keys[k]].fp[1] = body
  THEN keys[k] ELSE None

Start(c, k, body, parents, later) ==
  /\ reqs[c] = Idle
  /\ IF seeded THEN k = None /\ \A d \in Client : reqs[d] = Idle
     ELSE k # None /\ parents = {} /\ ~later
  /\ parents \subseteq Born /\ Cardinality(parents) <= MaxParents
  /\ Cardinality({d \in Client : reqs[d] # Idle}) < Cardinality(Job \ Born)
  /\ reqs' = [reqs EXCEPT ![c] =
       [pc |-> "depth", key |-> k, body |-> body, parents |-> parents, later |-> later,
        fp |-> None, tries |-> 1, old |-> None, drops |-> FALSE, pending |-> 0, new |-> None,
        orig |-> Original(k, body)]]
  /\ UNCHANGED <<jobs, edges, keys, default, answers, histVars>>

\* queueDefaultsSQL and queuedCountSQL
CheckDepth(c) ==
  /\ At(c, "depth")
  /\ \/ /\ ~reqs[c].later /\ Queued >= MaxDepth
        /\ Answer(c, "full", None)
     \/ /\ reqs[c].later \/ Queued < MaxDepth
        /\ reqs' = [reqs EXCEPT ![c].pc = IF reqs[c].key = None THEN "count" ELSE "find",
                                ![c].fp = Fingerprint(reqs[c].body)]
        /\ UNCHANGED answers
  /\ UNCHANGED <<jobs, edges, keys, default, histVars>>

\* (mutant) every row found counts as expired
ExpiredAlways(j) == TRUE

\* expires_at <= fl.now()
Expired(j) == ~jobs[j].fresh

\* findIdemSQL
FindKey(c) ==
  /\ At(c, "find")
  /\ LET j == keys[reqs[c].key]
     IN \/ /\ j = None
           /\ Goes(c, "count") /\ UNCHANGED answers
        \/ /\ j # None /\ ~Expired(j)
           /\ IF jobs[j].fp = reqs[c].fp THEN Answer(c, "job", j) ELSE Answer(c, "conflict", None)
        \/ /\ j # None /\ Expired(j)
           /\ reqs' = [reqs EXCEPT ![c].pc = "drop", ![c].old = j]
           /\ UNCHANGED answers
  /\ UNCHANGED <<jobs, edges, keys, default, histVars>>

\* Another transaction has written the row of this key and not committed.
Holds(c, k) == reqs[c] # Idle /\ reqs[c].key = k /\ (reqs[c].drops \/ reqs[c].new # None)

\* (mutant) a transaction waits for a key that it has written itself
HeldByAny(c) == \E d \in Client : Holds(d, reqs[c].key)

HeldByOther(c) == \E d \in Client \ {c} : Holds(d, reqs[c].key)

\* deleteIdemSQL deletes whatever row the key has when the statement starts.
\* A statement that has to wait for another deleter looks at the row it
\* waited for, and finds it gone or still there.
DropKey(c) ==
  /\ \/ /\ At(c, "drop") /\ HeldByOther(c)
        /\ Goes(c, "wait")
     \/ /\ At(c, "drop") /\ ~HeldByOther(c)
        /\ reqs' = [reqs EXCEPT ![c].pc = "count", ![c].drops = keys[reqs[c].key] # None]
     \/ /\ At(c, "wait") /\ ~HeldByOther(c)
        /\ reqs' = [reqs EXCEPT ![c].pc = "count", ![c].drops = keys[reqs[c].key] = reqs[c].old]
  /\ UNCHANGED <<jobs, edges, keys, default, answers, histVars>>

\* (mutant) a parent that is being run counts as finished
WaitsForQueued(p) == jobs[p].status \in {"scheduled", "queued"}

\* parentsSQL
WaitsFor(p) == ~Finished(p) /\ p \notin Foreign

CountParents(c) ==
  /\ At(c, "count")
  /\ reqs' = [reqs EXCEPT ![c].pc = "insert",
                          ![c].pending = Cardinality({p \in reqs[c].parents : WaitsFor(p)})]
  /\ UNCHANGED <<jobs, edges, keys, default, answers, histVars>>

\* Ids in the making belong to their transactions.
Fresh(j) == j \notin Born /\ \A d \in Client : reqs[d] # Idle => reqs[d].new # j

\* Ids are alike, and the first one left is as good as any.
NextId(j) == Fresh(j) /\ \A k \in Job : Fresh(k) => j <= k

\* (mutant) a second row for the key is accepted
KeyFreeAlways(c) == TRUE

KeyFree(c) == reqs[c].key # None => reqs[c].drops \/ keys[reqs[c].key] = None

\* errConflictRetry, in tx
Again(c) ==
  \/ /\ reqs[c].tries < MaxTries
     /\ reqs' = [reqs EXCEPT ![c].pc = "depth", ![c].tries = @ + 1, ![c].old = None,
                             ![c].drops = FALSE, ![c].pending = 0]
     /\ UNCHANGED answers
  \/ /\ reqs[c].tries = MaxTries
     /\ Answer(c, "error", None)

\* insertJobSQL and insertIdemSQL
InsertJob(c) ==
  /\ At(c, "insert")
  /\ reqs[c].key # None => ~HeldByOther(c)
  /\ \/ /\ KeyFree(c)
        /\ \E j \in Job : NextId(j) /\ reqs' = [reqs EXCEPT ![c].pc = "commit", ![c].new = j]
        /\ UNCHANGED answers
     \/ /\ ~KeyFree(c)
        /\ Again(c)
  /\ UNCHANGED <<jobs, edges, keys, default, histVars>>

\* link, emit and the commit.  Nobody knows the id of the new job, so the
\* cycle check finds nothing.
Commit(c) ==
  LET r == reqs[c]
  IN /\ At(c, "commit")
     /\ jobs' = [jobs EXCEPT ![r.new] =
          [status |-> IF r.pending > 0 \/ r.later THEN "scheduled" ELSE "queued",
           pending |-> r.pending, later |-> r.later, key |-> r.key,
           fp |-> IF r.key = None THEN None ELSE r.fp, fresh |-> TRUE, gen |-> 0]]
     /\ edges' = edges \cup (r.parents \X {r.new})
     /\ keys' = [k \in Key |-> IF k = r.key THEN r.new ELSE keys[k]]
     /\ Answer(c, "job", r.new)
     /\ stray' = IF r.drops /\ keys[r.key] # r.old THEN stray \cup {keys[r.key]} ELSE stray
     /\ UNCHANGED <<default, seeded>>

\* The request fails, or its server dies.
Abort(c) ==
  /\ reqs[c] # Idle
  /\ Answer(c, "error", None)
  /\ UNCHANGED <<jobs, edges, keys, default, histVars>>

\* submitBatch: n jobs without keys or parents, all or none.  The depth cap
\* counts those with a later run_at too.
SubmitBatch(S, later) ==
  /\ Cardinality({d \in Client : reqs[d] # Idle}) + Cardinality(S) <= Cardinality(Job \ Born)
  /\ seeded /\ \A j \in S : Fresh(j)
  /\ Queued + Cardinality(S) <= MaxDepth
  /\ jobs' = [j \in Job |->
       IF j \in S
       THEN [Unborn EXCEPT !.status = IF later[j] THEN "scheduled" ELSE "queued",
                           !.later = later[j]]
       ELSE jobs[j]]
  /\ UNCHANGED <<edges, keys, default, reqs, answers, histVars>>

-----------------------------------------------------------------------------
(* What happens to the jobs.                                               *)

Claim(j) ==
  /\ jobs[j].status = "queued" /\ j \in Worked
  /\ jobs' = [jobs EXCEPT ![j].status = "running"]
  /\ UNCHANGED <<edges, keys, default, reqs, answers, histVars>>

\* fl.finish_dependents, for one child
Counted(r) ==
  [r EXCEPT !.pending = @ - 1,
            !.status = IF r.pending = 1 /\ ~r.later THEN "queued" ELSE @]

\* report_success and fl.finish_dependents
Complete(j) ==
  /\ jobs[j].status = "running"
  /\ jobs' = [k \in Job |->
       IF k = j THEN [jobs[j] EXCEPT !.status = "completed"]
       ELSE IF <<j, k>> \in edges /\ jobs[k].status = "scheduled" /\ jobs[k].pending > 0
            THEN Counted(jobs[k]) ELSE jobs[k]]
  /\ UNCHANGED <<edges, keys, default, reqs, answers, histVars>>

\* Jobs below j: the graph has no cycle and at most |Job| levels.
Below(j) ==
  LET Down[n \in 0 .. Cardinality(Job)] ==
        IF n = 0 THEN {e[2] : e \in {x \in edges : x[1] = j}}
        ELSE Down[n - 1] \cup {e[2] : e \in {x \in edges : x[1] \in Down[n - 1]}}
  IN Down[Cardinality(Job)]

\* report_failure without attempts left, and fl.cancel_descendants
Die(j) ==
  /\ jobs[j].status = "running"
  /\ jobs' = [k \in Job |->
       IF k = j THEN [jobs[j] EXCEPT !.status = "dead_letter"]
       ELSE IF k \in Below(j) /\ jobs[k].status \in {"scheduled", "queued"}
            THEN [jobs[k] EXCEPT !.status = "cancelled", !.pending = 0] ELSE jobs[k]]
  /\ UNCHANGED <<edges, keys, default, reqs, answers, histVars>>

\* cancelJob; a job that waits for parents runs into a check constraint.
Cancel(j) ==
  /\ j \in Born \cap Worked /\ ~Finished(j) /\ jobs[j].pending = 0
  /\ jobs' = [jobs EXCEPT ![j].status = "cancelled"]
  /\ UNCHANGED <<edges, keys, default, reqs, answers, histVars>>

\* replayJob
Replay(j) ==
  /\ jobs[j].status = "dead_letter" /\ jobs[j].gen < MaxReplays
  /\ \A k \in Below(j) : jobs[k].status # "cancelled"
  /\ jobs' = [jobs EXCEPT ![j].status = "queued", ![j].gen = @ + 1]
  /\ UNCHANGED <<edges, keys, default, reqs, answers, histVars>>

\* Promote once run_at has come, or retryJob before.
Release(j) ==
  /\ jobs[j].status = "scheduled" /\ jobs[j].pending = 0
  /\ jobs' = [jobs EXCEPT ![j].status = "queued", ![j].later = FALSE]
  /\ UNCHANGED <<edges, keys, default, reqs, answers, histVars>>

RunAtComes(j) ==
  /\ jobs[j].status = "scheduled" /\ jobs[j].later
  /\ jobs' = [jobs EXCEPT ![j].later = FALSE]
  /\ UNCHANGED <<edges, keys, default, reqs, answers, histVars>>

\* A day has passed since the job was submitted.
Expire(j) ==
  /\ jobs[j].key # None /\ jobs[j].fresh
  /\ jobs' = [jobs EXCEPT ![j].fresh = FALSE]
  /\ UNCHANGED <<edges, keys, default, reqs, answers, histVars>>

\* The archiver deletes expired keys.
PruneKey(k) ==
  /\ keys[k] # None /\ ~jobs[keys[k]].fresh
  /\ \A c \in Client : ~Holds(c, k)
  /\ keys' = [keys EXCEPT ![k] = None]
  /\ UNCHANGED <<jobs, edges, default, reqs, answers, histVars>>

\* updateQueue changes default_priority or the retry policy.
TuneQueue ==
  /\ ~seeded /\ default < MaxTunings
  /\ default' = default + 1
  /\ UNCHANGED <<jobs, edges, keys, reqs, answers, histVars>>

RequestStep(c) ==
  CheckDepth(c) \/ FindKey(c) \/ DropKey(c) \/ CountParents(c) \/ InsertJob(c) \/ Commit(c)

JobStep(j) ==
  Complete(j) \/ Die(j) \/ Cancel(j) \/ Replay(j) \/ Release(j) \/ RunAtComes(j)

Next ==
  \/ \E c \in Client, k \in Key \cup {None}, b \in Body, P \in SUBSET Job, l \in BOOLEAN :
       Start(c, k, b, P, l)
  \/ \E c \in Client : RequestStep(c) \/ Abort(c)
  \/ \E S \in SUBSET Job : S # {} /\ Cardinality(S) <= 2 /\ \E l \in [S -> BOOLEAN] : SubmitBatch(S, l)
  \/ \E j \in Job : Claim(j) \/ Expire(j) \/ (seeded /\ JobStep(j))
  \/ \E k \in Key : PruneKey(k)
  \/ TuneQueue

Spec == Init /\ [][Next]_vars

\* A server goes on with the requests it has.  A request that waits for the
\* writer of a key is woken whenever that one ends; it is not overtaken for ever.
FairSpec == Spec /\ \A c \in Client : SF_vars(RequestStep(c))

-----------------------------------------------------------------------------
(* Properties.                                                             *)

\* Within the life of an idempotency key, however requests overlap, it makes
\* one job (findIdemSQL, deleteIdemSQL, insertIdemSQL in submitJob), unless a
\* request that read the key when it had expired deletes the fresh one after it.
KeyOnce ==
  \A i, j \in Born : (jobs[i].key # None /\ jobs[i].key = jobs[j].key
                        /\ jobs[i].fresh /\ jobs[j].fresh /\ {i, j} \cap stray = {}) => i = j

\* What holds in every state: the types, a count of parents that is never
\* negative among them, and one job for a key (submitJob, fl.finish_dependents).
SubmissionSafe == TypeOK /\ KeyOnce

\* Every request is answered, although requests for a key wait for one another
\* and start over (insertIdemSQL, and the retries of tx).
Answered == \A c \in Client : reqs[c] # Idle ~> reqs[c] = Idle

\* A request that repeats a key and a body already stored when it began is
\* answered with the job that they made, unless it fails, the queue is full,
\* the defaults of the queue have changed, or the key has expired meanwhile
\* (the order of the checks in submitJob).
RepeatFindsOriginal ==
  [][\A c \in Client :
       (reqs[c] # Idle /\ reqs'[c] = Idle /\ reqs[c].orig # None) =>
         \/ answers'[c].job = reqs[c].orig \/ answers'[c].what \in {"error", "full"}
         \/ answers'[c].what = "conflict" /\ reqs[c].fp # jobs[reqs[c].orig].fp
         \/ ~jobs[reqs[c].orig].fresh \/ reqs[c].orig \in stray]_vars

Parents(j, E) == {p \in Job : <<p, j>> \in E}

\* pending_deps counts a replayed parent twice, and one of another project,
\* which was not counted at the start, when it completes.
Miscounted(j, E) == \E p \in Parents(j, E) : p \in Foreign \/ jobs'[p].gen > 0

\* A job does not become runnable, when it is submitted or later, before every
\* job it depends on has finished, as long as none of those is foreign or
\* replayed (parentsSQL, whatever happens between the count and the commit, and
\* fl.finish_dependents, which trusts pending_deps).
NotBeforeParents ==
  [][\A j \in Job :
       (jobs[j].status \in {"unborn", "scheduled"} /\ jobs'[j].status = "queued"
         /\ ~Miscounted(j, edges'))
       => \A p \in Parents(j, edges') : jobs'[p].status \in Terminal]_vars
=============================================================================
