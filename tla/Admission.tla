----------------------------- MODULE Admission ------------------------------
(***************************************************************************)
(* The claim gate of one queue: fl.queue_admit with its shards, shares and *)
(* token buckets, against the API calls that pause, tune and reshard the   *)
(* queue and against fl.reconcile_in_flight.                               *)
(*                                                                         *)
(* queue_admit reads the queue without a lock, picks a shard from an       *)
(* unlocked read, and then locks that shard and decides with what it read. *)
(* What it writes is visible at its commit.  The trigger fl.spread looks   *)
(* at the committed counters, and its own writes wait for locked shards.   *)
(*                                                                         *)
(* Tokens are counted in parts of which Unit make one, so that a shard's   *)
(* share of the burst and of the rate is a whole number.                   *)
(***************************************************************************)
EXTENDS Integers, FiniteSets, FiniteSetsExt

CONSTANTS
  Job,        \* jobs of the queue
  Worker,     \* workers claiming from it
  Start,      \* the queue as it is created
  Tunings,    \* queues that updateQueue may turn it into
  MaxShards,  \* bound: shards 0 .. MaxShards - 1
  Want,       \* free slots a worker asks for
  Unit,       \* parts of a token
  MaxTime,    \* bound: seconds
  None,       \* no such row
  Queued, Done  \* a job that holds no slot

Queue == [limit : Nat \ {0}, shards : 1 .. MaxShards, rate : Nat, burst : Nat]

VARIABLES
  now,
  queue,     \* max_concurrency, shards, rl_limit_per_sec, rl_burst
  paused,    \* queues.paused
  shard,     \* the rows of queue_shards, or None
  jobs,      \* Job -> queued, or the shard it holds a slot of, or done
  adm,       \* Worker -> its call of Claim
  resize,    \* the update of the queue that waits for locked shards, or None
  granted,   \* (history) slots granted under a rate, since the last resize
  since,     \* (history) when that was
  raced      \* (history) a resize met a claim, or a repair a reservation

histVars == <<granted, since, raced>>
admitVars == <<now, queue, paused, shard, jobs, adm, resize, histVars>>

Shard == 0 .. MaxShards - 1

Burst(q) == (q.burst * Unit) \div q.shards

NewShard(q) == [inFlight |-> 0, tokens |-> Burst(q), at |-> now]

NoCall == [pc |-> "idle", q |-> None, sh |-> 0, n |-> 0]

AdmitTypeOK ==
  /\ now \in 0 .. MaxTime
  /\ queue \in Queue /\ paused \in BOOLEAN
  /\ \A s \in Shard : shard[s] = None
       \/ (shard[s].inFlight \in Nat /\ shard[s].tokens \in Nat /\ shard[s].at \in 0 .. now)
  /\ jobs \in [Job -> Shard \cup {Queued, Done}]
  /\ \A w \in Worker : /\ adm[w].pc \in {"idle", "read", "picked", "held", "take"}
                       /\ adm[w].sh \in Shard /\ adm[w].n \in 0 .. Want
  /\ resize = None \/ resize \in Queue
  /\ granted \in Nat /\ since \in 0 .. now /\ raced \in BOOLEAN

AdmitInit ==
  /\ now = 0
  /\ queue = Start
  /\ paused = FALSE
  /\ shard = [s \in Shard |->
       IF s < Start.shards THEN [inFlight |-> 0, tokens |-> Burst(Start), at |-> 0] ELSE None]
  /\ jobs = [j \in Job |-> Queued]
  /\ adm = [w \in Worker |-> NoCall]
  /\ resize = None
  /\ granted = 0 /\ since = 0 /\ raced = FALSE

-----------------------------------------------------------------------------
(* fl.queue_admit.                                                         *)

\* The unlocked read of the queue.
ReadQueue(w) ==
  /\ adm[w].pc = "idle"
  /\ ~paused
  /\ adm' = [adm EXCEPT ![w] = [@ EXCEPT !.pc = "read", !.q = queue]]
  /\ UNCHANGED <<now, queue, paused, shard, jobs, resize, histVars>>

\* (mutant) one shard too many gets a slot of the remainder
CapRoundedUp(q, s) == q.limit \div q.shards + (IF s <= q.limit % q.shards THEN 1 ELSE 0)

\* fl.shard_slots: the share of shard s
Cap(q, s) == q.limit \div q.shards + (IF s < q.limit % q.shards THEN 1 ELSE 0)

\* Any shard with room, in an order that depends on the connection.
PickShard(w) ==
  LET q == adm[w].q
      room == {s \in Shard : shard[s] # None /\ shard[s].inFlight < Cap(q, s)}
  IN /\ adm[w].pc = "read"
     /\ \/ \E s \in room : adm' = [adm EXCEPT ![w].pc = "picked", ![w].sh = s]
        \/ room = {} /\ adm' = [adm EXCEPT ![w] = NoCall]
     /\ UNCHANGED <<now, queue, paused, shard, jobs, resize, histVars>>

\* (mutant) every shard refills at the rate of the queue
TokensAtFullRate(q, r) == Min({Burst(q), r.tokens + (now - r.at) * q.rate * Unit})

\* Tokens of shard r by now.
Tokens(q, r) == Min({Burst(q), r.tokens + (now - r.at) * ((q.rate * Unit) \div q.shards)})

Slots(q, s) ==
  Min({Want, Max({Cap(q, s) - shard[s].inFlight, 0}),
       IF q.rate = 0 THEN Want ELSE Tokens(q, shard[s]) \div Unit})

LockedByOther(w) == \E v \in Worker \ {w} : adm[v].pc = "held" /\ adm[v].sh = adm[w].sh

\* The shard is locked, the slots are computed and written.  A shard that has
\* been deleted meanwhile grants nothing.
Admit(w) ==
  LET q == adm[w].q
      s == adm[w].sh
      n == IF shard[s] = None THEN 0 ELSE Slots(q, s)
  IN /\ adm[w].pc = "picked"
     /\ ~LockedByOther(w)
     /\ adm' = [adm EXCEPT ![w] =
          IF n = 0 THEN NoCall ELSE [pc |-> "held", q |-> q, sh |-> s, n |-> n]]
     /\ UNCHANGED <<now, queue, paused, shard, jobs, resize, histVars>>

\* The commit of queue_admit.
AdmitCommits(w) ==
  LET q == adm[w].q
      s == adm[w].sh
      n == adm[w].n
  IN /\ adm[w].pc = "held"
     /\ shard' = [shard EXCEPT ![s] =
          IF q.rate = 0 THEN [@ EXCEPT !.inFlight = @ + n]
          ELSE [inFlight |-> @.inFlight + n, tokens |-> Tokens(q, @) - n * Unit, at |-> now]]
     /\ granted' = IF q.rate = 0 THEN granted ELSE granted + n
     /\ adm' = [adm EXCEPT ![w].pc = "take"]
     /\ UNCHANGED <<now, queue, paused, jobs, resize, since, raced>>

-----------------------------------------------------------------------------
(* Taking jobs and giving slots back.                                      *)

\* fl.queue_release
Released(rows, s, n) ==
  IF rows[s] = None THEN rows ELSE [rows EXCEPT ![s].inFlight = Max({@ - n, 0})]

Held(s) == \E w \in Worker : adm[w].pc = "held" /\ adm[w].sh = s

\* take: as many queued jobs as there are, and the rest of the slots back.
Take(w) ==
  LET s == adm[w].sh
      queued == {j \in Job : jobs[j] = Queued}
  IN /\ adm[w].pc = "take"
     /\ \E S \in SUBSET queued :
          /\ Cardinality(S) = Min({adm[w].n, Cardinality(queued)})
          /\ Cardinality(S) < adm[w].n => ~Held(s)
          /\ jobs' = [j \in Job |-> IF j \in S THEN s ELSE jobs[j]]
          /\ shard' = Released(shard, s, adm[w].n - Cardinality(S))
     /\ adm' = [adm EXCEPT ![w] = NoCall]
     /\ UNCHANGED <<now, queue, paused, resize, histVars>>

\* A report, or a cancel, releases the slot of its job.
Finish(j) ==
  /\ jobs[j] \in Shard
  /\ ~Held(jobs[j])
  /\ shard' = Released(shard, jobs[j], 1)
  /\ \E s \in {Queued, Done} : jobs' = [jobs EXCEPT ![j] = s]
  /\ UNCHANGED <<now, queue, paused, adm, resize, histVars>>

-----------------------------------------------------------------------------
(* The API.                                                                *)

\* setPaused; an update in progress holds the row of the queue.
SetPaused(on) ==
  /\ resize = None
  /\ paused' = on
  /\ UNCHANGED <<now, queue, shard, jobs, adm, resize, histVars>>

\* fl.spread: surplus shards go, missing ones come, tokens are clamped.
Spread(q) ==
  [s \in Shard |->
    IF s >= q.shards THEN None
    ELSE IF shard[s] = None THEN NewShard(q)
    ELSE [shard[s] EXCEPT !.tokens = Min({@, Burst(q)})]]

\* updateQueue without a change of shards.  Its statement names shards and
\* rl_burst, so the trigger runs and its last update waits for locked shards.
Tune(q) ==
  /\ resize = None
  /\ q \in Tunings /\ q # queue /\ q.shards = queue.shards
  /\ \A s \in Shard : ~Held(s)
  /\ queue' = q
  /\ shard' = Spread(q)
  /\ UNCHANGED <<now, paused, jobs, adm, resize, histVars>>

\* The check of fl.spread, over what is committed.
NoWork ==
  /\ \A s \in Shard : shard[s] # None => shard[s].inFlight = 0
  /\ \A j \in Job : jobs[j] \notin Shard

\* updateQueue with a change of shards passes the check...
ResizeCheck(q) ==
  /\ resize = None
  /\ q \in Tunings /\ q.shards # queue.shards
  /\ NoWork
  /\ resize' = q
  /\ UNCHANGED <<now, queue, paused, shard, jobs, adm, histVars>>

\* ... and writes the shards once nobody holds one of them.
ResizeWrite ==
  /\ resize # None
  /\ \A s \in Shard : ~Held(s)
  /\ queue' = resize
  /\ shard' = Spread(resize)
  /\ resize' = None
  /\ granted' = 0 /\ since' = now
  /\ raced' = (raced \/ ~NoWork \/ \E w \in Worker : adm[w].pc # "idle")
  /\ UNCHANGED <<now, paused, jobs, adm>>

Active(s) == Cardinality({j \in Job : jobs[j] = s})

\* Slots granted and not yet used.
Reserved(s) ==
  MapThenSumSet(LAMBDA w : adm[w].n, {w \in Worker : adm[w].pc = "take" /\ adm[w].sh = s})

\* fl.reconcile_in_flight, for one shard
Reconcile(s) ==
  /\ shard[s] # None /\ ~Held(s)
  /\ shard' = [shard EXCEPT ![s].inFlight = Active(s)]
  /\ raced' = (raced \/ Reserved(s) > 0)
  /\ UNCHANGED <<now, queue, paused, jobs, adm, resize, granted, since>>

Tick ==
  /\ now < MaxTime
  /\ now' = now + 1
  /\ UNCHANGED <<queue, paused, shard, jobs, adm, resize, histVars>>

ClaimStep(w) == ReadQueue(w) \/ PickShard(w) \/ Admit(w) \/ AdmitCommits(w) \/ Take(w)

AdmitNext ==
  \/ \E w \in Worker : ClaimStep(w)
  \/ \E j \in Job : Finish(j)
  \/ \E on \in BOOLEAN : SetPaused(on)
  \/ \E q \in Tunings : Tune(q) \/ ResizeCheck(q)
  \/ ResizeWrite
  \/ \E s \in Shard : Reconcile(s)
  \/ Tick

AdmitSpec == AdmitInit /\ [][AdmitNext]_admitVars

-----------------------------------------------------------------------------
(* Properties.                                                             *)

InFlight ==
  MapThenSumSet(LAMBDA s : IF shard[s] = None THEN 0 ELSE shard[s].inFlight, Shard)

\* Over all shards, no more slots are lent than the highest max_concurrency the
\* queue has had, although every admission decides with a limit it read before
\* and a share of it (queue_admit, fl.shard_slots: "the sum is still the cap").
\* Only a resize that met a claim under way, or a repair that met a reservation,
\* can make it otherwise (fl.spread and fl.reconcile_in_flight do not look).
WithinLimit == ~raced => InFlight <= Max({q.limit : q \in Tunings \cup {Start}})

\* The counter of a shard is exactly the jobs that hold one of its slots and the
\* slots granted but not yet used, but for the same two races (admit, take,
\* Release, reconcile_in_flight).
CounterExact ==
  ~raced => \A s \in Shard : shard[s] # None => shard[s].inFlight = Active(s) + Reserved(s)

\* Since the start, or the last resize, no more slots have been granted than the
\* burst and the rate allow for the time passed, over all shards together (the
\* token arithmetic of queue_admit), with the exception above.
RateHeld ==
  Start.rate > 0 /\ ~raced => granted <= Start.burst + Start.rate * (now - since)

\* A queue has a row for each of its shards and no other, whatever resizes meet
\* (fl.spread).
RowsMatchShards == \A s \in Shard : shard[s] # None <=> s < queue.shards

\* What holds in every state: the types, no counter below zero among them, a row
\* for each shard, exact counters and slots within the limit (queue_admit,
\* queue_release, fl.spread).
AdmitSafe == AdmitTypeOK /\ RowsMatchShards /\ CounterExact /\ WithinLimit
=============================================================================
