------------------------------- MODULE Outbox -------------------------------
(***************************************************************************)
(* Events from the transaction that emits them to the client that reads    *)
(* them: fl.emit, the scheduler's Notify and Maintain, the stream of an    *)
(* API server with its listener, and the pages of GET /events.             *)
(*                                                                         *)
(* A transaction emits one event.  Ids come from a sequence at the insert, *)
(* under a lock per project that is held until the commit; the day of the  *)
(* event, which chooses its partition, is stamped by the same insert after *)
(* the id.  A client keeps the last id it saw and comes back with it; told *)
(* that its cursor is too old, it goes on from the oldest id it is given.  *)
(***************************************************************************)
EXTENDS Integers, Sequences, FiniteSets, FiniteSetsExt

CONSTANTS
  Tx,            \* transactions that emit an event
  Reader,        \* clients
  Project,       \* projects
  Reads,         \* Reader -> the project it reads
  Batch,         \* streamBatch, and the limit of a page
  MaxStreams,    \* streamsPerUser, for one user
  MaxDay         \* bound: days

ASSUME OutboxAssumption ==
  /\ Reads \in [Reader -> Project]
  /\ Batch \in Nat \ {0} /\ MaxStreams \in Nat \ {0} /\ MaxDay \in Nat

VARIABLES
  tx,        \* Tx -> progress, project, id and day of its event
  seq,       \* last id of the sequence
  today,
  cut,       \* the days before it have been dropped
  low,       \* events_retention.low_water_id
  conn,      \* Reader -> its stream or page request in the API server
  client,    \* Reader -> the cursor, what has been seen, what was given up
  listener,  \* the goroutine listen: off, starting or on
  note,      \* a notification waits on the listener's connection
  notifier   \* the scheduler's loop: its head, and a head it is about to tell

vars == <<tx, seq, today, cut, low, conn, client, listener, note, notifier>>

NoProject == "none"

Event(t) == tx[t].pc = "committed"
Open == {"alloc", "stamped"}
Closed == [pc |-> "closed", page |-> FALSE, after |-> 0, batch |-> <<>>, wake |-> FALSE]

TypeOK ==
  /\ \A t \in Tx : /\ tx[t].pc \in {"idle", "alloc", "stamped", "committed", "aborted", "dropped"}
                   /\ tx[t].proj \in Project \cup {NoProject}
                   /\ tx[t].id \in 0 .. seq /\ tx[t].day \in 0 .. today
  /\ seq \in 0 .. Cardinality(Tx) /\ today \in 0 .. MaxDay /\ cut \in 0 .. today
  /\ low \in 0 .. seq + 1
  /\ \A r \in Reader :
       /\ conn[r].pc \in {"closed", "low", "read", "send", "wait"}
       /\ conn[r].after \in 0 .. seq /\ conn[r].wake \in BOOLEAN /\ conn[r].page \in BOOLEAN
       /\ client[r].cursor \in 0 .. seq /\ client[r].gone \in 0 .. seq
       /\ Len(client[r].got) <= Cardinality(Tx)
  /\ listener \in {"off", "starting", "on"} /\ note \in BOOLEAN
  /\ notifier.pc \in {"idle", "tell"} /\ notifier.head \in 0 .. seq /\ notifier.next \in 0 .. seq

Init ==
  /\ tx = [t \in Tx |-> [pc |-> "idle", proj |-> NoProject, id |-> 0, day |-> 0]]
  /\ seq = 0 /\ today = 0 /\ cut = 0 /\ low = 0
  /\ conn = [r \in Reader |-> Closed]
  /\ client = [r \in Reader |-> [cursor |-> 0, got |-> <<>>, gone |-> 0]]
  /\ listener = "off" /\ note = FALSE
  /\ notifier = [pc |-> "idle", head |-> 0, next |-> 0]

-----------------------------------------------------------------------------
(* Emitting.                                                               *)

\* (mutant) nobody waits for the lock of the project
LockedNever(p) == FALSE

\* The advisory lock of the project is held until the transaction ends.
Locked(p) == \E u \in Tx : tx[u].pc \in Open /\ tx[u].proj = p

\* fl.emit takes the lock and the insert its id.
Emit(t, p) ==
  /\ tx[t].pc = "idle" /\ ~Locked(p)
  /\ seq' = seq + 1
  /\ tx' = [tx EXCEPT ![t].pc = "alloc", ![t].proj = p, ![t].id = seq + 1]
  /\ UNCHANGED <<today, cut, low, conn, client, listener, note, notifier>>

\* created_at default fl.now()
Stamp(t) ==
  /\ tx[t].pc = "alloc"
  /\ tx' = [tx EXCEPT ![t].pc = "stamped", ![t].day = today]
  /\ UNCHANGED <<seq, today, cut, low, conn, client, listener, note, notifier>>

CommitTx(t) ==
  /\ tx[t].pc = "stamped"
  /\ tx' = [tx EXCEPT ![t].pc = "committed"]
  /\ UNCHANGED <<seq, today, cut, low, conn, client, listener, note, notifier>>

AbortTx(t) ==
  /\ tx[t].pc \in Open
  /\ tx' = [tx EXCEPT ![t].pc = "aborted"]
  /\ UNCHANGED <<seq, today, cut, low, conn, client, listener, note, notifier>>

-----------------------------------------------------------------------------
(* The scheduler.                                                          *)

\* Notify: max(id) over all projects
NotifyRead ==
  LET head == Max({0} \cup {tx[t].id : t \in {u \in Tx : Event(u)}})
  IN /\ notifier.pc = "idle" /\ head > notifier.head
     /\ notifier' = [notifier EXCEPT !.pc = "tell", !.next = head]
     /\ UNCHANGED <<tx, seq, today, cut, low, conn, client, listener, note>>

\* pg_notify reaches whoever listens.
NotifyTell ==
  /\ notifier.pc = "tell"
  /\ note' = (note \/ listener = "on")
  /\ notifier' = [pc |-> "idle", head |-> notifier.next, next |-> 0]
  /\ UNCHANGED <<tx, seq, today, cut, low, conn, client, listener>>

\* The statement fails and the head stays, or the scheduler starts anew.
NotifyFails ==
  /\ \/ notifier.pc = "tell" /\ notifier' = [notifier EXCEPT !.pc = "idle", !.next = 0]
     \/ notifier' = [pc |-> "idle", head |-> 0, next |-> 0]
  /\ UNCHANGED <<tx, seq, today, cut, low, conn, client, listener, note>>

\* (mutant) the oldest id left is not looked up again after a drop
LowKept(ids) == low

\* lowWaterSQL over the ids that are left
Low(ids) == Max({low, IF ids = {} THEN seq + 1 ELSE Min(ids)})

\* Maintain drops the partitions of past days.  Dropping waits for the
\* transactions that have written to the table.
Maintain ==
  /\ cut < today => \A t \in Tx : tx[t].pc \notin Open
  /\ cut' = today
  /\ tx' = [t \in Tx |->
       IF Event(t) /\ tx[t].day < today THEN [tx[t] EXCEPT !.pc = "dropped"] ELSE tx[t]]
  /\ low' = Low({tx'[t].id : t \in {u \in Tx : tx'[u].pc = "committed"}})
  /\ UNCHANGED <<seq, today, conn, client, listener, note, notifier>>

NextDay ==
  /\ today < MaxDay
  /\ today' = today + 1
  /\ UNCHANGED <<tx, seq, cut, low, conn, client, listener, note, notifier>>

-----------------------------------------------------------------------------
(* The API server.                                                         *)

Streams == {r \in Reader : conn[r].pc # "closed" /\ ~conn[r].page}

\* subscribe, or a request for a page
Connect(r, page) ==
  /\ conn[r].pc = "closed"
  /\ ~page => Cardinality(Streams) < MaxStreams
  /\ conn' = [conn EXCEPT ![r] =
       [Closed EXCEPT !.pc = "low", !.page = page, !.after = client[r].cursor]]
  /\ listener' = IF ~page /\ Streams = {} THEN "starting" ELSE listener
  /\ UNCHANGED <<tx, seq, today, cut, low, client, note, notifier>>

\* release
Released(r) ==
  /\ conn' = [conn EXCEPT ![r] = Closed]
  /\ IF ~conn[r].page /\ Streams = {r}
     THEN listener' = "off" /\ note' = FALSE
     ELSE UNCHANGED <<listener, note>>

\* The check of the cursor, once per stream.
ReadLow(r) ==
  /\ conn[r].pc = "low"
  /\ \/ /\ conn[r].after + 1 < low
        /\ client' = [client EXCEPT ![r].cursor = low - 1, ![r].gone = low - 1]
        /\ Released(r)
     \/ /\ conn[r].after + 1 >= low
        /\ conn' = [conn EXCEPT ![r].pc = "read"]
        /\ UNCHANGED <<client, listener, note>>
  /\ UNCHANGED <<tx, seq, today, cut, low, notifier>>

IsNew(r, t) == tx[t].id > conn[r].after

\* listEventsSQL: the ids of the first new events of the project
Page(r) ==
  LET ids == {tx[t].id : t \in {u \in Tx : Event(u) /\ tx[u].proj = Reads[r] /\ IsNew(r, u)}}
      first == {i \in ids : Cardinality({k \in ids : k < i}) < Batch}
  IN [n \in 1 .. Cardinality(first) |->
        CHOOSE i \in first : Cardinality({k \in first : k < i}) = n - 1]

Read(r) ==
  /\ conn[r].pc = "read"
  /\ \/ /\ Page(r) # <<>>
        /\ conn' = [conn EXCEPT ![r].pc = "send", ![r].batch = Page(r)]
        /\ UNCHANGED <<listener, note>>
     \/ /\ Page(r) = <<>> /\ ~conn[r].page
        /\ conn' = [conn EXCEPT ![r].pc = "wait"]
        /\ UNCHANGED <<listener, note>>
     \/ /\ Page(r) = <<>> /\ conn[r].page
        /\ Released(r)
  /\ UNCHANGED <<tx, seq, today, cut, low, client, notifier>>

Saw(r) ==
  LET b == conn[r].batch
  IN client' = [client EXCEPT ![r].cursor = b[Len(b)], ![r].got = @ \o b]

\* send: a full batch is followed by the next without waiting.
Send(r) ==
  LET b == conn[r].batch
  IN /\ conn[r].pc = "send"
     /\ Saw(r)
     /\ \/ /\ ~conn[r].page
           /\ conn' = [conn EXCEPT ![r].pc = IF Len(b) = Batch THEN "read" ELSE "wait",
                                   ![r].after = b[Len(b)], ![r].batch = <<>>]
           /\ UNCHANGED <<listener, note>>
        \/ /\ conn[r].page
           /\ Released(r)
     /\ UNCHANGED <<tx, seq, today, cut, low, notifier>>

\* The connection breaks, before or after the client got what was being sent.
Break(r) ==
  /\ conn[r].pc # "closed"
  /\ Released(r)
  /\ UNCHANGED client \/ (conn[r].pc = "send" /\ Saw(r))
  /\ UNCHANGED <<tx, seq, today, cut, low, notifier>>

Woken(r) ==
  /\ conn[r].pc = "wait" /\ conn[r].wake
  /\ conn' = [conn EXCEPT ![r].pc = "read", ![r].wake = FALSE]
  /\ UNCHANGED <<tx, seq, today, cut, low, client, listener, note, notifier>>

\* (mutant) a stream waits for its waker only
PollNever(r) == FALSE

\* streamPoll has passed.
Poll(r) ==
  /\ conn[r].pc = "wait"
  /\ conn' = [conn EXCEPT ![r].pc = "read"]
  /\ UNCHANGED <<tx, seq, today, cut, low, client, listener, note, notifier>>

\* listenOnce
Listen ==
  /\ listener = "starting"
  /\ listener' = "on"
  /\ UNCHANGED <<tx, seq, today, cut, low, conn, client, note, notifier>>

ListenBreaks ==
  /\ listener = "on"
  /\ listener' = "starting" /\ note' = FALSE
  /\ UNCHANGED <<tx, seq, today, cut, low, conn, client, notifier>>

\* wake: a waker holds one signal.
Wake ==
  /\ note
  /\ note' = FALSE
  /\ conn' = [r \in Reader |->
       IF r \in Streams THEN [conn[r] EXCEPT !.wake = TRUE] ELSE conn[r]]
  /\ UNCHANGED <<tx, seq, today, cut, low, client, listener, notifier>>

ReaderStep(r) == ReadLow(r) \/ Read(r) \/ Send(r) \/ Woken(r) \/ Poll(r)

Next ==
  \/ \E t \in Tx : (\E p \in Project : Emit(t, p)) \/ Stamp(t) \/ CommitTx(t) \/ AbortTx(t)
  \/ \E r \in Reader : (\E page \in BOOLEAN : Connect(r, page)) \/ ReaderStep(r) \/ Break(r)
  \/ NotifyRead \/ NotifyTell \/ NotifyFails \/ Maintain \/ NextDay
  \/ Listen \/ ListenBreaks \/ Wake

Spec == Init /\ [][Next]_vars

\* The loops of the scheduler and of the server go on, and transactions end.
FairSpec ==
  /\ Spec
  /\ \A r \in Reader : WF_vars(ReaderStep(r))
  /\ \A t \in Tx : WF_vars(Stamp(t)) /\ WF_vars(CommitTx(t))
  /\ WF_vars(NotifyRead) /\ WF_vars(NotifyTell) /\ WF_vars(Listen) /\ WF_vars(Wake)

-----------------------------------------------------------------------------
(* Properties.                                                             *)

Seen(r) == {client[r].got[i] : i \in DOMAIN client[r].got}

\* A client that has seen an id has seen every event of its project up to it
\* that is still stored, unless it was told of the loss: no event becomes
\* visible behind a cursor (fl.emit's lock against listEventsSQL).
NothingBehindCursor ==
  \A r \in Reader, t \in Tx :
    Event(t) /\ tx[t].proj = Reads[r] /\ client[r].gone < tx[t].id /\ tx[t].id <= client[r].cursor
      => tx[t].id \in Seen(r)

\* Across batches, breaks and reconnects a client sees ids in order and none
\* twice (pump, listEvents: the cursor is what was sent last).
SeenInOrder ==
  \A r \in Reader : \A i, k \in DOMAIN client[r].got :
    i < k => client[r].got[i] < client[r].got[k]

\* What holds in every state: the types, and that a client has seen every event
\* up to its cursor, once and in order (fl.emit, pump, listEvents).
OutboxSafe == TypeOK /\ NothingBehindCursor /\ SeenInOrder

\* Everything dropped lies below the low water mark, so that a cursor which
\* passes the check has lost nothing yet (lowWaterSQL in Maintain).  The one
\* exception is an event of another project that drew its id before and was
\* stamped a day later: ids and days have the same order only in a project.
LowWaterCoversDrops ==
  \A t \in Tx : tx[t].pc = "dropped" =>
    \/ tx[t].id < low
    \/ \E u \in Tx : tx[u].proj # tx[t].proj /\ tx[u].id < tx[t].id /\ tx[u].day > tx[t].day

\* An event that is committed reaches every open stream of its project, or the
\* stream breaks, or the event is dropped first: a lost or missing notification
\* costs time only (the poll in pump).
Delivered ==
  \A r \in Reader, t \in Tx :
    (Event(t) /\ tx[t].proj = Reads[r] /\ r \in Streams) ~>
      (tx[t].id \in Seen(r) \/ r \notin Streams \/ ~Event(t) \/ tx[t].id <= client[r].gone)
=============================================================================
