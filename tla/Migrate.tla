------------------------------- MODULE Migrate ------------------------------
(***************************************************************************)
(* The migrations runner.  Several processes, perhaps of different         *)
(* releases, start at once on one database; any of them may be interrupted *)
(* or die between two statements.  A migration and its row in              *)
(* schema_migrations are one transaction, the advisory lock belongs to the *)
(* session and outlives transactions.                                      *)
(***************************************************************************)
EXTENDS Integers, Sequences, FiniteSets

CONSTANTS
  Runner,
  Known,     \* Runner -> versions built into it
  Broken,    \* versions whose SQL fails
  MaxStarts  \* bound: starts of a runner

Version == UNION {Known[r] : r \in Runner}

ASSUME MigrateAssumption ==
  /\ Version \subseteq Nat /\ IsFiniteSet(Version) /\ Broken \subseteq Version
  /\ MaxStarts \in Nat

VARIABLES
  schema,   \* the versions applied, in the order of their commits
  table,    \* schema_migrations
  holder,   \* sessions that hold the advisory lock
  run       \* Runner -> its progress

vars == <<schema, table, holder, run>>

Fresh == [pc |-> "idle", done |-> {}, cur |-> 0, starts |-> 0]

TypeOK ==
  /\ schema \in Seq(Version) /\ table \subseteq Version
  /\ holder \subseteq Runner /\ Cardinality(holder) <= 1
  /\ \A r \in Runner :
       /\ run[r].pc \in {"idle", "lock", "read", "next", "sql", "record", "commit", "unlock", "exit"}
       /\ run[r].done \subseteq Version /\ run[r].starts \in 0 .. MaxStarts

Init ==
  /\ schema = <<>> /\ table = {} /\ holder = {}
  /\ run = [r \in Runner |-> Fresh]

Goes(r, pc) == run' = [run EXCEPT ![r].pc = pc]
At(r, pc) == run[r].pc = pc

Begin(r) ==
  /\ At(r, "idle") /\ run[r].starts < MaxStarts
  /\ run' = [run EXCEPT ![r] = [Fresh EXCEPT !.pc = "lock", !.starts = run[r].starts + 1]]
  /\ UNCHANGED <<schema, table, holder>>

LockFree(r) == holder \subseteq {r}

\* pg_advisory_lock
Lock(r) ==
  /\ At(r, "lock") /\ LockFree(r)
  /\ holder' = holder \cup {r}
  /\ Goes(r, "read")
  /\ UNCHANGED <<schema, table>>

\* create table if not exists, and the versions already there
ReadTable(r) ==
  /\ At(r, "read")
  /\ run' = [run EXCEPT ![r].pc = "next", ![r].done = table]
  /\ UNCHANGED <<schema, table, holder>>

\* Load sorts by version.
IsNext(r, v) ==
  /\ v \in Known[r] \ run[r].done
  /\ \A w \in Known[r] \ run[r].done : v <= w

NextVersion(r) ==
  /\ At(r, "next")
  /\ \/ \E v \in Known[r] : IsNext(r, v) /\ run' = [run EXCEPT ![r].pc = "sql", ![r].cur = v]
     \/ Known[r] \subseteq run[r].done /\ Goes(r, "unlock")
  /\ UNCHANGED <<schema, table, holder>>

\* apply: the SQL itself; it fails where its objects exist already.
ExecSQL(r) ==
  LET v == run[r].cur
      exists == \E i \in DOMAIN schema : schema[i] = v
  IN /\ At(r, "sql")
     /\ Goes(r, IF v \in Broken \/ exists THEN "unlock" ELSE "record")
     /\ UNCHANGED <<schema, table, holder>>

\* A transaction of another session has inserted the same key.
Pending(r) == \E q \in Runner \ {r} : At(q, "commit") /\ run[q].cur = run[r].cur

\* The row in schema_migrations; its primary key may be taken.
Record(r) ==
  /\ At(r, "record") /\ ~Pending(r)
  /\ Goes(r, IF run[r].cur \in table THEN "unlock" ELSE "commit")
  /\ UNCHANGED <<schema, table, holder>>

\* (mutant) the first runs do not record what they apply
TableForgets(r) == IF run[r].starts < MaxStarts THEN table ELSE table \cup {run[r].cur}

\* The row commits with the migration.
TableAfter(r) == table \cup {run[r].cur}

Commit(r) ==
  /\ At(r, "commit")
  /\ schema' = Append(schema, run[r].cur)
  /\ table' = TableAfter(r)
  /\ run' = [run EXCEPT ![r].pc = "next", ![r].done = @ \cup {run[r].cur}]
  /\ UNCHANGED holder

\* The deferred unlock, and the end of the process.
Unlock(r) ==
  /\ At(r, "unlock")
  /\ holder' = holder \ {r}
  /\ Goes(r, "exit")
  /\ UNCHANGED <<schema, table>>

\* The context is cancelled between two statements: the deferred unlock fails
\* with it, and the lock stays until the session ends.
Cancel(r) ==
  /\ run[r].pc \in {"lock", "read", "next", "sql", "record", "commit"}
  /\ Goes(r, "exit")
  /\ UNCHANGED <<schema, table, holder>>

\* The process ends, or dies, and its session with it.
SessionEnds(r) ==
  /\ run[r].pc # "idle"
  /\ holder' = holder \ {r}
  /\ Goes(r, "idle")
  /\ UNCHANGED <<schema, table>>

RunnerStep(r) ==
  \/ Lock(r) \/ ReadTable(r) \/ NextVersion(r) \/ ExecSQL(r) \/ Record(r) \/ Commit(r)
  \/ Unlock(r)

Next == \E r \in Runner : Begin(r) \/ RunnerStep(r) \/ Cancel(r) \/ SessionEnds(r)

Spec == Init /\ [][Next]_vars

-----------------------------------------------------------------------------
(* Properties.                                                             *)

\* The table says exactly what has been applied, and nothing was applied twice,
\* whatever died in between (apply is one transaction).
TableIsSchema ==
  /\ table = {schema[i] : i \in DOMAIN schema}
  /\ \A i, k \in DOMAIN schema : schema[i] = schema[k] => i = k

\* A version is applied when every lower version that the same release knows
\* has been: what a release applied is a prefix of what it knows, or all of
\* the rest lies in a release that came before (Load's sort, done read once).
AppliedInOrder ==
  \A r \in Runner : At(r, "commit") =>
    \A v \in Known[r] : v < run[r].cur => v \in table

\* Runners that race do not fail each other: a SQL statement or a row is refused
\* only where the migration itself is broken (the advisory lock).
NoCollision ==
  \A r \in Runner : At(r, "unlock") => Known[r] \subseteq run[r].done \/ run[r].cur \in Broken

\* What holds in every state: the types, one holder of the lock among them, a
\* table that tells the schema, versions in order, and runners that do not fail
\* each other (Migrate, apply).
MigrateSafe == TypeOK /\ TableIsSchema /\ AppliedInOrder /\ NoCollision
=============================================================================
