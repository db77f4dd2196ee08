--------------------------- MODULE MigrateProofs ----------------------------
(***************************************************************************)
(* The migrations runner is safe for any number of runners and releases,   *)
(* whichever of them is interrupted or dies, and between any statements.   *)
(*                                                                         *)
(* What a runner read once from schema_migrations stays the truth because  *)
(* it holds the advisory lock for as long as it uses it.                   *)
(***************************************************************************)
EXTENDS Migrate, TLAPS

RunFields == {"pc", "done", "cur", "starts"}

Shape ==
  /\ run = [r \in Runner |-> run[r]] /\ \A r \in Runner : DOMAIN run[r] = RunFields
  /\ schema \in Seq(Version)

Past(r) == run[r].pc \in {"next", "sql", "record", "commit"}

\* A runner that is past the lock is its only holder, what it read is still
\* the table, and the version it works on is its lowest missing one.
RunnerInv(r) ==
  /\ Past(r) \/ At(r, "read") \/ At(r, "unlock") => r \in holder
  /\ Past(r) => run[r].done = table
  /\ run[r].pc \in {"sql", "record", "commit"} => IsNext(r, run[r].cur)
  /\ At(r, "unlock") => Known[r] \subseteq run[r].done \/ run[r].cur \in Broken

MigrateInv ==
  /\ Shape
  /\ \A r, q \in holder : r = q
  /\ \A r \in Runner : RunnerInv(r)
  /\ TableIsSchema

LEMMA MigrateInit == Init => MigrateInv
<1>1. SUFFICES ASSUME Init PROVE MigrateInv
  OBVIOUS
<1>2. DOMAIN Fresh = RunFields /\ Fresh.pc = "idle"
  BY DEF Fresh, RunFields
<1>3. Shape
  BY <1>1, <1>2 DEF Init, Shape
<1>4. \A r \in Runner : run[r].pc = "idle"
  BY <1>1, <1>2 DEF Init
<1>5. TableIsSchema
  <2>1. DOMAIN schema = {}
    BY <1>1 DEF Init
  <2>2. QED
    BY <1>1, <2>1 DEF Init, TableIsSchema
<1>6. QED
  BY <1>1, <1>3, <1>4, <1>5 DEF Init, MigrateInv, RunnerInv, Past, At

\* Steps of r that write nothing to the database.
LEMMA MigrateQuiet ==
  ASSUME MigrateInv, NEW r \in Runner, UNCHANGED <<schema, table>>, NEW x,
         run' = [run EXCEPT ![r] = x], DOMAIN x = RunFields,
         holder' = holder \/ holder' = holder \ {r} \/ (holder' = holder \cup {r} /\ LockFree(r)),
         RunnerInv(r)'
  PROVE  MigrateInv'
<1> USE DEF MigrateInv
<1>1. Shape' /\ \A q \in Runner \ {r} : run'[q] = run[q]
  BY DEF Shape
<1>2. (\A p, q \in holder : p = q)'
  BY DEF LockFree
<1>3. ASSUME NEW q \in Runner \ {r} PROVE RunnerInv(q)'
  <2>1. q \in holder => q \in holder'
    BY <1>3
  <2>2. RunnerInv(q)
    OBVIOUS
  <2>3. QED
    BY <1>1, <2>1, <2>2 DEF RunnerInv, Past, At, IsNext
<1>4. TableIsSchema'
  BY DEF TableIsSchema
<1>5. QED
  BY <1>1, <1>2, <1>3, <1>4

\* A runner is moved to x.
LEMMA RunExcept ==
  ASSUME NEW y, DOMAIN y = RunFields
  PROVE  /\ \A pc : LET x == [y EXCEPT !.pc = pc]
                    IN  DOMAIN x = RunFields /\ x.pc = pc /\ x.done = y.done /\ x.cur = y.cur
         /\ \A pc, d : LET x == [y EXCEPT !.pc = pc, !.done = d]
                       IN  DOMAIN x = RunFields /\ x.pc = pc /\ x.done = d /\ x.cur = y.cur
         /\ \A pc, c : LET x == [y EXCEPT !.pc = pc, !.cur = c]
                       IN  DOMAIN x = RunFields /\ x.pc = pc /\ x.done = y.done /\ x.cur = c
  BY DEF RunFields

LEMMA MigrateSteps ==
  ASSUME MigrateInv, NEW r \in Runner,
         \/ Begin(r) \/ Lock(r) \/ ReadTable(r) \/ NextVersion(r) \/ ExecSQL(r) \/ Record(r)
         \/ Unlock(r) \/ Cancel(r) \/ SessionEnds(r)
  PROVE  MigrateInv'
<1> USE DEF MigrateInv
<1>1. /\ DOMAIN run[r] = RunFields /\ RunnerInv(r)
      /\ \A x : run' = [run EXCEPT ![r] = x] => run'[r] = x
  BY DEF Shape
<1>2. \A v : v \in table <=> \E i \in DOMAIN schema : schema[i] = v
  BY DEF TableIsSchema
<1>3. CASE Begin(r)
  <2> DEFINE x == [Fresh EXCEPT !.pc = "lock", !.starts = run[r].starts + 1]
  <2>1. DOMAIN x = RunFields /\ x.pc = "lock"
    BY DEF Fresh, RunFields
  <2>2. UNCHANGED <<schema, table, holder>> /\ run' = [run EXCEPT ![r] = x]
    BY <1>3 DEF Begin
  <2> HIDE DEF x
  <2>3. RunnerInv(r)'
    BY <1>1, <2>1, <2>2 DEF RunnerInv, Past, At
  <2>4. QED
    BY <2>1, <2>2, <2>3, MigrateQuiet
<1>4. ASSUME NEW pc, run' = [run EXCEPT ![r] = [run[r] EXCEPT !.pc = pc]],
             UNCHANGED <<schema, table>>,
             \/ holder' = holder \/ holder' = holder \ {r}
             \/ holder' = holder \cup {r} /\ LockFree(r),
             run'[r].pc = pc /\ run'[r].done = run[r].done /\ run'[r].cur = run[r].cur => RunnerInv(r)'
      PROVE  MigrateInv'
  <2> DEFINE x == [run[r] EXCEPT !.pc = pc]
  <2>1. DOMAIN x = RunFields /\ x.pc = pc /\ x.done = run[r].done /\ x.cur = run[r].cur
    BY <1>1, RunExcept
  <2>2. run' = [run EXCEPT ![r] = x]
    BY <1>4
  <2> HIDE DEF x
  <2>3. RunnerInv(r)'
    BY <1>1, <1>4, <2>1, <2>2
  <2>4. QED
    BY <1>4, <2>1, <2>2, <2>3, MigrateQuiet
<1>5. CASE Lock(r)
  BY <1>4, <1>5 DEF Lock, Goes, RunnerInv, Past, At
<1>6. CASE Unlock(r) \/ Cancel(r) \/ SessionEnds(r)
  BY <1>4, <1>6 DEF Unlock, Cancel, SessionEnds, Goes, RunnerInv, Past, At
<1>7. CASE ExecSQL(r)
  <2>1. run[r].cur \notin table /\ r \in holder /\ run[r].done = table /\ IsNext(r, run[r].cur)
    BY <1>1, <1>7 DEF ExecSQL, At, RunnerInv, Past, IsNext
  <2>2. CASE run[r].cur \in Broken
    BY <1>4, <1>7, <2>1, <2>2 DEF ExecSQL, Goes, RunnerInv, Past, At
  <2>3. CASE run[r].cur \notin Broken
    <3>1. run' = [run EXCEPT ![r].pc = "record"] /\ UNCHANGED <<schema, table, holder>>
      BY <1>2, <1>7, <2>1, <2>3 DEF ExecSQL, Goes
    <3>2. QED
      BY <1>4, <2>1, <3>1 DEF RunnerInv, Past, At, IsNext
  <2>4. QED
    BY <2>2, <2>3
<1>8. CASE Record(r)
  <2>1. run[r].cur \notin table /\ r \in holder /\ run[r].done = table /\ IsNext(r, run[r].cur)
    BY <1>1, <1>8 DEF Record, At, RunnerInv, Past, IsNext
  <2>2. run' = [run EXCEPT ![r].pc = "commit"] /\ UNCHANGED <<schema, table, holder>>
    BY <1>8, <2>1 DEF Record, Goes
  <2>3. QED
    BY <1>4, <2>1, <2>2 DEF RunnerInv, Past, At, IsNext
<1>9. CASE ReadTable(r)
  <2> DEFINE x == [run[r] EXCEPT !.pc = "next", !.done = table]
  <2>1. DOMAIN x = RunFields /\ x.pc = "next" /\ x.done = table
    BY <1>1, RunExcept
  <2>2. run' = [run EXCEPT ![r] = x] /\ UNCHANGED <<schema, table, holder>> /\ r \in holder
    BY <1>1, <1>9 DEF ReadTable, RunnerInv, At, Shape
  <2> HIDE DEF x
  <2>3. RunnerInv(r)'
    BY <1>1, <2>1, <2>2 DEF RunnerInv, Past, At
  <2>4. QED
    BY <2>1, <2>2, <2>3, MigrateQuiet
<1>10. CASE NextVersion(r)
  <2>1. r \in holder /\ run[r].done = table /\ UNCHANGED <<schema, table, holder>>
    BY <1>1, <1>10 DEF NextVersion, RunnerInv, Past, At
  <2>2. ASSUME NEW v \in Known[r], IsNext(r, v), run' = [run EXCEPT ![r].pc = "sql", ![r].cur = v]
        PROVE  MigrateInv'
    <3> DEFINE x == [run[r] EXCEPT !.pc = "sql", !.cur = v]
    <3>1. DOMAIN x = RunFields /\ x.pc = "sql" /\ x.done = table /\ x.cur = v
      BY <1>1, <2>1, RunExcept
    <3>2. run' = [run EXCEPT ![r] = x]
      BY <2>2 DEF Shape
    <3> HIDE DEF x
    <3>3. RunnerInv(r)'
      BY <1>1, <2>1, <2>2, <3>1, <3>2 DEF RunnerInv, Past, At, IsNext
    <3>4. QED
      BY <2>1, <3>1, <3>2, <3>3, MigrateQuiet
  <2>3. ASSUME Known[r] \subseteq run[r].done, Goes(r, "unlock") PROVE MigrateInv'
    BY <1>4, <2>1, <2>3 DEF Goes, RunnerInv, Past, At
  <2>4. QED
    BY <1>10, <2>2, <2>3 DEF NextVersion
<1>11. QED
  BY <1>3, <1>5, <1>6, <1>7, <1>8, <1>9, <1>10

LEMMA MigrateCommit ==
  ASSUME MigrateInv, NEW r \in Runner, Commit(r)
  PROVE  MigrateInv'
<1> USE DEF MigrateInv
<1> DEFINE v == run[r].cur
           x == [run[r] EXCEPT !.pc = "next", !.done = @ \cup {v}]
<1>1. /\ r \in holder /\ run[r].done = table /\ v \in Known[r] /\ v \notin table
  BY DEF Commit, RunnerInv, Past, At, IsNext
<1>2. schema' = Append(schema, v) /\ table' = table \cup {v} /\ holder' = holder
  BY DEF Commit, TableAfter
<1>3. DOMAIN x = RunFields /\ x.pc = "next" /\ x.done = table \cup {v}
  BY <1>1, RunExcept DEF Shape
<1>4. run' = [run EXCEPT ![r] = x]
  BY DEF Commit, Shape
<1> HIDE DEF x
<1>5. v \in Version
  BY <1>1 DEF Version
<1>6. Shape' /\ run'[r] = x /\ \A q \in Runner \ {r} : run'[q] = run[q]
  BY <1>2, <1>3, <1>4, <1>5 DEF Shape
<1>7. \A q \in Runner : RunnerInv(q)'
  <2>1. RunnerInv(r)'
    BY <1>1, <1>2, <1>3, <1>6 DEF RunnerInv, Past, At
  <2>2. ASSUME NEW q \in Runner \ {r} PROVE RunnerInv(q)'
    <3>1. q \notin holder /\ RunnerInv(q)
      BY <1>1, <2>2
    <3>2. QED
      BY <1>6, <3>1 DEF RunnerInv, Past, At, IsNext
  <2>3. QED
    BY <2>1, <2>2
<1>8. TableIsSchema'
  <2> DEFINE n == Len(schema)
  <2>1. /\ n \in Nat /\ DOMAIN schema = 1 .. n /\ DOMAIN schema' = 1 .. n + 1
        /\ schema'[n + 1] = v /\ \A i \in 1 .. n : schema'[i] = schema[i]
    BY <1>2, <1>5 DEF Shape
  <2>2. \A i \in 1 .. n : schema[i] # v
    BY <1>1, <2>1 DEF TableIsSchema
  <2> HIDE DEF n
  <2>3. table' = {schema'[i] : i \in DOMAIN schema'}
    BY <1>2, <2>1 DEF TableIsSchema
  <2>4. \A i, k \in DOMAIN schema' : schema'[i] = schema'[k] => i = k
    BY <2>1, <2>2 DEF TableIsSchema
  <2>5. QED
    BY <2>3, <2>4 DEF TableIsSchema
<1>9. QED
  BY <1>2, <1>6, <1>7, <1>8

LEMMA MigrateNext == MigrateInv /\ [Next]_vars => MigrateInv'
<1>1. ASSUME MigrateInv, UNCHANGED vars PROVE MigrateInv'
  BY <1>1 DEF MigrateInv, vars, Shape, RunnerInv, Past, At, IsNext, TableIsSchema
<1>2. QED
  BY <1>1, MigrateSteps, MigrateCommit DEF Next, RunnerStep

\* Whoever is past the advisory lock holds it alone, and what it read of
\* schema_migrations is what the table says (Migrate).
THEOREM MigrateInductive == Spec => []MigrateInv
  BY MigrateInit, MigrateNext, PTL DEF Spec

\* schema_migrations names exactly what was applied, each version once, through
\* every interruption (apply).
THEOREM TableTellsSchema == Spec => []TableIsSchema
<1>1. MigrateInv => TableIsSchema
  BY DEF MigrateInv
<1>2. QED
  BY <1>1, MigrateInductive, PTL

\* A runner commits a version only after every lower one it knows (Load).
THEOREM MigrationsInOrder == Spec => []AppliedInOrder
<1>1. MigrateInv => AppliedInOrder
  <2>1. SUFFICES ASSUME MigrateInv, NEW r \in Runner, At(r, "commit"), NEW v \in Known[r],
                        v < run[r].cur
                 PROVE  v \in table
    BY DEF AppliedInOrder
  <2>2. run[r].done = table /\ IsNext(r, run[r].cur)
    BY <2>1 DEF MigrateInv, RunnerInv, Past, At
  <2>3. v \in Nat /\ run[r].cur \in Nat
    BY <2>2, MigrateAssumption DEF IsNext, Version
  <2>4. QED
    BY <2>1, <2>2, <2>3 DEF IsNext
<1>2. QED
  BY <1>1, MigrateInductive, PTL

\* Runners that race do not fail each other (pg_advisory_lock in Migrate).
THEOREM RunnersDoNotCollide == Spec => []NoCollision
<1>1. MigrateInv => NoCollision
  BY DEF MigrateInv, RunnerInv, NoCollision
<1>2. QED
  BY <1>1, MigrateInductive, PTL
=============================================================================
