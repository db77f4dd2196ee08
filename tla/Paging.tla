------------------------------- MODULE Paging -------------------------------
(***************************************************************************)
(* Keyset paging: listJobs and listDLQ, whose rows are ordered by a time   *)
(* and an id, newest first, and whose cursor is the last row of the page   *)
(* before.  Rows come, with any time, and go between two requests: a job   *)
(* is submitted, changes its status under a filter, or is archived.        *)
(***************************************************************************)
EXTENDS Integers, FiniteSets

CONSTANTS
  Row,           \* rows that may be listed
  Time,          \* Row -> created_at, or dead_at, in microseconds
  Id,            \* Row -> id
  Asked,         \* values of the parameter limit, 0 for none or no number
  DefaultLimit,  \* defaultLimit
  MaxLimit       \* maxLimit

ASSUME PagingAssumption ==
  /\ Time \in [Row -> Nat] /\ Id \in [Row -> Nat]
  /\ \A r, s \in Row : Time[r] = Time[s] /\ Id[r] = Id[s] => r = s
  /\ Asked \subseteq Int
  /\ DefaultLimit \in Nat \ {0} /\ MaxLimit \in Nat \ {0} /\ DefaultLimit <= MaxLimit

VARIABLES
  table,   \* rows that match the filter now
  pc,      \* the client: before, between or after its requests
  cursor,  \* next_cursor: the time in nanoseconds, and the id
  got,     \* rows returned so far
  twice,   \* rows returned more than once
  kept     \* rows that have matched at every moment since the first request

vars == <<table, pc, cursor, got, twice, kept>>

TypeOK ==
  /\ table \subseteq Row /\ got \subseteq Row /\ twice \subseteq Row /\ kept \subseteq Row
  /\ pc \in {"start", "more", "end"}
  /\ cursor \in Nat \X Nat

Init ==
  /\ table \in SUBSET Row
  /\ pc = "start" /\ cursor = <<0, 0>>
  /\ got = {} /\ twice = {} /\ kept = {}

Appear(r) ==
  /\ r \in Row \ table
  /\ table' = table \cup {r}
  /\ UNCHANGED <<pc, cursor, got, twice, kept>>

Vanish(r) ==
  /\ r \in table
  /\ table' = table \ {r}
  /\ kept' = kept \ {r}
  /\ UNCHANGED <<pc, cursor, got, twice>>

-----------------------------------------------------------------------------
(* Requests.                                                               *)

\* pageLimit
PageLimit(n) == IF n <= 0 THEN DefaultLimit ELSE IF n > MaxLimit THEN MaxLimit ELSE n

\* (mutant) the cursor keeps whole milliseconds only
EncodeMillis(r) == <<(Time[r] \div 1000) * 1000 * 1000, Id[r]>>

\* encodeCursor writes nanoseconds.
Encode(r) == <<Time[r] * 1000, Id[r]>>

\* decodeCursor, and the parameter of the query, which has microseconds
Decode(c) == <<c[1] \div 1000, c[2]>>

\* (created_at, id) < ($1, $2)
Before(t, i, u, k) == t < u \/ (t = u /\ i < k)

Older(r, s) == Before(Time[r], Id[r], Time[s], Id[s])

\* qb.before: the rows behind the cursor; without one all rows
Behind ==
  LET c == Decode(cursor)
  IN {r \in table : pc = "start" \/ Before(Time[r], Id[r], c[1], c[2])}

\* The first rows of S, at most n, in the order of the query.
IsPage(P, S, n) ==
  /\ P \subseteq S /\ Cardinality(P) <= n
  /\ P = S \/ Cardinality(P) = n
  /\ \A r \in P, s \in S \ P : Older(s, r)

IsLast(r, P) == r \in P /\ \A s \in P : s = r \/ Older(r, s)

\* len(out) == limit
Full(P, n) == Cardinality(P) = n

Request(n, P) ==
  /\ pc # "end"
  /\ IsPage(P, Behind, PageLimit(n))
  /\ got' = got \cup P /\ twice' = twice \cup (got \cap P)
  /\ kept' = IF pc = "start" THEN table ELSE kept
  /\ \/ /\ Full(P, PageLimit(n))
        /\ \E r \in P : IsLast(r, P) /\ cursor' = Encode(r)
        /\ pc' = "more"
     \/ /\ ~Full(P, PageLimit(n))
        /\ pc' = "end" /\ UNCHANGED cursor
  /\ UNCHANGED table

Next ==
  \/ \E r \in Row : Appear(r) \/ Vanish(r)
  \/ \E n \in Asked, P \in SUBSET Row : Request(n, P)

Spec == Init /\ [][Next]_vars

-----------------------------------------------------------------------------
(* Properties.                                                             *)

\* A client that has paged to the end has every row that matched all the time,
\* whatever came and went meanwhile and whatever limits it asked for.
NothingSkipped == pc = "end" => kept \subseteq got

\* No row is returned by two pages.
NothingTwice == twice = {}

\* What holds in every state: the types, and pages that neither skip nor repeat a
\* row (listJobs, listDLQ).
PagingSafe == TypeOK /\ NothingSkipped /\ NothingTwice
=============================================================================
