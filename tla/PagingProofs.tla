---------------------------- MODULE PagingProofs ----------------------------
(***************************************************************************)
(* Paging returns every row that stayed and no row twice, for every table, *)
(* every order of times and ids, every limit, and whatever comes and goes. *)
(***************************************************************************)
EXTENDS Paging, TLAPS

\* Row r is behind the cursor, whether or not it matches the filter now.
Past(r) == Before(Time[r], Id[r], Decode(cursor)[1], Decode(cursor)[2])

\* Between two requests the cursor parts the rows: those not behind it have been
\* returned if they stayed, those behind it have not been returned.
CursorParts ==
  pc = "more" => /\ \A r \in got : ~Past(r)
                 /\ \A r \in kept : Past(r) \/ r \in got

PagingInv ==
  /\ TypeOK /\ NothingTwice /\ NothingSkipped /\ CursorParts
  /\ kept \subseteq table
  /\ pc = "start" => got = {} /\ kept = {}

\* What encodeCursor writes, decodeCursor reads back, id and microseconds.
LEMMA CursorRoundTrip ==
  ASSUME NEW r \in Row
  PROVE  /\ Encode(r) \in Nat \X Nat
         /\ Decode(Encode(r)) = <<Time[r], Id[r]>>
<1>1. Time[r] \in Nat /\ Id[r] \in Nat
  BY PagingAssumption
<1>2. \A n \in Nat : n * 1000 \in Nat /\ (n * 1000) \div 1000 = n
  OBVIOUS
<1>3. QED
  BY <1>1, <1>2 DEF Encode, Decode

\* The order of the query is a strict order, and linear: no two rows share
\* both time and id.
LEMMA OlderLinear ==
  ASSUME NEW r \in Row, NEW s \in Row
  PROVE  /\ ~(Older(r, s) /\ Older(s, r))
         /\ ~Older(r, r)
  BY PagingAssumption DEF Older, Before

\* A row older than one behind the cursor is behind it too.
LEMMA PastDownward ==
  ASSUME TypeOK, NEW r \in Row, NEW s \in Row, Older(s, r), Past(r)
  PROVE  Past(s)
<1>1. PICK a \in Nat, b \in Nat : cursor = <<a, b>>
  BY DEF TypeOK
<1>2. Decode(cursor) = <<a \div 1000, b>> /\ a \div 1000 \in Int
  BY <1>1 DEF Decode
<1>3. QED
  BY <1>2, PagingAssumption DEF Past, Older, Before

LEMMA PagingInit == Init => PagingInv
  BY DEF Init, PagingInv, TypeOK, NothingTwice, NothingSkipped, CursorParts

\* Rows that come or go do not move the cursor.
LEMMA PagingRows ==
  ASSUME PagingInv, NEW r \in Row, Appear(r) \/ Vanish(r)
  PROVE  PagingInv'
<1>1. UNCHANGED <<pc, cursor, got, twice>> /\ kept' \subseteq kept /\ table' \subseteq Row
  BY DEF Appear, Vanish, PagingInv, TypeOK
<1>2. kept' \subseteq table'
  BY DEF Appear, Vanish, PagingInv
<1>3. CursorParts'
  BY <1>1 DEF PagingInv, CursorParts, Past, Decode, Before
<1>4. QED
  BY <1>1, <1>2, <1>3 DEF PagingInv, TypeOK, NothingTwice, NothingSkipped

LEMMA PagingRequest ==
  ASSUME PagingInv, NEW n \in Asked, NEW P \in SUBSET Row, Request(n, P)
  PROVE  PagingInv'
<1> DEFINE lim == PageLimit(n)
<1>1. /\ pc \in {"start", "more"}
      /\ IsPage(P, Behind, lim)
      /\ got' = got \cup P /\ twice' = twice \cup (got \cap P)
      /\ kept' = IF pc = "start" THEN table ELSE kept
      /\ table' = table
  BY DEF Request, PagingInv, TypeOK
<1>2. \A r \in Behind : r \in table /\ r \in Row /\ (pc = "more" => Past(r))
  BY DEF Behind, Past, PagingInv, TypeOK
<1>3. \A r \in table : pc = "start" \/ Past(r) => r \in Behind
  BY DEF Behind, Past
<1>4. P \subseteq Behind
  BY <1>1 DEF IsPage
<1>5. kept' \subseteq table' /\ kept' \subseteq Row /\ got' \subseteq Row
  BY <1>1 DEF PagingInv, TypeOK
<1>6. got \cap P = {}
  BY <1>1, <1>2, <1>4 DEF PagingInv, CursorParts
<1>7. twice' = {}
  BY <1>1, <1>6 DEF PagingInv, NothingTwice
<1>8. \A s \in kept' : s \in got' \/ s \in Behind \ P
  <2>1. CASE pc = "start"
    BY <2>1, <1>1, <1>3
  <2>2. CASE pc = "more"
    BY <2>2, <1>1, <1>3 DEF PagingInv, CursorParts
  <2>3. QED
    BY <1>1, <2>1, <2>2
<1>9. CASE Full(P, lim)
  <2>1. PICK r \in P : IsLast(r, P) /\ cursor' = Encode(r)
    BY <1>9, <1>1 DEF Request
  <2>2. pc' = "more"
    BY <1>9 DEF Request
  <2>3. r \in Row /\ cursor' \in Nat \X Nat /\ Decode(cursor') = <<Time[r], Id[r]>>
    BY <2>1, CursorRoundTrip
  <2>4. \A s \in Row : Past(s)' <=> Older(s, r)
    BY <2>3 DEF Past, Older, Decode, Before
  <2>5. \A s \in got' : ~Older(s, r)
    <3>1. SUFFICES ASSUME NEW s \in got', Older(s, r) PROVE FALSE
      OBVIOUS
    <3>2. s \in Row
      BY <1>5
    <3>3. CASE s \in P
      BY <3>1, <3>2, <3>3, <2>1, <2>3, OlderLinear DEF IsLast
    <3>4. CASE s \in got
      <4>1. pc = "more" /\ Past(r) /\ ~Past(s)
        BY <3>4, <1>1, <1>2, <1>4 DEF PagingInv, CursorParts
      <4>2. TypeOK
        BY DEF PagingInv
      <4>3. QED
        BY <4>1, <4>2, <3>1, <3>2, <2>3, PastDownward
    <3>5. QED
      BY <3>3, <3>4, <1>1
  <2>6. \A s \in kept' : Older(s, r) \/ s \in got'
    BY <1>8, <1>1, <2>1 DEF IsPage
  <2>7. CursorParts'
    BY <2>4, <2>5, <2>6, <1>5 DEF CursorParts
  <2>8. QED
    BY <1>1, <1>5, <1>7, <2>2, <2>3, <2>7 DEF PagingInv, TypeOK, NothingTwice, NothingSkipped
<1>10. CASE ~Full(P, lim)
  <2>1. pc' = "end" /\ cursor' = cursor
    BY <1>10 DEF Request
  <2>2. P = Behind
    BY <1>10, <1>1 DEF IsPage, Full
  <2>3. kept' \subseteq got'
    BY <2>2, <1>8
  <2>4. QED
    BY <1>1, <1>5, <1>7, <2>1, <2>3
      DEF PagingInv, TypeOK, NothingTwice, NothingSkipped, CursorParts
<1>11. QED
  BY <1>9, <1>10

LEMMA PagingStutter == PagingInv /\ UNCHANGED vars => PagingInv'
  BY DEF PagingInv, vars, TypeOK, NothingTwice, NothingSkipped, CursorParts, Past, Decode, Before

LEMMA PagingNext == PagingInv /\ [Next]_vars => PagingInv'
<1>1. SUFFICES ASSUME PagingInv, [Next]_vars PROVE PagingInv'
  OBVIOUS
<1>2. CASE \E r \in Row : Appear(r) \/ Vanish(r)
  BY <1>1, <1>2, PagingRows
<1>3. CASE \E n \in Asked, P \in SUBSET Row : Request(n, P)
  BY <1>1, <1>3, PagingRequest
<1>4. CASE UNCHANGED vars
  BY <1>1, <1>4, PagingStutter
<1>5. QED
  BY <1>1, <1>2, <1>3, <1>4 DEF Next

\* The cursor parts the rows, for every table and every order of requests.
THEOREM PagingInductive == Spec => []PagingInv
  BY PagingInit, PagingNext, PTL DEF Spec

\* A client of listJobs or listDLQ that pages to the end has every row that was
\* there all the time.
THEOREM PagesSkipNothing == Spec => []NothingSkipped
<1>1. PagingInv => NothingSkipped
  BY DEF PagingInv
<1>2. QED
  BY <1>1, PagingInductive, PTL

\* No row comes on two pages of listJobs or listDLQ.
THEOREM PagesNeverRepeat == Spec => []NothingTwice
<1>1. PagingInv => NothingTwice
  BY DEF PagingInv
<1>2. QED
  BY <1>1, PagingInductive, PTL

\* Pages neither skip nor repeat a row of listJobs or listDLQ.
THEOREM PagesExact == Spec => []PagingSafe
<1>1. PagingInv => PagingSafe
  BY DEF PagingInv, PagingSafe
<1>2. QED
  BY <1>1, PagingInductive, PTL
=============================================================================
