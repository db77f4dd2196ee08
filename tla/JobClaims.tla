------------------------------ MODULE JobClaims -----------------------------
(***************************************************************************)
(* What the repository's documents say of the job core and the code does   *)
(* not do.                                                                 *)
(***************************************************************************)
EXTENDS JobCore

\* BENCHMARKS.md and ARCHITECTURE.md on the in-flight counter: it may be left
\* high, but is never lower than what is actually running, so the queue never
\* admits past its cap.  Claim gives the whole reservation back on any error
\* of take, a lost answer to its commit included.
CounterNeverLow == \A s \in Shard : Cardinality(ActiveOn(s)) <= inFlight[s]
=============================================================================
