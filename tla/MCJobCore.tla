----------------------------- MODULE MCJobCore ------------------------------
(***************************************************************************)
(* Small instances of JobCore for TLC.                                     *)
(***************************************************************************)
EXTENDS JobClaims, TLC

CONSTANTS j1, j2, j3

NoDeps == {}
Vee == {<<j1, j3>>, <<j2, j3>>}

SymmetricJobs == Permutations(Job) \cup Permutations(Worker) \cup Permutations(Scheduler)
=============================================================================
