------------------------------ MODULE MCOutbox ------------------------------
(***************************************************************************)
(* Small instances of Outbox for TLC.  "p1" is the project of the readers.   *)
(***************************************************************************)
EXTENDS Outbox, TLC

CONSTANTS t1, t2, r1

ReadsFirst == [r \in Reader |-> "p1"]
=============================================================================
