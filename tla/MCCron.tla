------------------------------- MODULE MCCron -------------------------------
(***************************************************************************)
(* Small instances of Cron for TLC.                                        *)
(***************************************************************************)
EXTENDS Cron, TLC

Body == [expr |-> Keep, zone |-> Keep, overlap |-> Keep, catchup |-> Keep, enabled |-> Keep]

Rewrites == {[Body EXCEPT !.expr = 1, !.overlap = "skip"]}
=============================================================================
