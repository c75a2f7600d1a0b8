--------------------------- MODULE MCJobScheduler ---------------------------
(* Small instances of JobScheduler for TLC.                                *)
EXTENDS JobScheduler

(* Job 1 takes its time, so that a later action may fall due before it.    *)
OneSlow == [j \in Jobs |-> IF j = 1 THEN 2 ELSE 1]
=============================================================================
