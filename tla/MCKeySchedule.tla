--------------------------- MODULE MCKeySchedule ---------------------------
(* Two tasks, on one core and on two: there one may replace the schedule   *)
(* while the other is in the middle of a block or of a reset of its own.   *)
EXTENDS KeySchedule

MCTasks == {"t1", "t2"}
=============================================================================
