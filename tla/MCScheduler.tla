---------------------------- MODULE MCScheduler -----------------------------
(* Four slots: the idle task and three others, so that a task can be       *)
(* created, exit, be killed or sleep between two neighbours in the ring.   *)
EXTENDS Scheduler
=============================================================================
