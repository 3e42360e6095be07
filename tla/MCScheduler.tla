----------------------------- MODULE MCScheduler -----------------------------
(* Small instances of Scheduler for TLC: one one-time and one weekly job.   *)
EXTENDS Scheduler

MCFirstRun == [j \in Jobs |-> 1]
=============================================================================
