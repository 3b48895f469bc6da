----------------------------- MODULE MCScheduler -----------------------------
(* The plan of the runs of Scheduler: one PERIODIC process, and idle time  *)
(* if there is a second entry.                                             *)
EXTENDS SchedulerInvariant

MCOneAndIdle == [i \in Plan |-> IF i = 0 THEN 2 ELSE IDLE]
MCOneTick == [i \in Plan |-> 1]
=============================================================================
