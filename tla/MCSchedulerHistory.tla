------------------------- MODULE MCSchedulerHistory -------------------------
(* The plan of the runs of SchedulerHistory.                               *)
EXTENDS SchedulerHistory

\* Two PERIODIC processes and idle time: the names 1 and 2 share a word of the
\* bitmap, as all names below 32 do.
MCTwoAndIdle == [i \in Plan |-> CASE i = 0 -> 1 [] i = 1 -> 2 [] i = 2 -> IDLE]

MCOneTick == [i \in Plan |-> 1]
MCTwoTicks == [i \in Plan |-> IF i = 0 THEN 2 ELSE 1]
=============================================================================
