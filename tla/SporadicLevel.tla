---------------------------- MODULE SporadicLevel ----------------------------
(***************************************************************************)
(* What kernel/kernel.h promises of the SPORADIC level (SCHEDULING POLICY  *)
(* and SPORADIC PROCESSES): the ready processes form a queue served first  *)
(* come, first served.  A process that is pre-empted re-enters at the      *)
(* front, one that gives the CPU up re-enters at the end.  Scheduler       *)
(* implements this queue with a ring of PIDs.                              *)
(***************************************************************************)
EXTENDS Sequences, Functions

CONSTANTS
  Process,  \* the processes that may be created
  None      \* not a process: no SPORADIC process runs

VARIABLES
  ready,    \* the ready processes, in the order in which they will be served
  running   \* the process of this level that has the CPU, or None

Init == ready = <<>> /\ running = None

\* A new process waits behind the others.
Arrive(p) ==
  /\ p \notin Range(ready)
  /\ ready' = Append(ready, p)
  /\ UNCHANGED running

\* The first process gets the CPU and stays first.
Run ==
  /\ running = None /\ ready # <<>>
  /\ running' = Head(ready)
  /\ UNCHANGED ready

\* A process of a higher level takes the CPU.
Preempt ==
  /\ running # None
  /\ running' = None
  /\ UNCHANGED ready

\* The process that runs gives the CPU up in favour of the next one.
GiveUp ==
  /\ running # None
  /\ ready' = Append(Tail(ready), running)
  /\ running' = Head(ready')

\* The process that runs ends.
Exit ==
  /\ running # None
  /\ ready' = Tail(ready)
  /\ running' = None

Next ==
  \/ \E p \in Process : Arrive(p)
  \/ Run
  \/ Preempt
  \/ GiveUp
  \/ Exit

Spec == Init /\ [][Next]_<<ready, running>>
=============================================================================
