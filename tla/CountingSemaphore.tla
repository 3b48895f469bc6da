------------------------- MODULE CountingSemaphore -------------------------
(***************************************************************************)
(* What kernel/kernel.h promises of semaphores (SEMAPHORES): at most the   *)
(* n processes of OS_InitSem hold a semaphore at the same time, and only a *)
(* process that holds it can release it.                                   *)
(***************************************************************************)
EXTENDS Naturals, FiniteSets

CONSTANTS
  Process,    \* the processes
  Semaphore,  \* the semaphores
  Grants      \* the number each one is initialised with

VARIABLES
  granted,  \* how many processes may hold each semaphore
  holding   \* the processes that hold it

Init ==
  /\ granted = [s \in Semaphore |-> 0]
  /\ holding = [s \in Semaphore |-> {}]

InitSem(s) ==
  /\ granted' = [granted EXCEPT ![s] = Grants]
  /\ UNCHANGED holding

Acquire(p, s) ==
  /\ p \notin holding[s] /\ Cardinality(holding[s]) < granted[s]
  /\ holding' = [holding EXCEPT ![s] = @ \union {p}]
  /\ UNCHANGED granted

Release(p, s) ==
  /\ p \in holding[s]
  /\ holding' = [holding EXCEPT ![s] = @ \ {p}]
  /\ UNCHANGED granted

Next ==
  \E s \in Semaphore :
    InitSem(s) \/ \E p \in Process : Acquire(p, s) \/ Release(p, s)

Spec == Init /\ [][Next]_<<granted, holding>>
=============================================================================
