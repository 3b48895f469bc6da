----------------------------- MODULE MCSemaphore -----------------------------
(* The PERIODIC processes of the model are interchangeable.                *)
EXTENDS Semaphore, TLC

PeriodicSymmetry == Permutations(PERIODICs)
=============================================================================
