------------------------------- MODULE MCFifo -------------------------------
(* The processes of the model are interchangeable.                         *)
EXTENDS Fifo, TLC

ProcessSymmetry == Permutations(Processes)
=============================================================================
