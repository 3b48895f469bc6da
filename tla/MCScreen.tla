------------------------------ MODULE MCScreen ------------------------------
(* Small texts: the kernel prints the end of a line and one character, so  *)
(* that a process prints more than the rest of a line holds.               *)
EXTENDS Screen

SmallMessages == {<<97, 97>>}
SmallKernelTexts == {<<NEWLINE, 116>>}
ProcessSymmetry == Permutations(Processes)
=============================================================================
