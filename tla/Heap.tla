-------------------------------- MODULE Heap --------------------------------
(***************************************************************************)
(* What kernel/kernel.h promises of memory (MEMORY MANAGEMENT): a process  *)
(* is given a block of the heap that is large enough and that nobody else  *)
(* has, until the block is given back.                                     *)
(***************************************************************************)
EXTENDS Integers

CONSTANTS
  First, Limit,  \* the heap: the addresses from First up to, not including, Limit
  Request        \* the numbers of bytes that are asked for

VARIABLE blocks  \* the blocks in use: where the memory starts, and the request

Bytes(b) == b.base .. b.base + b.val + 1  \* the control bytes included

Init == blocks = {}

Allocate(b) ==
  /\ Bytes(b) \subseteq First .. Limit - 1
  /\ \A c \in blocks : Bytes(b) \intersect Bytes(c) = {}
  /\ blocks' = blocks \union {b}

Release(b) == blocks' = blocks \ {b}

Next ==
  \/ \E a \in First .. Limit, v \in Request : Allocate([base |-> a, val |-> v])
  \/ \E b \in blocks : Release(b)

Spec == Init /\ [][Next]_blocks
=============================================================================
