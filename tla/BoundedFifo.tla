---------------------------- MODULE BoundedFifo ----------------------------
(***************************************************************************)
(* What kernel/kernel.h promises of FIFOs (INTERPROCESS COMMUNICATION):    *)
(* reads and writes are indivisible, elements are read in the order in     *)
(* which they were written, a write to a full FIFO drops the first unread  *)
(* element, and a read gives its caller the first unread element.          *)
(***************************************************************************)
EXTENDS Sequences, Naturals

CONSTANTS
  Processes,  \* those that read and write
  Fifos,      \* the FIFOs
  Size,       \* elements that fit in one
  Value       \* what is written

VARIABLES
  unread,  \* the unread elements of each FIFO, the first one first
  result   \* what a process has read, as a sequence of one, until its call returns

Empty == unread = [f \in Fifos |-> <<>>]

Put(f, v) ==
  unread' = [unread EXCEPT ![f] = Append(IF Len(@) < Size THEN @ ELSE Tail(@), v)]

Take(f) ==
  /\ unread[f] # <<>>
  /\ unread' = [unread EXCEPT ![f] = Tail(@)]

\* The contents of the FIFOs alone, whatever the reads return.
ContentsNext == \E f \in Fifos : Take(f) \/ \E v \in Value : Put(f, v)
ContentsSpec == Empty /\ [][ContentsNext]_unread

Init == Empty /\ result = [p \in Processes |-> <<>>]

Write(f, v) == Put(f, v) /\ UNCHANGED result

Read(p, f) ==
  /\ result[p] = <<>>
  /\ Take(f)
  /\ result' = [result EXCEPT ![p] = <<Head(unread[f])>>]

Return(p) ==
  /\ result[p] # <<>>
  /\ result' = [result EXCEPT ![p] = <<>>]
  /\ UNCHANGED unread

Next ==
  \/ \E f \in Fifos, v \in Value : Write(f, v)
  \/ \E p \in Processes : Return(p) \/ \E f \in Fifos : Read(p, f)

Spec == Init /\ [][Next]_<<unread, result>>
=============================================================================
