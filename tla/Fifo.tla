-------------------------------- MODULE Fifo --------------------------------
(***************************************************************************)
(* The FIFOs of kernel/kernel.c: OS_InitFiFo, OS_Write and OS_Read.        *)
(*                                                                         *)
(* These calls leave interrupts enabled, so a process may be pre-empted    *)
(* between any two of its accesses to a FIFO.  The model pre-empts before  *)
(* every store: a step is a store, or the loads that precede one.  pc is   *)
(* the store a process makes next, "out" when it is in no call.            *)
(*                                                                         *)
(* get_fifo refuses the last handle, but the OS_Abort it calls returns at  *)
(* the next interrupt and the call goes on: nothing changes in the FIFOs.  *)
(***************************************************************************)
EXTENDS Integers, Sequences, FiniteSetsExt

CONSTANTS
  Processes,   \* the processes that use FIFOs
  MAXFIFO,     \* number of FIFOs; FIFO f has the handle f + 1
  FIFOSIZE,    \* elements of a FIFO
  Values,      \* the words written
  Serialised,  \* "use": calls on one FIFO exclude each other, as a semaphore around
               \* them (sema.c) makes them do; "init": so do calls of OS_InitFiFo, as
               \* when only the parent (sema.c) or the boot (kernel.h) makes them
  MaxIdx       \* bound: no write overtakes the reads of a FIFO whose idx is MaxIdx

Fifos == 0 .. MAXFIFO - 1
Cells == 0 .. FIFOSIZE - 1

ASSUME FifoAssumption ==
  /\ MAXFIFO \in Nat \ {0} /\ FIFOSIZE \in Nat \ {0}
  /\ Values \subseteq Nat /\ Values # {}
  /\ Serialised \subseteq {"init", "use"}
  /\ MaxIdx \in Nat

VARIABLES
  length,  \* of each FIFO; -1 when it is free
  idx,     \* of each FIFO: the first unread element
  data,    \* of each FIFO
  pc,      \* of each process
  at,      \* the FIFO a process works on
  reg,     \* the new length or idx a process is about to store
  cell,    \* the cell a process is about to write
  val,     \* the word a process writes, or has read
  holders  \* the processes to which each FIFO has been handed out

locals == <<at, reg, cell, val>>
vars == <<length, idx, data, pc, locals, holders>>

-----------------------------------------------------------------------------
(* fifo_collection is one array of records [length, idx, data]: a cell     *)
(* outside data is a field of this record or of a later one.               *)

Mod(a, n) == IF a < 0 THEN -((-a) % n) ELSE a % n

Record == FIFOSIZE + 2
Owner(f, k) == f + (k + 2) \div Record
Field(k) == (k + 2) % Record

Word(f, k) ==
  LET g == Owner(f, k)
  IN  IF g \notin Fifos THEN Values
      ELSE {CASE Field(k) = 0 -> length[g]
              [] Field(k) = 1 -> idx[g]
              [] OTHER -> data[g][Field(k) - 2]}

StoreWord(f, k, v) ==
  LET g == Owner(f, k)
      stored(field) == g \in Fifos /\ Field(k) = field
  IN  /\ length' = IF stored(0) THEN [length EXCEPT ![g] = v] ELSE length
      /\ idx' = IF stored(1) THEN [idx EXCEPT ![g] = v] ELSE idx
      /\ data' = IF g \in Fifos /\ Field(k) > 1
                 THEN [data EXCEPT ![g][Field(k) - 2] = v] ELSE data

-----------------------------------------------------------------------------
Init ==
  /\ length = [f \in Fifos |-> -1]
  /\ idx = [f \in Fifos |-> 0]
  /\ data = [f \in Fifos |-> [k \in Cells |-> 0]]
  /\ pc = [p \in Processes |-> "out"]
  /\ at = [p \in Processes |-> 0]
  /\ reg = [p \in Processes |-> 0]
  /\ cell = [p \in Processes |-> 0]
  /\ val = [p \in Processes |-> 0]
  /\ holders = [f \in Fifos |-> {}]

goto(p, label) == pc' = [pc EXCEPT ![p] = label]
\* The call returns: its locals are gone.
return(p) ==
  /\ goto(p, "out")
  /\ at' = [at EXCEPT ![p] = 0]
  /\ reg' = [reg EXCEPT ![p] = 0]
  /\ cell' = [cell EXCEPT ![p] = 0]
  /\ val' = [val EXCEPT ![p] = 0]

Inside(labels, f) == \E q \in Processes : pc[q] \in labels /\ at[q] = f

\* Process p may start a call on f: it is in none, and waits where calls are serialised.
MayUse(p, f) ==
  /\ pc[p] = "out"
  /\ holders[f] # {}
  /\ "use" \in Serialised => ~Inside({"length", "drop", "data", "take", "shrink"}, f)

\* The first free FIFO, whose length is then set.  Without one the call returns
\* INVALIDFIFO and changes nothing.
\* Mutant: an empty FIFO counts as free.
Free_empty == {f \in Fifos : length[f] <= 0}
Free == {f \in Fifos : length[f] = -1}
OS_InitFiFo(p) ==
  /\ pc[p] = "out" /\ Free # {}
  /\ "init" \in Serialised => \A q \in Processes : pc[q] # "claim"
  /\ at' = [at EXCEPT ![p] = Min(Free)]
  /\ goto(p, "claim")
  /\ UNCHANGED <<length, idx, data, reg, cell, val, holders>>

Claim(p) ==
  /\ pc[p] = "claim"
  /\ length' = [length EXCEPT ![at[p]] = 0]
  /\ holders' = [holders EXCEPT ![at[p]] = @ \union {p}]
  /\ return(p)
  /\ UNCHANGED <<idx, data>>

\* Mutants: the cell after the last element is one too far, or beyond data.
NextCell_far(f) == Mod(idx[f] + length[f] + 1, FIFOSIZE)
NextCell_unwrapped(f) == idx[f] + length[f]
NextCell(f) == Mod(idx[f] + length[f], FIFOSIZE)

OS_Write(p, f, v) ==
  /\ MayUse(p, f) /\ (length[f] >= FIFOSIZE => idx[f] < MaxIdx)
  /\ at' = [at EXCEPT ![p] = f]
  /\ val' = [val EXCEPT ![p] = v]
  /\ cell' = [cell EXCEPT ![p] = NextCell(f)]
  /\ \/ /\ length[f] < FIFOSIZE
        /\ reg' = [reg EXCEPT ![p] = length[f] + 1]
        /\ goto(p, "length")
     \/ /\ length[f] >= FIFOSIZE
        /\ reg' = [reg EXCEPT ![p] = idx[f] + 1]
        /\ goto(p, "drop")
  /\ UNCHANGED <<length, idx, data, holders>>

WriteLength(p) ==
  /\ pc[p] = "length"
  /\ length' = [length EXCEPT ![at[p]] = reg[p]]
  /\ goto(p, "data")
  /\ UNCHANGED <<idx, data, locals, holders>>

WriteDrop(p) ==
  /\ pc[p] = "drop"
  /\ idx' = [idx EXCEPT ![at[p]] = reg[p]]
  /\ goto(p, "data")
  /\ UNCHANGED <<length, data, locals, holders>>

WriteData(p) ==
  /\ pc[p] = "data"
  /\ StoreWord(at[p], cell[p], val[p])
  /\ return(p)
  /\ UNCHANGED holders

\* Without an unread element the call returns FALSE and changes nothing.
\* Mutant: the length is not tested against 0 but against -1.
Readable_free(f) == length[f] >= 0
Readable(f) == length[f] > 0

\* Mutant: the word is loaded when idx has moved on already.
OS_Read_late(p, f) ==
  /\ MayUse(p, f) /\ Readable(f)
  /\ at' = [at EXCEPT ![p] = f]
  /\ \E v \in Word(f, Mod(idx[f] + 1, FIFOSIZE)) : val' = [val EXCEPT ![p] = v]
  /\ reg' = [reg EXCEPT ![p] = Mod(idx[f] + 1, FIFOSIZE)]
  /\ goto(p, "take")
  /\ UNCHANGED <<length, idx, data, cell, holders>>
OS_Read(p, f) ==
  /\ MayUse(p, f) /\ Readable(f)
  /\ at' = [at EXCEPT ![p] = f]
  /\ \E v \in Word(f, idx[f]) : val' = [val EXCEPT ![p] = v]
  /\ reg' = [reg EXCEPT ![p] = Mod(idx[f] + 1, FIFOSIZE)]
  /\ goto(p, "take")
  /\ UNCHANGED <<length, idx, data, cell, holders>>

ReadTake(p) ==
  /\ pc[p] = "take"
  /\ idx' = [idx EXCEPT ![at[p]] = reg[p]]
  /\ reg' = [reg EXCEPT ![p] = length[at[p]] - 1]
  /\ goto(p, "shrink")
  /\ UNCHANGED <<length, data, at, cell, val, holders>>

ReadShrink(p) ==
  /\ pc[p] = "shrink"
  /\ length' = [length EXCEPT ![at[p]] = reg[p]]
  /\ return(p)
  /\ UNCHANGED <<idx, data, holders>>

Next ==
  \E p \in Processes :
    \/ OS_InitFiFo(p) \/ Claim(p)
    \/ \E f \in Fifos, v \in Values : OS_Write(p, f, v)
    \/ WriteLength(p) \/ WriteDrop(p) \/ WriteData(p)
    \/ \E f \in Fifos : OS_Read(p, f)
    \/ ReadTake(p) \/ ReadShrink(p)

Spec == Init /\ [][Next]_vars

-----------------------------------------------------------------------------
(* Properties.                                                             *)

\* Every variable keeps its type.  The cell a process writes lies in data or, when
\* a length is negative, before it; idx may lie beyond data (OS_Write, line 752).
TypeOK ==
  /\ length \in [Fifos -> Int]
  /\ idx \in [Fifos -> Int]
  /\ data \in [Fifos -> [Cells -> Int]]
  /\ pc \in [Processes -> {"out", "claim", "length", "drop", "data", "take", "shrink"}]
  /\ at \in [Processes -> Fifos]
  /\ reg \in [Processes -> Int]
  /\ cell \in [Processes -> -FIFOSIZE .. FIFOSIZE - 1]
  /\ val \in [Processes -> Int]
  /\ holders \in [Fifos -> SUBSET Processes]

\* A FIFO that has been handed out never looks free, so that OS_InitFiFo cannot hand
\* it out again, and no write lands outside its data.
NeverFreeInUse == \A f \in Fifos : holders[f] # {} => length[f] >= 0

\* The elements of a FIFO, as they are once the stores under way are done: a write
\* takes effect with the store of length or idx, a read with that of idx.  Cells
\* count modulo FIFOSIZE, as in OS_Write and in what OS_Read stores in idx: where
\* OS_Read loads from, idx may be beyond data, and `result` shows what it gets.
Unread(f) ==
  LET taken == Cardinality({q \in Processes : pc[q] = "shrink" /\ at[q] = f})
      writes(c) == {q \in Processes : pc[q] = "data" /\ at[q] = f /\ cell[q] = c}
      word(c) == IF writes(c) = {} THEN data[f][c] ELSE val[CHOOSE q \in writes(c) : TRUE]
  IN  [k \in 1 .. Max({length[f] - taken, 0}) |-> word((idx[f] + k - 1) % FIFOSIZE)]

\* The word OS_Read has loaded for its caller, from the store that takes it to the return.
Result(p) == IF pc[p] = "shrink" THEN <<val[p]>> ELSE <<>>

Queue == INSTANCE BoundedFifo WITH
           Size <- FIFOSIZE, Value <- Values, unread <- [f \in Fifos |-> Unread(f)],
           result <- [p \in Processes |-> Result(p)]

\* With serialised calls the stores of OS_Write and OS_Read, pre-empted at any point and
\* overtaking or not, leave in a FIFO what indivisible operations on a bounded FIFO leave.
KeepsContents == Queue!ContentsSpec

\* The word a read returns is the first unread one when the read takes effect, as long
\* as idx is in the array (kernel.h: the first unread element is copied into val).
ReadsFirstUnread ==
  [][\A p \in Processes :
       Result(p)' \notin {Result(p), <<>>} /\ idx[at[p]] \in Cells
         => Result(p)' = <<Head(Unread(at[p]))>>]_vars

\* The calls implement a bounded FIFO, the words that the reads return included.
ImplementsBoundedFifo == Queue!Spec
=============================================================================
