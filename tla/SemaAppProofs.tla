--------------------------- MODULE SemaAppProofs ---------------------------
(***************************************************************************)
(* Theorems about SemaApp, for every size and number of FIFOs and every    *)
(* number of blocks of memory.                                             *)
(*                                                                         *)
(* What is known of semaphores and FIFOs is taken over from SemaphoreProofs *)
(* and FifoProofs: the program makes its calls so that their theorems for  *)
(* processes that hold one semaphore, and for serialised calls, apply.     *)
(***************************************************************************)
EXTENDS SemaApp, FiniteSetTheorems, TLAPS

USE SemaAppAssumption

SP == INSTANCE SemaphoreProofs WITH
        DEVICEs <- {}, PERIODICs <- Processes, Initialisers <- {parent},
        Semaphores <- {mutex}, Grants <- 1, Rules <- {"single"}, pc <- pcSem
FP == INSTANCE FifoProofs WITH
        Values <- {Sent}, Serialised <- {"init", "use"}, MaxIdx <- 0, pc <- pcFifo

\* The assumptions of Semaphore and Fifo hold for the program.
LEMMA Assumptions ==
  /\ SP!IsFiniteSet(Processes) /\ {mutex} # {}
  /\ {} \subseteq Processes /\ Processes \subseteq Processes \ {}
  /\ 1 \in Nat \ {0} /\ NumCells \in Nat /\ {"single"} \subseteq {"single", "inited"}
  /\ {Sent} \subseteq Nat /\ {Sent} # {} /\ 0 \in Nat /\ 0 < FIFOSIZE
  /\ {"init", "use"} \subseteq {"init", "use"}
  /\ parent \in Processes /\ child \in Processes
<1>1. IsFiniteSet({parent}) /\ IsFiniteSet({child})
  BY FS_Singleton
<1>2. IsFiniteSet({parent} \union {child})
  BY <1>1, FS_Union
<1>3. {parent} \union {child} = Processes
  BY DEF Processes
<1>4. IsFiniteSet(Processes)
  BY <1>2, <1>3
<1>5. SP!IsFiniteSet(Processes)
  BY <1>4, Zenon DEF IsFiniteSet, SP!IsFiniteSet
<1> QED
  BY <1>5 DEF Processes

-----------------------------------------------------------------------------
(* The inductive invariant.                                                *)

Types ==
  /\ running \in Processes \union {IDLE}
  /\ line \in [Processes -> {"none", "InitFiFo", "Create", "InitSem", "Wait", "Write",
                             "Signal", "Read", "Terminate"}]
  /\ handle \in [Processes -> 0 .. MAXFIFO - 1 \union {UNSET}]

\* p has taken the semaphore, and has not begun to give it back.
Took(p) ==
  \/ line[p] = AfterWait(p) /\ pcSem[p] # "waiting"
  \/ p = parent /\ line[p] = "Signal"
  \/ line[p] = "Terminate"
  \/ line[p] = "none" /\ handle[p] # UNSET
Holds(p) ==
  Took(p) /\ (p = parent => line[p] \in {"Write", "Signal"} \/ pcSem[p] = "signal")

\* A process is inside no call but the one it made last.
Places ==
  /\ line[parent] # "Read" /\ line[child] \in {"none", "Wait", "Read", "Terminate"}
  /\ line[parent] = "InitFiFo" <=> handle[parent] = UNSET
  /\ IF line[parent] \in {"InitFiFo", "Create"} THEN line[child] = "none" /\ handle[child] = UNSET
     ELSE handle[child] = handle[parent]
  /\ \A p \in Processes :
     /\ pcSem[p] \in {"out", "tail", "head", "waiting", "register", "signal"}
     /\ pcSem[p] \in {"tail", "head"} => p = parent /\ line[p] = "Wait"
     /\ pcSem[p] \in {"waiting", "register"} => line[p] = AfterWait(p)
     /\ pcSem[p] = "signal" => p = parent /\ line[p] = "Terminate"
     /\ pcFifo[p] = "claim" => p = parent /\ line[p] = "Create"
     /\ pcFifo[p] \in {"length", "data"} => p = parent /\ line[p] = "Signal"
     /\ pcFifo[p] \in {"take", "shrink"} => p = child /\ line[p] = "Terminate"
     /\ pcFifo[p] # "drop"
     /\ pcFifo[p] # "out" => pcSem[p] = "out" /\ at[p] = handle[p]

\* What the kernel notes of the semaphore is what the program does with it.
Noted ==
  /\ granted[mutex] = 0 <=> line[parent] \in {"InitFiFo", "Create", "InitSem"}
  /\ \A p \in Processes :
     /\ mutex \in owned[p] \/ pcSem[p] \in {"register", "signal"} <=> Holds(p)
     /\ ~Took(p) => owned[p] = {}

Taken ==
  first = IF Took(parent) THEN IF Took(child) THEN <<parent, child>> ELSE <<parent>>
          ELSE IF Took(child) THEN <<child>> ELSE <<>>

HasRead == line[child] = "Terminate" \/ (line[child] = "none" /\ handle[child] # UNSET)

\* The FIFO is empty until the parent writes, and then holds the word until the child
\* reads it.
Contents ==
  LET f == handle[parent]
      about(n) == cell[parent] = 0 /\ val[parent] = Sent /\ reg[parent] = 1 /\ length[f] = n
      full == length[f] = 1 /\ data[f][0] = Sent
  IN  /\ line[parent] = "InitFiFo" => \A g \in 0 .. MAXFIFO - 1 : idx[g] = 0
      /\ f # UNSET /\ ~HasRead => idx[f] = 0
      /\ line[parent] = "Create" /\ pcFifo[parent] = "out" => length[f] = 0
      /\ line[parent] \in {"InitSem", "Wait", "Write"} => length[f] = 0 /\ idx[f] = 0
      /\ line[parent] = "Signal" => CASE pcFifo[parent] = "length" -> about(0)
                                      [] pcFifo[parent] = "data" -> about(1)
                                      [] OTHER -> full
      /\ line[parent] \in {"Terminate", "none"} /\ ~HasRead => full

Got ==
  /\ got = IF ~HasRead THEN UNSET ELSE IF Took(parent) THEN Sent ELSE FAIL
  /\ pcFifo[child] # "out" => Took(parent)

Program == Types /\ Places /\ Noted /\ Taken /\ Contents /\ Got
Kernel == SP!IInv /\ SP!AtMostOne /\ SP!Conserved /\ FP!SInv

AInv == Program /\ Kernel

-----------------------------------------------------------------------------
(* The calls of the program are those of the components.                   *)

\* A process waits only while it holds no semaphore.
LEMMA SemaphoreCalls ==
  ASSUME NEW p \in Processes
  PROVE  /\ S!OS_InitSem(p, mutex) => SP!OS_InitSem(p, mutex)
         /\ S!OS_Wait(p, mutex) /\ owned[p] = {} => SP!OS_Wait(p, mutex)
         /\ S!OS_Signal(p, mutex) => SP!OS_Signal(p, mutex)
         /\ S!InitTail(p) => SP!InitTail(p)
         /\ S!InitHead(p) => SP!InitHead(p)
         /\ S!WaitAgain(p) => SP!WaitAgain(p)
         /\ S!WaitRegister(p) => SP!WaitRegister(p)
         /\ S!SignalRelease(p) => SP!SignalRelease(p)
<1> USE DEF S!Running, SP!Running, S!goto, SP!goto, S!return, SP!return, S!list, SP!list,
            S!Put, SP!Put, S!NULL, SP!NULL, S!Cells, SP!Cells, S!Take, SP!Take
<1>1. S!OS_InitSem(p, mutex) => SP!OS_InitSem(p, mutex)
  BY Zenon DEF S!OS_InitSem, SP!OS_InitSem
<1>2. S!WaitAborts(p) => SP!WaitAborts(p)
  BY Zenon DEF S!WaitAborts, SP!WaitAborts
<1>3. S!Enqueue(p, mutex, S!Malloc) => SP!Enqueue(p, mutex, SP!Malloc)
  BY Zenon DEF S!Enqueue, SP!Enqueue, S!Malloc, SP!Malloc, S!Min, SP!Min, S!Linked, SP!Linked
<1>4. S!Malloc = SP!Malloc
  BY Zenon DEF S!Malloc, SP!Malloc, S!Min, SP!Min
<1>5. S!WaitInLine(p, mutex) => SP!WaitInLine(p, mutex)
  BY <1>3, <1>4, Zenon DEF S!WaitInLine, SP!WaitInLine
<1>6. S!WaitForTurn(p, mutex) => SP!WaitForTurn(p, mutex)
  BY Zenon DEF S!WaitForTurn, SP!WaitForTurn
<1>7. S!OS_Wait(p, mutex) /\ owned[p] = {} => SP!OS_Wait(p, mutex)
  <2>1. "inited" # "single"
    OBVIOUS
  <2> QED
    BY <2>1, <1>2, <1>5, <1>6, Zenon DEF S!OS_Wait, SP!OS_Wait
<1>8. S!OS_Signal(p, mutex) => SP!OS_Signal(p, mutex)
  BY Zenon DEF S!OS_Signal, SP!OS_Signal, S!unregister_bit, SP!unregister_bit
<1>9. S!WaitAgain(p) => SP!WaitAgain(p)
  BY Zenon DEF S!WaitAgain, SP!WaitAgain, S!Available, SP!Available
<1>10. S!WaitRegister(p) => SP!WaitRegister(p)
  BY Zenon DEF S!WaitRegister, SP!WaitRegister
<1>11. S!SignalRelease(p) => SP!SignalRelease(p)
  BY Zenon DEF S!SignalRelease, SP!SignalRelease, S!cleanup_semaphore_buf,
               SP!cleanup_semaphore_buf, S!Walk, SP!Walk, S!Stale, SP!Stale, S!Members,
               SP!Members, S!Min, SP!Min
<1>12. S!InitTail(p) => SP!InitTail(p)
  BY Zenon DEF S!InitTail, SP!InitTail
<1>13. S!InitHead(p) => SP!InitHead(p)
  BY Zenon DEF S!InitHead, SP!InitHead
<1> QED
  BY <1>1, <1>7, <1>8, <1>9, <1>10, <1>11, <1>12, <1>13

\* Whether one call may start is all that serialising changes.
LEMMA FifoCalls ==
  ASSUME NEW p \in Processes, NEW f, NEW v
  PROVE  /\ F!OS_InitFiFo(p) /\ (\A q \in Processes : pcFifo[q] # "claim") => FP!OS_InitFiFo(p)
         /\ F!Claim(p) => FP!Claim(p)
         /\ F!OS_Write(p, f, v)
              /\ (\A q \in Processes : pcFifo[q] # "out" => pcFifo[q] = "claim" \/ at[q] # f) =>
                  FP!OS_Write(p, f, v)
         /\ F!OS_Read(p, f)
              /\ (\A q \in Processes : pcFifo[q] # "out" => pcFifo[q] = "claim" \/ at[q] # f) =>
                  FP!OS_Read(p, f)
         /\ F!WriteLength(p) => FP!WriteLength(p)
         /\ F!WriteData(p) => FP!WriteData(p)
         /\ F!ReadTake(p) => FP!ReadTake(p)
         /\ F!ReadShrink(p) => FP!ReadShrink(p)
<1> USE DEF F!goto, FP!goto, F!return, FP!return, F!locals, FP!locals, F!Fifos, FP!Fifos
<1>1. F!OS_InitFiFo(p) /\ (\A q \in Processes : pcFifo[q] # "claim") => FP!OS_InitFiFo(p)
  BY Zenon DEF F!OS_InitFiFo, FP!OS_InitFiFo, F!Free, FP!Free, F!Min, FP!Min
<1>2. F!Claim(p) => FP!Claim(p)
  BY Zenon DEF F!Claim, FP!Claim
<1>3. F!MayUse(p, f)
        /\ (\A q \in Processes : pcFifo[q] # "out" => pcFifo[q] = "claim" \/ at[q] # f) =>
            FP!MayUse(p, f)
  BY DEF F!MayUse, FP!MayUse, FP!Inside
<1>4. F!NextCell(f) = FP!NextCell(f) /\ F!Mod(idx[f] + 1, FIFOSIZE) = FP!Mod(idx[f] + 1, FIFOSIZE)
  BY Zenon DEF F!NextCell, FP!NextCell, F!Mod, FP!Mod
<1>5. F!Word(f, idx[f]) = FP!Word(f, idx[f])
  BY Zenon DEF F!Word, FP!Word, F!Owner, FP!Owner, F!Field, FP!Field, F!Record, FP!Record
<1>6. F!OS_Write(p, f, v)
        /\ (\A q \in Processes : pcFifo[q] # "out" => pcFifo[q] = "claim" \/ at[q] # f) =>
            FP!OS_Write(p, f, v)
  BY <1>3, <1>4, Zenon DEF F!OS_Write, FP!OS_Write
<1>7. F!OS_Read(p, f)
        /\ (\A q \in Processes : pcFifo[q] # "out" => pcFifo[q] = "claim" \/ at[q] # f) =>
            FP!OS_Read(p, f)
  BY <1>3, <1>4, <1>5, Zenon DEF F!OS_Read, FP!OS_Read, F!Readable, FP!Readable
<1>8. F!WriteLength(p) => FP!WriteLength(p)
  BY Zenon DEF F!WriteLength, FP!WriteLength
<1>9. F!WriteData(p) => FP!WriteData(p)
  BY Zenon DEF F!WriteData, FP!WriteData, F!StoreWord, FP!StoreWord, F!Owner, FP!Owner, F!Field,
               FP!Field, F!Record, FP!Record
<1>10. F!ReadTake(p) => FP!ReadTake(p)
  BY Zenon DEF F!ReadTake, FP!ReadTake
<1>11. F!ReadShrink(p) => FP!ReadShrink(p)
  BY Zenon DEF F!ReadShrink, FP!ReadShrink
<1> QED
  BY <1>1, <1>2, <1>6, <1>7, <1>8, <1>9, <1>10, <1>11

\* Fifo as SemaApp and as FifoProofs take it over: the same specification.
LEMMA SerialCalls ==
  /\ FP!Init <=> Serial!Init
  /\ FP!Next <=> Serial!Next
  /\ FP!vars = Serial!vars
<1> USE DEF Serial!goto, FP!goto, Serial!return, FP!return, Serial!locals, FP!locals,
            Serial!Fifos, FP!Fifos, Serial!MayUse, FP!MayUse, Serial!Inside, FP!Inside,
            Serial!Cells, FP!Cells
<1>1. (FP!Init <=> Serial!Init) /\ FP!vars = Serial!vars
  BY Zenon DEF FP!Init, Serial!Init, FP!vars, Serial!vars
<1>2. ASSUME NEW p, NEW f, NEW v
      PROVE  /\ FP!OS_Write(p, f, v) <=> Serial!OS_Write(p, f, v)
             /\ FP!OS_Read(p, f) <=> Serial!OS_Read(p, f)
  BY Zenon DEF FP!OS_Write, Serial!OS_Write, FP!OS_Read, Serial!OS_Read, FP!NextCell,
               Serial!NextCell, FP!Mod, Serial!Mod, FP!Readable, Serial!Readable, FP!Word,
               Serial!Word, FP!Owner, Serial!Owner, FP!Field, Serial!Field, FP!Record,
               Serial!Record
<1>3. ASSUME NEW p
      PROVE  /\ FP!OS_InitFiFo(p) <=> Serial!OS_InitFiFo(p)
             /\ FP!Claim(p) <=> Serial!Claim(p)
             /\ FP!WriteLength(p) <=> Serial!WriteLength(p)
             /\ FP!WriteDrop(p) <=> Serial!WriteDrop(p)
             /\ FP!ReadTake(p) <=> Serial!ReadTake(p)
             /\ FP!ReadShrink(p) <=> Serial!ReadShrink(p)
  BY Zenon DEF FP!OS_InitFiFo, Serial!OS_InitFiFo, FP!Free, Serial!Free, FP!Min, Serial!Min,
               FP!Claim, Serial!Claim, FP!WriteLength, Serial!WriteLength, FP!WriteDrop,
               Serial!WriteDrop, FP!ReadTake, Serial!ReadTake, FP!ReadShrink, Serial!ReadShrink
<1>4. ASSUME NEW p PROVE FP!WriteData(p) <=> Serial!WriteData(p)
  BY Zenon DEF FP!WriteData, Serial!WriteData, FP!StoreWord, Serial!StoreWord, FP!Owner,
               Serial!Owner, FP!Field, Serial!Field, FP!Record, Serial!Record
<1>5. FP!Next <=> Serial!Next
  BY <1>2, <1>3, <1>4, Zenon DEF FP!Next, Serial!Next
<1> QED
  BY <1>1, <1>5

-----------------------------------------------------------------------------
(* The semaphore keeps the processes apart.                                *)

\* The types of the variables of the kernel, as the components give them.
KernelTyped ==
  /\ pcSem \in [Processes -> SP!Labels]
  /\ owned \in [Processes -> SUBSET {mutex}] /\ sem \in [Processes -> {mutex}]
  /\ count \in [{mutex} -> Nat] /\ granted \in [{mutex} -> {0, 1}]
  /\ pcFifo \in [Processes -> {"out", "claim", "length", "drop", "data", "take", "shrink"}]
  /\ at \in [Processes -> 0 .. MAXFIFO - 1]
  /\ length \in [0 .. MAXFIFO - 1 -> Int] /\ idx \in [0 .. MAXFIFO - 1 -> Int]
  /\ data \in [0 .. MAXFIFO - 1 -> [0 .. FIFOSIZE - 1 -> Int]]
  /\ reg \in [Processes -> Int] /\ cell \in [Processes -> Int] /\ val \in [Processes -> Int]

LEMMA KernelTypes == Kernel => KernelTyped
<1>1. -FIFOSIZE .. FIFOSIZE - 1 \subseteq Int
  OBVIOUS
<1> QED
  BY <1>1 DEF Kernel, KernelTyped, SP!Labels, SP!IInv, SP!TypeOK, FP!SInv, FP!TypeOK, FP!Fifos, FP!Cells

\* As many units are left as were granted and are not held: one at most.
Apart ==
  /\ ~(Holds(parent) /\ Holds(child))
  /\ count[mutex] > 0 => ~Holds(parent) /\ ~Holds(child)

LEMMA OneHolds == Kernel /\ Noted => Apart
<1> SUFFICES ASSUME Kernel, Noted PROVE Apart
  OBVIOUS
<1> DEFINE H == {p \in Processes : Holds(p)}
<1>1. /\ owned \in [Processes -> SUBSET {mutex}] /\ sem \in [Processes -> {mutex}]
      /\ count \in [{mutex} -> Nat] /\ granted \in [{mutex} -> {0, 1}]
  BY KernelTypes DEF KernelTyped
<1>2. SP!Holding(mutex) = H
  BY <1>1 DEF SP!Holding, Noted
<1>3. SP!Cardinality(H) = Cardinality(H)
  BY Zenon DEF SP!Cardinality, Cardinality
<1>4. count[mutex] + Cardinality(H) = granted[mutex]
  BY <1>2, <1>3 DEF SP!Conserved, Kernel
<1>5. /\ IsFiniteSet({parent}) /\ IsFiniteSet({child})
      /\ Cardinality({parent}) = 1
  BY FS_Singleton
<1>6. IsFiniteSet({parent} \union {child}) /\ Cardinality({parent} \union {child}) = 2
  BY <1>5, FS_AddElement
<1>7. {parent} \union {child} = Processes
  BY DEF Processes
<1>8. IsFiniteSet(H) /\ Cardinality(H) \in Nat /\ (Cardinality(H) = 0 <=> H = {})
  <2>1. H \subseteq Processes
    OBVIOUS
  <2>2. IsFiniteSet(H)
    BY <1>6, <1>7, <2>1, FS_Subset
  <2> HIDE DEF H
  <2> QED
    BY <2>2, FS_CardinalityType, FS_EmptySet
<1>9. ~(Holds(parent) /\ Holds(child))
  <2> SUFFICES ASSUME Holds(parent), Holds(child) PROVE FALSE
    OBVIOUS
  <2>1. H = {parent} \union {child}
    BY <1>7 DEF Processes
  <2>2. Cardinality(H) = 2
    BY <1>6, <2>1
  <2> HIDE DEF H
  <2> QED
    BY <1>1, <1>4, <2>2
<1>10. ASSUME count[mutex] > 0 PROVE H = {}
  <2> HIDE DEF H
  <2> QED
    BY <1>1, <1>4, <1>8, <1>10
<1> QED
  BY <1>9, <1>10 DEF Processes, Apart

KernelStep == [SP!Next]_SP!vars /\ [FP!Next]_FP!vars

\* The invariants of the components are kept, as SemaphoreProofs and FifoProofs show.
LEMMA KernelKeeps ==
  ASSUME AInv, KernelStep
  PROVE  Kernel'
<1>1. SP!IInv'
  BY Assumptions, SP!InvStep DEF AInv, Kernel, KernelStep
<1>2. SP!AtMostOne'
  BY Assumptions, SP!AtMostOneStep DEF AInv, Kernel, KernelStep, SP!Single
<1>3. SP!Conserved'
  BY Assumptions, SP!ConservedStep DEF AInv, Kernel, KernelStep, SP!Single
<1>4. FP!SInv'
  BY Assumptions, FP!SInvStep DEF AInv, Kernel, KernelStep, FP!Serial
<1> QED
  BY <1>1, <1>2, <1>3, <1>4 DEF Kernel

LEMMA Next_OneHolds == Kernel' /\ Noted' => Apart'
  BY OneHolds, PTL

LEMMA Next_KernelTypes == Kernel' => KernelTyped'
  BY KernelTypes, PTL

-----------------------------------------------------------------------------
(* Each action of the program keeps the invariant.                         *)

LEMMA InitFiFoKeeps ==
  ASSUME AInv, InitFiFo, UNCHANGED running
  PROVE  KernelStep /\ Program'
<1>1. /\ line[parent] = "InitFiFo" /\ pcSem[parent] = "out" /\ pcFifo[parent] = "out"
      /\ F!OS_InitFiFo(parent)
      /\ handle' = [handle EXCEPT ![parent] = at'[parent]]
      /\ line' = [line EXCEPT ![parent] = "Create"]
      /\ UNCHANGED <<got, first, semaphores>>
  BY DEF InitFiFo, At, goto
<1>2. \A q \in Processes : pcFifo[q] # "claim"
  BY <1>1 DEF AInv, Program, Places
<1>3. KernelStep
  <2>1. FP!OS_InitFiFo(parent)
    BY <1>1, <1>2, Assumptions, FifoCalls
  <2>2. FP!Next
    BY <2>1, Assumptions DEF FP!Next
  <2>3. UNCHANGED SP!vars
    BY <1>1 DEF semaphores, SP!vars, SP!list
  <2> QED
    BY <2>2, <2>3 DEF KernelStep
<1>4. Kernel' /\ Kernel
  BY <1>3, KernelKeeps DEF AInv
<1>5. /\ pcFifo' = [pcFifo EXCEPT ![parent] = "claim"]
      /\ at' = [at EXCEPT ![parent] = at'[parent]]
      /\ UNCHANGED <<length, idx, data, reg, cell, val>>
  BY <1>1, <1>4, KernelTypes, Next_KernelTypes DEF F!OS_InitFiFo, F!goto, KernelTyped
<1>6. UNCHANGED <<pcSem, owned, granted>>
  BY <1>1 DEF semaphores
<1>7. at'[parent] \in 0 .. MAXFIFO - 1
  BY <1>4, Next_KernelTypes, Assumptions DEF KernelTyped
<1>8. UNSET \notin 0 .. MAXFIFO - 1
  BY DEF UNSET
<1> USE DEF AInv, Program
<1>9. Types'
  BY <1>1, <1>7 DEF Types
<1>10. Places'
  BY <1>1, <1>4, <1>5, <1>6, <1>7, <1>8, KernelTypes DEF Types, Places, KernelTyped, AfterWait, Processes
<1>11. /\ Took(parent)' <=> Took(parent)
       /\ Took(child)' <=> Took(child)
       /\ Holds(parent)' <=> Holds(parent)
       /\ Holds(child)' <=> Holds(child)
  BY <1>1, <1>6, <1>10 DEF Took, Holds, Types, Places, AfterWait, Processes
<1>12. Noted'
  BY <1>1, <1>6, <1>11 DEF Noted, Types, Processes
<1>13. Taken'
  BY <1>1, <1>11 DEF Taken
<1>14. Contents'
  BY <1>1, <1>4, <1>5, <1>7, KernelTypes DEF Contents, Types, Places, KernelTyped, HasRead, Processes
<1>15. Got'
  BY <1>1, <1>5, <1>11 DEF Got, HasRead, Processes, Types, Places
<1> QED
  BY <1>3, <1>9, <1>10, <1>12, <1>13, <1>14, <1>15

LEMMA CreateKeeps ==
  ASSUME AInv, Create, UNCHANGED running
  PROVE  KernelStep /\ Program'
<1>1. /\ line[parent] = "Create" /\ pcSem[parent] = "out" /\ pcFifo[parent] = "out"
      /\ line' = [line EXCEPT ![parent] = "InitSem", ![child] = "Wait"]
      /\ handle' = [handle EXCEPT ![child] = handle[parent]]
      /\ UNCHANGED <<got, first, pcSem, owned, granted>>
      /\ UNCHANGED <<pcFifo, at, length, idx, data, reg, cell, val>>
  BY DEF Create, At, semaphores, fifos
<1>2. KernelStep
  BY DEF Create, semaphores, fifos, KernelStep, SP!vars, SP!list, FP!vars, FP!locals
<1> USE DEF AInv, Program
<1>3. Types'
  BY <1>1, Assumptions DEF Types
<1>4. Places'
  <2>1. /\ line'[parent] = "InitSem" /\ line'[child] = "Wait"
        /\ handle'[parent] = handle[parent] /\ handle'[child] = handle[parent]
    BY <1>1, Assumptions DEF Types
  <2>2. /\ pcSem[parent] = "out" /\ pcSem[child] = "out"
        /\ pcFifo[parent] = "out" /\ pcFifo[child] = "out"
    BY <1>1, KernelTypes DEF Places, KernelTyped, Processes, AfterWait
  <2> QED
    BY <1>1, <2>1, <2>2 DEF Places, AfterWait, Processes
<1>5. /\ ~Took(parent) /\ ~Took(child) /\ ~Took(parent)' /\ ~Took(child)'
  BY <1>1, <1>4 DEF Took, Types, Places, AfterWait, Processes
<1>6. Noted'
  BY <1>1, <1>5 DEF Noted, Types, Holds, Processes
<1>7. Taken'
  BY <1>1, <1>5 DEF Taken
<1>8. Contents'
  BY <1>1 DEF Contents, Types, Places, HasRead, Processes
<1>9. Got'
  BY <1>1, <1>5 DEF Got, HasRead, Processes, Types, Places
<1> QED
  BY <1>2, <1>3, <1>4, <1>6, <1>7, <1>8, <1>9

LEMMA InitSemKeeps ==
  ASSUME AInv, InitSem, UNCHANGED running
  PROVE  KernelStep /\ Program'
<1>1. /\ line[parent] = "InitSem" /\ pcSem[parent] = "out" /\ pcFifo[parent] = "out"
      /\ S!OS_InitSem(parent, mutex)
      /\ line' = [line EXCEPT ![parent] = "Wait"]
      /\ UNCHANGED <<handle, got, first, fifos>>
  BY DEF InitSem, At, goto
<1>2. /\ UNCHANGED owned /\ granted' = [granted EXCEPT ![mutex] = 1]
      /\ pcSem' = [pcSem EXCEPT ![parent] = "tail"]
      /\ UNCHANGED <<pcFifo, at, length, idx, data, reg, cell, val>>
  BY <1>1 DEF S!OS_InitSem, S!goto, fifos
<1>3. KernelStep
  <2>1. SP!OS_InitSem(parent, mutex)
    BY <1>1, Assumptions, SemaphoreCalls
  <2>2. SP!Next
    BY <2>1, Assumptions DEF SP!Next
  <2>3. UNCHANGED FP!vars
    BY <1>1 DEF fifos, FP!vars, FP!locals
  <2> QED
    BY <2>2, <2>3 DEF KernelStep
<1> USE DEF AInv, Program
<1>4. Types'
  BY <1>1, Assumptions DEF Types
<1>11. /\ line'[parent] = "Wait" /\ line'[child] = line[child]
       /\ pcSem'[parent] = "tail" /\ pcSem'[child] = pcSem[child]
       /\ granted'[mutex] = 1
  BY <1>1, <1>2, KernelTypes, Assumptions DEF Types, KernelTyped
<1>5. Places'
  BY <1>1, <1>2, <1>11 DEF Places, AfterWait, Processes
<1>6. /\ Took(parent)' <=> Took(parent)
      /\ Took(child)' <=> Took(child)
      /\ Holds(parent)' <=> Holds(parent)
      /\ Holds(child)' <=> Holds(child)
  BY <1>1, <1>2, <1>11 DEF Took, Holds, AfterWait
<1>7. Noted'
  <2>1. \A p \in Processes : (Took(p)' <=> Took(p)) /\ (Holds(p)' <=> Holds(p))
    BY <1>6 DEF Processes
  <2>2. \A p \in Processes : pcSem'[p] \in {"register", "signal"} <=> pcSem[p] \in {"register", "signal"}
    BY <1>1, <1>11 DEF Processes
  <2> QED
    BY <1>2, <1>11, <2>1, <2>2 DEF Noted
<1>8. Taken'
  BY <1>1, <1>6 DEF Taken
<1>9. Contents'
  BY <1>1, <1>2 DEF Contents, Types, Places, HasRead, Processes
<1>10. Got'
  BY <1>1, <1>2, <1>6 DEF Got, HasRead, Processes, Types, Places
<1> QED
  BY <1>3, <1>4, <1>5, <1>7, <1>8, <1>9, <1>10

\* A process that takes the semaphore finds that nobody holds it.
LEMMA WaitKeeps ==
  ASSUME AInv, NEW p \in Processes, Wait(p), UNCHANGED running
  PROVE  KernelStep /\ Program'
<1>1. /\ line[p] = "Wait" /\ pcSem[p] = "out" /\ pcFifo[p] = "out"
      /\ S!OS_Wait(p, mutex) /\ Order(p)
      /\ line' = [line EXCEPT ![p] = AfterWait(p)]
      /\ UNCHANGED <<handle, got, fifos>>
  BY DEF Wait, At, goto
<1>2. KernelTyped /\ Apart
  BY KernelTypes, OneHolds DEF AInv, Program
<1>3. /\ UNCHANGED <<owned, granted>>
      /\ \/ pcSem' = [pcSem EXCEPT ![p] = "waiting"]
         \/ count[mutex] > 0 /\ pcSem' = [pcSem EXCEPT ![p] = "register"]
      /\ UNCHANGED <<pcFifo, at, length, idx, data, reg, cell, val>>
  BY <1>1 DEF S!OS_Wait, S!WaitAborts, S!WaitInLine, S!WaitForTurn, S!Take, S!goto, fifos
<1> USE DEF AInv, Program
<1>4. ~Took(p) /\ p \in {parent, child}
  BY <1>1 DEF Took, AfterWait, Processes
<1>5. KernelStep
  <2>1. owned[p] = {}
    BY <1>4 DEF Noted
  <2>2. SP!OS_Wait(p, mutex)
    BY <1>1, <2>1, SemaphoreCalls
  <2>3. SP!Next
    BY <2>2 DEF SP!Next
  <2>4. UNCHANGED FP!vars
    BY <1>1 DEF fifos, FP!vars, FP!locals
  <2> QED
    BY <2>3, <2>4 DEF KernelStep
<1>6. Types'
  BY <1>1 DEF Types, AfterWait
<1>7. Places'
  <2>1. /\ line'[p] = AfterWait(p) /\ pcSem'[p] \in {"waiting", "register"}
        /\ \A q \in Processes \ {p} : line'[q] = line[q] /\ pcSem'[q] = pcSem[q]
    BY <1>1, <1>2, <1>3 DEF Types, KernelTyped
  <2>2. CASE p = parent
    BY <1>1, <1>3, <2>1, <2>2 DEF Places, AfterWait, Processes
  <2>3. CASE p = child
    BY <1>1, <1>3, <2>1, <2>3 DEF Places, AfterWait, Processes
  <2> QED
    BY <1>4, <2>2, <2>3
<1>8. \A q \in Processes \ {p} : (Took(q)' <=> Took(q)) /\ (Holds(q)' <=> Holds(q))
  BY <1>1, <1>2, <1>3 DEF Took, Holds, Types, AfterWait, KernelTyped
<1>9. \/ /\ pcSem'[p] = "waiting" /\ ~Took(p)' /\ ~Holds(p)' /\ first' = first
      \/ /\ pcSem'[p] = "register" /\ Took(p)' /\ Holds(p)' /\ first' = Append(first, p)
         /\ ~Holds(parent) /\ ~Holds(child)
  BY <1>1, <1>2, <1>3 DEF Took, Holds, Types, AfterWait, KernelTyped, Order, Processes, Apart
<1>10. Noted'
  BY <1>1, <1>2, <1>3, <1>4, <1>8, <1>9 DEF Noted, Types, Processes, KernelTyped, AfterWait
<1>11. Taken'
  <2>1. Holds(child) <=> Took(child)
    BY DEF Holds
  <2> QED
    BY <1>4, <1>8, <1>9, <2>1 DEF Taken, Processes
<1>12. Contents'
  BY <1>1, <1>2, <1>3, <1>4 DEF Contents, Types, Places, HasRead, Processes, AfterWait
<1>13. Got'
  <2>1. ~HasRead \/ Took(child)
    BY DEF HasRead, Took
  <2>2. HasRead' <=> HasRead
    BY <1>1, <1>4 DEF HasRead, Types, AfterWait, Processes
  <2>3. HasRead => (Took(parent)' <=> Took(parent))
    BY <1>4, <1>8, <1>9, <2>1 DEF Processes, Holds, HasRead
  <2> QED
    BY <1>1, <1>3, <1>4, <1>8, <1>9, <2>2, <2>3 DEF Got, Processes
<1> QED
  BY <1>5, <1>6, <1>7, <1>10, <1>11, <1>12, <1>13

\* The word goes to cell 0 of the empty FIFO; the child, which has not taken the semaphore
\* or has read in vain, is in no call.
LEMMA WriteKeeps ==
  ASSUME AInv, Write, UNCHANGED running
  PROVE  KernelStep /\ Program'
<1> DEFINE f == handle[parent]
<1>1. /\ line[parent] = "Write" /\ pcSem[parent] = "out" /\ pcFifo[parent] = "out"
      /\ F!OS_Write(parent, f, Sent)
      /\ line' = [line EXCEPT ![parent] = "Signal"]
      /\ UNCHANGED <<handle, got, first, semaphores>>
  BY DEF Write, At, goto
<1>2. UNCHANGED <<pcSem, owned, granted>>
  BY <1>1 DEF semaphores
<1>3. KernelTyped /\ Apart /\ f \in 0 .. MAXFIFO - 1 /\ f # UNSET
  BY <1>1, KernelTypes, OneHolds, Assumptions DEF AInv, Program, Types, Places
<1> USE DEF AInv, Program
<1>4. Holds(parent) /\ Took(parent) /\ ~Holds(child) /\ ~Took(child)
  BY <1>1, <1>3 DEF Took, Holds, AfterWait, Apart
<1>5. length[f] = 0 /\ idx[f] = 0
  BY <1>1 DEF Contents
<1>6. F!NextCell(f) = 0
  BY <1>5 DEF F!NextCell, F!Mod
<1>7. /\ pcFifo' = [pcFifo EXCEPT ![parent] = "length"] /\ at' = [at EXCEPT ![parent] = f]
      /\ reg' = [reg EXCEPT ![parent] = 1] /\ cell' = [cell EXCEPT ![parent] = 0]
      /\ val' = [val EXCEPT ![parent] = Sent]
      /\ UNCHANGED <<length, idx, data>>
  BY <1>1, <1>5, <1>6 DEF F!OS_Write, F!goto
<1>8. KernelStep
  <2>1. \A q \in Processes : pcFifo[q] = "out"
    BY <1>1, <1>3, <1>4 DEF Places, Took, KernelTyped, Processes
  <2>2. FP!OS_Write(parent, f, Sent)
    BY <1>1, <2>1, Assumptions, FifoCalls
  <2>3. FP!Next
    BY <1>3, <2>2, Assumptions DEF FP!Next, FP!Fifos
  <2>4. UNCHANGED SP!vars
    BY <1>1 DEF semaphores, SP!vars, SP!list
  <2> QED
    BY <2>3, <2>4 DEF KernelStep
<1>9. Types'
  BY <1>1 DEF Types
<1>10. line'[parent] = "Signal" /\ line'[child] = line[child]
  BY <1>1, Assumptions DEF Types
<1>11. Places'
  <2>1. /\ pcFifo'[parent] = "length" /\ pcFifo'[child] = pcFifo[child]
        /\ at'[parent] = f /\ at'[child] = at[child]
    BY <1>3, <1>7, Assumptions DEF KernelTyped
  <2> QED
    BY <1>1, <1>2, <1>3, <1>10, <2>1 DEF Places, Processes, AfterWait
<1>12. /\ Took(parent)' <=> Took(parent)
       /\ Took(child)' <=> Took(child)
       /\ Holds(parent)' <=> Holds(parent)
       /\ Holds(child)' <=> Holds(child)
  BY <1>1, <1>2, <1>4, <1>10 DEF Took, Holds, AfterWait
<1>13. Noted'
  BY <1>1, <1>2, <1>10, <1>12 DEF Noted, Processes
<1>14. Taken'
  BY <1>1, <1>12 DEF Taken
<1>15. Contents'
  <2>1. /\ pcFifo'[parent] = "length" /\ reg'[parent] = 1 /\ cell'[parent] = 0
        /\ val'[parent] = Sent
    BY <1>3, <1>7, Assumptions DEF KernelTyped
  <2> QED
    BY <1>1, <1>5, <1>7, <1>10, <2>1 DEF Contents, HasRead
<1>16. Got'
  BY <1>1, <1>3, <1>7, <1>10, <1>12, Assumptions DEF Got, HasRead, KernelTyped
<1> QED
  BY <1>8, <1>9, <1>11, <1>13, <1>14, <1>15, <1>16

LEMMA SignalKeeps ==
  ASSUME AInv, Signal, UNCHANGED running
  PROVE  KernelStep /\ Program'
<1>1. /\ line[parent] = "Signal" /\ pcSem[parent] = "out" /\ pcFifo[parent] = "out"
      /\ S!OS_Signal(parent, mutex)
      /\ line' = [line EXCEPT ![parent] = "Terminate"]
      /\ UNCHANGED <<handle, got, first, fifos>>
  BY DEF Signal, At, goto
<1>2. /\ pcSem' = [pcSem EXCEPT ![parent] = "signal"]
      /\ owned' = [owned EXCEPT ![parent] = {}] /\ UNCHANGED granted
      /\ UNCHANGED <<pcFifo, at, length, idx, data, reg, cell, val>>
  BY <1>1 DEF S!OS_Signal, S!unregister_bit, S!goto, fifos
<1>3. KernelTyped
  BY KernelTypes DEF AInv
<1>4. KernelStep
  <2>1. SP!OS_Signal(parent, mutex)
    BY <1>1, Assumptions, SemaphoreCalls
  <2>2. SP!Next
    BY <2>1, Assumptions DEF SP!Next
  <2>3. UNCHANGED FP!vars
    BY <1>1 DEF fifos, FP!vars, FP!locals
  <2> QED
    BY <2>2, <2>3 DEF KernelStep
<1> USE DEF AInv, Program
<1>5. Types'
  BY <1>1 DEF Types
<1>6. /\ line'[parent] = "Terminate" /\ line'[child] = line[child]
      /\ pcSem'[parent] = "signal" /\ pcSem'[child] = pcSem[child]
      /\ owned'[parent] = {} /\ owned'[child] = owned[child]
  BY <1>1, <1>2, <1>3, Assumptions DEF Types, KernelTyped
<1>7. Places'
  BY <1>1, <1>2, <1>3, <1>6, ZenonT(40) DEF Places, Processes, AfterWait, KernelTyped
<1>8. /\ Took(parent)' /\ Took(parent) /\ Holds(parent) /\ Holds(parent)'
      /\ Took(child)' <=> Took(child)
      /\ Holds(child)' <=> Holds(child)
  BY <1>1, <1>2, <1>6 DEF Took, Holds, AfterWait
<1>9. Noted'
  BY <1>1, <1>2, <1>6, <1>8 DEF Noted, Processes
<1>10. Taken'
  BY <1>1, <1>8 DEF Taken
<1>11. Contents'
  BY <1>1, <1>2, <1>6 DEF Contents, HasRead, Places
<1>12. Got'
  BY <1>1, <1>2, <1>6, <1>8 DEF Got, HasRead
<1> QED
  BY <1>4, <1>5, <1>7, <1>9, <1>10, <1>11, <1>12

\* The word at idx 0 of a FIFO is the first of its data.
LEMMA FirstWord ==
  ASSUME KernelTyped, NEW f \in 0 .. MAXFIFO - 1
  PROVE  F!Word(f, 0) = {data[f][0]}
<1>1. (0 + 2) \div (FIFOSIZE + 2) = 0 /\ (0 + 2) % (FIFOSIZE + 2) = 2
  OBVIOUS
<1>2. F!Owner(f, 0) = f /\ F!Field(0) = 2
  BY <1>1 DEF F!Owner, F!Field, F!Record
<1> QED
  BY <1>2 DEF F!Word, F!Fifos

\* The child reads when it holds the semaphore: the word, if the parent had it before.
LEMMA ReadKeeps ==
  ASSUME AInv, Read, UNCHANGED running
  PROVE  KernelStep /\ Program'
<1> DEFINE f == handle[child]
<1>1. /\ line[child] = "Read" /\ pcSem[child] = "out" /\ pcFifo[child] = "out"
      /\ \/ F!OS_Read(child, f) /\ got' = val'[child]
         \/ ~F!Readable(f) /\ got' = FAIL /\ UNCHANGED fifos
      /\ line' = [line EXCEPT ![child] = "Terminate"]
      /\ UNCHANGED <<handle, first, semaphores>>
  BY DEF Read, At, goto
<1>2. UNCHANGED <<pcSem, owned, granted>>
  BY <1>1 DEF semaphores
<1>3. KernelTyped /\ Apart
  BY KernelTypes, OneHolds DEF AInv, Program
<1> USE DEF AInv, Program
<1>4. /\ line[parent] \notin {"InitFiFo", "Create"} /\ f = handle[parent] /\ f # UNSET
      /\ f \in 0 .. MAXFIFO - 1
  BY <1>1, Assumptions DEF Types, Places
<1>5. Holds(child) /\ Took(child) /\ ~Holds(parent) /\ ~HasRead
  BY <1>1, <1>3 DEF Took, Holds, AfterWait, Apart, HasRead
<1>6. idx[f] = 0 /\ length[f] \in {0, 1}
      /\ (Took(parent) => length[f] = 1 /\ data[f][0] = Sent)
      /\ (~Took(parent) => length[f] = 0)
  <2>1. line[parent] \in {"InitSem", "Wait", "Write", "Terminate", "none"}
    BY <1>4, <1>5, Assumptions DEF Holds, Took, Types, Places
  <2>2. Took(parent) <=> line[parent] \in {"Terminate", "none"}
    BY <1>4, <1>5, <2>1 DEF Took, Holds, AfterWait
  <2> QED
    BY <1>4, <1>5, <2>1, <2>2 DEF Contents
<1>7. /\ UNCHANGED <<length, idx, data>> /\ pcFifo'[parent] = pcFifo[parent]
      /\ at'[parent] = at[parent] /\ reg'[parent] = reg[parent] /\ cell'[parent] = cell[parent]
      /\ val'[parent] = val[parent]
      /\ \/ Took(parent) /\ F!OS_Read(child, f) /\ got' = Sent /\ pcFifo'[child] = "take" /\ at'[child] = f
         \/ ~Took(parent) /\ got' = FAIL /\ UNCHANGED fifos /\ pcFifo'[child] = "out"
  <2>1. CASE F!OS_Read(child, f) /\ got' = val'[child]
    <3>1. Took(parent)
      BY <1>6, <2>1 DEF F!OS_Read, F!Readable
    <3>2. PICK v \in F!Word(f, idx[f]) : val' = [val EXCEPT ![child] = v]
      BY <2>1, Zenon DEF F!OS_Read
    <3>3. F!Word(f, idx[f]) = {data[f][0]}
      BY <1>3, <1>4, <1>6, FirstWord
    <3>4. v = Sent
      BY <1>6, <3>1, <3>2, <3>3
    <3>5. got' = Sent
      BY <1>3, <2>1, <3>2, <3>4, Assumptions DEF KernelTyped
    <3> QED
      BY <1>3, <2>1, <3>1, <3>5, Assumptions DEF F!OS_Read, F!goto, KernelTyped
  <2>2. CASE ~F!Readable(f) /\ got' = FAIL /\ UNCHANGED fifos
    BY <1>1, <1>6, <2>2 DEF F!Readable, fifos
  <2> QED
    BY <1>1, <2>1, <2>2
<1>8. KernelStep
  <2>1. \A q \in Processes : pcFifo[q] = "out"
    BY <1>1, <1>3, <1>4, <1>5 DEF Places, Took, Holds, KernelTyped, Processes
  <2>2. F!OS_Read(child, f) => FP!OS_Read(child, f)
    BY <2>1, Assumptions, FifoCalls
  <2>3. F!OS_Read(child, f) => FP!Next
    BY <1>4, <2>2, Assumptions DEF FP!Next, FP!Fifos
  <2>4. UNCHANGED SP!vars
    BY <1>1 DEF semaphores, SP!vars, SP!list
  <2>5. UNCHANGED fifos => UNCHANGED FP!vars
    BY DEF fifos, FP!vars, FP!locals
  <2> QED
    BY <1>7, <2>3, <2>4, <2>5 DEF KernelStep
<1>9. Types'
  BY <1>1 DEF Types
<1>10. line'[child] = "Terminate" /\ line'[parent] = line[parent]
  BY <1>1, Assumptions DEF Types
<1>11. Places'
  BY <1>1, <1>2, <1>4, <1>7, <1>10 DEF Places, Processes, AfterWait
<1>12. /\ Took(parent)' <=> Took(parent)
       /\ Took(child)' /\ Took(child) /\ Holds(child)' /\ Holds(child)
       /\ Holds(parent)' <=> Holds(parent)
  BY <1>1, <1>2, <1>5, <1>10 DEF Took, Holds, AfterWait
<1>13. Noted'
  BY <1>1, <1>2, <1>10, <1>12 DEF Noted, Processes
<1>14. Taken'
  BY <1>1, <1>12 DEF Taken
<1>15. HasRead'
  BY <1>10 DEF HasRead
<1>16. Contents'
  BY <1>1, <1>4, <1>5, <1>7, <1>10, <1>15 DEF Contents, Holds, Took
<1>17. Got'
  BY <1>7, <1>12, <1>15 DEF Got
<1> QED
  BY <1>8, <1>9, <1>11, <1>13, <1>14, <1>16, <1>17

LEMMA TerminateKeeps ==
  ASSUME AInv, NEW p \in Processes, Terminate(p), UNCHANGED running
  PROVE  KernelStep /\ Program'
<1>1. /\ line[p] = "Terminate" /\ pcSem[p] = "out" /\ pcFifo[p] = "out"
      /\ line' = [line EXCEPT ![p] = "none"]
      /\ UNCHANGED <<handle, got, first, pcSem, owned, granted>>
      /\ UNCHANGED <<pcFifo, at, length, idx, data, reg, cell, val>>
  BY DEF Terminate, At, goto, semaphores, fifos
<1>2. KernelStep
  BY DEF Terminate, semaphores, fifos, KernelStep, SP!vars, SP!list, FP!vars, FP!locals
<1> USE DEF AInv, Program
<1>3. Types'
  BY <1>1 DEF Types
<1>4. line'[p] = "none" /\ \A q \in Processes \ {p} : line'[q] = line[q]
  BY <1>1 DEF Types
<1>5. /\ parent \in Processes /\ child \in Processes
      /\ p = parent \/ p = child
  BY DEF Processes
<1>6. handle[p] # UNSET /\ line[parent] \notin {"InitFiFo", "Create"}
  BY <1>1, <1>5 DEF Places
<1>7. Places'
  <2>1. CASE p = parent
    BY <1>1, <1>4, <1>5, <1>6, <2>1 DEF Places, AfterWait, Processes
  <2>2. CASE p = child
    BY <1>1, <1>4, <1>5, <1>6, <2>2 DEF Places, AfterWait, Processes
  <2> QED
    BY <1>5, <2>1, <2>2
<1>8. \A q \in Processes : (Took(q)' <=> Took(q)) /\ (Holds(q)' <=> Holds(q))
  BY <1>1, <1>4, <1>5, <1>6 DEF Took, Holds, AfterWait
<1>9. Noted'
  BY <1>1, <1>4, <1>5, <1>6, <1>8 DEF Noted
<1>10. Taken'
  BY <1>1, <1>5, <1>8 DEF Taken
<1>11. HasRead' <=> HasRead
  BY <1>1, <1>4, <1>5, <1>6 DEF HasRead
<1>12. Contents'
  BY <1>1, <1>4, <1>5, <1>6, <1>11 DEF Contents
<1>13. Got'
  BY <1>1, <1>5, <1>8, <1>11 DEF Got
<1> QED
  BY <1>2, <1>3, <1>7, <1>9, <1>10, <1>12, <1>13

\* Inside OS_InitSem: the parent stores tail and head before it waits.
LEMMA InitStoresKeep ==
  ASSUME AInv, NEW p \in Processes, S!InitTail(p) \/ S!InitHead(p),
         UNCHANGED <<running, program, fifos>>
  PROVE  KernelStep /\ Program'
<1>1. UNCHANGED <<line, handle, got, first>>
      /\ UNCHANGED <<pcFifo, at, length, idx, data, reg, cell, val>>
  BY DEF program, fifos
<1>2. KernelStep
  <2>1. SP!InitTail(p) \/ SP!InitHead(p)
    BY SemaphoreCalls
  <2>2. SP!Next
    BY <2>1 DEF SP!Next
  <2>3. UNCHANGED FP!vars
    BY DEF fifos, FP!vars, FP!locals
  <2> QED
    BY <2>2, <2>3 DEF KernelStep
<1>3. KernelTyped
  BY KernelTypes DEF AInv
<1> USE DEF AInv, Program
<1>4. /\ pcSem[p] \in {"tail", "head"} /\ UNCHANGED <<owned, granted>>
      /\ pcSem' = [pcSem EXCEPT ![p] = "head"] \/ pcSem' = [pcSem EXCEPT ![p] = "out"]
  BY DEF S!InitTail, S!InitHead, S!Running, S!goto, S!return
<1>5. p = parent /\ line[p] = "Wait"
  BY <1>4 DEF Places
<1>6. /\ pcSem'[p] \in {"head", "out"} /\ \A q \in Processes \ {p} : pcSem'[q] = pcSem[q]
      /\ \A q \in Processes :
           /\ pcSem'[q] = "waiting" <=> pcSem[q] = "waiting"
           /\ pcSem'[q] = "register" <=> pcSem[q] = "register"
           /\ pcSem'[q] = "signal" <=> pcSem[q] = "signal"
  BY <1>3, <1>4 DEF KernelTyped
<1>7. Types'
  BY <1>1 DEF Types
<1>8. Places'
  BY <1>1, <1>4, <1>5, <1>6 DEF Places, AfterWait
<1>9. \A q \in Processes : (Took(q)' <=> Took(q)) /\ (Holds(q)' <=> Holds(q))
  BY <1>1, <1>6 DEF Took, Holds, AfterWait
<1>10. Noted'
  BY <1>1, <1>4, <1>6, <1>9 DEF Noted
<1>11. parent \in Processes /\ child \in Processes /\ (HasRead' <=> HasRead)
  BY <1>1 DEF Processes, HasRead
<1>12. Taken' /\ Contents' /\ Got'
  BY <1>1, <1>9, <1>11 DEF Taken, Contents, Got
<1> QED
  BY <1>2, <1>7, <1>8, <1>10, <1>12

\* Inside OS_Wait and OS_Signal.
LEMMA InSemaphoreCallKeeps ==
  ASSUME AInv, NEW p \in Processes, UNCHANGED running,
         UNCHANGED <<line, handle, got, fifos>>,
         S!WaitAgain(p) \/ S!WaitRegister(p) \/ S!SignalRelease(p),
         IF pcSem[p] = "waiting" THEN Order(p) ELSE UNCHANGED first
  PROVE  KernelStep /\ Program'
<1>1. /\ UNCHANGED <<line, handle, got, fifos>>
      /\ S!WaitAgain(p) \/ S!WaitRegister(p) \/ S!SignalRelease(p)
      /\ IF pcSem[p] = "waiting" THEN Order(p) ELSE UNCHANGED first
  OBVIOUS
<1>2. KernelTyped /\ Apart
  BY KernelTypes, OneHolds DEF AInv, Program
<1>3. UNCHANGED <<pcFifo, at, length, idx, data, reg, cell, val>>
  BY <1>1 DEF fifos
<1>4. KernelStep
  <2>1. SP!WaitAgain(p) \/ SP!WaitRegister(p) \/ SP!SignalRelease(p)
    BY <1>1, SemaphoreCalls
  <2>2. SP!Next
    BY <2>1 DEF SP!Next
  <2>3. UNCHANGED FP!vars
    BY <1>1 DEF fifos, FP!vars, FP!locals
  <2> QED
    BY <2>2, <2>3 DEF KernelStep
<1>5. /\ sem[p] = mutex /\ UNCHANGED granted
      /\ \/ /\ pcSem[p] = "waiting" /\ pcSem' = [pcSem EXCEPT ![p] = "register"]
            /\ count[mutex] > 0 /\ UNCHANGED owned /\ first' = Append(first, p)
         \/ /\ pcSem[p] = "register" /\ pcSem' = [pcSem EXCEPT ![p] = "out"]
            /\ owned' = [owned EXCEPT ![p] = @ \union {mutex}] /\ UNCHANGED first
         \/ /\ pcSem[p] = "signal" /\ pcSem' = [pcSem EXCEPT ![p] = "out"]
            /\ UNCHANGED <<owned, first>>
  <2>0. sem[p] = mutex
    BY <1>2 DEF KernelTyped
  <2>1. CASE S!WaitAgain(p)
    BY <1>1, <1>2, <2>0, <2>1 DEF S!WaitAgain, S!Running, S!Take, S!goto, S!Available, Order, KernelTyped
  <2>2. CASE S!WaitRegister(p)
    BY <1>1, <2>0, <2>2 DEF S!WaitRegister, S!Running, S!return, S!goto, S!list
  <2>3. CASE S!SignalRelease(p)
    BY <1>1, <2>0, <2>3 DEF S!SignalRelease, S!Running, S!return, S!goto
  <2> QED
    BY <1>1, <2>1, <2>2, <2>3
<1> USE DEF AInv, Program
<1>6. Types'
  BY <1>1 DEF Types
<1>7. /\ parent \in Processes /\ child \in Processes
      /\ p = parent \/ p = child
  BY DEF Processes
<1>8. /\ pcSem'[p] \in {"register", "out"} /\ (pcSem'[p] = "register" => pcSem[p] = "waiting")
      /\ \A q \in Processes \ {p} : pcSem'[q] = pcSem[q]
      /\ pcSem[p] # "out"
  BY <1>2, <1>5 DEF KernelTyped
<1>9. Places'
  BY <1>1, <1>3, <1>8 DEF Places, AfterWait
<1>10. \A q \in Processes \ {p} : (Took(q)' <=> Took(q)) /\ (Holds(q)' <=> Holds(q))
  BY <1>1, <1>8 DEF Took, Holds, AfterWait
<1>11. CASE pcSem[p] = "waiting"
  <2>1. /\ pcSem'[p] = "register" /\ ~Took(p) /\ ~Holds(p) /\ Took(p)' /\ Holds(p)'
        /\ ~Holds(parent) /\ ~Holds(child) /\ first' = Append(first, p) /\ UNCHANGED <<owned, granted>>
    BY <1>1, <1>2, <1>5, <1>7, <1>11 DEF Places, Took, Holds, AfterWait, Apart, KernelTyped
  <2>2. Noted'
    BY <1>1, <1>7, <1>8, <1>10, <2>1 DEF Noted
  <2>3. Holds(child) <=> Took(child)
    BY DEF Holds
  <2>4. Taken'
    <3>1. ~Took(child) /\ first = IF Took(parent) THEN <<parent>> ELSE <<>>
      BY <2>1, <2>3 DEF Taken
    <3>2. CASE p = parent
      BY <1>7, <1>10, <2>1, <3>1, <3>2, Assumptions DEF Taken
    <3>3. CASE p = child
      BY <1>7, <1>10, <2>1, <3>1, <3>3, Assumptions DEF Taken
    <3> QED
      BY <1>7, <3>2, <3>3
  <2>5. (HasRead' <=> HasRead) /\ (HasRead => p = parent /\ Took(child))
    BY <1>1, <1>7, <1>11 DEF HasRead, Took, Places, AfterWait
  <2>6. Contents'
    BY <1>1, <1>3, <2>5 DEF Contents
  <2>7. Got'
    BY <1>1, <1>3, <1>7, <1>10, <2>1, <2>3, <2>5 DEF Got
  <2> QED
    BY <1>4, <1>6, <1>9, <2>2, <2>4, <2>6, <2>7
<1>12. CASE pcSem[p] # "waiting"
  <2>1. /\ pcSem[p] \in {"register", "signal"} /\ pcSem'[p] = "out" /\ first' = first
        /\ UNCHANGED granted /\ \A q \in Processes \ {p} : owned'[q] = owned[q]
        /\ owned'[p] = IF pcSem[p] = "register" THEN owned[p] \union {mutex} ELSE owned[p]
    BY <1>2, <1>5, <1>8, <1>12 DEF KernelTyped
  <2>2. /\ Took(p) /\ Took(p)' /\ Holds(p)
        /\ Holds(p)' <=> pcSem[p] = "register"
    BY <1>1, <1>7, <2>1 DEF Places, Took, Holds, AfterWait
  <2>3. pcSem[p] = "signal" => mutex \notin owned[p]
    <3>1. SP!AtMostOne
      BY DEF Kernel
    <3> QED
      BY <2>1, <3>1 DEF SP!AtMostOne
  <2>4. Noted'
    BY <1>1, <1>7, <1>8, <1>10, <2>1, <2>2, <2>3 DEF Noted
  <2>5. Taken'
    BY <1>7, <1>10, <2>1, <2>2 DEF Taken
  <2>6. HasRead' <=> HasRead
    BY <1>1 DEF HasRead
  <2>7. Contents'
    BY <1>1, <1>3, <2>6 DEF Contents
  <2>8. Got'
    BY <1>1, <1>3, <1>7, <1>10, <2>2, <2>6 DEF Got
  <2> QED
    BY <1>4, <1>6, <1>9, <2>4, <2>5, <2>7, <2>8
<1> QED
  BY <1>11, <1>12

\* Inside the calls on the FIFO.
LEMMA InFifoCallFrame ==
  ASSUME AInv, NEW p \in Processes, UNCHANGED <<running, program, semaphores>>
  PROVE  /\ UNCHANGED SP!vars
         /\ UNCHANGED <<line, handle, got, first, pcSem, owned, granted>>
         /\ Types' /\ Noted' /\ Taken'
         /\ (HasRead' <=> HasRead)
         /\ \A q \in Processes : Took(q)' <=> Took(q)
<1>1. UNCHANGED <<running, line, handle, got, first, pcSem, owned, granted>>
  BY DEF program, semaphores
<1>2. UNCHANGED SP!vars
  BY DEF semaphores, SP!vars, SP!list
<1>3. Types' /\ Noted' /\ Taken' /\ (HasRead' <=> HasRead) /\ \A q \in Processes : Took(q)' <=> Took(q)
  BY <1>1 DEF AInv, Program, Types, Noted, Taken, HasRead, Took, Holds, AfterWait
<1> QED
  BY <1>1, <1>2, <1>3

LEMMA ClaimKeeps ==
  ASSUME AInv, NEW p \in Processes, F!Claim(p), UNCHANGED <<running, program, semaphores>>
  PROVE  KernelStep /\ Program'
<1> DEFINE f == handle[parent]
<1>1. /\ UNCHANGED SP!vars
      /\ UNCHANGED <<line, handle, got, first, pcSem, owned, granted>>
      /\ Types' /\ Noted' /\ Taken'
      /\ (HasRead' <=> HasRead)
      /\ \A q \in Processes : Took(q)' <=> Took(q)
  BY InFifoCallFrame
<1>2. KernelTyped
  BY KernelTypes DEF AInv
<1>3. KernelStep
  BY <1>1, FifoCalls DEF KernelStep, FP!Next
<1> USE DEF AInv, Program
<1>4. p = parent /\ pcFifo[parent] = "claim" /\ line[parent] = "Create" /\ at[parent] = f
      /\ f \in 0 .. MAXFIFO - 1
  <2>1. pcFifo[p] = "claim"
    BY DEF F!Claim
  <2>2. p = parent /\ pcFifo[parent] = "claim" /\ line[parent] = "Create" /\ at[parent] = f
    BY <2>1 DEF Places
  <2> QED
    BY <1>2, <2>2, Assumptions DEF KernelTyped
<1>5. /\ pcFifo'[parent] = "out" /\ pcFifo'[child] = pcFifo[child] /\ at'[child] = at[child]
      /\ length'[f] = 0 /\ UNCHANGED idx
  BY <1>2, <1>4, Assumptions DEF F!Claim, F!return, F!goto, KernelTyped
<1>6. Places'
  BY <1>1, <1>4, <1>5 DEF Places, Processes, AfterWait
<1>7. Contents'
  BY <1>1, <1>4, <1>5 DEF Contents
<1>8. Got'
  BY <1>1, <1>5, Assumptions DEF Got
<1> QED
  BY <1>1, <1>3, <1>6, <1>7, <1>8

LEMMA WriteLengthKeeps ==
  ASSUME AInv, NEW p \in Processes, F!WriteLength(p), UNCHANGED <<running, program, semaphores>>
  PROVE  KernelStep /\ Program'
<1> DEFINE f == handle[parent]
<1>1. /\ UNCHANGED SP!vars
      /\ UNCHANGED <<line, handle, got, first, pcSem, owned, granted>>
      /\ Types' /\ Noted' /\ Taken'
      /\ (HasRead' <=> HasRead)
      /\ \A q \in Processes : Took(q)' <=> Took(q)
  BY InFifoCallFrame
<1>2. KernelTyped
  BY KernelTypes DEF AInv
<1>3. KernelStep
  BY <1>1, FifoCalls DEF KernelStep, FP!Next
<1> USE DEF AInv, Program
<1>4. p = parent /\ pcFifo[parent] = "length" /\ line[parent] = "Signal" /\ at[parent] = f
      /\ f \in 0 .. MAXFIFO - 1
  <2>1. pcFifo[p] = "length"
    BY DEF F!WriteLength
  <2>2. p = parent /\ pcFifo[parent] = "length" /\ line[parent] = "Signal" /\ at[parent] = f
    BY <2>1 DEF Places
  <2> QED
    BY <1>2, <2>2, Assumptions DEF KernelTyped
<1>5. reg[parent] = 1 /\ cell[parent] = 0 /\ val[parent] = Sent
  BY <1>4 DEF Contents
<1>6. /\ pcFifo'[parent] = "data" /\ pcFifo'[child] = pcFifo[child]
      /\ length'[f] = 1 /\ UNCHANGED <<idx, data, at, reg, cell, val>>
  BY <1>2, <1>4, <1>5, Assumptions DEF F!WriteLength, F!goto, F!locals, KernelTyped
<1>7. Places'
  BY <1>1, <1>4, <1>6 DEF Places, Processes, AfterWait
<1>8. Contents'
  BY <1>1, <1>4, <1>5, <1>6 DEF Contents
<1>9. Got'
  BY <1>1, <1>6, Assumptions DEF Got
<1> QED
  BY <1>1, <1>3, <1>7, <1>8, <1>9

LEMMA WriteDataKeeps ==
  ASSUME AInv, NEW p \in Processes, F!WriteData(p), UNCHANGED <<running, program, semaphores>>
  PROVE  KernelStep /\ Program'
<1> DEFINE f == handle[parent]
<1>1. /\ UNCHANGED SP!vars
      /\ UNCHANGED <<line, handle, got, first, pcSem, owned, granted>>
      /\ Types' /\ Noted' /\ Taken'
      /\ (HasRead' <=> HasRead)
      /\ \A q \in Processes : Took(q)' <=> Took(q)
  BY InFifoCallFrame
<1>2. KernelTyped
  BY KernelTypes DEF AInv
<1>3. FP!WriteData(p)
  BY FifoCalls
<1>4. KernelStep
  BY <1>1, <1>3 DEF KernelStep, FP!Next
<1> USE DEF AInv, Program
<1>5. p = parent /\ pcFifo[parent] = "data" /\ line[parent] = "Signal" /\ at[parent] = f
      /\ f \in 0 .. MAXFIFO - 1
  <2>1. pcFifo[p] = "data"
    BY DEF F!WriteData
  <2>2. p = parent /\ pcFifo[parent] = "data" /\ line[parent] = "Signal" /\ at[parent] = f
    BY <2>1 DEF Places
  <2> QED
    BY <1>2, <2>2, Assumptions DEF KernelTyped
<1>6. length[f] = 1 /\ cell[parent] = 0 /\ val[parent] = Sent
  BY <1>5 DEF Contents
<1>7. length' = length /\ idx' = idx /\ data' = [data EXCEPT ![f] = [data[f] EXCEPT ![0] = Sent]]
  <2>1. FP!StoreWord(f, 0, Sent)
    BY <1>3, <1>5, <1>6 DEF FP!WriteData
  <2>2. FP!TypeOK
    BY DEF Kernel, FP!SInv
  <2>3. f \in FP!Fifos /\ 0 \in FP!Cells /\ Sent \in Int
    BY <1>5 DEF FP!Fifos, FP!Cells
  <2> HIDE DEF f
  <2> QED
    BY <2>1, <2>2, <2>3, Assumptions, FP!StoreWordData
<1>8. data'[f][0] = Sent
  BY <1>2, <1>5, <1>7, SMTT(30) DEF KernelTyped
<1>9. pcFifo'[parent] = "out" /\ pcFifo'[child] = pcFifo[child] /\ at'[child] = at[child]
  BY <1>2, <1>5, Assumptions DEF F!WriteData, F!return, F!goto, KernelTyped
<1>10. Places'
  BY <1>1, <1>5, <1>9 DEF Places, Processes, AfterWait
<1>11. Contents'
  BY <1>1, <1>5, <1>6, <1>7, <1>8, <1>9 DEF Contents
<1>12. Got'
  BY <1>1, <1>9, Assumptions DEF Got
<1> QED
  BY <1>1, <1>4, <1>10, <1>11, <1>12

\* The child takes the element out: by then the parent has left the FIFO for good.
LEMMA ReadTakesKeeps ==
  ASSUME AInv, NEW p \in Processes, F!ReadTake(p) \/ F!ReadShrink(p),
         UNCHANGED <<running, program, semaphores>>
  PROVE  KernelStep /\ Program'
<1>1. /\ UNCHANGED SP!vars
      /\ UNCHANGED <<line, handle, got, first, pcSem, owned, granted>>
      /\ Types' /\ Noted' /\ Taken'
      /\ (HasRead' <=> HasRead)
      /\ \A q \in Processes : Took(q)' <=> Took(q)
  BY InFifoCallFrame
<1>2. KernelTyped /\ Apart
  BY KernelTypes, OneHolds DEF AInv, Program
<1>3. KernelStep
  <2>1. FP!Next
    BY FifoCalls DEF FP!Next
  <2> QED
    BY <1>1, <2>1 DEF KernelStep
<1> USE DEF AInv, Program
<1>4. p = child /\ pcFifo[child] \in {"take", "shrink"} /\ line[child] = "Terminate"
      /\ at[child] = handle[child]
  <2>1. pcFifo[p] \in {"take", "shrink"}
    BY DEF F!ReadTake, F!ReadShrink
  <2> QED
    BY <2>1 DEF Places
<1>5. HasRead /\ line[parent] \in {"Terminate", "none"}
  <2>1. Took(parent) /\ Holds(child) /\ HasRead
    BY <1>4 DEF Got, Holds, Took, HasRead
  <2> QED
    BY <1>2, <1>4, <2>1 DEF Apart, Holds, Took, Places, AfterWait
<1>6. /\ pcFifo'[child] \in {"shrink", "out"} /\ pcFifo'[parent] = pcFifo[parent]
      /\ at'[parent] = at[parent] /\ (pcFifo'[child] = "shrink" => at'[child] = at[child])
  BY <1>2, <1>4, Assumptions DEF F!ReadTake, F!ReadShrink, F!return, F!goto, KernelTyped
<1>7. Places'
  BY <1>1, <1>4, <1>6 DEF Places, Processes, AfterWait
<1>8. Contents'
  BY <1>1, <1>5, Assumptions DEF Contents, Places
<1>9. Got'
  BY <1>1, <1>4, <1>6, Assumptions DEF Got
<1> QED
  BY <1>1, <1>3, <1>7, <1>8, <1>9

LEMMA SwitchKeeps ==
  ASSUME AInv, UNCHANGED <<program, semaphores, fifos>>, running' \in Processes \union {IDLE}
  PROVE  KernelStep /\ Program'
<1>1. UNCHANGED <<line, handle, got, first, pcSem, owned, granted>>
      /\ UNCHANGED <<pcFifo, at, length, idx, data, reg, cell, val>>
  BY DEF program, semaphores, fifos
<1>2. KernelStep
  BY DEF semaphores, fifos, KernelStep, SP!vars, SP!list, FP!vars, FP!locals
<1>3. Types' /\ Noted' /\ Taken' /\ Places'
  BY <1>1 DEF AInv, Program, Types, Noted, Taken, Took, Holds, AfterWait, Places
<1>4. Contents' /\ Got'
  BY <1>1 DEF AInv, Program, Contents, Got, HasRead, Took, AfterWait
<1> QED
  BY <1>2, <1>3, <1>4 DEF Program

-----------------------------------------------------------------------------
(* The invariant is inductive.                                             *)

LEMMA AInvInit == Init => AInv /\ SP!Init /\ FP!Init
<1> SUFFICES ASSUME Init PROVE AInv /\ SP!Init /\ FP!Init
  OBVIOUS
<1>1. SP!Init
  BY Zenon DEF Init, S!Init, SP!Init, S!NULL, SP!NULL, S!Cells, SP!Cells
<1>2. FP!Init
  BY Zenon DEF Init, F!Init, FP!Init, F!Fifos, FP!Fifos, F!Cells, FP!Cells
<1>3. Kernel
  <2>1. SP!IInv
    BY <1>1, Assumptions, SP!InvInit
  <2>2. SP!AtMostOne
    BY <1>1, Assumptions, SP!AtMostOneInit
  <2>3. SP!Conserved
    BY <1>1, Assumptions, SP!ConservedInit
  <2>4. FP!SInv
    BY <1>2, Assumptions, FP!SInvInit
  <2> QED
    BY <2>1, <2>2, <2>3, <2>4 DEF Kernel
<1>4. /\ line[parent] = "InitFiFo" /\ line[child] = "none"
      /\ handle[parent] = UNSET /\ handle[child] = UNSET
      /\ \A p \in Processes : pcSem[p] = "out" /\ pcFifo[p] = "out" /\ owned[p] = {}
      /\ granted[mutex] = 0 /\ \A g \in 0 .. MAXFIFO - 1 : idx[g] = 0
      /\ first = <<>> /\ got = UNSET
  BY Assumptions DEF Init, S!Init, F!Init, F!Fifos
<1>5. Types
  BY DEF Init, Types
<1>6. Places
  BY <1>4 DEF Places, Processes, AfterWait
<1>7. ~Took(parent) /\ ~Took(child)
  BY <1>4 DEF Took, AfterWait
<1>8. Noted
  BY <1>4, <1>7 DEF Noted, Holds, Processes
<1>9. Taken
  BY <1>4, <1>7 DEF Taken
<1>10. ~HasRead
  BY <1>4 DEF HasRead
<1>11. Contents
  BY <1>4, <1>10 DEF Contents
<1>12. Got
  BY <1>4, <1>10, Assumptions DEF Got
<1> QED
  BY <1>1, <1>2, <1>3, <1>5, <1>6, <1>8, <1>9, <1>11, <1>12 DEF AInv, Program

LEMMA AInvStep ==
  ASSUME AInv, [Next]_vars
  PROVE  KernelStep /\ AInv'
<1>1. CASE UNCHANGED vars
  <2>1. UNCHANGED <<program, semaphores, fifos>> /\ running' = running
    BY <1>1 DEF vars
  <2>2. running' \in Processes \union {IDLE}
    BY <2>1 DEF AInv, Program, Types
  <2> QED
    BY <2>1, <2>2, SwitchKeeps, KernelKeeps DEF AInv
<1>2. CASE Next
  <2> SUFFICES KernelStep /\ Program'
    BY KernelKeeps DEF AInv
  <2>1. \/ \E p \in Processes : Switch(p) \/ Switch(IDLE)
        \/ UNCHANGED running /\ (InitFiFo \/ Create \/ InitSem \/ Write \/ Signal \/ Read)
        \/ UNCHANGED running /\ \E p \in Processes :
             Wait(p) \/ Terminate(p) \/ InSemaphoreCall(p) \/ InFifoCall(p)
    BY <1>2, Zenon DEF Next, Step
  <2>2. CASE \E p \in Processes : Switch(p) \/ Switch(IDLE)
    <3>1. UNCHANGED <<program, semaphores, fifos>> /\ running' \in Processes \union {IDLE}
      BY <2>2 DEF Switch
    <3> QED
      BY <3>1, SwitchKeeps
  <2>3. CASE UNCHANGED running /\ (InitFiFo \/ Create \/ InitSem \/ Write \/ Signal \/ Read)
    BY <2>3, InitFiFoKeeps, CreateKeeps, InitSemKeeps, WriteKeeps, SignalKeeps, ReadKeeps, Zenon
  <2>4. ASSUME UNCHANGED running, NEW p \in Processes,
               Wait(p) \/ Terminate(p) \/ InSemaphoreCall(p) \/ InFifoCall(p)
        PROVE  KernelStep /\ Program'
    <3>1. CASE Wait(p) \/ Terminate(p)
      BY <2>4, <3>1, WaitKeeps, TerminateKeeps, Zenon
    <3>3. CASE InSemaphoreCall(p)
      <4>1. CASE S!InitTail(p) \/ S!InitHead(p)
        <5>1. pcSem[p] # "waiting"
          BY <4>1 DEF S!InitTail, S!InitHead, S!Running
        <5>2. UNCHANGED <<running, program, fifos>>
          BY <2>4, <3>3, <5>1 DEF InSemaphoreCall, program
        <5> QED
          BY <4>1, <5>2, InitStoresKeep
      <4>2. CASE S!WaitAgain(p) \/ S!WaitRegister(p) \/ S!SignalRelease(p)
        BY <2>4, <3>3, <4>2, InSemaphoreCallKeeps DEF InSemaphoreCall
      <4> QED
        BY <3>3, <4>1, <4>2 DEF InSemaphoreCall
    <3>2. CASE InFifoCall(p)
      <4>1. /\ F!Claim(p) \/ F!WriteLength(p) \/ F!WriteData(p) \/ F!ReadTake(p) \/ F!ReadShrink(p)
            /\ UNCHANGED <<running, program, semaphores>>
        BY <2>4, <3>2 DEF InFifoCall
      <4> QED
        BY <4>1, ClaimKeeps, WriteLengthKeeps, WriteDataKeeps, ReadTakesKeeps
    <3> QED
      BY <2>4, <3>1, <3>2, <3>3
  <2> QED
    BY <2>1, <2>2, <2>3, <2>4
<1> QED
  BY <1>1, <1>2

THEOREM Invariant == Spec => []AInv
<1>1. Init => AInv
  BY AInvInit
<1>2. AInv /\ [Next]_vars => AInv'
  BY AInvStep
<1> QED
  BY <1>1, <1>2, PTL DEF Spec

-----------------------------------------------------------------------------
(* The theorems.                                                           *)

\* Every variable keeps its type, those of the semaphore and the FIFO included
\* (sema_main and the calls it makes).
THEOREM TypeCorrect == Spec => []TypeOK
<1>1. AInv => TypeOK
  <2> SUFFICES ASSUME AInv PROVE TypeOK
    OBVIOUS
  <2>1. S!TypeOK
    <3>1. SP!TypeOK
      BY DEF AInv, Kernel, SP!IInv
    <3> QED
      BY <3>1, Zenon DEF S!TypeOK, SP!TypeOK, S!Labels, SP!Labels, S!Cells, SP!Cells, S!NULL, SP!NULL
  <2>2. F!TypeOK
    <3>1. FP!TypeOK
      BY DEF AInv, Kernel, FP!SInv
    <3> QED
      BY <3>1, Zenon DEF F!TypeOK, FP!TypeOK, F!Fifos, FP!Fifos, F!Cells, FP!Cells
  <2>3. got \in {UNSET, FAIL, Sent}
    BY DEF AInv, Program, Got
  <2>4. first \in {<<>>, <<child>>, <<parent>>, <<parent, child>>}
    BY DEF AInv, Program, Taken
  <2> QED
    BY <2>1, <2>2, <2>3, <2>4 DEF AInv, Program, Types, TypeOK
<1> QED
  BY <1>1, Invariant, PTL

\* The child gets the word if the parent had the semaphore first, and FALSE from OS_Read if
\* not: whatever is pre-empted where, it never reads a word that is not there
\* (sema.c, and OS_Read).
THEOREM WordArrives == Spec => []ReadsWhatParentWrote
<1>1. AInv => ReadsWhatParentWrote
  <2> SUFFICES ASSUME AInv, got # UNSET PROVE got = IF Head(first) = parent THEN Sent ELSE FAIL
    BY DEF ReadsWhatParentWrote
  <2>1. HasRead /\ got = IF Took(parent) THEN Sent ELSE FAIL
    BY DEF AInv, Program, Got
  <2>2. Took(child)
    BY <2>1 DEF HasRead, Took
  <2>3. first = IF Took(parent) THEN <<parent, child>> ELSE <<child>>
    BY <2>2 DEF AInv, Program, Taken
  <2> QED
    BY <2>1, <2>3, Assumptions
<1> QED
  BY <1>1, Invariant, PTL

\* The semaphore makes the program one whose calls on the FIFO exclude each other, the
\* case for which FifoProofs shows that OS_Write and OS_Read are those of a bounded queue.
THEOREM FifoCallsSerialised == Spec => UsesFifoSerialised
<1>1. Init => FP!Init /\ AInv
  BY AInvInit
<1>2. AInv /\ [Next]_vars => [FP!Next]_FP!vars /\ AInv'
  BY AInvStep DEF KernelStep
<1>3. /\ FP!Init => Serial!Init
      /\ [FP!Next]_FP!vars => [Serial!Next]_Serial!vars
  <2>1. UNCHANGED FP!vars => UNCHANGED Serial!vars
    BY Zenon DEF FP!vars, Serial!vars, FP!locals, Serial!locals
  <2> QED
    BY <2>1, SerialCalls
<1> QED
  BY <1>1, <1>2, <1>3, PTL DEF Spec, UsesFifoSerialised, Serial!Spec

\* So the FIFO of the program is a bounded queue, what OS_Read returns included ...
THEOREM ProgramFifoIsQueue == Spec => FP!ImplementsBoundedFifo
<1>1. Init => FP!Init /\ AInv
  BY AInvInit
<1>2. AInv /\ [Next]_vars => [FP!Next]_FP!vars /\ AInv'
  BY AInvStep DEF KernelStep
<1>3. Spec => FP!Spec
  BY <1>1, <1>2, PTL DEF Spec, FP!Spec
<1>4. FP!Spec => FP!ImplementsBoundedFifo
  BY Assumptions, FP!BoundedFifoImplemented DEF FP!Serial, FP!IdxInArray
<1> QED
  BY <1>3, <1>4, PTL

\* ... and its semaphore one that at most one process holds.
THEOREM ProgramSemaphoreCounts == Spec => SP!ImplementsCountingSemaphore
<1>1. Init => SP!Init /\ AInv
  BY AInvInit
<1>2. AInv /\ [Next]_vars => [SP!Next]_SP!vars /\ AInv'
  BY AInvStep DEF KernelStep
<1>3. Spec => SP!Spec
  BY <1>1, <1>2, PTL DEF Spec, SP!Spec
<1>4. SP!Spec => SP!ImplementsCountingSemaphore
  BY Assumptions, SP!CountingSemaphoresImplemented DEF SP!Single
<1> QED
  BY <1>3, <1>4, PTL
=============================================================================
