------------------------------ MODULE SemaApp ------------------------------
(***************************************************************************)
(* The program applications/sema/sema.c, on the semaphores and the FIFOs   *)
(* of the kernel: a parent hands a word to its child through a FIFO, both  *)
(* inside a semaphore that the parent initialises after it has created the *)
(* child.  The same function runs in both; its parameter, the handle of    *)
(* the FIFO, tells the child from the parent.                              *)
(*                                                                         *)
(* Nothing keeps the calls on the FIFO apart but the semaphore: Fifo is    *)
(* used without its assumption of serialised calls.                        *)
(***************************************************************************)
EXTENDS Integers, Sequences

CONSTANTS
  parent, child,     \* the two processes, both PERIODIC
  mutex,             \* semaphore 2
  MAXFIFO, FIFOSIZE,
  Sent,              \* what the parent writes
  NumCells           \* blocks of memory for OS_Wait

Processes == {parent, child}
IDLE == "idle"  \* any other process, as that of idle.c
UNSET == -1
FAIL == -2

ASSUME SemaAppAssumption ==
  /\ parent # child
  /\ MAXFIFO \in Nat \ {0} /\ FIFOSIZE \in Nat \ {0} /\ Sent \in Nat /\ NumCells \in Nat

VARIABLES
  line,    \* the call of sema_main each process makes next
  handle,  \* fifo_handler of the parent, arg of the child, as a FIFO; UNSET before
  got,     \* what the child has read, FAIL when there was nothing, or UNSET
  first,   \* history: the processes in the order in which they took the semaphore
  running  \* the process that has the CPU

program == <<line, handle, got, first>>

VARIABLES count, head, tail, next, pid, valid, used, owned, pcSem, sem, element,
          granted, struck, halted
VARIABLES length, idx, data, pcFifo, at, reg, cell, val, holders

semaphores == <<count, head, tail, next, pid, valid, used, owned, pcSem, sem, element,
                granted, struck, halted>>
fifos == <<length, idx, data, pcFifo, at, reg, cell, val, holders>>
vars == <<running, program, semaphores, fifos>>

S == INSTANCE Semaphore WITH
       DEVICEs <- {}, PERIODICs <- Processes, Initialisers <- {parent},
       Semaphores <- {mutex}, Grants <- 1, Rules <- {}, pc <- pcSem
F == INSTANCE Fifo WITH
       Values <- {Sent}, Serialised <- {}, MaxIdx <- 0, pc <- pcFifo

Init ==
  /\ line = [p \in Processes |-> IF p = parent THEN "InitFiFo" ELSE "none"]
  /\ handle = [p \in Processes |-> UNSET]
  /\ got = UNSET
  /\ first = <<>>
  /\ running = IDLE
  /\ S!Init /\ F!Init

goto(p, label) == line' = [line EXCEPT ![p] = label]
\* p makes the call of its line: it is in no other.
At(p, label) == line[p] = label /\ pcSem[p] = "out" /\ pcFifo[p] = "out"

InitFiFo ==
  /\ At(parent, "InitFiFo")
  /\ F!OS_InitFiFo(parent)
  /\ handle' = [handle EXCEPT ![parent] = at'[parent]]
  /\ goto(parent, "Create")
  /\ UNCHANGED <<got, first, semaphores>>

\* The child starts.
Create ==
  /\ At(parent, "Create")
  /\ line' = [line EXCEPT ![parent] = "InitSem", ![child] = "Wait"]
  /\ handle' = [handle EXCEPT ![child] = handle[parent]]
  /\ UNCHANGED <<got, first, semaphores, fifos>>

InitSem ==
  /\ At(parent, "InitSem")
  /\ S!OS_InitSem(parent, mutex)
  /\ goto(parent, "Wait")
  /\ UNCHANGED <<handle, got, first, fifos>>

\* Taking the semaphore is noted.
Order(p) == first' = IF pcSem'[p] = "register" THEN Append(first, p) ELSE first

\* Mutant: the parent signals without having written.
AfterWait_swapped(p) == IF p = parent THEN "Signal" ELSE "Read"
AfterWait(p) == IF p = parent THEN "Write" ELSE "Read"

Wait(p) ==
  /\ At(p, "Wait")
  /\ S!OS_Wait(p, mutex)
  /\ Order(p)
  /\ goto(p, AfterWait(p))
  /\ UNCHANGED <<handle, got, fifos>>

Write ==
  /\ At(parent, "Write")
  /\ F!OS_Write(parent, handle[parent], Sent)
  /\ goto(parent, "Signal")
  /\ UNCHANGED <<handle, got, first, semaphores>>

Signal ==
  /\ At(parent, "Signal")
  /\ S!OS_Signal(parent, mutex)
  /\ goto(parent, "Terminate")
  /\ UNCHANGED <<handle, got, first, fifos>>

\* The child never signals.
Read ==
  /\ At(child, "Read")
  /\ \/ /\ F!OS_Read(child, handle[child])
        /\ got' = val'[child]
     \/ /\ ~F!Readable(handle[child])
        /\ got' = FAIL
        /\ UNCHANGED fifos
  /\ goto(child, "Terminate")
  /\ UNCHANGED <<handle, first, semaphores>>

Terminate(p) ==
  /\ At(p, "Terminate")
  /\ goto(p, "none")
  /\ UNCHANGED <<handle, got, first, semaphores, fifos>>

\* The steps inside the calls.  The FIFO is never full.
InSemaphoreCall(p) ==
  /\ S!InitTail(p) \/ S!InitHead(p) \/ S!WaitAgain(p) \/ S!WaitRegister(p)
       \/ S!SignalRelease(p)
  /\ IF pcSem[p] = "waiting" THEN Order(p) ELSE UNCHANGED first
  /\ UNCHANGED <<line, handle, got, fifos>>
InFifoCall(p) ==
  /\ F!Claim(p) \/ F!WriteLength(p) \/ F!WriteData(p) \/ F!ReadTake(p)
       \/ F!ReadShrink(p)
  /\ UNCHANGED <<program, semaphores>>

Step(p) ==
  /\ running = p
  /\ \/ p = parent /\ (InitFiFo \/ Create \/ InitSem \/ Write \/ Signal)
     \/ p = child /\ Read
     \/ Wait(p) \/ Terminate(p) \/ InSemaphoreCall(p) \/ InFifoCall(p)
  /\ UNCHANGED running

\* The scheduler, at a tick or after a yield, leaves the CPU to a process that is there:
\* the parent has been created before the first tick.
Alive(p) == p \in {parent, IDLE} \/ handle[child] # UNSET
Switch(p) ==
  /\ running # p /\ Alive(p)
  /\ running' = p
  /\ UNCHANGED <<program, semaphores, fifos>>

Next == \E p \in Processes : Step(p) \/ Switch(p) \/ Switch(IDLE)

\* Each of the two gets the CPU again and again, since their names are in the plan
\* (PeriodicRuns of Scheduler), and in an entry of the plan, which lasts for ticks, it
\* goes on, if not in every one: a process that waits may look at the count in vain.
Spec ==
  /\ Init /\ [][Next]_vars
  /\ \A p \in Processes : WF_vars(Switch(p)) /\ SF_vars(Step(p))

-----------------------------------------------------------------------------
(* Properties.                                                             *)

\* Every variable keeps its type, those of the semaphore and the FIFO included.
TypeOK ==
  /\ running \in Processes \union {IDLE}
  /\ line \in [Processes -> {"none", "InitFiFo", "Create", "InitSem", "Wait", "Write",
                             "Signal", "Read", "Terminate"}]
  /\ handle \in [Processes -> 0 .. MAXFIFO - 1 \union {UNSET}]
  /\ got \in {UNSET, FAIL, Sent}
  /\ first \in {<<>>, <<child>>, <<parent>>, <<parent, child>>}
  /\ S!TypeOK /\ F!TypeOK

Serial == INSTANCE Fifo WITH
            Values <- {Sent}, Serialised <- {"init", "use"}, MaxIdx <- 0, pc <- pcFifo

\* The semaphore, with its own calls pre-empted anywhere, keeps the calls on the FIFO
\* apart: the program is one for which Fifo shows a bounded queue.
UsesFifoSerialised == Serial!Spec

\* The child reads the word if the parent took the semaphore before it, and only then.
ReadsWhatParentWrote ==
  got # UNSET => got = IF Head(first) = parent THEN Sent ELSE FAIL

\* The child always ends, with the word or without; if the parent takes the semaphore
\* first, both end and the word has arrived.  (If not, the parent waits for ever.)
Ends ==
  /\ <>(line[child] = "none" /\ got # UNSET)
  /\ first # <<>> /\ Head(first) = parent ~>
       got = Sent /\ \A p \in Processes : line[p] = "none"
=============================================================================
