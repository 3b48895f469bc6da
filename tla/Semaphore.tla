----------------------------- MODULE Semaphore -----------------------------
(***************************************************************************)
(* The semaphores of kernel/kernel.c: OS_InitSem, OS_Wait and OS_Signal    *)
(* with the list of waiting PERIODIC processes.                            *)
(*                                                                         *)
(* What lies between cli and sti is one step; elsewhere a process may be   *)
(* pre-empted.  A process that waits gives up the CPU and looks again      *)
(* whenever the scheduler returns to it, so here any process may be the    *)
(* next to run.                                                            *)
(*                                                                         *)
(* A process is named by its slot of the process table.  OS_Terminate and  *)
(* OS_Create leave the bitmap of semaphores of a slot as it is, so the     *)
(* processes that use a slot one after the other are one process here.     *)
(***************************************************************************)
EXTENDS Integers, FiniteSetsExt

CONSTANTS
  Processes,    \* slots of the process table
  DEVICEs,      \* the slots used by DEVICE processes,
  PERIODICs,    \* by PERIODIC processes; the others are SPORADIC
  Initialisers, \* the slots whose processes initialise semaphores
  Semaphores,   \* the semaphores; the bits of all are in one word (MAXSEM <= 32)
  Grants,       \* the n of OS_InitSem
  NumCells,     \* blocks of memory that OS_Malloc can give to OS_Wait
  Rules         \* what the programs keep to. "single": they wait only when they
                \* hold no semaphore; "inited": only for one that is initialised

NULL == 0
Cells == 1 .. NumCells

ASSUME SemaphoreAssumption ==
  /\ IsFiniteSet(Processes) /\ Semaphores # {}
  /\ DEVICEs \subseteq Processes /\ PERIODICs \subseteq Processes \ DEVICEs
  /\ Grants \in Nat \ {0} /\ NumCells \in Nat /\ Rules \subseteq {"single", "inited"}

VARIABLES
  count, head, tail,  \* of each semaphore
  next, pid, valid,   \* of each cell, as an element of a list
  used,               \* the cells that OS_Malloc has given out
  owned,              \* the semaphores in the bitmap of each slot
  pc,                 \* where each process is; "out" when it is in no call
  sem,                \* the semaphore of its call
  element,            \* queue_pos of OS_Wait, curr of OS_Signal
  granted,            \* history: the n each semaphore was initialised with
  struck,             \* history: OS_Signal has struck out the element of a waiting process
  halted              \* why OS_Abort stopped the CPU, or "no"

list == <<head, tail, next, pid, valid, used>>
vars == <<count, list, owned, pc, sem, element, granted, struck, halted>>

Init ==
  /\ count = [s \in Semaphores |-> 0]
  /\ head = [s \in Semaphores |-> NULL]
  /\ tail = [s \in Semaphores |-> NULL]
  /\ next = [c \in Cells |-> NULL]
  /\ pid = [c \in Cells |-> NULL]
  /\ valid = [c \in Cells |-> FALSE]
  /\ used = {}
  /\ owned = [p \in Processes |-> {}]
  /\ pc = [p \in Processes |-> "out"]
  /\ sem = [p \in Processes |-> CHOOSE s \in Semaphores : TRUE]
  /\ element = [p \in Processes |-> NULL]
  /\ granted = [s \in Semaphores |-> 0]
  /\ struck = FALSE
  /\ halted = "no"

-----------------------------------------------------------------------------
(* The lists.                                                              *)

\* Where curr points after so many turns of the loop of cleanup_semaphore_buf, when
\* nothing leaves the list.
Walk(s) ==
  LET curr[k \in 0 .. NumCells] ==
        IF k = 0 THEN head[s]
        ELSE IF curr[k - 1] = NULL THEN NULL ELSE next[curr[k - 1]]
  IN  curr

Members(s) == {Walk(s)[k] : k \in 0 .. NumCells} \ {NULL}

\* OS_Malloc: the first free block, or address 0, where no list looks.
Malloc == IF used = Cells THEN NULL ELSE Min(Cells \ used)

\* A store through NULL changes no list.
Put(field, c, v) == IF c = NULL THEN field ELSE [field EXCEPT ![c] = v]

\* The new element c becomes the last one.
\* Mutant: it keeps the successor it had when its block was in use before.
Linked_dirty(s, c) == Put(next, tail[s], c)
Linked(s, c) == Put(Put(next, c, NULL), tail[s], c)

\* The element of process p joins the list of s.
Enqueue(p, s, c) ==
  /\ used' = used \union ({c} \ {NULL})
  /\ pid' = Put(pid, c, p)
  /\ valid' = Put(valid, c, TRUE)
  /\ next' = Linked(s, c)
  /\ head' = IF tail[s] = NULL THEN [head EXCEPT ![s] = c] ELSE head
  /\ tail' = [tail EXCEPT ![s] = c]

\* Mutant: elements that are still valid go as well.
Stale_all(s) == Members(s)
Stale(s) == {c \in Members(s) : ~valid[c]}

\* The elements that are no longer valid leave the list and are freed: each other one is
\* followed by the first to stay behind it.  tail is left alone while one stays.
cleanup_semaphore_buf(s) ==
  LET walk == Walk(s)
      stay == {k \in 0 .. NumCells : walk[k] \notin Stale(s)}
      from(k) == walk[Min({i \in stay : k <= i})]
      place(c) == CHOOSE k \in stay : walk[k] = c
  IN  /\ head' = [head EXCEPT ![s] = from(0)]
      /\ tail' = IF from(0) = NULL THEN [tail EXCEPT ![s] = NULL] ELSE tail
      /\ next' = [c \in Cells |-> IF c \in Members(s) \ Stale(s) THEN from(place(c) + 1)
                                 ELSE next[c]]
      /\ used' = used \ Stale(s)
      /\ UNCHANGED <<pid, valid>>

-----------------------------------------------------------------------------
(* The system calls.                                                       *)

goto(p, label) == pc' = [pc EXCEPT ![p] = label]

\* The call returns: its locals are gone.
return(p) ==
  /\ goto(p, "out")
  /\ sem' = [sem EXCEPT ![p] = CHOOSE s \in Semaphores : TRUE]
  /\ element' = [element EXCEPT ![p] = NULL]

Running(p, label) == halted = "no" /\ pc[p] = label

\* A program initialises each semaphore once, not always before others wait for it
\* (sema.c creates the process that waits first).  Interrupts are enabled, and the words
\* of the structure are stored one by one: count, tail, head.
OS_InitSem(p, s) ==
  /\ Running(p, "out") /\ p \in Initialisers /\ granted[s] = 0
  /\ count' = [count EXCEPT ![s] = Grants]
  /\ granted' = [granted EXCEPT ![s] = Grants]
  /\ sem' = [sem EXCEPT ![p] = s]
  /\ goto(p, "tail")
  /\ UNCHANGED <<list, owned, element, struck, halted>>

InitTail(p) ==
  /\ Running(p, "tail")
  /\ tail' = [tail EXCEPT ![sem[p]] = NULL]
  /\ goto(p, "head")
  /\ UNCHANGED <<count, head, next, pid, valid, used, owned, sem, element, granted,
                 struck, halted>>

InitHead(p) ==
  /\ Running(p, "head")
  /\ head' = [head EXCEPT ![sem[p]] = NULL]
  /\ return(p)
  /\ UNCHANGED <<count, tail, next, pid, valid, used, owned, granted, struck, halted>>

\* A DEVICE must not block: the kernel stops.
WaitAborts(p) ==
  /\ p \in DEVICEs
  /\ halted' = "blocked"
  /\ UNCHANGED <<count, list, pc, sem, element>>

WaitInLine(p, s) ==
  /\ p \in PERIODICs
  /\ Enqueue(p, s, Malloc)
  /\ element' = [element EXCEPT ![p] = Malloc]
  /\ sem' = [sem EXCEPT ![p] = s]
  /\ goto(p, "waiting")
  /\ UNCHANGED <<count, halted>>

WaitForTurn(p, s) ==
  /\ p \notin DEVICEs \union PERIODICs
  /\ sem' = [sem EXCEPT ![p] = s]
  /\ goto(p, "waiting")
  /\ UNCHANGED <<count, list, element, halted>>

Take(p, s) ==
  /\ count' = [count EXCEPT ![s] = @ - 1]
  /\ goto(p, "register")

OS_Wait(p, s) ==
  /\ Running(p, "out")
  /\ "single" \in Rules => owned[p] = {}
  /\ "inited" \in Rules => granted[s] # 0
  /\ \/ /\ count[s] <= 0
        /\ WaitAborts(p) \/ WaitInLine(p, s) \/ WaitForTurn(p, s)
     \/ /\ count[s] > 0
        /\ Take(p, s)
        /\ sem' = [sem EXCEPT ![p] = s]
        /\ UNCHANGED <<list, element, halted>>
  /\ UNCHANGED <<owned, granted, struck>>

\* OS_Yield has returned.
\* Mutants: the count is not looked at again; one unit always stays.
Available_assumed(s) == TRUE
Available_spare(s) == count[s] > 1
Available(s) == count[s] > 0
WaitAgain(p) ==
  /\ Running(p, "waiting") /\ Available(sem[p])
  /\ Take(p, sem[p])
  /\ valid' = Put(valid, element[p], FALSE)
  /\ UNCHANGED <<head, tail, next, pid, used, owned, sem, element, granted, struck, halted>>

\* After the sti the semaphore is noted in the bitmap.
WaitRegister(p) ==
  /\ Running(p, "register")
  /\ owned' = [owned EXCEPT ![p] = @ \union {sem[p]}]
  /\ return(p)
  /\ UNCHANGED <<count, list, granted, struck, halted>>

\* unregister_bit clears the word with the bits of all semaphores.
\* Mutant: the bit stays set.
unregister_not(p, s) == owned[p]
unregister_bit(p, s) == {}
OS_Signal(p, s) ==
  /\ Running(p, "out") /\ s \in owned[p]
  /\ owned' = [owned EXCEPT ![p] = unregister_bit(p, s)]
  /\ sem' = [sem EXCEPT ![p] = s]
  /\ goto(p, "signal")
  /\ UNCHANGED <<count, list, element, granted, struck, halted>>

\* A SPORADIC process goes on to look for a waiting process to yield to.
SignalRelease(p) ==
  /\ Running(p, "signal")
  /\ count' = [count EXCEPT ![sem[p]] = @ + 1]
  /\ cleanup_semaphore_buf(sem[p])
  /\ IF p \in DEVICEs \union PERIODICs THEN return(p)
     ELSE goto(p, "find") /\ UNCHANGED <<sem, element>>
  /\ UNCHANGED <<owned, granted, struck, halted>>

\* Interrupts are on again when head is read.
SignalFind(p) ==
  /\ Running(p, "find")
  /\ element' = [element EXCEPT ![p] = head[sem[p]]]
  /\ goto(p, "look")
  /\ UNCHANGED <<count, list, owned, sem, granted, struck, halted>>

\* One element is looked at: that of the PERIODIC process in whose
\* time this happens is struck out, and the call ends after a yield.  A PID that is no
\* longer in the table does not end it: OS_Abort returns at the next interrupt.
SignalLook(p) ==
  LET c == element[p]
  IN  /\ Running(p, "look")
      /\ \/ /\ c = NULL
            /\ return(p)
            /\ UNCHANGED <<valid, struck>>
         \/ /\ c # NULL
            /\ valid' = [valid EXCEPT ![c] = FALSE]
            /\ struck' = (struck \/ valid[c])
            /\ return(p)
         \/ /\ c # NULL
            /\ element' = [element EXCEPT ![p] = next[c]]
            /\ UNCHANGED <<valid, struck, pc, sem>>
      /\ UNCHANGED <<count, head, tail, next, pid, used, owned, granted, halted>>

Next ==
  \E p \in Processes :
    \/ \E s \in Semaphores : OS_InitSem(p, s) \/ OS_Wait(p, s) \/ OS_Signal(p, s)
    \/ InitTail(p) \/ InitHead(p) \/ WaitAgain(p) \/ WaitRegister(p)
    \/ SignalRelease(p) \/ SignalFind(p) \/ SignalLook(p)

Spec == Init /\ [][Next]_vars

-----------------------------------------------------------------------------
(* Properties.                                                             *)

Labels == {"out", "tail", "head", "waiting", "register", "signal", "find", "look"}

\* Every variable keeps its type, and the lists stay among the cells.
TypeOK ==
  /\ count \in [Semaphores -> Nat]
  /\ head \in [Semaphores -> Cells \union {NULL}]
  /\ tail \in [Semaphores -> Cells \union {NULL}]
  /\ next \in [Cells -> Cells \union {NULL}]
  /\ pid \in [Cells -> Processes \union {NULL}]
  /\ valid \in [Cells -> BOOLEAN]
  /\ used \subseteq Cells
  /\ owned \in [Processes -> SUBSET Semaphores]
  /\ pc \in [Processes -> Labels]
  /\ sem \in [Processes -> Semaphores]
  /\ element \in [Processes -> Cells \union {NULL}]
  /\ granted \in [Semaphores -> {0, Grants}]
  /\ struck \in BOOLEAN
  /\ halted \in {"no", "blocked"}

\* The processes that hold s: it is in their bitmap, on the way into it, or out of it
\* and not yet given back.
Holding(s) ==
  {p \in Processes : s \in owned[p] \/ (pc[p] \in {"register", "signal"} /\ sem[p] = s)}

\* Whatever happens to the lists, the count and the processes that hold a semaphore
\* always add up to the n of OS_InitSem: no unit is lost or made.
Conserved == \A s \in Semaphores : count[s] + Cardinality(Holding(s)) = granted[s]

\* A list ends: the loop of cleanup_semaphore_buf, which runs with interrupts off, does
\* too, and no cell is in two lists.
ListsEnd ==
  /\ \A s \in Semaphores : Walk(s)[NumCells] = NULL
  /\ \A s, t \in Semaphores : s # t => Members(s) \intersect Members(t) = {}

\* The element of a process that waits is its own, allocated and valid until the process
\* has taken the semaphore: OS_Wait writes to it then.  (OS_Signal may strike out the
\* element of a process that goes on waiting; the element is then free too early.)
WaitersOwnElement ==
  ~struck => \A p \in PERIODICs :
    pc[p] = "waiting" /\ element[p] # NULL =>
      element[p] \in used /\ pid[element[p]] = p /\ valid[element[p]]

Units == INSTANCE CountingSemaphore WITH
           Process <- Processes, Semaphore <- Semaphores,
           holding <- [s \in Semaphores |-> Holding(s)]

\* The calls implement counting semaphores, whatever becomes of the lists.
ImplementsCountingSemaphore == Units!Spec
=============================================================================
