------------------------------ MODULE Scheduler ------------------------------
(***************************************************************************)
(* The process table and the scheduler of kernel/kernel.c: OS_Create,      *)
(* OS_Terminate, OS_Yield, check_schedule and switch_process, driven by    *)
(* the timer interrupt of cpu/timer.c.                                     *)
(*                                                                         *)
(* There is one CPU.  Kernel code runs with interrupts disabled, so each   *)
(* system call and each scheduling tick is one step.  OS_Yield ends with   *)
(* `sti` directly followed by `int $0x13`: no interrupt is taken between   *)
(* the two (the shadow of sti), and the scheduler runs in the same step.   *)
(* Between steps the CPU runs the process `current`, or, when `current` is *)
(* INVALIDPID, one of the `while (1) {}` loops that wait for a tick.       *)
(***************************************************************************)
EXTENDS Integers, Sequences, FiniteSetsExt

CONSTANTS
  MAXPROCESS,     \* slots of the process table and of both PID queues
  PPPLen,         \* length of the periodic plan
  PPP,            \* the plan: a process name, or IDLE, per entry
  PPPMax,         \* ticks granted to each entry of the plan
  UMOD,           \* the unsigned 32-bit numbers are 0 .. UMOD-1 (2^32 in the build)
  PeriodicNames,  \* names the programs give to PERIODIC processes
  SporadicNames,  \* "n" the programs pass when they create SPORADIC processes
  DeviceRates,    \* "n" the programs pass when they create DEVICE processes
  AppCalls,       \* the system calls the running processes make
  FastDevices,    \* TRUE: a DEVICE yields or terminates before the next tick
  MaxPid          \* bound: no process is created once this PID is given out

DEVICE == 0
PERIODIC == 1
SPORADIC == 2
IDLE_PRIORITY == 3

INVALIDPID == 0
INVALID_IDX == 999999999
IDLE == -1

Slots == 0 .. MAXPROCESS - 1
Plan == 0 .. PPPLen - 1
PlanNames == {PPP[i] : i \in Plan}

ASSUME SchedulerAssumption ==
  /\ MAXPROCESS \in Nat \ {0}
  /\ PPPLen \in Nat \ {0} /\ PPPLen < INVALID_IDX
  /\ PPP \in [Plan -> Int]
  /\ PPPMax \in [Plan -> Nat]
  /\ UMOD \in Nat /\ UMOD > 2 * MAXPROCESS
  /\ PeriodicNames \subseteq Nat /\ SporadicNames \subseteq Nat
  /\ DeviceRates \subseteq Nat \ {0}
  /\ FastDevices \in BOOLEAN
  /\ MaxPid \in Nat

VARIABLES
  processes,        \* the process table
  name_registry,    \* the names whose bit is set in the bitmap
  pid_counter,      \* the next PID
  current,          \* currently_running_process_pid
  sporadic,         \* the ring of SPORADIC PIDs
  device,           \* the ring of DEVICE PIDs waiting to run
  PPP_index,        \* the current entry of the plan
  last_change_tick, \* the tick at which that entry started
  PPP_debt,         \* ticks the entry had used when a device pre-empted it
  tick,             \* the timer
  intr,             \* the interrupt flag of the code that runs now
  timer_on,         \* irq_install has registered the timer
  halted            \* "no", or why OS_Abort stopped the CPU

clock == <<PPP_index, last_change_tick, PPP_debt>>
vars == <<processes, name_registry, pid_counter, current, sporadic, device,
          clock, tick, intr, timer_on, halted>>

-----------------------------------------------------------------------------
(* Ring buffers of PIDs.                                                   *)

EmptyQueue == [buf |-> [k \in Slots |-> INVALIDPID], idx |-> 0, length |-> 0]
Position(q, k) == (q.idx + k) % MAXPROCESS
Front(q) == q.buf[q.idx]

\* Mutant: the new PID is written over the front.
Enqueue_front(q, pid) == [q EXCEPT !.buf[q.idx] = pid, !.length = (@ + 1) % UMOD]
Enqueue(q, pid) ==
  [buf |-> [q.buf EXCEPT ![Position(q, q.length)] = pid], idx |-> q.idx,
   length |-> (q.length + 1) % UMOD]

\* Mutants: the last entry goes instead of the first; the index stays behind;
\* it runs past the end of the array.
Dequeue_last(q) == [q EXCEPT !.length = (@ - 1) % UMOD]
Dequeue_sticky(q) == [q EXCEPT !.buf[q.idx] = INVALIDPID, !.length = (@ - 1) % UMOD]
Dequeue_unwrapped(q) ==
  [buf |-> [q.buf EXCEPT ![q.idx] = INVALIDPID], idx |-> q.idx + 1,
   length |-> (q.length - 1) % UMOD]
Dequeue(q) ==
  [buf |-> [q.buf EXCEPT ![q.idx] = INVALIDPID], idx |-> Position(q, 1),
   length |-> (q.length - 1) % UMOD]

\* Mutant: the index moves on and the front is not written behind the last.
Rotate_forgets(q) == [q EXCEPT !.idx = Position(q, 1)]
Rotate(q) ==
  [buf |-> [q.buf EXCEPT ![Position(q, q.length)] = Front(q)],
   idx |-> Position(q, 1), length |-> q.length]

-----------------------------------------------------------------------------
(* The process table and the bitmap of names.                              *)

FreeSlots(procs) == {i \in Slots : procs[i].pid = INVALIDPID}
LiveSlots(procs) == Slots \ FreeSlots(procs)
Live(procs, pid) == \E i \in LiveSlots(procs) : procs[i].pid = pid

process_index_from_pid(procs, pid) ==
  CHOOSE i \in LiveSlots(procs) : procs[i].pid = pid

CurrentProcess(procs) == procs[process_index_from_pid(procs, current)]

pid_from_name(procs, name) ==
  LET named == {i \in LiveSlots(procs) : procs[i].n = name}
  IN  IF name = IDLE \/ named = {} THEN INVALIDPID ELSE procs[Min(named)].pid

\* Clearing one bit clears the whole 32-bit word that holds it.
unregister_bit(bits, n) ==
  IF n \in bits THEN {m \in bits : m \div 32 # n \div 32} ELSE bits

-----------------------------------------------------------------------------
(* switch_process.  A PID that is in no slot has already become the current *)
(* one when the lookup of its registers halts the CPU.                     *)

\* Mutant: a PID that is in no slot is not noticed.
switch_unchecked(new_pid, procs) ==
  processes' = procs /\ current' = new_pid /\ UNCHANGED halted
switch_process(new_pid, procs) ==
  \/ /\ new_pid \in {current, INVALIDPID}
     /\ processes' = procs
     /\ UNCHANGED <<current, halted>>
  \/ /\ new_pid \notin {current, INVALIDPID}
     /\ processes' = IF current = INVALIDPID THEN procs
                     ELSE [procs EXCEPT ![process_index_from_pid(procs, current)]
                                          .yielded = FALSE]
     /\ current' = new_pid
     /\ IF Live(procs, new_pid) THEN UNCHANGED halted ELSE halted' = "unknown pid"

idle_pid == 1

-----------------------------------------------------------------------------
(* check_schedule.  t is the tick, procs and dq the process table and the  *)
(* device queue as the caller (the timer or OS_Yield) leaves them.         *)

Signed(x) == LET u == x % UMOD IN IF 2 * u >= UMOD THEN u - UMOD ELSE u

\* Mutant: the devices of a tick become due at every call in that tick.
DueDevices_again(t, delta, procs) ==
  {i \in LiveSlots(procs) : procs[i].level = DEVICE /\ t % procs[i].n = 0}
DueDevices(t, delta, procs) ==
  {i \in LiveSlots(procs) : delta # 0 /\ procs[i].level = DEVICE /\ t % procs[i].n = 0}

\* The devices that are due join the queue in the order of their slots.
Rank(due, i) == Cardinality({j \in due : j < i})

\* Mutant: the queue is filled from its front.
EnqueueDue_front(q, due, procs) ==
  LET takes(i, k) == Position(q, Rank(due, i)) = k
  IN  [q EXCEPT
        !.buf = [k \in Slots |->
                   IF \E i \in due : takes(i, k)
                   THEN procs[CHOOSE i \in due : takes(i, k)].pid ELSE q.buf[k]],
        !.length = @ + Cardinality(due)]
EnqueueDue(q, due, procs) ==
  LET takes(i, k) == Position(q, q.length + Rank(due, i)) = k
  IN  [buf |-> [k \in Slots |->
                  IF \E i \in due : takes(i, k)
                  THEN procs[CHOOSE i \in due : takes(i, k)].pid ELSE q.buf[k]],
       idx |-> q.idx, length |-> q.length + Cardinality(due)]

\* No process of the plan is to run: the first SPORADIC process, or idle.
\* Mutant: the last SPORADIC process of the queue is not served.
Dispatch_eager_idle(next_pid, gave_up, procs, sq) ==
  switch_process(IF next_pid # INVALIDPID /\ ~gave_up THEN next_pid
                 ELSE IF sq.length <= 1 THEN idle_pid ELSE Front(sq), procs)
Dispatch(next_pid, gave_up, procs, sq) ==
  switch_process(IF next_pid # INVALIDPID /\ ~gave_up THEN next_pid
                 ELSE IF sq.length = 0 THEN idle_pid ELSE Front(sq), procs)

\* Mutant: the plan starts again behind its first entry.
NextEntry_second == IF PPP_index + 1 = PPPLen THEN 1 ELSE PPP_index + 1
NextEntry == (PPP_index + 1) % PPPLen

TimesUp(elapsed) == PPPMax[PPP_index] < elapsed

\* Mutant: the name is looked up before the index moves.
PERIODIC_CHECK_late(t, started, elapsed, next_pid, gave_up, procs, sq) ==
  /\ sporadic' = sq
  /\ last_change_tick' = IF TimesUp(elapsed) THEN t ELSE started
  /\ PPP_index' = IF TimesUp(elapsed) THEN NextEntry ELSE PPP_index
  /\ Dispatch(IF TimesUp(elapsed) THEN pid_from_name(procs, PPP[PPP_index]) ELSE next_pid,
              gave_up, procs, sq)
PERIODIC_CHECK(t, started, elapsed, next_pid, gave_up, procs, sq) ==
  /\ sporadic' = sq
  /\ \/ /\ TimesUp(elapsed)
        /\ last_change_tick' = t
        /\ PPP_index' = NextEntry
        /\ Dispatch(pid_from_name(procs, PPP[NextEntry]), gave_up, procs, sq)
     \/ /\ ~TimesUp(elapsed)
        /\ last_change_tick' = started
        /\ UNCHANGED PPP_index
        /\ Dispatch(next_pid, gave_up, procs, sq)

\* OS_Abort: with interrupts off, hlt is the last instruction.
OS_Abort(reason, procs) ==
  /\ halted' = reason
  /\ processes' = procs
  /\ UNCHANGED <<current, sporadic, clock>>

\* A device waits and is not the one that runs: it pre-empts whatever runs.
\* Mutant: the ticks the entry has used are forgotten.
RunDevice_uncharged(t, delta, procs, q) ==
  /\ last_change_tick' = t
  /\ switch_process(Front(q), procs)
  /\ UNCHANGED <<sporadic, PPP_index, PPP_debt>>
RunDevice(t, delta, procs, q) ==
  /\ PPP_debt' = (PPP_debt + delta) % UMOD
  /\ last_change_tick' = t
  /\ switch_process(Front(q), procs)
  /\ UNCHANGED <<sporadic, PPP_index>>

LAUNCH_CURRENT_PPP(t, procs) ==
  /\ PPP_index = INVALID_IDX
  /\ last_change_tick' = t
  /\ PPP_index' = 0
  /\ Dispatch(pid_from_name(procs, PPP[0]), FALSE, procs, sporadic)
  /\ UNCHANGED <<sporadic, PPP_debt>>

AfterTermination(t, elapsed, procs) ==
  /\ current = INVALIDPID
  /\ PERIODIC_CHECK(t, last_change_tick, elapsed, INVALIDPID, FALSE, procs, sporadic)
  /\ UNCHANGED PPP_debt

DeviceTurn(t, procs) ==
  /\ CurrentProcess(procs).level = DEVICE
  /\ \/ /\ CurrentProcess(procs).yielded
        /\ LET started == (t - PPP_debt) % UMOD
               delta == Signed(t - started)
           IN  PERIODIC_CHECK(t, started, IF delta < 0 THEN 1 ELSE delta,
                              pid_from_name(procs, PPP[PPP_index]), FALSE,
                              procs, sporadic)
        /\ PPP_debt' = 0
     \/ /\ ~CurrentProcess(procs).yielded
        /\ processes' = procs
        /\ UNCHANGED <<current, sporadic, clock, halted>>

\* A SPORADIC process that gave up its turn re-enters at the end.
\* Mutant: one that is pre-empted does so too.
Reenter_always(sq, gave_up) == Rotate(sq)
Reenter(sq, gave_up) == IF gave_up THEN Rotate(sq) ELSE sq

SporadicTurn(t, elapsed, procs) ==
  LET gave_up == CurrentProcess(procs).yielded
  IN  /\ CurrentProcess(procs).level = SPORADIC
      /\ IF gave_up /\ sporadic.length = 0
         THEN OS_Abort("sporadic queue empty", procs)
         ELSE /\ PERIODIC_CHECK(t, last_change_tick, elapsed, current, gave_up, procs,
                                Reenter(sporadic, gave_up))
              /\ UNCHANGED PPP_debt

PeriodicTurn(t, elapsed, procs) ==
  /\ CurrentProcess(procs).level \in {PERIODIC, IDLE_PRIORITY}
  /\ PERIODIC_CHECK(t, last_change_tick, elapsed, current,
                    CurrentProcess(procs).yielded, procs, sporadic)
  /\ UNCHANGED PPP_debt

check_schedule(t, procs, dq) ==
  LET delta == Signed(t - last_change_tick)
      due == DueDevices(t, delta, procs)
      q == EnqueueDue(dq, due, procs)
      elapsed == IF delta < 0 THEN 1 ELSE delta
  IN  IF due # {} /\ dq.length + Cardinality(due) > MAXPROCESS
      THEN OS_Abort("device queue full", procs) /\ device' = dq
      ELSE /\ device' = q
           /\ \/ /\ q.length > 0 /\ Front(q) # current
                 /\ RunDevice(t, delta, procs, q)
              \/ /\ q.length = 0 \/ Front(q) = current
                 /\ \/ LAUNCH_CURRENT_PPP(t, procs)
                    \/ /\ PPP_index # INVALID_IDX
                       /\ \/ AfterTermination(t, elapsed, procs)
                          \/ /\ current # INVALIDPID
                             /\ \/ DeviceTurn(t, procs)
                                \/ SporadicTurn(t, elapsed, procs)
                                \/ PeriodicTurn(t, elapsed, procs)

-----------------------------------------------------------------------------
(* Boot.  OS_Init empties every table and OS_Start first creates idle.     *)

NoProcess == [pid |-> INVALIDPID, level |-> DEVICE, n |-> 0, yielded |-> FALSE]

Init ==
  /\ processes = [[i \in Slots |-> NoProcess]
                    EXCEPT ![0] = [pid |-> idle_pid, level |-> IDLE_PRIORITY,
                                   n |-> 0, yielded |-> FALSE]]
  /\ name_registry = {}
  /\ pid_counter = idle_pid + 1
  /\ current = INVALIDPID
  /\ sporadic = EmptyQueue
  /\ device = EmptyQueue
  /\ PPP_index = INVALID_IDX
  /\ last_change_tick = 0
  /\ PPP_debt = 0
  /\ tick = 0
  /\ intr = TRUE
  /\ timer_on = FALSE
  /\ halted = "no"

irq_install ==
  /\ ~timer_on
  /\ timer_on' = TRUE
  /\ intr' = TRUE
  /\ UNCHANGED <<processes, name_registry, pid_counter, current, sporadic, device,
                 clock, tick, halted>>

-----------------------------------------------------------------------------
(* The timer interrupt and the system calls.                               *)

\* The idle process makes no system call.
Calls(call) ==
  /\ halted = "no"
  /\ call \in AppCalls
  /\ current # INVALIDPID
  /\ CurrentProcess(processes).level # IDLE_PRIORITY

timer_callback ==
  /\ halted = "no"
  /\ timer_on /\ intr
  /\ ~(FastDevices /\ current # INVALIDPID /\ CurrentProcess(processes).level = DEVICE)
  /\ tick' = (tick + 1) % UMOD
  /\ check_schedule((tick + 1) % UMOD, processes, device)
  /\ UNCHANGED <<name_registry, pid_counter, intr, timer_on>>

\* OS_Create refuses a process: it returns before its sti.
RefuseCreate ==
  /\ intr' = FALSE
  /\ UNCHANGED <<processes, name_registry, pid_counter, sporadic>>

AcceptCreate(level, n) ==
  /\ pid_counter <= MaxPid
  /\ processes' = [processes EXCEPT ![Min(FreeSlots(processes))] =
                     [pid |-> pid_counter, level |-> level, n |-> n, yielded |-> FALSE]]
  /\ name_registry' = IF level = DEVICE THEN name_registry ELSE name_registry \union {n}
  /\ pid_counter' = pid_counter + 1
  /\ IF level = SPORADIC
     THEN IF sporadic.length >= MAXPROCESS
          THEN intr' = FALSE /\ UNCHANGED sporadic
          ELSE intr' = TRUE /\ sporadic' = Enqueue(sporadic, pid_counter)
     ELSE intr' = TRUE /\ UNCHANGED sporadic

OS_Create(level, n) ==
  /\ ~timer_on \/ Calls("create")
  /\ \/ /\ FreeSlots(processes) = {} \/ (level # DEVICE /\ n \in name_registry)
        /\ RefuseCreate
     \/ /\ FreeSlots(processes) # {} /\ (level = DEVICE \/ n \notin name_registry)
        /\ AcceptCreate(level, n)
  /\ UNCHANGED <<current, device, clock, tick, timer_on, halted>>

OS_Terminate ==
  LET me == CurrentProcess(processes)
      dies ==
        /\ processes' = [processes EXCEPT
             ![process_index_from_pid(processes, current)].pid = INVALIDPID]
        /\ name_registry' = IF me.level = DEVICE THEN name_registry
                            ELSE unregister_bit(name_registry, me.n)
        /\ current' = INVALIDPID
        /\ intr' = TRUE
        /\ UNCHANGED halted
      fails(reason) ==
        /\ halted' = reason
        /\ UNCHANGED <<processes, name_registry, current, sporadic, device, intr>>
  IN  /\ Calls("terminate")
      /\ \/ /\ me.level = DEVICE
            /\ IF Front(device) # current THEN fails("device mismatch")
               ELSE dies /\ device' = Dequeue(device) /\ UNCHANGED sporadic
         \/ /\ me.level = SPORADIC
            /\ IF Front(sporadic) # current THEN fails("sporadic mismatch")
               ELSE dies /\ sporadic' = Dequeue(sporadic) /\ UNCHANGED device
         \/ /\ me.level = PERIODIC
            /\ dies
            /\ UNCHANGED <<sporadic, device>>
      /\ UNCHANGED <<pid_counter, clock, tick, timer_on>>

OS_Yield ==
  LET me == CurrentProcess(processes)
  IN  /\ Calls("yield")
      /\ intr' = TRUE
      /\ \/ /\ me.yielded
            /\ UNCHANGED <<processes, current, sporadic, device, clock, halted>>
         \/ /\ ~me.yielded
            /\ check_schedule(tick,
                 [processes EXCEPT
                    ![process_index_from_pid(processes, current)].yielded = TRUE],
                 IF me.level = DEVICE THEN Dequeue(device) ELSE device)
      /\ UNCHANGED <<name_registry, pid_counter, tick, timer_on>>

Next ==
  \/ irq_install
  \/ timer_callback
  \/ \E n \in PeriodicNames : OS_Create(PERIODIC, n)
  \/ \E n \in SporadicNames : OS_Create(SPORADIC, n)
  \/ \E n \in DeviceRates : OS_Create(DEVICE, n)
  \/ OS_Terminate
  \/ OS_Yield

Spec == Init /\ [][Next]_vars

\* The PIC holds a timer interrupt until the CPU takes it, so it is taken as
\* long as interrupts are enabled again and again.  A DEVICE runs to completion.
DeviceCompletes ==
  /\ halted = "no" /\ current # INVALIDPID /\ CurrentProcess(processes).level = DEVICE
  /\ OS_Yield \/ OS_Terminate
Fairness == WF_vars(irq_install) /\ SF_vars(timer_callback) /\ WF_vars(DeviceCompletes)

-----------------------------------------------------------------------------
(* Types.                                                                  *)

Words == 0 .. UMOD - 1
Process == [pid : Nat, level : DEVICE .. IDLE_PRIORITY, n : Nat, yielded : BOOLEAN]
Queue == [buf : [Slots -> Nat], idx : Slots, length : Words]
Reasons == {"no", "unknown pid", "device queue full", "sporadic queue empty",
            "device mismatch", "sporadic mismatch"}

\* Every variable keeps its type: the indexes of the rings stay in the arrays,
\* the tick counters stay words of the machine.
TypeOK ==
  /\ processes \in [Slots -> Process]
  /\ name_registry \subseteq Nat
  /\ pid_counter \in Nat \ {0}
  /\ current \in Nat
  /\ sporadic \in Queue
  /\ device \in Queue
  /\ PPP_index \in Plan \union {INVALID_IDX}
  /\ last_change_tick \in Words
  /\ PPP_debt \in Words
  /\ tick \in Words
  /\ intr \in BOOLEAN
  /\ timer_on \in BOOLEAN
  /\ halted \in Reasons

-----------------------------------------------------------------------------
(* What the properties speak of.                                           *)

Window(q) == {Position(q, k) : k \in 0 .. q.length - 1}
Queued(q) == {q.buf[k] : k \in Window(q)}
LiveAt(level) == {i \in LiveSlots(processes) : processes[i].level = level}
Runs(level) ==
  /\ current # INVALIDPID /\ Live(processes, current)
  /\ CurrentProcess(processes).level = level
Named(name) == {i \in LiveAt(PERIODIC) : processes[i].n = name}

\* No rate, SPORADIC "n" or the 0 of the idle process is a name of the plan.
NoNameCollision ==
  (DeviceRates \union SporadicNames \union {0}) \intersect PlanNames = {}

-----------------------------------------------------------------------------
(* Safety.                                                                 *)

\* The kernel switches to a PID that is in no slot, and stops at "Passed PID not
\* found", only over the front of the device queue: the plan, the ring of SPORADIC
\* processes and the idle process never name a process that has ended, and no
\* process that runs is ever lost from the table (process_index_from_pid).
CurrentIsLive ==
  current # INVALIDPID =>
    \/ Live(processes, current)
    \/ halted = "unknown pid" /\ device.length > 0 /\ Front(device) = current

\* The ring of SPORADIC processes holds each live SPORADIC process once and
\* nothing else, whatever mix of creations, terminations, yields and rotations
\* has moved it (OS_Create, OS_Terminate, the SPORADIC case of check_schedule).
SporadicQueueExact ==
  /\ sporadic.length = Cardinality(LiveAt(SPORADIC))
  /\ Queued(sporadic) = {processes[i].pid : i \in LiveAt(SPORADIC)}

\* A SPORADIC process runs only while it is at the front of its queue, which
\* is what OS_Terminate takes for granted when it drops the front.
RunningSporadicIsHead ==
  Runs(SPORADIC) => sporadic.length > 0 /\ Front(sporadic) = current

\* A DEVICE that runs and has not given up the CPU is at the front of the device
\* queue, which OS_Yield and OS_Terminate drop without looking for it.
RunningDeviceIsHead ==
  halted = "no" /\ Runs(DEVICE) => device.length > 0 /\ Front(device) = current

\* The CPU idles only when no SPORADIC process is ready (kernel.h: a ready
\* SPORADIC process runs at the next earliest CPU idle time).
IdleOnlyWhenNothingReady == current = idle_pid => sporadic.length = 0

\* None of the kernel's own assertions ("ASSERT FAIL", "Assert failed") fires.
AssertsHold ==
  halted \notin {"sporadic queue empty", "device mismatch", "sporadic mismatch"}

\* The kernel never stops the CPU.
NeverHalts == halted = "no"

\* A DEVICE is in the device queue at most once: what check_schedule assumes of
\* devices that finish before the next tick.
NoDuplicateDevice == device.length = Cardinality(Queued(device))

-----------------------------------------------------------------------------
(* What a step may never do.                                               *)

\* A SPORADIC process that a tick takes off the CPU, and that had not yielded,
\* is still at the front of its queue afterwards (kernel.h: it re-enters its
\* level at the front).
PreemptedSporadicKeepsFront ==
  [][Runs(SPORADIC) /\ ~CurrentProcess(processes).yielded /\ tick' # tick
       => Front(sporadic') = current]_vars

\* When the plan moves to an entry whose name some PERIODIC process has, a process
\* of that name gets the CPU, whoever ran before it.
SlotGoesToItsProcess ==
  [][PPP_index' \notin {PPP_index, INVALID_IDX} /\ Named(PPP[PPP_index']) # {}
       => \E i \in Named(PPP[PPP_index']) : current' = processes[i].pid]_vars

-----------------------------------------------------------------------------
(* The SPORADIC level as a queue.                                          *)

SporadicQueue == [k \in 1 .. sporadic.length |-> sporadic.buf[Position(sporadic, k - 1)]]

Level == INSTANCE SporadicLevel WITH
           Process <- 2 .. MaxPid, None <- INVALIDPID, ready <- SporadicQueue,
           running <- IF Runs(SPORADIC) THEN current ELSE INVALIDPID

\* The ring and the steps that move it implement a first-come-first-served queue
\* (SporadicLevel): no process is lost, doubled or overtaken.
ImplementsSporadicLevel == Level!Spec

-----------------------------------------------------------------------------
(* Liveness.                                                               *)

\* Every PERIODIC process of the plan runs again and again for as long as it
\* lives: no entry of the plan is held for ever and none is skipped.
PeriodicRuns ==
  \A i \in Slots, name \in PeriodicNames \intersect PlanNames :
    (timer_on /\ i \in Named(name)) ~> (current = processes[i].pid \/ i \notin Named(name))

\* Every DEVICE that waits in the device queue gets its turn, however many become
\* due at once.
WaitingDeviceRuns ==
  \A i \in Slots :
    (i \in LiveAt(DEVICE) /\ processes[i].pid \in Queued(device))
      ~> (current = processes[i].pid \/ i \notin LiveAt(DEVICE))
=============================================================================
