------------------------ MODULE SchedulerInvariant ------------------------
(***************************************************************************)
(* The strengthening that makes the safety invariants of Scheduler         *)
(* inductive: what SchedulerProofs proves is preserved by every step.      *)
(***************************************************************************)
EXTENDS Scheduler

\* The types, and a live current process, without which the fields of the process
\* that runs have no type.
RunsLive == halted = "no" /\ current # INVALIDPID => Live(processes, current)
TInv == TypeOK /\ RunsLive

\* Every live process has a PID of its own, already given out; the name or rate
\* it carries belongs to its level; PID 1 is the idle process.
Table(procs, pc) ==
  /\ pc > idle_pid
  /\ \A i, j \in LiveSlots(procs) : procs[i].pid = procs[j].pid => i = j
  /\ \A i \in LiveSlots(procs) :
       /\ procs[i].pid < pc
       /\ procs[i].pid = idle_pid => procs[i].level = IDLE_PRIORITY
       /\ procs[i].level = DEVICE => procs[i].n \in DeviceRates
       /\ procs[i].level = SPORADIC => procs[i].n \in SporadicNames
       /\ procs[i].level = IDLE_PRIORITY => procs[i].n = 0

\* A PID left in a ring, inside its window or not, is that of no live process of
\* another level, and will never be given to one.
Holds(q, level, procs, pc) ==
  \A k \in Slots :
    /\ q.buf[k] < pc
    /\ \A i \in LiveSlots(procs) : procs[i].pid = q.buf[k] => procs[i].level = level

\* The window of a ring fits in it and holds PIDs.
Filled(q) ==
  /\ q.length <= MAXPROCESS
  /\ \A k \in 0 .. q.length - 1 : q.buf[Position(q, k)] # INVALIDPID

\* Only the process that runs may have its yielded flag set.
Quiet(procs, pid) == \A i \in LiveSlots(procs) : procs[i].yielded => procs[i].pid = pid

\* A SPORADIC process that runs, or a DEVICE, is at the front of its queue; a DEVICE
\* that has yielded no longer runs.
HeadsOf(procs, pid, sq, dq) ==
  \A i \in LiveSlots(procs) :
    procs[i].pid = pid =>
      /\ procs[i].level = SPORADIC => sq.length > 0 /\ Front(sq) = pid
      /\ procs[i].level = DEVICE =>
           dq.length > 0 /\ Front(dq) = pid /\ ~procs[i].yielded

\* The inductive invariant behind the assertions of the kernel: the rings, the
\* table and the process that runs agree (OS_Create, OS_Terminate, OS_Yield,
\* check_schedule).
IInv ==
  /\ TInv
  /\ Table(processes, pid_counter)
  /\ Holds(sporadic, SPORADIC, processes, pid_counter)
  /\ Holds(device, DEVICE, processes, pid_counter)
  /\ Filled(sporadic) /\ Filled(device)
  /\ Quiet(processes, current)
  /\ halted = "no" => HeadsOf(processes, current, sporadic, device)
  /\ AssertsHold
=============================================================================
