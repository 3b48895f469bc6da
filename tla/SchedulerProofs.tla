--------------------------- MODULE SchedulerProofs ---------------------------
(***************************************************************************)
(* Theorems about Scheduler, for every table size, plan, set of names and  *)
(* rates: type correctness, and that no assertion of the kernel fires,     *)
(* whatever the processes call and however long devices keep the CPU, as   *)
(* long as no rate and no SPORADIC "n" is a name of the plan: the          *)
(* invariant IInv of SchedulerInvariant is inductive.                      *)
(***************************************************************************)
EXTENDS SchedulerInvariant, FiniteSetTheorems, WellFoundedInduction, TLAPS

USE SchedulerAssumption

-----------------------------------------------------------------------------
(* Numbers and sets.                                                       *)

LEMMA WordsMod == \A x \in Int : x % UMOD \in Words
  BY DEF Words

LEMMA SlotsMod == \A x \in Int : x % MAXPROCESS \in Slots
  BY DEF Slots

LEMMA SlotSets ==
  ASSUME NEW S \in SUBSET Slots
  PROVE  IsFiniteSet(S) /\ Cardinality(S) \in 0 .. MAXPROCESS
<1>1. IsFiniteSet(Slots) /\ Cardinality(Slots) = MAXPROCESS
  BY FS_Interval DEF Slots
<1>2. IsFiniteSet(S) /\ Cardinality(S) <= Cardinality(Slots)
  BY <1>1, FS_Subset
<1> QED
  BY <1>1, <1>2, FS_CardinalityType

\* A set of slots has a first member: of the sets of slots before one of its
\* members, one is smallest.
LEMMA MinOfSlots ==
  ASSUME NEW S \in SUBSET Slots, S # {}
  PROVE  Min(S) \in S /\ \A y \in S : Min(S) <= y
<1> DEFINE Before(x) == {j \in Slots : j < x}
           R == StrictSubsetOrdering(Slots)
           T == {Before(x) : x \in S}
<1>1. T \subseteq FiniteSubsetsOf(Slots) /\ T # {}
  <2>1. ASSUME NEW x \in S PROVE Before(x) \in FiniteSubsetsOf(Slots)
    <3>1. Before(x) \in SUBSET Slots
      OBVIOUS
    <3> HIDE DEF Before
    <3> QED
      BY <3>1, SlotSets DEF FiniteSubsetsOf
  <2> HIDE DEF Before
  <2> QED
    BY <2>1
<1>2. IsWellFoundedOn(R, FiniteSubsetsOf(Slots))
  BY FS_StrictSubsetOrderingWellFounded
<1> HIDE DEF R
<1>3. PICK X \in T : \A Y \in T : ~(<<Y, X>> \in R)
  BY <1>1, <1>2, WFMin
<1>4. PICK x \in S : X = Before(x)
  BY <1>3
<1>5. ASSUME NEW y \in S PROVE x <= y
  <2>1. SUFFICES ASSUME y < x PROVE FALSE
    BY DEF Slots
  <2>2. Before(y) \subseteq Before(x)
    BY <2>1 DEF Slots
  <2>3. Before(y) # Before(x)
    <3>1. y \in Before(x) /\ y \notin Before(y)
      BY <2>1 DEF Slots
    <3> QED
      BY <3>1
  <2>4. <<Before(y), Before(x)>> \in R
    BY <2>2, <2>3 DEF R, StrictSubsetOrdering
  <2> QED
    BY <2>4, <1>3, <1>4
<1> QED
  BY <1>5 DEF Min

-----------------------------------------------------------------------------
(* The rings of PIDs.                                                      *)

LEMMA QueueTypes ==
  ASSUME NEW q \in Queue, NEW pid \in Nat
  PROVE  /\ \A k \in Nat : Position(q, k) \in Slots
         /\ Front(q) \in Nat
         /\ Enqueue(q, pid) \in Queue
         /\ Dequeue(q) \in Queue
         /\ Rotate(q) \in Queue
<1>1. q.idx \in Slots /\ q.length \in Words /\ q.buf \in [Slots -> Nat]
  BY DEF Queue
<1>2. \A k \in Nat : Position(q, k) \in Slots
  <2>1. \A k \in Nat : q.idx + k \in Int
    BY <1>1 DEF Slots
  <2> QED
    BY <2>1, SlotsMod DEF Position
<1>3. q.length \in Nat /\ (q.length + 1) % UMOD \in Words /\ (q.length - 1) % UMOD \in Words
  BY <1>1, WordsMod DEF Words
<1>4. Enqueue(q, pid) \in Queue
  BY <1>1, <1>3 DEF Queue, Enqueue
<1>5. Dequeue(q) \in Queue
  BY <1>1, <1>2, <1>3 DEF Queue, Dequeue, INVALIDPID
<1>6. Front(q) \in Nat
  BY <1>1 DEF Front
<1>7. Rotate(q) \in Queue
  BY <1>1, <1>2, <1>6 DEF Queue, Rotate
<1> QED
  BY <1>2, <1>4, <1>5, <1>6, <1>7

LEMMA EnqueueDueType ==
  ASSUME NEW q \in Queue, NEW due \in SUBSET Slots, NEW procs \in [Slots -> Process],
         due # {} => q.length + Cardinality(due) <= MAXPROCESS
  PROVE  EnqueueDue(q, due, procs) \in Queue
<1>1. q.length + Cardinality(due) \in Words
  <2>1. CASE due = {}
    BY <2>1, FS_EmptySet DEF Queue, Words
  <2>2. CASE due # {}
    BY <2>2, SlotSets DEF Queue, Words
  <2> QED
    BY <2>1, <2>2
<1> DEFINE takes(i, k) == Position(q, q.length + Rank(due, i)) = k
           buf == [k \in Slots |-> IF \E i \in due : takes(i, k)
                                   THEN procs[CHOOSE i \in due : takes(i, k)].pid
                                   ELSE q.buf[k]]
<1>2. buf \in [Slots -> Nat]
  <2>1. \A i \in due : procs[i].pid \in Nat
    BY DEF Process
  <2>2. \A k \in Slots : q.buf[k] \in Nat
    BY DEF Queue
  <2> HIDE DEF takes
  <2>3. ASSUME NEW k \in Slots, \E i \in due : takes(i, k)
        PROVE  (CHOOSE i \in due : takes(i, k)) \in due
    BY <2>3
  <2> QED
    BY <2>1, <2>2, <2>3
<1>3. EnqueueDue(q, due, procs) = [buf |-> buf, idx |-> q.idx, length |-> q.length + Cardinality(due)]
  BY DEF EnqueueDue
<1> HIDE DEF buf
<1> QED
  BY <1>1, <1>2, <1>3 DEF Queue

LEMMA CurrentProcessType ==
  ASSUME NEW procs \in [Slots -> Process], Live(procs, current)
  PROVE  /\ process_index_from_pid(procs, current) \in LiveSlots(procs)
         /\ CurrentProcess(procs) \in Process
         /\ CurrentProcess(procs).pid = current
<1>1. process_index_from_pid(procs, current) \in LiveSlots(procs)
  BY DEF Live, process_index_from_pid
<1>2. procs[process_index_from_pid(procs, current)].pid = current
  BY DEF Live, process_index_from_pid
<1> QED
  BY <1>1, <1>2 DEF CurrentProcess, LiveSlots

\* The table that the caller hands to the scheduler: typed, and it holds current.
Sound(procs) ==
  /\ procs \in [Slots -> Process]
  /\ current # INVALIDPID => Live(procs, current)

\* What a scheduling decision leaves: a table of the same type, which holds the
\* process that runs unless the CPU has stopped.
Left == processes' \in [Slots -> Process] /\ RunsLive'

LEMMA SetYielded ==
  ASSUME NEW procs \in [Slots -> Process], NEW i \in Slots, NEW b \in BOOLEAN
  PROVE  /\ [procs EXCEPT ![i].yielded = b] \in [Slots -> Process]
         /\ LiveSlots([procs EXCEPT ![i].yielded = b]) = LiveSlots(procs)
         /\ \A j \in Slots :
              /\ [procs EXCEPT ![i].yielded = b][j].pid = procs[j].pid
              /\ [procs EXCEPT ![i].yielded = b][j].level = procs[j].level
              /\ [procs EXCEPT ![i].yielded = b][j].n = procs[j].n
              /\ [procs EXCEPT ![i].yielded = b][j].yielded =
                   IF j = i THEN b ELSE procs[j].yielded
         /\ \A pid : Live([procs EXCEPT ![i].yielded = b], pid) <=> Live(procs, pid)
<1> DEFINE new == [procs EXCEPT ![i].yielded = b]
<1>1. new \in [Slots -> Process]
  BY DEF Process
<1>2. \A j \in Slots : /\ new[j].pid = procs[j].pid /\ new[j].level = procs[j].level
                       /\ new[j].n = procs[j].n
                       /\ new[j].yielded = IF j = i THEN b ELSE procs[j].yielded
  BY DEF Process
<1> HIDE DEF new
<1>3. LiveSlots(new) = LiveSlots(procs)
  BY <1>2 DEF LiveSlots, FreeSlots
<1>4. \A pid : Live(new, pid) <=> Live(procs, pid)
  BY <1>2, <1>3 DEF Live, LiveSlots
<1> QED
  BY <1>1, <1>2, <1>3, <1>4 DEF new

LEMMA SwitchType ==
  ASSUME NEW procs, NEW new_pid \in Nat, Sound(procs), TypeOK,
         switch_process(new_pid, procs)
  PROVE  Left /\ current' \in Nat /\ halted' \in Reasons
<1> DEFINE index == process_index_from_pid(procs, current)
<1>1. CASE processes' = procs /\ current' = current /\ halted' = halted
  BY <1>1 DEF TypeOK, Sound, Left, RunsLive
<1>2. CASE /\ new_pid # INVALIDPID
           /\ processes' = IF current = INVALIDPID THEN procs
                           ELSE [procs EXCEPT ![index].yielded = FALSE]
           /\ current' = new_pid
           /\ IF Live(procs, new_pid) THEN UNCHANGED halted ELSE halted' = "unknown pid"
  <2>0. halted' \in Reasons /\ (halted' = "no" => Live(procs, new_pid))
    BY <1>2 DEF TypeOK, Reasons
  <2>1. CASE current = INVALIDPID
    BY <1>2, <2>0, <2>1 DEF Sound, Left, RunsLive
  <2>2. CASE current # INVALIDPID
    <3>1. index \in Slots /\ procs \in [Slots -> Process]
      BY <2>2, CurrentProcessType DEF Sound, LiveSlots
    <3> HIDE DEF index
    <3>2. processes' \in [Slots -> Process] /\ (Live(procs, new_pid) => Live(processes', new_pid))
      BY <1>2, <2>2, <3>1, SetYielded
    <3> QED
      BY <1>2, <2>0, <3>2 DEF Left, RunsLive
  <2> QED
    BY <2>1, <2>2
<1> QED
  BY <1>1, <1>2 DEF switch_process, index

LEMMA PidFromName ==
  ASSUME NEW procs \in [Slots -> Process], NEW name \in Int,
         pid_from_name(procs, name) # INVALIDPID
  PROVE  \E i \in LiveSlots(procs) :
           procs[i].n = name /\ pid_from_name(procs, name) = procs[i].pid
<1> DEFINE named == {i \in LiveSlots(procs) : procs[i].n = name}
<1>1. named \in SUBSET Slots /\ named # {}
  BY DEF pid_from_name, LiveSlots
<1>2. Min(named) \in named
  BY <1>1, MinOfSlots
<1> QED
  BY <1>1, <1>2 DEF pid_from_name

LEMMA PidFromNameType ==
  ASSUME NEW procs \in [Slots -> Process], NEW name \in Int
  PROVE  pid_from_name(procs, name) \in Nat
<1>1. CASE pid_from_name(procs, name) = INVALIDPID
  BY <1>1 DEF INVALIDPID
<1>2. CASE pid_from_name(procs, name) # INVALIDPID
  BY <1>2, PidFromName DEF LiveSlots, Process
<1> QED
  BY <1>1, <1>2

-----------------------------------------------------------------------------
(* Type correctness.                                                       *)

LEMMA NumberTypes ==
  /\ \A x \in Int : Signed(x) \in Int
  /\ PPP_index \in Plan => NextEntry \in Plan
  /\ 0 \in Plan
  /\ \A i \in Plan : PPP[i] \in Int
<1>1. \A x \in Int : Signed(x) \in Int
  BY WordsMod DEF Signed, Words
<1>2. PPP_index \in Plan => NextEntry \in Plan
  BY DEF Plan, NextEntry
<1>3. 0 \in Plan
  BY DEF Plan
<1> QED
  BY <1>1, <1>2, <1>3

\* The types that a scheduling decision has to keep.
ScheduleTyped ==
  /\ Left
  /\ current' \in Nat
  /\ sporadic' \in Queue
  /\ PPP_index' \in Plan \union {INVALID_IDX}
  /\ last_change_tick' \in Words
  /\ halted' \in Reasons

LEMMA DispatchType ==
  ASSUME NEW next_pid \in Nat, NEW gave_up \in BOOLEAN, NEW procs, Sound(procs),
         NEW sq \in Queue, TypeOK, Dispatch(next_pid, gave_up, procs, sq)
  PROVE  Left /\ current' \in Nat /\ halted' \in Reasons
<1> DEFINE pid == IF next_pid # INVALIDPID /\ ~gave_up THEN next_pid
                  ELSE IF sq.length = 0 THEN idle_pid ELSE Front(sq)
<1>1. pid \in Nat
  BY QueueTypes DEF idle_pid
<1>2. switch_process(pid, procs)
  BY DEF Dispatch
<1> HIDE DEF pid
<1> QED
  BY <1>1, <1>2, SwitchType

LEMMA PeriodicCheckType ==
  ASSUME NEW t \in Words, NEW started \in Words, NEW elapsed, NEW next_pid \in Nat,
         NEW gave_up \in BOOLEAN, NEW procs, Sound(procs), NEW sq \in Queue,
         TypeOK, PPP_index # INVALID_IDX,
         PERIODIC_CHECK(t, started, elapsed, next_pid, gave_up, procs, sq)
  PROVE  ScheduleTyped
<1>1. PPP_index \in Plan /\ NextEntry \in Plan
  BY NumberTypes DEF TypeOK
<1>2. sporadic' = sq
  BY DEF PERIODIC_CHECK
<1>3. CASE TimesUp(elapsed)
  <2>1. last_change_tick' = t /\ PPP_index' = NextEntry
    BY <1>3 DEF PERIODIC_CHECK
  <2>2. Dispatch(pid_from_name(procs, PPP[NextEntry]), gave_up, procs, sq)
    BY <1>3 DEF PERIODIC_CHECK
  <2>3. pid_from_name(procs, PPP[NextEntry]) \in Nat
    BY <1>1, NumberTypes, PidFromNameType DEF Sound
  <2> QED
    BY <1>1, <1>2, <2>1, <2>2, <2>3, DispatchType DEF ScheduleTyped
<1>4. CASE ~TimesUp(elapsed)
  <2>1. last_change_tick' = started /\ PPP_index' = PPP_index
    BY <1>4 DEF PERIODIC_CHECK
  <2>2. Dispatch(next_pid, gave_up, procs, sq)
    BY <1>4 DEF PERIODIC_CHECK
  <2> QED
    BY <1>1, <1>2, <2>1, <2>2, DispatchType DEF ScheduleTyped
<1> QED
  BY <1>3, <1>4

LEMMA CheckScheduleType ==
  ASSUME NEW t \in Words, NEW procs, Sound(procs), NEW dq \in Queue, TypeOK,
         check_schedule(t, procs, dq)
  PROVE  ScheduleTyped /\ device' \in Queue /\ PPP_debt' \in Words
<1> DEFINE delta == Signed(t - last_change_tick)
           due == DueDevices(t, delta, procs)
           q == EnqueueDue(dq, due, procs)
           elapsed == IF delta < 0 THEN 1 ELSE delta
<1>1. delta \in Int /\ due \in SUBSET Slots
  <2>1. t - last_change_tick \in Int
    BY DEF TypeOK, Words
  <2>2. \A d : DueDevices(t, d, procs) \in SUBSET Slots
    BY DEF DueDevices, LiveSlots
  <2> QED
    BY <2>1, <2>2, NumberTypes
<1>2. (PPP_debt + delta) % UMOD \in Words /\ (t - PPP_debt) % UMOD \in Words /\ 0 \in Words
  <2> HIDE DEF delta
  <2>1. PPP_debt + delta \in Int /\ t - PPP_debt \in Int
    BY <1>1 DEF TypeOK, Words
  <2>2. 0 \in Words
    BY DEF Words
  <2> QED
    BY <2>1, <2>2, WordsMod
<1>3. procs \in [Slots -> Process] /\ dq.length \in Nat
  BY DEF Sound, Queue, Words
<1>4. CASE due # {} /\ dq.length + Cardinality(due) > MAXPROCESS
  <2>1. OS_Abort("device queue full", procs) /\ device' = dq
    BY <1>4 DEF check_schedule
  <2> QED
    BY <2>1 DEF OS_Abort, ScheduleTyped, TypeOK, Reasons, clock, Sound, Left, RunsLive
<1>5. CASE ~(due # {} /\ dq.length + Cardinality(due) > MAXPROCESS)
  <2>1. q \in Queue
    <3>1. due # {} => dq.length + Cardinality(due) <= MAXPROCESS
      BY <1>1, <1>3, <1>5, SlotSets
    <3> HIDE DEF due
    <3> QED
      BY <1>1, <1>3, <3>1, EnqueueDueType
  <2>2. device' = q
    BY <1>5 DEF check_schedule
  <2> HIDE DEF delta, due, q, elapsed
  <2>3. CASE RunDevice(t, delta, procs, q)
    <3>1. Front(q) \in Nat
      BY <2>1, QueueTypes
    <3> QED
      BY <1>2, <2>1, <2>2, <2>3, <3>1, SwitchType DEF RunDevice, ScheduleTyped, TypeOK
  <2>4. CASE LAUNCH_CURRENT_PPP(t, procs)
    <3>1. pid_from_name(procs, PPP[0]) \in Nat /\ sporadic \in Queue
      BY <1>3, NumberTypes, PidFromNameType DEF TypeOK
    <3> QED
      BY <2>1, <2>2, <2>4, <3>1, DispatchType, NumberTypes
         DEF LAUNCH_CURRENT_PPP, ScheduleTyped, TypeOK
  <2>5. CASE PPP_index # INVALID_IDX /\ AfterTermination(t, elapsed, procs)
    <3>1. INVALIDPID \in Nat /\ FALSE \in BOOLEAN /\ sporadic \in Queue /\ last_change_tick \in Words
      BY DEF TypeOK, INVALIDPID
    <3>2. PERIODIC_CHECK(t, last_change_tick, elapsed, INVALIDPID, FALSE, procs, sporadic)
      BY <2>5 DEF AfterTermination
    <3>3. ScheduleTyped
      BY <2>5, <3>1, <3>2, PeriodicCheckType
    <3> QED
      BY <2>1, <2>2, <2>5, <3>3 DEF AfterTermination, TypeOK
  <2>6. ASSUME PPP_index # INVALID_IDX, current # INVALIDPID,
               DeviceTurn(t, procs) \/ SporadicTurn(t, elapsed, procs)
                 \/ PeriodicTurn(t, elapsed, procs)
        PROVE  ScheduleTyped /\ PPP_debt' \in Words
    <3> DEFINE gave_up == CurrentProcess(procs).yielded
    <3>1. gave_up \in BOOLEAN
      BY <1>3, <2>6, CurrentProcessType DEF Sound, Process
    <3>2. /\ current \in Nat /\ sporadic \in Queue /\ last_change_tick \in Words
          /\ PPP_index \in Plan /\ Reenter(sporadic, gave_up) \in Queue
      BY <2>6, QueueTypes DEF TypeOK, Reenter
    <3> HIDE DEF gave_up
    <3>3. CASE DeviceTurn(t, procs)
      <4> DEFINE started == (t - PPP_debt) % UMOD
                 d == Signed(t - started)
      <4>1. CASE gave_up
        <5>1. /\ PERIODIC_CHECK(t, started, IF d < 0 THEN 1 ELSE d,
                                pid_from_name(procs, PPP[PPP_index]), FALSE, procs, sporadic)
              /\ PPP_debt' = 0
          BY <3>3, <4>1 DEF DeviceTurn, gave_up
        <5>2. pid_from_name(procs, PPP[PPP_index]) \in Nat
          BY <1>3, <3>2, NumberTypes, PidFromNameType
        <5> QED
          BY <1>2, <2>6, <3>2, <5>1, <5>2, PeriodicCheckType
      <4>2. CASE ~gave_up
        <5>1. processes' = procs /\ UNCHANGED <<current, sporadic, clock, halted>>
          BY <3>3, <4>2 DEF DeviceTurn, gave_up
        <5> QED
          BY <5>1 DEF ScheduleTyped, TypeOK, clock, Sound, Left, RunsLive
      <4> QED
        BY <3>1, <4>1, <4>2
    <3>4. CASE SporadicTurn(t, elapsed, procs)
      <4>1. CASE OS_Abort("sporadic queue empty", procs)
        BY <4>1 DEF OS_Abort, ScheduleTyped, TypeOK, Reasons, clock, Sound, Left, RunsLive
      <4>2. CASE /\ PERIODIC_CHECK(t, last_change_tick, elapsed, current, gave_up, procs,
                                   Reenter(sporadic, gave_up))
                 /\ UNCHANGED PPP_debt
        BY <2>6, <3>1, <3>2, <4>2, PeriodicCheckType DEF TypeOK
      <4> QED
        BY <3>4, <4>1, <4>2 DEF SporadicTurn, gave_up
    <3>5. CASE PeriodicTurn(t, elapsed, procs)
      <4>1. /\ PERIODIC_CHECK(t, last_change_tick, elapsed, current, gave_up, procs, sporadic)
            /\ UNCHANGED PPP_debt
        BY <3>5 DEF PeriodicTurn, gave_up
      <4> QED
        BY <2>6, <3>1, <3>2, <4>1, PeriodicCheckType DEF TypeOK
    <3> QED
      BY <2>6, <3>3, <3>4, <3>5
  <2> QED
    BY <1>5, <2>1, <2>2, <2>3, <2>4, <2>5, <2>6 DEF check_schedule, delta, due, q, elapsed
<1> QED
  BY <1>4, <1>5

LEMMA TInvInit == Init => TInv
<1> SUFFICES ASSUME Init PROVE TInv
  OBVIOUS
<1> DEFINE idle == [pid |-> idle_pid, level |-> IDLE_PRIORITY, n |-> 0, yielded |-> FALSE]
<1>1. NoProcess \in Process /\ idle \in Process
  BY DEF NoProcess, Process, INVALIDPID, DEVICE, IDLE_PRIORITY, idle_pid
<1>2. processes \in [Slots -> Process]
  BY <1>1 DEF Init
<1>3. EmptyQueue \in Queue /\ 0 \in Words
  BY DEF EmptyQueue, Queue, Slots, Words, INVALIDPID
<1>4. /\ name_registry = {} /\ pid_counter = idle_pid + 1 /\ halted = "no"
      /\ sporadic = EmptyQueue /\ device = EmptyQueue /\ PPP_index = INVALID_IDX
      /\ last_change_tick = 0 /\ PPP_debt = 0 /\ tick = 0 /\ current = INVALIDPID
  BY DEF Init
<1>5. name_registry \subseteq Nat /\ pid_counter \in Nat \ {0} /\ halted \in Reasons
      /\ current \in Nat
  BY <1>4 DEF Reasons, idle_pid, INVALIDPID
<1>6. intr \in BOOLEAN /\ timer_on \in BOOLEAN
  BY Zenon DEF Init
<1> QED
  BY <1>2, <1>3, <1>4, <1>5, <1>6 DEF TInv, TypeOK, RunsLive

LEMMA CreateType ==
  ASSUME TInv, NEW level \in {DEVICE, PERIODIC, SPORADIC}, NEW n \in Nat, OS_Create(level, n)
  PROVE  TInv'
<1>1. pid_counter \in Nat /\ sporadic \in Queue /\ processes \in [Slots -> Process]
  BY DEF TInv, TypeOK
<1>2. CASE RefuseCreate
  BY <1>2 DEF OS_Create, RefuseCreate, TInv, TypeOK, RunsLive, clock, Live, LiveSlots,
              FreeSlots
<1>3. CASE FreeSlots(processes) # {} /\ AcceptCreate(level, n)
  <2> DEFINE slot == Min(FreeSlots(processes))
             new == [pid |-> pid_counter, level |-> level, n |-> n, yielded |-> FALSE]
  <2>1. slot \in FreeSlots(processes) /\ slot \in Slots
    BY <1>3, MinOfSlots DEF FreeSlots
  <2>2. processes' = [processes EXCEPT ![slot] = new]
    BY <1>3 DEF AcceptCreate
  <2>3. new \in Process
    BY <1>1 DEF Process, DEVICE, PERIODIC, SPORADIC, IDLE_PRIORITY
  <2> HIDE DEF slot, new
  <2>4. processes' \in [Slots -> Process]
    BY <1>1, <2>2, <2>3
  <2>5. sporadic' \in Queue /\ intr' \in BOOLEAN
    BY <1>1, <1>3, QueueTypes DEF AcceptCreate
  <2>6. name_registry' \subseteq Nat /\ pid_counter' \in Nat \ {0}
    BY <1>1, <1>3 DEF AcceptCreate, TInv, TypeOK
  <2>7. ASSUME halted = "no", current # INVALIDPID PROVE Live(processes', current)
    <3>1. PICK i \in LiveSlots(processes) : processes[i].pid = current
      BY <2>7 DEF TInv, RunsLive, Live
    <3>2. i \in Slots /\ i # slot
      BY <2>1, <3>1 DEF LiveSlots
    <3>3. processes'[i] = processes[i]
      BY <1>1, <2>2, <3>2
    <3> QED
      BY <2>7, <3>1, <3>2, <3>3 DEF Live, LiveSlots, FreeSlots
  <2> QED
    BY <2>4, <2>5, <2>6, <2>7 DEF OS_Create, TInv, TypeOK, RunsLive, clock
<1> QED
  BY <1>2, <1>3 DEF OS_Create

LEMMA TerminateType ==
  ASSUME TInv, OS_Terminate
  PROVE  TInv'
<1> DEFINE me == CurrentProcess(processes)
           index == process_index_from_pid(processes, current)
<1>1. processes \in [Slots -> Process] /\ current # INVALIDPID /\ Live(processes, current)
  BY DEF TInv, TypeOK, RunsLive, OS_Terminate, Calls
<1>2. index \in Slots /\ me \in Process
  BY <1>1, CurrentProcessType DEF LiveSlots
<1>3. Dequeue(device) \in Queue /\ Dequeue(sporadic) \in Queue
  BY QueueTypes DEF TInv, TypeOK, INVALIDPID
<1> HIDE DEF me, index
<1>4. [processes EXCEPT ![index].pid = INVALIDPID] \in [Slots -> Process]
  BY <1>1, <1>2 DEF Process, INVALIDPID
<1>5. unregister_bit(name_registry, me.n) \subseteq Nat
  BY DEF unregister_bit, TInv, TypeOK
<1>6. CASE /\ processes' = [processes EXCEPT ![index].pid = INVALIDPID]
           /\ current' = INVALIDPID /\ intr' = TRUE /\ UNCHANGED halted
           /\ name_registry' \in {name_registry, unregister_bit(name_registry, me.n)}
           /\ device' \in {device, Dequeue(device)}
           /\ sporadic' \in {sporadic, Dequeue(sporadic)}
  BY <1>3, <1>4, <1>5, <1>6
     DEF OS_Terminate, TInv, TypeOK, RunsLive, clock, INVALIDPID
<1>7. CASE /\ halted' \in {"device mismatch", "sporadic mismatch"}
           /\ UNCHANGED <<processes, name_registry, current, sporadic, device, intr>>
  BY <1>7 DEF OS_Terminate, TInv, TypeOK, RunsLive, clock, Reasons, Live, LiveSlots,
              FreeSlots
<1> QED
  BY <1>6, <1>7 DEF OS_Terminate, me, index

LEMMA YieldType ==
  ASSUME TInv, OS_Yield
  PROVE  TInv'
<1> DEFINE me == CurrentProcess(processes)
           index == process_index_from_pid(processes, current)
           procs == [processes EXCEPT ![index].yielded = TRUE]
           dq == IF me.level = DEVICE THEN Dequeue(device) ELSE device
<1>1. processes \in [Slots -> Process] /\ current # INVALIDPID /\ Live(processes, current)
  BY DEF TInv, TypeOK, RunsLive, OS_Yield, Calls
<1>2. index \in Slots
  BY <1>1, CurrentProcessType DEF LiveSlots
<1> HIDE DEF index
<1>3. Sound(procs)
  BY <1>1, <1>2, SetYielded DEF Sound
<1>4. dq \in Queue
  BY QueueTypes DEF TInv, TypeOK
<1> HIDE DEF procs, dq, me
<1>5. CASE check_schedule(tick, procs, dq)
  <2>1. ScheduleTyped /\ device' \in Queue /\ PPP_debt' \in Words
    BY <1>3, <1>4, <1>5, CheckScheduleType DEF TInv, TypeOK
  <2> QED
    BY <2>1 DEF OS_Yield, ScheduleTyped, Left, TInv, TypeOK
<1>6. CASE UNCHANGED <<processes, current, sporadic, device, clock, halted>>
  BY <1>6 DEF OS_Yield, TInv, TypeOK, RunsLive, clock, Live, LiveSlots, FreeSlots
<1> QED
  BY <1>5, <1>6 DEF OS_Yield, me, index, procs, dq

LEMMA TickType ==
  ASSUME TInv, timer_callback
  PROVE  TInv'
<1>1. (tick + 1) % UMOD \in Words
  <2>1. tick + 1 \in Int
    BY DEF TInv, TypeOK, Words
  <2> QED
    BY <2>1, WordsMod
<1>2. Sound(processes) /\ device \in Queue
  BY DEF TInv, TypeOK, RunsLive, Sound, timer_callback
<1>3. check_schedule((tick + 1) % UMOD, processes, device)
  BY DEF timer_callback
<1>4. ScheduleTyped /\ device' \in Queue /\ PPP_debt' \in Words
  BY <1>1, <1>2, <1>3, CheckScheduleType DEF TInv
<1> QED
  BY <1>1, <1>4 DEF timer_callback, ScheduleTyped, Left, TInv, TypeOK

LEMMA TInvStep == TInv /\ [Next]_vars => TInv'
<1> SUFFICES ASSUME TInv, [Next]_vars PROVE TInv'
  OBVIOUS
<1>1. CASE irq_install
  BY <1>1 DEF irq_install, TInv, TypeOK, RunsLive, clock, Live, LiveSlots, FreeSlots
<1>2. CASE timer_callback
  BY <1>2, TickType
<1>3. ASSUME NEW level \in {DEVICE, PERIODIC, SPORADIC}, NEW n \in Nat, OS_Create(level, n)
      PROVE  TInv'
  BY <1>3, CreateType
<1>4. CASE OS_Terminate
  BY <1>4, TerminateType
<1>5. CASE OS_Yield
  BY <1>5, YieldType
<1>6. CASE UNCHANGED vars
  BY <1>6 DEF vars, TInv, TypeOK, RunsLive, clock, Live, LiveSlots, FreeSlots
<1> QED
  BY <1>1, <1>2, <1>3, <1>4, <1>5, <1>6 DEF Next

\* Type correctness, for every table size, plan, set of names and rates: the ring
\* indexes never leave their arrays and the plan index never leaves the plan.
THEOREM TypeCorrect == Spec => []TypeOK
<1>1. TInv => TypeOK
  BY DEF TInv
<1> QED
  BY <1>1, TInvInit, TInvStep, PTL DEF Spec

-----------------------------------------------------------------------------
(* Rings: what the operations do to the window.                            *)

LEMMA PositionIs ==
  ASSUME NEW q \in Queue, NEW k \in 0 .. MAXPROCESS
  PROVE  Position(q, k) = IF q.idx + k < MAXPROCESS THEN q.idx + k
                          ELSE q.idx + k - MAXPROCESS
<1>1. q.idx \in 0 .. MAXPROCESS - 1
  BY DEF Queue, Slots
<1>2. \A x \in 0 .. 2 * MAXPROCESS - 1 :
        x % MAXPROCESS = IF x < MAXPROCESS THEN x ELSE x - MAXPROCESS
  OBVIOUS
<1> DEFINE x == q.idx + k
<1>3. x \in 0 .. 2 * MAXPROCESS - 1
  BY <1>1
<1> HIDE DEF x
<1>4. x % MAXPROCESS = IF x < MAXPROCESS THEN x ELSE x - MAXPROCESS
  BY <1>2, <1>3
<1>5. Position(q, k) = x % MAXPROCESS
  BY DEF Position, x
<1>6. Position(q, k) = IF x < MAXPROCESS THEN x ELSE x - MAXPROCESS
  BY <1>4, <1>5
<1> QED
  BY <1>1, <1>6 DEF x

\* Two places of a window are different slots.
LEMMA PositionsDiffer ==
  ASSUME NEW q \in Queue, NEW j \in 0 .. MAXPROCESS - 1, NEW k \in 0 .. MAXPROCESS - 1,
         Position(q, j) = Position(q, k)
  PROVE  j = k
<1>1. q.idx \in 0 .. MAXPROCESS - 1
  BY DEF Queue, Slots
<1> QED
  BY <1>1, PositionIs

\* The first place, and the places of a ring whose index has moved on by one.
LEMMA PositionFirst ==
  ASSUME NEW q \in Queue
  PROVE  Position(q, 0) = q.idx
<1>1. 0 \in 0 .. MAXPROCESS /\ q.idx \in 0 .. MAXPROCESS - 1
  BY DEF Queue, Slots
<1> QED
  BY <1>1, PositionIs

LEMMA PositionNext ==
  ASSUME NEW q \in Queue, NEW r \in Queue, r.idx = Position(q, 1),
         NEW k \in 0 .. MAXPROCESS - 1
  PROVE  Position(r, k) = Position(q, k + 1)
<1>1. q.idx \in 0 .. MAXPROCESS - 1 /\ r.idx \in 0 .. MAXPROCESS - 1
  BY DEF Queue, Slots
<1>2. 1 \in 0 .. MAXPROCESS /\ k \in 0 .. MAXPROCESS /\ k + 1 \in 0 .. MAXPROCESS
  OBVIOUS
<1>3. r.idx = IF q.idx + 1 < MAXPROCESS THEN q.idx + 1 ELSE q.idx + 1 - MAXPROCESS
  BY <1>2, PositionIs
<1>4. Position(r, k) = IF r.idx + k < MAXPROCESS THEN r.idx + k ELSE r.idx + k - MAXPROCESS
  BY <1>2, PositionIs
<1>5. Position(q, k + 1) = IF q.idx + (k + 1) < MAXPROCESS THEN q.idx + (k + 1)
                           ELSE q.idx + (k + 1) - MAXPROCESS
  BY <1>2, PositionIs
<1> QED
  BY <1>1, <1>3, <1>4, <1>5

LEMMA EnqueueWindow ==
  ASSUME NEW q \in Queue, Filled(q), q.length < MAXPROCESS, NEW pid \in Nat, pid # INVALIDPID
  PROVE  /\ Filled(Enqueue(q, pid))
         /\ Enqueue(q, pid).length = q.length + 1
         /\ q.length > 0 => Front(Enqueue(q, pid)) = Front(q)
         /\ \A k \in Slots : Enqueue(q, pid).buf[k] \in {q.buf[k], pid}
<1> DEFINE r == Enqueue(q, pid)
<1>1. q.length \in Nat /\ q.idx \in Slots /\ q.buf \in [Slots -> Nat]
  BY DEF Queue, Words
<1>2. (q.length + 1) % UMOD = q.length + 1
  BY <1>1
<1>3. r = [buf |-> [q.buf EXCEPT ![Position(q, q.length)] = pid], idx |-> q.idx,
           length |-> q.length + 1]
  BY <1>2 DEF Enqueue, Queue
<1> HIDE DEF r
<1>4. \A k \in Int : Position(r, k) = Position(q, k)
  BY <1>3 DEF Position
<1>5. ASSUME NEW k \in 0 .. r.length - 1
      PROVE  /\ k < q.length => r.buf[Position(r, k)] = q.buf[Position(q, k)]
             /\ k = q.length => r.buf[Position(r, k)] = pid
  <2>1. k \in 0 .. MAXPROCESS - 1 /\ q.length \in 0 .. MAXPROCESS - 1
    BY <1>1, <1>3
  <2>2. Position(q, k) \in Slots
    BY <2>1, QueueTypes
  <2>3. k # q.length => Position(q, k) # Position(q, q.length)
    BY <2>1, PositionsDiffer
  <2> QED
    BY <1>1, <1>3, <1>4, <2>1, <2>2, <2>3
<1>6. Filled(r)
  BY <1>1, <1>3, <1>5 DEF Filled
<1>7. q.length > 0 => Front(r) = Front(q)
  <2>1. Position(q, 0) = q.idx
    BY PositionFirst
  <2> QED
    BY <1>1, <1>3, <1>4, <1>5, <2>1 DEF Front
<1> QED
  BY <1>1, <1>3, <1>6, <1>7 DEF r

LEMMA DequeueWindow ==
  ASSUME NEW q \in Queue, Filled(q), q.length > 0
  PROVE  /\ Filled(Dequeue(q))
         /\ \A k \in Slots : Dequeue(q).buf[k] \in {q.buf[k], INVALIDPID}
<1> DEFINE r == Dequeue(q)
<1>1. q.length \in Nat /\ q.idx \in Slots /\ q.buf \in [Slots -> Nat]
  BY DEF Queue, Words
<1>2. (q.length - 1) % UMOD = q.length - 1
  BY <1>1 DEF Filled
<1>3. r = [buf |-> [q.buf EXCEPT ![q.idx] = INVALIDPID], idx |-> Position(q, 1),
           length |-> q.length - 1]
  BY <1>2 DEF Dequeue
<1> HIDE DEF r
<1>4. ASSUME NEW k \in 0 .. r.length - 1
      PROVE  r.buf[Position(r, k)] = q.buf[Position(q, k + 1)]
  <2>1. k \in 0 .. MAXPROCESS - 1 /\ k + 1 \in 0 .. MAXPROCESS - 1
    BY <1>1, <1>3 DEF Filled
  <2>2. r \in Queue
    BY QueueTypes DEF r, INVALIDPID
  <2>3. Position(r, k) = Position(q, k + 1)
    BY <1>3, <2>1, <2>2, PositionNext
  <2>4. Position(q, 0) = q.idx /\ Position(q, k + 1) # Position(q, 0)
    <3>1. 0 \in 0 .. MAXPROCESS - 1 /\ k + 1 # 0
      BY <2>1
    <3> QED
      BY <2>1, <3>1, PositionFirst, PositionsDiffer
  <2>5. Position(q, k + 1) \in Slots
    BY <2>1, QueueTypes
  <2> QED
    BY <1>1, <1>3, <2>3, <2>4, <2>5
<1>5. Filled(r)
  BY <1>1, <1>3, <1>4 DEF Filled
<1> QED
  BY <1>1, <1>3, <1>5 DEF r

LEMMA RotateWindow ==
  ASSUME NEW q \in Queue, Filled(q), q.length > 0
  PROVE  /\ Filled(Rotate(q))
         /\ Rotate(q).length = q.length
         /\ \A k \in Slots : Rotate(q).buf[k] \in {q.buf[k], Front(q)}
<1> DEFINE r == Rotate(q)
<1>1. q.length \in Nat /\ q.idx \in Slots /\ q.buf \in [Slots -> Nat]
  BY DEF Queue, Words
<1>2. r = [buf |-> [q.buf EXCEPT ![Position(q, q.length)] = Front(q)],
           idx |-> Position(q, 1), length |-> q.length]
  BY DEF Rotate, Queue
<1>3. r \in Queue
  BY QueueTypes DEF INVALIDPID
<1> HIDE DEF r
<1>4. Front(q) # INVALIDPID
  <2>1. Position(q, 0) = q.idx
    BY PositionFirst
  <2> QED
    BY <1>1, <2>1 DEF Filled, Front
<1>5. ASSUME NEW k \in 0 .. q.length - 1
      PROVE  r.buf[Position(r, k)] # INVALIDPID
  <2>1. k \in 0 .. MAXPROCESS - 1 /\ k + 1 \in 0 .. MAXPROCESS /\ 1 \in 0 .. MAXPROCESS
    BY <1>1 DEF Filled
  <2>2. Position(r, k) = Position(q, k + 1)
    BY <1>2, <1>3, <2>1, PositionNext
  <2>3. Position(q, k + 1) \in Slots
    BY <2>1, QueueTypes
  <2>4. k + 1 < q.length => q.buf[Position(q, k + 1)] # INVALIDPID
    BY <1>1 DEF Filled
  <2>5. k + 1 = q.length => r.buf[Position(q, k + 1)] = Front(q)
    BY <1>1, <1>2, <2>3
  <2>6. r.buf[Position(q, k + 1)] \in {q.buf[Position(q, k + 1)], Front(q)}
    BY <1>1, <1>2, <2>3
  <2> QED
    BY <1>1, <1>4, <2>2, <2>4, <2>5, <2>6
<1>6. Filled(r)
  BY <1>1, <1>2, <1>5 DEF Filled
<1> QED
  BY <1>1, <1>2, <1>6 DEF r

\* The ranks of the devices that are due are 0 .. Cardinality(due) - 1.
LEMMA Ranks ==
  ASSUME NEW due \in SUBSET Slots
  PROVE  /\ \A i \in due : Rank(due, i) \in 0 .. Cardinality(due) - 1
         /\ \A r \in 0 .. Cardinality(due) - 1 : \E i \in due : Rank(due, i) = r
<1> DEFINE Before(i) == {j \in due : j < i}
           c == Cardinality(due)
           R == 0 .. c - 1
<1>1. IsFiniteSet(due) /\ c \in Nat
  BY SlotSets
<1>2. ASSUME NEW i \in due
      PROVE  IsFiniteSet(Before(i)) /\ Cardinality(Before(i)) \in Nat
  <2>1. Before(i) \in SUBSET due
    OBVIOUS
  <2> HIDE DEF Before
  <2> QED
    BY <1>1, <2>1, FS_Subset, FS_CardinalityType
<1>3. ASSUME NEW T, NEW S, IsFiniteSet(S), T \subseteq S, NEW x \in S, x \notin T
      PROVE  Cardinality(T) < Cardinality(S)
  <2>1. Cardinality(T) <= Cardinality(S) /\ Cardinality(T) # Cardinality(S) /\ IsFiniteSet(T)
    BY <1>3, FS_Subset
  <2> QED
    BY <1>3, <2>1, FS_CardinalityType
<1>4. ASSUME NEW i \in due PROVE Rank(due, i) \in R
  <2>1. Before(i) \subseteq due /\ i \notin Before(i)
    BY DEF Slots
  <2>2. Cardinality(Before(i)) < c
    <3> HIDE DEF Before
    <3> QED
      BY <1>1, <1>3, <2>1
  <2>3. Rank(due, i) = Cardinality(Before(i))
    BY DEF Rank
  <2> HIDE DEF Before, c
  <2> QED
    BY <1>1, <1>2, <2>2, <2>3
<1>5. ASSUME NEW i \in due, NEW j \in due, i < j PROVE Rank(due, i) < Rank(due, j)
  <2>0. \A k \in due : k \in Int
    BY DEF Slots
  <2>1. Before(i) \subseteq Before(j) /\ i \in Before(j) /\ i \notin Before(i)
    <3>1. i \in Before(j) /\ i \notin Before(i)
      BY <1>5, <2>0
    <3>2. ASSUME NEW k \in due, k < i PROVE k < j
      BY <1>5, <2>0, <3>2
    <3> QED
      BY <3>1, <3>2
  <2>2. Cardinality(Before(i)) < Cardinality(Before(j))
    <3> HIDE DEF Before
    <3> QED
      BY <1>2, <1>3, <2>1
  <2> QED
    BY <2>2 DEF Rank
<1> DEFINE f == [i \in due |-> Rank(due, i)]
<1>6. f \in [due -> R]
  BY <1>4
<1>7. ASSUME NEW i \in due, NEW j \in due, f[i] = f[j] PROVE i = j
  <2>1. i \in Nat /\ j \in Nat /\ Rank(due, i) \in Nat /\ Rank(due, j) \in Nat
    BY <1>4 DEF Slots
  <2>2. Rank(due, i) = Rank(due, j)
    BY <1>7
  <2> QED
    BY <1>5, <2>1, <2>2
<1>8. f \in Injection(due, R)
  <2> HIDE DEF f, R
  <2> QED
    BY <1>6, <1>7 DEF Injection, IsInjective
<1>9. IsFiniteSet(R) /\ Cardinality(R) = c
  <2> HIDE DEF c
  <2>1. 0 \in Int /\ c - 1 \in Int
    BY <1>1
  <2>2. Cardinality(R) = IF 0 > c - 1 THEN 0 ELSE c - 1 - 0 + 1
    BY <2>1, FS_Interval
  <2> QED
    BY <1>1, <2>1, <2>2, FS_Interval
<1>10. f \in Surjection(due, R)
  <2> HIDE DEF f, R
  <2> QED
    BY <1>8, <1>9, FS_Injection
<1>11. \A r \in R : \E i \in due : f[i] = r
  <2> HIDE DEF f, R
  <2> QED
    BY <1>10 DEF Surjection
<1> QED
  BY <1>4, <1>11

\* The places of a queue of devices once the devices that are due have joined it.
LEMMA EnqueueDuePlaces ==
  ASSUME NEW q \in Queue, q.length <= MAXPROCESS, NEW due \in SUBSET Slots,
         NEW procs \in [Slots -> Process],
         due # {} => q.length + Cardinality(due) <= MAXPROCESS
  PROVE  /\ EnqueueDue(q, due, procs).idx = q.idx
         /\ EnqueueDue(q, due, procs).length = q.length + Cardinality(due)
         /\ EnqueueDue(q, due, procs).length <= MAXPROCESS
         /\ \A k \in Int : Position(EnqueueDue(q, due, procs), k) = Position(q, k)
         /\ \A k \in 0 .. q.length - 1 :
              EnqueueDue(q, due, procs).buf[Position(q, k)] = q.buf[Position(q, k)]
         /\ \A k \in q.length .. q.length + Cardinality(due) - 1 : \E i \in due :
              /\ Rank(due, i) = k - q.length
              /\ EnqueueDue(q, due, procs).buf[Position(q, k)] = procs[i].pid
         /\ \A k \in Slots :
              \/ EnqueueDue(q, due, procs).buf[k] = q.buf[k]
              \/ \E i \in due : EnqueueDue(q, due, procs).buf[k] = procs[i].pid
<1> DEFINE c == Cardinality(due)
           takes(i, k) == Position(q, q.length + Rank(due, i)) = k
           buf == [k \in Slots |-> IF \E i \in due : takes(i, k)
                                   THEN procs[CHOOSE i \in due : takes(i, k)].pid
                                   ELSE q.buf[k]]
           r == EnqueueDue(q, due, procs)
<1>1. r = [buf |-> buf, idx |-> q.idx, length |-> q.length + c]
  BY DEF EnqueueDue
<1>2. q.length \in Nat /\ q.idx \in Slots /\ q.buf \in [Slots -> Nat] /\ c \in Nat
  BY SlotSets DEF Queue, Words
<1>3. q.length + c <= MAXPROCESS
  <2>1. CASE due = {}
    BY <1>2, <2>1, FS_EmptySet
  <2>2. CASE due # {}
    BY <2>2
  <2> QED
    BY <2>1, <2>2
<1>4. \A i \in due : Rank(due, i) \in 0 .. c - 1
  BY Ranks
<1>5. \A n \in 0 .. c - 1 : \E i \in due : Rank(due, i) = n
  BY Ranks
<1> HIDE DEF c, r
<1>6. ASSUME NEW k \in Slots
      PROVE  \/ r.buf[k] = q.buf[k] /\ ~\E i \in due : takes(i, k)
             \/ \E i \in due : takes(i, k) /\ r.buf[k] = procs[i].pid
  <2>1. r.buf[k] = IF \E i \in due : takes(i, k)
                   THEN procs[CHOOSE i \in due : takes(i, k)].pid ELSE q.buf[k]
    BY <1>1
  <2> HIDE DEF takes, buf
  <2>2. CASE \E i \in due : takes(i, k)
    <3>1. (CHOOSE i \in due : takes(i, k)) \in due /\ takes(CHOOSE i \in due : takes(i, k), k)
      BY <2>2
    <3> QED
      BY <2>1, <2>2, <3>1
  <2>3. CASE ~\E i \in due : takes(i, k)
    BY <2>1, <2>3
  <2> QED
    BY <2>2, <2>3
<1> HIDE DEF buf
<1>7. ASSUME NEW k \in 0 .. q.length - 1
      PROVE  r.buf[Position(q, k)] = q.buf[Position(q, k)]
  <2>1. k \in 0 .. MAXPROCESS - 1 /\ Position(q, k) \in Slots
    <3>1. k \in 0 .. MAXPROCESS - 1 /\ k \in Nat
      BY <1>2, <1>3
    <3>2. \A j \in Nat : Position(q, j) \in Slots
      BY QueueTypes DEF INVALIDPID
    <3> HIDE DEF takes
    <3> QED
      BY <3>1, <3>2
  <2>2. ASSUME NEW i \in due, takes(i, Position(q, k)) PROVE FALSE
    <3>1. q.length + Rank(due, i) \in 0 .. MAXPROCESS - 1 /\ q.length + Rank(due, i) # k
      BY <1>2, <1>3, <1>4
    <3> QED
      BY <2>1, <2>2, <3>1, PositionsDiffer
  <2> HIDE DEF takes
  <2> QED
    BY <1>6, <2>1, <2>2
<1>8. ASSUME NEW k \in q.length .. q.length + c - 1
      PROVE  \E i \in due : Rank(due, i) = k - q.length /\ r.buf[Position(q, k)] = procs[i].pid
  <2>1. k \in 0 .. MAXPROCESS - 1 /\ k \in Nat /\ k - q.length \in 0 .. c - 1
    BY <1>2, <1>3
  <2>2. Position(q, k) \in Slots
    <3>1. \A j \in Nat : Position(q, j) \in Slots
      BY QueueTypes
    <3> HIDE DEF takes
    <3> QED
      BY <2>1, <3>1
  <2>3. PICK i \in due : Rank(due, i) = k - q.length
    BY <1>5, <2>1
  <2>4. takes(i, Position(q, k))
    BY <1>2, <2>1, <2>3
  <2>5. PICK j \in due : takes(j, Position(q, k)) /\ r.buf[Position(q, k)] = procs[j].pid
    <3> HIDE DEF takes
    <3> QED
      BY <1>6, <2>2, <2>4
  <2>6. q.length + Rank(due, j) \in 0 .. MAXPROCESS - 1 /\ Rank(due, j) \in Nat
    BY <1>2, <1>3, <1>4
  <2>7. PICK m \in 0 .. MAXPROCESS - 1 : m = q.length + Rank(due, j)
    BY <2>6
  <2>8. m = k
    BY <2>1, <2>5, <2>7, PositionsDiffer
  <2>9. Rank(due, j) = k - q.length
    BY <1>2, <2>1, <2>6, <2>7, <2>8
  <2> QED
    BY <2>5, <2>9
<1>9. \A k \in Int : Position(r, k) = Position(q, k)
  BY <1>1 DEF Position
<1>10. \A k \in Slots : r.buf[k] = q.buf[k] \/ \E i \in due : r.buf[k] = procs[i].pid
  <2> HIDE DEF takes
  <2> QED
    BY <1>6
<1>11. r.idx = q.idx /\ r.length = q.length + c /\ r.length <= MAXPROCESS
  BY <1>1, <1>3
<1> HIDE DEF takes
<1> QED
  BY <1>7, <1>8, <1>9, <1>10, <1>11 DEF r, c

LEMMA EnqueueDueWindow ==
  ASSUME NEW q \in Queue, Filled(q), NEW due \in SUBSET Slots, NEW procs \in [Slots -> Process],
         \A i \in due : procs[i].pid # INVALIDPID,
         due # {} => q.length + Cardinality(due) <= MAXPROCESS
  PROVE  /\ Filled(EnqueueDue(q, due, procs))
         /\ q.length > 0 => /\ EnqueueDue(q, due, procs).length > 0
                            /\ Front(EnqueueDue(q, due, procs)) = Front(q)
         /\ \A k \in Slots :
              \/ EnqueueDue(q, due, procs).buf[k] = q.buf[k]
              \/ \E i \in due : EnqueueDue(q, due, procs).buf[k] = procs[i].pid
<1> DEFINE r == EnqueueDue(q, due, procs)
           c == Cardinality(due)
<1>1. q.length \in Nat /\ q.idx \in Slots /\ c \in Nat /\ q.length <= MAXPROCESS
  BY SlotSets DEF Queue, Words, Filled
<1>2. /\ r.idx = q.idx /\ r.length = q.length + c /\ r.length <= MAXPROCESS
      /\ \A k \in Int : Position(r, k) = Position(q, k)
      /\ \A k \in 0 .. q.length - 1 : r.buf[Position(q, k)] = q.buf[Position(q, k)]
      /\ \A k \in q.length .. q.length + c - 1 : \E i \in due :
           Rank(due, i) = k - q.length /\ r.buf[Position(q, k)] = procs[i].pid
      /\ \A k \in Slots : r.buf[k] = q.buf[k] \/ \E i \in due : r.buf[k] = procs[i].pid
  BY <1>1, EnqueueDuePlaces
<1> HIDE DEF r, c
<1>3. ASSUME NEW k \in 0 .. r.length - 1 PROVE r.buf[Position(r, k)] # INVALIDPID
  <2>1. Position(r, k) = Position(q, k)
    BY <1>2
  <2>2. CASE k < q.length
    BY <1>1, <1>2, <2>1, <2>2 DEF Filled
  <2>3. CASE k >= q.length
    <3>1. k \in q.length .. q.length + c - 1
      BY <1>1, <1>2, <2>3
    <3> QED
      BY <1>2, <2>1, <3>1
  <2> QED
    BY <1>1, <2>2, <2>3
<1>4. ASSUME q.length > 0 PROVE r.length > 0 /\ Front(r) = Front(q)
  <2>1. Position(q, 0) = q.idx /\ 0 \in 0 .. q.length - 1
    BY <1>1, <1>4, PositionFirst
  <2> QED
    BY <1>1, <1>2, <1>4, <2>1 DEF Front
<1> QED
  BY <1>2, <1>3, <1>4 DEF Filled, r

-----------------------------------------------------------------------------
(* The process that is switched to.                                        *)

\* Two tables that differ in the yielded flags only.
SameTable(a, b) ==
  /\ b \in [Slots -> Process]
  /\ \A i \in Slots : b[i].pid = a[i].pid /\ b[i].level = a[i].level /\ b[i].n = a[i].n

LEMMA SameTableKeeps ==
  ASSUME NEW a \in [Slots -> Process], NEW b, SameTable(a, b)
  PROVE  /\ LiveSlots(b) = LiveSlots(a)
         /\ \A pc : Table(a, pc) => Table(b, pc)
         /\ \A q, level, pc : Holds(q, level, a, pc) => Holds(q, level, b, pc)
<1>1. LiveSlots(b) = LiveSlots(a)
  BY DEF SameTable, LiveSlots, FreeSlots
<1>2. LiveSlots(a) \subseteq Slots
  BY DEF LiveSlots
<1>3. \A pc : Table(a, pc) => Table(b, pc)
  BY <1>1, <1>2 DEF SameTable, Table
<1>4. \A q, level, pc : Holds(q, level, a, pc) => Holds(q, level, b, pc)
  BY <1>1, <1>2 DEF SameTable, Holds
<1> QED
  BY <1>1, <1>3, <1>4

Cleared(procs, i) == [procs EXCEPT ![i].yielded = FALSE]
Raised(procs, i) == [procs EXCEPT ![i].yielded = TRUE]

LEMMA SetFlag ==
  ASSUME NEW procs \in [Slots -> Process], NEW i \in Slots
  PROVE  /\ SameTable(procs, Cleared(procs, i)) /\ SameTable(procs, Raised(procs, i))
         /\ ~Cleared(procs, i)[i].yielded
         /\ \A j \in Slots \ {i} :
              /\ Cleared(procs, i)[j].yielded <=> procs[j].yielded
              /\ Raised(procs, i)[j].yielded <=> procs[j].yielded
<1>1. ASSUME NEW b \in BOOLEAN, NEW new, new = [procs EXCEPT ![i].yielded = b]
      PROVE  /\ SameTable(procs, new)
             /\ new[i].yielded = b
             /\ \A j \in Slots \ {i} : new[j] = procs[j]
  <2>1. new \in [Slots -> Process]
    BY <1>1, SetYielded
  <2>2. \A j \in Slots : /\ new[j].pid = procs[j].pid
                         /\ new[j].level = procs[j].level
                         /\ new[j].n = procs[j].n
    BY <1>1 DEF Process
  <2>3. new[i].yielded = b /\ \A j \in Slots \ {i} : new[j] = procs[j]
    BY <1>1 DEF Process
  <2> QED
    BY <2>1, <2>2, <2>3 DEF SameTable
<1>2. Cleared(procs, i) = [procs EXCEPT ![i].yielded = FALSE] /\ FALSE \in BOOLEAN
  BY DEF Cleared
<1>3. Raised(procs, i) = [procs EXCEPT ![i].yielded = TRUE] /\ TRUE \in BOOLEAN
  BY DEF Raised
<1>4. /\ SameTable(procs, Cleared(procs, i))
      /\ Cleared(procs, i)[i].yielded = FALSE
      /\ \A j \in Slots \ {i} : Cleared(procs, i)[j] = procs[j]
  BY <1>1, <1>2, Zenon
<1>5. /\ SameTable(procs, Raised(procs, i))
      /\ \A j \in Slots \ {i} : Raised(procs, i)[j] = procs[j]
  BY <1>1, <1>3, Zenon
<1> QED
  BY <1>4, <1>5

\* What a PID needs to be switched to: if it is that of a SPORADIC process or of a
\* DEVICE, it is at the front of its queue.
Fits(pid, procs, sq, dq) ==
  /\ pid \in Nat \ {INVALIDPID}
  /\ \A i \in LiveSlots(procs) :
       procs[i].pid = pid =>
         /\ procs[i].level = SPORADIC => sq.length > 0 /\ Front(sq) = pid
         /\ procs[i].level = DEVICE => dq.length > 0 /\ Front(dq) = pid /\ pid # current

\* The process that runs after the switch meets HeadsOf, and only its flag may be set.
LEMMA SwitchOutcome ==
  ASSUME TypeOK, NEW procs, Sound(procs), NEW sq, NEW dq, NEW pid, Fits(pid, procs, sq, dq),
         Table(procs, pid_counter), Quiet(procs, current), halted = "no",
         switch_process(pid, procs)
  PROVE  /\ SameTable(procs, processes')
         /\ Quiet(processes', current')
         /\ halted' = "no" => HeadsOf(processes', current', sq, dq)
         /\ halted' \in {"no", "unknown pid"}
<1> DEFINE index == process_index_from_pid(procs, current)
<1>1. procs \in [Slots -> Process] /\ pid \in Nat /\ pid # INVALIDPID
  BY DEF Sound, Fits
<1>2. SameTable(procs, procs)
  BY <1>1 DEF SameTable
<1>3. CASE pid = current
  <2>1. processes' = procs /\ current' = current /\ halted' = "no"
    BY <1>1, <1>3 DEF switch_process
  <2>2. HeadsOf(procs, current, sq, dq)
    BY <1>3 DEF Fits, HeadsOf
  <2> QED
    BY <1>2, <2>1, <2>2
<1>4. CASE pid # current
  <2>1. /\ current' = pid /\ halted' \in {"no", "unknown pid"}
        /\ processes' = IF current = INVALIDPID THEN procs
                        ELSE [procs EXCEPT ![index].yielded = FALSE]
    BY <1>1, <1>4 DEF switch_process
  <2>2. /\ SameTable(procs, processes')
        /\ \A i \in LiveSlots(procs) : ~processes'[i].yielded
    <3>1. CASE current = INVALIDPID
      <4>1. ASSUME NEW i \in LiveSlots(procs), procs[i].yielded PROVE FALSE
        BY <3>1, <4>1 DEF Quiet, LiveSlots, FreeSlots
      <4> QED
        BY <1>2, <2>1, <3>1, <4>1
    <3>2. CASE current # INVALIDPID
      <4>1. index \in LiveSlots(procs) /\ index \in Slots /\ procs[index].pid = current
        BY <1>1, <3>2, CurrentProcessType DEF Sound, LiveSlots, CurrentProcess
      <4> HIDE DEF index
      <4>2. processes' = Cleared(procs, index)
        BY <2>1, <3>2 DEF Cleared
      <4>3. /\ SameTable(procs, processes')
            /\ ~processes'[index].yielded
            /\ \A j \in Slots \ {index} : processes'[j].yielded <=> procs[j].yielded
        BY <1>1, <4>1, <4>2, SetFlag
      <4>4. ASSUME NEW i \in LiveSlots(procs) PROVE ~processes'[i].yielded
        <5>1. i \in Slots
          BY DEF LiveSlots
        <5>2. i # index => ~procs[i].yielded
          BY <4>1 DEF Quiet, Table
        <5> QED
          BY <4>3, <5>1, <5>2
      <4> QED
        BY <4>3, <4>4
    <3> QED
      BY <3>1, <3>2
  <2>3. LiveSlots(processes') = LiveSlots(procs) /\ LiveSlots(procs) \subseteq Slots
    BY <1>1, <2>2, SameTableKeeps DEF LiveSlots
  <2>4. Quiet(processes', current')
    BY <2>2, <2>3 DEF Quiet
  <2>5. HeadsOf(processes', current', sq, dq)
    <3> SUFFICES ASSUME NEW i \in LiveSlots(procs), processes'[i].pid = pid
                 PROVE  /\ processes'[i].level = SPORADIC => sq.length > 0 /\ Front(sq) = pid
                        /\ processes'[i].level = DEVICE =>
                             dq.length > 0 /\ Front(dq) = pid /\ ~processes'[i].yielded
      BY <2>1, <2>3 DEF HeadsOf
    <3>1. procs[i].pid = pid /\ procs[i].level = processes'[i].level
      BY <2>2, <2>3 DEF SameTable
    <3> QED
      BY <2>2, <3>1 DEF Fits
  <2> QED
    BY <2>1, <2>2, <2>4, <2>5
<1> QED
  BY <1>3, <1>4

-----------------------------------------------------------------------------
(* The scheduling decision.                                                *)

\* What a scheduling decision leaves, sq and dq being the queues it leaves.
Decided(procs, sq, dq) ==
  /\ SameTable(procs, processes')
  /\ Quiet(processes', current')
  /\ halted' = "no" => HeadsOf(processes', current', sq, dq)
  /\ halted' \in {"no", "unknown pid", "device queue full"}

\* A PID found for a name of the plan is that of a PERIODIC process.
LEMMA PlanFits ==
  ASSUME NoNameCollision, NEW procs \in [Slots -> Process], Table(procs, pid_counter),
         NEW k \in Plan, NEW sq, NEW dq, pid_from_name(procs, PPP[k]) # INVALIDPID
  PROVE  Fits(pid_from_name(procs, PPP[k]), procs, sq, dq)
<1> DEFINE pid == pid_from_name(procs, PPP[k])
<1>1. PPP[k] \in Int /\ PPP[k] \in PlanNames
  BY NumberTypes DEF PlanNames
<1>2. PICK i \in LiveSlots(procs) : procs[i].n = PPP[k] /\ pid = procs[i].pid
  BY <1>1, PidFromName
<1>3. procs[i].level \notin {SPORADIC, DEVICE}
  <2>1. PPP[k] \notin DeviceRates /\ PPP[k] \notin SporadicNames
    BY <1>1 DEF NoNameCollision
  <2> QED
    BY <1>2, <2>1 DEF Table
<1>4. pid \in Nat
  BY <1>1, PidFromNameType
<1> HIDE DEF pid
<1>5. \A j \in LiveSlots(procs) : procs[j].pid = pid => j = i
  BY <1>2 DEF Table
<1> QED
  BY <1>3, <1>4, <1>5 DEF Fits, pid

LEMMA DispatchOutcome ==
  ASSUME TypeOK, NEW procs, Sound(procs), NEW sq \in Queue, NEW dq, NEW next_pid,
         NEW gave_up \in BOOLEAN,
         Table(procs, pid_counter), Filled(sq), Holds(sq, SPORADIC, procs, pid_counter),
         Quiet(procs, current), halted = "no",
         next_pid # INVALIDPID /\ ~gave_up => Fits(next_pid, procs, sq, dq),
         Dispatch(next_pid, gave_up, procs, sq)
  PROVE  Decided(procs, sq, dq)
<1> DEFINE pid == IF next_pid # INVALIDPID /\ ~gave_up THEN next_pid
                  ELSE IF sq.length = 0 THEN idle_pid ELSE Front(sq)
<1>1. CASE next_pid # INVALIDPID /\ ~gave_up
  <2>1. pid = next_pid
    BY <1>1
  <2> QED
    BY <1>1, <2>1, SwitchOutcome DEF Dispatch, Decided
<1>2. CASE ~(next_pid # INVALIDPID /\ ~gave_up) /\ sq.length = 0
  <2>1. switch_process(idle_pid, procs)
    BY <1>2 DEF Dispatch
  <2>2. Fits(idle_pid, procs, sq, dq)
    <3>1. \A i \in LiveSlots(procs) : procs[i].pid = idle_pid => procs[i].level = IDLE_PRIORITY
      BY DEF Table
    <3>2. idle_pid \in Nat \ {INVALIDPID} /\ IDLE_PRIORITY \notin {SPORADIC, DEVICE}
      BY DEF idle_pid, INVALIDPID, IDLE_PRIORITY, SPORADIC, DEVICE
    <3> QED
      BY <3>1, <3>2 DEF Fits
  <2> QED
    BY <2>1, <2>2, SwitchOutcome DEF Decided
<1>3. CASE ~(next_pid # INVALIDPID /\ ~gave_up) /\ sq.length # 0
  <2>1. switch_process(Front(sq), procs)
    BY <1>3 DEF Dispatch
  <2>2. sq.length \in Nat /\ sq.length > 0 /\ sq.idx \in Slots
    BY <1>3 DEF Queue, Words
  <2>3. Front(sq) \in Nat \ {INVALIDPID}
    <3>1. 0 \in 0 .. sq.length - 1 /\ Position(sq, 0) = sq.idx
      BY <2>2, PositionFirst
    <3>2. Front(sq) \in Nat
      BY QueueTypes DEF INVALIDPID
    <3> QED
      BY <3>1, <3>2 DEF Filled, Front
  <2>4. Fits(Front(sq), procs, sq, dq)
    <3>1. \A i \in LiveSlots(procs) : procs[i].pid = Front(sq) => procs[i].level = SPORADIC
      BY <2>2 DEF Holds, Front
    <3>2. SPORADIC # DEVICE
      BY DEF SPORADIC, DEVICE
    <3> QED
      BY <2>2, <2>3, <3>1, <3>2 DEF Fits
  <2> QED
    BY <2>1, <2>4, SwitchOutcome DEF Decided
<1> QED
  BY <1>1, <1>2, <1>3

LEMMA PeriodicCheckOutcome ==
  ASSUME NoNameCollision, TypeOK, PPP_index # INVALID_IDX,
         NEW t, NEW started, NEW elapsed, NEW procs, Sound(procs), NEW sq \in Queue, NEW dq,
         NEW next_pid, NEW gave_up \in BOOLEAN,
         Table(procs, pid_counter), Filled(sq), Holds(sq, SPORADIC, procs, pid_counter),
         Quiet(procs, current), halted = "no",
         next_pid # INVALIDPID /\ ~gave_up => Fits(next_pid, procs, sq, dq),
         PERIODIC_CHECK(t, started, elapsed, next_pid, gave_up, procs, sq)
  PROVE  sporadic' = sq /\ Decided(procs, sq, dq)
<1>1. sporadic' = sq
  BY DEF PERIODIC_CHECK
<1>2. CASE Dispatch(next_pid, gave_up, procs, sq)
  BY <1>1, <1>2, DispatchOutcome
<1>3. CASE Dispatch(pid_from_name(procs, PPP[NextEntry]), gave_up, procs, sq)
  <2>1. NextEntry \in Plan /\ procs \in [Slots -> Process]
    BY NumberTypes DEF TypeOK, Sound
  <2> DEFINE pid == pid_from_name(procs, PPP[NextEntry])
  <2>2. pid # INVALIDPID => Fits(pid, procs, sq, dq)
    BY <2>1, PlanFits
  <2> HIDE DEF pid
  <2>3. Dispatch(pid, gave_up, procs, sq)
    BY <1>3 DEF pid
  <2> QED
    BY <1>1, <2>2, <2>3, DispatchOutcome
<1> QED
  BY <1>2, <1>3 DEF PERIODIC_CHECK

\* The state that the timer or OS_Yield hands to the scheduler: the process that runs
\* is at the front of its queue, or a DEVICE that has just left it.
Ready(procs, dq) ==
  /\ Sound(procs)
  /\ Table(procs, pid_counter)
  /\ Holds(sporadic, SPORADIC, procs, pid_counter) /\ Filled(sporadic)
  /\ dq \in Queue /\ Holds(dq, DEVICE, procs, pid_counter) /\ Filled(dq)
  /\ Quiet(procs, current)
  /\ \A i \in LiveSlots(procs) :
       procs[i].pid = current =>
         /\ procs[i].level = SPORADIC => sporadic.length > 0 /\ Front(sporadic) = current
         /\ procs[i].level = DEVICE =>
              procs[i].yielded \/ (dq.length > 0 /\ Front(dq) = current)

\* The queue of devices once the devices that are due have joined it.
LEMMA DueOutcome ==
  ASSUME NEW procs, NEW dq, Ready(procs, dq), NEW t, NEW delta,
         DueDevices(t, delta, procs) # {} =>
           dq.length + Cardinality(DueDevices(t, delta, procs)) <= MAXPROCESS
  PROVE  /\ Filled(EnqueueDue(dq, DueDevices(t, delta, procs), procs))
         /\ Holds(EnqueueDue(dq, DueDevices(t, delta, procs), procs), DEVICE, procs, pid_counter)
         /\ dq.length > 0 =>
              /\ EnqueueDue(dq, DueDevices(t, delta, procs), procs).length > 0
              /\ Front(EnqueueDue(dq, DueDevices(t, delta, procs), procs)) = Front(dq)
         /\ EnqueueDue(dq, DueDevices(t, delta, procs), procs) \in Queue
<1> DEFINE due == DueDevices(t, delta, procs)
           q == EnqueueDue(dq, due, procs)
<1>1. due \in SUBSET Slots /\ \A i \in due : i \in LiveSlots(procs) /\ procs[i].level = DEVICE
  BY DEF DueDevices, LiveSlots
<1>2. \A i \in due : procs[i].pid # INVALIDPID
  BY <1>1 DEF LiveSlots, FreeSlots
<1>3. procs \in [Slots -> Process] /\ dq \in Queue /\ Filled(dq)
  BY DEF Ready, Sound
<1>4. due # {} => dq.length + Cardinality(due) <= MAXPROCESS
  OBVIOUS
<1> HIDE DEF due
<1>5. /\ Filled(q)
      /\ dq.length > 0 => q.length > 0 /\ Front(q) = Front(dq)
      /\ \A k \in Slots : q.buf[k] = dq.buf[k] \/ \E i \in due : q.buf[k] = procs[i].pid
  BY <1>1, <1>2, <1>3, <1>4, EnqueueDueWindow
<1>6. q \in Queue
  BY <1>1, <1>3, <1>4, EnqueueDueType
<1> HIDE DEF q
<1>7. ASSUME NEW k \in Slots
      PROVE  /\ q.buf[k] < pid_counter
             /\ \A i \in LiveSlots(procs) : procs[i].pid = q.buf[k] => procs[i].level = DEVICE
  <2>1. CASE q.buf[k] = dq.buf[k]
    BY <2>1 DEF Ready, Holds
  <2>2. ASSUME NEW j \in due, q.buf[k] = procs[j].pid
        PROVE  /\ q.buf[k] < pid_counter
               /\ \A i \in LiveSlots(procs) :
                    procs[i].pid = q.buf[k] => procs[i].level = DEVICE
    BY <1>1, <2>2 DEF Ready, Table
  <2> QED
    BY <1>5, <2>1, <2>2
<1>8. Holds(q, DEVICE, procs, pid_counter)
  BY <1>7 DEF Holds
<1> QED
  BY <1>5, <1>6, <1>8 DEF q, due

LEMMA ReenterOutcome ==
  ASSUME NEW procs, NEW dq, Ready(procs, dq), sporadic \in Queue, NEW gave_up \in BOOLEAN,
         gave_up => sporadic.length > 0
  PROVE  /\ Reenter(sporadic, gave_up) \in Queue
         /\ Filled(Reenter(sporadic, gave_up))
         /\ Holds(Reenter(sporadic, gave_up), SPORADIC, procs, pid_counter)
<1>1. CASE ~gave_up
  BY <1>1 DEF Reenter, Ready
<1>2. CASE gave_up
  <2> DEFINE r == Rotate(sporadic)
  <2>1. r \in Queue
    BY QueueTypes DEF INVALIDPID
  <2>2. Filled(r) /\ \A k \in Slots : r.buf[k] \in {sporadic.buf[k], Front(sporadic)}
    BY <1>2, RotateWindow DEF Ready
  <2> HIDE DEF r
  <2>3. sporadic.idx \in Slots /\ Front(sporadic) = sporadic.buf[sporadic.idx]
    BY DEF Queue, Front
  <2>4. Holds(r, SPORADIC, procs, pid_counter)
    BY <2>2, <2>3 DEF Ready, Holds
  <2> QED
    BY <1>2, <2>1, <2>2, <2>4 DEF Reenter, r
<1> QED
  BY <1>1, <1>2

LEMMA CheckOutcome ==
  ASSUME NoNameCollision, TypeOK, halted = "no", NEW t, NEW procs, NEW dq, Ready(procs, dq),
         check_schedule(t, procs, dq)
  PROVE  /\ Decided(procs, sporadic', device')
         /\ Holds(sporadic', SPORADIC, procs, pid_counter) /\ Filled(sporadic')
         /\ Holds(device', DEVICE, procs, pid_counter) /\ Filled(device')
<1> DEFINE delta == Signed(t - last_change_tick)
           due == DueDevices(t, delta, procs)
           q == EnqueueDue(dq, due, procs)
           elapsed == IF delta < 0 THEN 1 ELSE delta
           OK == /\ Decided(procs, sporadic', q)
                 /\ Holds(sporadic', SPORADIC, procs, pid_counter) /\ Filled(sporadic')
<1>1. procs \in [Slots -> Process] /\ Sound(procs) /\ sporadic \in Queue /\ current \in Nat
  BY DEF Ready, Sound, TypeOK
<1>2. SameTable(procs, procs)
  BY <1>1 DEF SameTable
<1>3. CASE due # {} /\ dq.length + Cardinality(due) > MAXPROCESS
  <2>1. OS_Abort("device queue full", procs) /\ device' = dq
    BY <1>3 DEF check_schedule
  <2> QED
    BY <1>2, <2>1 DEF OS_Abort, Decided, Ready
<1>4. CASE ~(due # {} /\ dq.length + Cardinality(due) > MAXPROCESS)
  <2>1. due # {} => dq.length + Cardinality(due) <= MAXPROCESS
    <3>1. due \in SUBSET Slots
      BY DEF DueDevices, LiveSlots
    <3>2. dq.length \in Nat
      BY DEF Ready, Queue, Words
    <3> HIDE DEF due
    <3> QED
      BY <1>4, <3>1, <3>2, SlotSets
  <2>2. /\ Filled(q) /\ Holds(q, DEVICE, procs, pid_counter) /\ q \in Queue
        /\ dq.length > 0 => q.length > 0 /\ Front(q) = Front(dq)
    <3> HIDE DEF delta
    <3> QED
      BY <2>1, DueOutcome
  <2>3. device' = q
    BY <1>4 DEF check_schedule
  <2>4. \/ q.length > 0 /\ Front(q) # current /\ RunDevice(t, delta, procs, q)
        \/ LAUNCH_CURRENT_PPP(t, procs)
        \/ PPP_index # INVALID_IDX /\ AfterTermination(t, elapsed, procs)
        \/ /\ PPP_index # INVALID_IDX /\ current # INVALIDPID
           /\ \/ DeviceTurn(t, procs)
              \/ SporadicTurn(t, elapsed, procs)
              \/ PeriodicTurn(t, elapsed, procs)
    BY <1>4 DEF check_schedule
  <2> HIDE DEF delta, due, q, elapsed
  <2>5. ASSUME q.length > 0 /\ Front(q) # current /\ RunDevice(t, delta, procs, q)
        PROVE  OK
    <3>1. sporadic' = sporadic /\ switch_process(Front(q), procs)
      BY <2>5 DEF RunDevice
    <3>2. q.length \in Nat /\ q.idx \in Slots /\ Position(q, 0) = q.idx
      BY <2>2, PositionFirst DEF Queue, Words
    <3>3. Front(q) \in Nat \ {INVALIDPID}
      <4>1. 0 \in 0 .. q.length - 1
        BY <2>5, <3>2
      <4>2. Front(q) \in Nat
        BY <2>2, QueueTypes DEF INVALIDPID
      <4> QED
        BY <2>2, <3>2, <4>1, <4>2 DEF Filled, Front
    <3>4. Fits(Front(q), procs, sporadic, q)
      <4>1. \A i \in LiveSlots(procs) : procs[i].pid = Front(q) => procs[i].level = DEVICE
        BY <2>2, <3>2 DEF Holds, Front
      <4>2. SPORADIC # DEVICE
        BY DEF SPORADIC, DEVICE
      <4> QED
        BY <2>5, <3>3, <4>1, <4>2 DEF Fits
    <3>5. Decided(procs, sporadic, q)
      BY <3>1, <3>4, SwitchOutcome DEF Ready, Decided
    <3> QED
      BY <3>1, <3>5 DEF Ready
  <2>6. ASSUME LAUNCH_CURRENT_PPP(t, procs)
        PROVE  OK
    <3> DEFINE pid == pid_from_name(procs, PPP[0])
    <3>1. sporadic' = sporadic /\ Dispatch(pid, FALSE, procs, sporadic)
      BY <2>6 DEF LAUNCH_CURRENT_PPP
    <3>2. pid # INVALIDPID => Fits(pid, procs, sporadic, q)
      BY <1>1, NumberTypes, PlanFits DEF Ready
    <3> HIDE DEF pid
    <3>3. Decided(procs, sporadic, q)
      BY <1>1, <3>1, <3>2, DispatchOutcome DEF Ready
    <3> QED
      BY <3>1, <3>3 DEF Ready
  <2>7. ASSUME PPP_index # INVALID_IDX /\ AfterTermination(t, elapsed, procs)
        PROVE  OK
    <3>1. PERIODIC_CHECK(t, last_change_tick, elapsed, INVALIDPID, FALSE, procs, sporadic)
      BY <2>7 DEF AfterTermination
    <3>2. sporadic' = sporadic /\ Decided(procs, sporadic, q)
      BY <1>1, <2>7, <3>1, PeriodicCheckOutcome DEF Ready
    <3> QED
      BY <3>2 DEF Ready
  <2>8. ASSUME PPP_index # INVALID_IDX, current # INVALIDPID,
               DeviceTurn(t, procs) \/ SporadicTurn(t, elapsed, procs)
                 \/ PeriodicTurn(t, elapsed, procs)
        PROVE  OK
    <3> DEFINE index == process_index_from_pid(procs, current)
               gave_up == CurrentProcess(procs).yielded
    <3>1. /\ index \in LiveSlots(procs) /\ index \in Slots /\ procs[index].pid = current
          /\ CurrentProcess(procs) = procs[index] /\ gave_up \in BOOLEAN
      BY <1>1, <2>8, CurrentProcessType DEF Sound, LiveSlots, CurrentProcess, Process
    <3>2. \A i \in LiveSlots(procs) : procs[i].pid = current => i = index
      BY <3>1 DEF Ready, Table
    <3> HIDE DEF index, gave_up
    <3>3. CASE DeviceTurn(t, procs) /\ gave_up
      <4>1. PICK started, el, pid :
              /\ pid = pid_from_name(procs, PPP[PPP_index])
              /\ PERIODIC_CHECK(t, started, el, pid, FALSE, procs, sporadic)
        BY <3>3 DEF DeviceTurn, gave_up
      <4>2. PPP_index \in Plan
        BY <2>8 DEF TypeOK
      <4>3. pid # INVALIDPID => Fits(pid, procs, sporadic, q)
        BY <1>1, <4>1, <4>2, PlanFits DEF Ready
      <4>4. sporadic' = sporadic /\ Decided(procs, sporadic, q)
        BY <1>1, <2>8, <4>1, <4>3, PeriodicCheckOutcome DEF Ready
      <4> QED
        BY <4>4 DEF Ready
    <3>4. CASE DeviceTurn(t, procs) /\ ~gave_up
      <4>1. /\ processes' = procs /\ current' = current /\ sporadic' = sporadic
            /\ halted' = "no" /\ procs[index].level = DEVICE /\ ~procs[index].yielded
        BY <3>1, <3>4 DEF DeviceTurn, gave_up
      <4>2. dq.length > 0 /\ Front(dq) = current
        BY <3>1, <4>1 DEF Ready
      <4>3. HeadsOf(procs, current, sporadic, q)
        <5>1. SPORADIC # DEVICE
          BY DEF SPORADIC, DEVICE
        <5> QED
          BY <2>2, <3>2, <4>1, <4>2, <5>1 DEF HeadsOf
      <4> QED
        BY <1>2, <4>1, <4>3 DEF Ready, Decided
    <3>5. CASE SporadicTurn(t, elapsed, procs)
      <4>1. sporadic.length > 0 /\ Front(sporadic) = current /\ procs[index].level = SPORADIC
        BY <3>1, <3>5 DEF SporadicTurn, Ready
      <4>2. PERIODIC_CHECK(t, last_change_tick, elapsed, current, gave_up, procs,
                           Reenter(sporadic, gave_up))
        <5>1. sporadic.length # 0
          BY <4>1
        <5> QED
          BY <3>5, <5>1 DEF SporadicTurn, gave_up
      <4> DEFINE sq == Reenter(sporadic, gave_up)
      <4>3. sq \in Queue /\ Filled(sq) /\ Holds(sq, SPORADIC, procs, pid_counter)
        BY <1>1, <3>1, <4>1, ReenterOutcome
      <4>4. ~gave_up => Fits(current, procs, sq, q)
        <5>1. SPORADIC # DEVICE
          BY DEF SPORADIC, DEVICE
        <5> QED
          BY <1>1, <2>8, <3>2, <4>1, <5>1 DEF Reenter, Fits
      <4> HIDE DEF sq
      <4>5. PERIODIC_CHECK(t, last_change_tick, elapsed, current, gave_up, procs, sq)
        BY <4>2 DEF sq
      <4>6. sporadic' = sq /\ Decided(procs, sq, q)
        BY <1>1, <2>8, <3>1, <4>3, <4>4, <4>5, PeriodicCheckOutcome DEF Ready
      <4> QED
        BY <4>3, <4>6
    <3>6. CASE PeriodicTurn(t, elapsed, procs)
      <4>1. /\ procs[index].level \in {PERIODIC, IDLE_PRIORITY}
            /\ PERIODIC_CHECK(t, last_change_tick, elapsed, current, gave_up, procs, sporadic)
        BY <3>1, <3>6 DEF PeriodicTurn, gave_up
      <4>2. Fits(current, procs, sporadic, q)
        <5>1. procs[index].level \notin {SPORADIC, DEVICE}
          BY <4>1 DEF PERIODIC, IDLE_PRIORITY, SPORADIC, DEVICE
        <5> QED
          BY <1>1, <2>8, <3>2, <5>1 DEF Fits
      <4>3. sporadic' = sporadic /\ Decided(procs, sporadic, q)
        BY <1>1, <2>8, <3>1, <4>1, <4>2, PeriodicCheckOutcome DEF Ready
      <4> QED
        BY <4>3 DEF Ready
    <3> QED
      BY <2>8, <3>3, <3>4, <3>5, <3>6
  <2> QED
    BY <2>2, <2>3, <2>4, <2>5, <2>6, <2>7, <2>8
<1> QED
  BY <1>3, <1>4

-----------------------------------------------------------------------------
(* The inductive invariant.                                                *)

LEMMA IInvInit == Init => IInv
<1> SUFFICES ASSUME Init PROVE IInv
  OBVIOUS
<1>1. TInv
  BY TInvInit
<1>2. /\ pid_counter = idle_pid + 1 /\ current = INVALIDPID /\ halted = "no"
      /\ sporadic = EmptyQueue /\ device = EmptyQueue
  BY DEF Init
<1> DEFINE idle == [pid |-> idle_pid, level |-> IDLE_PRIORITY, n |-> 0, yielded |-> FALSE]
<1>3. processes = [[i \in Slots |-> NoProcess] EXCEPT ![0] = idle]
  BY DEF Init
<1>4. LiveSlots(processes) = {0} /\ processes[0] = idle
  <2>1. 0 \in Slots
    BY DEF Slots
  <2>2. processes[0] = idle /\ \A i \in Slots \ {0} : processes[i] = NoProcess
    BY <1>3, <2>1
  <2>3. processes[0].pid # INVALIDPID /\ \A i \in Slots \ {0} : processes[i].pid = INVALIDPID
    BY <2>2 DEF idle_pid, INVALIDPID, NoProcess
  <2> QED
    BY <2>1, <2>2, <2>3 DEF LiveSlots, FreeSlots
<1>5. Table(processes, pid_counter)
  BY <1>2, <1>4 DEF Table, idle_pid, IDLE_PRIORITY, DEVICE, SPORADIC
<1>6. \A level : Holds(EmptyQueue, level, processes, pid_counter)
  BY <1>2, <1>4 DEF Holds, EmptyQueue, idle_pid, INVALIDPID
<1>7. Filled(EmptyQueue)
  BY DEF Filled, EmptyQueue
<1>8. Quiet(processes, current) /\ HeadsOf(processes, current, sporadic, device)
  BY <1>2, <1>4 DEF Quiet, HeadsOf, idle_pid, INVALIDPID
<1> QED
  BY <1>1, <1>2, <1>5, <1>6, <1>7, <1>8 DEF IInv, AssertsHold

\* A scheduling decision, whoever asks for it, restores the invariant.
LEMMA DecidedKeeps ==
  ASSUME NoNameCollision, IInv, halted = "no", TInv', UNCHANGED pid_counter,
         NEW t, NEW procs, NEW dq, Ready(procs, dq), check_schedule(t, procs, dq)
  PROVE  IInv'
<1>1. /\ Decided(procs, sporadic', device')
      /\ Holds(sporadic', SPORADIC, procs, pid_counter) /\ Filled(sporadic')
      /\ Holds(device', DEVICE, procs, pid_counter) /\ Filled(device')
  BY CheckOutcome DEF IInv, TInv
<1>2. procs \in [Slots -> Process] /\ Table(procs, pid_counter)
  BY DEF Ready, Sound
<1>3. /\ Table(processes', pid_counter)
      /\ Holds(sporadic', SPORADIC, processes', pid_counter)
      /\ Holds(device', DEVICE, processes', pid_counter)
  BY <1>1, <1>2, SameTableKeeps DEF Decided
<1>4. Quiet(processes', current') /\ AssertsHold'
      /\ (halted' = "no" => HeadsOf(processes', current', sporadic', device'))
  BY <1>1 DEF Decided, AssertsHold
<1> QED
  BY <1>1, <1>3, <1>4 DEF IInv, Filled, Quiet, Table, Holds, HeadsOf, LiveSlots, FreeSlots

LEMMA SameKeeps ==
  ASSUME IInv, TInv', UNCHANGED <<processes, pid_counter, current, sporadic, device, halted>>
  PROVE  IInv'
BY DEF IInv, Filled, Quiet, Table, Holds, HeadsOf, LiveSlots, FreeSlots, AssertsHold,
       Position, Front

\* OS_Create takes a free slot, and the table keeps its shape.
LEMMA CreatedTable ==
  ASSUME TInv, Table(processes, pid_counter), NEW level \in {DEVICE, PERIODIC, SPORADIC}, NEW n,
         level = DEVICE => n \in DeviceRates, level = SPORADIC => n \in SporadicNames,
         FreeSlots(processes) # {}, AcceptCreate(level, n)
  PROVE  /\ Table(processes', pid_counter') /\ pid_counter' = pid_counter + 1
         /\ \E slot \in FreeSlots(processes) :
              /\ processes'[slot] = [pid |-> pid_counter, level |-> level, n |-> n,
                                     yielded |-> FALSE]
              /\ LiveSlots(processes') = LiveSlots(processes) \union {slot}
              /\ \A i \in LiveSlots(processes) : processes'[i] = processes[i] /\ i # slot
              /\ \A i \in LiveSlots(processes) :
                   processes[i].pid \in Nat /\ processes[i].pid < pid_counter
<1> DEFINE slot == Min(FreeSlots(processes))
           new == [pid |-> pid_counter, level |-> level, n |-> n, yielded |-> FALSE]
<1>1. slot \in FreeSlots(processes) /\ slot \in Slots
  BY MinOfSlots DEF FreeSlots
<1>2. processes' = [processes EXCEPT ![slot] = new] /\ pid_counter' = pid_counter + 1
  BY DEF AcceptCreate
<1>3. /\ processes \in [Slots -> Process] /\ pid_counter \in Nat /\ pid_counter > 1
  BY DEF TInv, TypeOK, Table, idle_pid
<1>4. new.pid = pid_counter /\ new.level = level /\ new.n = n /\ ~new.yielded
  OBVIOUS
<1> HIDE DEF slot, new
<1>5. processes'[slot] = new /\ \A i \in Slots \ {slot} : processes'[i] = processes[i]
  BY <1>1, <1>2, <1>3
<1>6. /\ slot \notin LiveSlots(processes)
      /\ LiveSlots(processes') = LiveSlots(processes) \union {slot}
      /\ LiveSlots(processes) \subseteq Slots
  BY <1>1, <1>3, <1>4, <1>5 DEF LiveSlots, FreeSlots, INVALIDPID
<1>7. \A i \in LiveSlots(processes) : processes'[i] = processes[i] /\ i # slot
  BY <1>5, <1>6
<1>8. \A i \in LiveSlots(processes) : processes[i].pid \in Nat /\ processes[i].pid < pid_counter
  BY <1>3, <1>6 DEF Table, Process
<1>9. Table(processes', pid_counter')
  <2>1. pid_counter' > idle_pid
    BY <1>2, <1>3 DEF idle_pid
  <2>2. \A i, j \in LiveSlots(processes') : processes'[i].pid = processes'[j].pid => i = j
    BY <1>4, <1>5, <1>6, <1>7, <1>8 DEF Table
  <2>3. ASSUME NEW i \in LiveSlots(processes')
        PROVE  /\ processes'[i].pid < pid_counter'
               /\ processes'[i].pid = idle_pid => processes'[i].level = IDLE_PRIORITY
               /\ processes'[i].level = DEVICE => processes'[i].n \in DeviceRates
               /\ processes'[i].level = SPORADIC => processes'[i].n \in SporadicNames
               /\ processes'[i].level = IDLE_PRIORITY => processes'[i].n = 0
    <3>1. CASE i = slot
      <4>1. level # IDLE_PRIORITY /\ idle_pid = 1
        BY DEF IDLE_PRIORITY, DEVICE, PERIODIC, SPORADIC, idle_pid
      <4> QED
        BY <1>2, <1>3, <1>4, <1>5, <3>1, <4>1
    <3>2. CASE i # slot
      <4>1. i \in LiveSlots(processes) /\ processes'[i] = processes[i]
        BY <1>6, <1>7, <3>2
      <4>2. processes[i].pid < pid_counter'
        BY <1>2, <1>3, <1>8, <4>1
      <4> QED
        BY <4>1, <4>2 DEF Table
    <3> QED
      BY <3>1, <3>2
  <2> QED
    BY <2>1, <2>2, <2>3 DEF Table
<1> QED
  BY <1>1, <1>2, <1>5, <1>6, <1>7, <1>8, <1>9 DEF new

LEMMA CreateKeeps ==
  ASSUME IInv, NEW level \in {DEVICE, PERIODIC, SPORADIC}, NEW n \in Nat, OS_Create(level, n),
         level = DEVICE => n \in DeviceRates, level = SPORADIC => n \in SporadicNames
  PROVE  IInv'
<1>1. TInv'
  BY CreateType DEF IInv
<1>2. current' = current /\ device' = device /\ halted' = halted
  BY DEF OS_Create
<1>3. CASE RefuseCreate
  BY <1>1, <1>2, <1>3, SameKeeps DEF RefuseCreate
<1>4. CASE FreeSlots(processes) # {} /\ AcceptCreate(level, n)
  <2>3. /\ processes \in [Slots -> Process] /\ pid_counter \in Nat /\ pid_counter > 1
        /\ sporadic \in Queue /\ current \in Nat
    BY DEF IInv, TInv, TypeOK, Table, idle_pid
  <2> DEFINE new == [pid |-> pid_counter, level |-> level, n |-> n, yielded |-> FALSE]
  <2>4. new.pid = pid_counter /\ new.level = level /\ new.n = n /\ ~new.yielded
    OBVIOUS
  <2>9. Table(processes', pid_counter') /\ pid_counter' = pid_counter + 1
    BY <1>4, CreatedTable DEF IInv
  <2>1. PICK slot \in FreeSlots(processes) :
          /\ processes'[slot] = new
          /\ LiveSlots(processes') = LiveSlots(processes) \union {slot}
          /\ \A i \in LiveSlots(processes) : processes'[i] = processes[i] /\ i # slot
          /\ \A i \in LiveSlots(processes) :
               processes[i].pid \in Nat /\ processes[i].pid < pid_counter
    BY <1>4, CreatedTable DEF IInv
  <2> HIDE DEF new
  <2>2. pid_counter' = pid_counter + 1
    BY <2>9
  <2>5. processes'[slot] = new
    BY <2>1
  <2>6. LiveSlots(processes') = LiveSlots(processes) \union {slot}
    BY <2>1
  <2>7. \A i \in LiveSlots(processes) : processes'[i] = processes[i] /\ i # slot
    BY <2>1
  <2>8. \A i \in LiveSlots(processes) : processes[i].pid \in Nat /\ processes[i].pid < pid_counter
    BY <2>1
  <2>10. ASSUME NEW q \in Queue, NEW l, Holds(q, l, processes, pid_counter)
         PROVE  Holds(q, l, processes', pid_counter')
    <3>1. \A k \in Slots : q.buf[k] \in Nat /\ q.buf[k] < pid_counter
      BY <2>10 DEF Queue, Holds
    <3>2. ASSUME NEW k \in Slots
          PROVE  /\ q.buf[k] < pid_counter'
                 /\ \A i \in LiveSlots(processes') :
                      processes'[i].pid = q.buf[k] => processes'[i].level = l
      <4>1. q.buf[k] < pid_counter' /\ q.buf[k] # pid_counter
        BY <2>2, <2>3, <3>1
      <4>2. processes'[slot].pid # q.buf[k]
        BY <2>4, <2>5, <4>1
      <4>3. \A i \in LiveSlots(processes) : processes[i].pid = q.buf[k] => processes[i].level = l
        BY <2>10 DEF Holds
      <4> QED
        BY <2>6, <2>7, <4>1, <4>2, <4>3
    <3> QED
      BY <3>2 DEF Holds
  <2>11. Holds(device, DEVICE, processes', pid_counter')
    BY <2>10 DEF IInv, TInv, TypeOK
  <2>12. Holds(sporadic, SPORADIC, processes', pid_counter')
    BY <2>3, <2>10 DEF IInv
  <2>13. ASSUME halted = "no" PROVE current # pid_counter
    <3>1. CASE current = INVALIDPID
      BY <2>3, <3>1 DEF INVALIDPID
    <3>2. CASE current # INVALIDPID
      <4>1. PICK i \in LiveSlots(processes) : processes[i].pid = current
        BY <2>13, <3>2 DEF IInv, TInv, RunsLive, Live
      <4> QED
        BY <2>3, <2>8, <4>1
    <3> QED
      BY <3>1, <3>2
  <2>14. Quiet(processes', current)
    BY <2>4, <2>5, <2>6, <2>7 DEF IInv, Quiet
  <2>15. /\ Filled(sporadic') /\ Holds(sporadic', SPORADIC, processes', pid_counter')
         /\ sporadic.length > 0 => sporadic'.length > 0 /\ Front(sporadic') = Front(sporadic)
    <3>1. CASE sporadic' = sporadic
      BY <2>12, <3>1 DEF IInv, Filled, Position, Front
    <3>2. CASE level = SPORADIC /\ sporadic.length < MAXPROCESS
                 /\ sporadic' = Enqueue(sporadic, pid_counter)
      <4> DEFINE r == Enqueue(sporadic, pid_counter)
      <4>1. sporadic.length \in Nat /\ Filled(sporadic) /\ pid_counter # INVALIDPID
        BY <2>3 DEF IInv, Queue, Words, INVALIDPID
      <4>2. /\ Filled(r) /\ r.length = sporadic.length + 1
            /\ sporadic.length > 0 => Front(r) = Front(sporadic)
            /\ \A k \in Slots : r.buf[k] \in {sporadic.buf[k], pid_counter}
        BY <2>3, <3>2, <4>1, EnqueueWindow
      <4> HIDE DEF r
      <4>3. \A i \in LiveSlots(processes') :
              processes'[i].pid = pid_counter => processes'[i].level = SPORADIC
        BY <2>3, <2>4, <2>5, <2>6, <2>7, <2>8, <3>2
      <4>4. pid_counter < pid_counter'
        BY <2>2, <2>3
      <4>5. Holds(r, SPORADIC, processes', pid_counter')
        BY <2>12, <4>2, <4>3, <4>4 DEF Holds
      <4>6. sporadic' = r /\ r.length > 0
        BY <3>2, <4>1, <4>2 DEF r
      <4> QED
        BY <4>2, <4>5, <4>6 DEF Filled, Position, Front
    <3>3. sporadic.length \in Nat
      BY <2>3 DEF Queue, Words
    <3> QED
      BY <1>4, <3>1, <3>2, <3>3 DEF AcceptCreate
  <2>16. ASSUME halted = "no" PROVE HeadsOf(processes', current, sporadic', device)
    <3> SUFFICES ASSUME NEW i \in LiveSlots(processes'), processes'[i].pid = current
                 PROVE  /\ processes'[i].level = SPORADIC =>
                             sporadic'.length > 0 /\ Front(sporadic') = current
                        /\ processes'[i].level = DEVICE =>
                             device.length > 0 /\ Front(device) = current /\ ~processes'[i].yielded
      BY DEF HeadsOf
    <3>1. i \in LiveSlots(processes) /\ processes'[i] = processes[i]
      BY <2>4, <2>5, <2>6, <2>7, <2>13, <2>16
    <3> QED
      BY <2>15, <2>16, <3>1 DEF IInv, HeadsOf
  <2> QED
    BY <1>1, <1>2, <2>9, <2>11, <2>14, <2>15, <2>16
       DEF IInv, AssertsHold
<1> QED
  BY <1>3, <1>4 DEF OS_Create

LEMMA TerminateKeeps ==
  ASSUME IInv, OS_Terminate
  PROVE  IInv'
<1> DEFINE me == CurrentProcess(processes)
           index == process_index_from_pid(processes, current)
<1>1. TInv'
  BY TerminateType DEF IInv
<1>2. /\ processes \in [Slots -> Process] /\ current # INVALIDPID /\ halted = "no"
      /\ sporadic \in Queue /\ device \in Queue /\ pid_counter \in Nat /\ pid_counter > 0
  <2>1. current # INVALIDPID /\ halted = "no"
    BY DEF OS_Terminate, Calls
  <2>2. /\ processes \in [Slots -> Process] /\ sporadic \in Queue /\ device \in Queue
        /\ pid_counter \in Nat \ {0}
    BY DEF IInv, TInv, TypeOK
  <2> QED
    BY <2>1, <2>2
<1>3. /\ index \in LiveSlots(processes) /\ index \in Slots
      /\ processes[index].pid = current /\ me = processes[index]
  <2>1. Live(processes, current)
    BY <1>2 DEF IInv, TInv, RunsLive
  <2> QED
    BY <1>2, <2>1, CurrentProcessType DEF LiveSlots, CurrentProcess
<1> HIDE DEF me, index
<1>4. /\ me.level = SPORADIC => sporadic.length > 0 /\ Front(sporadic) = current
      /\ me.level = DEVICE => device.length > 0 /\ Front(device) = current
  BY <1>2, <1>3 DEF IInv, HeadsOf
<1>5. /\ processes' = [processes EXCEPT ![index].pid = INVALIDPID]
      /\ current' = INVALIDPID /\ halted' = "no" /\ pid_counter' = pid_counter
      /\ \/ device' = device
         \/ me.level = DEVICE /\ device' = Dequeue(device)
      /\ \/ sporadic' = sporadic
         \/ me.level = SPORADIC /\ sporadic' = Dequeue(sporadic)
  BY <1>2, <1>4 DEF OS_Terminate, me, index
<1>6. /\ processes'[index].pid = INVALIDPID
      /\ \A i \in Slots \ {index} : processes'[i] = processes[i]
  BY <1>2, <1>3, <1>5 DEF Process
<1>7. /\ LiveSlots(processes') = LiveSlots(processes) \ {index}
      /\ \A i \in LiveSlots(processes') : processes'[i] = processes[i]
      /\ LiveSlots(processes) \subseteq Slots
  BY <1>6 DEF LiveSlots, FreeSlots
<1>8. Table(processes', pid_counter)
  BY <1>7 DEF IInv, Table
<1>9. \A q, level : Holds(q, level, processes, pid_counter) => Holds(q, level, processes', pid_counter)
  BY <1>7 DEF Holds
<1>10. ASSUME NEW q \in Queue, NEW level, Filled(q), q.length > 0,
              Holds(q, level, processes, pid_counter)
       PROVE  Filled(Dequeue(q)) /\ Holds(Dequeue(q), level, processes', pid_counter)
  <2> DEFINE r == Dequeue(q)
  <2>1. Filled(r) /\ \A k \in Slots : r.buf[k] \in {q.buf[k], INVALIDPID}
    BY <1>10, DequeueWindow
  <2> HIDE DEF r
  <2>2. /\ INVALIDPID < pid_counter
        /\ \A i \in LiveSlots(processes') : processes'[i].pid # INVALIDPID
    BY <1>2 DEF INVALIDPID, LiveSlots, FreeSlots
  <2>3. Holds(q, level, processes', pid_counter)
    BY <1>9, <1>10
  <2>4. Holds(r, level, processes', pid_counter)
    BY <2>1, <2>2, <2>3 DEF Holds
  <2> QED
    BY <2>1, <2>4 DEF r
<1>11. Filled(device') /\ Holds(device', DEVICE, processes', pid_counter)
  <2>1. CASE device' = device
    BY <1>9, <2>1 DEF IInv, Filled, Position
  <2>2. CASE me.level = DEVICE /\ device' = Dequeue(device)
    BY <1>2, <1>4, <1>10, <2>2 DEF IInv, Filled, Position
  <2> QED
    BY <1>5, <2>1, <2>2
<1>12. Filled(sporadic') /\ Holds(sporadic', SPORADIC, processes', pid_counter)
  <2>1. CASE sporadic' = sporadic
    BY <1>9, <2>1 DEF IInv, Filled, Position
  <2>2. CASE me.level = SPORADIC /\ sporadic' = Dequeue(sporadic)
    BY <1>2, <1>4, <1>10, <2>2 DEF IInv, Filled, Position
  <2> QED
    BY <1>5, <2>1, <2>2
<1>13. Quiet(processes', INVALIDPID)
  <2>1. ASSUME NEW i \in LiveSlots(processes'), processes'[i].yielded PROVE FALSE
    <3>1. i \in LiveSlots(processes) /\ i # index /\ processes[i].yielded
      BY <1>7, <2>1
    <3>2. processes[i].pid = current
      BY <3>1 DEF IInv, Quiet
    <3> QED
      BY <1>3, <3>1, <3>2 DEF IInv, Table
  <2> QED
    BY <2>1 DEF Quiet
<1>14. HeadsOf(processes', INVALIDPID, sporadic', device')
  BY DEF HeadsOf, LiveSlots, FreeSlots
<1> QED
  BY <1>1, <1>5, <1>8, <1>11, <1>12, <1>13, <1>14
     DEF IInv, AssertsHold

LEMMA YieldKeeps ==
  ASSUME NoNameCollision, IInv, OS_Yield
  PROVE  IInv'
<1> DEFINE me == CurrentProcess(processes)
           index == process_index_from_pid(processes, current)
           procs == Raised(processes, index)
           dq == IF me.level = DEVICE THEN Dequeue(device) ELSE device
<1>1. TInv' /\ pid_counter' = pid_counter
  BY YieldType DEF IInv, OS_Yield
<1>2. /\ processes \in [Slots -> Process] /\ current # INVALIDPID /\ halted = "no"
      /\ sporadic \in Queue /\ device \in Queue /\ pid_counter \in Nat /\ pid_counter > 0
      /\ Live(processes, current)
  BY DEF IInv, TInv, TypeOK, RunsLive, OS_Yield, Calls
<1>3. /\ index \in LiveSlots(processes) /\ index \in Slots
      /\ processes[index].pid = current /\ me = processes[index]
  BY <1>2, CurrentProcessType DEF LiveSlots, CurrentProcess
<1>4. \/ UNCHANGED <<processes, current, sporadic, device, clock, halted>>
      \/ check_schedule(tick, procs, dq)
  BY DEF OS_Yield, Raised
<1> HIDE DEF me, index
<1>5. CASE UNCHANGED <<processes, current, sporadic, device, clock, halted>>
  BY <1>1, <1>5, SameKeeps
<1>6. CASE check_schedule(tick, procs, dq)
  <2>1. /\ SameTable(processes, procs)
        /\ \A j \in Slots \ {index} : procs[j].yielded <=> processes[j].yielded
    BY <1>2, <1>3, SetFlag
  <2>2. procs[index].yielded = TRUE
    BY <1>2, <1>3 DEF Raised, Process
  <2> HIDE DEF procs
  <2>3. /\ LiveSlots(procs) = LiveSlots(processes) /\ LiveSlots(procs) \subseteq Slots
        /\ Table(procs, pid_counter)
        /\ \A q, level : Holds(q, level, processes, pid_counter)
                           => Holds(q, level, procs, pid_counter)
    BY <1>2, <2>1, SameTableKeeps DEF IInv, LiveSlots
  <2>4. \A i \in LiveSlots(procs) : procs[i].pid = processes[i].pid
                                    /\ procs[i].level = processes[i].level
    BY <2>1, <2>3 DEF SameTable
  <2>5. Sound(procs)
    BY <1>2, <2>1, <2>3, <2>4 DEF Sound, Live, SameTable
  <2>6. Quiet(procs, current)
    <3>1. ASSUME NEW i \in LiveSlots(procs), procs[i].yielded PROVE procs[i].pid = current
      <4>1. CASE i = index
        BY <1>3, <2>4, <4>1
      <4>2. CASE i # index
        BY <2>1, <2>3, <2>4, <3>1, <4>2 DEF IInv, Quiet
      <4> QED
        BY <4>1, <4>2
    <3> QED
      BY <3>1 DEF Quiet
  <2>7. /\ me.level = DEVICE => device.length > 0
        /\ me.level = SPORADIC => sporadic.length > 0 /\ Front(sporadic) = current
    BY <1>2, <1>3 DEF IInv, HeadsOf
  <2>8. dq \in Queue /\ Filled(dq) /\ Holds(dq, DEVICE, procs, pid_counter)
    <3>1. CASE me.level # DEVICE
      BY <1>2, <2>3, <3>1 DEF IInv
    <3>2. CASE me.level = DEVICE
      <4> DEFINE r == Dequeue(device)
      <4>1. Filled(r) /\ \A k \in Slots : r.buf[k] \in {device.buf[k], INVALIDPID}
        BY <1>2, <2>7, <3>2, DequeueWindow DEF IInv
      <4>2. r \in Queue
        BY <1>2, QueueTypes DEF INVALIDPID
      <4> HIDE DEF r
      <4>3. /\ INVALIDPID < pid_counter
            /\ \A i \in LiveSlots(procs) : procs[i].pid # INVALIDPID
        BY <1>2 DEF INVALIDPID, LiveSlots, FreeSlots
      <4>4. Holds(device, DEVICE, procs, pid_counter)
        BY <2>3 DEF IInv
      <4>5. Holds(r, DEVICE, procs, pid_counter)
        BY <4>1, <4>3, <4>4 DEF Holds
      <4> QED
        BY <3>2, <4>1, <4>2, <4>5 DEF r
    <3> QED
      BY <3>1, <3>2
  <2> HIDE DEF dq
  <2>9. ASSUME NEW i \in LiveSlots(procs), procs[i].pid = current
        PROVE  /\ procs[i].level = SPORADIC => sporadic.length > 0 /\ Front(sporadic) = current
               /\ procs[i].yielded
    <3>1. i = index
      BY <1>3, <2>3, <2>4, <2>9 DEF IInv, Table
    <3> QED
      BY <1>3, <2>2, <2>4, <2>7, <2>9, <3>1
  <2>10. Ready(procs, dq)
    BY <2>3, <2>5, <2>6, <2>8, <2>9 DEF Ready, IInv
  <2> QED
    BY <1>1, <1>2, <1>6, <2>10, DecidedKeeps
<1> QED
  BY <1>4, <1>5, <1>6

LEMMA TickKeeps ==
  ASSUME NoNameCollision, IInv, timer_callback
  PROVE  IInv'
<1>1. TInv' /\ pid_counter' = pid_counter /\ halted = "no"
  BY TickType DEF IInv, timer_callback
<1>2. check_schedule((tick + 1) % UMOD, processes, device)
  BY DEF timer_callback
<1>3. Ready(processes, device)
  <2>1. Sound(processes) /\ device \in Queue
    BY DEF IInv, TInv, TypeOK, RunsLive, Sound, timer_callback
  <2>2. HeadsOf(processes, current, sporadic, device)
    BY <1>1 DEF IInv
  <2> QED
    BY <2>1, <2>2 DEF Ready, IInv, HeadsOf
<1> QED
  BY <1>1, <1>2, <1>3, DecidedKeeps

LEMMA IInvStep ==
  ASSUME NoNameCollision
  PROVE  IInv /\ [Next]_vars => IInv'
<1> SUFFICES ASSUME IInv, [Next]_vars PROVE IInv'
  OBVIOUS
<1>1. CASE irq_install
  BY <1>1, TInvStep, SameKeeps DEF irq_install, Next, IInv
<1>2. CASE timer_callback
  BY <1>2, TickKeeps
<1>3. ASSUME NEW level \in {DEVICE, PERIODIC, SPORADIC}, NEW n \in Nat, OS_Create(level, n),
             level = DEVICE => n \in DeviceRates, level = SPORADIC => n \in SporadicNames
      PROVE  IInv'
  BY <1>3, CreateKeeps
<1>4. CASE OS_Terminate
  BY <1>4, TerminateKeeps
<1>5. CASE OS_Yield
  BY <1>5, YieldKeeps
<1>6. CASE UNCHANGED vars
  BY <1>6, TInvStep, SameKeeps DEF vars, IInv
<1>7. ASSUME NEW level \in {DEVICE, PERIODIC, SPORADIC},
             NEW n \in IF level = DEVICE THEN DeviceRates
                       ELSE IF level = PERIODIC THEN PeriodicNames ELSE SporadicNames,
             OS_Create(level, n)
      PROVE  IInv'
  BY <1>3, <1>7 DEF DEVICE, PERIODIC, SPORADIC
<1> QED
  BY <1>1, <1>2, <1>4, <1>5, <1>6, <1>7 DEF Next, DEVICE, PERIODIC, SPORADIC

\* As long as no rate, no SPORADIC "n" and not 0 is a name of the plan, none of the
\* assertions of the kernel fires, whatever is created, ended, yielded or pre-empted,
\* and however long devices keep the CPU.
THEOREM AssertionsHold ==
  ASSUME NoNameCollision
  PROVE  Spec => []AssertsHold
<1>1. IInv => AssertsHold
  BY DEF IInv
<1> QED
  BY <1>1, IInvInit, IInvStep, PTL DEF Spec

\* Under the same condition a process of the SPORADIC level or a DEVICE runs only from
\* the front of its queue, as OS_Yield and OS_Terminate take for granted.
THEOREM DeviceIsHead ==
  ASSUME NoNameCollision
  PROVE  Spec => []RunningDeviceIsHead
<1>1. IInv => RunningDeviceIsHead
  <2> SUFFICES ASSUME IInv, halted = "no", Runs(DEVICE)
               PROVE  device.length > 0 /\ Front(device) = current
    BY DEF RunningDeviceIsHead
  <2>1. processes \in [Slots -> Process] /\ Live(processes, current)
    BY DEF IInv, TInv, TypeOK, RunsLive, Runs
  <2> QED
    BY <2>1, CurrentProcessType DEF IInv, HeadsOf, Runs, CurrentProcess
<1> QED
  BY <1>1, IInvInit, IInvStep, PTL DEF Spec
=============================================================================
