-------------------------- MODULE SchedulerLevelProofs ----------------------
(***************************************************************************)
(* The levels of Scheduler.  SPORADIC: its ring holds the live SPORADIC    *)
(* processes exactly, the one that runs is its front, idle runs only when  *)
(* it is empty, and the ring implements the queue of SporadicLevel.        *)
(* DEVICE: devices that give the CPU back before the next tick.  PERIODIC: *)
(* the clock of the plan, whom its entries start and how long they last.   *)
(***************************************************************************)
EXTENDS SchedulerProofs, SchedulerHistory, SequenceTheorems

USE SchedulerAssumption

-----------------------------------------------------------------------------
(* The places of a window.                                                 *)

Nth(q, k) == q.buf[Position(q, k)]

LEMMA NthFront ==
  ASSUME NEW q \in Queue
  PROVE  Front(q) = Nth(q, 0)
  BY PositionFirst DEF Front, Nth

LEMMA EnqueueNth ==
  ASSUME NEW q \in Queue, q.length < MAXPROCESS, NEW pid \in Nat
  PROVE  /\ Enqueue(q, pid).length = q.length + 1
         /\ \A k \in 0 .. q.length - 1 : Nth(Enqueue(q, pid), k) = Nth(q, k)
         /\ Nth(Enqueue(q, pid), q.length) = pid
<1> DEFINE r == Enqueue(q, pid)
<1>1. q.length \in Nat /\ q.idx \in Slots /\ q.buf \in [Slots -> Nat]
  BY DEF Queue, Words
<1>2. (q.length + 1) % UMOD = q.length + 1
  BY <1>1
<1>3. r = [buf |-> [q.buf EXCEPT ![Position(q, q.length)] = pid], idx |-> q.idx,
           length |-> q.length + 1]
  BY <1>2 DEF Enqueue, Queue
<1> HIDE DEF r
<1>4. \A k \in Int : Position(r, k) = Position(q, k)
  BY <1>3 DEF Position
<1>5. Position(q, q.length) \in Slots
  BY <1>1, QueueTypes
<1>6. ASSUME NEW k \in 0 .. q.length - 1 PROVE Nth(r, k) = Nth(q, k)
  <2>1. k \in 0 .. MAXPROCESS - 1 /\ q.length \in 0 .. MAXPROCESS - 1 /\ k # q.length
    BY <1>1
  <2>2. Position(q, k) \in Slots
    BY <2>1, QueueTypes
  <2>3. Position(q, k) # Position(q, q.length)
    BY <2>1, PositionsDiffer
  <2> QED
    BY <1>1, <1>3, <1>4, <2>1, <2>2, <2>3 DEF Nth
<1>7. Nth(r, q.length) = pid
  BY <1>1, <1>3, <1>4, <1>5 DEF Nth
<1>8. r.length = q.length + 1
  BY <1>3
<1> QED
  BY <1>6, <1>7, <1>8 DEF r

LEMMA DequeueNth ==
  ASSUME NEW q \in Queue, q.length > 0, q.length <= MAXPROCESS
  PROVE  /\ Dequeue(q).length = q.length - 1
         /\ \A k \in 0 .. q.length - 2 : Nth(Dequeue(q), k) = Nth(q, k + 1)
<1> DEFINE r == Dequeue(q)
<1>1. q.length \in Nat /\ q.idx \in Slots /\ q.buf \in [Slots -> Nat]
  BY DEF Queue, Words
<1>2. (q.length - 1) % UMOD = q.length - 1
  BY <1>1
<1>3. r = [buf |-> [q.buf EXCEPT ![q.idx] = INVALIDPID], idx |-> Position(q, 1),
           length |-> q.length - 1]
  BY <1>2 DEF Dequeue
<1>0. r \in Queue
  BY QueueTypes DEF INVALIDPID
<1> HIDE DEF r
<1>4. ASSUME NEW k \in 0 .. q.length - 2 PROVE Nth(r, k) = Nth(q, k + 1)
  <2>1. k \in 0 .. MAXPROCESS - 1 /\ k + 1 \in 0 .. MAXPROCESS - 1 /\ 0 \in 0 .. MAXPROCESS - 1
        /\ k + 1 # 0
    BY <1>1
  <2>2. Position(r, k) = Position(q, k + 1)
    BY <1>0, <1>3, <2>1, PositionNext
  <2>3. Position(q, 0) = q.idx /\ Position(q, k + 1) # Position(q, 0)
    BY <2>1, PositionFirst, PositionsDiffer
  <2>4. Position(q, k + 1) \in Slots
    BY <2>1, QueueTypes
  <2> QED
    BY <1>1, <1>3, <2>2, <2>3, <2>4 DEF Nth
<1>5. r.length = q.length - 1
  BY <1>3
<1> QED
  BY <1>4, <1>5 DEF r

LEMMA RotateNth ==
  ASSUME NEW q \in Queue, q.length > 0, q.length <= MAXPROCESS
  PROVE  /\ Rotate(q).length = q.length
         /\ \A k \in 0 .. q.length - 2 : Nth(Rotate(q), k) = Nth(q, k + 1)
         /\ Nth(Rotate(q), q.length - 1) = Nth(q, 0)
<1> DEFINE r == Rotate(q)
<1>1. q.length \in Nat /\ q.idx \in Slots /\ q.buf \in [Slots -> Nat]
  BY DEF Queue, Words
<1>2. r = [buf |-> [q.buf EXCEPT ![Position(q, q.length)] = Front(q)],
           idx |-> Position(q, 1), length |-> q.length]
  BY DEF Rotate, Queue
<1>3. r \in Queue
  BY QueueTypes DEF INVALIDPID
<1> HIDE DEF r
<1>4. Position(q, q.length) \in Slots
  BY <1>1, QueueTypes
<1>5. ASSUME NEW k \in 0 .. q.length - 2 PROVE Nth(r, k) = Nth(q, k + 1)
  <2>1. k \in 0 .. MAXPROCESS - 1 /\ k + 1 \in 0 .. MAXPROCESS - 1 /\ k + 1 # q.length /\ k + 1 # 0
    BY <1>1
  <2>2. Position(r, k) = Position(q, k + 1)
    BY <1>2, <1>3, <2>1, PositionNext
  <2>3. Position(q, k + 1) # Position(q, q.length)
    <3>1. CASE q.length < MAXPROCESS
      <4>1. q.length \in 0 .. MAXPROCESS - 1
        BY <1>1, <3>1
      <4> QED
        BY <2>1, <4>1, PositionsDiffer
    <3>2. CASE q.length = MAXPROCESS
      <4>1. MAXPROCESS \in 0 .. MAXPROCESS /\ 0 \in 0 .. MAXPROCESS /\ q.idx \in 0 .. MAXPROCESS - 1
        BY <1>1 DEF Slots
      <4>2. Position(q, MAXPROCESS) = q.idx
        BY <4>1, PositionIs
      <4>3. Position(q, 0) = q.idx
        BY PositionFirst
      <4>4. 0 \in 0 .. MAXPROCESS - 1
        OBVIOUS
      <4>5. Position(q, k + 1) # Position(q, 0)
        BY <2>1, <4>4, PositionsDiffer
      <4> QED
        BY <3>2, <4>2, <4>3, <4>5
    <3> QED
      BY <1>1, <3>1, <3>2
  <2>4. Position(q, k + 1) \in Slots
    BY <2>1, QueueTypes
  <2> QED
    BY <1>1, <1>2, <2>2, <2>3, <2>4 DEF Nth
<1>6. Nth(r, q.length - 1) = Nth(q, 0)
  <2>1. q.length - 1 \in 0 .. MAXPROCESS - 1 /\ (q.length - 1) + 1 = q.length
    BY <1>1
  <2>2. PICK k \in 0 .. MAXPROCESS - 1 : k = q.length - 1
    BY <2>1
  <2>3. Position(r, k) = Position(q, k + 1)
    BY <1>2, <1>3, PositionNext
  <2>4. Position(r, q.length - 1) = Position(q, q.length)
    BY <1>1, <2>2, <2>3
  <2> QED
    BY <1>1, <1>2, <1>4, <2>4, NthFront DEF Nth
<1>7. r.length = q.length
  BY <1>2
<1> QED
  BY <1>5, <1>6, <1>7 DEF r

-----------------------------------------------------------------------------
(* The ring holds the live SPORADIC processes, each once.                  *)

OfLevel(level, procs) == {i \in LiveSlots(procs) : procs[i].level = level}

Exact(q, procs) ==
  /\ q.length <= MAXPROCESS
  /\ \A j, k \in 0 .. q.length - 1 : Nth(q, j) = Nth(q, k) => j = k
  /\ \A k \in 0 .. q.length - 1 : \E i \in OfLevel(SPORADIC, procs) : procs[i].pid = Nth(q, k)
  /\ \A i \in OfLevel(SPORADIC, procs) : \E k \in 0 .. q.length - 1 : Nth(q, k) = procs[i].pid

Unique(procs) == \A i, j \in LiveSlots(procs) : procs[i].pid = procs[j].pid => i = j

LEMMA ExactCount ==
  ASSUME NEW procs, NEW q \in Queue, Unique(procs), Exact(q, procs)
  PROVE  q.length = Cardinality(OfLevel(SPORADIC, procs))
<1> DEFINE S == 0 .. q.length - 1
           T == OfLevel(SPORADIC, procs)
           f == [k \in S |-> CHOOSE i \in T : procs[i].pid = Nth(q, k)]
<1>1. q.length \in Nat
  BY DEF Queue, Words
<1>2. ASSUME NEW k \in S PROVE f[k] \in T /\ procs[f[k]].pid = Nth(q, k)
  <2>1. \E i \in T : procs[i].pid = Nth(q, k)
    BY DEF Exact
  <2> HIDE DEF T
  <2> QED
    BY <2>1
<1> HIDE DEF f
<1>3. f \in [S -> T]
  BY <1>2 DEF f
<1>4. \A j, k \in S : f[j] = f[k] => j = k
  BY <1>2 DEF Exact
<1>5. \A i \in T : \E k \in S : f[k] = i
  <2>1. ASSUME NEW i \in T PROVE \E k \in S : f[k] = i
    <3>1. PICK k \in S : Nth(q, k) = procs[i].pid
      BY DEF Exact
    <3>2. f[k] \in LiveSlots(procs) /\ i \in LiveSlots(procs) /\ procs[f[k]].pid = procs[i].pid
      BY <1>2, <3>1 DEF OfLevel
    <3> QED
      BY <3>2 DEF Unique
  <2> QED
    BY <2>1
<1>6. ExistsBijection(S, T)
  <2> HIDE DEF S, T
  <2>1. f \in Injection(S, T) /\ f \in Surjection(S, T)
    BY <1>3, <1>4, <1>5 DEF Injection, IsInjective, Surjection
  <2> QED
    BY <2>1 DEF ExistsBijection, Bijection
<1>7. IsFiniteSet(S) /\ Cardinality(S) = q.length
  <2>1. PICK n \in Nat : n = q.length
    BY <1>1
  <2>2. IsFiniteSet(0 .. n - 1) /\ Cardinality(0 .. n - 1) = IF 0 > n - 1 THEN 0 ELSE n - 1 - 0 + 1
    BY FS_Interval
  <2>3. Cardinality(0 .. n - 1) = n
    BY <2>2
  <2> QED
    BY <2>1, <2>2, <2>3
<1> HIDE DEF S, T
<1>8. Cardinality(T) = Cardinality(S)
  BY <1>6, <1>7, FS_Bijection
<1> QED
  BY <1>7, <1>8 DEF T

LEMMA ExactSame ==
  ASSUME NEW a \in [Slots -> Process], NEW b, SameTable(a, b), NEW q, Exact(q, a)
  PROVE  Exact(q, b)
<1>1. LiveSlots(b) = LiveSlots(a) /\ LiveSlots(a) \subseteq Slots
  BY SameTableKeeps DEF LiveSlots
<1>2. OfLevel(SPORADIC, b) = OfLevel(SPORADIC, a)
      /\ \A i \in OfLevel(SPORADIC, a) : b[i].pid = a[i].pid
  BY <1>1 DEF OfLevel, SameTable
<1> QED
  BY <1>2 DEF Exact

LEMMA ExactRotate ==
  ASSUME NEW procs, NEW q \in Queue, Exact(q, procs), q.length > 0
  PROVE  Exact(Rotate(q), procs)
<1> DEFINE r == Rotate(q)
<1>1. /\ q.length \in Nat /\ q.length <= MAXPROCESS /\ r.length = q.length
      /\ \A k \in 0 .. q.length - 2 : Nth(r, k) = Nth(q, k + 1)
      /\ Nth(r, q.length - 1) = Nth(q, 0)
  BY RotateNth DEF Exact, Queue, Words
<1> HIDE DEF r
<1> DEFINE From(k) == IF k = q.length - 1 THEN 0 ELSE k + 1
<1>2. \A k \in 0 .. q.length - 1 : From(k) \in 0 .. q.length - 1 /\ Nth(r, k) = Nth(q, From(k))
  BY <1>1
<1>3. \A j, k \in 0 .. q.length - 1 : From(j) = From(k) => j = k
  BY <1>1
<1>4. \A k \in 0 .. q.length - 1 : \E j \in 0 .. q.length - 1 : From(j) = k
  <2>1. ASSUME NEW k \in 0 .. q.length - 1 PROVE \E j \in 0 .. q.length - 1 : From(j) = k
    <3>1. CASE k = 0
      BY <1>1, <3>1
    <3>2. CASE k # 0
      <4>1. k - 1 \in 0 .. q.length - 1 /\ From(k - 1) = k
        BY <1>1, <3>2
      <4> QED
        BY <4>1
    <3> QED
      BY <3>1, <3>2
  <2> QED
    BY <2>1
<1> HIDE DEF From
<1>5. \A j, k \in 0 .. q.length - 1 : Nth(r, j) = Nth(r, k) => j = k
  BY <1>2, <1>3 DEF Exact
<1>6. \A k \in 0 .. q.length - 1 : \E i \in OfLevel(SPORADIC, procs) : procs[i].pid = Nth(r, k)
  BY <1>2 DEF Exact
<1>7. \A i \in OfLevel(SPORADIC, procs) : \E k \in 0 .. q.length - 1 : Nth(r, k) = procs[i].pid
  <2>1. ASSUME NEW i \in OfLevel(SPORADIC, procs)
        PROVE  \E k \in 0 .. q.length - 1 : Nth(r, k) = procs[i].pid
    <3>1. PICK k \in 0 .. q.length - 1 : Nth(q, k) = procs[i].pid
      BY DEF Exact
    <3>2. PICK j \in 0 .. q.length - 1 : From(j) = k
      BY <1>4
    <3> QED
      BY <1>2, <3>1, <3>2
  <2> QED
    BY <2>1
<1> QED
  BY <1>1, <1>5, <1>6, <1>7 DEF Exact, r

-----------------------------------------------------------------------------
(* What a scheduling decision does to the SPORADIC level.                  *)

HasIdle(procs) == \E i \in LiveSlots(procs) : procs[i].pid = idle_pid

LEMMA SwitchShape ==
  ASSUME TypeOK, NEW procs, Sound(procs), NEW pid \in Nat \ {INVALIDPID},
         switch_process(pid, procs)
  PROVE  /\ SameTable(procs, processes') /\ current' = pid
         /\ halted' = IF Live(procs, pid) THEN halted ELSE "unknown pid"
<1> DEFINE index == process_index_from_pid(procs, current)
<1>1. procs \in [Slots -> Process] /\ SameTable(procs, procs)
  BY DEF Sound, SameTable
<1>2. CASE pid = current
  <2>1. processes' = procs /\ current' = current /\ halted' = halted
    BY <1>2 DEF switch_process
  <2>2. Live(procs, pid)
    BY <1>2 DEF Sound
  <2> QED
    BY <1>1, <1>2, <2>1, <2>2
<1>3. CASE pid # current
  <2>1. /\ current' = pid
        /\ halted' = IF Live(procs, pid) THEN halted ELSE "unknown pid"
        /\ processes' = IF current = INVALIDPID THEN procs
                        ELSE [procs EXCEPT ![index].yielded = FALSE]
    BY <1>3, Zenon DEF switch_process
  <2>2. SameTable(procs, processes')
    <3>1. CASE current = INVALIDPID
      BY <1>1, <2>1, <3>1
    <3>2. CASE current # INVALIDPID
      <4>1. index \in Slots
        BY <1>1, <3>2, CurrentProcessType DEF Sound, LiveSlots
      <4> HIDE DEF index
      <4>2. processes' = Cleared(procs, index)
        BY <2>1, <3>2 DEF Cleared
      <4> QED
        BY <1>1, <4>1, <4>2, SetFlag
    <3> QED
      BY <3>1, <3>2
  <2> QED
    BY <2>1, <2>2
<1> QED
  BY <1>2, <1>3

LEMMA ExactFront ==
  ASSUME NEW procs \in [Slots -> Process], NEW q \in Queue, Exact(q, procs), q.length # 0
  PROVE  /\ Live(procs, Front(q)) /\ Front(q) \in Nat \ {INVALIDPID}
         /\ \E i \in OfLevel(SPORADIC, procs) : procs[i].pid = Front(q)
<1>1. 0 \in 0 .. q.length - 1 /\ Front(q) = Nth(q, 0)
  BY NthFront DEF Queue, Words
<1>2. PICK i \in OfLevel(SPORADIC, procs) : procs[i].pid = Front(q)
  BY <1>1 DEF Exact
<1> QED
  BY <1>2 DEF OfLevel, Live, LiveSlots, FreeSlots, Process

\* With a live idle process and an exact ring a dispatch never stops the CPU.
LEMMA DispatchShape ==
  ASSUME TypeOK, NEW procs, Sound(procs), HasIdle(procs), NEW sq \in Queue, Exact(sq, procs),
         NEW next_pid \in Nat, next_pid # INVALIDPID => Live(procs, next_pid),
         NEW gave_up \in BOOLEAN, Dispatch(next_pid, gave_up, procs, sq)
  PROVE  /\ SameTable(procs, processes') /\ halted' = halted
         /\ current' = IF next_pid # INVALIDPID /\ ~gave_up THEN next_pid
                       ELSE IF sq.length = 0 THEN idle_pid ELSE Front(sq)
<1> DEFINE pid == IF next_pid # INVALIDPID /\ ~gave_up THEN next_pid
                  ELSE IF sq.length = 0 THEN idle_pid ELSE Front(sq)
<1>1. switch_process(pid, procs)
  BY DEF Dispatch
<1>2. Live(procs, idle_pid) /\ idle_pid \in Nat \ {INVALIDPID}
  BY DEF HasIdle, Live, idle_pid, INVALIDPID
<1>3. sq.length # 0 => Live(procs, Front(sq)) /\ Front(sq) \in Nat \ {INVALIDPID}
  BY ExactFront DEF Sound
<1>4. Live(procs, pid) /\ pid \in Nat \ {INVALIDPID}
  BY <1>2, <1>3
<1> HIDE DEF pid
<1>5. SameTable(procs, processes') /\ halted' = halted /\ current' = pid
  BY <1>1, <1>4, SwitchShape
<1> QED
  BY <1>5 DEF pid

\* A PID that the plan names.
Planned(pid, procs) == \E k \in Plan : pid = pid_from_name(procs, PPP[k])

LEMMA PlannedLive ==
  ASSUME NEW procs \in [Slots -> Process], NEW pid, Planned(pid, procs)
  PROVE  pid \in Nat /\ (pid # INVALIDPID => Live(procs, pid))
<1>1. PICK k \in Plan : pid = pid_from_name(procs, PPP[k])
  BY DEF Planned
<1>2. PPP[k] \in Int
  BY NumberTypes
<1> QED
  BY <1>1, <1>2, PidFromName, PidFromNameType DEF Live

LEMMA PeriodicCheckShape ==
  ASSUME TypeOK, PPP_index # INVALID_IDX, NEW t, NEW started, NEW elapsed,
         NEW procs, Sound(procs), HasIdle(procs), NEW sq \in Queue, Exact(sq, procs),
         NEW next_pid \in Nat, next_pid # INVALIDPID => Live(procs, next_pid),
         NEW gave_up \in BOOLEAN,
         PERIODIC_CHECK(t, started, elapsed, next_pid, gave_up, procs, sq)
  PROVE  /\ sporadic' = sq /\ SameTable(procs, processes') /\ halted' = halted
         /\ gave_up => current' = IF sq.length = 0 THEN idle_pid ELSE Front(sq)
         /\ \/ current' = next_pid \/ Planned(current', procs)
            \/ current' = IF sq.length = 0 THEN idle_pid ELSE Front(sq)
<1>1. PICK pid : /\ sporadic' = sq /\ Dispatch(pid, gave_up, procs, sq)
                 /\ pid = next_pid \/ Planned(pid, procs)
  <2>1. NextEntry \in Plan
    BY NumberTypes DEF TypeOK
  <2> QED
    BY <2>1 DEF PERIODIC_CHECK, Planned
<1>2. pid \in Nat /\ (pid # INVALIDPID => Live(procs, pid))
  BY <1>1, PlannedLive DEF Sound
<1>3. /\ SameTable(procs, processes') /\ halted' = halted
      /\ current' = IF pid # INVALIDPID /\ ~gave_up THEN pid
                    ELSE IF sq.length = 0 THEN idle_pid ELSE Front(sq)
  BY <1>1, <1>2, DispatchShape
<1> QED
  BY <1>1, <1>3

\* More devices are due than fit in the queue.
Overflows(t, procs, dq) ==
  LET due == DueDevices(t, Signed(t - last_change_tick), procs)
  IN  due # {} /\ dq.length + Cardinality(due) > MAXPROCESS

\* The CPU has stopped over the front of the device queue, whose PID is in no slot.
Lost(procs) ==
  /\ halted' = "unknown pid" /\ ~Live(procs, current')
  /\ device'.length > 0 /\ Front(device') = current'

\* Every way out of check_schedule: the ring stays, or its front, which has given up
\* the CPU, goes behind the others and the new front runs.
ScheduleShaped(t, procs, dq) ==
  /\ SameTable(procs, processes')
  /\ \/ sporadic' = sporadic
     \/ /\ current # INVALIDPID /\ CurrentProcess(procs).level = SPORADIC
        /\ CurrentProcess(procs).yielded
        /\ sporadic.length > 0 /\ sporadic' = Rotate(sporadic)
        /\ current' = Front(sporadic') /\ halted' = halted
  /\ halted' # halted => sporadic' = sporadic /\ (current' = current \/ Lost(procs))
  /\ \/ current' = current
     \/ sporadic'.length = 0
     \/ current' # idle_pid
     \/ Planned(current', procs)
     \/ \E k \in Slots : device'.buf[k] = current'
  /\ halted' # halted => device'.length # 0 \/ Overflows(t, procs, dq)

LEMMA ScheduleShape ==
  ASSUME TypeOK, NEW t, NEW procs, Sound(procs), HasIdle(procs), Unique(procs),
         \A i \in LiveSlots(procs) :
           procs[i].pid = idle_pid => procs[i].level = IDLE_PRIORITY,
         Exact(sporadic, procs), NEW dq \in Queue, check_schedule(t, procs, dq)
  PROVE  ScheduleShaped(t, procs, dq)
<1> DEFINE delta == Signed(t - last_change_tick)
           due == DueDevices(t, delta, procs)
           q == EnqueueDue(dq, due, procs)
           elapsed == IF delta < 0 THEN 1 ELSE delta
<1>1. procs \in [Slots -> Process] /\ sporadic \in Queue /\ current \in Nat
  BY DEF Sound, TypeOK
<1>2. SameTable(procs, procs)
  BY <1>1 DEF SameTable
<1>4. CASE due # {} /\ dq.length + Cardinality(due) > MAXPROCESS
  <2>1. OS_Abort("device queue full", procs)
    BY <1>4 DEF check_schedule
  <2>2. Overflows(t, procs, dq)
    BY <1>4 DEF Overflows
  <2> HIDE DEF due
  <2> QED
    BY <1>2, <2>1, <2>2 DEF OS_Abort, ScheduleShaped
<1>5. CASE ~(due # {} /\ dq.length + Cardinality(due) > MAXPROCESS)
  <2>1. due \in SUBSET Slots /\ (due # {} => dq.length + Cardinality(due) <= MAXPROCESS)
    <3>1. due \in SUBSET Slots
      BY DEF DueDevices, LiveSlots
    <3>2. dq.length \in Nat
      BY DEF Queue, Words
    <3> HIDE DEF due
    <3> QED
      BY <1>5, <3>1, <3>2, SlotSets
  <2>2. device' = q
    BY <1>5 DEF check_schedule
  <2>3. \/ q.length > 0 /\ Front(q) # current /\ RunDevice(t, delta, procs, q)
        \/ LAUNCH_CURRENT_PPP(t, procs)
        \/ PPP_index # INVALID_IDX /\ AfterTermination(t, elapsed, procs)
        \/ /\ PPP_index # INVALID_IDX /\ current # INVALIDPID
           /\ \/ DeviceTurn(t, procs)
              \/ SporadicTurn(t, elapsed, procs)
              \/ PeriodicTurn(t, elapsed, procs)
    BY <1>5 DEF check_schedule
  <2> HIDE DEF delta, due, q, elapsed
  <2>4. q \in Queue
    BY <1>1, <2>1, EnqueueDueType DEF q
  <2>5. ASSUME SameTable(procs, processes'), sporadic' = sporadic, halted' = halted,
               \/ current' = current
               \/ current' = IF sporadic.length = 0 THEN idle_pid ELSE Front(sporadic)
               \/ Planned(current', procs)
        PROVE  ScheduleShaped(t, procs, dq)
    <3>1. sporadic.length # 0 => Front(sporadic) # idle_pid
      <4> SUFFICES ASSUME sporadic.length # 0 PROVE Front(sporadic) # idle_pid
        OBVIOUS
      <4>1. PICK i \in OfLevel(SPORADIC, procs) : procs[i].pid = Front(sporadic)
        BY <1>1, ExactFront
      <4> QED
        BY <4>1 DEF OfLevel, SPORADIC, IDLE_PRIORITY
    <3> QED
      BY <2>5, <3>1 DEF ScheduleShaped
  <2>6. CASE q.length > 0 /\ Front(q) # current /\ RunDevice(t, delta, procs, q)
    <3>1. sporadic' = sporadic /\ switch_process(Front(q), procs)
      BY <2>6 DEF RunDevice
    <3>2. Front(q) \in Nat /\ q.idx \in Slots /\ Front(q) = q.buf[q.idx] /\ q.length # 0
      BY <2>4, <2>6, QueueTypes DEF INVALIDPID, Queue, Front, Words
    <3>3. CASE Front(q) = INVALIDPID
      <4>1. processes' = procs /\ current' = current /\ halted' = halted
        BY <3>1, <3>3 DEF switch_process
      <4> QED
        BY <1>2, <2>5, <3>1, <4>1
    <3>4. CASE Front(q) # INVALIDPID
      <4>1. /\ SameTable(procs, processes') /\ current' = Front(q)
            /\ halted' = IF Live(procs, Front(q)) THEN halted ELSE "unknown pid"
        <5>1. PICK pid \in Nat \ {INVALIDPID} : pid = Front(q)
          BY <3>2, <3>4
        <5> QED
          BY <3>1, <5>1, SwitchShape
      <4>2. halted' # halted => Lost(procs)
        BY <2>2, <2>6, <4>1 DEF Lost
      <4> QED
        BY <2>2, <3>1, <3>2, <4>1, <4>2 DEF ScheduleShaped
    <3> QED
      BY <3>3, <3>4
  <2>7. CASE LAUNCH_CURRENT_PPP(t, procs)
    <3> DEFINE pid == pid_from_name(procs, PPP[0])
    <3>1. sporadic' = sporadic /\ Dispatch(pid, FALSE, procs, sporadic)
      BY <2>7 DEF LAUNCH_CURRENT_PPP
    <3>2. Planned(pid, procs)
      BY NumberTypes DEF Planned
    <3> HIDE DEF pid
    <3>3. pid \in Nat /\ (pid # INVALIDPID => Live(procs, pid))
      BY <1>1, <3>2, PlannedLive
    <3>4. /\ SameTable(procs, processes') /\ halted' = halted
          /\ current' = IF pid # INVALIDPID /\ ~FALSE THEN pid
                        ELSE IF sporadic.length = 0 THEN idle_pid ELSE Front(sporadic)
      BY <1>1, <3>1, <3>3, DispatchShape
    <3> QED
      BY <2>5, <3>1, <3>2, <3>4
  <2>8. CASE PPP_index # INVALID_IDX /\ AfterTermination(t, elapsed, procs)
    <3>1. /\ PERIODIC_CHECK(t, last_change_tick, elapsed, INVALIDPID, FALSE, procs, sporadic)
          /\ current = INVALIDPID /\ INVALIDPID \in Nat
      BY <2>8 DEF AfterTermination, INVALIDPID
    <3>2. /\ sporadic' = sporadic /\ SameTable(procs, processes') /\ halted' = halted
          /\ \/ current' = INVALIDPID \/ Planned(current', procs)
             \/ current' = IF sporadic.length = 0 THEN idle_pid ELSE Front(sporadic)
      BY <1>1, <2>8, <3>1, PeriodicCheckShape, ZenonT(40)
    <3> QED
      BY <2>5, <3>1, <3>2
  <2>9. ASSUME PPP_index # INVALID_IDX, current # INVALIDPID,
               DeviceTurn(t, procs) \/ SporadicTurn(t, elapsed, procs)
                 \/ PeriodicTurn(t, elapsed, procs)
        PROVE  ScheduleShaped(t, procs, dq)
    <3> DEFINE index == process_index_from_pid(procs, current)
               gave_up == CurrentProcess(procs).yielded
    <3>1. /\ index \in LiveSlots(procs) /\ procs[index].pid = current
          /\ CurrentProcess(procs) = procs[index] /\ gave_up \in BOOLEAN
          /\ Live(procs, current)
      BY <1>1, <2>9, CurrentProcessType DEF Sound, LiveSlots, CurrentProcess, Process
    <3> HIDE DEF index, gave_up
    <3>2. CASE DeviceTurn(t, procs) /\ gave_up
      <4>1. PICK started, el, pid :
              /\ pid = pid_from_name(procs, PPP[PPP_index])
              /\ PERIODIC_CHECK(t, started, el, pid, FALSE, procs, sporadic)
        BY <3>2 DEF DeviceTurn, gave_up
      <4>2. Planned(pid, procs)
        BY <2>9, <4>1 DEF TypeOK, Planned
      <4>3. pid \in Nat /\ (pid # INVALIDPID => Live(procs, pid))
        BY <1>1, <4>2, PlannedLive
      <4>4. /\ sporadic' = sporadic /\ SameTable(procs, processes') /\ halted' = halted
            /\ \/ current' = pid \/ Planned(current', procs)
               \/ current' = IF sporadic.length = 0 THEN idle_pid ELSE Front(sporadic)
        BY <1>1, <2>9, <4>1, <4>3, PeriodicCheckShape, ZenonT(40)
      <4> QED
        BY <2>5, <4>2, <4>4
    <3>3. CASE DeviceTurn(t, procs) /\ ~gave_up
      <4>1. processes' = procs /\ current' = current /\ sporadic' = sporadic /\ halted' = halted
        BY <3>3 DEF DeviceTurn, gave_up
      <4> QED
        BY <1>2, <2>5, <4>1
    <3>4. CASE SporadicTurn(t, elapsed, procs)
      <4>1. index \in OfLevel(SPORADIC, procs) /\ CurrentProcess(procs).level = SPORADIC
        BY <3>1, <3>4 DEF SporadicTurn, OfLevel
      <4>2. sporadic.length > 0 /\ sporadic.length <= MAXPROCESS
        BY <1>1, <4>1 DEF Exact, Queue, Words
      <4> DEFINE sq == Reenter(sporadic, gave_up)
      <4>3. PERIODIC_CHECK(t, last_change_tick, elapsed, current, gave_up, procs, sq)
        <5>1. sporadic.length # 0
          BY <4>2
        <5> QED
          BY <3>4, <5>1 DEF SporadicTurn, gave_up
      <4>4. sq = IF gave_up THEN Rotate(sporadic) ELSE sporadic
        BY DEF Reenter
      <4>5. sq \in Queue /\ Exact(sq, procs)
        BY <1>1, <4>2, <4>4, QueueTypes, ExactRotate DEF INVALIDPID
      <4> HIDE DEF sq
      <4>6. /\ sporadic' = sq /\ SameTable(procs, processes') /\ halted' = halted
            /\ gave_up => current' = IF sq.length = 0 THEN idle_pid ELSE Front(sq)
            /\ \/ current' = current \/ Planned(current', procs)
               \/ current' = IF sq.length = 0 THEN idle_pid ELSE Front(sq)
        BY <1>1, <2>9, <3>1, <4>3, <4>5, PeriodicCheckShape
      <4>7. CASE ~gave_up
        BY <2>5, <4>4, <4>6, <4>7
      <4>8. CASE gave_up
        <5>1. sq.length = sporadic.length /\ sq = Rotate(sporadic)
          BY <1>1, <4>2, <4>4, <4>8, RotateNth
        <5>2. current' = Front(sporadic')
          BY <4>2, <4>6, <4>8, <5>1
        <5>3. current' # idle_pid
          <6>1. sq.length # 0
            BY <4>2, <5>1
          <6>2. PICK i \in OfLevel(SPORADIC, procs) : procs[i].pid = Front(sq)
            BY <1>1, <4>5, <6>1, ExactFront
          <6> QED
            BY <4>6, <5>2, <6>2 DEF OfLevel, SPORADIC, IDLE_PRIORITY
        <5> QED
          BY <2>9, <4>1, <4>2, <4>6, <4>8, <5>1, <5>2, <5>3
             DEF ScheduleShaped, gave_up
      <4> QED
        BY <3>1, <4>7, <4>8
    <3>5. CASE PeriodicTurn(t, elapsed, procs)
      <4>1. PERIODIC_CHECK(t, last_change_tick, elapsed, current, gave_up, procs, sporadic)
        BY <3>5 DEF PeriodicTurn, gave_up
      <4>2. /\ sporadic' = sporadic /\ SameTable(procs, processes') /\ halted' = halted
            /\ \/ current' = current \/ Planned(current', procs)
               \/ current' = IF sporadic.length = 0 THEN idle_pid ELSE Front(sporadic)
        BY <1>1, <2>9, <3>1, <4>1, PeriodicCheckShape
      <4> QED
        BY <2>5, <4>2
    <3> QED
      BY <2>9, <3>1, <3>2, <3>3, <3>4, <3>5
  <2> QED
    BY <2>3, <2>6, <2>7, <2>8, <2>9
<1> QED
  BY <1>4, <1>5

-----------------------------------------------------------------------------
(* The ring is exact, whatever names are used.                             *)

\* The inductive invariant of the SPORADIC level.  Exactness keeps the ring from
\* overflowing (there are no more SPORADIC processes than slots) and the scheduler
\* from finding it empty when a SPORADIC process gives up the CPU.
QInv ==
  /\ TInv
  /\ Table(processes, pid_counter)
  /\ Exact(sporadic, processes)
  /\ HasIdle(processes)
  /\ timer_on \/ current = INVALIDPID

LEMMA QTypes ==
  ASSUME QInv
  PROVE  /\ processes \in [Slots -> Process] /\ LiveSlots(processes) \subseteq Slots
         /\ sporadic \in Queue /\ sporadic.length \in Nat /\ sporadic.length <= MAXPROCESS
         /\ device \in Queue /\ current \in Nat /\ pid_counter \in Nat /\ pid_counter > 1
         /\ Unique(processes)
         /\ \A i \in LiveSlots(processes) :
              processes[i].pid = idle_pid => processes[i].level = IDLE_PRIORITY
  BY DEF QInv, TInv, TypeOK, Table, Unique, Exact, Queue, Words, LiveSlots, idle_pid

LEMMA QInvInit == Init => QInv
<1> SUFFICES ASSUME Init PROVE QInv
  OBVIOUS
<1>1. TInv /\ Table(processes, pid_counter)
  BY IInvInit DEF IInv
<1>2. sporadic.length = 0 /\ current = INVALIDPID
  BY DEF Init, EmptyQueue
<1> DEFINE idle == [pid |-> idle_pid, level |-> IDLE_PRIORITY, n |-> 0, yielded |-> FALSE]
<1>3. 0 \in Slots /\ processes = [[i \in Slots |-> NoProcess] EXCEPT ![0] = idle]
  BY DEF Init, Slots
<1>4. processes[0] = idle /\ \A i \in Slots \ {0} : processes[i] = NoProcess
  BY <1>3
<1>5. LiveSlots(processes) = {0}
  BY <1>3, <1>4 DEF LiveSlots, FreeSlots, NoProcess, idle_pid, INVALIDPID
<1>6. OfLevel(SPORADIC, processes) = {}
  BY <1>4, <1>5 DEF OfLevel, SPORADIC, IDLE_PRIORITY
<1>7. Exact(sporadic, processes)
  BY <1>2, <1>6 DEF Exact
<1> QED
  BY <1>1, <1>2, <1>4, <1>5, <1>7 DEF QInv, HasIdle

\* What OS_Create does to the table and to the ring.
LEMMA CreateShape ==
  ASSUME QInv, NEW level \in {DEVICE, PERIODIC, SPORADIC}, NEW n \in Nat, OS_Create(level, n),
         level = DEVICE => n \in DeviceRates, level = SPORADIC => n \in SporadicNames
  PROVE  \/ UNCHANGED <<processes, sporadic, pid_counter>>
         \/ /\ Table(processes', pid_counter') /\ pid_counter \in 2 .. MaxPid
            /\ IF level = SPORADIC
               THEN sporadic.length < MAXPROCESS /\ sporadic' = Enqueue(sporadic, pid_counter)
               ELSE sporadic' = sporadic
            /\ \E slot \in FreeSlots(processes) :
                 /\ processes'[slot].pid = pid_counter /\ processes'[slot].level = level
                 /\ LiveSlots(processes') = LiveSlots(processes) \union {slot}
                 /\ \A i \in LiveSlots(processes) : /\ processes'[i] = processes[i] /\ i # slot
                                                    /\ processes[i].pid < pid_counter
<1>1. CASE RefuseCreate
  BY <1>1 DEF RefuseCreate, OS_Create
<1>2. CASE FreeSlots(processes) # {} /\ AcceptCreate(level, n)
  <2>1. Table(processes', pid_counter')
    BY <1>2, CreatedTable DEF QInv
  <2>2. PICK slot \in FreeSlots(processes) :
          /\ processes'[slot] = [pid |-> pid_counter, level |-> level, n |-> n, yielded |-> FALSE]
          /\ LiveSlots(processes') = LiveSlots(processes) \union {slot}
          /\ \A i \in LiveSlots(processes) : processes'[i] = processes[i] /\ i # slot
          /\ \A i \in LiveSlots(processes) :
               processes[i].pid \in Nat /\ processes[i].pid < pid_counter
    BY <1>2, CreatedTable DEF QInv
  <2>3. processes'[slot].pid = pid_counter /\ processes'[slot].level = level
    BY <2>2
  <2>4. pid_counter \in 2 .. MaxPid
    BY <1>2, QTypes DEF AcceptCreate
  \* A slot is free, so fewer processes than slots wait in the ring.
  <2>5. sporadic.length < MAXPROCESS
    <3> DEFINE T == OfLevel(SPORADIC, processes)
    <3>1. sporadic.length = Cardinality(T)
      BY QTypes, ExactCount DEF QInv
    <3>2. slot \in Slots /\ T \subseteq Slots \ {slot}
      BY DEF OfLevel, LiveSlots, FreeSlots
    <3>3. IsFiniteSet(Slots) /\ Cardinality(Slots) \in 0 .. MAXPROCESS
      BY SlotSets
    <3> HIDE DEF T
    <3>4. IsFiniteSet(Slots \ {slot}) /\ Cardinality(Slots \ {slot}) = Cardinality(Slots) - 1
      BY <3>2, <3>3, FS_RemoveElement
    <3>5. Cardinality(T) <= Cardinality(Slots \ {slot})
      BY <3>2, <3>4, FS_Subset
    <3> QED
      BY <3>1, <3>3, <3>4, <3>5, QTypes
  <2>6. IF level = SPORADIC THEN sporadic' = Enqueue(sporadic, pid_counter)
                            ELSE sporadic' = sporadic
    <3>1. ~(sporadic.length >= MAXPROCESS)
      BY <2>5, QTypes
    <3> QED
      BY <1>2, <3>1 DEF AcceptCreate
  <2> QED
    BY <2>1, <2>2, <2>3, <2>4, <2>5, <2>6
<1> QED
  BY <1>1, <1>2 DEF OS_Create

\* A new SPORADIC process is at the end of the ring.
LEMMA ExactEnqueue ==
  ASSUME NEW procs, NEW after, NEW q \in Queue, Exact(q, procs), q.length < MAXPROCESS,
         NEW pid \in Nat, NEW slot, after[slot].pid = pid, after[slot].level = SPORADIC,
         LiveSlots(after) = LiveSlots(procs) \union {slot},
         \A i \in LiveSlots(procs) :
           after[i] = procs[i] /\ i # slot /\ procs[i].pid \in Nat /\ procs[i].pid < pid
  PROVE  Exact(Enqueue(q, pid), after)
<1> DEFINE r == Enqueue(q, pid)
           S == OfLevel(SPORADIC, procs)
<1>1. q.length \in Nat
  BY DEF Queue, Words
<1>2. /\ r.length = q.length + 1
      /\ \A k \in 0 .. q.length - 1 : Nth(r, k) = Nth(q, k)
      /\ Nth(r, q.length) = pid
  BY EnqueueNth
<1> HIDE DEF r
<1>3. OfLevel(SPORADIC, after) = S \union {slot}
  BY DEF OfLevel
<1>4. \A i \in S : after[i] = procs[i] /\ procs[i].pid # pid
  BY DEF OfLevel
<1> HIDE DEF S
<1>5. /\ \A j, k \in 0 .. q.length - 1 : Nth(q, j) = Nth(q, k) => j = k
      /\ \A k \in 0 .. q.length - 1 : \E i \in S : procs[i].pid = Nth(q, k)
      /\ \A i \in S : \E k \in 0 .. q.length - 1 : Nth(q, k) = procs[i].pid
  BY DEF Exact, S
<1>6. \A k \in 0 .. r.length - 1 : k \in 0 .. q.length - 1 \/ k = q.length
  BY <1>1, <1>2
<1>7. \A k \in 0 .. q.length - 1 : k \in 0 .. r.length - 1
  BY <1>1, <1>2
<1>8. q.length \in 0 .. r.length - 1 /\ r.length <= MAXPROCESS
  BY <1>1, <1>2
<1>9. \A k \in 0 .. q.length - 1 : Nth(r, k) # pid
  BY <1>2, <1>4, <1>5
<1>10. \A j, k \in 0 .. r.length - 1 : Nth(r, j) = Nth(r, k) => j = k
  BY <1>2, <1>5, <1>6, <1>9
<1>11. \A k \in 0 .. r.length - 1 : \E i \in S \union {slot} : after[i].pid = Nth(r, k)
  BY <1>2, <1>4, <1>5, <1>6
<1>12. \A i \in S \union {slot} : \E k \in 0 .. r.length - 1 : Nth(r, k) = after[i].pid
  BY <1>2, <1>4, <1>5, <1>7, <1>8
<1> QED
  BY <1>3, <1>8, <1>10, <1>11, <1>12 DEF Exact, r

\* The front of the ring ends.
LEMMA ExactDequeue ==
  ASSUME NEW procs, NEW after, NEW q \in Queue, Exact(q, procs), Unique(procs),
         NEW slot \in OfLevel(SPORADIC, procs), Front(q) = procs[slot].pid,
         LiveSlots(after) = LiveSlots(procs) \ {slot},
         \A i \in LiveSlots(after) : after[i] = procs[i]
  PROVE  q.length > 0 /\ Exact(Dequeue(q), after)
<1> DEFINE r == Dequeue(q)
           S == OfLevel(SPORADIC, procs)
<1>1. q.length \in Nat /\ q.length <= MAXPROCESS
  BY DEF Queue, Words, Exact
<1>2. q.length > 0
  BY <1>1 DEF Exact
<1>3. /\ r.length = q.length - 1
      /\ \A k \in 0 .. q.length - 2 : Nth(r, k) = Nth(q, k + 1)
  BY <1>1, <1>2, DequeueNth
<1>4. Nth(q, 0) = procs[slot].pid
  BY NthFront
<1> HIDE DEF r
<1>5. OfLevel(SPORADIC, after) = S \ {slot}
  BY DEF OfLevel
<1>6. \A i \in S \ {slot} : after[i] = procs[i]
  BY <1>5 DEF OfLevel
<1>7. \A i \in S : procs[i].pid = procs[slot].pid => i = slot
  BY DEF OfLevel, Unique
<1> HIDE DEF S
<1>8. /\ \A j, k \in 0 .. q.length - 1 : Nth(q, j) = Nth(q, k) => j = k
      /\ \A k \in 0 .. q.length - 1 : \E i \in S : procs[i].pid = Nth(q, k)
      /\ \A i \in S : \E k \in 0 .. q.length - 1 : Nth(q, k) = procs[i].pid
  BY DEF Exact, S
<1>9. \A k \in 0 .. r.length - 1 :
        k \in 0 .. q.length - 2 /\ k + 1 \in 0 .. q.length - 1 /\ k + 1 # 0
  BY <1>1, <1>3
<1>10. 0 \in 0 .. q.length - 1
  BY <1>1, <1>2
<1>11. \A j, k \in 0 .. r.length - 1 : Nth(r, j) = Nth(r, k) => j = k
  <2>1. ASSUME NEW j \in 0 .. r.length - 1, NEW k \in 0 .. r.length - 1, Nth(r, j) = Nth(r, k)
        PROVE  j = k
    <3>1. Nth(q, j + 1) = Nth(q, k + 1)
      BY <1>3, <1>9, <2>1
    <3>2. j + 1 = k + 1
      BY <1>8, <1>9, <3>1
    <3> QED
      BY <3>2
  <2> QED
    BY <2>1
<1>12. \A k \in 0 .. r.length - 1 : \E i \in S \ {slot} : after[i].pid = Nth(r, k)
  <2>1. ASSUME NEW k \in 0 .. r.length - 1
        PROVE  \E i \in S \ {slot} : after[i].pid = Nth(r, k)
    <3>1. Nth(r, k) = Nth(q, k + 1)
      BY <1>3, <1>9
    <3>2. PICK i \in S : procs[i].pid = Nth(q, k + 1)
      BY <1>8, <1>9
    <3>3. i # slot
      BY <1>4, <1>8, <1>9, <1>10, <3>2
    <3> QED
      BY <1>6, <3>1, <3>2, <3>3
  <2> QED
    BY <2>1
<1>13. \A i \in S \ {slot} : \E k \in 0 .. r.length - 1 : Nth(r, k) = after[i].pid
  <2>1. ASSUME NEW i \in S \ {slot}
        PROVE  \E k \in 0 .. r.length - 1 : Nth(r, k) = after[i].pid
    <3>1. PICK k \in 0 .. q.length - 1 : Nth(q, k) = procs[i].pid
      BY <1>8
    <3>2. k # 0
      BY <1>4, <1>7, <3>1
    <3>3. k - 1 \in 0 .. q.length - 2 /\ k - 1 \in 0 .. r.length - 1 /\ (k - 1) + 1 = k
      BY <1>1, <1>3, <3>2
    <3> QED
      BY <1>3, <1>6, <3>1, <3>3
  <2> QED
    BY <2>1
<1>14. r.length <= MAXPROCESS
  BY <1>1, <1>3
<1> QED
  BY <1>2, <1>5, <1>11, <1>12, <1>13, <1>14 DEF Exact, r

\* What OS_Terminate does to the table and to the ring.
LEMMA TerminateShape ==
  ASSUME QInv, OS_Terminate
  PROVE  \/ UNCHANGED <<processes, sporadic, current, pid_counter>>
         \/ /\ Table(processes', pid_counter') /\ current' = INVALIDPID /\ halted' = halted
            /\ \E slot \in LiveSlots(processes) :
                 /\ processes[slot].pid = current /\ processes[slot].level # IDLE_PRIORITY
                 /\ LiveSlots(processes') = LiveSlots(processes) \ {slot}
                 /\ \A i \in LiveSlots(processes') : processes'[i] = processes[i]
                 /\ IF processes[slot].level = SPORADIC
                    THEN Front(sporadic) = current /\ sporadic' = Dequeue(sporadic)
                    ELSE sporadic' = sporadic
<1> DEFINE me == CurrentProcess(processes)
           slot == process_index_from_pid(processes, current)
<1>1. current # INVALIDPID /\ Live(processes, current)
  BY DEF QInv, TInv, RunsLive, OS_Terminate, Calls
<1>2. slot \in LiveSlots(processes) /\ processes[slot].pid = current /\ me = processes[slot]
  BY <1>1, QTypes, CurrentProcessType DEF CurrentProcess
<1>3. /\ pid_counter' = pid_counter /\ me.level # IDLE_PRIORITY
      /\ \/ UNCHANGED <<processes, sporadic, current>>
         \/ /\ processes' = [processes EXCEPT ![slot].pid = INVALIDPID]
            /\ current' = INVALIDPID /\ halted' = halted
            /\ IF me.level = SPORADIC THEN Front(sporadic) = current /\ sporadic' = Dequeue(sporadic)
                                      ELSE sporadic' = sporadic
  <2> DEFINE dies == /\ processes' = [processes EXCEPT ![slot].pid = INVALIDPID]
                     /\ current' = INVALIDPID /\ halted' = halted
  <2>1. pid_counter' = pid_counter
    BY DEF OS_Terminate
  <2>2. \/ UNCHANGED <<processes, name_registry, current, sporadic, device, intr>>
        \/ dies /\ me.level = DEVICE /\ sporadic' = sporadic
        \/ /\ dies /\ me.level = SPORADIC
           /\ Front(sporadic) = current /\ sporadic' = Dequeue(sporadic)
        \/ dies /\ me.level = PERIODIC /\ sporadic' = sporadic
    BY Zenon DEF OS_Terminate
  <2>3. me.level \in {DEVICE, SPORADIC, PERIODIC}
    BY Zenon DEF OS_Terminate
  <2>4. me.level # IDLE_PRIORITY
    BY <2>3 DEF DEVICE, PERIODIC, SPORADIC, IDLE_PRIORITY
  <2> HIDE DEF me, slot, dies
  <2>5. CASE UNCHANGED <<processes, name_registry, current, sporadic, device, intr>>
    BY <2>1, <2>4, <2>5
  <2>6. CASE dies
    BY <2>1, <2>2, <2>4, <2>6 DEF dies, DEVICE, PERIODIC, SPORADIC
  <2> QED
    BY <2>2, <2>5, <2>6
<1> HIDE DEF me, slot
<1>4. CASE UNCHANGED <<processes, sporadic, current>>
  BY <1>3, <1>4
<1>5. CASE processes' = [processes EXCEPT ![slot].pid = INVALIDPID]
  <2>1. /\ processes'[slot].pid = INVALIDPID
        /\ \A i \in Slots \ {slot} : processes'[i] = processes[i]
    BY <1>2, <1>5, QTypes DEF Process
  <2>2. /\ LiveSlots(processes') = LiveSlots(processes) \ {slot}
        /\ \A i \in LiveSlots(processes') : processes'[i] = processes[i]
    BY <1>2, <2>1 DEF LiveSlots, FreeSlots
  <2>3. Table(processes', pid_counter')
    BY <1>3, <2>2 DEF QInv, Table
  <2> QED
    BY <1>2, <1>3, <2>2, <2>3
<1> QED
  BY <1>3, <1>4, <1>5

\* The table that OS_Yield hands to the scheduler, and the table that a tick hands to it.
LEMMA SchedulerCalled ==
  ASSUME QInv, timer_callback \/ OS_Yield
  PROVE  \/ UNCHANGED <<processes, current, sporadic, halted, device, clock, tick>>
         \/ \E t, procs, dq :
              /\ SameTable(processes, procs) /\ Sound(procs) /\ dq \in Queue
              /\ check_schedule(t, procs, dq)
              /\ OfLevel(DEVICE, processes) = {} => dq = device
              /\ tick' = t /\ (tick' = tick \/ procs = processes)
<1>1. CASE timer_callback
  <2>1. check_schedule((tick + 1) % UMOD, processes, device) /\ tick' = (tick + 1) % UMOD
    BY <1>1 DEF timer_callback
  <2>2. SameTable(processes, processes) /\ Sound(processes) /\ device \in Queue
    BY <1>1, QTypes DEF QInv, TInv, RunsLive, SameTable, Sound, timer_callback
  <2> QED
    BY <2>1, <2>2
<1>2. CASE OS_Yield
  <2> DEFINE index == process_index_from_pid(processes, current)
             me == CurrentProcess(processes)
             procs == Raised(processes, index)
             dq == IF me.level = DEVICE THEN Dequeue(device) ELSE device
  <2>1. /\ current # INVALIDPID /\ Live(processes, current)
        /\ \/ UNCHANGED <<processes, current, sporadic, halted, device, clock, tick>>
           \/ check_schedule(tick, procs, dq)
    BY <1>2 DEF QInv, TInv, RunsLive, OS_Yield, Calls, Raised
  <2>2. index \in LiveSlots(processes) /\ index \in Slots /\ me = processes[index]
    BY <2>1, QTypes, CurrentProcessType DEF CurrentProcess
  <2>3. dq \in Queue
    BY QTypes, QueueTypes DEF INVALIDPID
  <2>4. OfLevel(DEVICE, processes) = {} => dq = device
    BY <2>2 DEF OfLevel
  <2>5. SameTable(processes, procs)
    BY <2>2, QTypes, SetFlag
  <2> HIDE DEF procs, index, dq
  <2>6. Sound(procs)
    BY <2>1, <2>5, QTypes, SameTableKeeps DEF Sound, Live, SameTable
  <2>7. tick' = tick
    BY <1>2 DEF OS_Yield
  <2> QED
    BY <2>1, <2>3, <2>4, <2>5, <2>6, <2>7
<1> QED
  BY <1>1, <1>2

LEMMA ScheduleShapeQ ==
  ASSUME QInv, NEW t, NEW procs, SameTable(processes, procs), Sound(procs), NEW dq \in Queue,
         check_schedule(t, procs, dq)
  PROVE  /\ Exact(sporadic, procs) /\ HasIdle(procs) /\ Table(procs, pid_counter)
         /\ LiveSlots(procs) = LiveSlots(processes)
         /\ ScheduleShaped(t, procs, dq)
<1>1. /\ LiveSlots(procs) = LiveSlots(processes) /\ Table(procs, pid_counter)
      /\ Exact(sporadic, procs)
  BY QTypes, SameTableKeeps, ExactSame DEF QInv
<1>2. HasIdle(procs)
  BY <1>1, QTypes DEF HasIdle, SameTable, QInv
<1>3. /\ Unique(procs)
      /\ \A i \in LiveSlots(procs) : procs[i].pid = idle_pid => procs[i].level = IDLE_PRIORITY
  BY <1>1 DEF Table, Unique
<1>4. ScheduleShaped(t, procs, dq)
  BY <1>1, <1>2, <1>3, ScheduleShape DEF QInv, TInv
<1> QED
  BY <1>1, <1>2, <1>4

LEMMA QInvCalled ==
  ASSUME QInv, TInv', timer_callback \/ OS_Yield
  PROVE  QInv'
<1>1. pid_counter' = pid_counter /\ timer_on' = timer_on
  BY DEF timer_callback, OS_Yield
<1>2. timer_on
  BY DEF timer_callback, OS_Yield, Calls, QInv
<1>3. CASE UNCHANGED <<processes, current, sporadic, halted>>
  BY <1>1, <1>3 DEF QInv
<1>4. ASSUME NEW t, NEW procs, NEW dq \in Queue, SameTable(processes, procs), Sound(procs),
             check_schedule(t, procs, dq)
      PROVE  QInv'
  <2>1. /\ Exact(sporadic, procs) /\ HasIdle(procs) /\ Table(procs, pid_counter)
        /\ ScheduleShaped(t, procs, dq) /\ procs \in [Slots -> Process]
    BY <1>4, ScheduleShapeQ DEF Sound
  <2>2. sporadic' = sporadic \/ (sporadic.length > 0 /\ sporadic' = Rotate(sporadic))
    BY <2>1 DEF ScheduleShaped
  <2>3. Exact(sporadic', procs)
    BY <2>1, <2>2, QTypes, ExactRotate
  <2>4. SameTable(procs, processes')
    BY <2>1 DEF ScheduleShaped
  <2>5. Exact(sporadic', processes') /\ Table(processes', pid_counter')
        /\ LiveSlots(processes') = LiveSlots(procs) /\ LiveSlots(procs) \subseteq Slots
    BY <1>1, <2>1, <2>3, <2>4, ExactSame, SameTableKeeps DEF LiveSlots
  <2>6. HasIdle(processes')
    BY <2>1, <2>4, <2>5 DEF HasIdle, SameTable
  <2> QED
    BY <1>1, <1>2, <2>5, <2>6 DEF QInv
<1> QED
  BY <1>3, <1>4, SchedulerCalled

LEMMA QInvCreated ==
  ASSUME QInv, TInv', NEW level \in {DEVICE, PERIODIC, SPORADIC}, NEW n \in Nat,
         OS_Create(level, n),
         level = DEVICE => n \in DeviceRates, level = SPORADIC => n \in SporadicNames
  PROVE  QInv'
<1>1. current' = current /\ timer_on' = timer_on
  BY DEF OS_Create
<1>2. CASE UNCHANGED <<processes, sporadic, pid_counter>>
  BY <1>1, <1>2 DEF QInv
<1>3. CASE ~UNCHANGED <<processes, sporadic, pid_counter>>
  <2>1. /\ Table(processes', pid_counter')
        /\ IF level = SPORADIC
           THEN sporadic.length < MAXPROCESS /\ sporadic' = Enqueue(sporadic, pid_counter)
           ELSE sporadic' = sporadic
    BY <1>3, CreateShape
  <2>2. PICK slot \in FreeSlots(processes) :
          /\ processes'[slot].pid = pid_counter /\ processes'[slot].level = level
          /\ LiveSlots(processes') = LiveSlots(processes) \union {slot}
          /\ \A i \in LiveSlots(processes) : /\ processes'[i] = processes[i] /\ i # slot
                                             /\ processes[i].pid < pid_counter
    BY <1>3, CreateShape
  <2>3. \A i \in LiveSlots(processes) : processes[i].pid \in Nat
    BY QTypes DEF Process
  <2>4. HasIdle(processes')
    BY <2>2 DEF QInv, HasIdle
  <2>5. CASE level = SPORADIC
    <3> DEFINE after == processes'
    <3>1. /\ after[slot].pid = pid_counter /\ after[slot].level = SPORADIC
          /\ LiveSlots(after) = LiveSlots(processes) \union {slot}
          /\ \A i \in LiveSlots(processes) :
               /\ after[i] = processes[i] /\ i # slot
               /\ processes[i].pid \in Nat /\ processes[i].pid < pid_counter
      BY <2>2, <2>3, <2>5
    <3> HIDE DEF after
    <3>2. Exact(Enqueue(sporadic, pid_counter), after)
      <4>1. sporadic \in Queue /\ Exact(sporadic, processes) /\ pid_counter \in Nat
            /\ sporadic.length < MAXPROCESS
        BY <2>1, <2>5, QTypes DEF QInv
      <4> QED
        BY <3>1, <4>1, ExactEnqueue
    <3> QED
      BY <1>1, <2>1, <2>4, <2>5, <3>2 DEF QInv, after
  <2>6. CASE level # SPORADIC
    <3>1. OfLevel(SPORADIC, processes') = OfLevel(SPORADIC, processes)
      BY <2>2, <2>6 DEF OfLevel
    <3>2. \A i \in OfLevel(SPORADIC, processes) : processes'[i] = processes[i]
      BY <2>2 DEF OfLevel
    <3>3. Exact(sporadic, processes')
      BY <3>1, <3>2 DEF QInv, Exact
    <3> QED
      BY <1>1, <2>1, <2>4, <2>6, <3>3 DEF QInv
  <2> QED
    BY <2>5, <2>6
<1> QED
  BY <1>2, <1>3

LEMMA QInvTerminated ==
  ASSUME QInv, TInv', OS_Terminate
  PROVE  QInv'
<1>1. timer_on' = timer_on /\ pid_counter' = pid_counter
  BY DEF OS_Terminate
<1>2. CASE UNCHANGED <<processes, sporadic, current>>
  BY <1>1, <1>2 DEF QInv
<1>3. CASE ~UNCHANGED <<processes, sporadic, current>>
  <2>1. Table(processes', pid_counter') /\ current' = INVALIDPID
    BY <1>1, <1>3, TerminateShape
  <2>2. PICK slot \in LiveSlots(processes) :
          /\ processes[slot].pid = current /\ processes[slot].level # IDLE_PRIORITY
          /\ LiveSlots(processes') = LiveSlots(processes) \ {slot}
          /\ \A i \in LiveSlots(processes') : processes'[i] = processes[i]
          /\ IF processes[slot].level = SPORADIC
             THEN Front(sporadic) = current /\ sporadic' = Dequeue(sporadic)
             ELSE sporadic' = sporadic
    BY <1>1, <1>3, TerminateShape
  <2>3. HasIdle(processes')
    <3>1. PICK i \in LiveSlots(processes) : processes[i].pid = idle_pid
      BY DEF QInv, HasIdle
    <3>2. i # slot
      BY <2>2, <3>1, QTypes
    <3> QED
      BY <2>2, <3>1, <3>2 DEF HasIdle
  <2>4. Exact(sporadic', processes')
    <3>1. CASE processes[slot].level = SPORADIC
      <4> DEFINE after == processes'
      <4>1. /\ LiveSlots(after) = LiveSlots(processes) \ {slot}
            /\ \A i \in LiveSlots(after) : after[i] = processes[i]
            /\ slot \in OfLevel(SPORADIC, processes) /\ Front(sporadic) = processes[slot].pid
        BY <2>2, <3>1 DEF OfLevel
      <4> HIDE DEF after
      <4>2. Exact(Dequeue(sporadic), after)
        BY <4>1, QTypes, ExactDequeue DEF QInv
      <4> QED
        BY <2>2, <3>1, <4>2 DEF after
    <3>2. CASE processes[slot].level # SPORADIC
      <4>1. /\ OfLevel(SPORADIC, processes') = OfLevel(SPORADIC, processes)
            /\ \A i \in OfLevel(SPORADIC, processes) : processes'[i] = processes[i]
        BY <2>2, <3>2 DEF OfLevel
      <4> QED
        BY <2>2, <3>2, <4>1 DEF QInv, Exact
    <3> QED
      BY <3>1, <3>2
  <2> QED
    BY <2>1, <2>3, <2>4 DEF QInv
<1> QED
  BY <1>2, <1>3

LEMMA QInvStep == QInv /\ [Next]_vars => QInv'
<1> SUFFICES ASSUME QInv, [Next]_vars PROVE QInv'
  OBVIOUS
<1>1. TInv'
  BY TInvStep DEF QInv
<1>2. CASE irq_install
  BY <1>1, <1>2 DEF irq_install, QInv
<1>3. CASE timer_callback \/ OS_Yield
  BY <1>1, <1>3, QInvCalled
<1>4. ASSUME NEW level \in {DEVICE, PERIODIC, SPORADIC},
             NEW n \in IF level = DEVICE THEN DeviceRates
                       ELSE IF level = PERIODIC THEN PeriodicNames ELSE SporadicNames,
             OS_Create(level, n)
      PROVE  QInv'
  BY <1>1, <1>4, QInvCreated DEF DEVICE, PERIODIC, SPORADIC
<1>5. CASE OS_Terminate
  BY <1>1, <1>5, QInvTerminated
<1>6. CASE UNCHANGED vars
  BY <1>1, <1>6 DEF vars, QInv
<1> QED
  BY <1>2, <1>3, <1>4, <1>5, <1>6 DEF Next, DEVICE, PERIODIC, SPORADIC

\* The ring of SPORADIC processes holds each live SPORADIC process once and nothing
\* else, through every creation, termination, yield and rotation, whatever names and
\* rates are used and however long devices keep the CPU.
THEOREM SporadicsQueuedOnce == Spec => []SporadicQueueExact
<1>1. QInv => SporadicQueueExact
  <2> SUFFICES ASSUME QInv PROVE SporadicQueueExact
    OBVIOUS
  <2>1. LiveAt(SPORADIC) = OfLevel(SPORADIC, processes)
    BY DEF LiveAt, OfLevel
  <2>2. sporadic.length = Cardinality(LiveAt(SPORADIC))
    BY <2>1, QTypes, ExactCount DEF QInv
  <2>3. Queued(sporadic) = {Nth(sporadic, k) : k \in 0 .. sporadic.length - 1}
    BY DEF Queued, Window, Nth
  <2>4. Queued(sporadic) = {processes[i].pid : i \in LiveAt(SPORADIC)}
    BY <2>1, <2>3 DEF QInv, Exact
  <2> QED
    BY <2>2, <2>4 DEF SporadicQueueExact
<1> QED
  BY <1>1, QInvInit, QInvStep, PTL DEF Spec

-----------------------------------------------------------------------------
(* Who runs.                                                               *)

\* Both invariants, and what IInv says of the SPORADIC process that runs in every
\* state, the ones in which the CPU has stopped included.
LevelInv ==
  /\ IInv /\ QInv
  /\ \A i \in OfLevel(SPORADIC, processes) : processes[i].pid = current => Front(sporadic) = current
  /\ current = idle_pid => sporadic.length = 0

LEMMA LevelInvInit == Init => LevelInv
<1> SUFFICES ASSUME Init PROVE LevelInv
  OBVIOUS
<1>1. current = INVALIDPID
  BY DEF Init
<1>2. \A i \in LiveSlots(processes) : processes[i].pid # current
  BY <1>1 DEF LiveSlots, FreeSlots
<1> QED
  BY <1>1, <1>2, IInvInit, QInvInit DEF LevelInv, OfLevel, idle_pid, INVALIDPID

\* The scheduler gives the CPU to idle only when no SPORADIC process is ready.
LEMMA IdleCalled ==
  ASSUME NoNameCollision, LevelInv, IInv', QInv', timer_callback \/ OS_Yield,
         current' = idle_pid
  PROVE  sporadic'.length = 0
<1>1. CASE UNCHANGED <<current, sporadic>>
  BY <1>1 DEF LevelInv
<1>2. ASSUME NEW t, NEW procs, NEW dq \in Queue, SameTable(processes, procs), Sound(procs),
             check_schedule(t, procs, dq)
      PROVE  sporadic'.length = 0
  <2>1. ScheduleShaped(t, procs, dq) /\ Table(procs, pid_counter) /\ procs \in [Slots -> Process]
    BY <1>2, ScheduleShapeQ DEF LevelInv, Sound
  <2>2. CASE current' = current
    <3>1. sporadic.length = 0
      BY <2>2 DEF LevelInv
    <3>2. sporadic' = sporadic \/ sporadic.length > 0
      BY <2>1 DEF ScheduleShaped
    <3> QED
      BY <3>1, <3>2
  <2>3. CASE Planned(current', procs)
    <3>1. PICK k \in Plan : idle_pid = pid_from_name(procs, PPP[k])
      BY <2>3 DEF Planned
    <3>2. PPP[k] \in Int /\ PPP[k] \in PlanNames
      BY NumberTypes DEF PlanNames
    <3>3. pid_from_name(procs, PPP[k]) # INVALIDPID
      BY <3>1 DEF idle_pid, INVALIDPID
    <3>4. PICK i \in LiveSlots(procs) : procs[i].n = PPP[k] /\ procs[i].pid = idle_pid
      BY <2>1, <3>1, <3>2, <3>3, PidFromName
    <3>5. PPP[k] = 0
      BY <2>1, <3>4 DEF Table
    <3> QED
      BY <3>2, <3>5 DEF NoNameCollision
  <2>4. CASE \E k \in Slots : device'.buf[k] = current'
    <3>1. PICK k \in Slots : device'.buf[k] = idle_pid
      BY <2>4
    <3>2. Holds(device', DEVICE, processes', pid_counter') /\ HasIdle(processes')
          /\ Table(processes', pid_counter')
      BY DEF IInv, QInv
    <3>3. PICK i \in LiveSlots(processes') : processes'[i].pid = idle_pid
      BY <3>2 DEF HasIdle
    <3>4. processes'[i].level = DEVICE /\ processes'[i].level = IDLE_PRIORITY
      BY <3>1, <3>2, <3>3 DEF Holds, Table
    <3> QED
      BY <3>4 DEF DEVICE, IDLE_PRIORITY
  <2> QED
    BY <2>1, <2>2, <2>3, <2>4 DEF ScheduleShaped
<1> QED
  BY <1>1, <1>2, SchedulerCalled DEF LevelInv

\* A decision that stops the CPU leaves the ring and the live process that runs.
LEMMA HeadCalled ==
  ASSUME LevelInv, timer_callback \/ OS_Yield, halted' # "no",
         NEW i \in OfLevel(SPORADIC, processes'), processes'[i].pid = current'
  PROVE  Front(sporadic') = current'
<1>1. halted = "no"
  BY DEF timer_callback, OS_Yield, Calls
<1>2. CASE UNCHANGED <<current, sporadic, processes, halted, device>>
  BY <1>1, <1>2
<1>3. ASSUME NEW t, NEW procs, NEW dq \in Queue, SameTable(processes, procs), Sound(procs),
             check_schedule(t, procs, dq)
      PROVE  Front(sporadic') = current'
  <2>1. ScheduleShaped(t, procs, dq) /\ procs \in [Slots -> Process]
    BY <1>3, ScheduleShapeQ DEF LevelInv, Sound
  <2>0. sporadic' = sporadic /\ (current' = current \/ Lost(procs))
        /\ SameTable(procs, processes')
    BY <1>1, <2>1 DEF ScheduleShaped
  <2>3. /\ LiveSlots(processes') = LiveSlots(processes) /\ LiveSlots(processes) \subseteq Slots
        /\ LiveSlots(procs) = LiveSlots(processes)
    BY <1>3, <2>0, <2>1, SameTableKeeps, QTypes DEF LevelInv
  <2>2. current' = current /\ sporadic' = sporadic /\ SameTable(procs, processes')
    <3>1. Live(procs, current')
      BY <2>0, <2>3 DEF OfLevel, Live, SameTable
    <3> QED
      BY <2>0, <3>1 DEF Lost
  <2>4. i \in OfLevel(SPORADIC, processes) /\ processes[i].pid = current
    BY <1>3, <2>2, <2>3 DEF OfLevel, SameTable
  <2> QED
    BY <2>2, <2>4 DEF LevelInv
<1> QED
  BY <1>2, <1>3, SchedulerCalled DEF LevelInv

\* The process that runs is neither a new one nor, while processes are created, idle.
LEMMA CurrentCreates ==
  ASSUME LevelInv, NEW level, NEW n, OS_Create(level, n)
  PROVE  /\ current' = current /\ halted' = halted /\ current < pid_counter
         /\ current # idle_pid
         /\ halted # "no" => current = INVALIDPID
<1>1. current' = current /\ halted' = halted
  BY DEF OS_Create
<1>2. CASE ~timer_on
  BY <1>1, <1>2, QTypes DEF LevelInv, QInv, INVALIDPID, idle_pid
<1>3. CASE Calls("create")
  <2>1. /\ Live(processes, current) /\ CurrentProcess(processes).level # IDLE_PRIORITY
        /\ halted = "no"
    BY <1>3 DEF Calls, LevelInv, QInv, TInv, RunsLive
  <2>2. PICK i \in LiveSlots(processes) : processes[i] = CurrentProcess(processes)
                                         /\ processes[i].pid = current
    BY <2>1, QTypes, CurrentProcessType DEF LevelInv, CurrentProcess
  <2>3. current < pid_counter /\ current # idle_pid
    BY <2>1, <2>2 DEF LevelInv, QInv, Table
  <2> QED
    BY <1>1, <2>1, <2>3
<1> QED
  BY <1>2, <1>3 DEF OS_Create

LEMMA LevelInvStep ==
  ASSUME NoNameCollision
  PROVE  LevelInv /\ [Next]_vars => LevelInv'
<1> SUFFICES ASSUME LevelInv, [Next]_vars PROVE LevelInv'
  OBVIOUS
<1>1. IInv' /\ QInv'
  BY IInvStep, QInvStep DEF LevelInv
<1>2. ASSUME NEW i \in OfLevel(SPORADIC, processes'), processes'[i].pid = current',
             halted' = "no"
      PROVE  Front(sporadic') = current'
  BY <1>1, <1>2 DEF IInv, HeadsOf, OfLevel
<1> DEFINE AtHead == \A i \in OfLevel(SPORADIC, processes') :
                       processes'[i].pid = current' => Front(sporadic') = current'
           Idle == current' = idle_pid => sporadic'.length = 0
<1>3. CASE UNCHANGED <<processes, current, sporadic>>
  BY <1>1, <1>3 DEF LevelInv
<1>4. CASE timer_callback \/ OS_Yield
  <2>1. Idle
    BY <1>1, <1>4, IdleCalled
  <2>2. AtHead
    BY <1>2, <1>4, HeadCalled DEF LevelInv
  <2> QED
    BY <1>1, <2>1, <2>2 DEF LevelInv
<1>5. ASSUME NEW level, NEW n, OS_Create(level, n)
      PROVE  LevelInv'
  <2>1. Idle
    BY <1>5, CurrentCreates
  <2>2. AtHead
    <3>1. CASE halted' = "no"
      BY <1>2, <3>1
    <3>2. CASE halted' # "no"
      <4>1. current' = INVALIDPID
        BY <1>5, <3>2, CurrentCreates
      <4> QED
        BY <4>1 DEF OfLevel, LiveSlots, FreeSlots
    <3> QED
      BY <3>1, <3>2
  <2> QED
    BY <1>1, <2>1, <2>2 DEF LevelInv
<1>6. CASE OS_Terminate
  <2>1. CASE UNCHANGED <<processes, sporadic, current>>
    BY <1>3, <2>1
  <2>2. CASE current' = INVALIDPID
    <3>1. AtHead
      BY <2>2 DEF OfLevel, LiveSlots, FreeSlots
    <3>2. Idle
      BY <2>2 DEF INVALIDPID, idle_pid
    <3> QED
      BY <1>1, <3>1, <3>2 DEF LevelInv
  <2> QED
    BY <1>6, <2>1, <2>2, TerminateShape DEF LevelInv
<1> QED
  BY <1>3, <1>4, <1>5, <1>6 DEF Next, vars, irq_install

\* The process of a level that runs is the one at the slot of `current`.
LEMMA RunsLevel ==
  ASSUME QInv, NEW level
  PROVE  Runs(level) <=> \E i \in OfLevel(level, processes) : processes[i].pid = current
<1>1. CASE current = INVALIDPID
  BY <1>1 DEF Runs, OfLevel, LiveSlots, FreeSlots
<1>2. CASE ~Live(processes, current)
  BY <1>2 DEF Runs, OfLevel, Live
<1>3. CASE current # INVALIDPID /\ Live(processes, current)
  <2> DEFINE index == process_index_from_pid(processes, current)
  <2>1. Live(processes, current)
    BY <1>3
  <2>2. /\ index \in LiveSlots(processes) /\ processes[index].pid = current
        /\ CurrentProcess(processes) = processes[index]
    BY <2>1, QTypes, CurrentProcessType DEF CurrentProcess
  <2> HIDE DEF index
  <2>3. \A i \in LiveSlots(processes) : processes[i].pid = current => i = index
    BY <2>2, QTypes DEF Unique
  <2> QED
    BY <1>3, <2>2, <2>3 DEF Runs, OfLevel
<1> QED
  BY <1>1, <1>2, <1>3

\* A SPORADIC process runs only from the front of its queue, also when the CPU has
\* stopped, as long as no rate, no SPORADIC "n" and not 0 is a name of the plan.
THEOREM SporadicIsHead ==
  ASSUME NoNameCollision
  PROVE  Spec => []RunningSporadicIsHead
<1>1. LevelInv => RunningSporadicIsHead
  <2> SUFFICES ASSUME LevelInv, Runs(SPORADIC)
               PROVE  sporadic.length > 0 /\ Front(sporadic) = current
    BY DEF RunningSporadicIsHead
  <2>1. PICK i \in OfLevel(SPORADIC, processes) : processes[i].pid = current
    BY RunsLevel DEF LevelInv
  <2>2. PICK k \in 0 .. sporadic.length - 1 : Nth(sporadic, k) = current
    BY <2>1 DEF LevelInv, QInv, Exact
  <2>3. sporadic.length \in Nat
    BY QTypes DEF LevelInv
  <2> QED
    BY <2>1, <2>2, <2>3 DEF LevelInv
<1> QED
  BY <1>1, LevelInvInit, LevelInvStep, PTL DEF Spec

\* Under the same condition idle runs only when no SPORADIC process is ready.
THEOREM NothingReadyWhenIdle ==
  ASSUME NoNameCollision
  PROVE  Spec => []IdleOnlyWhenNothingReady
<1>1. LevelInv => IdleOnlyWhenNothingReady
  BY DEF LevelInv, IdleOnlyWhenNothingReady
<1> QED
  BY <1>1, LevelInvInit, LevelInvStep, PTL DEF Spec

\* The invariant behind the assertions of the kernel holds in every state.
THEOREM InvariantHolds ==
  ASSUME NoNameCollision
  PROVE  Spec => []IInv
<1> QED
  BY IInvInit, IInvStep, PTL DEF Spec

\* What a call of the scheduler leaves, when it stops the CPU too.
LEMMA LiveCalled ==
  ASSUME QInv, QInv', timer_callback \/ OS_Yield, CurrentIsLive
  PROVE  CurrentIsLive'
<1>1. halted = "no"
  BY DEF timer_callback, OS_Yield, Calls
<1>2. CASE UNCHANGED <<processes, current, sporadic, halted, device>>
  BY <1>2 DEF CurrentIsLive, Live, LiveSlots, FreeSlots, Front
<1>3. ASSUME NEW t, NEW procs, NEW dq \in Queue, SameTable(processes, procs), Sound(procs),
             check_schedule(t, procs, dq)
      PROVE  CurrentIsLive'
  <2>1. ScheduleShaped(t, procs, dq) /\ procs \in [Slots -> Process]
    BY <1>3, ScheduleShapeQ DEF Sound
  <2>2. CASE halted' = "no"
    BY <2>2 DEF QInv, TInv, RunsLive, CurrentIsLive
  <2>3. CASE halted' # "no" /\ Lost(procs)
    BY <2>3 DEF Lost, CurrentIsLive
  <2>4. CASE current' = current
    <3>1. SameTable(procs, processes') /\ LiveSlots(processes') = LiveSlots(procs)
      BY <2>1, SameTableKeeps DEF ScheduleShaped
    <3>2. \A pid : Live(procs, pid) => Live(processes', pid)
      BY <2>1, <3>1 DEF Live, LiveSlots, SameTable
    <3> QED
      BY <1>3, <2>4, <3>2 DEF Sound, CurrentIsLive
  <2> QED
    BY <1>1, <2>1, <2>2, <2>3, <2>4 DEF ScheduleShaped
<1> QED
  BY <1>2, <1>3, SchedulerCalled

LEMMA LiveStep == QInv /\ QInv' /\ CurrentIsLive /\ [Next]_vars => CurrentIsLive'
<1> SUFFICES ASSUME QInv, QInv', CurrentIsLive, [Next]_vars PROVE CurrentIsLive'
  OBVIOUS
<1>1. CASE timer_callback \/ OS_Yield
  BY <1>1, LiveCalled
<1>2. CASE halted' = "no"
  BY <1>2 DEF QInv, TInv, RunsLive, CurrentIsLive
<1>3. CASE UNCHANGED <<processes, current, halted, device>>
  BY <1>3 DEF CurrentIsLive, Live, LiveSlots, FreeSlots, Front
<1>4. ASSUME NEW level \in {DEVICE, PERIODIC, SPORADIC}, NEW n, OS_Create(level, n),
             halted' # "no"
      PROVE  CurrentIsLive'
  <2>1. current' = current /\ current = INVALIDPID
    BY <1>4 DEF OS_Create, Calls, QInv
  <2> QED
    BY <2>1 DEF CurrentIsLive
<1>5. CASE OS_Terminate
  <2>1. UNCHANGED <<processes, current, device>> \/ halted' = "no"
    BY <1>5, Zenon DEF OS_Terminate, Calls
  <2>2. CASE UNCHANGED <<processes, current, device>>
    <3>1. halted = "no"
      BY <1>5 DEF OS_Terminate, Calls
    <3>2. current # INVALIDPID => Live(processes, current)
      BY <3>1 DEF QInv, TInv, RunsLive
    <3> QED
      BY <2>2, <3>2 DEF CurrentIsLive, Live, LiveSlots, FreeSlots
  <2> QED
    BY <1>2, <2>1, <2>2
<1> QED
  BY <1>1, <1>2, <1>3, <1>4, <1>5 DEF Next, vars, irq_install, DEVICE, PERIODIC, SPORADIC

\* Whatever names and rates are used, the only PID the kernel ever switches to that is in
\* no slot, which stops the CPU, is the front of the device queue: the plan, the ring of
\* SPORADIC processes and idle always name a live process.
THEOREM CurrentAlwaysLive == Spec => []CurrentIsLive
<1>1. Init => CurrentIsLive
  BY DEF Init, CurrentIsLive
<1> QED
  BY <1>1, QInvInit, QInvStep, LiveStep, PTL DEF Spec

\* A tick that takes the CPU from a SPORADIC process that has not yielded leaves it
\* at the front of its queue.
THEOREM PreemptedKeepsFront ==
  ASSUME NoNameCollision
  PROVE  Spec => PreemptedSporadicKeepsFront
<1> DEFINE Kept == Runs(SPORADIC) /\ ~CurrentProcess(processes).yielded /\ tick' # tick
                     => Front(sporadic') = current
<1>1. LevelInv /\ [Next]_vars => [Kept]_vars
  <2> SUFFICES ASSUME LevelInv, [Next]_vars, Runs(SPORADIC),
                      ~CurrentProcess(processes).yielded, tick' # tick
               PROVE  Front(sporadic') = current
    OBVIOUS
  <2>1. timer_callback
    BY DEF Next, irq_install, OS_Create, OS_Terminate, OS_Yield, vars, clock
  <2>2. Front(sporadic) = current
    <3>1. \E i \in OfLevel(SPORADIC, processes) : processes[i].pid = current
      BY RunsLevel DEF LevelInv
    <3> QED
      BY <3>1 DEF LevelInv
  <2>3. CASE UNCHANGED <<processes, current, sporadic, halted, device>>
    BY <2>2, <2>3
  <2>4. ASSUME NEW t, NEW procs, NEW dq \in Queue, SameTable(processes, procs), Sound(procs),
               check_schedule(t, procs, dq), procs = processes
        PROVE  Front(sporadic') = current
    <3>1. ScheduleShaped(t, procs, dq)
      BY <2>4, ScheduleShapeQ DEF LevelInv
    <3>2. sporadic' = sporadic
      BY <2>4, <3>1 DEF ScheduleShaped
    <3> QED
      BY <2>2, <3>2
  <2> QED
    BY <2>1, <2>3, <2>4, SchedulerCalled DEF LevelInv
<1>2. LevelInv /\ [Next]_vars => [Runs(SPORADIC) /\ ~CurrentProcess(processes).yielded
                                    /\ tick' # tick => Front(sporadic') = current]_vars
  BY <1>1
<1> HIDE DEF Kept
<1> QED
  BY <1>2, LevelInvInit, LevelInvStep, PTL DEF Spec, PreemptedSporadicKeepsFront

-----------------------------------------------------------------------------
(* The ring implements the queue of SporadicLevel.                         *)

Line(q) == [k \in 1 .. q.length |-> Nth(q, k - 1)]
Serves == IF Runs(SPORADIC) THEN current ELSE INVALIDPID

LEMMA LineType ==
  ASSUME NEW q \in Queue
  PROVE  /\ Line(q) \in Seq(Nat) /\ Len(Line(q)) = q.length
         /\ \A k \in 1 .. q.length : Line(q)[k] = Nth(q, k - 1)
<1>1. q.length \in Nat
  BY DEF Queue, Words
<1>2. ASSUME NEW k \in 1 .. q.length PROVE Nth(q, k - 1) \in Nat
  <2>1. k - 1 \in Nat
    BY <1>1
  <2>2. Position(q, k - 1) \in Slots
    BY <2>1, QueueTypes DEF INVALIDPID
  <2> QED
    BY <2>2 DEF Queue, Nth
<1>3. Line(q) \in [1 .. q.length -> Nat]
  BY <1>2 DEF Line
<1>4. Line(q) \in Seq(Nat) /\ Len(Line(q)) = q.length
  BY <1>1, <1>3
<1> QED
  BY <1>4 DEF Line

\* The lines of two rings that differ by an entry at the end, by the front, or by the
\* place of the front.
LEMMA LineAppend ==
  ASSUME NEW q \in Queue, NEW r \in Queue, NEW pid \in Nat, r.length = q.length + 1,
         \A k \in 0 .. q.length - 1 : Nth(r, k) = Nth(q, k), Nth(r, q.length) = pid
  PROVE  Line(r) = Append(Line(q), pid)
<1> DEFINE old == Line(q)
           new == Line(r)
<1>1. PICK n \in Nat : n = q.length
  BY DEF Queue, Words
<1>2. /\ old \in Seq(Nat) /\ Len(old) = n /\ new \in Seq(Nat) /\ Len(new) = n + 1
      /\ \A k \in 1 .. n : old[k] = Nth(q, k - 1)
      /\ \A k \in 1 .. n + 1 : new[k] = Nth(r, k - 1)
  BY <1>1, LineType
<1> HIDE DEF old, new
<1>3. \A k \in 1 .. n : k \in 1 .. n + 1 /\ k - 1 \in 0 .. n - 1
  OBVIOUS
<1>4. \A k \in 1 .. n : new[k] = old[k]
  BY <1>1, <1>2, <1>3
<1>5. new[n + 1] = pid
  BY <1>1, <1>2, SMTT(30)
<1>6. /\ Append(old, pid) \in Seq(Nat) /\ Len(Append(old, pid)) = n + 1
      /\ \A k \in 1 .. n + 1 : Append(old, pid)[k] = IF k = n + 1 THEN pid ELSE old[k]
  BY <1>2
<1>7. \A k \in 1 .. n + 1 : new[k] = Append(old, pid)[k]
  BY <1>4, <1>5, <1>6
<1>8. new = Append(old, pid)
  BY <1>2, <1>6, <1>7, SeqEqual
<1> QED
  BY <1>8 DEF old, new

LEMMA LineTail ==
  ASSUME NEW q \in Queue, q.length > 0
  PROVE  /\ Line(q) # <<>> /\ Head(Line(q)) = Front(q)
         /\ Tail(Line(q)) \in Seq(Nat) /\ Len(Tail(Line(q))) = q.length - 1
         /\ \A k \in 1 .. q.length - 1 : Tail(Line(q))[k] = Nth(q, k)
<1> DEFINE old == Line(q)
<1>1. PICK n \in Nat : n = q.length
  BY DEF Queue, Words
<1>2. old \in Seq(Nat) /\ Len(old) = n /\ \A k \in 1 .. n : old[k] = Nth(q, k - 1)
  BY <1>1, LineType
<1>3. n > 0 /\ Front(q) = Nth(q, 0)
  BY <1>1, NthFront
<1> HIDE DEF old
<1>4. old # <<>> /\ Head(old) = old[1] /\ 1 \in 1 .. n
  BY <1>2, <1>3
<1>5. /\ Tail(old) \in Seq(Nat) /\ Len(Tail(old)) = n - 1
      /\ \A k \in 1 .. n - 1 : Tail(old)[k] = old[k + 1]
  BY <1>2, <1>3
<1>6. \A k \in 1 .. n - 1 : k + 1 \in 1 .. n /\ (k + 1) - 1 = k
  OBVIOUS
<1>7. \A k \in 1 .. n - 1 : Tail(old)[k] = Nth(q, k)
  BY <1>2, <1>5, <1>6
<1>8. Head(old) = Front(q)
  BY <1>2, <1>3, <1>4
<1> QED
  BY <1>1, <1>4, <1>5, <1>7, <1>8 DEF old

LEMMA LineDequeue ==
  ASSUME NEW q \in Queue, NEW r \in Queue, q.length > 0, r.length = q.length - 1,
         \A k \in 0 .. q.length - 2 : Nth(r, k) = Nth(q, k + 1)
  PROVE  Line(r) = Tail(Line(q))
<1> DEFINE rest == Tail(Line(q))
           new == Line(r)
<1>1. PICK n \in Nat : n = q.length
  BY DEF Queue, Words
<1>2. rest \in Seq(Nat) /\ Len(rest) = n - 1 /\ \A k \in 1 .. n - 1 : rest[k] = Nth(q, k)
  BY <1>1, LineTail
<1>3. new \in Seq(Nat) /\ Len(new) = n - 1 /\ \A k \in 1 .. n - 1 : new[k] = Nth(r, k - 1)
  BY <1>1, LineType
<1> HIDE DEF rest, new
<1>4. \A k \in 1 .. n - 1 : k - 1 \in 0 .. n - 2 /\ (k - 1) + 1 = k
  OBVIOUS
<1>5. \A k \in 1 .. n - 1 : new[k] = rest[k]
  BY <1>1, <1>2, <1>3, <1>4, SMTT(30)
<1>6. new = rest
  BY <1>2, <1>3, <1>5, SeqEqual
<1> QED
  BY <1>6 DEF new, rest

LEMMA LineRotate ==
  ASSUME NEW q \in Queue, NEW r \in Queue, q.length > 0, r.length = q.length,
         \A k \in 0 .. q.length - 2 : Nth(r, k) = Nth(q, k + 1),
         Nth(r, q.length - 1) = Nth(q, 0)
  PROVE  Line(r) = Append(Tail(Line(q)), Front(q))
<1> DEFINE rest == Tail(Line(q))
           new == Line(r)
<1>1. PICK n \in Nat : n = q.length
  BY DEF Queue, Words
<1>2. rest \in Seq(Nat) /\ Len(rest) = n - 1 /\ \A k \in 1 .. n - 1 : rest[k] = Nth(q, k)
  BY <1>1, LineTail
<1>3. new \in Seq(Nat) /\ Len(new) = n /\ \A k \in 1 .. n : new[k] = Nth(r, k - 1)
  BY <1>1, LineType
<1>4. PICK pid \in Nat : pid = Front(q)
  BY QueueTypes DEF INVALIDPID
<1>5. Nth(r, n - 1) = pid
  BY <1>1, <1>4, NthFront
<1> HIDE DEF rest, new
<1>6. \A k \in 1 .. n - 1 : k \in 1 .. n /\ k - 1 \in 0 .. n - 2 /\ (k - 1) + 1 = k
  OBVIOUS
<1>7. \A k \in 1 .. n - 1 : new[k] = rest[k]
  BY <1>1, <1>2, <1>3, <1>6, SMTT(30)
<1>8. n \in 1 .. n /\ new[n] = pid
  BY <1>1, <1>3, <1>5
<1>9. /\ Append(rest, pid) \in Seq(Nat) /\ Len(Append(rest, pid)) = n
      /\ \A k \in 1 .. n : Append(rest, pid)[k] = IF k = n THEN pid ELSE rest[k]
  BY <1>1, <1>2
<1>10. \A k \in 1 .. n : new[k] = Append(rest, pid)[k]
  BY <1>7, <1>8, <1>9
<1>11. new = Append(rest, pid)
  BY <1>3, <1>9, <1>10, SeqEqual
<1> QED
  BY <1>4, <1>11 DEF new, rest

HeadServed ==
  /\ SporadicQueue = Line(sporadic)
  /\ \/ Serves = INVALIDPID
     \/ sporadic.length > 0 /\ Serves = Front(sporadic) /\ Serves = current
  /\ sporadic.length > 0 => Front(sporadic) # INVALIDPID
  /\ Serves = current \/ \A i \in OfLevel(SPORADIC, processes) : processes[i].pid # current
  /\ Serves # INVALIDPID => \E i \in OfLevel(SPORADIC, processes) : processes[i].pid = current

LEMMA ServesHead == LevelInv => HeadServed
<1> SUFFICES ASSUME LevelInv PROVE HeadServed
  OBVIOUS
<1>1. SporadicQueue = Line(sporadic)
  BY DEF SporadicQueue, Line, Nth
<1>2. ASSUME Runs(SPORADIC) PROVE sporadic.length > 0 /\ Front(sporadic) = current
  <2>1. PICK i \in OfLevel(SPORADIC, processes) : processes[i].pid = current
    BY <1>2, RunsLevel DEF LevelInv
  <2>2. PICK k \in 0 .. sporadic.length - 1 : Nth(sporadic, k) = current
    BY <2>1 DEF LevelInv, QInv, Exact
  <2>3. sporadic.length \in Nat
    BY QTypes DEF LevelInv
  <2> QED
    BY <2>1, <2>2, <2>3 DEF LevelInv
<1>3. sporadic.length > 0 => Front(sporadic) # INVALIDPID
  BY QTypes, ExactFront DEF LevelInv, QInv
<1>4. /\ Serves = current \/ \A i \in OfLevel(SPORADIC, processes) : processes[i].pid # current
      /\ Serves # INVALIDPID => \E i \in OfLevel(SPORADIC, processes) : processes[i].pid = current
  BY RunsLevel DEF LevelInv, Serves
<1> QED
  BY <1>1, <1>2, <1>3, <1>4 DEF HeadServed, Serves

\* The same after a step.
LEMMA ServesHeadNext == LevelInv' => HeadServed'
  BY ServesHead, PTL

\* The process that runs and its level are those of before.
LEMMA ServesSame ==
  ASSUME LevelInv, LevelInv', current' = current,
         \A i \in LiveSlots(processes) :
           processes[i].pid = current =>
             /\ i \in LiveSlots(processes') /\ processes'[i].pid = current
             /\ processes'[i].level = processes[i].level,
         \A i \in LiveSlots(processes') :
           processes'[i].pid = current => i \in LiveSlots(processes)
                                            /\ processes[i].pid = current
  PROVE  Serves' = Serves
<1>1. HeadServed /\ HeadServed'
  BY ServesHead, ServesHeadNext
<1>2. (\E i \in OfLevel(SPORADIC, processes) : processes[i].pid = current)
        <=> \E i \in OfLevel(SPORADIC, processes') : processes'[i].pid = current
  BY DEF OfLevel
<1>3. current = INVALIDPID => Serves = INVALIDPID /\ Serves' = INVALIDPID
  BY <1>1 DEF HeadServed
<1> QED
  BY <1>1, <1>2, <1>3 DEF HeadServed

\* The step of the queue that a step of the scheduler takes.
QueueStep ==
  \/ SporadicQueue' = SporadicQueue /\ Serves' = Serves
  \/ \E p \in 2 .. MaxPid : /\ p \notin Level!Range(SporadicQueue)
                            /\ SporadicQueue' = Append(SporadicQueue, p) /\ Serves' = Serves
  \/ /\ Serves = INVALIDPID /\ SporadicQueue # <<>>
     /\ Serves' = Head(SporadicQueue) /\ SporadicQueue' = SporadicQueue
  \/ Serves # INVALIDPID /\ Serves' = INVALIDPID /\ SporadicQueue' = SporadicQueue
  \/ /\ Serves # INVALIDPID /\ SporadicQueue' = Append(Tail(SporadicQueue), Serves)
     /\ Serves' = Head(SporadicQueue')
  \/ Serves # INVALIDPID /\ Serves' = INVALIDPID /\ SporadicQueue' = Tail(SporadicQueue)

LEMMA ServesCalled ==
  ASSUME LevelInv, LevelInv', timer_callback \/ OS_Yield
  PROVE  QueueStep
<1>1. HeadServed /\ HeadServed'
  BY ServesHead, ServesHeadNext
<1>2. sporadic \in Queue /\ sporadic' \in Queue
  BY DEF LevelInv, IInv, TInv, TypeOK
<1>3. CASE sporadic' = sporadic
  <2>1. SporadicQueue' = SporadicQueue
    BY <1>1, <1>3 DEF HeadServed
  <2>2. sporadic.length > 0 => SporadicQueue # <<>> /\ Head(SporadicQueue) = Front(sporadic)
    BY <1>1, <1>2, LineTail DEF HeadServed
  <2> QED
    BY <1>1, <1>3, <2>1, <2>2 DEF HeadServed, QueueStep
<1>4. ASSUME NEW t, NEW procs, NEW dq \in Queue, SameTable(processes, procs), Sound(procs),
             check_schedule(t, procs, dq), sporadic' # sporadic
      PROVE  QueueStep
  <2>1. ScheduleShaped(t, procs, dq) /\ procs \in [Slots -> Process]
        /\ LiveSlots(procs) = LiveSlots(processes)
    BY <1>4, ScheduleShapeQ DEF LevelInv, Sound
  <2>2. /\ current # INVALIDPID /\ CurrentProcess(procs).level = SPORADIC
        /\ sporadic.length > 0 /\ sporadic' = Rotate(sporadic) /\ current' = Front(sporadic')
    BY <1>4, <2>1 DEF ScheduleShaped
  <2>3. PICK i \in LiveSlots(procs) : procs[i].pid = current /\ procs[i].level = SPORADIC
    BY <1>4, <2>1, <2>2, CurrentProcessType DEF Sound, CurrentProcess
  <2>4. i \in OfLevel(SPORADIC, processes) /\ processes[i].pid = current
    BY <1>4, <2>1, <2>3, QTypes DEF LevelInv, OfLevel, SameTable
  <2>5. Serves = current /\ Serves = Front(sporadic)
    BY <1>1, <2>2, <2>4 DEF HeadServed
  <2>6. sporadic.length <= MAXPROCESS
    BY QTypes DEF LevelInv
  <2>7. /\ sporadic'.length = sporadic.length
        /\ Line(sporadic') = Append(Tail(Line(sporadic)), Front(sporadic))
    <3> DEFINE r == Rotate(sporadic)
    <3>1. r \in Queue
      BY <1>2, <2>2
    <3>2. /\ r.length = sporadic.length
          /\ \A k \in 0 .. sporadic.length - 2 : Nth(r, k) = Nth(sporadic, k + 1)
          /\ Nth(r, sporadic.length - 1) = Nth(sporadic, 0)
      BY <1>2, <2>2, <2>6, RotateNth
    <3> HIDE DEF r
    <3>3. Line(r) = Append(Tail(Line(sporadic)), Front(sporadic))
      BY <1>2, <2>2, <3>1, <3>2, LineRotate
    <3> QED
      BY <2>2, <3>2, <3>3 DEF r
  <2>8. SporadicQueue' = Append(Tail(SporadicQueue), Serves)
    BY <1>1, <2>5, <2>7 DEF HeadServed
  <2>9. Serves' = current'
    <3>1. processes' \in [Slots -> Process] /\ Exact(sporadic', processes') /\ sporadic'.length # 0
      BY <2>2, <2>7 DEF LevelInv, QInv, TInv, TypeOK
    <3>2. \E j \in OfLevel(SPORADIC, processes') : processes'[j].pid = Front(sporadic')
      <4> DEFINE r == sporadic'
                 after == processes'
      <4>1. r \in Queue /\ after \in [Slots -> Process] /\ Exact(r, after) /\ r.length # 0
        BY <1>2, <3>1
      <4> HIDE DEF r, after
      <4>2. \E j \in OfLevel(SPORADIC, after) : after[j].pid = Front(r)
        BY <4>1, ExactFront
      <4> QED
        BY <4>2 DEF r, after
    <3> QED
      BY <1>1, <2>2, <3>2 DEF HeadServed
  <2>10. Head(SporadicQueue') = Front(sporadic')
    <3>1. Head(Line(sporadic')) = Front(sporadic')
      BY <1>2, <2>2, <2>7, LineTail
    <3> QED
      BY <1>1, <3>1 DEF HeadServed
  <2> QED
    BY <2>2, <2>5, <2>8, <2>9, <2>10 DEF QueueStep
<1> QED
  BY <1>3, <1>4, SchedulerCalled DEF LevelInv

LEMMA ServesCreated ==
  ASSUME LevelInv, LevelInv', NEW level \in {DEVICE, PERIODIC, SPORADIC}, NEW n \in Nat,
         OS_Create(level, n),
         level = DEVICE => n \in DeviceRates, level = SPORADIC => n \in SporadicNames
  PROVE  QueueStep
<1>1. HeadServed /\ HeadServed' /\ QInv
  BY ServesHead, ServesHeadNext DEF LevelInv
<1>2. current' = current /\ current < pid_counter
  BY CurrentCreates
<1>3. CASE UNCHANGED <<processes, sporadic, pid_counter>>
  <2>1. Serves' = Serves
    BY <1>2, <1>3, ServesSame
  <2>2. SporadicQueue' = SporadicQueue
    BY <1>1, <1>3 DEF HeadServed
  <2> QED
    BY <2>1, <2>2 DEF QueueStep
<1>4. CASE ~UNCHANGED <<processes, sporadic, pid_counter>>
  <2>1. /\ pid_counter \in 2 .. MaxPid
        /\ IF level = SPORADIC
           THEN sporadic.length < MAXPROCESS /\ sporadic' = Enqueue(sporadic, pid_counter)
           ELSE sporadic' = sporadic
    BY <1>1, <1>4, CreateShape
  <2>2. PICK slot \in FreeSlots(processes) :
          /\ processes'[slot].pid = pid_counter /\ processes'[slot].level = level
          /\ LiveSlots(processes') = LiveSlots(processes) \union {slot}
          /\ \A i \in LiveSlots(processes) : /\ processes'[i] = processes[i] /\ i # slot
                                             /\ processes[i].pid < pid_counter
    BY <1>1, <1>4, CreateShape
  <2>3. Serves' = Serves
    <3>1. processes'[slot].pid # current
      BY <1>1, <1>2, <2>2, QTypes
    <3>2. \A i \in LiveSlots(processes) :
            i \in LiveSlots(processes') /\ processes'[i] = processes[i]
      BY <2>2
    <3>3. \A i \in LiveSlots(processes') : i = slot \/ i \in LiveSlots(processes)
      BY <2>2
    <3> QED
      BY <1>2, <3>1, <3>2, <3>3, ServesSame
  <2>4. CASE level # SPORADIC
    BY <1>1, <2>1, <2>3, <2>4 DEF HeadServed, QueueStep
  <2>5. CASE level = SPORADIC
    <3>1. sporadic \in Queue /\ sporadic' \in Queue /\ sporadic.length \in Nat
      BY <1>1, QTypes DEF LevelInv, IInv, TInv, TypeOK
    <3>2. SporadicQueue' = Append(SporadicQueue, pid_counter)
      <4> DEFINE r == Enqueue(sporadic, pid_counter)
      <4>1. r \in Queue /\ pid_counter \in Nat /\ sporadic.length < MAXPROCESS
        BY <2>1, <2>5, <3>1
      <4>2. /\ r.length = sporadic.length + 1
            /\ \A k \in 0 .. sporadic.length - 1 : Nth(r, k) = Nth(sporadic, k)
            /\ Nth(r, sporadic.length) = pid_counter
        BY <3>1, <4>1, EnqueueNth
      <4> HIDE DEF r
      <4>3. Line(r) = Append(Line(sporadic), pid_counter)
        BY <3>1, <4>1, <4>2, LineAppend
      <4> QED
        BY <1>1, <2>1, <2>5, <4>3 DEF HeadServed, r
    <3>3. pid_counter \notin Level!Range(SporadicQueue)
      <4>1. DOMAIN SporadicQueue = 1 .. sporadic.length
        BY DEF SporadicQueue
      <4>2. ASSUME NEW k \in 1 .. sporadic.length, SporadicQueue[k] = pid_counter PROVE FALSE
        <5>1. Nth(sporadic, k - 1) = pid_counter
          BY <4>2 DEF SporadicQueue, Nth
        <5>2. k - 1 \in 0 .. sporadic.length - 1
          BY <3>1
        <5>3. PICK i \in OfLevel(SPORADIC, processes) : processes[i].pid = pid_counter
          BY <1>1, <5>1, <5>2 DEF QInv, Exact
        <5> QED
          BY <1>1, <2>2, <5>3, QTypes DEF OfLevel
      <4> QED
        BY <4>1, <4>2 DEF Level!Range
    <3> QED
      BY <2>1, <2>3, <3>2, <3>3 DEF QueueStep
  <2> QED
    BY <2>4, <2>5
<1> QED
  BY <1>3, <1>4

LEMMA ServesTerminated ==
  ASSUME LevelInv, LevelInv', OS_Terminate
  PROVE  QueueStep
<1>1. HeadServed /\ HeadServed' /\ QInv
  BY ServesHead, ServesHeadNext DEF LevelInv
<1>2. CASE UNCHANGED <<processes, sporadic, current, pid_counter>>
  <2>1. Serves' = Serves
    BY <1>2, ServesSame
  <2> QED
    BY <1>1, <1>2, <2>1 DEF HeadServed, QueueStep
<1>3. CASE ~UNCHANGED <<processes, sporadic, current, pid_counter>>
  <2>1. current' = INVALIDPID
    BY <1>1, <1>3, TerminateShape
  <2>2. PICK slot \in LiveSlots(processes) :
          /\ processes[slot].pid = current
          /\ IF processes[slot].level = SPORADIC
             THEN Front(sporadic) = current /\ sporadic' = Dequeue(sporadic)
             ELSE sporadic' = sporadic
    BY <1>1, <1>3, TerminateShape
  <2>3. Serves' = INVALIDPID
    BY <1>1, <2>1 DEF HeadServed
  <2>4. CASE processes[slot].level # SPORADIC
    <3>1. \A i \in OfLevel(SPORADIC, processes) : processes[i].pid # current
      BY <1>1, <2>2, <2>4, QTypes DEF OfLevel, Unique
    <3>2. Serves = INVALIDPID
      BY <1>1, <3>1 DEF HeadServed
    <3> QED
      BY <1>1, <2>2, <2>3, <2>4, <3>2 DEF HeadServed, QueueStep
  <2>5. CASE processes[slot].level = SPORADIC
    <3>1. slot \in OfLevel(SPORADIC, processes) /\ Serves = current /\ current # INVALIDPID
      BY <1>1, <2>2, <2>5 DEF OfLevel, HeadServed, LiveSlots, FreeSlots
    <3>2. sporadic \in Queue /\ sporadic.length > 0 /\ sporadic.length <= MAXPROCESS
      BY <1>1, <3>1, QTypes DEF HeadServed
    <3> DEFINE r == Dequeue(sporadic)
    <3>3. /\ r \in Queue /\ r.length = sporadic.length - 1
          /\ \A k \in 0 .. sporadic.length - 2 : Nth(r, k) = Nth(sporadic, k + 1)
      BY <3>2, QueueTypes, DequeueNth DEF INVALIDPID
    <3> HIDE DEF r
    <3>4. Line(r) = Tail(Line(sporadic))
      BY <3>2, <3>3, LineDequeue
    <3>5. SporadicQueue' = Tail(SporadicQueue)
      BY <1>1, <2>2, <2>5, <3>4 DEF HeadServed, r
    <3> QED
      BY <2>3, <3>1, <3>5 DEF QueueStep
  <2> QED
    BY <2>4, <2>5
<1> QED
  BY <1>1, <1>2, <1>3, TerminateShape

\* As long as no rate, no SPORADIC "n" and not 0 is a name of the plan, the SPORADIC
\* level of the kernel is the queue that kernel.h promises: first come, first served,
\* to the front when pre-empted, to the end when it gives the CPU up.
THEOREM SporadicLevelImplemented ==
  ASSUME NoNameCollision
  PROVE  Spec => ImplementsSporadicLevel
<1> USE DEF INVALIDPID
<1>1. Init => Level!Init
  <2> SUFFICES ASSUME Init PROVE Level!Init
    OBVIOUS
  <2>1. SporadicQueue = <<>>
    BY DEF Init, EmptyQueue, SporadicQueue
  <2>2. ~Runs(SPORADIC)
    BY DEF Init, Runs
  <2> QED
    BY <2>1, <2>2 DEF Level!Init
<1>2. ASSUME LevelInv, LevelInv', [Next]_vars PROVE QueueStep
  <2>1. CASE UNCHANGED <<processes, current, sporadic>>
    <3>1. Serves' = Serves
      BY <1>2, <2>1, ServesSame
    <3>2. SporadicQueue' = SporadicQueue
      BY <2>1 DEF SporadicQueue, Position
    <3> QED
      BY <3>1, <3>2 DEF QueueStep
  <2>2. CASE timer_callback \/ OS_Yield
    BY <1>2, <2>2, ServesCalled
  <2>3. ASSUME NEW level \in {DEVICE, PERIODIC, SPORADIC},
               NEW n \in IF level = DEVICE THEN DeviceRates
                         ELSE IF level = PERIODIC THEN PeriodicNames ELSE SporadicNames,
               OS_Create(level, n)
        PROVE  QueueStep
    BY <1>2, <2>3, ServesCreated DEF DEVICE, PERIODIC, SPORADIC
  <2>4. CASE OS_Terminate
    BY <1>2, <2>4, ServesTerminated
  <2> QED
    BY <1>2, <2>1, <2>2, <2>3, <2>4 DEF Next, vars, irq_install, DEVICE, PERIODIC, SPORADIC
<1>3. LevelInv /\ LevelInv' /\ [Next]_vars
        => [Level!Next]_<<SporadicQueue, IF Runs(SPORADIC) THEN current ELSE INVALIDPID>>
  <2> SUFFICES ASSUME QueueStep
               PROVE  [Level!Next]_<<SporadicQueue, IF Runs(SPORADIC) THEN current ELSE INVALIDPID>>
    BY <1>2
  <2> QED
    BY DEF QueueStep, Serves, Level!Next, Level!Arrive, Level!Run, Level!Preempt, Level!GiveUp,
           Level!Exit
<1> QED
  BY <1>1, <1>3, LevelInvInit, LevelInvStep, PTL
     DEF Spec, ImplementsSporadicLevel, Level!Spec

-----------------------------------------------------------------------------
(* Devices that give the CPU back before the next tick.                    *)

\* Devices yield before the next tick and never end, or there are none.
DevicesYield ==
  \/ DeviceRates = {}
  \/ FastDevices /\ "terminate" \notin AppCalls

\* Each place of the window has a PID of its own, that of a live process.
Distinct(q) == \A j, k \in 0 .. q.length - 1 : Nth(q, j) = Nth(q, k) => j = k
AllLive(q, procs) == \A k \in 0 .. q.length - 1 : Live(procs, Nth(q, k))

LEMMA DistinctCount ==
  ASSUME NEW q \in Queue, Distinct(q)
  PROVE  q.length = Cardinality(Queued(q))
<1> DEFINE S == 0 .. q.length - 1
           T == Queued(q)
           f == [k \in S |-> Nth(q, k)]
<1>1. PICK n \in Nat : n = q.length
  BY DEF Queue, Words
<1>2. T = {Nth(q, k) : k \in S}
  BY DEF Queued, Window, Nth
<1>3. /\ f \in [S -> T] /\ \A j, k \in S : f[j] = f[k] => j = k
      /\ \A t \in T : \E k \in S : f[k] = t
  BY <1>2 DEF Distinct
<1>4. IsFiniteSet(0 .. n - 1) /\ Cardinality(0 .. n - 1) = n
  BY FS_Interval
<1>5. IsFiniteSet(S) /\ Cardinality(S) = n
  BY <1>1, <1>4
<1> HIDE DEF S, T, f
<1>6. ExistsBijection(S, T)
  BY <1>3 DEF ExistsBijection, Bijection, Injection, IsInjective, Surjection
<1>7. Cardinality(T) = Cardinality(S)
  BY <1>5, <1>6, FS_Bijection
<1> QED
  BY <1>1, <1>5, <1>7 DEF T

\* The queue keeps its places when nothing is due, and is that of the due devices when
\* it was empty.
LEMMA DueDistinct ==
  ASSUME NEW q \in Queue, q.length <= MAXPROCESS, NEW procs \in [Slots -> Process],
         Unique(procs), NEW due \in SUBSET LiveSlots(procs),
         due # {} => q.length = 0, Distinct(q), AllLive(q, procs)
  PROVE  /\ due # {} => q.length + Cardinality(due) <= MAXPROCESS
         /\ EnqueueDue(q, due, procs) \in Queue /\ EnqueueDue(q, due, procs).length <= MAXPROCESS
         /\ Distinct(EnqueueDue(q, due, procs))
         /\ AllLive(EnqueueDue(q, due, procs), procs)
         /\ due = {} => /\ EnqueueDue(q, due, procs).length = q.length
                        /\ q.length > 0 => Front(EnqueueDue(q, due, procs)) = Front(q)
         /\ due # {} => \E i \in due : Front(EnqueueDue(q, due, procs)) = procs[i].pid
<1> DEFINE r == EnqueueDue(q, due, procs)
           c == Cardinality(due)
<1>1. due \in SUBSET Slots /\ q.length \in Nat /\ c \in 0 .. MAXPROCESS
  BY SlotSets DEF LiveSlots, Queue, Words
<1>2. due # {} => q.length + c <= MAXPROCESS
  BY <1>1
<1>3. r \in Queue
  BY <1>1, <1>2, EnqueueDueType
<1>4. /\ r.length = q.length + c /\ r.length <= MAXPROCESS
      /\ \A k \in Int : Position(r, k) = Position(q, k)
      /\ \A k \in 0 .. q.length - 1 : r.buf[Position(q, k)] = q.buf[Position(q, k)]
      /\ \A k \in q.length .. q.length + c - 1 : \E i \in due :
           Rank(due, i) = k - q.length /\ r.buf[Position(q, k)] = procs[i].pid
  BY <1>1, <1>2, EnqueueDuePlaces
<1> HIDE DEF r, c
<1>5. \A k \in 0 .. q.length - 1 : Nth(r, k) = Nth(q, k)
  BY <1>1, <1>4 DEF Nth
<1>6. ASSUME NEW k \in q.length .. q.length + c - 1
      PROVE  \E i \in due : Rank(due, i) = k - q.length /\ Nth(r, k) = procs[i].pid
  BY <1>1, <1>4 DEF Nth
<1>7. CASE due = {}
  <2>1. c = 0
    BY <1>7, FS_EmptySet DEF c
  <2>2. r.length = q.length
    BY <1>1, <1>4, <2>1
  <2>3. q.length > 0 => Front(r) = Front(q)
    BY <1>1, <1>3, <1>5, NthFront
  <2>4. Distinct(r) /\ AllLive(r, procs)
    BY <1>5, <2>2 DEF Distinct, AllLive
  <2> QED
    BY <1>2, <1>3, <1>4, <1>7, <2>2, <2>3, <2>4 DEF r
<1>8. CASE due # {}
  <2>1. q.length = 0 /\ \A k \in 0 .. r.length - 1 : k \in q.length .. q.length + c - 1
    BY <1>1, <1>4, <1>8
  <2>2. \A k \in 0 .. r.length - 1 : \E i \in due : Rank(due, i) = k /\ Nth(r, k) = procs[i].pid
    <3>1. ASSUME NEW k \in 0 .. r.length - 1
          PROVE  \E i \in due : Rank(due, i) = k /\ Nth(r, k) = procs[i].pid
      <4>1. PICK i \in due : Rank(due, i) = k - q.length /\ Nth(r, k) = procs[i].pid
        BY <1>6, <2>1
      <4> QED
        BY <2>1, <4>1
    <3> QED
      BY <3>1
  <2>3. Distinct(r)
    <3>1. ASSUME NEW j \in 0 .. r.length - 1, NEW k \in 0 .. r.length - 1, Nth(r, j) = Nth(r, k)
          PROVE  j = k
      <4>1. PICK i \in due : Rank(due, i) = j /\ Nth(r, j) = procs[i].pid
        BY <2>2
      <4>2. PICK m \in due : Rank(due, m) = k /\ Nth(r, k) = procs[m].pid
        BY <2>2
      <4>3. i = m
        BY <3>1, <4>1, <4>2 DEF Unique
      <4> QED
        BY <4>1, <4>2, <4>3
    <3> QED
      BY <3>1 DEF Distinct
  <2>4. AllLive(r, procs)
    BY <2>2 DEF AllLive, Live
  <2>5. \E i \in due : Front(r) = procs[i].pid
    <3>1. c # 0
      BY <1>8, FS_EmptySet, SlotSets, <1>1 DEF c
    <3>2. 0 \in 0 .. r.length - 1
      BY <1>1, <1>4, <2>1, <3>1
    <3>3. Front(r) = Nth(r, 0)
      BY <1>3, NthFront
    <3> QED
      BY <2>2, <3>2, <3>3
  <2> QED
    BY <1>2, <1>3, <1>4, <1>8, <2>3, <2>4, <2>5 DEF r, c
<1> QED
  BY <1>7, <1>8

\* The first of several leaves.
LEMMA DequeueDistinct ==
  ASSUME NEW q \in Queue, NEW procs, q.length > 0, q.length <= MAXPROCESS, Distinct(q),
         AllLive(q, procs)
  PROVE  /\ Dequeue(q) \in Queue /\ Dequeue(q).length = q.length - 1
         /\ Distinct(Dequeue(q)) /\ AllLive(Dequeue(q), procs)
         /\ Dequeue(q).length > 0 => Front(Dequeue(q)) # Front(q)
<1> DEFINE r == Dequeue(q)
<1>1. q.length \in Nat
  BY DEF Queue, Words
<1>2. r \in Queue
  BY QueueTypes DEF INVALIDPID
<1>3. r.length = q.length - 1 /\ \A k \in 0 .. q.length - 2 : Nth(r, k) = Nth(q, k + 1)
  BY DequeueNth
<1> HIDE DEF r
<1>4. \A k \in 0 .. r.length - 1 : k \in 0 .. q.length - 2 /\ k + 1 \in 0 .. q.length - 1
  BY <1>1, <1>3
<1>5. AllLive(r, procs)
  BY <1>3, <1>4 DEF AllLive
<1>6. Distinct(r)
  <2>1. ASSUME NEW j \in 0 .. r.length - 1, NEW k \in 0 .. r.length - 1, Nth(r, j) = Nth(r, k)
        PROVE  j = k
    <3>1. Nth(q, j + 1) = Nth(q, k + 1)
      BY <1>3, <1>4, <2>1
    <3>2. j + 1 = k + 1
      BY <1>4, <3>1 DEF Distinct
    <3> QED
      BY <3>2
  <2> QED
    BY <2>1 DEF Distinct
<1>7. r.length > 0 => Front(r) # Front(q)
  <2> SUFFICES ASSUME r.length > 0 PROVE Front(r) # Front(q)
    OBVIOUS
  <2>1. 0 \in 0 .. q.length - 2 /\ 0 \in 0 .. q.length - 1 /\ 1 \in 0 .. q.length - 1
    BY <1>1, <1>3
  <2>2. Front(r) = Nth(q, 1) /\ Front(q) = Nth(q, 0)
    BY <1>2, <1>3, <2>1, NthFront
  <2> QED
    BY <2>1, <2>2 DEF Distinct
<1> QED
  BY <1>2, <1>3, <1>5, <1>6, <1>7 DEF r

RunsAt(level, procs, pid) == \E i \in OfLevel(level, procs) : procs[i].pid = pid

\* A device waits only while one runs, which then started at this very tick: the queue
\* is emptied before the next devices can become due.
DInv ==
  /\ LevelInv
  /\ halted = "no"
  /\ Distinct(device) /\ AllLive(device, processes)
  /\ device.length > 0 => RunsAt(DEVICE, processes, current)
  /\ RunsAt(DEVICE, processes, current) => last_change_tick = tick

\* What the caller of check_schedule leaves: devices are due only when none waits and
\* none runs, and the device that gave up the CPU is no longer queued.
DeviceReady(t, procs, dq) ==
  /\ SameTable(processes, procs) /\ Sound(procs)
  /\ dq \in Queue /\ dq.length <= MAXPROCESS /\ Distinct(dq) /\ AllLive(dq, procs)
  /\ dq.length > 0 => Front(dq) # current
  /\ DueDevices(t, Signed(t - last_change_tick), procs) # {} =>
       dq.length = 0 /\ ~RunsAt(DEVICE, procs, current)

LEMMA DeviceDecides ==
  ASSUME LevelInv, halted = "no", NEW t, NEW procs, NEW dq, DeviceReady(t, procs, dq),
         check_schedule(t, procs, dq), tick' = t, LevelInv'
  PROVE  DInv'
<1> DEFINE delta == Signed(t - last_change_tick)
           due == DueDevices(t, delta, procs)
           q == EnqueueDue(dq, due, procs)
<1>1. /\ procs \in [Slots -> Process] /\ dq \in Queue /\ LiveSlots(procs) \subseteq Slots
      /\ due \in SUBSET LiveSlots(procs) /\ \A i \in due : procs[i].level = DEVICE
  BY DEF DeviceReady, Sound, DueDevices, LiveSlots
<1>2. /\ Table(procs, pid_counter) /\ Unique(procs)
      /\ ScheduleShaped(t, procs, dq) /\ SameTable(procs, processes')
  <2>1. Table(procs, pid_counter) /\ ScheduleShaped(t, procs, dq)
    BY ScheduleShapeQ DEF LevelInv, DeviceReady
  <2> QED
    BY <2>1 DEF Table, Unique, ScheduleShaped
<1>3. due # {} => dq.length = 0 /\ ~RunsAt(DEVICE, procs, current)
  BY DEF DeviceReady
<1>4. ~(due # {} /\ dq.length + Cardinality(due) > MAXPROCESS)
  <2>1. due # {} => dq.length + Cardinality(due) <= MAXPROCESS
    BY <1>1, <1>2, <1>3, DueDistinct DEF DeviceReady
  <2>2. dq.length + Cardinality(due) \in Int
    BY <1>1, SlotSets DEF Queue, Words
  <2> QED
    BY <2>1, <2>2
<1>5. /\ q \in Queue /\ q.length \in Nat /\ Distinct(q) /\ AllLive(q, procs)
      /\ due = {} => q.length = dq.length /\ (dq.length > 0 => Front(q) = Front(dq))
      /\ due # {} => \E i \in due : Front(q) = procs[i].pid
  <2>1. /\ q \in Queue /\ Distinct(q) /\ AllLive(q, procs)
        /\ due = {} => q.length = dq.length /\ (dq.length > 0 => Front(q) = Front(dq))
        /\ due # {} => \E i \in due : Front(q) = procs[i].pid
    <3> HIDE DEF due
    <3> QED
      BY <1>1, <1>2, <1>3, DueDistinct DEF DeviceReady
  <2> QED
    BY <2>1 DEF Queue, Words
<1>6. device' = q /\ (q.length > 0 /\ Front(q) # current => RunDevice(t, delta, procs, q))
  <2>1. device' = q /\ ( \/ q.length > 0 /\ Front(q) # current /\ RunDevice(t, delta, procs, q)
                         \/ q.length = 0 \/ Front(q) = current)
    BY <1>4, Zenon DEF check_schedule
  <2> QED
    BY <1>5, <2>1
<1>7. ~Overflows(t, procs, dq)
  BY <1>4 DEF Overflows
<1>8. q.length > 0 => Front(q) # current
  <2>1. CASE due = {}
    BY <1>5, <2>1 DEF DeviceReady
  <2>2. CASE due # {}
    <3>1. PICK i \in due : Front(q) = procs[i].pid
      BY <1>5, <2>2
    <3> QED
      BY <1>1, <1>3, <2>2, <3>1 DEF RunsAt, OfLevel
  <2> QED
    BY <2>1, <2>2
<1> HIDE DEF delta, due, q
<1>9. Distinct(device') /\ AllLive(device', processes')
  <2>1. LiveSlots(processes') = LiveSlots(procs)
    BY <1>1, <1>2, SameTableKeeps
  <2>2. \A pid : Live(procs, pid) => Live(processes', pid)
    BY <1>1, <1>2, <2>1 DEF Live, SameTable
  <2> QED
    BY <1>5, <1>6, <2>2 DEF AllLive
<1>10. CASE q.length > 0
  <2>1. /\ switch_process(Front(q), procs) /\ last_change_tick' = t
    BY <1>6, <1>8, <1>10 DEF RunDevice
  <2>2. 0 \in 0 .. q.length - 1 /\ Front(q) = Nth(q, 0)
    BY <1>5, <1>10, NthFront
  <2>3. Live(procs, Front(q))
    BY <1>5, <2>2 DEF AllLive
  <2>4. Front(q) \in Nat \ {INVALIDPID}
    BY <1>1, <2>3 DEF Live, LiveSlots, FreeSlots, Process
  <2>5. current' = Front(q) /\ halted' = halted
    BY <2>1, <2>3, <2>4, SwitchShape DEF LevelInv, QInv, TInv, DeviceReady
  <2>6. RunsAt(DEVICE, processes', current')
    <3>1. PICK i \in LiveSlots(processes') : processes'[i].pid = Front(q)
      BY <1>5, <1>6, <1>9, <1>10, <2>2 DEF AllLive, Live
    <3>2. Holds(device', DEVICE, processes', pid_counter') /\ q.idx \in Slots
      BY <1>5 DEF LevelInv, IInv, Queue
    <3>3. processes'[i].level = DEVICE
      BY <1>6, <3>1, <3>2 DEF Holds, Front
    <3> QED
      BY <2>5, <3>1, <3>3 DEF RunsAt, OfLevel
  <2> QED
    BY <1>9, <2>1, <2>5, <2>6 DEF DInv
<1>11. CASE q.length = 0
  <2>1. halted' = "no"
    BY <1>2, <1>6, <1>7, <1>11 DEF ScheduleShaped
  <2>2. ~RunsAt(DEVICE, processes', current')
    BY <1>5, <1>6, <1>11, <2>1 DEF LevelInv, IInv, HeadsOf, RunsAt, OfLevel
  <2> QED
    BY <1>5, <1>6, <1>9, <1>11, <2>1, <2>2 DEF DInv
<1> QED
  BY <1>5, <1>10, <1>11

LEMMA SignedZero == Signed(0) = 0
  BY DEF Signed

LEMMA DInvTick ==
  ASSUME DevicesYield, DInv, LevelInv', timer_callback
  PROVE  DInv'
<1> DEFINE t == (tick + 1) % UMOD
<1>1. ~RunsAt(DEVICE, processes, current)
  <2>1. CASE DeviceRates = {}
    BY <2>1 DEF DInv, LevelInv, QInv, Table, RunsAt, OfLevel
  <2>2. CASE FastDevices
    <3>1. ~Runs(DEVICE)
      BY <2>2 DEF timer_callback, Runs
    <3> QED
      BY <3>1, RunsLevel DEF RunsAt, DInv, LevelInv
  <2> QED
    BY <2>1, <2>2 DEF DevicesYield
<1>2. device \in Queue /\ device.length = 0
  BY <1>1, QTypes DEF DInv, LevelInv, Queue, Words
<1>3. SameTable(processes, processes) /\ Sound(processes)
  BY QTypes DEF DInv, LevelInv, QInv, TInv, RunsLive, SameTable, Sound
<1>4. DeviceReady(t, processes, device)
  BY <1>1, <1>2, <1>3 DEF DeviceReady, DInv
<1>5. tick' = t /\ check_schedule(t, processes, device)
  BY DEF timer_callback
<1> QED
  BY <1>4, <1>5, DeviceDecides DEF DInv

LEMMA DInvYield ==
  ASSUME DInv, LevelInv', OS_Yield
  PROVE  DInv'
<1> DEFINE index == process_index_from_pid(processes, current)
           me == CurrentProcess(processes)
           procs == Raised(processes, index)
           dq == IF me.level = DEVICE THEN Dequeue(device) ELSE device
<1>1. /\ current # INVALIDPID /\ Live(processes, current) /\ tick' = tick
      /\ \/ UNCHANGED <<processes, current, device, clock, halted>>
         \/ check_schedule(tick, procs, dq)
  BY DEF DInv, LevelInv, QInv, TInv, RunsLive, OS_Yield, Calls, Raised
<1>2. /\ index \in LiveSlots(processes) /\ index \in Slots /\ me = processes[index]
      /\ processes[index].pid = current
  BY <1>1, QTypes, CurrentProcessType DEF CurrentProcess, DInv, LevelInv
<1> HIDE DEF index, me
<1>3. CASE UNCHANGED <<processes, current, device, clock, halted>>
  BY <1>1, <1>3 DEF DInv, clock
<1>4. CASE check_schedule(tick, procs, dq)
  <2>1. SameTable(processes, procs)
    BY <1>2, QTypes, SetFlag DEF DInv, LevelInv
  <2> HIDE DEF procs
  <2>2. LiveSlots(procs) = LiveSlots(processes) /\ LiveSlots(processes) \subseteq Slots
    BY <2>1, QTypes, SameTableKeeps DEF DInv, LevelInv
  <2>3. \A pid : Live(processes, pid) => Live(procs, pid)
    BY <2>1, <2>2 DEF Live, SameTable
  <2>4. Sound(procs)
    BY <1>1, <2>1, <2>3 DEF Sound, SameTable
  <2>5. /\ device \in Queue /\ device.length \in Nat /\ device.length <= MAXPROCESS
        /\ Distinct(device) /\ AllLive(device, procs)
    BY <2>3, QTypes DEF DInv, LevelInv, IInv, Filled, AllLive, Queue, Words
  <2>6. CASE me.level = DEVICE
    <3>1. index \in OfLevel(DEVICE, processes)
      BY <1>2, <2>6 DEF OfLevel
    <3>2. RunsAt(DEVICE, processes, current)
      BY <1>2, <3>1 DEF RunsAt
    <3>3. last_change_tick = tick /\ tick \in Int
      BY <3>2 DEF DInv, LevelInv, IInv, TInv, TypeOK, Words
    <3>4. DueDevices(tick, Signed(tick - last_change_tick), procs) = {}
      <4>1. Signed(tick - last_change_tick) = 0
        BY <3>3, SignedZero
      <4> QED
        BY <4>1 DEF DueDevices
    <3>5. device.length > 0 /\ Front(device) = current
      BY <1>2, <2>6 DEF DInv, LevelInv, IInv, HeadsOf
    <3>6. /\ Dequeue(device) \in Queue /\ Dequeue(device).length = device.length - 1
          /\ Distinct(Dequeue(device)) /\ AllLive(Dequeue(device), procs)
          /\ Dequeue(device).length > 0 => Front(Dequeue(device)) # Front(device)
      BY <2>5, <3>5, DequeueDistinct
    <3>7. dq = Dequeue(device)
      BY <2>6
    <3> HIDE DEF dq
    <3>8. DeviceReady(tick, procs, dq)
      BY <2>1, <2>4, <2>5, <3>4, <3>5, <3>6, <3>7 DEF DeviceReady
    <3> QED
      BY <1>1, <1>4, <3>8, DeviceDecides DEF DInv
  <2>7. CASE me.level # DEVICE
    <3>1. ~RunsAt(DEVICE, processes, current)
      BY <1>2, <2>7, QTypes DEF RunsAt, OfLevel, Unique, DInv, LevelInv
    <3>2. ~RunsAt(DEVICE, procs, current)
      BY <2>1, <2>2, <3>1 DEF RunsAt, OfLevel, SameTable
    <3>3. dq = device /\ device.length = 0
      BY <2>5, <2>7, <3>1 DEF DInv
    <3> HIDE DEF dq
    <3>4. DeviceReady(tick, procs, dq)
      BY <2>1, <2>4, <2>5, <3>2, <3>3 DEF DeviceReady
    <3> QED
      BY <1>1, <1>4, <3>4, DeviceDecides DEF DInv
  <2> QED
    BY <2>6, <2>7
<1> QED
  BY <1>1, <1>3, <1>4

\* A creation changes neither the process that runs nor its level.
LEMMA RunsAtCreate ==
  ASSUME LevelInv, NEW level \in {DEVICE, PERIODIC, SPORADIC}, NEW n \in Nat,
         OS_Create(level, n), NEW any,
         level = DEVICE => n \in DeviceRates, level = SPORADIC => n \in SporadicNames
  PROVE  RunsAt(any, processes', current') <=> RunsAt(any, processes, current)
<1>1. current' = current /\ current < pid_counter
  BY CurrentCreates
<1>2. CASE processes' = processes
  BY <1>1, <1>2
<1>3. ASSUME NEW slot \in FreeSlots(processes), processes'[slot].pid = pid_counter,
             LiveSlots(processes') = LiveSlots(processes) \union {slot},
             \A i \in LiveSlots(processes) : processes'[i] = processes[i]
      PROVE  RunsAt(any, processes', current') <=> RunsAt(any, processes, current)
  <2>1. processes'[slot].pid # current
    BY <1>1, <1>3, QTypes DEF LevelInv
  <2> QED
    BY <1>1, <1>3, <2>1 DEF RunsAt, OfLevel
<1>4. \/ processes' = processes
      \/ \E slot \in FreeSlots(processes) :
           /\ processes'[slot].pid = pid_counter
           /\ LiveSlots(processes') = LiveSlots(processes) \union {slot}
           /\ \A i \in LiveSlots(processes) : processes'[i] = processes[i]
  BY CreateShape DEF LevelInv
<1> QED
  BY <1>2, <1>3, <1>4

LEMMA DInvCreate ==
  ASSUME DInv, LevelInv', NEW level \in {DEVICE, PERIODIC, SPORADIC}, NEW n \in Nat,
         OS_Create(level, n),
         level = DEVICE => n \in DeviceRates, level = SPORADIC => n \in SporadicNames
  PROVE  DInv'
<1>1. /\ UNCHANGED <<device, tick, last_change_tick>>
      /\ current' = current /\ halted' = halted /\ current < pid_counter
  BY CurrentCreates DEF OS_Create, clock, DInv
<1>2. CASE UNCHANGED <<processes, sporadic, pid_counter>>
  BY <1>1, <1>2 DEF DInv
<1>3. CASE ~UNCHANGED <<processes, sporadic, pid_counter>>
  <2>1. PICK slot \in FreeSlots(processes) :
          /\ processes'[slot].pid = pid_counter
          /\ LiveSlots(processes') = LiveSlots(processes) \union {slot}
          /\ \A i \in LiveSlots(processes) : processes'[i] = processes[i]
    BY <1>3, CreateShape DEF DInv, LevelInv
  <2>2. \A pid : Live(processes, pid) => Live(processes', pid)
    BY <2>1 DEF Live
  <2>3. RunsAt(DEVICE, processes', current') <=> RunsAt(DEVICE, processes, current)
    BY RunsAtCreate DEF DInv
  <2>4. AllLive(device', processes')
    BY <1>1, <2>2 DEF AllLive, DInv
  <2> QED
    BY <1>1, <2>3, <2>4 DEF DInv
<1> QED
  BY <1>2, <1>3

LEMMA DInvTerminate ==
  ASSUME DevicesYield, DInv, LevelInv', OS_Terminate
  PROVE  DInv'
<1> DEFINE me == CurrentProcess(processes)
           index == process_index_from_pid(processes, current)
<1>1. DeviceRates = {}
  BY DEF DevicesYield, OS_Terminate, Calls
<1>2. OfLevel(DEVICE, processes) = {} /\ OfLevel(DEVICE, processes') = {}
  BY <1>1 DEF DInv, LevelInv, QInv, Table, OfLevel
<1>3. device.length = 0
  BY <1>2, QTypes DEF DInv, LevelInv, RunsAt, Queue, Words
<1>4. current # INVALIDPID /\ Live(processes, current)
  BY DEF DInv, LevelInv, QInv, TInv, RunsLive, OS_Terminate, Calls
<1>5. me.level # DEVICE
  <2>1. index \in LiveSlots(processes) /\ me = processes[index]
    BY <1>4, QTypes, CurrentProcessType DEF CurrentProcess, DInv, LevelInv
  <2> QED
    BY <1>2, <2>1 DEF OfLevel
<1>6. device' = device /\ (halted' = halted \/ halted' = "sporadic mismatch")
  BY <1>5, Zenon DEF OS_Terminate
<1>7. halted' = "no"
  BY <1>6 DEF DInv, LevelInv, IInv, AssertsHold
<1> QED
  BY <1>2, <1>3, <1>6, <1>7 DEF DInv, Distinct, AllLive, RunsAt

LEMMA DInvInit == Init => DInv
<1> SUFFICES ASSUME Init PROVE DInv
  OBVIOUS
<1>1. device.length = 0 /\ halted = "no" /\ current = INVALIDPID
  BY DEF Init, EmptyQueue
<1>2. ~RunsAt(DEVICE, processes, current)
  BY <1>1 DEF RunsAt, OfLevel, LiveSlots, FreeSlots
<1> QED
  BY <1>1, <1>2, LevelInvInit DEF DInv, Distinct, AllLive

LEMMA DInvStep ==
  ASSUME NoNameCollision, DevicesYield
  PROVE  DInv /\ [Next]_vars => DInv'
<1> SUFFICES ASSUME DInv, [Next]_vars PROVE DInv'
  OBVIOUS
<1>1. LevelInv'
  BY LevelInvStep DEF DInv
<1>2. CASE irq_install \/ UNCHANGED vars
  BY <1>1, <1>2 DEF irq_install, vars, clock, DInv
<1>3. CASE timer_callback
  BY <1>1, <1>3, DInvTick
<1>4. CASE OS_Yield
  BY <1>1, <1>4, DInvYield
<1>5. CASE OS_Terminate
  BY <1>1, <1>5, DInvTerminate
<1>6. ASSUME NEW level \in {DEVICE, PERIODIC, SPORADIC},
             NEW n \in IF level = DEVICE THEN DeviceRates
                       ELSE IF level = PERIODIC THEN PeriodicNames ELSE SporadicNames,
             OS_Create(level, n)
      PROVE  DInv'
  BY <1>1, <1>6, DInvCreate DEF DEVICE, PERIODIC, SPORADIC
<1> QED
  BY <1>2, <1>3, <1>4, <1>5, <1>6 DEF Next, DEVICE, PERIODIC, SPORADIC

\* Devices that give the CPU back before the next tick and never end are in their queue
\* at most once, as check_schedule assumes, whatever the rates.
THEOREM DevicesQueuedOnce ==
  ASSUME NoNameCollision, DevicesYield
  PROVE  Spec => []NoDuplicateDevice
<1>1. DInv => NoDuplicateDevice
  <2> SUFFICES ASSUME DInv PROVE device.length = Cardinality(Queued(device))
    BY DEF NoDuplicateDevice
  <2>1. device \in Queue /\ Distinct(device)
    BY QTypes DEF DInv, LevelInv
  <2> QED
    BY <2>1, DistinctCount
<1> QED
  BY <1>1, DInvInit, DInvStep, PTL DEF Spec

\* With such devices, or none, the kernel never stops the CPU: neither its assertions
\* nor the limit of the device queue nor an unknown PID are met.
THEOREM KernelNeverHalts ==
  ASSUME NoNameCollision, DevicesYield
  PROVE  Spec => []NeverHalts
<1>1. DInv => NeverHalts
  BY DEF DInv, NeverHalts
<1> QED
  BY <1>1, DInvInit, DInvStep, PTL DEF Spec

-----------------------------------------------------------------------------
(* The clock that check_schedule keeps of an entry.                        *)

\* The interval that check_schedule measures; one that seems to be negative counts as 1.
Elapsed(t, started) == LET d == Signed(t - started) IN IF d < 0 THEN 1 ELSE d

\* An entry has ticks left at tick t.
InTime(t, started, entry) == entry \in Plan /\ Elapsed(t, started) <= PPPMax[entry]

BelowDevices(procs, pid) ==
  \E level \in {PERIODIC, SPORADIC, IDLE_PRIORITY} : RunsAt(level, procs, pid)

\* Whatever runs that is not a device is within the entry of the plan.
SlotInv ==
  /\ LevelInv
  /\ halted = "no" /\ BelowDevices(processes, current) =>
       InTime(tick, last_change_tick, PPP_index)

LEMMA ElapsedType == ASSUME NEW t \in Int, NEW started \in Int PROVE Elapsed(t, started) \in Nat
<1>1. Signed(t - started) \in Int
  BY NumberTypes
<1> QED
  BY <1>1 DEF Elapsed

LEMMA StartInTime ==
  ASSUME NEW t \in Int, NEW entry \in Plan
  PROVE  InTime(t, t, entry)
<1>1. t - t = 0 /\ PPPMax[entry] \in Nat
  OBVIOUS
<1> QED
  BY <1>1, SignedZero DEF InTime, Elapsed

\* The entry goes on only while it has ticks left, also when the interval that
\* check_schedule measures is taken for 1.
LEMMA CheckInTime ==
  ASSUME PPP_index \in Plan, NEW t \in Int, NEW started \in Int, NEW next_pid, NEW gave_up,
         NEW procs, NEW sq, NEW elapsed,
         elapsed = Elapsed(t, started),
         PERIODIC_CHECK(t, started, elapsed, next_pid, gave_up, procs, sq)
  PROVE  InTime(t, last_change_tick', PPP_index')
<1>1. CASE last_change_tick' = t /\ PPP_index' = NextEntry
  BY <1>1, NumberTypes, StartInTime
<1>2. CASE ~TimesUp(elapsed) /\ last_change_tick' = started /\ PPP_index' = PPP_index
  <2>1. elapsed \in Int /\ PPPMax[PPP_index] \in Nat
    BY NumberTypes, ElapsedType
  <2>2. elapsed <= PPPMax[PPP_index]
    BY <1>2, <2>1 DEF TimesUp
  <2> QED
    BY <1>2, <2>2 DEF InTime
<1> QED
  BY <1>1, <1>2 DEF PERIODIC_CHECK

\* After a decision the entry is in time, or a device runs, or the CPU has stopped.
LEMMA ScheduleInTime ==
  ASSUME TypeOK, NEW t \in Words, NEW procs, NEW dq, check_schedule(t, procs, dq)
  PROVE  \/ InTime(t, last_change_tick', PPP_index')
         \/ device'.length > 0 /\ switch_process(Front(device'), procs)
         \/ /\ CurrentProcess(procs).level = DEVICE
            /\ processes' = procs /\ current' = current
         \/ halted' # "no"
<1> DEFINE delta == Signed(t - last_change_tick)
           q == EnqueueDue(dq, DueDevices(t, delta, procs), procs)
           elapsed == IF delta < 0 THEN 1 ELSE delta
           Goal == \/ InTime(t, last_change_tick', PPP_index')
                   \/ device'.length > 0 /\ switch_process(Front(device'), procs)
                   \/ /\ CurrentProcess(procs).level = DEVICE
                      /\ processes' = procs /\ current' = current
                   \/ halted' # "no"
<1>1. t \in Int /\ last_change_tick \in Int /\ PPP_debt \in Int /\ 0 \in Plan
  BY NumberTypes DEF TypeOK, Words
<1>2. CASE OS_Abort("device queue full", procs)
  BY <1>2 DEF OS_Abort
<1>3. CASE device' = q /\ q.length > 0 /\ RunDevice(t, delta, procs, q)
  BY <1>3, Zenon DEF RunDevice
<1>4. CASE LAUNCH_CURRENT_PPP(t, procs)
  <2>1. last_change_tick' = t /\ PPP_index' = 0
    BY <1>4 DEF LAUNCH_CURRENT_PPP
  <2> QED
    BY <1>1, <2>1, StartInTime
<1>5. CASE /\ PPP_index # INVALID_IDX
           /\ \/ AfterTermination(t, elapsed, procs) \/ SporadicTurn(t, elapsed, procs)
              \/ PeriodicTurn(t, elapsed, procs)
  <2>1. PPP_index \in Plan
    BY <1>5 DEF TypeOK
  <2>2. \/ \E next_pid, gave_up, sq :
             PERIODIC_CHECK(t, last_change_tick, elapsed, next_pid, gave_up, procs, sq)
        \/ OS_Abort("sporadic queue empty", procs)
    <3> HIDE DEF elapsed
    <3> QED
      BY <1>5, Zenon DEF AfterTermination, SporadicTurn, PeriodicTurn
  <2>3. CASE OS_Abort("sporadic queue empty", procs)
    BY <2>3 DEF OS_Abort
  <2>4. elapsed = Elapsed(t, last_change_tick)
    BY DEF Elapsed
  <2> HIDE DEF elapsed
  <2> QED
    BY <1>1, <2>1, <2>2, <2>3, <2>4, CheckInTime
<1>6. CASE PPP_index # INVALID_IDX /\ DeviceTurn(t, procs)
  <2>1. PPP_index \in Plan
    BY <1>6 DEF TypeOK
  <2> DEFINE started == (t - PPP_debt) % UMOD
             d == Signed(t - started)
             e == IF d < 0 THEN 1 ELSE d
  <2>2. started \in Int
    BY <1>1, WordsMod DEF Words
  <2>3. \/ \E next_pid, gave_up, sq : PERIODIC_CHECK(t, started, e, next_pid, gave_up, procs, sq)
        \/ /\ CurrentProcess(procs).level = DEVICE
           /\ processes' = procs /\ current' = current
    <3> HIDE DEF started
    <3> QED
      BY <1>6, Zenon DEF DeviceTurn, started
  <2>4. e = Elapsed(t, started)
    BY DEF Elapsed
  <2> HIDE DEF started, e
  <2> QED
    BY <1>1, <2>1, <2>2, <2>3, <2>4, CheckInTime
<1>7. \/ OS_Abort("device queue full", procs)
      \/ device' = q /\ q.length > 0 /\ RunDevice(t, delta, procs, q)
      \/ LAUNCH_CURRENT_PPP(t, procs)
      \/ /\ PPP_index # INVALID_IDX
         /\ \/ AfterTermination(t, elapsed, procs) \/ SporadicTurn(t, elapsed, procs)
            \/ PeriodicTurn(t, elapsed, procs)
      \/ PPP_index # INVALID_IDX /\ DeviceTurn(t, procs)
  BY Zenon DEF check_schedule
<1> QED
  BY <1>2, <1>3, <1>4, <1>5, <1>6, <1>7

LEMMA SlotCalled ==
  ASSUME SlotInv, LevelInv', timer_callback \/ OS_Yield, halted' = "no",
         BelowDevices(processes', current')
  PROVE  InTime(tick', last_change_tick', PPP_index')
<1>1. /\ LiveSlots(processes') \subseteq Slots /\ Unique(processes')
      /\ Holds(device', DEVICE, processes', pid_counter') /\ Filled(device')
      /\ device' \in Queue /\ current' \in Nat
  BY DEF LevelInv, IInv, TInv, TypeOK, Table, Unique, LiveSlots
<1>2. PICK i \in LiveSlots(processes') :
        processes'[i].level # DEVICE /\ processes'[i].pid = current'
  BY DEF BelowDevices, RunsAt, OfLevel, DEVICE, PERIODIC, SPORADIC, IDLE_PRIORITY
<1>3. CASE UNCHANGED <<processes, current, clock, halted, tick>>
  BY <1>3 DEF SlotInv, clock
<1>4. ASSUME NEW t, NEW procs, NEW dq \in Queue, SameTable(processes, procs), Sound(procs),
             check_schedule(t, procs, dq), tick' = t
      PROVE  InTime(tick', last_change_tick', PPP_index')
  <2>1. t \in Words /\ TypeOK
    BY <1>4 DEF LevelInv, SlotInv, IInv, TInv, TypeOK
  <2>2. SameTable(procs, processes') /\ procs \in [Slots -> Process]
    BY <1>4, ScheduleShapeQ DEF SlotInv, LevelInv, ScheduleShaped, Sound
  <2>3. ASSUME device'.length > 0, switch_process(Front(device'), procs)
        PROVE  FALSE
    <3>1. 0 \in 0 .. device'.length - 1 /\ Front(device') = device'.buf[Position(device', 0)]
          /\ device'.idx \in Slots
      BY <1>1, <2>3, PositionFirst DEF Front, Queue, Words
    <3>2. Front(device') # INVALIDPID
      BY <1>1, <3>1 DEF Filled
    <3>3. current' = Front(device')
      BY <2>3, <3>2, halted' = "no" DEF switch_process
    <3>4. processes'[i].level = DEVICE
      BY <1>1, <1>2, <3>1, <3>3 DEF Holds, Front
    <3> QED
      BY <1>2, <3>4
  <2>4. ASSUME CurrentProcess(procs).level = DEVICE, processes' = procs, current' = current
        PROVE  FALSE
    <3> DEFINE index == process_index_from_pid(procs, current)
    <3>1. current # INVALIDPID
      BY <1>2, <2>4 DEF LiveSlots, FreeSlots
    <3>2. index \in LiveSlots(procs) /\ procs[index].pid = current
          /\ CurrentProcess(procs) = procs[index]
      BY <1>4, <2>2, <3>1, CurrentProcessType DEF Sound, CurrentProcess
    <3> HIDE DEF index
    <3>3. i = index
      BY <1>1, <1>2, <2>4, <3>2 DEF Unique
    <3> QED
      BY <1>2, <2>4, <3>2, <3>3
  <2> QED
    BY <1>4, <2>1, <2>3, <2>4, ScheduleInTime
<1> QED
  BY <1>3, <1>4, SchedulerCalled DEF SlotInv, LevelInv

LEMMA SlotInvStep ==
  ASSUME NoNameCollision
  PROVE  SlotInv /\ [Next]_vars => SlotInv'
<1> SUFFICES ASSUME SlotInv, [Next]_vars PROVE SlotInv'
  OBVIOUS
<1>1. LevelInv'
  BY LevelInvStep DEF SlotInv
<1>2. CASE irq_install \/ UNCHANGED vars
  BY <1>1, <1>2 DEF irq_install, vars, clock, SlotInv
<1>3. CASE timer_callback \/ OS_Yield
  BY <1>1, <1>3, SlotCalled DEF SlotInv
<1>4. CASE OS_Terminate
  <2>1. UNCHANGED <<clock, tick>> /\ halted = "no"
    BY <1>4 DEF OS_Terminate, Calls
  <2>2. CASE UNCHANGED <<processes, current>>
    BY <1>1, <2>1, <2>2 DEF SlotInv, clock
  <2>3. CASE current' = INVALIDPID
    <3>1. ~BelowDevices(processes', current')
      BY <2>3 DEF BelowDevices, RunsAt, OfLevel, LiveSlots, FreeSlots
    <3> QED
      BY <1>1, <3>1 DEF SlotInv
  <2> QED
    BY <1>4, <2>2, <2>3, TerminateShape DEF SlotInv, LevelInv
<1>5. ASSUME NEW level \in {DEVICE, PERIODIC, SPORADIC},
             NEW n \in IF level = DEVICE THEN DeviceRates
                       ELSE IF level = PERIODIC THEN PeriodicNames ELSE SporadicNames,
             OS_Create(level, n)
      PROVE  SlotInv'
  <2>1. UNCHANGED <<clock, tick, halted>>
    BY <1>5 DEF OS_Create
  <2>2. \A any : RunsAt(any, processes', current') <=> RunsAt(any, processes, current)
    BY <1>5, RunsAtCreate DEF SlotInv, DEVICE, PERIODIC, SPORADIC
  <2>3. BelowDevices(processes', current') <=> BelowDevices(processes, current)
    BY <2>2 DEF BelowDevices
  <2> QED
    BY <1>1, <2>1, <2>3 DEF SlotInv, clock
<1> QED
  BY <1>2, <1>3, <1>4, <1>5 DEF Next, DEVICE, PERIODIC, SPORADIC

LEMMA SlotInvInit == Init => SlotInv
<1> SUFFICES ASSUME Init PROVE SlotInv
  OBVIOUS
<1>1. ~BelowDevices(processes, current)
  BY DEF Init, BelowDevices, RunsAt, OfLevel, LiveSlots, FreeSlots
<1> QED
  BY <1>1, LevelInvInit DEF SlotInv

-----------------------------------------------------------------------------
(* An entry of the plan that starts gives the CPU to its process.          *)

\* A PERIODIC process that yields, or idle, does not keep the CPU.
Fresh(procs, pid) ==
  \A i \in LiveSlots(procs) :
    procs[i].pid = pid /\ procs[i].level \in {PERIODIC, IDLE_PRIORITY} => ~procs[i].yielded

TurnInv == SlotInv /\ (halted = "no" => Fresh(processes, current))

\* switch_process to another process leaves no flag set.
LEMMA SwitchClears ==
  ASSUME NEW procs, Sound(procs), Unique(procs), Quiet(procs, current), NEW pid,
         pid \notin {current, INVALIDPID}, switch_process(pid, procs), halted' = "no"
  PROVE  \A i \in LiveSlots(processes') : ~processes'[i].yielded
<1> DEFINE index == process_index_from_pid(procs, current)
<1>1. procs \in [Slots -> Process] /\ LiveSlots(procs) \subseteq Slots
  BY DEF Sound, LiveSlots
<1>2. processes' = IF current = INVALIDPID THEN procs ELSE Cleared(procs, index)
  BY DEF switch_process, Cleared
<1>3. CASE current = INVALIDPID
  BY <1>2, <1>3 DEF Quiet, LiveSlots, FreeSlots
<1>4. CASE current # INVALIDPID
  <2>1. index \in LiveSlots(procs) /\ procs[index].pid = current
    BY <1>1, <1>4, CurrentProcessType DEF Sound, CurrentProcess
  <2> HIDE DEF index
  <2>2. /\ SameTable(procs, processes') /\ ~processes'[index].yielded
        /\ \A j \in Slots \ {index} : processes'[j].yielded <=> procs[j].yielded
    BY <1>1, <1>2, <1>4, <2>1, SetFlag
  <2>3. LiveSlots(processes') = LiveSlots(procs)
    BY <1>1, <2>2, SameTableKeeps
  <2>4. \A j \in LiveSlots(procs) : procs[j].yielded => j = index
    BY <2>1 DEF Quiet, Unique
  <2> QED
    BY <1>1, <2>2, <2>3, <2>4
<1> QED
  BY <1>3, <1>4

\* A decision after which the same process runs comes from its entry of the plan, the
\* front of the ring or the front of the device queue, none of which a PERIODIC process
\* that has just yielded is.
LEMMA ScheduleFresh ==
  ASSUME LevelInv, LevelInv', NEW t, NEW procs, SameTable(processes, procs), Sound(procs),
         Quiet(procs, current), NEW dq \in Queue, check_schedule(t, procs, dq), halted' = "no",
         BelowDevices(processes, current) => PPP_index \in Plan,
         \A i \in LiveSlots(procs) : procs[i].level = IDLE_PRIORITY => ~procs[i].yielded
  PROVE  Fresh(processes', current')
<1> SUFFICES ASSUME NEW i \in LiveSlots(processes'), processes'[i].pid = current',
                    processes'[i].level \in {PERIODIC, IDLE_PRIORITY}, processes'[i].yielded
             PROVE  FALSE
  BY DEF Fresh
<1> DEFINE delta == Signed(t - last_change_tick)
           q == EnqueueDue(dq, DueDevices(t, delta, procs), procs)
           elapsed == IF delta < 0 THEN 1 ELSE delta
<1>1. /\ Exact(sporadic, procs) /\ HasIdle(procs) /\ Table(procs, pid_counter)
      /\ Unique(procs) /\ LiveSlots(procs) = LiveSlots(processes)
      /\ procs \in [Slots -> Process] /\ sporadic \in Queue /\ TypeOK
  <2>1. Exact(sporadic, procs) /\ HasIdle(procs) /\ Table(procs, pid_counter)
        /\ LiveSlots(procs) = LiveSlots(processes)
    BY ScheduleShapeQ DEF LevelInv
  <2> QED
    BY <2>1 DEF Table, Unique, Sound, LevelInv, IInv, TInv, TypeOK
<1>2. ASSUME NEW pid, switch_process(pid, procs)
      PROVE  processes' = procs /\ current' = current
  <2>1. pid \in {current, INVALIDPID}
    BY <1>1, <1>2, SwitchClears
  <2> QED
    BY <1>2, <2>1 DEF switch_process
<1> HIDE DEF delta, q, elapsed
<1>3. \/ OS_Abort("device queue full", procs)
      \/ /\ device' = q /\ q.length > 0 /\ Front(q) # current
         /\ RunDevice(t, delta, procs, q)
      \/ LAUNCH_CURRENT_PPP(t, procs)
      \/ /\ PPP_index # INVALID_IDX
         /\ \/ AfterTermination(t, elapsed, procs) \/ DeviceTurn(t, procs)
            \/ SporadicTurn(t, elapsed, procs) \/ PeriodicTurn(t, elapsed, procs)
  BY Zenon DEF check_schedule, delta, q, elapsed
<1>4. ~OS_Abort("device queue full", procs) /\ ~OS_Abort("sporadic queue empty", procs)
  BY DEF OS_Abort
<1>5. processes' = procs /\ current' = current
  <2>1. \/ \E pid : switch_process(pid, procs)
        \/ processes' = procs /\ current' = current
    BY <1>3, <1>4, Zenon DEF RunDevice, LAUNCH_CURRENT_PPP, AfterTermination, DeviceTurn,
                             SporadicTurn, PeriodicTurn, PERIODIC_CHECK, Dispatch
  <2> QED
    BY <1>2, <2>1
<1>6. /\ i \in LiveSlots(procs) /\ procs[i].pid = current /\ procs[i].yielded
      /\ procs[i].level = PERIODIC /\ current # INVALIDPID
  BY <1>5 DEF LiveSlots, FreeSlots
<1>7. CurrentProcess(procs) = procs[i]
  <2> DEFINE index == process_index_from_pid(procs, current)
  <2>1. index \in LiveSlots(procs) /\ procs[index].pid = current
        /\ CurrentProcess(procs) = procs[index]
    BY <1>1, <1>6, CurrentProcessType DEF Sound, CurrentProcess
  <2> HIDE DEF index
  <2> QED
    BY <1>1, <1>6, <2>1 DEF Unique
<1>8. PPP_index # INVALID_IDX
  <2>1. i \in OfLevel(PERIODIC, processes) /\ processes[i].pid = current
    BY <1>1, <1>6 DEF OfLevel, SameTable, LiveSlots
  <2>2. PPP_index \in Plan
    BY <2>1 DEF BelowDevices, RunsAt
  <2> QED
    BY <2>2, SchedulerAssumption DEF Plan
<1>9. ~(q.length > 0 /\ device' = q /\ Front(q) # current /\ RunDevice(t, delta, procs, q))
  <2> SUFFICES ASSUME q.length > 0, device' = q, Front(q) # current,
                      switch_process(Front(q), procs)
               PROVE  FALSE
    BY DEF RunDevice
  <2>1. q \in Queue /\ Filled(q)
    BY DEF LevelInv, IInv, TInv, TypeOK
  <2>2. 0 \in 0 .. q.length - 1 /\ Front(q) = q.buf[Position(q, 0)]
    BY <2>1, PositionFirst DEF Front, Queue, Words
  <2>3. Front(q) # INVALIDPID
    BY <2>1, <2>2 DEF Filled
  <2>4. current' = Front(q)
    BY <2>3, halted' = "no" DEF switch_process
  <2> QED
    BY <1>5, <2>4
<1>10. PeriodicTurn(t, elapsed, procs)
  <2>1. ~LAUNCH_CURRENT_PPP(t, procs) /\ ~AfterTermination(t, elapsed, procs)
    BY <1>6, <1>8 DEF LAUNCH_CURRENT_PPP, AfterTermination
  <2>2. CurrentProcess(procs).level # DEVICE /\ CurrentProcess(procs).level # SPORADIC
    BY <1>6, <1>7 DEF DEVICE, PERIODIC, SPORADIC
  <2>3. ~DeviceTurn(t, procs) /\ ~SporadicTurn(t, elapsed, procs)
    BY <2>2, Zenon DEF DeviceTurn, SporadicTurn
  <2> QED
    BY <1>3, <1>4, <1>9, <2>1, <2>3, Zenon
<1>11. current = IF sporadic.length = 0 THEN idle_pid ELSE Front(sporadic)
  <2>1. PERIODIC_CHECK(t, last_change_tick, elapsed, current, TRUE, procs, sporadic)
    BY <1>6, <1>7, <1>10 DEF PeriodicTurn
  <2>2. current \in Nat /\ Live(procs, current)
    BY <1>1, <1>6 DEF Live, TypeOK
  <2> QED
    BY <1>1, <1>5, <1>8, <2>1, <2>2, PeriodicCheckShape
<1>12. CASE current = idle_pid
  BY <1>1, <1>6, <1>12 DEF Table, PERIODIC, IDLE_PRIORITY
<1>13. CASE sporadic.length # 0 /\ current = Front(sporadic)
  <2>1. PICK j \in OfLevel(SPORADIC, procs) : procs[j].pid = current
    BY <1>1, <1>13, ExactFront
  <2> QED
    BY <1>1, <1>6, <2>1 DEF OfLevel, Unique, PERIODIC, SPORADIC
<1> QED
  BY <1>11, <1>12, <1>13

LEMMA TurnInvInit == Init => TurnInv
<1> SUFFICES ASSUME Init PROVE TurnInv
  OBVIOUS
<1>1. current = INVALIDPID
  BY DEF Init
<1>2. Fresh(processes, current) /\ ~BelowDevices(processes, current)
  BY <1>1 DEF Fresh, BelowDevices, RunsAt, OfLevel, LiveSlots, FreeSlots
<1> QED
  BY <1>2, SlotInvInit DEF TurnInv

\* The scheduler is called with at most the flag of the process that runs set, and that
\* is not idle.
LEMMA FreshCalled ==
  ASSUME TurnInv, LevelInv', timer_callback \/ OS_Yield, halted' = "no"
  PROVE  Fresh(processes', current')
<1>1. /\ halted = "no" /\ LevelInv /\ Fresh(processes, current) /\ Quiet(processes, current)
      /\ processes \in [Slots -> Process] /\ LiveSlots(processes) \subseteq Slots
      /\ Unique(processes) /\ device \in Queue
  <2>1. halted = "no"
    BY DEF timer_callback, OS_Yield, Calls
  <2> QED
    BY <2>1, QTypes DEF TurnInv, SlotInv, LevelInv, IInv
<1>2. BelowDevices(processes, current) => PPP_index \in Plan
  BY <1>1 DEF TurnInv, SlotInv, InTime
<1>3. CASE timer_callback
  <2>1. check_schedule((tick + 1) % UMOD, processes, device)
    BY <1>3 DEF timer_callback
  <2>2. SameTable(processes, processes) /\ Sound(processes)
    BY <1>1 DEF LevelInv, QInv, TInv, RunsLive, SameTable, Sound
  <2>3. \A i \in LiveSlots(processes) :
          processes[i].level = IDLE_PRIORITY => ~processes[i].yielded
    BY <1>1 DEF Fresh, Quiet
  <2> QED
    BY <1>1, <1>2, <2>1, <2>2, <2>3, ScheduleFresh
<1>4. CASE OS_Yield
  <2> DEFINE index == process_index_from_pid(processes, current)
             me == CurrentProcess(processes)
             procs == Raised(processes, index)
             dq == IF me.level = DEVICE THEN Dequeue(device) ELSE device
  <2>1. /\ current # INVALIDPID /\ Live(processes, current) /\ me.level # IDLE_PRIORITY
        /\ \/ UNCHANGED <<processes, current>>
           \/ check_schedule(tick, procs, dq)
    BY <1>1, <1>4 DEF LevelInv, QInv, TInv, RunsLive, OS_Yield, Calls, Raised
  <2>2. /\ index \in LiveSlots(processes) /\ index \in Slots /\ me = processes[index]
        /\ processes[index].pid = current
    BY <1>1, <2>1, CurrentProcessType DEF CurrentProcess
  <2> HIDE DEF index, me
  <2>3. CASE UNCHANGED <<processes, current>>
    BY <1>1, <2>3
  <2>4. CASE check_schedule(tick, procs, dq)
    <3>1. /\ SameTable(processes, procs)
          /\ \A j \in Slots \ {index} : procs[j].yielded <=> processes[j].yielded
      BY <1>1, <2>2, SetFlag
    <3> HIDE DEF procs
    <3>2. LiveSlots(procs) = LiveSlots(processes)
      BY <1>1, <3>1, SameTableKeeps
    <3>3. Sound(procs)
      BY <1>1, <2>1, <3>1, <3>2 DEF Sound, SameTable, Live
    <3>4. \A j \in LiveSlots(procs) : procs[j].yielded => j = index
      BY <1>1, <2>2, <3>1, <3>2 DEF Quiet, Unique
    <3>5. Quiet(procs, current)
      BY <1>1, <2>2, <3>1, <3>4 DEF Quiet, SameTable
    <3>6. \A i \in LiveSlots(procs) : procs[i].level = IDLE_PRIORITY => ~procs[i].yielded
      BY <2>1, <2>2, <3>1, <3>4 DEF SameTable
    <3>7. dq \in Queue
      BY <1>1, QueueTypes DEF INVALIDPID
    <3> HIDE DEF dq
    <3> QED
      BY <1>1, <1>2, <2>4, <3>1, <3>3, <3>5, <3>6, <3>7, ScheduleFresh
  <2> QED
    BY <2>1, <2>3, <2>4
<1> QED
  BY <1>3, <1>4

LEMMA TurnInvStep ==
  ASSUME NoNameCollision
  PROVE  TurnInv /\ [Next]_vars => TurnInv'
<1> SUFFICES ASSUME TurnInv, [Next]_vars PROVE TurnInv'
  OBVIOUS
<1>1. SlotInv' /\ LevelInv' /\ QInv
  BY SlotInvStep DEF TurnInv, SlotInv, LevelInv
<1> SUFFICES ASSUME halted' = "no" PROVE Fresh(processes', current')
  BY <1>1 DEF TurnInv
<1>2. CASE irq_install \/ UNCHANGED vars
  BY <1>2 DEF irq_install, vars, TurnInv
<1>3. CASE timer_callback \/ OS_Yield
  BY <1>1, <1>3, FreshCalled
<1>4. CASE OS_Terminate
  <2>1. halted = "no"
    BY <1>4 DEF OS_Terminate, Calls
  <2>2. CASE UNCHANGED <<processes, current>>
    BY <2>1, <2>2 DEF TurnInv
  <2>3. CASE current' = INVALIDPID
    BY <2>3 DEF Fresh, LiveSlots, FreeSlots
  <2> QED
    BY <1>1, <1>4, <2>2, <2>3, TerminateShape
<1>5. ASSUME NEW level \in {DEVICE, PERIODIC, SPORADIC},
             NEW n \in IF level = DEVICE THEN DeviceRates
                       ELSE IF level = PERIODIC THEN PeriodicNames ELSE SporadicNames,
             OS_Create(level, n)
      PROVE  Fresh(processes', current')
  <2>1. current' = current /\ halted = "no"
    BY <1>5 DEF OS_Create
  <2>2. CASE processes' = processes
    BY <2>1, <2>2 DEF TurnInv
  <2>3. CASE FreeSlots(processes) # {} /\ AcceptCreate(level, n)
    <3>1. PICK slot \in FreeSlots(processes) :
            /\ processes'[slot] = [pid |-> pid_counter, level |-> level, n |-> n,
                                   yielded |-> FALSE]
            /\ LiveSlots(processes') = LiveSlots(processes) \union {slot}
            /\ \A i \in LiveSlots(processes) : processes'[i] = processes[i] /\ i # slot
      BY <1>1, <1>5, <2>3, CreatedTable DEF QInv, DEVICE, PERIODIC, SPORADIC
    <3>2. ~processes'[slot].yielded
      BY <3>1
    <3> QED
      BY <2>1, <3>1, <3>2 DEF TurnInv, Fresh
  <2> QED
    BY <1>5, <2>2, <2>3 DEF OS_Create, RefuseCreate
<1> QED
  BY <1>2, <1>3, <1>4, <1>5 DEF Next, DEVICE, PERIODIC, SPORADIC

\* The index moves when the plan starts, or at the end of an entry; the CPU is then given
\* to the name of the new entry, unless what ran below the devices had yielded.
LEMMA EntryStarts ==
  ASSUME TypeOK, NEW t \in Words, NEW procs, NEW dq, check_schedule(t, procs, dq),
         PPP_index' # PPP_index
  PROVE  \E gave_up, sq :
           /\ Dispatch(pid_from_name(procs, PPP[PPP_index']), gave_up, procs, sq)
           /\ \/ gave_up = FALSE
              \/ /\ current # INVALIDPID /\ CurrentProcess(procs).level # DEVICE
                 /\ gave_up = CurrentProcess(procs).yielded
                 /\ PPPMax[PPP_index] < Elapsed(t, last_change_tick)
<1> DEFINE delta == Signed(t - last_change_tick)
           q == EnqueueDue(dq, DueDevices(t, delta, procs), procs)
           elapsed == IF delta < 0 THEN 1 ELSE delta
           Goal == \E gave_up, sq :
             /\ Dispatch(pid_from_name(procs, PPP[PPP_index']), gave_up, procs, sq)
             /\ \/ gave_up = FALSE
                \/ /\ current # INVALIDPID /\ CurrentProcess(procs).level # DEVICE
                   /\ gave_up = CurrentProcess(procs).yielded
                   /\ PPPMax[PPP_index] < Elapsed(t, last_change_tick)
<1>1. elapsed = Elapsed(t, last_change_tick)
  BY DEF Elapsed
<1>2. ASSUME NEW started, NEW any, NEW next_pid, NEW gave_up, NEW sq,
             PERIODIC_CHECK(t, started, any, next_pid, gave_up, procs, sq)
      PROVE  /\ Dispatch(pid_from_name(procs, PPP[PPP_index']), gave_up, procs, sq)
             /\ PPPMax[PPP_index] < any
  <2>1. TimesUp(any) /\ PPP_index' = NextEntry
        /\ Dispatch(pid_from_name(procs, PPP[NextEntry]), gave_up, procs, sq)
    BY <1>2 DEF PERIODIC_CHECK
  <2> QED
    BY <2>1 DEF TimesUp
<1>3. ~OS_Abort("device queue full", procs) /\ ~OS_Abort("sporadic queue empty", procs)
      /\ ~RunDevice(t, delta, procs, q)
  BY DEF OS_Abort, RunDevice, clock
<1> HIDE DEF delta, q, elapsed
<1>4. \/ LAUNCH_CURRENT_PPP(t, procs)
      \/ AfterTermination(t, elapsed, procs)
      \/ current # INVALIDPID /\ DeviceTurn(t, procs)
      \/ current # INVALIDPID /\ SporadicTurn(t, elapsed, procs)
      \/ current # INVALIDPID /\ PeriodicTurn(t, elapsed, procs)
  BY <1>3, Zenon DEF check_schedule, delta, q, elapsed
<1>5. CASE LAUNCH_CURRENT_PPP(t, procs)
  <2>1. PPP_index' = 0 /\ Dispatch(pid_from_name(procs, PPP[0]), FALSE, procs, sporadic)
    BY <1>5 DEF LAUNCH_CURRENT_PPP
  <2>2. Dispatch(pid_from_name(procs, PPP[PPP_index']), FALSE, procs, sporadic)
    BY <2>1
  <2> QED
    BY <2>2
<1>6. CASE AfterTermination(t, elapsed, procs)
  <2>1. PERIODIC_CHECK(t, last_change_tick, elapsed, INVALIDPID, FALSE, procs, sporadic)
    BY <1>6 DEF AfterTermination
  <2> QED
    BY <1>2, <2>1
<1>7. CASE current # INVALIDPID /\ DeviceTurn(t, procs)
  <2>1. \E started, any, next_pid, sq :
          PERIODIC_CHECK(t, started, any, next_pid, FALSE, procs, sq)
    BY <1>7, Zenon DEF DeviceTurn, clock
  <2> QED
    BY <1>2, <2>1
<1>8. CASE current # INVALIDPID /\ SporadicTurn(t, elapsed, procs)
  <2>1. /\ CurrentProcess(procs).level = SPORADIC
        /\ \E sq : PERIODIC_CHECK(t, last_change_tick, elapsed, current,
                                  CurrentProcess(procs).yielded, procs, sq)
    BY <1>3, <1>8, Zenon DEF SporadicTurn
  <2>2. CurrentProcess(procs).level # DEVICE
    BY <2>1 DEF DEVICE, SPORADIC
  <2> QED
    BY <1>1, <1>2, <1>8, <2>1, <2>2
<1>9. CASE current # INVALIDPID /\ PeriodicTurn(t, elapsed, procs)
  <2>1. /\ CurrentProcess(procs).level \in {PERIODIC, IDLE_PRIORITY}
        /\ PERIODIC_CHECK(t, last_change_tick, elapsed, current,
                          CurrentProcess(procs).yielded, procs, sporadic)
    BY <1>9 DEF PeriodicTurn
  <2>2. CurrentProcess(procs).level # DEVICE
    BY <2>1 DEF DEVICE, PERIODIC, IDLE_PRIORITY
  <2> QED
    BY <1>1, <1>2, <1>9, <2>1, <2>2
<1> QED
  BY <1>4, <1>5, <1>6, <1>7, <1>8, <1>9

\* pid_from_name finds a PERIODIC process for an entry whose name one has.
LEMMA EntryPid ==
  ASSUME NoNameCollision, QInv, NEW procs, SameTable(processes, procs), NEW k \in Plan,
         Named(PPP[k]) # {}
  PROVE  \E i \in Named(PPP[k]) : pid_from_name(procs, PPP[k]) = processes[i].pid
<1> DEFINE named == {j \in LiveSlots(procs) : procs[j].n = PPP[k]}
<1>1. /\ processes \in [Slots -> Process] /\ LiveSlots(processes) \subseteq Slots
      /\ LiveSlots(procs) = LiveSlots(processes) /\ Table(processes, pid_counter)
  BY QTypes, SameTableKeeps DEF QInv
<1>2. PICK i \in LiveSlots(processes) : processes[i].level = PERIODIC /\ processes[i].n = PPP[k]
  BY DEF Named, LiveAt
<1>3. i \in named
  BY <1>1, <1>2 DEF SameTable
<1>4. ASSUME NEW j \in named PROVE j \in Named(PPP[k]) /\ processes[j].pid = procs[j].pid
  <2>1. /\ j \in LiveSlots(processes) /\ processes[j].n = PPP[k]
        /\ processes[j].level \in DEVICE .. IDLE_PRIORITY /\ processes[j].pid = procs[j].pid
    BY <1>1 DEF SameTable, Process
  <2>2. PPP[k] \notin DeviceRates \union SporadicNames \union {0}
    BY DEF NoNameCollision, PlanNames
  <2>3. processes[j].level = PERIODIC
    BY <1>1, <2>1, <2>2 DEF Table, DEVICE, PERIODIC, SPORADIC, IDLE_PRIORITY
  <2> QED
    BY <2>1, <2>3 DEF Named, LiveAt
<1>5. named \in SUBSET Slots /\ named # {}
  BY <1>1, <1>3
<1>6. PPP[k] # IDLE
  BY <1>1, <1>2 DEF IDLE, Process
<1>7. pid_from_name(procs, PPP[k]) = procs[Min(named)].pid
  BY <1>5, <1>6 DEF pid_from_name
<1> HIDE DEF named
<1>8. Min(named) \in named
  BY <1>5, MinOfSlots
<1> QED
  BY <1>4, <1>7, <1>8

\* A SPORADIC process that runs although it has yielded: it was alone.
Yielder == Runs(SPORADIC) /\ CurrentProcess(processes).yielded

LEMMA EntryCalled ==
  ASSUME NoNameCollision, TurnInv, PPP_index' \in Plan, PPP_index' # PPP_index, ~Yielder,
         timer_callback \/ OS_Yield, Named(PPP[PPP_index']) # {}
  PROVE  \E i \in Named(PPP[PPP_index']) : current' = processes[i].pid
<1>1. halted = "no" /\ QInv /\ TypeOK
  BY DEF timer_callback, OS_Yield, Calls, TurnInv, SlotInv, LevelInv, QInv, TInv
<1>2. PICK t, procs, dq :
        /\ SameTable(processes, procs) /\ Sound(procs) /\ dq \in Queue
        /\ check_schedule(t, procs, dq)
        /\ tick' = t /\ (tick' = tick \/ procs = processes)
  BY <1>1, SchedulerCalled DEF clock
<1>3. t \in Words
  <2>1. tick \in Words /\ tick + 1 \in Int
    BY <1>1 DEF TypeOK, Words
  <2>2. (tick + 1) % UMOD \in Words
    BY <2>1, WordsMod
  <2>3. tick' = tick \/ tick' = (tick + 1) % UMOD
    BY DEF timer_callback, OS_Yield
  <2> QED
    BY <1>2, <2>1, <2>2, <2>3
<1>4. PICK gave_up, sq :
        /\ Dispatch(pid_from_name(procs, PPP[PPP_index']), gave_up, procs, sq)
        /\ \/ gave_up = FALSE
           \/ /\ current # INVALIDPID /\ CurrentProcess(procs).level # DEVICE
              /\ gave_up = CurrentProcess(procs).yielded
              /\ PPPMax[PPP_index] < Elapsed(t, last_change_tick)
  BY <1>1, <1>2, <1>3, EntryStarts
<1>5. gave_up = FALSE
  <2> SUFFICES ASSUME current # INVALIDPID, CurrentProcess(procs).level # DEVICE,
                      gave_up = CurrentProcess(procs).yielded, gave_up # FALSE,
                      PPPMax[PPP_index] < Elapsed(t, last_change_tick)
               PROVE  FALSE
    BY <1>4
  <2> DEFINE index == process_index_from_pid(procs, current)
  <2>1. /\ procs \in [Slots -> Process] /\ LiveSlots(processes) \subseteq Slots
        /\ LiveSlots(procs) = LiveSlots(processes) /\ processes \in [Slots -> Process]
    BY <1>1, <1>2, QTypes, SameTableKeeps DEF Sound
  <2>2. index \in LiveSlots(procs) /\ procs[index].pid = current
        /\ CurrentProcess(procs) = procs[index]
    BY <1>2, <2>1, CurrentProcessType DEF Sound, CurrentProcess
  <2> HIDE DEF index
  <2>3. /\ index \in LiveSlots(processes) /\ processes[index].pid = current
        /\ processes[index].level = procs[index].level
        /\ processes[index].level \in {PERIODIC, SPORADIC, IDLE_PRIORITY}
    BY <1>2, <2>1, <2>2
    DEF SameTable, Process, DEVICE, PERIODIC, SPORADIC, IDLE_PRIORITY
  <2>4. CASE tick' = tick
    <3>1. BelowDevices(processes, current)
      BY <2>3 DEF BelowDevices, RunsAt, OfLevel
    <3>2. InTime(t, last_change_tick, PPP_index)
      BY <1>1, <1>2, <2>4, <3>1 DEF TurnInv, SlotInv
    <3>3. /\ PPPMax[PPP_index] \in Nat /\ Elapsed(t, last_change_tick) \in Nat
          /\ Elapsed(t, last_change_tick) <= PPPMax[PPP_index]
      BY <1>1, <1>3, <3>2, ElapsedType, SchedulerAssumption DEF InTime, TypeOK, Words
    <3> QED
      BY <3>3
  <2>5. CASE procs = processes
    <3>1. processes[index].yielded
      BY <2>1, <2>2, <2>5 DEF Process
    <3>2. processes[index].level = SPORADIC
      BY <1>1, <2>3, <3>1 DEF TurnInv, Fresh
    <3> QED
      BY <2>2, <2>3, <2>5, <3>1, <3>2 DEF Yielder, Runs, Live
  <2> QED
    BY <1>2, <2>4, <2>5
<1>6. PICK i \in Named(PPP[PPP_index']) :
        pid_from_name(procs, PPP[PPP_index']) = processes[i].pid
  BY <1>1, <1>2, EntryPid
<1>7. i \in LiveSlots(processes) /\ processes[i].pid \in Nat \ {INVALIDPID}
  BY <1>1, QTypes DEF Named, LiveAt, LiveSlots, FreeSlots, Process
<1>8. switch_process(processes[i].pid, procs)
  BY <1>4, <1>5, <1>6, <1>7 DEF Dispatch
<1>9. current' = processes[i].pid
  BY <1>1, <1>2, <1>7, <1>8, SwitchShape
<1> QED
  BY <1>6, <1>9

LEMMA EntryStep ==
  ASSUME NoNameCollision, TurnInv, [Next]_vars, ~Yielder,
         PPP_index' \notin {PPP_index, INVALID_IDX}, Named(PPP[PPP_index']) # {}
  PROVE  \E i \in Named(PPP[PPP_index']) : current' = processes[i].pid
<1>1. TurnInv'
  BY TurnInvStep
<1>2. PPP_index' \in Plan
  BY <1>1 DEF TurnInv, SlotInv, LevelInv, QInv, TInv, TypeOK
<1>3. timer_callback \/ OS_Yield
  BY DEF Next, irq_install, OS_Create, OS_Terminate, vars, clock
<1> QED
  BY <1>2, <1>3, EntryCalled

\* When the plan moves to an entry whose name some PERIODIC process has, a process of
\* that name gets the CPU, unless a SPORADIC process that has yielded and stayed the only
\* one runs.  The legal names, which all share a word of the bitmap, are covered: so are
\* two live processes of one name.
THEOREM EntryGoesToItsProcess ==
  ASSUME NoNameCollision
  PROVE  Spec => [][PPP_index' \notin {PPP_index, INVALID_IDX} /\ Named(PPP[PPP_index']) # {}
                      => Yielder \/ \E i \in Named(PPP[PPP_index']) :
                                       current' = processes[i].pid]_vars
<1>1. TurnInv /\ [Next]_vars =>
        [PPP_index' \notin {PPP_index, INVALID_IDX} /\ Named(PPP[PPP_index']) # {}
           => Yielder \/ \E i \in Named(PPP[PPP_index']) : current' = processes[i].pid]_vars
  BY EntryStep
<1> QED
  BY <1>1, TurnInvInit, TurnInvStep, PTL DEF Spec

\* Without SPORADIC processes every entry of the plan goes to a process of its name.
THEOREM EveryEntryGoesToItsProcess ==
  ASSUME NoNameCollision, SporadicNames = {}
  PROVE  Spec => SlotGoesToItsProcess
<1>1. TurnInv => ~Yielder
  BY RunsLevel DEF TurnInv, SlotInv, LevelInv, QInv, Table, Yielder, OfLevel
<1>2. TurnInv /\ [Next]_vars =>
        [PPP_index' \notin {PPP_index, INVALID_IDX} /\ Named(PPP[PPP_index']) # {}
           => \E i \in Named(PPP[PPP_index']) : current' = processes[i].pid]_vars
  BY <1>1, EntryStep
<1> QED
  BY <1>2, TurnInvInit, TurnInvStep, PTL DEF Spec, SlotGoesToItsProcess
-----------------------------------------------------------------------------
(* The ticks of an entry, counted by the record of SchedulerHistory.       *)

\* Ticks from one value of the tick counter to another.
Gap(t, started) == (t - started) % UMOD

LEMMA WordMod ==
  \A x \in -(UMOD - 1) .. 2 * UMOD - 1 :
    x % UMOD = IF x < 0 THEN x + UMOD ELSE IF x < UMOD THEN x ELSE x - UMOD
  OBVIOUS

LEMMA GapFacts ==
  ASSUME NEW t \in Words, NEW s \in Words
  PROVE  /\ Gap(t, s) \in Words /\ Gap(t, t) = 0
         /\ Gap(t, s) + 1 < UMOD => Gap((t + 1) % UMOD, s) = Gap(t, s) + 1
         /\ 2 * Gap(t, s) < UMOD =>
              Signed(t - s) = Gap(t, s) /\ Elapsed(t, s) = Gap(t, s)
<1>1. t \in 0 .. UMOD - 1 /\ s \in 0 .. UMOD - 1
  BY DEF Words
<1>2. t - s \in -(UMOD - 1) .. 2 * UMOD - 1 /\ t - t = 0 /\ 0 \in -(UMOD - 1) .. 2 * UMOD - 1
      /\ t + 1 \in -(UMOD - 1) .. 2 * UMOD - 1
  BY <1>1
<1>3. Gap(t, s) = IF t - s < 0 THEN t - s + UMOD ELSE t - s
  <2>1. Gap(t, s) = IF t - s < 0 THEN t - s + UMOD ELSE IF t - s < UMOD THEN t - s ELSE t - s - UMOD
    BY <1>2, WordMod DEF Gap
  <2> QED
    BY <1>1, <2>1
<1>4. Gap(t, t) = 0
  BY <1>2, WordMod DEF Gap
<1>5. PICK u \in Words : u = (t + 1) % UMOD
  <2>1. t + 1 \in Int
    BY <1>1
  <2>2. (t + 1) % UMOD \in Words
    BY <2>1, WordsMod
  <2> QED
    BY <2>2
<1>6. u = IF t + 1 < UMOD THEN t + 1 ELSE t + 1 - UMOD
  BY <1>1, <1>2, <1>5, WordMod
<1>7. u - s \in -(UMOD - 1) .. 2 * UMOD - 1 /\ u - s < UMOD
  BY <1>1, <1>5 DEF Words
<1>8. Gap(u, s) = IF u - s < 0 THEN u - s + UMOD ELSE u - s
  <2>1. Gap(u, s) = IF u - s < 0 THEN u - s + UMOD ELSE IF u - s < UMOD THEN u - s ELSE u - s - UMOD
    BY <1>7, WordMod DEF Gap
  <2> QED
    BY <1>1, <1>7, <2>1
<1>9. Gap(t, s) + 1 < UMOD => Gap(u, s) = Gap(t, s) + 1
  BY <1>1, <1>3, <1>6, <1>8
<1>10. Gap(t, s) \in Words
  BY <1>1, <1>3 DEF Words
<1>11. 2 * Gap(t, s) < UMOD => Signed(t - s) = Gap(t, s)
  <2>1. Signed(t - s) = IF 2 * Gap(t, s) >= UMOD THEN Gap(t, s) - UMOD ELSE Gap(t, s)
    BY DEF Signed, Gap
  <2> QED
    BY <1>10, <2>1 DEF Words
<1>12. 2 * Gap(t, s) < UMOD => Elapsed(t, s) = Gap(t, s)
  BY <1>10, <1>11 DEF Elapsed, Words
<1> QED
  BY <1>4, <1>5, <1>9, <1>10, <1>11, <1>12

\* A DEVICE that gives the CPU back sets the start of the entry back by the debt.
LEMMA GapBack ==
  ASSUME NEW t \in Words, NEW d \in Words
  PROVE  (t - d) % UMOD \in Words /\ Gap(t, (t - d) % UMOD) = d
<1>1. t \in 0 .. UMOD - 1 /\ d \in 0 .. UMOD - 1
  BY DEF Words
<1>2. t - d \in -(UMOD - 1) .. 2 * UMOD - 1 /\ t - d < UMOD
  BY <1>1
<1>3. PICK s \in Words : s = (t - d) % UMOD
  BY <1>2, WordsMod
<1>4. s = IF t - d < 0 THEN t - d + UMOD ELSE t - d
  <2>1. s = IF t - d < 0 THEN t - d + UMOD ELSE IF t - d < UMOD THEN t - d ELSE t - d - UMOD
    BY <1>2, <1>3, WordMod
  <2> QED
    BY <1>2, <2>1
<1>5. t - s \in -(UMOD - 1) .. 2 * UMOD - 1 /\ t - s < UMOD
  BY <1>1, <1>3 DEF Words
<1>6. Gap(t, s) = IF t - s < 0 THEN t - s + UMOD ELSE t - s
  <2>1. Gap(t, s) = IF t - s < 0 THEN t - s + UMOD ELSE IF t - s < UMOD THEN t - s ELSE t - s - UMOD
    BY <1>5, WordMod DEF Gap
  <2> QED
    BY <1>1, <1>5, <2>1
<1> QED
  BY <1>1, <1>3, <1>4, <1>6

LEMMA NextEntryMoves ==
  ASSUME PPPLen > 1, PPP_index \in Plan
  PROVE  NextEntry \in Plan /\ NextEntry # PPP_index
<1>1. PPP_index \in 0 .. PPPLen - 1
  BY DEF Plan
<1>2. \A x \in 0 .. 2 * PPPLen - 1 : x % PPPLen = IF x < PPPLen THEN x ELSE x - PPPLen
  OBVIOUS
<1>3. PPP_index + 1 \in 0 .. 2 * PPPLen - 1
  BY <1>1
<1>4. NextEntry = IF PPP_index + 1 < PPPLen THEN PPP_index + 1 ELSE PPP_index + 1 - PPPLen
  <2>1. PICK x \in 0 .. 2 * PPPLen - 1 : x = PPP_index + 1
    BY <1>3
  <2>2. NextEntry = x % PPPLen
    BY <2>1, Zenon DEF NextEntry
  <2>3. x % PPPLen = IF x < PPPLen THEN x ELSE x - PPPLen
    BY <1>2, <2>1
  <2>4. NextEntry = IF x < PPPLen THEN x ELSE x - PPPLen
    BY <2>2, <2>3, Zenon
  <2> QED
    BY <1>1, <2>1, <2>4
<1> QED
  BY <1>1, <1>4 DEF Plan

\* The ticks that k entries of the plan may take.
Room(longest, k) == (longest + 1) * k

LEMMA RoomGrows ==
  ASSUME NEW longest \in Nat
  PROVE  /\ \A k \in Nat : Room(longest, k) \in Nat
                             /\ Room(longest, k + 1) = Room(longest, k) + longest + 1
         /\ \A j, k \in Nat : j <= k => Room(longest, j) <= Room(longest, k)
<1>1. \A k \in Nat : Room(longest, k) \in Nat
                       /\ Room(longest, k + 1) = Room(longest, k) + longest + 1
  BY DEF Room
<1>2. ASSUME NEW j \in Nat, NEW k \in Nat, j <= k PROVE Room(longest, j) <= Room(longest, k)
  <2>1. PICK d \in Nat : k = j + d
    <3>1. k - j \in Nat /\ k = j + (k - j)
      BY <1>2
    <3> QED
      BY <3>1
  <2>2. (longest + 1) * (j + d) = (longest + 1) * j + (longest + 1) * d
    OBVIOUS
  <2>3. (longest + 1) * d \in Nat /\ (longest + 1) * j \in Nat
    OBVIOUS
  <2> QED
    BY <2>1, <2>2, <2>3 DEF Room
<1> QED
  BY <1>1, <1>2

-----------------------------------------------------------------------------
(* How a scheduling decision leaves the clock of the plan.                 *)

LEMMA RunsAtSame ==
  ASSUME NEW a \in [Slots -> Process], NEW b, SameTable(a, b)
  PROVE  \A level, pid : RunsAt(level, b, pid) <=> RunsAt(level, a, pid)
<1>1. LiveSlots(b) = LiveSlots(a) /\ LiveSlots(a) \subseteq Slots
  BY SameTableKeeps DEF LiveSlots
<1> QED
  BY <1>1 DEF RunsAt, OfLevel, SameTable

\* The level of the process whose turn it is.
LEMMA TurnLevel ==
  ASSUME NEW procs, Sound(procs), Unique(procs), current # INVALIDPID
  PROVE  \A level : RunsAt(level, procs, current) <=> CurrentProcess(procs).level = level
<1> DEFINE index == process_index_from_pid(procs, current)
<1>1. index \in LiveSlots(procs) /\ procs[index].pid = current
      /\ CurrentProcess(procs) = procs[index]
  BY CurrentProcessType DEF Sound, CurrentProcess
<1> HIDE DEF index
<1> QED
  BY <1>1 DEF RunsAt, OfLevel, Unique

DeviceStarts(t) ==
  /\ PPP_index' = PPP_index /\ last_change_tick' = t
  /\ PPP_debt' = (PPP_debt + Signed(t - last_change_tick)) % UMOD
  /\ RunsAt(DEVICE, processes', current')

EntryBegins(t) ==
  /\ PPP_index' \in Plan /\ PPP_index' # PPP_index /\ last_change_tick' = t
  /\ \/ PPP_debt' = 0
     \/ /\ PPP_debt' = PPP_debt
        /\ PPP_index = INVALID_IDX \/ ~RunsAt(DEVICE, processes, current)

EntryGoesOn(t) ==
  /\ PPP_index \in Plan /\ Elapsed(t, last_change_tick) <= PPPMax[PPP_index]
  /\ UNCHANGED <<PPP_index, last_change_tick, PPP_debt>>
  /\ ~RunsAt(DEVICE, processes, current) /\ ~RunsAt(DEVICE, processes', current')
  /\ RunsAt(PERIODIC, processes', current') => RunsAt(PERIODIC, processes, current)

EntryResumes(t) ==
  /\ PPP_index \in Plan /\ Elapsed(t, last_change_tick') <= PPPMax[PPP_index]
  /\ PPP_index' = PPP_index /\ last_change_tick' = (t - PPP_debt) % UMOD /\ PPP_debt' = 0
  /\ RunsAt(DEVICE, processes, current) /\ ~RunsAt(DEVICE, processes', current')

\* The process chosen when the entry goes on.
Chosen(next_pid, gave_up, sq) ==
  IF next_pid # INVALIDPID /\ ~gave_up THEN next_pid
  ELSE IF sq.length = 0 THEN idle_pid ELSE Front(sq)

LEMMA EntryCheck ==
  ASSUME TypeOK, PPP_index \in Plan, PPPLen > 1, NEW t, NEW started, NEW elapsed \in Int,
         NEW procs, Sound(procs), HasIdle(procs), NEW sq \in Queue, Exact(sq, procs),
         NEW next_pid \in Nat, next_pid # INVALIDPID => Live(procs, next_pid),
         NEW gave_up \in BOOLEAN,
         PERIODIC_CHECK(t, started, elapsed, next_pid, gave_up, procs, sq)
  PROVE  \/ PPP_index' \in Plan /\ PPP_index' # PPP_index /\ last_change_tick' = t
         \/ /\ PPP_index' = PPP_index /\ last_change_tick' = started
            /\ elapsed <= PPPMax[PPP_index]
            /\ SameTable(procs, processes') /\ current' = Chosen(next_pid, gave_up, sq)
<1>1. CASE last_change_tick' = t /\ PPP_index' = NextEntry
  BY <1>1, NextEntryMoves
<1>2. CASE /\ ~TimesUp(elapsed) /\ last_change_tick' = started /\ PPP_index' = PPP_index
           /\ Dispatch(next_pid, gave_up, procs, sq)
  <2>1. elapsed <= PPPMax[PPP_index]
    BY <1>2 DEF TimesUp
  <2>2. SameTable(procs, processes') /\ current' = Chosen(next_pid, gave_up, sq)
    BY <1>2, DispatchShape DEF Chosen
  <2> QED
    BY <1>2, <2>1, <2>2
<1> QED
  BY <1>1, <1>2 DEF PERIODIC_CHECK

\* Idle and the front of the ring are of their levels.
LEMMA ChosenLevel ==
  ASSUME NEW procs \in [Slots -> Process], Unique(procs), NEW pc, Table(procs, pc),
         HasIdle(procs), NEW sq \in Queue, Exact(sq, procs), NEW next_pid, NEW gave_up \in BOOLEAN,
         NEW level \in {DEVICE, PERIODIC}, RunsAt(level, procs, Chosen(next_pid, gave_up, sq))
  PROVE  next_pid # INVALIDPID /\ Chosen(next_pid, gave_up, sq) = next_pid
<1> SUFFICES ASSUME ~(next_pid # INVALIDPID /\ ~gave_up) PROVE FALSE
  BY DEF Chosen
<1>1. PICK i \in LiveSlots(procs) :
        procs[i].level = level /\ procs[i].pid = Chosen(next_pid, gave_up, sq)
  BY DEF RunsAt, OfLevel
<1>2. CASE sq.length = 0
  <2>1. procs[i].pid = idle_pid
    BY <1>1, <1>2 DEF Chosen
  <2> QED
    BY <1>1, <2>1 DEF Table, DEVICE, PERIODIC, IDLE_PRIORITY
<1>3. CASE sq.length # 0
  <2>1. PICK j \in OfLevel(SPORADIC, procs) : procs[j].pid = Front(sq)
    BY <1>3, ExactFront
  <2>2. procs[i].pid = Front(sq)
    BY <1>1, <1>3 DEF Chosen
  <2> QED
    BY <1>1, <2>1, <2>2 DEF OfLevel, Unique, DEVICE, PERIODIC, SPORADIC
<1> QED
  BY <1>2, <1>3

\* No device runs as a process of the plan.
LEMMA PlannedNotDevice ==
  ASSUME NoNameCollision, NEW procs \in [Slots -> Process], Unique(procs), NEW pc,
         Table(procs, pc), NEW k \in Plan, pid_from_name(procs, PPP[k]) # INVALIDPID
  PROVE  ~RunsAt(DEVICE, procs, pid_from_name(procs, PPP[k]))
<1>1. PPP[k] \in Int /\ PPP[k] \in PlanNames
  BY NumberTypes DEF PlanNames
<1>2. PICK i \in LiveSlots(procs) :
        procs[i].n = PPP[k] /\ pid_from_name(procs, PPP[k]) = procs[i].pid
  BY <1>1, PidFromName
<1>3. procs[i].level # DEVICE
  BY <1>1, <1>2 DEF Table, NoNameCollision
<1> QED
  BY <1>2, <1>3 DEF RunsAt, OfLevel, Unique

\* A scheduling decision in a device's last call or in no device's: a device starts, an
\* entry begins, the entry goes on, or the one a device pre-empted does.
LEMMA ScheduleOutcome ==
  ASSUME NoNameCollision, PPPLen > 1, LevelInv, LevelInv', NEW t \in Words,
         NEW procs, SameTable(processes, procs), Sound(procs), NEW dq \in Queue,
         check_schedule(t, procs, dq), halted' = "no",
         RunsAt(DEVICE, processes, current) => CurrentProcess(procs).yielded
  PROVE  DeviceStarts(t) \/ EntryBegins(t) \/ EntryGoesOn(t) \/ EntryResumes(t)
<1> DEFINE delta == Signed(t - last_change_tick)
           q == EnqueueDue(dq, DueDevices(t, delta, procs), procs)
           elapsed == IF delta < 0 THEN 1 ELSE delta
           Goal == DeviceStarts(t) \/ EntryBegins(t) \/ EntryGoesOn(t) \/ EntryResumes(t)
<1>1. /\ Exact(sporadic, procs) /\ HasIdle(procs) /\ Table(procs, pid_counter)
      /\ Unique(procs) /\ procs \in [Slots -> Process] /\ sporadic \in Queue /\ TypeOK
  <2>1. Exact(sporadic, procs) /\ HasIdle(procs) /\ Table(procs, pid_counter)
    BY ScheduleShapeQ DEF LevelInv
  <2> QED
    BY <2>1 DEF Table, Unique, Sound, LevelInv, IInv, TInv, TypeOK
<1>2. \A level, pid : RunsAt(level, procs, pid) <=> RunsAt(level, processes, pid)
  BY <1>1, RunsAtSame DEF TypeOK
<1>3. ASSUME current # INVALIDPID
      PROVE  \A level : RunsAt(level, processes, current) <=> CurrentProcess(procs).level = level
  BY <1>1, <1>2, <1>3, TurnLevel
<1>4. ASSUME SameTable(procs, processes')
      PROVE  \A level, pid : RunsAt(level, processes', pid) <=> RunsAt(level, processes, pid)
  BY <1>1, <1>2, <1>4, RunsAtSame
<1>5. t \in Int /\ last_change_tick \in Int /\ PPP_debt \in Int /\ delta \in Int
      /\ elapsed \in Int /\ elapsed = Elapsed(t, last_change_tick)
  <2>1. t \in Int /\ last_change_tick \in Int /\ PPP_debt \in Int
    BY <1>1 DEF TypeOK, Words
  <2>2. delta \in Int
    BY <2>1, NumberTypes
  <2> QED
    BY <2>1, <2>2 DEF Elapsed
<1>6. elapsed = Elapsed(t, last_change_tick)
  BY DEF Elapsed
<1> SUFFICES Goal
  BY DEF Goal
<1> DEFINE Candidate(next_pid, gave_up, sq) ==
             /\ PPP_index # INVALID_IDX /\ ~RunsAt(DEVICE, processes, current)
             /\ next_pid \in {current, INVALIDPID} /\ PPP_debt' = PPP_debt
             /\ next_pid \in Nat /\ (next_pid # INVALIDPID => Live(procs, next_pid))
             /\ gave_up \in BOOLEAN /\ sq \in Queue /\ Exact(sq, procs)
             /\ PERIODIC_CHECK(t, last_change_tick, elapsed, next_pid, gave_up, procs, sq)
<1> HIDE DEF q, elapsed, Goal
<1>7. ASSUME NEW next_pid, NEW gave_up, NEW sq, Candidate(next_pid, gave_up, sq)
      PROVE  Goal
  <2>0. /\ PPP_index # INVALID_IDX /\ ~RunsAt(DEVICE, processes, current)
        /\ next_pid \in {current, INVALIDPID} /\ PPP_debt' = PPP_debt
        /\ next_pid \in Nat /\ (next_pid # INVALIDPID => Live(procs, next_pid))
        /\ gave_up \in BOOLEAN /\ sq \in Queue /\ Exact(sq, procs)
        /\ PERIODIC_CHECK(t, last_change_tick, elapsed, next_pid, gave_up, procs, sq)
    BY <1>7
  <2> HIDE DEF Candidate
  <2>1. PPP_index \in Plan
    BY <1>1, <2>0 DEF TypeOK
  <2>2. CASE PPP_index' \in Plan /\ PPP_index' # PPP_index /\ last_change_tick' = t
    BY <2>0, <2>2 DEF EntryBegins, Goal
  <2>3. CASE /\ PPP_index' = PPP_index /\ last_change_tick' = last_change_tick
             /\ elapsed <= PPPMax[PPP_index]
             /\ SameTable(procs, processes') /\ current' = Chosen(next_pid, gave_up, sq)
    <3>1. ASSUME NEW level \in {DEVICE, PERIODIC}, RunsAt(level, processes', current')
          PROVE  RunsAt(level, processes, current)
      <4>1. RunsAt(level, procs, Chosen(next_pid, gave_up, sq))
        BY <1>2, <1>4, <2>3, <3>1
      <4>4. DEVICE \in {DEVICE, PERIODIC} /\ FALSE \in BOOLEAN
        OBVIOUS
      <4>2. next_pid # INVALIDPID /\ Chosen(next_pid, gave_up, sq) = next_pid
        BY <1>1, <2>0, <4>1, ChosenLevel
      <4> QED
        BY <1>2, <2>0, <4>1, <4>2
    <3>2. ~RunsAt(DEVICE, processes', current')
      BY <2>0, <3>1
    <3>3. RunsAt(PERIODIC, processes', current') => RunsAt(PERIODIC, processes, current)
      BY <3>1
    <3> QED
      BY <1>6, <2>0, <2>1, <2>3, <3>2, <3>3 DEF EntryGoesOn, Goal
  <2> QED
    BY <1>1, <1>5, <2>0, <2>1, <2>2, <2>3, EntryCheck
<1> HIDE DEF Candidate
<1>8. CASE device' = q /\ q.length > 0 /\ RunDevice(t, delta, procs, q)
  <2>1. /\ PPP_debt' = (PPP_debt + delta) % UMOD /\ last_change_tick' = t
        /\ switch_process(Front(q), procs) /\ PPP_index' = PPP_index
    BY <1>8 DEF RunDevice
  <2>2. q \in Queue /\ Filled(q) /\ Holds(q, DEVICE, processes', pid_counter')
        /\ (current' = INVALIDPID \/ Live(processes', current'))
    BY <1>8 DEF LevelInv, IInv, TInv, TypeOK, RunsLive
  <2>3. Front(q) # INVALIDPID /\ q.idx \in Slots
    <3>1. 0 \in 0 .. q.length - 1 /\ Front(q) = q.buf[Position(q, 0)] /\ q.idx \in Slots
      BY <1>8, <2>2, PositionFirst DEF Front, Queue, Words
    <3> QED
      BY <2>2, <3>1 DEF Filled
  <2>4. current' = Front(q)
    BY <2>1, <2>3, halted' = "no" DEF switch_process
  <2>5. RunsAt(DEVICE, processes', current')
    <3>1. PICK i \in LiveSlots(processes') : processes'[i].pid = current'
      BY <2>2, <2>3, <2>4 DEF Live
    <3>2. processes'[i].level = DEVICE
      BY <2>2, <2>3, <2>4, <3>1 DEF Holds, Front
    <3> QED
      BY <3>1, <3>2 DEF RunsAt, OfLevel
  <2> QED
    BY <2>1, <2>5 DEF DeviceStarts, Goal
<1>9. CASE LAUNCH_CURRENT_PPP(t, procs)
  <2>1. PPP_index = INVALID_IDX /\ last_change_tick' = t /\ PPP_index' = 0 /\ PPP_debt' = PPP_debt
    BY <1>9 DEF LAUNCH_CURRENT_PPP
  <2>2. 0 \in Plan /\ INVALID_IDX # 0
    BY NumberTypes DEF INVALID_IDX
  <2> QED
    BY <2>1, <2>2 DEF EntryBegins, Goal
<1>10. CASE PPP_index # INVALID_IDX /\ AfterTermination(t, elapsed, procs)
  <2>1. current = INVALIDPID /\ PPP_debt' = PPP_debt
        /\ PERIODIC_CHECK(t, last_change_tick, elapsed, INVALIDPID, FALSE, procs, sporadic)
    BY <1>10 DEF AfterTermination
  <2>2. ~RunsAt(DEVICE, processes, current)
    BY <2>1 DEF RunsAt, OfLevel, LiveSlots, FreeSlots
  <2>3. INVALIDPID \in Nat
    BY DEF INVALIDPID
  <2>4. Candidate(INVALIDPID, FALSE, sporadic)
    BY <1>1, <1>10, <2>1, <2>2, <2>3, Zenon DEF Candidate
  <2> QED
    BY <1>7, <2>4, Zenon
<1>11. CASE PPP_index # INVALID_IDX /\ current # INVALIDPID /\ SporadicTurn(t, elapsed, procs)
  <2> DEFINE gave_up == CurrentProcess(procs).yielded
             sq == Reenter(sporadic, gave_up)
  <2>1. ~OS_Abort("sporadic queue empty", procs)
    BY DEF OS_Abort
  <2>2. /\ CurrentProcess(procs).level = SPORADIC /\ PPP_debt' = PPP_debt
        /\ ~(gave_up /\ sporadic.length = 0)
        /\ PERIODIC_CHECK(t, last_change_tick, elapsed, current, gave_up, procs, sq)
    BY <1>11, <2>1, Zenon DEF SporadicTurn
  <2>3. /\ current \in Nat /\ Live(procs, current) /\ gave_up \in BOOLEAN
    BY <1>1, <1>11, CurrentProcessType DEF TypeOK, Sound, Process
  <2>4. sq \in Queue /\ Exact(sq, procs)
    <3>1. CASE gave_up
      <4>1. sporadic.length # 0 /\ sq = Rotate(sporadic)
        BY <2>2, <3>1 DEF Reenter
      <4>2. sporadic.length > 0
        BY <1>1, <4>1 DEF Queue, Words
      <4>3. Rotate(sporadic) \in Queue
        BY <1>1, QueueTypes
      <4>4. Exact(Rotate(sporadic), procs)
        BY <1>1, <4>2, ExactRotate
      <4> QED
        BY <4>1, <4>3, <4>4
    <3>2. CASE ~gave_up
      BY <1>1, <3>2 DEF Reenter
    <3> QED
      BY <3>1, <3>2
  <2>5. ~RunsAt(DEVICE, processes, current)
    BY <1>3, <1>11, <2>2 DEF SPORADIC, DEVICE
  <2> HIDE DEF gave_up, sq
  <2>6. Candidate(current, gave_up, sq)
    BY <1>11, <2>2, <2>3, <2>4, <2>5, Zenon DEF Candidate
  <2> QED
    BY <1>7, <2>6, Zenon
<1>12. CASE PPP_index # INVALID_IDX /\ current # INVALIDPID /\ PeriodicTurn(t, elapsed, procs)
  <2> DEFINE gave_up == CurrentProcess(procs).yielded
  <2>1. /\ CurrentProcess(procs).level \in {PERIODIC, IDLE_PRIORITY} /\ PPP_debt' = PPP_debt
        /\ PERIODIC_CHECK(t, last_change_tick, elapsed, current, gave_up, procs, sporadic)
    BY <1>12, Zenon DEF PeriodicTurn
  <2>2. /\ current \in Nat /\ Live(procs, current) /\ gave_up \in BOOLEAN
    BY <1>1, <1>12, CurrentProcessType DEF TypeOK, Sound, Process
  <2>3. ~RunsAt(DEVICE, processes, current)
    BY <1>3, <1>12, <2>1 DEF PERIODIC, IDLE_PRIORITY, DEVICE
  <2> HIDE DEF gave_up
  <2>4. Candidate(current, gave_up, sporadic)
    BY <1>1, <1>12, <2>1, <2>2, <2>3, Zenon DEF Candidate
  <2> QED
    BY <1>7, <2>4, Zenon
<1>13. CASE PPP_index # INVALID_IDX /\ current # INVALIDPID /\ DeviceTurn(t, procs)
  <2>1. PPP_index \in Plan
    BY <1>1, <1>13 DEF TypeOK
  <2>2. CurrentProcess(procs).level = DEVICE
    BY <1>13, Zenon DEF DeviceTurn
  <2>3. RunsAt(DEVICE, processes, current) /\ CurrentProcess(procs).yielded
    BY <1>3, <1>13, <2>2
  <2> DEFINE started == (t - PPP_debt) % UMOD
             d == Signed(t - started)
             e == IF d < 0 THEN 1 ELSE d
             next_pid == pid_from_name(procs, PPP[PPP_index])
  <2>4. started \in Int
    BY <1>5, WordsMod DEF Words
  <2>5. d \in Int /\ e \in Int
    <3> HIDE DEF started
    <3>1. d \in Int
      BY <1>5, <2>4, NumberTypes
    <3> HIDE DEF d
    <3> QED
      BY <3>1
  <2>6. e = Elapsed(t, started)
    BY DEF Elapsed
  <2>7. /\ PERIODIC_CHECK(t, started, e, next_pid, FALSE, procs, sporadic) /\ PPP_debt' = 0
    BY <1>13, <2>3, Zenon DEF DeviceTurn
  <2>8. Planned(next_pid, procs)
    BY <2>1 DEF Planned
  <2> HIDE DEF started, d, e, next_pid
  <2>9. next_pid \in Nat /\ (next_pid # INVALIDPID => Live(procs, next_pid))
    BY <1>1, <2>8, PlannedLive
  <2>10. CASE PPP_index' \in Plan /\ PPP_index' # PPP_index /\ last_change_tick' = t
    BY <2>7, <2>10 DEF EntryBegins, Goal
  <2>11. CASE /\ PPP_index' = PPP_index /\ last_change_tick' = started /\ e <= PPPMax[PPP_index]
              /\ SameTable(procs, processes') /\ current' = Chosen(next_pid, FALSE, sporadic)
    <3>1. ~RunsAt(DEVICE, processes', current')
      <4> SUFFICES ASSUME RunsAt(DEVICE, processes', current') PROVE FALSE
        OBVIOUS
      <4>1. PICK gave_up \in BOOLEAN : gave_up = FALSE
        OBVIOUS
      <4>2. current' = Chosen(next_pid, gave_up, sporadic)
        BY <2>11, <4>1, Zenon
      <4>3. RunsAt(DEVICE, procs, Chosen(next_pid, gave_up, sporadic))
        BY <1>2, <1>4, <2>11, <4>2
      <4>4. next_pid # INVALIDPID /\ RunsAt(DEVICE, procs, next_pid)
        BY <1>1, <4>3, ChosenLevel
      <4> QED
        BY <1>1, <2>1, <4>4, PlannedNotDevice DEF next_pid
    <3>2. Elapsed(t, last_change_tick') <= PPPMax[PPP_index]
      BY <2>6, <2>11, Zenon
    <3>3. last_change_tick' = (t - PPP_debt) % UMOD
      BY <2>11 DEF started
    <3> QED
      BY <2>1, <2>3, <2>7, <2>11, <3>1, <3>2, <3>3, Zenon DEF EntryResumes, Goal
  <2> QED
    BY <1>1, <2>1, <2>4, <2>5, <2>7, <2>9, <2>10, <2>11, EntryCheck
<1>14. ~OS_Abort("device queue full", procs)
  BY DEF OS_Abort
<1>15. \/ OS_Abort("device queue full", procs)
       \/ device' = q /\ q.length > 0 /\ RunDevice(t, delta, procs, q)
       \/ LAUNCH_CURRENT_PPP(t, procs)
       \/ PPP_index # INVALID_IDX /\ AfterTermination(t, elapsed, procs)
       \/ PPP_index # INVALID_IDX /\ current # INVALIDPID /\ SporadicTurn(t, elapsed, procs)
       \/ PPP_index # INVALID_IDX /\ current # INVALIDPID /\ PeriodicTurn(t, elapsed, procs)
       \/ PPP_index # INVALID_IDX /\ current # INVALIDPID /\ DeviceTurn(t, procs)
  BY Zenon DEF check_schedule, q, elapsed
<1> QED
  BY <1>8, <1>9, <1>10, <1>11, <1>12, <1>13, <1>14, <1>15, Zenon
-----------------------------------------------------------------------------
(* What an entry has had, against the account that check_schedule keeps.   *)

\* Processes that have ended; and with them the turns of devices that may have been added
\* to PPP_debt since a device last gave the CPU back to the plan.
Ended == pid_counter - 1 - Cardinality(LiveSlots(processes))
Weight == Ended + (IF PPP_index = INVALID_IDX THEN 0 ELSE 1)
                + (IF RunsAt(DEVICE, processes, current) THEN 1 ELSE 0)

\* The words of the machine hold the ticks that PPP_debt can gather while devices end.
Wide(longest) ==
  /\ \A k \in Plan : PPPMax[k] <= longest
  /\ 2 * Room(longest, MaxPid + 3) < UMOD

Account(longest) ==
  /\ PPP_index \in Plan =>
       /\ Gap(tick, last_change_tick) <= PPPMax[PPP_index]
       /\ age <= PPP_debt + Gap(tick, last_change_tick)
  /\ PPP_index = INVALID_IDX \/ RunsAt(DEVICE, processes, current) =>
       Gap(tick, last_change_tick) = 0
  /\ RunsAt(PERIODIC, processes, current) =>
       PPP_index \in Plan /\ age <= Gap(tick, last_change_tick)
  /\ PPP_debt <= Room(longest, Weight)

AgeInv(longest) ==
  /\ LevelInv
  /\ pid_counter <= MaxPid + 2
  /\ age \in Nat /\ Ended \in Nat
  /\ halted = "no" => Account(longest)

LEMMA EndedBound ==
  LevelInv /\ pid_counter <= MaxPid + 2 /\ Ended \in Nat =>
    /\ Ended <= MaxPid /\ Weight \in Nat /\ Weight <= MaxPid + 2
    /\ PPP_index = INVALID_IDX => Weight <= Ended + 1
    /\ ~RunsAt(DEVICE, processes, current) => Weight <= Ended + 1
    /\ PPP_index # INVALID_IDX => Weight >= Ended + 1
<1> SUFFICES ASSUME LevelInv, pid_counter <= MaxPid + 2, Ended \in Nat
             PROVE  /\ Ended <= MaxPid /\ Weight \in Nat /\ Weight <= MaxPid + 2
                    /\ PPP_index = INVALID_IDX => Weight <= Ended + 1
                    /\ ~RunsAt(DEVICE, processes, current) => Weight <= Ended + 1
                    /\ PPP_index # INVALID_IDX => Weight >= Ended + 1
  OBVIOUS
<1> DEFINE c == Cardinality(LiveSlots(processes))
<1>1. c \in Nat /\ c # 0
  <2>1. IsFiniteSet(LiveSlots(processes))
    <3>1. IsFiniteSet(Slots) /\ LiveSlots(processes) \subseteq Slots
      BY SlotSets DEF LiveSlots
    <3> QED
      BY <3>1, FS_Subset
  <2>2. LiveSlots(processes) # {}
    BY DEF LevelInv, QInv, HasIdle
  <2> QED
    BY <2>1, <2>2, FS_CardinalityType, FS_EmptySet
<1>2. pid_counter \in Nat /\ Ended = pid_counter - 1 - c
  BY DEF LevelInv, IInv, TInv, TypeOK, Ended
<1> HIDE DEF c
<1>3. Ended <= MaxPid
  BY <1>1, <1>2
<1> QED
  BY <1>3 DEF Weight

\* A decision carries the account on: s is 1 at a tick and 0 at a yield.
LEMMA AccountKept ==
  ASSUME NEW longest \in Nat, Wide(longest), LevelInv, LevelInv', pid_counter <= MaxPid + 2,
         pid_counter' <= MaxPid + 2, Ended \in Nat, Ended' = Ended, age \in Nat,
         Account(longest), NEW s \in {0, 1},
         2 * (Gap(tick, last_change_tick) + 1) < UMOD =>
           Gap(tick', last_change_tick) = Gap(tick, last_change_tick) + s,
         s = 1 => ~RunsAt(DEVICE, processes, current),
         age' = IF PPP_index' # PPP_index THEN 0 ELSE age + s,
         \/ DeviceStarts(tick') \/ EntryBegins(tick') \/ EntryGoesOn(tick')
         \/ EntryResumes(tick')
  PROVE  age' \in Nat /\ Account(longest)'
<1> DEFINE g == Gap(tick, last_change_tick)
           h == Gap(tick', last_change_tick)
           k == Gap(tick', last_change_tick')
           w == Weight
           m == MaxPid + 2
           dev == RunsAt(DEVICE, processes, current)
           max == PPPMax[PPP_index]
<1>1. /\ tick \in Words /\ last_change_tick \in Words /\ PPP_debt \in Words
      /\ tick' \in Words /\ last_change_tick' \in Words /\ PPP_debt' \in Words
      /\ PPP_index \in Plan \/ PPP_index = INVALID_IDX
  BY DEF LevelInv, IInv, TInv, TypeOK
<1>2. /\ w \in Nat /\ w <= m /\ Weight' \in Nat
      /\ PPP_index = INVALID_IDX => w <= Ended + 1
      /\ ~dev => w <= Ended + 1
      /\ PPP_index' # INVALID_IDX => Weight' >= Ended + 1
  <2>1. /\ Weight' \in Nat /\ (PPP_index' # INVALID_IDX => Weight' >= Ended' + 1)
    BY <1>1 DEF Weight
  <2> QED
    BY <2>1, EndedBound
<1>3. /\ g \in Nat
      /\ PPP_index \in Plan => g <= max /\ max \in Nat /\ max <= longest /\ age <= PPP_debt + g
      /\ PPP_index = INVALID_IDX \/ dev => g = 0
      /\ PPP_debt <= Room(longest, w)
  <2>1. g \in Nat
    <3>1. g \in Words
      BY <1>1, GapFacts
    <3> QED
      BY <3>1 DEF Words
  <2>2. PPP_index \in Plan => max \in Nat /\ max <= longest
    BY DEF Wide
  <2>3. /\ PPP_index \in Plan => g <= max /\ age <= PPP_debt + g
        /\ PPP_index = INVALID_IDX \/ dev => g = 0
        /\ PPP_debt <= Room(longest, w)
    BY Zenon DEF Account
  <2> QED
    BY <2>1, <2>2, <2>3
<1>4. /\ Room(longest, w) \in Nat /\ Room(longest, w) <= Room(longest, m)
      /\ Room(longest, w + 1) = Room(longest, w) + longest + 1
      /\ Room(longest, m) \in Nat /\ Room(longest, m + 1) = Room(longest, m) + longest + 1
  <2>1. m \in Nat
    OBVIOUS
  <2> HIDE DEF m, w
  <2>2. /\ \A i \in Nat : Room(longest, i) \in Nat
                          /\ Room(longest, i + 1) = Room(longest, i) + longest + 1
        /\ \A i, j \in Nat : i <= j => Room(longest, i) <= Room(longest, j)
    BY RoomGrows
  <2> QED
    BY <1>2, <2>1, <2>2
<1>5. 2 * (Room(longest, m) + longest + 1) < UMOD
  <2>1. m + 1 = MaxPid + 3
    OBVIOUS
  <2> HIDE DEF m
  <2> QED
    BY <1>4, <2>1 DEF Wide
<1> HIDE DEF g, h, k, w, m, dev, max
<1>6. g <= longest /\ h = g + s /\ h \in Nat /\ 2 * h < UMOD
  <2>1. g <= longest
    BY <1>1, <1>3
  <2>2. 2 * (g + 1) < UMOD
    BY <1>3, <1>4, <1>5, <2>1
  <2>3. h = g + s
    BY <2>2 DEF g, h
  <2> QED
    BY <1>3, <2>1, <2>2, <2>3
<1>7. Signed(tick' - last_change_tick) = h /\ Elapsed(tick', last_change_tick) = h
  BY <1>1, <1>6, GapFacts DEF h
<1>8. age' \in Nat
  OBVIOUS
<1>9. CASE DeviceStarts(tick')
  <2>1. k = 0
    BY <1>1, <1>9, GapFacts DEF DeviceStarts, k
  <2>2. PPP_debt + h \in Nat /\ 2 * (PPP_debt + h) < UMOD /\ UMOD \in Nat
    BY <1>1, <1>3, <1>4, <1>5, <1>6 DEF Words
  <2>3. PPP_debt' = PPP_debt + h
    <3>1. PPP_debt' = (PPP_debt + h) % UMOD
      BY <1>7, <1>9, Zenon DEF DeviceStarts
    <3>2. \A x \in 0 .. UMOD - 1 : x % UMOD = x
      OBVIOUS
    <3>3. PPP_debt + h \in 0 .. UMOD - 1
      BY <2>2
    <3> QED
      BY <3>1, <3>2, <3>3
  <2>4. RunsAt(DEVICE, processes', current') /\ ~RunsAt(PERIODIC, processes', current')
    BY <1>9 DEF DeviceStarts, RunsAt, OfLevel, LevelInv, IInv, Table, DEVICE, PERIODIC
  <2>5. PPP_debt' <= Room(longest, Weight')
    <3>1. CASE dev
      <4>1. h = 0 /\ Weight' = w
        <5>1. Weight' = w
          BY <1>9, <2>4, <3>1 DEF DeviceStarts, Weight, w, dev
        <5> QED
          BY <1>3, <1>6, <3>1, <5>1 DEF dev
      <4> QED
        BY <1>1, <1>3, <2>3, <4>1 DEF Words
    <3>2. CASE ~dev
      <4>1. Weight' = w + 1
        BY <1>9, <2>4, <3>2 DEF DeviceStarts, Weight, w, dev
      <4>2. Room(longest, Weight') = Room(longest, w) + longest + 1
        BY <1>4, <4>1
      <4> QED
        BY <1>1, <1>3, <1>4, <1>6, <2>3, <4>2 DEF Words
    <3> QED
      BY <3>1, <3>2
  <2>6. PPP_index' = PPP_index /\ age' = age + s
    BY <1>9 DEF DeviceStarts
  <2>7. PPP_index' \in Plan => k <= PPPMax[PPP_index'] /\ age' <= PPP_debt' + k
    BY <1>1, <1>3, <1>6, <2>1, <2>3, <2>6 DEF max, Words
  <2> QED
    BY <1>8, <2>1, <2>4, <2>5, <2>7 DEF Account, k
<1>10. CASE EntryBegins(tick')
  <2>1. k = 0 /\ age' = 0 /\ PPP_index' \in Plan /\ PPP_index' # INVALID_IDX
    <3>1. Gap(tick', tick') = 0
      BY <1>1, GapFacts
    <3>2. /\ last_change_tick' = tick' /\ age' = 0
          /\ PPP_index' \in Plan /\ PPP_index' # INVALID_IDX
      BY <1>10 DEF EntryBegins, Plan
    <3> QED
      BY <3>1, <3>2 DEF k
  <2>2. PPPMax[PPP_index'] \in Nat
    BY <2>1
  <2>3. PPP_debt' <= Room(longest, Weight')
    <3>1. Room(longest, Weight') \in Nat
      BY <1>2, RoomGrows
    <3>2. CASE PPP_debt' = 0
      BY <3>1, <3>2
    <3>3. CASE PPP_debt' = PPP_debt /\ (PPP_index = INVALID_IDX \/ ~dev)
      <4>1. w <= Weight'
        BY <1>2, <2>1, <3>3
      <4>2. Room(longest, w) <= Room(longest, Weight')
        BY <1>2, <4>1, RoomGrows
      <4> QED
        BY <1>1, <1>3, <1>4, <3>1, <3>3, <4>2 DEF Words
    <3> QED
      BY <1>10, <3>2, <3>3 DEF EntryBegins, dev
  <2>4. age' <= PPP_debt' + k /\ k <= PPPMax[PPP_index'] /\ age' <= k
    <3>1. PPP_debt' \in Nat
      BY <1>1 DEF Words
    <3>2. \A debt, max1 \in Nat : 0 <= debt + 0 /\ 0 <= max1
      OBVIOUS
    <3>3. 0 <= PPP_debt' + 0 /\ 0 <= PPPMax[PPP_index'] /\ 0 <= 0
      BY <2>2, <3>1, <3>2
    <3> QED
      BY <2>1, <3>3, Zenon
  <2> QED
    BY <1>8, <2>1, <2>3, <2>4 DEF Account, k
<1>11. CASE EntryGoesOn(tick')
  <2>1. k = h /\ PPP_debt' = PPP_debt /\ PPP_index' = PPP_index /\ PPP_index \in Plan
        /\ h <= max /\ ~dev /\ PPP_index' # INVALID_IDX
    BY <1>7, <1>11 DEF EntryGoesOn, h, k, max, dev, Plan
  <2>2. ~RunsAt(DEVICE, processes', current')
        /\ (RunsAt(PERIODIC, processes', current') => RunsAt(PERIODIC, processes, current))
    BY <1>11 DEF EntryGoesOn
  <2>3. Weight' = w
    BY <2>1, <2>2 DEF Weight, w, dev
  <2>4. age' = age + s
    BY <2>1
  <2>5. age' <= PPP_debt' + k
    BY <1>1, <1>3, <1>6, <2>1, <2>4 DEF Words
  <2>6. RunsAt(PERIODIC, processes, current) => age <= g
    BY DEF Account, g
  <2>7. RunsAt(PERIODIC, processes', current') => age' <= k
    BY <1>3, <1>6, <2>1, <2>2, <2>4, <2>6
  <2>8. PPP_debt' <= Room(longest, Weight')
    BY <1>3, <2>1, <2>3
  <2> QED
    BY <1>8, <2>1, <2>2, <2>5, <2>7, <2>8 DEF Account, k, max
<1>12. CASE EntryResumes(tick')
  <2>1. /\ dev /\ PPP_index' = PPP_index /\ PPP_index \in Plan /\ PPP_index' # INVALID_IDX
        /\ PPP_debt' = 0 /\ ~RunsAt(DEVICE, processes', current')
        /\ Elapsed(tick', last_change_tick') <= max
    BY <1>12 DEF EntryResumes, dev, max, Plan
  <2>2. k = PPP_debt
    BY <1>1, <1>12, GapBack DEF EntryResumes, k
  <2>3. 2 * PPP_debt < UMOD
    BY <1>1, <1>3, <1>4, <1>5 DEF Words
  <2>4. k <= max
    BY <1>1, <2>1, <2>2, <2>3, GapFacts DEF k
  <2>5. s = 0 /\ g = 0 /\ age' = age
    BY <1>3, <2>1 DEF dev
  <2>6. age' <= k
    BY <1>1, <1>3, <2>1, <2>2, <2>5 DEF Words
  <2>7. Room(longest, Weight') \in Nat
    BY <1>2, RoomGrows
  <2>8. age' <= PPP_debt' + k /\ PPP_debt' <= Room(longest, Weight')
        /\ k <= PPPMax[PPP_index']
    BY <1>1, <2>1, <2>2, <2>4, <2>6, <2>7 DEF Words, max
  <2> QED
    BY <1>8, <2>1, <2>6, <2>8 DEF Account, k
<1> QED
  BY <1>9, <1>10, <1>11, <1>12
LEMMA AgeCalled ==
  ASSUME NoNameCollision, PPPLen > 1, NEW longest \in Nat, Wide(longest),
         AgeInv(longest), LevelInv', RecordAge, halted = "no", pid_counter' = pid_counter,
         NEW procs, SameTable(processes, procs), Sound(procs), NEW dq \in Queue,
         check_schedule(tick', procs, dq), NEW s \in {0, 1}, tick' = (tick + s) % UMOD,
         s = 1 => ~RunsAt(DEVICE, processes, current),
         RunsAt(DEVICE, processes, current) => CurrentProcess(procs).yielded
  PROVE  AgeInv(longest)'
<1>1. /\ LevelInv /\ pid_counter <= MaxPid + 2 /\ age \in Nat /\ Ended \in Nat
      /\ Account(longest) /\ QInv
  BY DEF AgeInv, LevelInv
<1>2. tick \in Words /\ tick' \in Words /\ last_change_tick \in Words
      /\ processes \in [Slots -> Process]
  BY <1>1 DEF LevelInv, IInv, TInv, TypeOK
<1>3. tick' # tick <=> s = 1
  <2>1. tick \in -(UMOD - 1) .. 2 * UMOD - 1 /\ tick + s \in -(UMOD - 1) .. 2 * UMOD - 1
        /\ tick + s >= 0
    BY <1>2 DEF Words
  <2>2. PICK u \in -(UMOD - 1) .. 2 * UMOD - 1 : u = tick + s
    BY <2>1
  <2>3. u % UMOD = IF u < 0 THEN u + UMOD ELSE IF u < UMOD THEN u ELSE u - UMOD
    BY <2>2, WordMod
  <2>4. tick' = u % UMOD
    BY <2>2
  <2>5. tick' = IF u < 0 THEN u + UMOD ELSE IF u < UMOD THEN u ELSE u - UMOD
    BY <2>3, <2>4, Zenon
  <2> QED
    BY <1>2, <2>1, <2>2, <2>5 DEF Words
<1>4. 2 * (Gap(tick, last_change_tick) + 1) < UMOD =>
        Gap(tick', last_change_tick) = Gap(tick, last_change_tick) + s
  <2> SUFFICES ASSUME 2 * (Gap(tick, last_change_tick) + 1) < UMOD
               PROVE  Gap(tick', last_change_tick) = Gap(tick, last_change_tick) + s
    OBVIOUS
  <2>1. Gap(tick, last_change_tick) \in Words
        /\ (Gap(tick, last_change_tick) + 1 < UMOD =>
              Gap((tick + 1) % UMOD, last_change_tick) = Gap(tick, last_change_tick) + 1)
    BY <1>2, GapFacts
  <2>2. Gap(tick, last_change_tick) \in Nat /\ Gap(tick, last_change_tick) + 1 < UMOD
    BY <2>1 DEF Words
  <2>3. CASE s = 0
    <3>1. tick' = tick
      BY <1>3, <2>3
    <3> QED
      BY <2>2, <2>3, <3>1
  <2>4. CASE s = 1
    <3>1. tick' = (tick + 1) % UMOD
      BY <2>4
    <3>2. Gap(tick', last_change_tick) = Gap(tick, last_change_tick) + 1
      BY <2>1, <2>2, <3>1, Zenon
    <3> QED
      BY <2>4, <3>2
  <2> QED
    BY <2>3, <2>4
<1>5. Runs(DEVICE) <=> RunsAt(DEVICE, processes, current)
  BY <1>1, RunsLevel DEF RunsAt
<1>6. age' = IF PPP_index' # PPP_index THEN 0 ELSE age + s
  BY <1>1, <1>3, <1>5 DEF RecordAge
<1>7. Ended' = Ended
  <2>1. SameTable(procs, processes')
    BY <1>1, ScheduleShapeQ DEF ScheduleShaped
  <2>2. LiveSlots(processes') = LiveSlots(processes)
    BY <1>2, <2>1, SameTableKeeps DEF Sound
  <2> QED
    BY <2>2 DEF Ended
<1>8. CASE halted' = "no"
  <2>1. \/ DeviceStarts(tick') \/ EntryBegins(tick') \/ EntryGoesOn(tick')
        \/ EntryResumes(tick')
    BY <1>1, <1>2, <1>8, ScheduleOutcome
  <2>2. age' \in Nat /\ Account(longest)'
    BY <1>1, <1>4, <1>6, <1>7, <2>1, AccountKept
  <2> QED
    BY <1>1, <1>7, <2>2 DEF AgeInv
<1>9. CASE halted' # "no"
  BY <1>1, <1>6, <1>7, <1>9 DEF AgeInv
<1> QED
  BY <1>8, <1>9

LEMMA AgeTick ==
  ASSUME NoNameCollision, FastDevices, PPPLen > 1, NEW longest \in Nat, Wide(longest),
         AgeInv(longest), LevelInv', RecordAge, timer_callback
  PROVE  AgeInv(longest)'
<1>1. /\ halted = "no" /\ tick' = (tick + 1) % UMOD /\ pid_counter' = pid_counter
      /\ check_schedule(tick', processes, device)
      /\ ~(current # INVALIDPID /\ CurrentProcess(processes).level = DEVICE)
  BY DEF timer_callback
<1>2. /\ processes \in [Slots -> Process] /\ Sound(processes) /\ device \in Queue
      /\ SameTable(processes, processes) /\ Unique(processes)
  <2>1. QInv /\ TypeOK /\ RunsLive
    BY DEF AgeInv, LevelInv, QInv, TInv
  <2>2. /\ processes \in [Slots -> Process] /\ device \in Queue
        /\ current # INVALIDPID => Live(processes, current)
    BY <1>1, <2>1 DEF TypeOK, RunsLive
  <2>3. Unique(processes)
    BY <2>1, QTypes DEF Unique
  <2> QED
    BY <2>2, <2>3 DEF Sound, SameTable
<1>3. ~RunsAt(DEVICE, processes, current)
  <2>1. CASE current = INVALIDPID
    BY <2>1 DEF RunsAt, OfLevel, LiveSlots, FreeSlots
  <2>2. CASE current # INVALIDPID
    BY <1>1, <1>2, <2>2, TurnLevel
  <2> QED
    BY <2>1, <2>2
<1>4. 1 \in {0, 1}
  OBVIOUS
<1> QED
  BY <1>1, <1>2, <1>3, <1>4, AgeCalled

\* What leaves the clock of the plan alone.
LEMMA AgeRests ==
  ASSUME NEW longest \in Nat, AgeInv(longest), LevelInv', RecordAge,
         UNCHANGED <<clock, tick>>, pid_counter' <= MaxPid + 2, Ended' \in Nat, Ended' >= Ended,
         halted' = "no" => halted = "no",
         \/ /\ Ended' = Ended
            /\ \A level : RunsAt(level, processes', current') <=> RunsAt(level, processes, current)
         \/ /\ Ended' = Ended + 1
            /\ \A level : ~RunsAt(level, processes', current')
  PROVE  AgeInv(longest)'
<1>1. PPP_index' = PPP_index /\ last_change_tick' = last_change_tick /\ PPP_debt' = PPP_debt
      /\ tick' = tick /\ age' = age
  BY DEF clock, RecordAge
<1>2. age \in Nat /\ Ended \in Nat /\ pid_counter <= MaxPid + 2 /\ LevelInv
  BY DEF AgeInv
<1>3. ASSUME halted' = "no" PROVE Account(longest)'
  <2>1. Account(longest)
    BY <1>3 DEF AgeInv
  <2>2. RunsAt(DEVICE, processes', current') => RunsAt(DEVICE, processes, current)
    OBVIOUS
  <2>3. RunsAt(PERIODIC, processes', current') => RunsAt(PERIODIC, processes, current)
    OBVIOUS
  <2>4. Weight \in Nat /\ Weight' \in Nat /\ Weight <= Weight'
    <3>1. CASE /\ Ended' = Ended
               /\ RunsAt(DEVICE, processes', current') <=> RunsAt(DEVICE, processes, current)
      BY <1>1, <1>2, <3>1 DEF Weight
    <3>2. CASE Ended' = Ended + 1 /\ ~RunsAt(DEVICE, processes', current')
      BY <1>1, <1>2, <3>2 DEF Weight
    <3> QED
      BY <3>1, <3>2
  <2>5. PPP_debt <= Room(longest, Weight')
    <3>1. Room(longest, Weight) <= Room(longest, Weight')
          /\ Room(longest, Weight) \in Nat /\ Room(longest, Weight') \in Nat
      BY <2>4, RoomGrows
    <3>2. PPP_debt \in Nat /\ PPP_debt <= Room(longest, Weight)
      BY <1>2, <2>1 DEF Account, LevelInv, IInv, TInv, TypeOK, Words
    <3> QED
      BY <3>1, <3>2
  <2> QED
    BY <1>1, <2>1, <2>2, <2>3, <2>5, Zenon DEF Account
<1> QED
  BY <1>1, <1>2, <1>3 DEF AgeInv

LEMMA AgeYield ==
  ASSUME NoNameCollision, PPPLen > 1, NEW longest \in Nat, Wide(longest),
         AgeInv(longest), LevelInv', RecordAge, OS_Yield
  PROVE  AgeInv(longest)'
<1> DEFINE index == process_index_from_pid(processes, current)
           me == CurrentProcess(processes)
           procs == Raised(processes, index)
           dq == IF me.level = DEVICE THEN Dequeue(device) ELSE device
<1>1. /\ halted = "no" /\ tick' = tick /\ pid_counter' = pid_counter /\ current # INVALIDPID
      /\ \/ UNCHANGED <<processes, current, clock, halted>>
         \/ check_schedule(tick, procs, dq)
  BY DEF OS_Yield, Calls, Raised
<1>2. /\ processes \in [Slots -> Process] /\ Sound(processes) /\ device \in Queue
      /\ Unique(processes) /\ Live(processes, current) /\ tick \in Words
  BY <1>1, QTypes DEF AgeInv, LevelInv, QInv, TInv, TypeOK, RunsLive, Sound
<1>3. /\ index \in LiveSlots(processes) /\ index \in Slots /\ processes[index].pid = current
      /\ me = processes[index]
  BY <1>2, CurrentProcessType DEF CurrentProcess, LiveSlots
<1>4. CASE UNCHANGED <<processes, current, clock, halted>>
  <2>1. Ended' = Ended
    BY <1>1, <1>4 DEF Ended
  <2>2. \A level : RunsAt(level, processes', current') <=> RunsAt(level, processes, current)
    BY <1>4
  <2> QED
    BY <1>1, <1>4, <2>1, <2>2, AgeRests DEF AgeInv
<1>5. CASE check_schedule(tick, procs, dq)
  <2>1. dq \in Queue
    BY <1>2, QueueTypes DEF INVALIDPID
  <2>2. SameTable(processes, procs) /\ procs[index].yielded
    <3>1. SameTable(processes, procs)
      BY <1>2, <1>3, SetFlag
    <3>2. procs[index] = [processes[index] EXCEPT !.yielded = TRUE]
      BY <1>2, <1>3 DEF Raised
    <3>3. processes[index] \in Process
      BY <1>2, <1>3
    <3> QED
      BY <3>1, <3>2, <3>3 DEF Process
  <2> HIDE DEF procs, index, dq
  <2>3. LiveSlots(procs) = LiveSlots(processes) /\ procs \in [Slots -> Process]
    BY <1>2, <2>2, SameTableKeeps DEF SameTable
  <2>4. Sound(procs) /\ Live(procs, current)
    BY <1>2, <1>3, <2>2, <2>3 DEF Sound, Live, SameTable
  <2>5. CurrentProcess(procs).yielded
    <3> DEFINE j == process_index_from_pid(procs, current)
    <3>1. j \in LiveSlots(procs) /\ procs[j].pid = current /\ CurrentProcess(procs) = procs[j]
      BY <2>3, <2>4, CurrentProcessType DEF CurrentProcess
    <3> HIDE DEF j
    <3>2. j = index
      BY <1>2, <1>3, <2>2, <2>3, <3>1 DEF Unique, SameTable, LiveSlots
    <3> QED
      BY <2>2, <3>1, <3>2
  <2>6. 0 \in {0, 1} /\ tick' = (tick + 0) % UMOD /\ 0 # 1
    <3>1. tick + 0 = tick /\ tick \in 0 .. UMOD - 1
      BY <1>2 DEF Words
    <3>2. \A x \in 0 .. UMOD - 1 : x % UMOD = x
      OBVIOUS
    <3> QED
      BY <1>1, <3>1, <3>2
  <2>7. check_schedule(tick', procs, dq)
    BY <1>1, <1>5
  <2> QED
    BY <1>1, <2>1, <2>2, <2>4, <2>5, <2>6, <2>7, AgeCalled
<1> QED
  BY <1>1, <1>4, <1>5

LEMMA AgeTerminated ==
  ASSUME NEW longest \in Nat, AgeInv(longest), LevelInv', RecordAge, OS_Terminate
  PROVE  AgeInv(longest)'
<1>1. /\ UNCHANGED <<clock, tick, pid_counter>> /\ halted = "no" /\ QInv
      /\ pid_counter <= MaxPid + 2 /\ Ended \in Nat /\ pid_counter \in Nat
  BY DEF OS_Terminate, Calls, AgeInv, LevelInv, IInv, TInv, TypeOK
<1>2. CASE UNCHANGED <<processes, current>>
  <2>1. Ended' = Ended
    BY <1>1, <1>2 DEF Ended
  <2>2. \A level : RunsAt(level, processes', current') <=> RunsAt(level, processes, current)
    BY <1>2
  <2> QED
    BY <1>1, <2>1, <2>2, AgeRests
<1>3. ASSUME current' = INVALIDPID, NEW slot \in LiveSlots(processes),
             LiveSlots(processes') = LiveSlots(processes) \ {slot}
      PROVE  AgeInv(longest)'
  <2>1. IsFiniteSet(LiveSlots(processes)) /\ Cardinality(LiveSlots(processes)) \in Nat
    <3>1. LiveSlots(processes) \in SUBSET Slots
      BY DEF LiveSlots
    <3> QED
      BY <3>1, SlotSets
  <2>2. Cardinality(LiveSlots(processes')) = Cardinality(LiveSlots(processes)) - 1
    <3>1. Cardinality(LiveSlots(processes) \ {slot}) = Cardinality(LiveSlots(processes)) - 1
      BY <1>3, <2>1, FS_RemoveElement, ZenonT(40)
    <3> QED
      BY <1>3, <3>1
  <2>3. Ended' = Ended + 1
    BY <1>1, <2>1, <2>2 DEF Ended
  <2>4. \A level : ~RunsAt(level, processes', current')
    BY <1>3 DEF RunsAt, OfLevel, LiveSlots, FreeSlots
  <2> QED
    BY <1>1, <2>3, <2>4, AgeRests
<1> QED
  BY <1>1, <1>2, <1>3, TerminateShape

LEMMA AgeCreated ==
  ASSUME NEW longest \in Nat, AgeInv(longest), LevelInv', RecordAge,
         NEW level \in {DEVICE, PERIODIC, SPORADIC}, NEW n \in Nat, OS_Create(level, n),
         level = DEVICE => n \in DeviceRates, level = SPORADIC => n \in SporadicNames
  PROVE  AgeInv(longest)'
<1>1. /\ UNCHANGED <<clock, tick, halted>> /\ LevelInv /\ QInv
      /\ pid_counter <= MaxPid + 2 /\ Ended \in Nat /\ pid_counter \in Nat
  BY DEF OS_Create, AgeInv, LevelInv, IInv, TInv, TypeOK
<1>2. \A any : RunsAt(any, processes', current') <=> RunsAt(any, processes, current)
  BY <1>1, RunsAtCreate
<1>3. Ended' = Ended /\ pid_counter' <= MaxPid + 2
  <2>1. CASE UNCHANGED <<processes, pid_counter>>
    BY <1>1, <2>1 DEF Ended
  <2>2. ASSUME NEW slot \in FreeSlots(processes),
               LiveSlots(processes') = LiveSlots(processes) \union {slot}
        PROVE  Ended' = Ended /\ pid_counter' <= MaxPid + 2
    <3>1. slot \notin LiveSlots(processes)
      BY DEF LiveSlots
    <3>2. processes' # processes
      BY <2>2, <3>1
    <3>3. pid_counter <= MaxPid /\ pid_counter' = pid_counter + 1
      BY <3>2 DEF OS_Create, RefuseCreate, AcceptCreate
    <3>4. IsFiniteSet(LiveSlots(processes)) /\ Cardinality(LiveSlots(processes)) \in Nat
      <4>1. LiveSlots(processes) \in SUBSET Slots
        BY DEF LiveSlots
      <4> QED
        BY <4>1, SlotSets
    <3>5. Cardinality(LiveSlots(processes')) = Cardinality(LiveSlots(processes)) + 1
      BY <2>2, <3>1, <3>4, FS_AddElement
    <3>6. Ended' = Ended
      BY <1>1, <3>3, <3>4, <3>5 DEF Ended
    <3>7. MaxPid \in Nat
      OBVIOUS
    <3> QED
      BY <1>1, <3>3, <3>6, <3>7
  <2>3. \/ UNCHANGED <<processes, pid_counter>>
        \/ \E slot \in FreeSlots(processes) :
             LiveSlots(processes') = LiveSlots(processes) \union {slot}
    BY <1>1, CreateShape
  <2> QED
    BY <2>1, <2>2, <2>3
<1> QED
  BY <1>1, <1>2, <1>3, AgeRests

LEMMA AgeInvInit == ASSUME NEW longest \in Nat PROVE HInit => AgeInv(longest)
<1> SUFFICES ASSUME HInit PROVE AgeInv(longest)
  OBVIOUS
<1>1. LevelInv /\ age = 0 /\ pid_counter = 2 /\ PPP_index = INVALID_IDX /\ PPP_debt = 0
      /\ last_change_tick = 0 /\ tick = 0 /\ current = INVALIDPID
  BY LevelInvInit DEF HInit, Init, idle_pid
<1>2. LiveSlots(processes) = {0}
  BY DEF HInit, Init, LiveSlots, FreeSlots, NoProcess, INVALIDPID, idle_pid, Slots
<1>3. Ended = 0
  <2>1. Cardinality({0}) = 1
    BY FS_Singleton
  <2>2. Cardinality(LiveSlots(processes)) = 1
    BY <1>2, <2>1
  <2> QED
    BY <1>1, <2>2 DEF Ended
<1>4. \A level : ~RunsAt(level, processes, current)
  BY <1>1 DEF RunsAt, OfLevel, LiveSlots, FreeSlots
<1>5. PPP_debt <= Room(longest, Weight)
  <2>1. Weight = 0
    BY <1>1, <1>3, <1>4 DEF Weight
  <2>2. Room(longest, 0) \in Nat
    BY RoomGrows
  <2> QED
    BY <1>1, <2>1, <2>2
<1>6. Gap(tick, last_change_tick) = 0
  <2>1. tick \in Words /\ last_change_tick = tick
    BY <1>1 DEF LevelInv, IInv, TInv, TypeOK
  <2> QED
    BY <2>1, GapFacts
<1>7. PPP_index \notin Plan
  BY <1>1, SchedulerAssumption DEF Plan
<1> QED
  BY <1>1, <1>3, <1>4, <1>5, <1>6, <1>7 DEF AgeInv, Account

LEMMA AgeInvStep ==
  ASSUME NoNameCollision, FastDevices, PPPLen > 1, NEW longest \in Nat, Wide(longest)
  PROVE  AgeInv(longest) /\ [HNext]_hvars => AgeInv(longest)'
<1> SUFFICES ASSUME AgeInv(longest), [HNext]_hvars PROVE AgeInv(longest)'
  OBVIOUS
<1>1. [Next]_vars /\ LevelInv /\ age \in Nat /\ Ended \in Nat /\ pid_counter <= MaxPid + 2
  BY DEF HNext, hvars, AgeInv
<1>2. LevelInv'
  BY <1>1, LevelInvStep
<1>3. CASE UNCHANGED vars /\ age' = age
  BY <1>2, <1>3 DEF vars, clock, AgeInv, Account, Ended, Weight
<1>4. CASE irq_install /\ RecordAge
  <2>1. UNCHANGED <<processes, current, clock, tick, halted, pid_counter>>
    BY <1>4 DEF irq_install
  <2>2. Ended' = Ended
    BY <2>1 DEF Ended
  <2>3. \A level : RunsAt(level, processes', current') <=> RunsAt(level, processes, current)
    BY <2>1
  <2> QED
    BY <1>1, <1>2, <1>4, <2>1, <2>2, <2>3, AgeRests
<1>5. CASE timer_callback /\ RecordAge
  BY <1>2, <1>5, AgeTick
<1>6. CASE OS_Yield /\ RecordAge
  BY <1>2, <1>6, AgeYield
<1>7. CASE OS_Terminate /\ RecordAge
  BY <1>2, <1>7, AgeTerminated
<1>8. ASSUME NEW level \in {DEVICE, PERIODIC, SPORADIC},
             NEW n \in IF level = DEVICE THEN DeviceRates
                       ELSE IF level = PERIODIC THEN PeriodicNames ELSE SporadicNames,
             OS_Create(level, n), RecordAge
      PROVE  AgeInv(longest)'
  BY <1>2, <1>8, AgeCreated DEF DEVICE, PERIODIC, SPORADIC
<1> QED
  BY <1>3, <1>4, <1>5, <1>6, <1>7, <1>8
  DEF HNext, hvars, Next, DEVICE, PERIODIC, SPORADIC

\* The ticks of an entry are counted right through every device that pre-empts it, also
\* when devices end and leave PPP_debt behind: as long as the words of the machine are
\* wider than the debt that MaxPid processes can leave, a PERIODIC process that runs is in
\* the first PPPMax + 1 tick periods of its entry.
THEOREM EntryWithinItsTicks ==
  ASSUME NoNameCollision, FastDevices, PPPLen > 1, NEW longest \in Nat, Wide(longest)
  PROVE  HSpec => []EntryNotOverrun
<1>1. HInit => AgeInv(longest)
  BY AgeInvInit
<1>2. AgeInv(longest) /\ [HNext]_hvars => AgeInv(longest)'
  BY AgeInvStep
<1>3. AgeInv(longest) => EntryNotOverrun
  <2> SUFFICES ASSUME AgeInv(longest), halted = "no", Runs(PERIODIC)
               PROVE  age <= PPPMax[PPP_index]
    BY DEF EntryNotOverrun
  <2>1. QInv /\ Account(longest) /\ age \in Nat
    BY DEF AgeInv, LevelInv
  <2>2. RunsAt(PERIODIC, processes, current)
    BY <2>1, RunsLevel DEF RunsAt
  <2>3. /\ PPP_index \in Plan /\ age <= Gap(tick, last_change_tick)
        /\ Gap(tick, last_change_tick) <= PPPMax[PPP_index]
    BY <2>1, <2>2 DEF Account
  <2>4. Gap(tick, last_change_tick) \in Nat /\ PPPMax[PPP_index] \in Nat
    <3>1. tick \in Words /\ last_change_tick \in Words
      BY <2>1 DEF QInv, TInv, TypeOK
    <3>2. Gap(tick, last_change_tick) \in Words
      BY <3>1, GapFacts
    <3> QED
      BY <2>3, <3>2 DEF Words
  <2> QED
    BY <2>1, <2>3, <2>4
<1> QED
  BY <1>1, <1>2, <1>3, PTL DEF HSpec
=============================================================================
