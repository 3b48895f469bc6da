-------------------------- MODULE AllocatorProofs --------------------------
(***************************************************************************)
(* Theorems about Allocator, for every heap, every address_book and all    *)
(* that programs write: calls that do not overlap hand out blocks that do  *)
(* not, as long as no block is given back but those of the smallest size.  *)
(***************************************************************************)
(* What is left of a larger block when a smaller one is cut from it gets   *)
(* control bytes of the largest size, and what its program wrote may look  *)
(* like control bytes: the run mixed_sizes shows blocks that overlap then. *)
(***************************************************************************)
EXTENDS Allocator, NaturalSets

-----------------------------------------------------------------------------
(* What the theorems assume of the calls.                                  *)

\* OS_Malloc accepts these requests.
Valid == {v \in Requests : v >= 2 /\ Shift(v) <= MAX_SINGLE_MALLOC_SIZE_SHIFT}
Returned == Freed \intersect Valid

\* Calls do not overlap.
OneAtATime == \A p, q \in Processes : p = q
\* Only blocks of the smallest size are given back.
SmallestReturned == \A v \in Returned, w \in Valid : ActualSize(v) <= ActualSize(w)
\* There is a power of two among the ints for every request and its control bytes.
RequestsFit == \A v \in Requests : v + 2 <= 2 ^ 30

Calls == OneAtATime /\ RequestsFit /\ SmallestReturned

-----------------------------------------------------------------------------
(* Sizes are powers of two.                                                *)

\* The first power divides the second: by induction on the second.
Divides(j, k) == \E q \in Nat : TwoTo(k) = q * TwoTo(j)

LEMMA PowersDivide ==
  ASSUME NEW j \in Nat, NEW k \in Nat, j <= k
  PROVE  Divides(j, k)
<1> DEFINE S == {i \in Nat : Divides(j, j + i)}
<1>1. 0 \in S
  <2>1. TwoTo(j) = 1 * TwoTo(j)
    BY Powers
  <2> QED
    BY <2>1 DEF Divides
<1>2. ASSUME NEW i \in S PROVE i + 1 \in S
  <2>1. PICK q \in Nat : TwoTo(j + i) = q * TwoTo(j)
    BY DEF Divides
  <2>2. TwoTo(j + (i + 1)) = 2 * TwoTo(j + i)
    <3>1. j + i \in Nat /\ j + (i + 1) = (j + i) + 1
      OBVIOUS
    <3> QED
      BY <3>1, Powers, Zenon
  <2>3. TwoTo(j) \in Nat
    BY Powers
  <2>4. TwoTo(j + (i + 1)) = (2 * q) * TwoTo(j)
    BY <2>1, <2>2, <2>3
  <2>5. 2 * q \in Nat
    OBVIOUS
  <2>6. Divides(j, j + (i + 1))
    BY <2>4, <2>5, Zenon DEF Divides
  <2> QED
    BY <2>6
<1>3. S \in SUBSET Nat
  OBVIOUS
<1> HIDE DEF S
<1>4. S = Nat
  BY <1>1, <1>2, <1>3, Induction
<1>5. k - j \in S
  BY <1>4
<1>6. j + (k - j) = k
  OBVIOUS
<1>7. Divides(j, j + (k - j))
  BY <1>5 DEF S
<1> QED
  BY <1>6, <1>7, Zenon

LEMMA PowersGrow ==
  ASSUME NEW j \in Nat, NEW k \in Nat, j <= k
  PROVE  TwoTo(j) <= TwoTo(k)
<1>1. PICK q \in Nat : TwoTo(k) = q * TwoTo(j)
  BY PowersDivide DEF Divides
<1>2. TwoTo(k) \in Nat \ {0} /\ TwoTo(j) \in Nat \ {0}
  BY Powers
<1>3. q # 0
  BY <1>1, <1>2
<1>4. (q - 1) * TwoTo(j) >= 0
  BY <1>2, <1>3
<1>5. q * TwoTo(j) = (q - 1) * TwoTo(j) + TwoTo(j)
  BY <1>2
<1> QED
  BY <1>1, <1>2, <1>4, <1>5

LEMMA ShiftFits ==
  ASSUME RequestsFit, NEW v \in Valid
  PROVE  /\ Shift(v) \in 2 .. 29
         /\ ActualSize(v) = TwoTo(Shift(v)) /\ ActualSize(v) > v + 1
<1> DEFINE K == {k \in 0 .. 30 : 2 ^ k > v + 1}
<1>1. v \in Nat /\ v >= 2 /\ Shift(v) <= 29 /\ v + 1 < TwoTo(30)
  <2>1. v \in Requests /\ v >= 2 /\ Shift(v) <= 29
    BY DEF Valid, MAX_SINGLE_MALLOC_SIZE_SHIFT
  <2> QED
    <3>1. v \in Nat
      BY <2>1, AllocatorAssumption
    <3>2. v + 1 < 2 ^ 30
      BY <2>1, <3>1, SMT DEF RequestsFit
    <3>3. TwoTo(30) = 2 ^ 30
      BY SMT DEF TwoTo
    <3> QED
      BY <2>1, <3>1, <3>2, <3>3, SMT
<1>2. K = {k \in 0 .. 30 : TwoTo(k) > v + 1}
  BY DEF TwoTo
<1>3. Shift(v) = Min(K)
  BY DEF Shift
<1> HIDE DEF K
<1>4. K \in SUBSET Nat /\ K # {} /\ \A k \in K : k \in 0 .. 30 /\ TwoTo(k) > v + 1
  <2>1. 30 \in K
    BY <1>1, <1>2
  <2> QED
    BY <1>2, <2>1
<1>5. Shift(v) \in 0 .. 30 /\ TwoTo(Shift(v)) > v + 1
  BY <1>3, <1>4, MinOfNaturals
<1>6. Shift(v) # 0 /\ Shift(v) # 1
  BY <1>1, <1>5, Powers
<1> QED
  BY <1>1, <1>5, <1>6 DEF ActualSize, TwoTo

\* The unit of the free space between blocks.
Unit == IF Returned = {} THEN 4 ELSE ActualSize(CHOOSE v \in Returned : TRUE)
Multiple(x) == \E q \in Nat : x = q * Unit

\* Every size is a multiple of the unit.
LEMMA Sizes ==
  ASSUME RequestsFit, SmallestReturned
  PROVE  /\ Unit \in Nat /\ Unit >= 4 /\ \E h \in Nat : Unit = 2 * h
         /\ \A v \in Valid : /\ Shift(v) \in 2 .. 29 /\ ActualSize(v) = TwoTo(Shift(v))
                             /\ ActualSize(v) \in Nat /\ ActualSize(v) > v + 1
                             /\ ActualSize(v) >= 4 /\ ActualSize(v) <= TwoTo(29)
                             /\ Multiple(ActualSize(v))
         /\ \A v \in Returned : ActualSize(v) = Unit
<1>1. ASSUME NEW v \in Valid
      PROVE  /\ Shift(v) \in 2 .. 29 /\ ActualSize(v) = TwoTo(Shift(v))
             /\ ActualSize(v) \in Nat /\ ActualSize(v) > v + 1
             /\ ActualSize(v) >= 4 /\ ActualSize(v) <= TwoTo(29)
  <2>1. Shift(v) \in 2 .. 29 /\ ActualSize(v) = TwoTo(Shift(v)) /\ ActualSize(v) > v + 1
    BY ShiftFits
  <2>2. TwoTo(Shift(v)) \in Nat
    BY <2>1, Powers
  <2>3. TwoTo(2) <= TwoTo(Shift(v)) /\ TwoTo(Shift(v)) <= TwoTo(29)
    BY <2>1, PowersGrow
  <2> QED
    BY <2>1, <2>2, <2>3, Powers
<1>2. PICK u \in 2 .. 29 : Unit = TwoTo(u) /\ \A v \in Valid : u <= Shift(v)
  <2>1. CASE Returned = {}
    <3>1. Unit = TwoTo(2)
      BY <2>1, Powers DEF Unit
    <3> QED
      BY <1>1, <3>1
  <2>2. CASE Returned # {}
    <3>1. PICK v \in Returned : Unit = ActualSize(v)
      BY <2>2 DEF Unit
    <3>2. v \in Valid
      BY DEF Returned
    <3>3. ASSUME NEW w \in Valid PROVE Shift(v) <= Shift(w)
      <4>1. TwoTo(Shift(v)) <= TwoTo(Shift(w))
        BY <1>1, <3>2 DEF SmallestReturned
      <4>2. /\ Shift(v) \in Nat /\ Shift(w) \in Nat /\ TwoTo(Shift(w)) \in Nat \ {0}
            /\ TwoTo(Shift(v)) \in Nat
        BY <1>1, <3>2, Powers
      <4>3. SUFFICES ASSUME Shift(w) + 1 <= Shift(v) PROVE FALSE
        BY <4>2
      <4>4. TwoTo(Shift(w) + 1) <= TwoTo(Shift(v))
        BY <4>2, <4>3, PowersGrow
      <4>5. TwoTo(Shift(w) + 1) = 2 * TwoTo(Shift(w))
        BY <4>2, Powers
      <4> QED
        BY <4>1, <4>2, <4>4, <4>5
    <3> QED
      BY <1>1, <3>1, <3>2, <3>3
  <2> QED
    BY <2>1, <2>2
<1>3. Unit \in Nat /\ Unit >= 4
  <2>1. TwoTo(2) <= TwoTo(u) /\ TwoTo(u) \in Nat
    <3>1. 2 \in Nat /\ u \in Nat /\ 2 <= u
      OBVIOUS
    <3> QED
      BY <3>1, PowersGrow, Powers, Zenon
  <2> QED
    BY <1>2, <2>1, Powers
<1>4. \E h \in Nat : Unit = 2 * h
  <2>1. u - 1 \in Nat /\ (u - 1) + 1 = u
    OBVIOUS
  <2>2. TwoTo((u - 1) + 1) = 2 * TwoTo(u - 1) /\ TwoTo(u - 1) \in Nat
    BY <2>1, Powers, Zenon
  <2> QED
    BY <1>2, <2>1, <2>2, Zenon
<1>5. ASSUME NEW v \in Valid PROVE Multiple(ActualSize(v))
  <2>1. u \in Nat /\ Shift(v) \in Nat /\ u <= Shift(v) /\ ActualSize(v) = TwoTo(Shift(v))
    BY <1>1, <1>2
  <2>2. Divides(u, Shift(v))
    BY <2>1, PowersDivide
  <2> QED
    BY <1>2, <2>1, <2>2, Zenon DEF Divides, Multiple
<1>6. ASSUME NEW v \in Returned PROVE ActualSize(v) = Unit
  <2>1. PICK w \in Returned : Unit = ActualSize(w)
    BY DEF Unit
  <2>2. v \in Valid /\ w \in Valid
    BY DEF Returned
  <2>3. ActualSize(v) \in Nat /\ ActualSize(w) \in Nat
    BY <1>1, <2>2
  <2> QED
    BY <2>1, <2>2, <2>3 DEF SmallestReturned
<1> QED
  BY <1>1, <1>3, <1>4, <1>5, <1>6

\* What is less than a multiple of the unit is so by a unit at least.
LEMMA Multiples ==
  ASSUME RequestsFit, SmallestReturned
  PROVE  /\ Multiple(0)
         /\ \A x \in Nat : Multiple(x) => Multiple(x + Unit) /\ x % 2 = 0
         /\ \A x, y \in Nat : Multiple(x) /\ Multiple(y) /\ x < y => x + Unit <= y
<1>1. Unit \in Nat /\ Unit >= 4 /\ \E h \in Nat : Unit = 2 * h
  BY Sizes
<1>2. Multiple(0)
  <2>1. 0 = 0 * Unit
    BY <1>1
  <2> QED
    BY <2>1 DEF Multiple
<1>3. ASSUME NEW x \in Nat, Multiple(x) PROVE Multiple(x + Unit) /\ x % 2 = 0
  <2>1. PICK q \in Nat : x = q * Unit
    BY <1>3 DEF Multiple
  <2>2. q + 1 \in Nat /\ x + Unit = (q + 1) * Unit
    BY <1>1, <2>1
  <2>3. PICK h \in Nat : Unit = 2 * h
    BY <1>1
  <2>4. q * h \in Nat /\ x = 2 * (q * h)
    BY <2>1, <2>3
  <2>5. x % 2 = 0
    BY <2>4
  <2> QED
    BY <2>2, <2>5 DEF Multiple
<1>4. ASSUME NEW x \in Nat, NEW y \in Nat, Multiple(x), Multiple(y), x < y PROVE x + Unit <= y
  <2>1. PICK q \in Nat : x = q * Unit
    BY <1>4 DEF Multiple
  <2>2. PICK r \in Nat : y = r * Unit
    BY <1>4 DEF Multiple
  <2>3. (r - q) * Unit = y - x
    BY <1>1, <2>1, <2>2
  <2>4. r - q >= 1
    <3>1. SUFFICES ASSUME q - r >= 0 PROVE FALSE
      OBVIOUS
    <3>2. (q - r) * Unit >= 0
      BY <1>1, <3>1
    <3>3. (q - r) * Unit = x - y
      BY <1>1, <2>1, <2>2
    <3> QED
      BY <1>4, <3>2, <3>3
  <2>5. (r - q - 1) * Unit >= 0
    BY <1>1, <2>4
  <2>6. (r - q - 1) * Unit = y - x - Unit
    BY <1>1, <2>1, <2>2
  <2> QED
    BY <1>1, <2>5, <2>6
<1> QED
  BY <1>2, <1>3, <1>4

-----------------------------------------------------------------------------
(* The inductive invariant.                                                *)

Mark(m, a) == m[a] \in {MEMORY_IN_USE, MEMORY_CLEAR}
SpaceOf(m, a) == TwoTo(m[a + 1] % 32)

\* The pairs of control bytes in T divide the heap; the last one, at f, has all that
\* was never handed out.  Free space in front of f is in units.
Tiles(T, f, m) ==
  /\ T \subseteq BASE_MEM_LOCATION .. f
  /\ BASE_MEM_LOCATION \in T /\ f \in T /\ f < Limit
  /\ m[f] = MEMORY_CLEAR /\ m[f + 1] = MAX_SINGLE_MALLOC_SIZE_SHIFT
  /\ \A t \in T \ {f} :
       /\ Mark(m, t) /\ SpaceOf(m, t) >= 4 /\ t + SpaceOf(m, t) \in T
       /\ \A u \in T : u <= t \/ u >= t + SpaceOf(m, t)
       /\ m[t] = MEMORY_CLEAR => SpaceOf(m, t) = Unit

\* What looks like a mark behind f was left by a call that found no slot.
Behind(f, m) ==
  \A y \in f + 2 .. Limit :
    (y - f) % 2 = 0 /\ Mark(m, y) =>
      y < Limit /\ m[y] = MEMORY_CLEAR /\ m[y + 1] = MAX_SINGLE_MALLOC_SIZE_SHIFT

Handed(T, f, m, B) ==
  /\ \A b \in B : /\ b.base \in T \ {f} /\ m[b.base] = MEMORY_IN_USE
                  /\ b.val \in Valid /\ SpaceOf(m, b.base) = ActualSize(b.val)
  /\ \A b, c \in B : b.base = c.base => b = c

ClearFrom(T, m, first, last) == \A t \in T : first <= t /\ t < last => m[t] = MEMORY_CLEAR

\* n bytes from first may become a block.
Room(T, f, m, first, n) ==
  /\ first \in T /\ first + n < Limit /\ ClearFrom(T, m, first, first + n)
  /\ first + n \in T \/ (first + n >= f + 2 /\ (first + n - f) % 2 = 0)

At(p, T, f) ==
  /\ pc[p] = "out" => total[p] = 0
  /\ pc[p] = "search" =>
       /\ request[p] \in Valid
       /\ base[p] \in T /\ base[p] - total[p] \in T
       /\ Multiple(total[p]) /\ total[p] < ActualSize(request[p])
       /\ ClearFrom(T, mem, base[p] - total[p], base[p])
  /\ pc[p] \in {"split", "book", "seal"} =>
       request[p] \in Valid /\ Room(T, f, mem, base[p], ActualSize(request[p]))
  /\ pc[p] \in {"book", "seal"} => Mark(mem, base[p] + ActualSize(request[p]))
  /\ pc[p] = "clear" =>
       /\ base[p] \in T \ {f} /\ mem[base[p]] = MEMORY_IN_USE /\ SpaceOf(mem, base[p]) = Unit
       /\ \A b \in blocks : b.base # base[p]

BookInv ==
  /\ \A i, j \in Slots : address_book[i] = address_book[j] /\ address_book[i] # 0 => i = j
  /\ \A i \in Slots : \/ address_book[i] = 0
                      \/ \E b \in blocks : address_book[i] = b.base
                      \/ \E p \in Processes : pc[p] = "seal" /\ address_book[i] = base[p]
  /\ \A b \in blocks : \E i \in Slots : address_book[i] = b.base
  /\ \A p \in Processes : pc[p] = "seal" => \E i \in Slots : address_book[i] = base[p]

Typed ==
  /\ mem \in [Heap -> 0 .. 255]
  /\ address_book \in [Slots -> Heap \union {0}]
  /\ pc \in [Processes -> {"out", "search", "split", "book", "seal", "clear"}]
  /\ request \in [Processes -> Requests \union {0}]
  /\ base \in [Processes -> Nat]
  /\ total \in [Processes -> Nat]
  /\ blocks \subseteq [base : Heap, val : Requests]

HeapInv(T, f) ==
  /\ Tiles(T, f, mem) /\ Behind(f, mem) /\ Handed(T, f, mem, blocks)
  /\ \A p \in Processes : At(p, T, f)

IndInv(T, f) == Typed /\ BookInv /\ HeapInv(T, f)
IInv == \E T \in SUBSET Heap, f \in Heap : IndInv(T, f)

-----------------------------------------------------------------------------
(* Facts that the steps share.                                             *)

LEMMA Heaps ==
  /\ Heap \subseteq Nat /\ 0 \notin Heap /\ Limit \in Int /\ BASE_MEM_LOCATION \in Nat
  /\ \A a : a \in Heap <=> a \in Nat /\ BASE_MEM_LOCATION <= a /\ a <= Limit
BY AllocatorAssumption DEF Heap, Limit

LEMMA Spaces ==
  ASSUME NEW m \in [Heap -> 0 .. 255], NEW a \in Heap, a < Limit
  PROVE  SpaceOf(m, a) \in Nat \ {0}
<1>1. a + 1 \in Heap
  BY Heaps
<1>2. (m[a + 1] % 32) \in Nat
  BY <1>1
<1> QED
  BY <1>2, Powers DEF SpaceOf

\* The first pair and the last: where tiles are.
LEMMA TileFacts ==
  ASSUME NEW m \in [Heap -> 0 .. 255], NEW T \in SUBSET Heap, NEW f \in Heap, Tiles(T, f, m)
  PROVE  /\ f + 1 \in Heap /\ SpaceOf(m, f) = TwoTo(29)
         /\ \A t \in T : t \in Nat /\ t <= f /\ t < Limit /\ t + 1 \in Heap
                         /\ Mark(m, t) /\ SpaceOf(m, t) \in Nat
         /\ \A t \in T \ {f} : t < f /\ SpaceOf(m, t) \in Nat /\ t + SpaceOf(m, t) <= f
         /\ \A t, u \in T : t < u => t # f /\ t + SpaceOf(m, t) <= u
<1>1. \A t \in T : t \in Nat /\ t <= f /\ t < Limit /\ t + 1 \in Heap
  BY Heaps DEF Tiles
<1>2. f + 1 \in Heap /\ SpaceOf(m, f) = TwoTo(29)
  <2>1. 29 % 32 = 29
    OBVIOUS
  <2> QED
    BY <1>1, <2>1 DEF Tiles, SpaceOf, MAX_SINGLE_MALLOC_SIZE_SHIFT
<1>3. \A t \in T : SpaceOf(m, t) \in Nat
  BY <1>1, Spaces
<1>4. \A t \in T : Mark(m, t)
  BY DEF Tiles, Mark
<1>5. \A t \in T \ {f} : t < f /\ t + SpaceOf(m, t) <= f
  BY <1>1 DEF Tiles
<1>6. \A t, u \in T : t < u => t # f /\ t + SpaceOf(m, t) <= u
  BY <1>1, <1>3 DEF Tiles
<1> QED
  BY <1>1, <1>2, <1>3, <1>4, <1>5, <1>6

LEMMA ReturnFacts ==
  ASSUME Typed, NEW p \in Processes, return(p)
  PROVE  /\ pc'[p] = "out" /\ total'[p] = 0
         /\ pc' \in [Processes -> {"out", "search", "split", "book", "seal", "clear"}]
         /\ request' \in [Processes -> Requests \union {0}]
         /\ base' \in [Processes -> Nat] /\ total' \in [Processes -> Nat]
BY DEF return, goto, Typed

\* The address book is right as long as it and what it lists do not change.
LEMMA BookKept ==
  ASSUME BookInv, UNCHANGED <<address_book, blocks>>,
         \A q \in Processes : (pc[q] = "seal") <=> (pc'[q] = "seal"),
         \A q \in Processes : pc[q] = "seal" => base'[q] = base[q]
  PROVE  BookInv'
BY DEF BookInv

\* A call that is in nobody's way: nothing but its own control state changes.
LEMMA HeapKept ==
  ASSUME OneAtATime, NEW T \in SUBSET Heap, NEW f \in Heap, HeapInv(T, f),
         UNCHANGED <<mem, blocks>>, NEW p \in Processes, At(p, T, f)'
  PROVE  HeapInv(T, f)'
<1>1. \A q \in Processes : q = p
  BY DEF OneAtATime
<1>2. \A q \in Processes : At(q, T, f)'
  BY <1>1
<1>3. Tiles(T, f, mem)' /\ Behind(f, mem)' /\ Handed(T, f, mem, blocks)'
  BY DEF HeapInv, Tiles, Behind, Handed, Mark, SpaceOf
<1> QED
  BY <1>2, <1>3 DEF HeapInv

-----------------------------------------------------------------------------
(* The steps.                                                              *)

LEMMA Initially == Init => IInv
<1> SUFFICES ASSUME Init PROVE IInv
  OBVIOUS
<1> DEFINE B == BASE_MEM_LOCATION
<1>1. B \in Heap /\ B + 1 \in Heap /\ B < Limit /\ B \in Nat
  BY AllocatorAssumption, Heaps
<1>2. \A a \in Heap : mem[a] = IF a = B THEN 15 ELSE IF a = B + 1 THEN 29 ELSE 0
  BY <1>1 DEF Init, MEMORY_CLEAR, MAX_SINGLE_MALLOC_SIZE_SHIFT
<1>3. mem[B] = 15 /\ mem[B + 1] = 29 /\ \A a \in Heap : a >= B + 2 => mem[a] = 0
  BY <1>1, <1>2, Heaps
<1>4. Tiles({B}, B, mem)
  BY <1>1, <1>3 DEF Tiles, MEMORY_CLEAR, MAX_SINGLE_MALLOC_SIZE_SHIFT
<1>5. Behind(B, mem)
  BY <1>1, <1>3, Heaps DEF Behind, Mark, MEMORY_CLEAR, MEMORY_IN_USE
<1>6. Handed({B}, B, mem, blocks)
  BY DEF Handed, Init
<1>7. \A q \in Processes : At(q, {B}, B)
  BY DEF Init, At
<1>8. Typed
  <2>1. mem \in [Heap -> 0 .. 255]
    BY DEF Init, MEMORY_CLEAR, MAX_SINGLE_MALLOC_SIZE_SHIFT
  <2> QED
    BY <2>1 DEF Init, Typed
<1>9. BookInv
  BY DEF Init, BookInv
<1> QED
  BY <1>1, <1>4, <1>5, <1>6, <1>7, <1>8, <1>9 DEF IInv, IndInv, HeapInv

LEMMA MallocKeeps ==
  ASSUME Calls, NEW T \in SUBSET Heap, NEW f \in Heap, IndInv(T, f),
         NEW p \in Processes, NEW val \in Requests, OS_Malloc(p, val)
  PROVE  IndInv(T, f)'
<1>1. /\ pc[p] = "out" /\ pc' = [pc EXCEPT ![p] = "search"]
      /\ request' = [request EXCEPT ![p] = val] /\ base' = [base EXCEPT ![p] = BASE_MEM_LOCATION]
      /\ UNCHANGED <<mem, address_book, total, blocks>>
      /\ val \in Valid
  BY DEF OS_Malloc, goto, Valid
<1>2. Typed /\ BookInv /\ HeapInv(T, f)
  BY DEF IndInv
<1>3. Typed'
  BY <1>1, <1>2, Heaps DEF Typed
<1>4. BookInv'
  <2>1. \A q \in Processes : (pc[q] = "seal") <=> (pc'[q] = "seal")
    BY <1>1, <1>2 DEF Typed
  <2>2. \A q \in Processes : pc[q] = "seal" => base'[q] = base[q]
    BY <1>1, <1>2 DEF Typed
  <2> QED
    BY <1>1, <1>2, <2>1, <2>2, BookKept
<1>5. At(p, T, f)'
  <2>1. pc'[p] = "search" /\ request'[p] = val /\ base'[p] = BASE_MEM_LOCATION /\ total'[p] = 0
    BY <1>1, <1>2 DEF Typed, HeapInv, At
  <2>2. Multiple(0) /\ ActualSize(val) > 0
    BY <1>1, Multiples, Sizes DEF Calls
  <2>3. BASE_MEM_LOCATION \in T /\ BASE_MEM_LOCATION - 0 \in T
    BY <1>2, Heaps DEF HeapInv, Tiles
  <2>4. ClearFrom(T, mem', BASE_MEM_LOCATION - 0, BASE_MEM_LOCATION)
    BY Heaps DEF ClearFrom
  <2> QED
    BY <1>1, <2>1, <2>2, <2>3, <2>4 DEF At
<1> QED
  BY <1>1, <1>2, <1>3, <1>4, <1>5, HeapKept DEF Calls, IndInv

\* A call that returns before it has written anything.
LEMMA ReturnKeeps ==
  ASSUME Calls, NEW T \in SUBSET Heap, NEW f \in Heap, IndInv(T, f),
         NEW p \in Processes, pc[p] # "seal", return(p), UNCHANGED <<mem, address_book, blocks>>
  PROVE  IndInv(T, f)'
<1>1. Typed /\ BookInv /\ HeapInv(T, f) /\ OneAtATime
  BY DEF IndInv, Calls
<1>2. /\ pc'[p] = "out" /\ total'[p] = 0
      /\ pc' \in [Processes -> {"out", "search", "split", "book", "seal", "clear"}]
      /\ request' \in [Processes -> Requests \union {0}]
      /\ base' \in [Processes -> Nat] /\ total' \in [Processes -> Nat]
  BY <1>1, ReturnFacts
<1>3. Typed'
  BY <1>1, <1>2 DEF Typed
<1>4. \A q \in Processes : q = p
  BY <1>1 DEF OneAtATime
<1>5. BookInv'
  <2>1. \A q \in Processes : (pc[q] = "seal") <=> (pc'[q] = "seal")
    BY <1>2, <1>4
  <2>2. \A q \in Processes : pc[q] = "seal" => base'[q] = base[q]
    BY <1>4
  <2> QED
    BY <1>1, <2>1, <2>2, BookKept
<1>6. At(p, T, f)'
  BY <1>2 DEF At
<1> QED
  BY <1>1, <1>3, <1>5, <1>6, HeapKept DEF IndInv

\* The search goes on behind the pair at base[p].
LEMMA StepOverKeeps ==
  ASSUME Calls, NEW T \in SUBSET Heap, NEW f \in Heap, IndInv(T, f),
         NEW p \in Processes, pc[p] = "search", base[p] # f,
         NEW next \in T, next = base[p] + SpaceOf(mem, base[p]),
         NEW space \in Nat, space < ActualSize(request[p]), Multiple(space),
         next - space \in T, ClearFrom(T, mem, next - space, next),
         StepOver(p, space), UNCHANGED <<mem, address_book, blocks>>
  PROVE  IndInv(T, f)'
<1>1. Typed /\ BookInv /\ HeapInv(T, f) /\ OneAtATime
  BY DEF IndInv, Calls
<1>2. base[p] \in T \ {f} /\ request[p] \in Valid
  BY <1>1 DEF HeapInv, At
<1>3. next \in Nat
  BY Heaps
<1>4. Space(base[p]) = SpaceOf(mem, base[p])
  BY DEF Space, SpaceOf, TwoTo
<1>5. /\ base' = [base EXCEPT ![p] = next] /\ total' = [total EXCEPT ![p] = space]
      /\ UNCHANGED <<pc, request>>
  BY <1>4 DEF StepOver
<1>6. base'[p] = next /\ total'[p] = space /\ pc'[p] = "search" /\ request'[p] = request[p]
  BY <1>1, <1>5 DEF Typed
<1>8. Typed'
  BY <1>1, <1>3, <1>5 DEF Typed
<1>9. BookInv'
  <2>1. \A q \in Processes : q = p
    BY <1>1 DEF OneAtATime
  <2>2. \A q \in Processes : (pc[q] = "seal") <=> (pc'[q] = "seal")
    BY <1>5
  <2>3. \A q \in Processes : pc[q] = "seal" => base'[q] = base[q]
    BY <2>1
  <2> QED
    BY <1>1, <2>2, <2>3, BookKept
<1>10. At(p, T, f)'
  BY <1>2, <1>3, <1>6 DEF At
<1> QED
  BY <1>1, <1>8, <1>9, <1>10, HeapKept DEF IndInv

LEMMA SearchKeeps ==
  ASSUME Calls, NEW T \in SUBSET Heap, NEW f \in Heap, IndInv(T, f),
         NEW p \in Processes, Search(p)
  PROVE  IndInv(T, f)'
<1>1. Typed /\ BookInv /\ HeapInv(T, f) /\ OneAtATime /\ RequestsFit /\ SmallestReturned
  BY DEF IndInv, Calls
<1>2. pc[p] = "search" /\ UNCHANGED <<mem, address_book, blocks>>
  BY DEF Search
<1>3. /\ request[p] \in Valid /\ base[p] \in T /\ base[p] - total[p] \in T
      /\ Multiple(total[p]) /\ total[p] < ActualSize(request[p]) /\ total[p] \in Nat
      /\ ClearFrom(T, mem, base[p] - total[p], base[p])
  BY <1>1, <1>2 DEF HeapInv, At, Typed
<1>4. mem \in [Heap -> 0 .. 255] /\ Tiles(T, f, mem)
  BY <1>1 DEF HeapInv, Typed
<1>5. base[p] \in Nat /\ SpaceOf(mem, base[p]) \in Nat
  BY <1>3, <1>4, TileFacts
<1> DEFINE n == ActualSize(request[p])
           space == SpaceOf(mem, base[p])
<1>6. n \in Nat /\ n >= 4 /\ n <= TwoTo(29) /\ Multiple(n)
  BY <1>1, <1>3, Sizes
<1>7. CASE SearchFails(p)
  BY <1>2, <1>7, ReturnKeeps DEF SearchFails
<1>8. CASE SearchUsed(p)
  <2>1. base[p] # f
    BY <1>4, <1>8 DEF SearchUsed, Tiles, MEMORY_IN_USE, MEMORY_CLEAR
  <2>2. Multiple(0) /\ StepOver(p, 0)
    BY <1>1, <1>8, Multiples DEF SearchUsed, AfterBlock
  <2>3. PICK next \in T : next = base[p] + space
    BY <1>3, <1>4, <2>1 DEF Tiles
  <2>4. next - 0 = next /\ 0 < n /\ 0 \in Nat
    BY <1>6, Heaps
  <2>5. next - 0 \in T /\ ClearFrom(T, mem, next - 0, next)
    BY <2>4, Heaps DEF ClearFrom
  <2> QED
    BY <1>2, <2>1, <2>2, <2>3, <2>4, <2>5, StepOverKeeps
<1>9. CASE SearchFree(p)
  <2>1. Space(base[p]) = space /\ mem[base[p]] = MEMORY_CLEAR
    BY <1>9 DEF SearchFree, Space, SpaceOf, TwoTo
  <2>2. CASE return(p)
    BY <1>2, <2>2, ReturnKeeps
  <2>3. CASE /\ ~Beyond(base[p] + n) /\ total[p] + space >= n
             /\ base' = [base EXCEPT ![p] = @ - total[p]]
             /\ goto(p, "split") /\ UNCHANGED <<request, total>>
    <3> DEFINE first == base[p] - total[p]
    <3>1. first \in T /\ first \in Nat /\ first <= base[p]
      BY <1>3, <1>5, Heaps
    <3>2. first + n < Limit /\ n > total[p] /\ first + n > base[p]
      BY <1>3, <1>5, <1>6, <2>3, Heaps DEF Beyond
    <3>3. (first + n \in T \/ (first + n >= f + 2 /\ (first + n - f) % 2 = 0))
      <4>1. CASE base[p] = f
        <5>1. total[p] % 2 = 0 /\ n % 2 = 0 /\ n - total[p] > 0
          BY <1>1, <1>3, <1>6, <3>2, Multiples
        <5>2. (n - total[p]) % 2 = 0 /\ n - total[p] >= 2
          BY <1>3, <1>6, <5>1
        <5>3. first + n - f = n - total[p]
          BY <1>3, <1>5, <1>6, <4>1
        <5>4. f \in Nat
          BY Heaps
        <5>5. first + n >= f + 2
          BY <1>3, <1>6, <3>1, <5>2, <5>3, <5>4
        <5> QED
          BY <5>2, <5>3, <5>5, Zenon
      <4>2. CASE base[p] # f
        <5>1. space = Unit /\ base[p] + space \in T
          BY <1>3, <1>4, <2>1, <4>2 DEF Tiles
        <5>2. total[p] + Unit <= n
          BY <1>1, <1>3, <1>6, Multiples
        <5>3. first + n = base[p] + space
          BY <1>3, <1>5, <1>6, <2>3, <5>1, <5>2
        <5> QED
          BY <5>1, <5>3
      <4> QED
        BY <4>1, <4>2
    <3>4. ClearFrom(T, mem, first, first + n)
      <4> SUFFICES ASSUME NEW t \in T, first <= t, t < first + n PROVE mem[t] = MEMORY_CLEAR
        BY DEF ClearFrom
      <4>1. t \in Nat /\ t <= f
        BY <1>4, TileFacts
      <4>2. CASE t < base[p]
        BY <1>3, <4>2 DEF ClearFrom
      <4>3. CASE t = base[p]
        BY <2>1, <4>3
      <4>4. CASE base[p] < t
        <5>1. base[p] # f /\ base[p] + space <= t
          BY <1>3, <1>4, <4>4, TileFacts, ZenonT(40)
        <5>2. space = Unit
          BY <1>3, <1>4, <2>1, <5>1 DEF Tiles
        <5>3. total[p] + Unit <= n
          BY <1>1, <1>3, <1>6, Multiples
        <5>4. first + n = base[p] + space
          BY <1>3, <1>5, <1>6, <2>3, <5>2, <5>3
        <5> QED
          BY <1>5, <4>1, <5>1, <5>4
      <4> QED
        BY <1>5, <4>1, <4>2, <4>3, <4>4
    <3>5. Room(T, f, mem, first, n)
      BY <3>1, <3>2, <3>3, <3>4 DEF Room
    <3>6. pc' = [pc EXCEPT ![p] = "split"] /\ base' = [base EXCEPT ![p] = first]
      BY <2>3 DEF goto
    <3> HIDE DEF first
    <3>7. pc'[p] = "split" /\ base'[p] = first /\ request'[p] = request[p]
      BY <1>1, <2>3, <3>6 DEF Typed
    <3>8. Typed'
      BY <1>1, <1>2, <2>3, <3>1, <3>6 DEF Typed
    <3>9. BookInv'
      <4>1. \A q \in Processes : q = p
        BY <1>1 DEF OneAtATime
      <4>2. \A q \in Processes : (pc[q] = "seal") <=> (pc'[q] = "seal")
        BY <1>2, <3>7, <4>1
      <4>3. \A q \in Processes : pc[q] = "seal" => base'[q] = base[q]
        BY <1>2, <4>1
      <4> QED
        BY <1>1, <1>2, <4>2, <4>3, BookKept
    <3>10. At(p, T, f)'
      BY <1>2, <1>3, <3>5, <3>7 DEF At
    <3> QED
      BY <1>1, <1>2, <3>8, <3>9, <3>10, HeapKept DEF IndInv
  <2>4. CASE ~Beyond(base[p] + n) /\ total[p] + space < n /\ StepOver(p, total[p] + space)
    <3>1. base[p] # f
      <4> SUFFICES ASSUME base[p] = f PROVE FALSE
        OBVIOUS
      <4>1. space = TwoTo(29)
        BY <1>4, TileFacts
      <4> HIDE DEF space, n
      <4> QED
        BY <1>3, <1>5, <1>6, <2>4, <4>1 DEF n, space
    <3>2. space = Unit /\ base[p] + space \in T
      BY <1>3, <1>4, <2>1, <3>1 DEF Tiles
    <3> DEFINE found == total[p] + space
    <3>3. found \in Nat /\ found < n /\ Multiple(found)
      BY <1>1, <1>3, <1>5, <2>4, <3>2, Multiples
    <3>4. PICK next \in T : next = base[p] + space
      BY <3>2
    <3>5. next - found = base[p] - total[p]
      BY <1>3, <1>5, <3>4
    <3>6. next - found \in T
      BY <1>3, <3>5
    <3>7. ClearFrom(T, mem, next - found, next)
      <4> SUFFICES ASSUME NEW t \in T, base[p] - total[p] <= t, t < next
                   PROVE  mem[t] = MEMORY_CLEAR
        BY <3>5 DEF ClearFrom
      <4>1. t \in Nat
        BY <1>4, TileFacts
      <4>2. CASE t < base[p]
        BY <1>3, <4>2 DEF ClearFrom
      <4>3. CASE t = base[p]
        BY <2>1, <4>3
      <4>4. CASE base[p] < t
        BY <1>3, <1>4, <1>5, <3>4, <4>1, <4>4, TileFacts
      <4> QED
        BY <1>5, <4>1, <4>2, <4>3, <4>4
    <3> HIDE DEF found
    <3>8. found \in Nat /\ found < n /\ Multiple(found)
      BY <3>3
    <3>9. StepOver(p, found)
      BY <2>4 DEF found
    <3> QED
      BY <1>2, <3>1, <3>4, <3>6, <3>7, <3>8, <3>9, StepOverKeeps
  <2> QED
    BY <1>9, <2>1, <2>2, <2>3, <2>4 DEF SearchFree
<1> QED
  BY <1>7, <1>8, <1>9 DEF Search

\* Stores outside the control bytes in T disturb nothing in front of the end of the tiles.
LEMMA MemoriesAgree ==
  ASSUME NEW m \in [Heap -> 0 .. 255], NEW m2 \in [Heap -> 0 .. 255],
         NEW T \in SUBSET Heap, NEW f \in Heap, Tiles(T, f, m),
         \A t \in T : m2[t] = m[t] /\ m2[t + 1] = m[t + 1]
  PROVE  /\ \A t \in T : SpaceOf(m2, t) = SpaceOf(m, t)
         /\ Tiles(T, f, m2)
         /\ \A B : Handed(T, f, m, B) => Handed(T, f, m2, B)
         /\ \A first, last : ClearFrom(T, m, first, last) => ClearFrom(T, m2, first, last)
         /\ \A first, n : Room(T, f, m, first, n) => Room(T, f, m2, first, n)
<1>1. \A t \in T : SpaceOf(m2, t) = SpaceOf(m, t)
  BY DEF SpaceOf
<1>2. Tiles(T, f, m2)
  BY <1>1 DEF Tiles, Mark
<1>3. \A B : Handed(T, f, m, B) => Handed(T, f, m2, B)
  BY <1>1 DEF Handed
<1>4. \A first, last : ClearFrom(T, m, first, last) => ClearFrom(T, m2, first, last)
  BY DEF ClearFrom
<1>5. \A first, n : Room(T, f, m, first, n) => Room(T, f, m2, first, n)
  BY <1>4 DEF Room
<1> QED
  BY <1>1, <1>2, <1>3, <1>4, <1>5

\* Where the room for a block ends, there is a pair of T, or it is behind them all.
LEMMA RoomFacts ==
  ASSUME NEW m \in [Heap -> 0 .. 255], NEW T \in SUBSET Heap, NEW f \in Heap, Tiles(T, f, m),
         NEW first \in Nat, NEW n \in Nat, n >= 4, Room(T, f, m, first, n)
  PROVE  /\ first \in Heap /\ first + 1 \in Heap /\ first + n \in Heap /\ first + n + 1 \in Heap
         /\ first <= f /\ first + n < Limit
         /\ first + n \in T => \A t \in T : t + 1 # first + n
         /\ first + n \notin T => first + n > f + 1 /\ (first + n - f) % 2 = 0
<1>1. first \in T /\ first + n < Limit
  BY DEF Room
<1>2. /\ first \in Heap /\ first + 1 \in Heap /\ first + n \in Heap /\ first + n + 1 \in Heap
      /\ first <= f /\ first + n < Limit
  BY <1>1, Heaps, TileFacts
<1>3. first + n \in T => \A t \in T : t + 1 # first + n
  <2> SUFFICES ASSUME NEW t \in T, NEW a \in T, a = t + 1 PROVE FALSE
    BY <1>2
  <2>1. t < a /\ t \in Nat
    BY TileFacts
  <2>2. t # f /\ t + SpaceOf(m, t) <= a /\ SpaceOf(m, t) \in Nat
    BY <2>1, TileFacts
  <2>3. SpaceOf(m, t) >= 4
    BY <2>2 DEF Tiles
  <2> QED
    BY <2>1, <2>2, <2>3
<1>4. first + n \notin T => first + n > f + 1 /\ (first + n - f) % 2 = 0
  BY <1>2, Heaps DEF Room
<1> QED
  BY <1>2, <1>3, <1>4

LEMMA SplitKeeps ==
  ASSUME Calls, NEW T \in SUBSET Heap, NEW f \in Heap, IndInv(T, f),
         NEW p \in Processes, Split(p)
  PROVE  IndInv(T, f)'
<1>1. Typed /\ BookInv /\ HeapInv(T, f) /\ OneAtATime /\ RequestsFit /\ SmallestReturned
  BY DEF IndInv, Calls
<1> DEFINE n == ActualSize(request[p])
           a == base[p] + n
<1>2. /\ pc[p] = "split" /\ pc' = [pc EXCEPT ![p] = "book"]
      /\ UNCHANGED <<address_book, request, base, total, blocks>>
      /\ mem' = IF ~Marked(a)
                THEN [mem EXCEPT ![a] = MEMORY_CLEAR, ![a + 1] = MAX_SINGLE_MALLOC_SIZE_SHIFT]
                ELSE mem
  BY DEF Split, goto, locals, Splits
<1>3. mem \in [Heap -> 0 .. 255] /\ Tiles(T, f, mem) /\ Behind(f, mem) /\ Handed(T, f, mem, blocks)
  BY <1>1 DEF HeapInv, Typed
<1>4. request[p] \in Valid /\ Room(T, f, mem, base[p], n) /\ base[p] \in Nat
  BY <1>1, <1>2 DEF HeapInv, At, Typed
<1>5. n \in Nat /\ n >= 4
  BY <1>1, <1>4, Sizes
<1> HIDE DEF n
<1>6. /\ a \in Heap /\ a + 1 \in Heap /\ a < Limit /\ a \in Nat
      /\ a \notin T => a > f + 1 /\ (a - f) % 2 = 0
  <2>1. /\ base[p] + n \in Heap /\ base[p] + n + 1 \in Heap /\ base[p] + n < Limit
        /\ base[p] + n \notin T => base[p] + n > f + 1 /\ (base[p] + n - f) % 2 = 0
    BY <1>3, <1>4, <1>5, RoomFacts
  <2>2. base[p] + n \in Nat
    BY <1>4, <1>5
  <2>3. a = base[p] + n
    OBVIOUS
  <2> HIDE DEF a
  <2>4. a \in Heap /\ a < Limit /\ a \in Nat
    BY <2>1, <2>2, <2>3
  <2>5. a + 1 \in Heap
    BY <2>1, <2>3, Zenon
  <2>6. a \notin T => a > f + 1 /\ (a - f) % 2 = 0
    <3>1. f \in Nat
      BY Heaps
    <3>2. base[p] + n - f = a - f
      BY <1>4, <1>5, <2>3, <3>1
    <3> QED
      BY <2>1, <2>3, <3>2
  <2> QED
    BY <2>4, <2>5, <2>6
<1> HIDE DEF a
<1>7. mem' \in [Heap -> 0 .. 255]
  <2>1. CASE Marked(a)
    BY <1>2, <1>3, <2>1
  <2>2. CASE ~Marked(a)
    <3>1. mem' = [mem EXCEPT ![a] = MEMORY_CLEAR, ![a + 1] = MAX_SINGLE_MALLOC_SIZE_SHIFT]
      BY <1>2, <2>2
    <3>2. MEMORY_CLEAR \in 0 .. 255 /\ MAX_SINGLE_MALLOC_SIZE_SHIFT \in 0 .. 255
      BY DEF MEMORY_CLEAR, MAX_SINGLE_MALLOC_SIZE_SHIFT
    <3> QED
      BY <1>3, <3>1, <3>2
  <2> QED
    BY <2>1, <2>2
<1>8. Mark(mem', a)
  <2>1. CASE Marked(a)
    BY <1>2, <2>1 DEF Marked, Mark
  <2>2. CASE ~Marked(a)
    <3>1. mem'[a] = MEMORY_CLEAR
      BY <1>2, <1>3, <1>6, <2>2
    <3> QED
      BY <3>1 DEF Mark
  <2> QED
    BY <2>1, <2>2
<1>9. /\ \A t \in T : mem'[t] = mem[t] /\ mem'[t + 1] = mem[t + 1]
      /\ Behind(f, mem')
  <2>1. CASE Marked(a)
    BY <1>2, <1>3, <2>1
  <2>2. CASE ~Marked(a)
    <3>1. a \notin T
      BY <1>3, <2>2, TileFacts DEF Mark, Marked
    <3>2. a > f + 1 /\ (a - f) % 2 = 0 /\ f \in Nat
      BY <1>6, <3>1, Heaps
    <3>3. /\ mem'[a] = MEMORY_CLEAR /\ mem'[a + 1] = MAX_SINGLE_MALLOC_SIZE_SHIFT
          /\ \A y \in Heap : y # a /\ y # a + 1 => mem'[y] = mem[y]
      BY <1>2, <1>3, <1>6, <2>2
    <3>4. \A t \in T : mem'[t] = mem[t] /\ mem'[t + 1] = mem[t + 1]
      <4>1. \A t \in T : t \in Heap /\ t + 1 \in Heap /\ t \in Nat /\ t + 1 < a
        BY <1>3, <1>6, <3>2, TileFacts
      <4> QED
        BY <1>6, <3>3, <4>1
    <3>5. Behind(f, mem')
      <4> SUFFICES ASSUME NEW y \in f + 2 .. Limit, (y - f) % 2 = 0, Mark(mem', y)
                   PROVE  /\ y < Limit /\ mem'[y] = MEMORY_CLEAR
                          /\ mem'[y + 1] = MAX_SINGLE_MALLOC_SIZE_SHIFT
        BY DEF Behind
      <4>1. y \in Heap /\ y \in Nat
        BY <3>2, Heaps
      <4>2. CASE y = a
        BY <1>6, <3>3, <4>2
      <4>3. CASE y # a
        <5>1. y # a + 1 /\ y + 1 # a
          BY <1>6, <3>2, <4>1
        <5>2. mem'[y] = mem[y]
          BY <3>3, <4>1, <4>3, <5>1
        <5>3. y < Limit /\ mem[y] = MEMORY_CLEAR /\ mem[y + 1] = MAX_SINGLE_MALLOC_SIZE_SHIFT
          BY <1>3, <5>2 DEF Behind, Mark
        <5>4. y + 1 \in Heap /\ y + 1 # a + 1
          BY <1>6, <4>1, <4>3, <5>3, Heaps
        <5> QED
          BY <3>3, <5>1, <5>2, <5>3, <5>4
      <4> QED
        BY <4>2, <4>3
    <3> QED
      BY <3>4, <3>5
  <2> QED
    BY <2>1, <2>2
<1>10. Tiles(T, f, mem') /\ Handed(T, f, mem', blocks) /\ Room(T, f, mem', base[p], n)
  BY <1>3, <1>4, <1>7, <1>9, MemoriesAgree
<1>11. pc'[p] = "book" /\ base'[p] = base[p] /\ request'[p] = request[p]
  BY <1>1, <1>2 DEF Typed
<1>12. At(p, T, f)'
  BY <1>4, <1>8, <1>10, <1>11 DEF At, a, n
<1>13. \A q \in Processes : q = p
  BY <1>1 DEF OneAtATime
<1>14. \A q \in Processes : At(q, T, f)'
  BY <1>12, <1>13
<1>15. HeapInv(T, f)'
  BY <1>2, <1>9, <1>10, <1>14 DEF HeapInv
<1>16. Typed'
  BY <1>1, <1>2, <1>7 DEF Typed
<1>17. BookInv'
  <2>1. \A q \in Processes : (pc[q] = "seal") <=> (pc'[q] = "seal")
    BY <1>2, <1>11, <1>13
  <2>2. \A q \in Processes : pc[q] = "seal" => base'[q] = base[q]
    BY <1>2
  <2> QED
    BY <1>1, <1>2, <2>1, <2>2, BookKept
<1> QED
  BY <1>15, <1>16, <1>17 DEF IndInv

LEMMA BookKeeps ==
  ASSUME Calls, NEW T \in SUBSET Heap, NEW f \in Heap, IndInv(T, f),
         NEW p \in Processes, Book(p)
  PROVE  IndInv(T, f)'
<1>1. Typed /\ BookInv /\ HeapInv(T, f) /\ OneAtATime
  BY DEF IndInv, Calls
<1>2. pc[p] = "book" /\ UNCHANGED <<mem, blocks>>
  BY DEF Book
<1>3. CASE return(p) /\ UNCHANGED address_book
  BY <1>2, <1>3, ReturnKeeps
<1>4. CASE /\ Listed(0) # {}
           /\ address_book' = [address_book EXCEPT ![Min(Listed(0))] = base[p]]
           /\ goto(p, "seal")
           /\ UNCHANGED locals
  <2>1. Listed(0) \in SUBSET Nat
    BY DEF Listed, Slots
  <2>2. PICK s \in Slots : s = Min(Listed(0)) /\ address_book[s] = 0
    BY <1>4, <2>1, MinOfNaturals DEF Listed
  <2>3. /\ address_book' = [address_book EXCEPT ![s] = base[p]]
        /\ pc' = [pc EXCEPT ![p] = "seal"] /\ UNCHANGED <<request, base, total>>
    BY <1>4, <2>2 DEF goto, locals
  <2>4. pc'[p] = "seal" /\ base'[p] = base[p] /\ request'[p] = request[p]
    BY <1>1, <2>3 DEF Typed
  <2>5. At(p, T, f)'
    BY <1>1, <1>2, <2>4 DEF At, HeapInv, Mark
  <2>6. base[p] \in Heap /\ base[p] # 0
    BY <1>1, <1>2, Heaps DEF At, HeapInv, Room
  <2>7. Typed'
    BY <1>1, <1>2, <2>3, <2>6 DEF Typed
  <2>8. BookInv'
    <3>1. \A i \in Slots : address_book'[i] = IF i = s THEN base[p] ELSE address_book[i]
      BY <1>1, <2>3 DEF Typed
    <3>2. \A q \in Processes : q = p
      BY <1>1 DEF OneAtATime
    <3>3. mem[base[p]] = MEMORY_CLEAR
      <4>1. /\ base[p] \in T /\ base[p] \in Nat /\ ActualSize(request[p]) \in Nat /\ ActualSize(request[p]) >= 4
            /\ ClearFrom(T, mem, base[p], base[p] + ActualSize(request[p]))
        BY <1>1, <1>2, Sizes DEF At, HeapInv, Room, Calls, Typed
      <4> QED
        BY <4>1 DEF ClearFrom
    <3>4. \A b \in blocks : b.base # base[p]
      BY <1>1, <3>3 DEF HeapInv, Handed, MEMORY_IN_USE, MEMORY_CLEAR
    <3>5. \A i \in Slots : address_book[i] # base[p]
      BY <1>1, <1>2, <2>6, <3>2, <3>4 DEF BookInv
    <3>6. \A i, j \in Slots : address_book'[i] = address_book'[j] /\ address_book'[i] # 0 => i = j
      BY <1>1, <3>1, <3>5 DEF BookInv
    <3>7. \A i \in Slots : \/ address_book'[i] = 0
                           \/ \E b \in blocks : address_book'[i] = b.base
                           \/ \E q \in Processes : pc'[q] = "seal" /\ address_book'[i] = base'[q]
      <4> TAKE i \in Slots
      <4>1. CASE i = s
        <5>1. pc'[p] = "seal" /\ address_book'[i] = base'[p]
          BY <2>4, <3>1, <4>1
        <5> QED
          BY <5>1, Zenon
      <4>2. CASE i # s /\ address_book[i] # 0
        <5>1. \E b \in blocks : address_book[i] = b.base
          BY <1>1, <1>2, <3>2, <4>2 DEF BookInv
        <5> QED
          BY <3>1, <4>2, <5>1
      <4>3. CASE i # s /\ address_book[i] = 0
        BY <3>1, <4>3
      <4> QED
        BY <4>1, <4>2, <4>3
    <3>8. \A b \in blocks : \E i \in Slots : address_book'[i] = b.base
      <4> SUFFICES ASSUME NEW b \in blocks PROVE \E i \in Slots : address_book'[i] = b.base
        OBVIOUS
      <4>1. PICK i \in Slots : address_book[i] = b.base
        BY <1>1 DEF BookInv
      <4>2. b.base # 0
        BY <1>1, Heaps DEF Typed
      <4> QED
        BY <2>2, <3>1, <4>1, <4>2
    <3>9. \A q \in Processes : pc'[q] = "seal" => \E i \in Slots : address_book'[i] = base'[q]
      BY <2>4, <3>1, <3>2
    <3> QED
      BY <1>2, <3>6, <3>7, <3>8, <3>9 DEF BookInv
  <2> QED
    BY <1>1, <1>2, <2>5, <2>7, <2>8, HeapKept DEF IndInv
<1> QED
  BY <1>3, <1>4 DEF Book

\* The pairs of control bytes that a block from first to a swallows are gone; the free
\* space behind all tiles may start later.
Sealed(T, first, a) == {t \in T : t <= first \/ t >= a} \union {a}
End(T, f, a) == IF a \in T THEN f ELSE a

\* What OS_Malloc stores in the control bytes of the block it returns.
SealStored(m, m2, first, n) ==
  /\ \A y \in Heap : y # first /\ y # first + 1 => m2[y] = m[y]
  /\ m2[first] = MEMORY_IN_USE /\ SpaceOf(m2, first) = n

\* The heap is tiled again, and no other block in use has lost its tile.
Swallowed(T, f, m, m2, first, a) ==
  /\ Sealed(T, first, a) \in SUBSET Heap /\ End(T, f, a) \in Heap
  /\ first \in Sealed(T, first, a) \ {End(T, f, a)}
  /\ Tiles(Sealed(T, first, a), End(T, f, a), m2)
  /\ Behind(End(T, f, a), m2)
  /\ \A t \in T \ {f} : m[t] = MEMORY_IN_USE =>
       /\ t # first /\ t \in Sealed(T, first, a) \ {End(T, f, a)}
       /\ m2[t] = m[t] /\ SpaceOf(m2, t) = SpaceOf(m, t)

\* A block with room may be sealed.
LEMMA SealedTiles ==
  ASSUME NEW m \in [Heap -> 0 .. 255], NEW m2 \in [Heap -> 0 .. 255],
         NEW T \in SUBSET Heap, NEW f \in Heap, Tiles(T, f, m), Behind(f, m),
         NEW first \in Nat, NEW n \in Nat, n >= 4, Room(T, f, m, first, n),
         NEW a \in Nat, a - first = n, Mark(m, a),
         SealStored(m, m2, first, n)
  PROVE  Swallowed(T, f, m, m2, first, a)
<1> DEFINE S == Sealed(T, first, a)
           e == End(T, f, a)
<1> /\ \A y \in Heap : y # first /\ y # first + 1 => m2[y] = m[y]
    /\ m2[first] = MEMORY_IN_USE /\ SpaceOf(m2, first) = n
  BY DEF SealStored
<1>1. a = first + n
  OBVIOUS
<1>2. /\ first \in T /\ first + 1 \in Heap /\ first \in Heap /\ a \in Heap /\ a + 1 \in Heap
      /\ first <= f /\ a < Limit /\ first < a /\ first + 1 < a
      /\ a \notin T => a > f + 1 /\ (a - f) % 2 = 0
      /\ f \in Nat
  <2>1. f \in Nat /\ first \in T
    BY Heaps DEF Room
  <2>2. /\ first \in Heap /\ first + 1 \in Heap /\ first + n \in Heap /\ first + n + 1 \in Heap
        /\ first <= f /\ first + n < Limit
        /\ first + n \notin T => first + n > f + 1 /\ (first + n - f) % 2 = 0
    BY RoomFacts
  <2>3. first + n - f = a - f
    BY <2>1
  <2> QED
    BY <1>1, <2>1, <2>2, <2>3
<1>3. /\ \A t \in T : t \in Nat /\ t \in Heap /\ t <= f /\ t + 1 \in Heap /\ SpaceOf(m, t) \in Nat
      /\ \A t, u \in T : t < u => t # f /\ t + SpaceOf(m, t) <= u
  BY TileFacts, ZenonT(40)
<1>4. \A t \in T : first <= t /\ t < a => m[t] = MEMORY_CLEAR
  BY <1>1 DEF Room, ClearFrom
<1>5. \A t \in T \ {f} : Mark(m, t) /\ SpaceOf(m, t) >= 4 /\ t + SpaceOf(m, t) \in T
  BY DEF Tiles
<1>6. \A t \in T : t # first => t # first + 1 /\ t + 1 # first /\ t + 1 # first + 1
  <2> TAKE t \in T
  <2> HAVE t # first
  <2>1. CASE t < first
    <3>1. t # f /\ t + SpaceOf(m, t) <= first
      BY <1>2, <1>3, <2>1
    <3> QED
      BY <1>2, <1>3, <1>5, <2>1, <3>1
  <2>2. CASE t > first
    <3>1. first # f /\ first + SpaceOf(m, first) <= t
      BY <1>2, <1>3, <2>2
    <3>2. SpaceOf(m, first) >= 4 /\ SpaceOf(m, first) \in Nat
      BY <1>2, <1>3, <1>5, <3>1
    <3> QED
      BY <1>2, <1>3, <3>1, <3>2
  <2> QED
    BY <1>2, <1>3, <2>1, <2>2
<1>7. \A t \in T : t # first => m2[t] = m[t] /\ m2[t + 1] = m[t + 1] /\ SpaceOf(m2, t) = SpaceOf(m, t)
  BY <1>3, <1>6 DEF SpaceOf
<1>8. m2[a] = m[a] /\ m2[a + 1] = m[a + 1]
  BY <1>2
<1>9. /\ S \in SUBSET Heap /\ e \in Heap /\ e \in Nat /\ e \in S /\ a <= e /\ e < Limit
      /\ first \in S \ {e} /\ BASE_MEM_LOCATION \in S /\ S \subseteq BASE_MEM_LOCATION .. e
  <2>1. \A x : x \in S <=> (x \in T /\ (x <= first \/ x >= a)) \/ x = a
    BY DEF Sealed
  <2>2. (a \in T /\ e = f) \/ (a \notin T /\ e = a)
    BY DEF End
  <2> HIDE DEF S, e
  <2>3. S \in SUBSET Heap
    BY <1>2, <2>1
  <2>4. BASE_MEM_LOCATION \in T /\ f \in T /\ BASE_MEM_LOCATION <= first /\ f < Limit
    BY <1>2, Heaps DEF Tiles
  <2>5. e \in Heap /\ e \in Nat /\ a <= e /\ e < Limit /\ e \in S
    <3>1. CASE a \in T /\ e = f
      BY <1>2, <1>3, <2>1, <2>4, <3>1
    <3>2. CASE a \notin T /\ e = a
      BY <1>2, <2>1, <3>2
    <3> QED
      BY <2>2, <3>1, <3>2
  <2>6. first \in S /\ first # e
    BY <1>2, <2>1, <2>5
  <2>7. BASE_MEM_LOCATION \in S
    BY <2>1, <2>4
  <2>8. ASSUME NEW x \in S PROVE x \in BASE_MEM_LOCATION .. e
    <3>1. x \in Nat /\ BASE_MEM_LOCATION <= x
      BY <2>3, Heaps
    <3>2. x <= e
      BY <1>2, <1>3, <2>1, <2>2, <2>5
    <3> QED
      BY <2>5, <3>1, <3>2, Heaps
  <2> QED
    BY <2>3, <2>5, <2>6, <2>7, <2>8
<1>10. m2[e] = MEMORY_CLEAR /\ m2[e + 1] = MAX_SINGLE_MALLOC_SIZE_SHIFT
  <2>1. CASE a \in T
    <3>1. f \in T /\ f # first /\ e = f
      BY <1>2, <1>3, <2>1 DEF End, Tiles
    <3> QED
      BY <1>7, <3>1 DEF Tiles
  <2>2. CASE a \notin T
    <3>1. a \in f + 2 .. Limit /\ (a - f) % 2 = 0 /\ e = a
      BY <1>2, <2>2, Heaps DEF End
    <3> QED
      BY <1>8, <3>1 DEF Behind
  <2> QED
    BY <2>1, <2>2
<1>11. ASSUME NEW t \in S \ {e}
       PROVE  /\ Mark(m2, t) /\ SpaceOf(m2, t) >= 4 /\ t + SpaceOf(m2, t) \in S
              /\ \A u \in S : u <= t \/ u >= t + SpaceOf(m2, t)
              /\ m2[t] = MEMORY_CLEAR => SpaceOf(m2, t) = Unit
  <2>1. CASE t = first
    <3>1. a \in S /\ \A u \in S : u <= first \/ u >= a
      BY <1>2, <1>3 DEF Sealed
    <3> QED
      BY <1>1, <2>1, <3>1 DEF Mark, MEMORY_IN_USE, MEMORY_CLEAR
  <2>2. CASE t # first
    <3>1. t \in T \ {f} /\ (t < first \/ t >= a)
      BY <1>2, <1>3, <2>2 DEF Sealed, End
    <3>2. /\ Mark(m, t) /\ SpaceOf(m, t) >= 4 /\ t + SpaceOf(m, t) \in T
          /\ \A u \in T : u <= t \/ u >= t + SpaceOf(m, t)
          /\ m[t] = MEMORY_CLEAR => SpaceOf(m, t) = Unit
      BY <3>1 DEF Tiles
    <3>3. t + SpaceOf(m, t) <= first \/ t + SpaceOf(m, t) >= a
      BY <1>2, <1>3, <3>1, <3>2
    <3>4. t + SpaceOf(m, t) \in S
      BY <3>2, <3>3 DEF Sealed
    <3>5. \A u \in S : u <= t \/ u >= t + SpaceOf(m, t)
      <4> TAKE u \in S
      <4>1. CASE u \in T
        BY <3>2, <4>1
      <4>2. CASE u = a
        BY <1>2, <1>3, <3>1, <3>2, <3>3, <4>2
      <4> QED
        BY <4>1, <4>2 DEF Sealed
    <3> QED
      BY <1>7, <2>2, <3>1, <3>2, <3>4, <3>5 DEF Mark
  <2> QED
    BY <2>1, <2>2
<1>12. Tiles(S, e, m2)
  BY <1>9, <1>10, <1>11 DEF Tiles
<1>13. Behind(e, m2)
  <2> SUFFICES ASSUME NEW y \in e + 2 .. Limit, (y - e) % 2 = 0, Mark(m2, y)
               PROVE  /\ y < Limit /\ m2[y] = MEMORY_CLEAR
                      /\ m2[y + 1] = MAX_SINGLE_MALLOC_SIZE_SHIFT
    BY DEF Behind
  <2>1. y \in Nat /\ y \in Heap /\ y > first + 1 /\ (y < Limit => y + 1 \in Heap)
    <3>1. Limit \in Int /\ e \in Nat /\ a <= e
      BY <1>9, Heaps
    <3>2. y \in Nat /\ e + 2 <= y /\ y <= Limit
      BY <3>1
    <3>3. BASE_MEM_LOCATION <= y /\ BASE_MEM_LOCATION \in Nat
      BY <1>9, <3>1, <3>2, Heaps
    <3> QED
      BY <1>2, <3>1, <3>2, <3>3, Heaps, SMTT(30)
  <2>2. y \in f + 2 .. Limit /\ (y - f) % 2 = 0
    <3>1. Limit \in Int /\ e + 2 <= y /\ y <= Limit
      BY <1>9, Heaps
    <3>2. CASE a \in T
      BY <1>2, <2>1, <3>1, <3>2 DEF End
    <3>3. CASE a \notin T
      <4>1. e = a /\ a > f + 1 /\ (a - f) % 2 = 0 /\ (y - a) % 2 = 0
        BY <1>2, <3>3 DEF End
      <4> HIDE DEF e
      <4>2. y \in f + 2 .. Limit
        BY <1>2, <2>1, <3>1, <4>1
      <4>3. y - f = (y - a) + (a - f)
        BY <1>2, <2>1
      <4>4. (y - f) % 2 = 0
        BY <1>2, <2>1, <4>1
      <4> QED
        BY <4>2, <4>4
    <3> QED
      BY <3>2, <3>3
  <2>3. Mark(m, y)
    BY <1>2, <2>1 DEF Mark
  <2>4. y < Limit /\ m[y] = MEMORY_CLEAR /\ m[y + 1] = MAX_SINGLE_MALLOC_SIZE_SHIFT
    BY <2>2, <2>3 DEF Behind
  <2> QED
    BY <1>2, <2>1, <2>4
<1>14. ASSUME NEW t \in T \ {f}, m[t] = MEMORY_IN_USE
       PROVE  /\ t # first /\ t \in S \ {e}
              /\ m2[t] = m[t] /\ SpaceOf(m2, t) = SpaceOf(m, t)
  <2>1. t # first /\ (t < first \/ t >= a)
    BY <1>2, <1>3, <1>4, <1>14 DEF MEMORY_IN_USE, MEMORY_CLEAR
  <2>2. t \in S \ {e}
    BY <1>2, <1>3, <2>1 DEF Sealed, End
  <2> QED
    BY <1>7, <2>1, <2>2
<1> QED
  BY <1>9, <1>12, <1>13, <1>14 DEF Swallowed

LEMMA SealKeeps ==
  ASSUME Calls, NEW T \in SUBSET Heap, NEW f \in Heap, IndInv(T, f),
         NEW p \in Processes, Seal(p)
  PROVE  IInv'
<1>1. Typed /\ BookInv /\ HeapInv(T, f) /\ OneAtATime /\ RequestsFit /\ SmallestReturned
  BY DEF IndInv, Calls
<1>2. PICK first \in Nat, n \in Nat : first = base[p] /\ n = ActualSize(request[p]) /\ n >= 4
                                      /\ Shift(request[p]) \in 2 .. 29 /\ n = TwoTo(Shift(request[p]))
                                      /\ request[p] \in Valid
  <2>1. request[p] \in Valid /\ base[p] \in Nat
    BY <1>1 DEF Seal, HeapInv, At, Typed
  <2> QED
    BY <1>1, <2>1, Sizes
<1>3. /\ pc[p] = "seal"
      /\ mem' = [mem EXCEPT ![first] = MEMORY_IN_USE, ![first + 1] = Shift(request[p])]
      /\ blocks' = blocks \union {NewBlock(p)}
      /\ return(p) /\ UNCHANGED address_book
  BY <1>2 DEF Seal
<1>4. Tiles(T, f, mem) /\ Behind(f, mem) /\ Handed(T, f, mem, blocks) /\ mem \in [Heap -> 0 .. 255]
  BY <1>1 DEF HeapInv, Typed
<1>5. Room(T, f, mem, first, n) /\ Mark(mem, first + n)
  BY <1>1, <1>2, <1>3 DEF HeapInv, At
<1>6. first \in Heap /\ first + 1 \in Heap /\ first \in Nat
  BY <1>2, <1>4, <1>5, RoomFacts
<1>7. mem' \in [Heap -> 0 .. 255]
  <2>1. MEMORY_IN_USE \in 0 .. 255 /\ Shift(request[p]) \in 0 .. 255
    BY <1>2 DEF MEMORY_IN_USE
  <2> QED
    BY <1>3, <1>4, <2>1
<1>8. /\ \A y \in Heap : y # first /\ y # first + 1 => mem'[y] = mem[y]
      /\ mem'[first] = MEMORY_IN_USE /\ mem'[first + 1] = Shift(request[p])
  <2>1. mem' = [mem EXCEPT ![first] = MEMORY_IN_USE, ![first + 1] = Shift(request[p])]
    BY <1>3
  <2> QED
    BY <1>4, <1>6, <2>1
<1>9. SpaceOf(mem', first) = n
  <2>1. mem'[first + 1] % 32 = Shift(request[p])
    BY <1>2, <1>8
  <2> QED
    BY <1>2, <2>1 DEF SpaceOf
<1>10. PICK a \in Nat : a = first + n /\ a - first = n
  BY <1>2
<1>11. PICK S, e : S = Sealed(T, first, a) /\ e = End(T, f, a)
  OBVIOUS
<1>12. /\ S \in SUBSET Heap /\ e \in Heap /\ first \in S \ {e}
       /\ Tiles(S, e, mem') /\ Behind(e, mem')
       /\ \A t \in T \ {f} : mem[t] = MEMORY_IN_USE =>
            /\ t # first /\ t \in S \ {e}
            /\ mem'[t] = mem[t] /\ SpaceOf(mem', t) = SpaceOf(mem, t)
  <2>1. PICK m2 \in [Heap -> 0 .. 255] : m2 = mem'
    BY <1>7, Zenon
  <2>2. SealStored(mem, m2, first, n)
    BY <1>8, <1>9, <2>1, Zenon DEF SealStored
  <2>3. n >= 4 /\ a - first = n /\ Mark(mem, a)
    BY <1>2, <1>5, <1>10
  <2>4. Swallowed(T, f, mem, m2, first, a)
    BY <1>4, <1>5, <2>2, <2>3, SealedTiles, Zenon
  <2> QED
    BY <1>11, <2>1, <2>4, Zenon DEF Swallowed
<1>13. NewBlock(p).base = first /\ NewBlock(p).val = request[p]
  BY <1>2 DEF NewBlock
<1>14. \A b \in blocks : b.base # first
  BY <1>4, <1>12 DEF Handed
<1>15. Handed(S, e, mem', blocks')
  <2>1. \A b \in blocks' : /\ b.base \in S \ {e} /\ mem'[b.base] = MEMORY_IN_USE
                           /\ b.val \in Valid /\ SpaceOf(mem', b.base) = ActualSize(b.val)
    <3> TAKE b \in blocks'
    <3>1. CASE b \in blocks
      BY <1>4, <1>12, <3>1 DEF Handed
    <3>2. CASE b = NewBlock(p)
      BY <1>2, <1>8, <1>9, <1>12, <1>13, <3>2
    <3> QED
      BY <1>3, <3>1, <3>2
  <2>2. \A b, c \in blocks' : b.base = c.base => b = c
    BY <1>3, <1>4, <1>13, <1>14 DEF Handed
  <2> QED
    BY <2>1, <2>2 DEF Handed
<1>16. /\ pc'[p] = "out" /\ total'[p] = 0
       /\ pc' \in [Processes -> {"out", "search", "split", "book", "seal", "clear"}]
       /\ request' \in [Processes -> Requests \union {0}]
       /\ base' \in [Processes -> Nat] /\ total' \in [Processes -> Nat]
  BY <1>1, <1>3, ReturnFacts
<1>17. \A q \in Processes : q = p
  BY <1>1 DEF OneAtATime
<1>18. \A q \in Processes : At(q, S, e)'
  BY <1>16, <1>17 DEF At
<1>19. HeapInv(S, e)'
  BY <1>12, <1>15, <1>18 DEF HeapInv
<1>20. Typed'
  <2>1. NewBlock(p) \in [base : Heap, val : Requests]
    BY <1>2, <1>6 DEF NewBlock, Valid
  <2>2. blocks' \subseteq [base : Heap, val : Requests]
    BY <1>1, <1>3, <2>1 DEF Typed
  <2> QED
    BY <1>1, <1>3, <1>7, <1>16, <2>2 DEF Typed
<1>21. BookInv'
  <2>1. \A i, j \in Slots : address_book'[i] = address_book'[j] /\ address_book'[i] # 0 => i = j
    BY <1>1, <1>3 DEF BookInv
  <2>2. \A i \in Slots : address_book'[i] = 0 \/ \E b \in blocks' : address_book'[i] = b.base
    <3> TAKE i \in Slots
    <3>1. CASE \E b \in blocks : address_book[i] = b.base
      BY <1>3, <3>1
    <3>2. CASE address_book[i] = first
      <4>1. NewBlock(p) \in blocks' /\ address_book'[i] = NewBlock(p).base
        BY <1>3, <1>13, <3>2
      <4> QED
        BY <4>1
    <3> QED
      BY <1>1, <1>2, <1>3, <1>17, <3>1, <3>2 DEF BookInv
  <2>3. \A b \in blocks' : \E i \in Slots : address_book'[i] = b.base
    BY <1>1, <1>2, <1>3, <1>13 DEF BookInv
  <2>4. \A q \in Processes : pc'[q] # "seal"
    BY <1>16, <1>17
  <2> QED
    BY <2>1, <2>2, <2>3, <2>4 DEF BookInv
<1>22. IndInv(S, e)'
  BY <1>19, <1>20, <1>21 DEF IndInv
<1> QED
  BY <1>12, <1>22 DEF IInv

LEMMA FreeKeeps ==
  ASSUME Calls, NEW T \in SUBSET Heap, NEW f \in Heap, IndInv(T, f),
         NEW p \in Processes, NEW b \in blocks, b.val \in Freed, OS_Free(p, b)
  PROVE  IndInv(T, f)'
<1>1. Typed /\ BookInv /\ HeapInv(T, f) /\ OneAtATime /\ RequestsFit /\ SmallestReturned
  BY DEF IndInv, Calls
<1>2. /\ pc[p] = "out" /\ Listed(b.base) # {} /\ pc' = [pc EXCEPT ![p] = "clear"]
      /\ blocks' = blocks \ {b} /\ base' = [base EXCEPT ![p] = b.base]
      /\ UNCHANGED <<mem, request, total>>
  BY DEF OS_Free, goto
<1>3. b \in [base : Heap, val : Requests] /\ b.base \in Heap /\ b.base # 0
  BY <1>1, Heaps DEF Typed
<1>4. /\ b.base \in T \ {f} /\ mem[b.base] = MEMORY_IN_USE
      /\ b.val \in Returned /\ SpaceOf(mem, b.base) = ActualSize(b.val)
      /\ \A c \in blocks : b.base = c.base => b = c
  BY <1>1 DEF HeapInv, Handed, Returned
<1>5. SpaceOf(mem, b.base) = Unit
  BY <1>1, <1>4, Sizes
<1>6. Listed(b.base) \in SUBSET Nat
  BY DEF Listed, Slots
<1>7. PICK s \in Slots : s = Min(Listed(b.base)) /\ address_book[s] = b.base
  BY <1>2, <1>6, MinOfNaturals DEF Listed
<1>8. \A i \in Slots : address_book'[i] = IF i = s THEN 0 ELSE address_book[i]
  <2>1. address_book' = [address_book EXCEPT ![s] = 0]
    BY <1>7 DEF OS_Free, Unlisted
  <2> QED
    BY <1>1, <2>1 DEF Typed
<1>9. Typed'
  <2>1. address_book' \in [Slots -> Heap \union {0}]
    BY <1>1, <1>7 DEF OS_Free, Unlisted, Typed
  <2> QED
    BY <1>1, <1>2, <1>3, <2>1, Heaps DEF Typed
<1>10. \A q \in Processes : q = p
  BY <1>1 DEF OneAtATime
<1>11. pc'[p] = "clear" /\ base'[p] = b.base
  BY <1>1, <1>2 DEF Typed
<1>12. BookInv'
  <2>1. \A i, j \in Slots : address_book'[i] = address_book'[j] /\ address_book'[i] # 0 => i = j
    BY <1>1, <1>8 DEF BookInv
  <2>2. \A i \in Slots : address_book'[i] = 0 \/ \E c \in blocks' : address_book'[i] = c.base
    <3> TAKE i \in Slots
    <3>1. CASE i = s \/ address_book[i] = 0
      BY <1>8, <3>1
    <3>2. CASE i # s /\ address_book[i] # 0
      <4>1. PICK c \in blocks : address_book[i] = c.base
        BY <1>1, <1>2, <1>10, <3>2 DEF BookInv
      <4>2. c # b
        BY <1>1, <1>3, <1>7, <3>2, <4>1 DEF BookInv
      <4> QED
        BY <1>2, <1>8, <3>2, <4>1, <4>2
    <3> QED
      BY <3>1, <3>2
  <2>3. \A c \in blocks' : \E i \in Slots : address_book'[i] = c.base
    <3> TAKE c \in blocks'
    <3>1. c \in blocks /\ c # b
      BY <1>2
    <3>2. PICK i \in Slots : address_book[i] = c.base
      BY <1>1, <3>1 DEF BookInv
    <3>3. i # s
      BY <1>4, <1>7, <3>1, <3>2
    <3> QED
      BY <1>8, <3>2, <3>3
  <2>4. \A q \in Processes : pc'[q] # "seal"
    BY <1>10, <1>11
  <2> QED
    BY <2>1, <2>2, <2>3, <2>4 DEF BookInv
<1>13. \A q \in Processes : At(q, T, f)'
  <2>1. \A c \in blocks' : c.base # b.base
    BY <1>2, <1>4
  <2>2. mem' = mem /\ SpaceOf(mem', b.base) = Unit
    BY <1>2, <1>5
  <2>3. At(p, T, f)'
    BY <1>4, <1>11, <2>1, <2>2 DEF At
  <2> QED
    BY <1>10, <2>3
<1>14. Tiles(T, f, mem)' /\ Behind(f, mem)' /\ Handed(T, f, mem, blocks)'
  BY <1>1, <1>2 DEF HeapInv, Tiles, Behind, Handed, Mark, SpaceOf
<1> QED
  BY <1>9, <1>12, <1>13, <1>14 DEF IndInv, HeapInv

LEMMA FreeClearKeeps ==
  ASSUME Calls, NEW T \in SUBSET Heap, NEW f \in Heap, IndInv(T, f),
         NEW p \in Processes, FreeClear(p)
  PROVE  IndInv(T, f)'
<1>1. Typed /\ BookInv /\ HeapInv(T, f) /\ OneAtATime
  BY DEF IndInv, Calls
<1>2. PICK a \in Nat : a = base[p]
  BY <1>1 DEF Typed
<1>3. /\ pc[p] = "clear" /\ mem' = [mem EXCEPT ![a] = MEMORY_CLEAR]
      /\ return(p) /\ UNCHANGED <<address_book, blocks>>
  BY <1>2 DEF FreeClear
<1>4. mem \in [Heap -> 0 .. 255] /\ Tiles(T, f, mem) /\ Behind(f, mem) /\ Handed(T, f, mem, blocks)
  BY <1>1 DEF HeapInv, Typed
<1>5. /\ a \in T \ {f} /\ SpaceOf(mem, a) = Unit /\ a \in Heap
      /\ \A b \in blocks : b.base # a
  BY <1>1, <1>2, <1>3 DEF HeapInv, At
<1>6. mem' \in [Heap -> 0 .. 255]
  <2>1. MEMORY_CLEAR \in 0 .. 255 /\ mem' = [mem EXCEPT ![a] = MEMORY_CLEAR]
    BY <1>3 DEF MEMORY_CLEAR
  <2> QED
    BY <1>4, <2>1
<1>7. mem'[a] = MEMORY_CLEAR /\ \A y \in Heap : y # a => mem'[y] = mem[y]
  BY <1>3, <1>4, <1>5
<1>8. \A t \in T : t \in Nat /\ t \in Heap /\ t + 1 \in Heap /\ t <= f /\ t + 1 # a
  <2> TAKE t \in T
  <2>1. t \in Nat /\ t \in Heap /\ t + 1 \in Heap /\ t <= f
    BY <1>4, TileFacts
  <2>2. SUFFICES ASSUME t + 1 = a PROVE FALSE
    BY <2>1
  <2>3. t < a /\ a \in T
    BY <1>5, <2>1, <2>2
  <2>4. t # f /\ t + SpaceOf(mem, t) <= a /\ SpaceOf(mem, t) \in Nat
    BY <1>4, <2>3, TileFacts
  <2>5. SpaceOf(mem, t) >= 4
    BY <1>4, <2>4 DEF Tiles
  <2> QED
    BY <2>1, <2>2, <2>4, <2>5
<1>9. \A t \in T : SpaceOf(mem', t) = SpaceOf(mem, t) /\ (t # a => mem'[t] = mem[t])
  BY <1>7, <1>8 DEF SpaceOf
<1>10. Tiles(T, f, mem')
  <2>1. mem'[f] = MEMORY_CLEAR /\ mem'[f + 1] = MAX_SINGLE_MALLOC_SIZE_SHIFT
    BY <1>4, <1>5, <1>7, <1>8 DEF Tiles
  <2>2. \A t \in T \ {f} :
          /\ Mark(mem', t) /\ SpaceOf(mem', t) >= 4 /\ t + SpaceOf(mem', t) \in T
          /\ \A u \in T : u <= t \/ u >= t + SpaceOf(mem', t)
          /\ mem'[t] = MEMORY_CLEAR => SpaceOf(mem', t) = Unit
    BY <1>4, <1>5, <1>7, <1>9 DEF Tiles, Mark
  <2> QED
    BY <1>4, <2>1, <2>2 DEF Tiles
<1>11. Behind(f, mem')
  <2> SUFFICES ASSUME NEW y \in f + 2 .. Limit, (y - f) % 2 = 0, Mark(mem', y)
               PROVE  y < Limit /\ mem'[y] = MEMORY_CLEAR /\ mem'[y + 1] = MAX_SINGLE_MALLOC_SIZE_SHIFT
    BY DEF Behind
  <2>1. y \in Heap /\ y \in Nat /\ y # a /\ y + 1 # a /\ (y < Limit => y + 1 \in Heap)
    BY <1>5, <1>8, Heaps
  <2>2. Mark(mem, y)
    BY <1>7, <2>1 DEF Mark
  <2> QED
    BY <1>4, <1>7, <2>1, <2>2 DEF Behind
<1>12. Handed(T, f, mem', blocks)
  BY <1>4, <1>5, <1>9 DEF Handed
<1>13. /\ pc'[p] = "out" /\ total'[p] = 0
       /\ pc' \in [Processes -> {"out", "search", "split", "book", "seal", "clear"}]
       /\ request' \in [Processes -> Requests \union {0}]
       /\ base' \in [Processes -> Nat] /\ total' \in [Processes -> Nat]
  BY <1>1, <1>3, ReturnFacts
<1>14. \A q \in Processes : q = p
  BY <1>1 DEF OneAtATime
<1>15. \A q \in Processes : At(q, T, f)'
  BY <1>13, <1>14 DEF At
<1>16. Typed'
  BY <1>1, <1>3, <1>6, <1>13 DEF Typed
<1>17. BookInv'
  <2>1. \A q \in Processes : (pc[q] = "seal") <=> (pc'[q] = "seal")
    BY <1>3, <1>13, <1>14
  <2>2. \A q \in Processes : pc[q] = "seal" => base'[q] = base[q]
    BY <1>3, <1>14
  <2> QED
    BY <1>1, <1>3, <2>1, <2>2, BookKept
<1> QED
  BY <1>3, <1>10, <1>11, <1>12, <1>15, <1>16, <1>17 DEF IndInv, HeapInv

LEMMA FillKeeps ==
  ASSUME Calls, NEW T \in SUBSET Heap, NEW f \in Heap, IndInv(T, f),
         NEW b \in blocks, NEW byte \in Data, Fill(b, byte)
  PROVE  IndInv(T, f)'
<1>1. Typed /\ BookInv /\ HeapInv(T, f) /\ RequestsFit /\ SmallestReturned
  BY DEF IndInv, Calls
<1>2. /\ mem' = [a \in Heap |-> IF a \in Contents(b) THEN byte ELSE mem[a]]
      /\ UNCHANGED <<address_book, pc, request, base, total, blocks>>
  BY DEF Fill, locals
<1>3. mem \in [Heap -> 0 .. 255] /\ Tiles(T, f, mem) /\ Behind(f, mem) /\ Handed(T, f, mem, blocks)
  BY <1>1 DEF HeapInv, Typed
<1>4. mem' \in [Heap -> 0 .. 255]
  <2>1. byte \in 0 .. 255
    BY AllocatorAssumption
  <2> QED
    BY <1>2, <1>3, <2>1
<1>5. PICK first \in T \ {f}, n \in Nat :
        /\ first = b.base /\ n = ActualSize(b.val) /\ n > b.val + 1 /\ n >= 4
        /\ SpaceOf(mem, first) = n /\ b.val \in Nat
  <2>1. b.base \in T \ {f} /\ b.val \in Valid /\ SpaceOf(mem, b.base) = ActualSize(b.val)
    BY <1>3 DEF Handed
  <2>2. b.val \in Nat
    BY <2>1, AllocatorAssumption DEF Valid
  <2> QED
    BY <1>1, <2>1, <2>2, Sizes
<1>6. first \in Nat /\ first < f /\ first + n <= f /\ f \in Nat
  <2>1. first \in Nat /\ f \in Nat
    BY <1>5, Heaps
  <2>2. first < f /\ first + SpaceOf(mem, first) <= f
    BY <1>3, <1>5, TileFacts
  <2> QED
    BY <1>5, <2>1, <2>2
<1>7. \A y \in Heap : (y <= first + 1 \/ y >= first + n) => mem'[y] = mem[y]
  <2> TAKE y \in Heap
  <2> HAVE y <= first + 1 \/ y >= first + n
  <2>1. y \notin first + 2 .. first + 1 + b.val
    BY <1>5, <1>6, Heaps
  <2> QED
    BY <1>2, <1>5, <2>1 DEF Contents
<1>8. \A t \in T : mem'[t] = mem[t] /\ mem'[t + 1] = mem[t + 1]
  <2> TAKE t \in T
  <2>1. t \in Nat /\ t \in Heap /\ t + 1 \in Heap
    BY <1>3, TileFacts
  <2>2. t <= first \/ t >= first + n
    BY <1>3, <1>5 DEF Tiles
  <2> QED
    BY <1>5, <1>6, <1>7, <2>1, <2>2
<1>9. /\ \A t \in T : SpaceOf(mem', t) = SpaceOf(mem, t)
      /\ Tiles(T, f, mem') /\ Handed(T, f, mem', blocks)
      /\ \A x, y : ClearFrom(T, mem, x, y) => ClearFrom(T, mem', x, y)
      /\ \A x, k : Room(T, f, mem, x, k) => Room(T, f, mem', x, k)
  BY <1>3, <1>4, <1>8, MemoriesAgree
<1>10. \A y \in Heap : y >= f => mem'[y] = mem[y]
  BY <1>6, <1>7, Heaps
<1>11. Behind(f, mem')
  <2> SUFFICES ASSUME NEW y \in f + 2 .. Limit, (y - f) % 2 = 0, Mark(mem', y)
               PROVE  y < Limit /\ mem'[y] = MEMORY_CLEAR /\ mem'[y + 1] = MAX_SINGLE_MALLOC_SIZE_SHIFT
    BY DEF Behind
  <2>1. y \in Heap /\ y \in Nat /\ y >= f /\ y + 1 >= f /\ (y < Limit => y + 1 \in Heap)
    BY <1>6, Heaps
  <2>2. Mark(mem, y)
    BY <1>10, <2>1 DEF Mark
  <2> QED
    BY <1>3, <1>10, <2>1, <2>2 DEF Behind
<1>12. ASSUME NEW q \in Processes PROVE At(q, T, f)'
  <2>1. At(q, T, f)
    BY <1>1 DEF HeapInv
  <2>2. ASSUME pc[q] \in {"book", "seal"}, Mark(mem, base[q] + ActualSize(request[q]))
        PROVE  Mark(mem', base[q] + ActualSize(request[q]))
    <3>1. PICK a : a = base[q] + ActualSize(request[q])
      OBVIOUS
    <3>2. request[q] \in Valid /\ Room(T, f, mem, base[q], ActualSize(request[q]))
      BY <2>1, <2>2 DEF At
    <3>3. a \in T \/ a >= f + 2
      BY <3>1, <3>2 DEF Room
    <3>4. a \in Heap
      <4>1. ActualSize(request[q]) \in Nat /\ ActualSize(request[q]) >= 4 /\ base[q] \in Nat
        BY <1>1, <3>2, Sizes DEF Typed
      <4> QED
        BY <1>3, <3>1, <3>2, <4>1, RoomFacts
    <3>5. mem'[a] = mem[a]
      BY <1>6, <1>8, <1>10, <3>3, <3>4, Heaps
    <3> QED
      BY <2>2, <3>1, <3>5 DEF Mark
  <2> QED
    BY <1>2, <1>8, <1>9, <2>1, <2>2 DEF At
<1>13. Typed'
  BY <1>1, <1>2, <1>4 DEF Typed
<1>14. BookInv'
  BY <1>1, <1>2, BookKept
<1> QED
  BY <1>2, <1>9, <1>11, <1>12, <1>13, <1>14 DEF IndInv, HeapInv

LEMMA Step ==
  ASSUME Calls, IInv, [Next]_vars
  PROVE  IInv'
<1>1. PICK T \in SUBSET Heap, f \in Heap : IndInv(T, f)
  BY DEF IInv
<1>2. SUFFICES ASSUME ~ (\E p \in Processes : Seal(p)) PROVE IndInv(T, f)'
  BY <1>1, SealKeeps DEF IInv
<1>3. CASE UNCHANGED vars
  BY <1>1, <1>3 DEF vars, locals, IndInv, Typed, BookInv, HeapInv, Tiles, Behind, Handed, At,
                    Mark, SpaceOf, Room, ClearFrom
<1>4. ASSUME NEW p \in Processes, NEW val \in Requests, OS_Malloc(p, val) PROVE IndInv(T, f)'
  BY <1>1, <1>4, MallocKeeps
<1>5. ASSUME NEW p \in Processes, NEW b \in blocks, b.val \in Freed, OS_Free(p, b)
      PROVE  IndInv(T, f)'
  BY <1>1, <1>5, FreeKeeps
<1>6. ASSUME NEW p \in Processes, Search(p) PROVE IndInv(T, f)'
  BY <1>1, <1>6, SearchKeeps
<1>7. ASSUME NEW p \in Processes, Split(p) PROVE IndInv(T, f)'
  BY <1>1, <1>7, SplitKeeps
<1>8. ASSUME NEW p \in Processes, Book(p) PROVE IndInv(T, f)'
  BY <1>1, <1>8, BookKeeps
<1>9. ASSUME NEW p \in Processes, FreeClear(p) PROVE IndInv(T, f)'
  BY <1>1, <1>9, FreeClearKeeps
<1>10. ASSUME NEW b \in blocks, NEW byte \in Data, Fill(b, byte) PROVE IndInv(T, f)'
  BY <1>1, <1>10, FillKeeps
<1> QED
  BY <1>2, <1>3, <1>4, <1>5, <1>6, <1>7, <1>8, <1>9, <1>10 DEF Next

\* The invariant, for calls that exclude each other.
THEOREM InvariantHolds ==
  ASSUME Calls
  PROVE  Spec => []IInv
<1>1. Init => IInv
  BY Initially
<1>2. IInv /\ [Next]_vars => IInv'
  BY Step
<1> QED
  BY <1>1, <1>2, PTL DEF Spec

-----------------------------------------------------------------------------
(* The theorems.                                                           *)

\* Blocks that were given out, and the room of one about to be, do not overlap.
LEMMA Apart ==
  ASSUME Calls, IInv
  PROVE  /\ \A b \in blocks : b.base + ActualSize(b.val) < Limit
         /\ \A b, c \in blocks :
              b = c \/ b.base + ActualSize(b.val) <= c.base \/ c.base + ActualSize(c.val) <= b.base
         /\ \A p \in Processes : pc[p] \in {"split", "book", "seal"} =>
              /\ request[p] \in Valid /\ base[p] \in Heap
              /\ base[p] + ActualSize(request[p]) < Limit
              /\ \A b \in blocks : \/ b.base + ActualSize(b.val) <= base[p]
                                   \/ base[p] + ActualSize(request[p]) <= b.base
<1>1. PICK T \in SUBSET Heap, f \in Heap : IndInv(T, f)
  BY DEF IInv
<1>2. /\ mem \in [Heap -> 0 .. 255] /\ Tiles(T, f, mem) /\ Handed(T, f, mem, blocks)
      /\ \A p \in Processes : At(p, T, f)
  BY <1>1 DEF IndInv, Typed, HeapInv
<1>3. /\ \A t \in T : t \in Nat /\ t <= f
      /\ \A t \in T \ {f} : t + SpaceOf(mem, t) <= f
      /\ \A t, u \in T : t < u => t # f /\ t + SpaceOf(mem, t) <= u
      /\ f < Limit /\ f \in Nat /\ Limit \in Int
  BY <1>2, TileFacts, Heaps DEF Tiles
<1>4. /\ \A b \in blocks : /\ b.base \in T \ {f} /\ mem[b.base] = MEMORY_IN_USE
                           /\ SpaceOf(mem, b.base) = ActualSize(b.val)
                           /\ ActualSize(b.val) \in Nat
      /\ \A b, c \in blocks : b.base = c.base => b = c
  BY <1>2, Sizes DEF Handed, Calls
<1>5. \A b \in blocks : b.base + ActualSize(b.val) < Limit
  <2> TAKE b \in blocks
  <2>1. b.base \in T \ {f} /\ b.base \in Nat /\ ActualSize(b.val) \in Nat
    BY <1>3, <1>4
  <2>2. b.base + ActualSize(b.val) <= f
    BY <1>3, <1>4, <2>1
  <2> QED
    BY <1>3, <2>1, <2>2
<1>6. \A b, c \in blocks :
        b = c \/ b.base + ActualSize(b.val) <= c.base \/ c.base + ActualSize(c.val) <= b.base
  <2> TAKE b, c \in blocks
  <2>1. /\ b.base \in T /\ b.base \in Nat /\ SpaceOf(mem, b.base) = ActualSize(b.val)
        /\ c.base \in T /\ c.base \in Nat /\ SpaceOf(mem, c.base) = ActualSize(c.val)
    BY <1>3, <1>4
  <2>2. b.base < c.base => b.base + SpaceOf(mem, b.base) <= c.base
    BY <1>3, <2>1
  <2>3. c.base < b.base => c.base + SpaceOf(mem, c.base) <= b.base
    BY <1>3, <2>1
  <2>4. b.base = c.base => b = c
    BY <1>4
  <2> QED
    BY <2>1, <2>2, <2>3, <2>4
<1>7. ASSUME NEW p \in Processes, pc[p] \in {"split", "book", "seal"}
      PROVE  /\ request[p] \in Valid /\ base[p] \in Heap
             /\ base[p] + ActualSize(request[p]) < Limit
             /\ \A b \in blocks : \/ b.base + ActualSize(b.val) <= base[p]
                                  \/ base[p] + ActualSize(request[p]) <= b.base
  <2>1. request[p] \in Valid /\ Room(T, f, mem, base[p], ActualSize(request[p]))
    BY <1>2, <1>7 DEF At
  <2>2. /\ base[p] \in T /\ base[p] + ActualSize(request[p]) < Limit
        /\ \A t \in T : base[p] <= t /\ t < base[p] + ActualSize(request[p]) => mem[t] = MEMORY_CLEAR
    BY <2>1 DEF Room, ClearFrom
  <2>3. ActualSize(request[p]) \in Nat /\ base[p] \in Nat
    BY <1>3, <2>1, <2>2, Sizes DEF Calls
  <2>4. ASSUME NEW b \in blocks
        PROVE  \/ b.base + ActualSize(b.val) <= base[p]
               \/ base[p] + ActualSize(request[p]) <= b.base
    <3>1. b.base \in T /\ b.base \in Nat /\ mem[b.base] # MEMORY_CLEAR
      <4>1. b.base \in T \ {f} /\ mem[b.base] = MEMORY_IN_USE
        BY <1>4
      <4>2. b.base \in T /\ b.base \in Nat
        BY <1>3, <4>1
      <4>3. MEMORY_IN_USE # MEMORY_CLEAR
        BY DEF MEMORY_IN_USE, MEMORY_CLEAR
      <4> QED
        BY <4>1, <4>2, <4>3
    <3>2. CASE b.base < base[p]
      BY <1>3, <1>4, <2>2, <3>1, <3>2
    <3>3. CASE base[p] <= b.base
      BY <2>2, <2>3, <3>1, <3>3
    <3> QED
      BY <2>3, <3>1, <3>2, <3>3
  <2> QED
    BY <2>1, <2>2, <2>4
<1> QED
  BY <1>5, <1>6, <1>7

\* Every variable keeps its type: no store of the allocator leaves the heap, whatever
\* the programs write to their blocks.
THEOREM TypeCorrect ==
  ASSUME Calls
  PROVE  Spec => []TypeOK
<1>1. IInv => TypeOK
  <2> SUFFICES ASSUME IInv PROVE TypeOK
    OBVIOUS
  <2>1. Typed
    BY DEF IInv, IndInv
  <2>2. ASSUME NEW p \in Processes, pc[p] = "split"
        PROVE  base[p] + ActualSize(request[p]) + 1 \in Heap
    <3>1. /\ request[p] \in Valid /\ base[p] \in Heap
          /\ base[p] + ActualSize(request[p]) < Limit
      BY <2>2, Apart
    <3>2. ActualSize(request[p]) \in Nat
      BY <3>1, Sizes DEF Calls
    <3> QED
      BY <3>1, <3>2, Heaps
  <2> QED
    BY <2>1, <2>2 DEF TypeOK, Typed
<1> QED
  BY <1>1, InvariantHolds, PTL

\* Blocks lie in the heap and do not overlap, the one about to be handed out included.
THEOREM BlocksDisjoint ==
  ASSUME Calls
  PROVE  Spec => []Disjoint
<1>1. IInv => Disjoint
  <2> SUFFICES ASSUME IInv PROVE Disjoint
    OBVIOUS
  <2> DEFINE claimed == {NewBlock(p) : p \in {q \in Processes : pc[q] = "seal"}}
  <2>1. Typed /\ Limit \in Int
    BY Heaps DEF IInv, IndInv
  <2>2. ASSUME NEW b \in blocks \union claimed
        PROVE  /\ b.base \in Nat /\ BASE_MEM_LOCATION <= b.base /\ ActualSize(b.val) \in Nat
               /\ b.base + ActualSize(b.val) < Limit
    <3>1. CASE b \in blocks
      <4>1. b.base \in Heap /\ b.val \in Valid
        BY <3>1, <2>1 DEF Typed, IInv, IndInv, HeapInv, Handed
      <4>2. ActualSize(b.val) \in Nat
        BY <4>1, Sizes DEF Calls
      <4> QED
        BY <3>1, <4>1, <4>2, Apart, Heaps
    <3>2. CASE b \in claimed
      <4>1. PICK p \in Processes : pc[p] = "seal" /\ b = NewBlock(p)
        BY <3>2
      <4>2. b.base = base[p] /\ b.val = request[p]
        BY <4>1 DEF NewBlock
      <4>3. /\ request[p] \in Valid /\ base[p] \in Heap
            /\ base[p] + ActualSize(request[p]) < Limit
        BY <4>1, Apart
      <4>4. ActualSize(request[p]) \in Nat
        BY <4>3, Sizes DEF Calls
      <4> QED
        BY <4>2, <4>3, <4>4, Heaps
    <3> QED
      BY <3>1, <3>2
  <2>3. ASSUME NEW b \in blocks, NEW c \in blocks \union claimed, b # c \/ c \in claimed
        PROVE  b.base + ActualSize(b.val) <= c.base \/ c.base + ActualSize(c.val) <= b.base
    <3>1. CASE c \in claimed
      <4>1. PICK p \in Processes : pc[p] = "seal" /\ c = NewBlock(p)
        BY <3>1
      <4>2. c.base = base[p] /\ c.val = request[p]
        BY <4>1 DEF NewBlock
      <4>3. \/ b.base + ActualSize(b.val) <= base[p]
            \/ base[p] + ActualSize(request[p]) <= b.base
        BY <4>1, Apart
      <4> QED
        BY <4>2, <4>3
    <3>2. CASE c \notin claimed
      BY <2>3, <3>2, Apart
    <3> QED
      BY <3>1, <3>2
  <2> HIDE DEF claimed
  <2>4. ASSUME NEW b \in blocks \union claimed PROVE Extent(b) \subseteq BASE_MEM_LOCATION .. Limit - 1
    BY <2>1, <2>2, Heaps DEF Extent
  <2>5. ASSUME NEW b \in blocks, NEW c \in blocks \union claimed, b # c \/ c \in claimed
        PROVE  Extent(b) \intersect Extent(c) = {}
    <3>1. b.base \in Nat /\ ActualSize(b.val) \in Nat /\ c.base \in Nat /\ ActualSize(c.val) \in Nat
      BY <2>2
    <3> QED
      BY <2>3, <2>5, <3>1 DEF Extent
  <2> QED
    BY <2>4, <2>5 DEF Disjoint, claimed
<1> QED
  BY <1>1, InvariantHolds, PTL

\* Between calls address_book lists exactly the blocks in use, each one once.
THEOREM AddressBookExact ==
  ASSUME Calls
  PROVE  Spec => []BookExact
<1>1. IInv => BookExact
  <2> SUFFICES ASSUME IInv, \A p \in Processes : pc[p] = "out"
               PROVE  /\ {address_book[i] : i \in Slots} \ {0} = {b.base : b \in blocks}
                      /\ \A b \in blocks : Cardinality(Listed(b.base)) = 1 /\ mem[b.base] = MEMORY_IN_USE
    BY DEF BookExact
  <2>1. Typed /\ BookInv /\ \A b \in blocks : mem[b.base] = MEMORY_IN_USE
    BY DEF IInv, IndInv, HeapInv, Handed
  <2>2. \A b \in blocks : b.base # 0
    BY <2>1, Heaps DEF Typed
  <2>3. {address_book[i] : i \in Slots} \ {0} = {b.base : b \in blocks}
    BY <2>1, <2>2 DEF BookInv
  <2>4. ASSUME NEW b \in blocks PROVE Cardinality(Listed(b.base)) = 1
    <3>1. PICK i \in Slots : address_book[i] = b.base
      BY <2>1 DEF BookInv
    <3>2. Listed(b.base) = {i}
      BY <2>1, <2>2, <3>1 DEF BookInv, Listed
    <3>3. Cardinality({i}) = 1
      BY FS_Singleton
    <3> QED
      BY <3>2, <3>3
  <2> QED
    BY <2>1, <2>3, <2>4
<1> QED
  BY <1>1, InvariantHolds, PTL

\* OS_Malloc never finds a byte that is no mark where it looks for one: the search does
\* not come to its "Memory corrupted".
SearchAtMark == \A p \in Processes : pc[p] = "search" => Marked(base[p])

THEOREM SearchFindsMarks ==
  ASSUME Calls
  PROVE  Spec => []SearchAtMark
<1>1. IInv => SearchAtMark
  <2> SUFFICES ASSUME IInv, NEW p \in Processes, pc[p] = "search" PROVE Marked(base[p])
    BY DEF SearchAtMark
  <2>1. PICK T \in SUBSET Heap, f \in Heap : IndInv(T, f)
    BY DEF IInv
  <2>2. base[p] \in T /\ Tiles(T, f, mem) /\ mem \in [Heap -> 0 .. 255]
    BY <2>1 DEF IndInv, HeapInv, At, Typed
  <2>3. Mark(mem, base[p])
    BY <2>2, TileFacts
  <2> QED
    BY <2>3 DEF Mark, Marked
<1> QED
  BY <1>1, InvariantHolds, PTL

\* The refinement: Seal allocates, OS_Free releases, every other step is a stutter.
LEMMA HeapStep ==
  ASSUME Calls, IInv, [Next]_vars
  PROVE  [Store!Next]_blocks
<1>1. CASE UNCHANGED vars
  BY <1>1 DEF vars
<1>2. ASSUME NEW p \in Processes, Seal(p) PROVE Store!Next
  <2> DEFINE b == NewBlock(p)
  <2>1. pc[p] = "seal" /\ blocks' = blocks \union {b}
    BY <1>2 DEF Seal
  <2>2. /\ request[p] \in Valid /\ base[p] \in Heap
        /\ base[p] + ActualSize(request[p]) < Limit
        /\ \A c \in blocks : \/ c.base + ActualSize(c.val) <= base[p]
                             \/ base[p] + ActualSize(request[p]) <= c.base
    BY <2>1, Apart
  <2>3. ActualSize(request[p]) \in Nat /\ request[p] \in Requests /\ request[p] \in Nat
        /\ request[p] + 1 < ActualSize(request[p])
    BY <2>2, Sizes, AllocatorAssumption DEF Calls, Valid
  <2>4. \A c \in blocks : /\ c.base \in Nat /\ c.val \in Nat /\ ActualSize(c.val) \in Nat
                          /\ c.val + 1 < ActualSize(c.val)
    <3> TAKE c \in blocks
    <3>1. c.base \in Heap /\ c.val \in Valid
      BY DEF IInv, IndInv, Typed, HeapInv, Handed
    <3> QED
      BY <3>1, Sizes, Heaps, AllocatorAssumption DEF Calls, Valid
  <2>5. b = [base |-> base[p], val |-> request[p]] /\ b.base = base[p] /\ b.val = request[p]
    BY DEF NewBlock
  <2> HIDE DEF b
  <2>6. Store!Bytes(b) \subseteq BASE_MEM_LOCATION .. Limit - 1
    BY <2>2, <2>3, <2>5, Heaps DEF Store!Bytes
  <2>7. \A c \in blocks : Store!Bytes(b) \intersect Store!Bytes(c) = {}
    BY <2>2, <2>3, <2>4, <2>5, Heaps DEF Store!Bytes
  <2>8. Store!Allocate(b)
    BY <2>1, <2>6, <2>7 DEF Store!Allocate
  <2>9. base[p] \in BASE_MEM_LOCATION .. Limit
    BY <2>2 DEF Heap
  <2> QED
    BY <2>3, <2>5, <2>8, <2>9 DEF Store!Next
<1>3. ASSUME NEW p \in Processes, NEW b \in blocks, OS_Free(p, b) PROVE Store!Next
  BY <1>3 DEF OS_Free, Store!Release, Store!Next
<1>4. ASSUME NEW p \in Processes, NEW val \in Requests, OS_Malloc(p, val) PROVE UNCHANGED blocks
  BY <1>4 DEF OS_Malloc
<1>5. ASSUME NEW p \in Processes, Search(p) \/ Split(p) \/ Book(p) \/ FreeClear(p)
      PROVE  UNCHANGED blocks
  BY <1>5 DEF Search, Split, Book, FreeClear
<1>6. ASSUME NEW b \in blocks, NEW byte \in Data, Fill(b, byte) PROVE UNCHANGED blocks
  BY <1>6 DEF Fill
<1> QED
  BY <1>1, <1>2, <1>3, <1>4, <1>5, <1>6 DEF Next

\* OS_Malloc and OS_Free implement the heap that kernel.h promises: a block is handed out
\* to one owner, all of it in the heap, and stays his until he gives it back.
THEOREM HeapImplemented ==
  ASSUME Calls
  PROVE  Spec => ImplementsHeap
<1>1. Init => IInv /\ Store!Init
  BY Initially DEF Init, Store!Init
<1>2. IInv /\ [Next]_vars => IInv' /\ [Store!Next]_blocks
  BY Step, HeapStep
<1> QED
  BY <1>1, <1>2, PTL DEF Spec, ImplementsHeap, Store!Spec
=============================================================================
