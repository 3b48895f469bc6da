-------------------------- MODULE SemaphoreProofs --------------------------
(***************************************************************************)
(* Theorems about Semaphore, for every number of processes, semaphores and *)
(* blocks of memory.                                                       *)
(***************************************************************************)
EXTENDS Semaphore, FiniteSetTheorems, NaturalSets

USE SemaphoreAssumption DEF Labels

Turns == 0 .. NumCells
Cell == Cells \union {NULL}

-----------------------------------------------------------------------------
(* The inductive invariant.                                                *)

\* of tells in which semaphore's list a cell is, or would be had the list not lost sight
\* of it; rank grows along a list.  A tail may point anywhere: it is not kept up to date
\* when the last element leaves.
Threads(of, rank) ==
  /\ \A c \in Cells : \A s, t \in of[c] : s = t
  /\ \A c \in Cells : of[c] # {} => c \in used
  /\ \A s \in Semaphores : head[s] # NULL => s \in of[head[s]]
  /\ \A c \in Cells : \A s \in of[c] :
       next[c] # NULL => s \in of[next[c]] /\ rank[c] < rank[next[c]]

Threaded ==
  \E of \in [Cells -> SUBSET Semaphores], rank \in [Cells -> Nat] : Threads(of, rank)

\* Outside the lists' calls a process has no element, and only a PERIODIC process that
\* waits has one.
NoElement ==
  \A p \in Processes :
    pc[p] = "out" \/ (pc[p] = "waiting" /\ p \notin PERIODICs) => element[p] = NULL

IInv == TypeOK /\ Threaded /\ NoElement /\ WaitersOwnElement

-----------------------------------------------------------------------------
(* The operators on lists.                                                 *)

LEMMA CellFacts == Cells \subseteq Nat /\ NULL \notin Cells /\ NULL \in Cell /\ Cells \subseteq Cell
  BY DEF Cells, NULL, Cell

LEMMA MallocFinds ==
  ASSUME used \subseteq Cells
  PROVE  Malloc \in Cell /\ (Malloc # NULL => Malloc \in Cells \ used)
<1>1. CASE used = Cells
  BY <1>1, CellFacts DEF Malloc
<1>2. CASE used # Cells
  <2>1. Cells \ used \in SUBSET Nat /\ Cells \ used # {}
    BY <1>2, CellFacts
  <2>2. Min(Cells \ used) \in Cells \ used
    BY <2>1, MinOfNaturals
  <2> QED
    BY <1>2, <2>2, CellFacts DEF Malloc
<1> QED
  BY <1>1, <1>2

LEMMA PutStores ==
  ASSUME NEW T, NEW field \in [Cells -> T], NEW c \in Cell, NEW v \in T
  PROVE  /\ Put(field, c, v) \in [Cells -> T]
         /\ \A d \in Cells : Put(field, c, v)[d] = IF d = c THEN v ELSE field[d]
<1>1. CASE c = NULL
  BY <1>1, CellFacts DEF Put
<1>2. CASE c # NULL
  BY <1>2 DEF Put, Cell
<1> QED
  BY <1>1, <1>2

\* The walk along a list: by induction on the number of turns there is a function that
\* makes them.
LEMMA WalkSteps ==
  ASSUME TypeOK, NEW s \in Semaphores
  PROVE  /\ Walk(s) \in [Turns -> Cell]
         /\ Walk(s)[0] = head[s]
         /\ \A k \in 0 .. NumCells - 1 :
              Walk(s)[k + 1] = IF Walk(s)[k] = NULL THEN NULL ELSE next[Walk(s)[k]]
<1> DEFINE then(c) == IF c = NULL THEN NULL ELSE next[c]
           Walks(f, n) == f[0] = head[s] /\ \A k \in 0 .. n - 1 : f[k + 1] = then(f[k])
           Reach == {n \in Nat : \E f \in [0 .. n -> Cell] : Walks(f, n)}
<1>1. head[s] \in Cell /\ \A c \in Cell : then(c) \in Cell
  BY DEF TypeOK, Cell
<1> HIDE DEF then
<1>2. 0 \in Reach
  <2> DEFINE g == [k \in 0 .. 0 |-> head[s]]
  <2>1. g \in [0 .. 0 -> Cell] /\ g[0] = head[s]
    BY <1>1
  <2>2. 0 .. 0 - 1 = {}
    OBVIOUS
  <2> HIDE DEF g
  <2> QED
    BY <2>1, <2>2
<1>3. ASSUME NEW n \in Reach PROVE n + 1 \in Reach
  <2>1. n \in Nat
    OBVIOUS
  <2>2. PICK f \in [0 .. n -> Cell] : Walks(f, n)
    OBVIOUS
  <2> DEFINE g == [k \in 0 .. n + 1 |-> IF k = n + 1 THEN then(f[n]) ELSE f[k]]
  <2>3. g \in [0 .. n + 1 -> Cell]
    BY <1>1, <2>1
  <2>4. g[0] = head[s]
    BY <2>1, <2>2
  <2>5. ASSUME NEW k \in 0 .. n PROVE g[k + 1] = then(g[k])
    <3>1. CASE k = n
      BY <2>1, <3>1
    <3>2. CASE k # n
      <4>1. k \in 0 .. n - 1 /\ k + 1 \in 0 .. n
        BY <2>1, <3>2
      <4> QED
        BY <2>1, <2>2, <4>1
    <3> QED
      BY <3>1, <3>2
  <2> HIDE DEF g
  <2>6. Walks(g, n + 1)
    <3>1. (n + 1) - 1 = n
      BY <2>1
    <3> QED
      BY <2>4, <2>5, <3>1
  <2>7. n + 1 \in Nat
    BY <2>1
  <2> QED
    BY <2>3, <2>6, <2>7
<1>4. NumCells \in Reach
  <2>1. Reach \in SUBSET Nat
    OBVIOUS
  <2> HIDE DEF Reach
  <2> QED
    BY <1>2, <1>3, <2>1, Induction
<1>5. PICK f \in [Turns -> Cell] : Walks(f, NumCells)
  BY <1>4 DEF Turns
<1> DEFINE step(g) == [k \in Turns |-> IF k = 0 THEN head[s]
                                       ELSE IF g[k - 1] = NULL THEN NULL ELSE next[g[k - 1]]]
<1>6. f = step(f)
  <2>1. ASSUME NEW k \in Turns PROVE f[k] = step(f)[k]
    <3>1. CASE k = 0
      BY <1>5, <3>1
    <3>2. CASE k # 0
      <4>1. k - 1 \in 0 .. NumCells - 1 /\ (k - 1) + 1 = k
        BY <3>2 DEF Turns
      <4>2. f[k] = then(f[k - 1])
        BY <1>5, <4>1
      <4> QED
        BY <3>2, <4>2 DEF then
    <3> QED
      BY <3>1, <3>2
  <2>2. step(f) = [k \in Turns |-> step(f)[k]]
    OBVIOUS
  <2>3. f = [k \in Turns |-> f[k]]
    BY <1>5
  <2> HIDE DEF step
  <2> QED
    BY <2>1, <2>2, <2>3
<1>7. Walk(s) = CHOOSE g : g = step(g)
  BY DEF Walk, Turns
<1>8. Walk(s) = step(Walk(s))
  <2> HIDE DEF step
  <2> QED
    BY <1>6, <1>7
<1> DEFINE w == Walk(s)
<1>9. \A k \in Turns : w[k] = IF k = 0 THEN head[s] ELSE then(w[k - 1])
  <2>1. ASSUME NEW k \in Turns PROVE step(w)[k] = IF k = 0 THEN head[s] ELSE then(w[k - 1])
    BY DEF then
  <2> HIDE DEF step
  <2> QED
    BY <1>8, <2>1
<1>10. w = [k \in Turns |-> w[k]]
  <2>1. step(w) = [k \in Turns |-> step(w)[k]]
    OBVIOUS
  <2> HIDE DEF step
  <2> QED
    BY <1>8, <2>1
<1> HIDE DEF w
<1>11. {k \in Turns : w[k] \in Cell} = Turns
  <2> DEFINE Good == {k \in Turns : w[k] \in Cell}
  <2>1. 0 \in Good
    BY <1>1, <1>9 DEF Turns
  <2>2. ASSUME NEW k \in 0 .. NumCells - 1, k \in Good PROVE k + 1 \in Good
    <3>1. k + 1 \in Turns /\ k + 1 # 0 /\ (k + 1) - 1 = k
      BY DEF Turns
    <3> QED
      BY <1>1, <1>9, <2>2, <3>1
  <2>3. Good \in SUBSET (0 .. NumCells)
    BY DEF Turns
  <2> HIDE DEF Good
  <2>4. Good = 0 .. NumCells
    BY <2>1, <2>2, <2>3, InductionUpTo
  <2> QED
    BY <2>4 DEF Good, Turns
<1>12. w \in [Turns -> Cell]
  BY <1>10, <1>11
<1>13. w[0] = head[s]
  BY <1>9 DEF Turns
<1>14. ASSUME NEW k \in 0 .. NumCells - 1 PROVE w[k + 1] = then(w[k])
  <2>1. k + 1 \in Turns /\ k + 1 # 0 /\ (k + 1) - 1 = k
    BY DEF Turns
  <2> QED
    BY <1>9, <2>1
<1> QED
  BY <1>12, <1>13, <1>14 DEF w, then

\* Along a walk the rank grows, and all cells are in the list of the semaphore.
LEMMA WalkThreads ==
  ASSUME TypeOK, NEW of \in [Cells -> SUBSET Semaphores], NEW rank \in [Cells -> Nat],
         Threads(of, rank), NEW s \in Semaphores
  PROVE  /\ \A k \in Turns : Walk(s)[k] # NULL => s \in of[Walk(s)[k]]
         /\ \A k \in Turns, i \in Turns : i < k /\ Walk(s)[k] # NULL =>
              Walk(s)[i] # NULL /\ rank[Walk(s)[i]] < rank[Walk(s)[k]]
<1> DEFINE w == Walk(s)
           Good == {k \in Turns : w[k] # NULL =>
                      /\ s \in of[w[k]]
                      /\ \A i \in 0 .. k - 1 : w[i] # NULL /\ rank[w[i]] < rank[w[k]]}
<1>1. /\ w \in [Turns -> Cell]
      /\ w[0] = head[s]
      /\ \A k \in 0 .. NumCells - 1 : w[k + 1] = IF w[k] = NULL THEN NULL ELSE next[w[k]]
  BY WalkSteps
<1> HIDE DEF w
<1>2. 0 \in Good
  BY <1>1 DEF Threads, Turns
<1>3. ASSUME NEW k \in 0 .. NumCells - 1, k \in Good PROVE k + 1 \in Good
  <2>1. k \in Turns /\ k + 1 \in Turns /\ (k + 1) - 1 = k
    BY DEF Turns
  <2>2. SUFFICES ASSUME w[k + 1] # NULL
                 PROVE  /\ s \in of[w[k + 1]]
                        /\ \A i \in 0 .. k : w[i] # NULL /\ rank[w[i]] < rank[w[k + 1]]
    BY <2>1
  <2>3. w[k] # NULL /\ w[k] \in Cells /\ w[k + 1] = next[w[k]] /\ w[k + 1] \in Cells
    BY <1>1, <2>1, <2>2 DEF Cell
  <2>4. s \in of[w[k]] /\ \A i \in 0 .. k - 1 : w[i] # NULL /\ rank[w[i]] < rank[w[k]]
    BY <1>3, <2>3
  <2>5. s \in of[w[k + 1]] /\ rank[w[k]] < rank[w[k + 1]]
    BY <2>2, <2>3, <2>4 DEF Threads
  <2>6. ASSUME NEW i \in 0 .. k PROVE w[i] # NULL /\ rank[w[i]] < rank[w[k + 1]]
    <3>1. CASE i = k
      BY <2>3, <2>5, <3>1
    <3>2. CASE i # k
      <4>1. i \in 0 .. k - 1 /\ i \in Turns
        BY <2>1, <3>2 DEF Turns
      <4>2. w[i] \in Cells
        BY <1>1, <2>4, <4>1 DEF Cell
      <4> QED
        BY <2>3, <2>4, <2>5, <4>1, <4>2
    <3> QED
      BY <3>1, <3>2
  <2> QED
    BY <2>5, <2>6
<1>4. Good \in SUBSET (0 .. NumCells)
  BY DEF Turns
<1>5. Good = 0 .. NumCells
  <2> HIDE DEF Good
  <2> QED
    BY <1>2, <1>3, <1>4, InductionUpTo
<1>6. ASSUME NEW k \in Turns, w[k] # NULL
      PROVE  s \in of[w[k]] /\ \A i \in 0 .. k - 1 : w[i] # NULL /\ rank[w[i]] < rank[w[k]]
  BY <1>5, <1>6 DEF Turns
<1>7. \A i \in Turns, k \in Turns : i < k => i \in 0 .. k - 1
  BY DEF Turns
<1> QED
  BY <1>6, <1>7 DEF w

\* After NumCells turns a walk has come to the end: it would have met more cells than
\* there are.
LEMMA WalkEnds ==
  ASSUME TypeOK, Threaded, NEW s \in Semaphores
  PROVE  Walk(s)[NumCells] = NULL
<1>1. PICK of \in [Cells -> SUBSET Semaphores], rank \in [Cells -> Nat] : Threads(of, rank)
  BY DEF Threaded
<1> DEFINE w == Walk(s)
<1>2. w \in [Turns -> Cell]
  BY WalkSteps
<1>3. \A k \in Turns, i \in Turns : i < k /\ w[k] # NULL => w[i] # NULL /\ rank[w[i]] < rank[w[k]]
  BY <1>1, WalkThreads
<1> HIDE DEF w
<1>4. SUFFICES ASSUME w[NumCells] # NULL PROVE FALSE
  BY DEF w
<1>5. \A k \in Turns : w[k] \in Cells
  <2>1. ASSUME NEW k \in Turns PROVE w[k] # NULL
    <3>1. NumCells \in Turns /\ (k < NumCells \/ k = NumCells)
      BY DEF Turns
    <3> QED
      BY <1>3, <1>4, <3>1
  <2> QED
    BY <1>2, <2>1 DEF Cell
<1>6. w \in [Turns -> Cells]
  BY <1>2, <1>5
<1>7. IsFiniteSet(Turns) /\ Cardinality(Turns) = NumCells + 1
  BY FS_Interval DEF Turns
<1>8. IsFiniteSet(Cells) /\ Cardinality(Cells) = NumCells
  BY FS_Interval DEF Cells
<1>9. PICK i \in Turns, k \in Turns : i # k /\ w[i] = w[k]
  <2>1. Cardinality(Cells) < Cardinality(Turns)
    BY <1>7, <1>8
  <2> QED
    BY <1>6, <1>7, <1>8, <2>1, FS_PigeonHole
<1>10. rank[w[i]] \in Nat /\ w[i] # NULL
  BY <1>5, CellFacts
<1>11. i < k \/ k < i
  BY <1>9 DEF Turns
<1> QED
  BY <1>3, <1>9, <1>10, <1>11

-----------------------------------------------------------------------------
(* OS_Wait puts an element in a list.                                      *)

LEMMA EnqueueKeeps ==
  ASSUME TypeOK, Threaded, NEW p \in Processes, NEW s \in Semaphores, Enqueue(p, s, Malloc)
  PROVE  /\ head' \in [Semaphores -> Cell] /\ tail' \in [Semaphores -> Cell]
         /\ next' \in [Cells -> Cell]
         /\ pid' \in [Cells -> Processes \union {NULL}] /\ valid' \in [Cells -> BOOLEAN]
         /\ used' \subseteq Cells
         /\ Threaded'
<1> DEFINE c == Malloc
           d == tail[s]
<1>1. /\ head \in [Semaphores -> Cell] /\ tail \in [Semaphores -> Cell]
      /\ next \in [Cells -> Cell] /\ used \subseteq Cells
      /\ pid \in [Cells -> Processes \union {NULL}] /\ valid \in [Cells -> BOOLEAN]
  BY DEF TypeOK, Cell
<1>2. c \in Cell /\ (c # NULL => c \in Cells /\ c \notin used)
  BY <1>1, MallocFinds
<1>3. /\ used' = used \union ({c} \ {NULL})
      /\ pid' = Put(pid, c, p) /\ valid' = Put(valid, c, TRUE)
      /\ next' = Put(Put(next, c, NULL), d, c)
      /\ head' = IF d = NULL THEN [head EXCEPT ![s] = c] ELSE head
      /\ tail' = [tail EXCEPT ![s] = c]
  BY DEF Enqueue, Linked
<1> HIDE DEF c
<1>4. d \in Cell
  BY <1>1
<1> HIDE DEF d
<1>5. /\ next' \in [Cells -> Cell]
      /\ \A e \in Cells : next'[e] = IF e = d THEN c ELSE IF e = c THEN NULL ELSE next[e]
  <2> DEFINE cleared == Put(next, c, NULL)
  <2> HIDE DEF cleared
  <2>1. /\ cleared \in [Cells -> Cell]
        /\ \A e \in Cells : cleared[e] = IF e = c THEN NULL ELSE next[e]
    <3>1. NULL \in Cell /\ next \in [Cells -> Cell] /\ c \in Cell
      BY <1>1, <1>2, CellFacts
    <3> QED
      BY <3>1, PutStores DEF cleared
  <2>2. /\ Put(cleared, d, c) \in [Cells -> Cell]
        /\ \A e \in Cells : Put(cleared, d, c)[e] = IF e = d THEN c ELSE cleared[e]
    BY <1>2, <1>4, <2>1, PutStores
  <2>3. next' = Put(cleared, d, c)
    BY <1>3 DEF cleared
  <2> QED
    BY <2>1, <2>2, <2>3
<1>6. pid' \in [Cells -> Processes \union {NULL}]
  BY <1>1, <1>2, <1>3, PutStores
<1>7. valid' \in [Cells -> BOOLEAN]
  BY <1>1, <1>2, <1>3, PutStores
<1>8. head' \in [Semaphores -> Cell] /\ tail' \in [Semaphores -> Cell] /\ used' \subseteq Cells
  BY <1>1, <1>2, <1>3
<1>9. Threaded'
  <2>1. PICK of \in [Cells -> SUBSET Semaphores], rank \in [Cells -> Nat] : Threads(of, rank)
    BY DEF Threaded
  <2>2. CASE c = NULL
    <3>1. used' = used /\ \A e \in Cells : next'[e] = next[e] \/ next'[e] = NULL
      BY <1>3, <1>5, <2>2
    <3>2. \A t \in Semaphores : head'[t] = head[t] \/ head'[t] = NULL
      BY <1>1, <1>3, <2>2
    <3>3. Threads(of, rank)'
      BY <2>1, <3>1, <3>2 DEF Threads
    <3> QED
      BY <3>3 DEF Threaded
  <2>3. CASE c # NULL
    <3>1. c \in Cells /\ of[c] = {} /\ (d # NULL => d \in Cells)
      BY <1>2, <1>4, <2>1, <2>3 DEF Threads, Cell
    <3>2. PICK ofNew \in [Cells -> SUBSET Semaphores] :
            \A e \in Cells : ofNew[e] = IF e # c THEN of[e] ELSE IF d = NULL THEN {s} ELSE of[d]
      <4> DEFINE f == [of EXCEPT ![c] = IF d = NULL THEN {s} ELSE of[d]]
      <4>1. /\ f \in [Cells -> SUBSET Semaphores]
            /\ \A e \in Cells : f[e] = IF e # c THEN of[e] ELSE IF d = NULL THEN {s} ELSE of[d]
        BY <3>1
      <4> HIDE DEF f
      <4> QED
        BY <4>1
    <3>3. PICK rankNew \in [Cells -> Nat] :
            \A e \in Cells : rankNew[e] = IF e # c THEN rank[e] ELSE IF d = NULL THEN 0 ELSE rank[d] + 1
      <4> DEFINE f == [rank EXCEPT ![c] = IF d = NULL THEN 0 ELSE rank[d] + 1]
      <4>1. /\ f \in [Cells -> Nat]
            /\ \A e \in Cells : f[e] = IF e # c THEN rank[e] ELSE IF d = NULL THEN 0 ELSE rank[d] + 1
        BY <3>1
      <4> HIDE DEF f
      <4> QED
        BY <4>1
    <3>4. \A e \in Cells : \A t, u \in ofNew[e] : t = u
      BY <2>1, <3>1, <3>2 DEF Threads
    <3>5. \A e \in Cells : ofNew[e] # {} => e \in used'
      BY <1>3, <2>1, <2>3, <3>2 DEF Threads
    <3>6. ASSUME NEW t \in Semaphores, head'[t] # NULL PROVE t \in ofNew[head'[t]]
      <4>1. CASE d = NULL /\ t = s
        BY <1>1, <1>3, <3>1, <3>2, <4>1
      <4>2. CASE ~(d = NULL /\ t = s)
        <5>1. head'[t] = head[t] /\ head[t] \in Cells /\ t \in of[head[t]]
          BY <1>1, <1>3, <2>1, <3>6, <4>2 DEF Threads, Cell
        <5> QED
          BY <3>1, <3>2, <5>1
      <4> QED
        BY <4>1, <4>2
    <3>7. ASSUME NEW e \in Cells, NEW t \in ofNew[e], next'[e] # NULL
          PROVE  t \in ofNew[next'[e]] /\ rankNew[e] < rankNew[next'[e]]
      <4>1. CASE e = d
        <5>1. next'[e] = c /\ d # NULL
          BY <1>5, <3>1, <4>1, CellFacts
        <5>2. e # c
          BY <3>1, <3>2, <4>1, <5>1
        <5> QED
          BY <3>1, <3>2, <3>3, <4>1, <5>1, <5>2
      <4>2. CASE e # d
        <5>1. e # c /\ next'[e] = next[e] /\ next[e] \in Cells /\ t \in of[e]
          BY <1>1, <1>5, <3>2, <3>7, <4>2 DEF Cell
        <5>2. t \in of[next[e]] /\ rank[e] < rank[next[e]]
          BY <2>1, <3>7, <5>1 DEF Threads
        <5> QED
          BY <3>1, <3>2, <3>3, <5>1, <5>2
      <4> QED
        BY <4>1, <4>2
    <3>8. Threads(ofNew, rankNew)'
      BY <3>4, <3>5, <3>6, <3>7 DEF Threads
    <3> QED
      BY <3>8 DEF Threaded
  <2> QED
    BY <2>2, <2>3
<1> QED
  BY <1>5, <1>6, <1>7, <1>8, <1>9

-----------------------------------------------------------------------------
(* OS_Signal takes elements out of a list.                                 *)

LEMMA CleanupKeeps ==
  ASSUME TypeOK, Threaded, NEW s \in Semaphores, cleanup_semaphore_buf(s)
  PROVE  /\ head' \in [Semaphores -> Cell] /\ tail' \in [Semaphores -> Cell]
         /\ next' \in [Cells -> Cell]
         /\ used' \subseteq Cells /\ \A c \in used : valid[c] => c \in used'
         /\ pid' = pid /\ valid' = valid
         /\ Threaded'
<1> DEFINE w == Walk(s)
           stay == {k \in Turns : w[k] \notin Stale(s)}
           from(k) == w[Min({i \in stay : k <= i})]
           place(c) == CHOOSE k \in stay : w[k] = c
           kept == Members(s) \ Stale(s)
<1>1. /\ head \in [Semaphores -> Cell] /\ tail \in [Semaphores -> Cell]
      /\ next \in [Cells -> Cell] /\ used \subseteq Cells
  BY DEF TypeOK, Cell
<1>2. /\ head' = [head EXCEPT ![s] = from(0)]
      /\ tail' = IF from(0) = NULL THEN [tail EXCEPT ![s] = NULL] ELSE tail
      /\ next' = [c \in Cells |-> IF c \in kept THEN from(place(c) + 1) ELSE next[c]]
      /\ used' = used \ Stale(s)
      /\ pid' = pid /\ valid' = valid
  BY DEF cleanup_semaphore_buf, Turns
<1>3. w \in [Turns -> Cell] /\ w[NumCells] = NULL
  BY WalkSteps, WalkEnds
<1>4. Members(s) = {w[k] : k \in Turns} \ {NULL} /\ Stale(s) = {c \in Members(s) : ~valid[c]}
  BY DEF Members, Stale, Turns
<1> HIDE DEF w
<1>5. Members(s) \subseteq Cells /\ Stale(s) \subseteq Members(s)
  BY <1>3, <1>4 DEF Cell
<1>6. ASSUME NEW k \in Turns
      PROVE  \E j \in Turns : k <= j /\ from(k) = w[j] /\ w[j] \in kept \union {NULL}
  <2> DEFINE rest == {i \in stay : k <= i}
  <2>1. NumCells \in rest
    <3>1. NULL \notin Stale(s)
      BY <1>4
    <3> QED
      BY <1>3, <3>1 DEF Turns
  <2>2. rest \in SUBSET Nat
    BY DEF Turns
  <2>3. Min(rest) \in rest
    <3> HIDE DEF rest
    <3> QED
      BY <2>1, <2>2, MinOfNaturals
  <2>4. PICK j \in Turns : j = Min(rest) /\ k <= j /\ w[j] \notin Stale(s)
    <3>1. ASSUME NEW j \in rest PROVE j \in Turns /\ k <= j /\ w[j] \notin Stale(s)
      OBVIOUS
    <3> HIDE DEF rest
    <3> QED
      BY <2>3, <3>1
  <2>5. w[j] \in kept \union {NULL}
    BY <1>4, <2>4
  <2> QED
    BY <2>4, <2>5
<1>7. ASSUME NEW c \in kept
      PROVE  \E i \in Turns : w[i] = c /\ i # NumCells /\ place(c) = i
  <2>1. PICK k \in Turns : w[k] = c /\ c # NULL
    BY <1>4
  <2>2. k \in stay
    BY <2>1
  <2>3. place(c) \in stay /\ w[place(c)] = c
    BY <2>1, <2>2
  <2> QED
    BY <1>3, <2>1, <2>3
<1> HIDE DEF from, place, stay
<1>8. \A k \in Turns : from(k) \in kept \union {NULL}
  BY <1>6
<1>9. kept \subseteq Cells /\ kept \union {NULL} \subseteq Cell /\ 0 \in Turns
  BY <1>5 DEF Cell, Turns
<1>10. head' \in [Semaphores -> Cell] /\ tail' \in [Semaphores -> Cell] /\ used' \subseteq Cells
  BY <1>1, <1>2, <1>8, <1>9, CellFacts
<1>11. ASSUME NEW c \in kept
       PROVE  \E i \in Turns, j \in Turns :
                i < j /\ w[i] = c /\ next'[c] = w[j] /\ w[j] \in kept \union {NULL}
  <2>1. PICK i \in Turns : w[i] = c /\ i # NumCells /\ place(c) = i
    BY <1>7
  <2>2. i + 1 \in Turns
    BY <2>1 DEF Turns
  <2>3. PICK j \in Turns : i + 1 <= j /\ from(i + 1) = w[j] /\ w[j] \in kept \union {NULL}
    BY <1>6, <2>2
  <2>4. c \in Cells /\ next'[c] = from(i + 1)
    BY <1>2, <1>9, <2>1
  <2>5. i < j
    BY <2>3 DEF Turns
  <2> QED
    BY <2>1, <2>3, <2>4, <2>5
<1>12. next' \in [Cells -> Cell]
  <2>1. ASSUME NEW c \in kept PROVE next'[c] \in Cell
    BY <1>9, <1>11
  <2>2. ASSUME NEW c \in Cells PROVE next'[c] \in Cell
    <3>1. CASE c \in kept
      BY <2>1, <3>1
    <3>2. CASE c \notin kept
      BY <1>1, <1>2, <3>2
    <3> QED
      BY <3>1, <3>2
  <2> QED
    BY <1>2, <2>2
<1>13. \A c \in used : valid[c] => c \in used'
  BY <1>2, <1>4
<1>14. Threaded'
  <2>1. PICK of \in [Cells -> SUBSET Semaphores], rank \in [Cells -> Nat] : Threads(of, rank)
    BY DEF Threaded
  <2>2. /\ \A k \in Turns : w[k] # NULL => s \in of[w[k]]
        /\ \A k \in Turns, i \in Turns : i < k /\ w[k] # NULL =>
             w[i] # NULL /\ rank[w[i]] < rank[w[k]]
    BY <2>1, WalkThreads DEF w
  <2>3. PICK ofNew \in [Cells -> SUBSET Semaphores] :
          \A c \in Cells : ofNew[c] = IF c \in kept THEN {s} ELSE of[c] \ {s}
    <3> DEFINE f == [c \in Cells |-> IF c \in kept THEN {s} ELSE of[c] \ {s}]
    <3>1. /\ f \in [Cells -> SUBSET Semaphores]
          /\ \A c \in Cells : f[c] = IF c \in kept THEN {s} ELSE of[c] \ {s}
      OBVIOUS
    <3> HIDE DEF f
    <3> QED
      BY <3>1
  <2>4. \A c \in Members(s) : of[c] = {s}
    <3>1. ASSUME NEW c \in Members(s) PROVE s \in of[c]
      BY <1>4, <2>2
    <3> QED
      BY <1>5, <2>1, <3>1 DEF Threads
  <2> HIDE DEF kept
  <2>5. \A c \in Cells : \A t, u \in ofNew[c] : t = u
    BY <2>1, <2>3 DEF Threads
  <2>6. ASSUME NEW c \in Cells, ofNew[c] # {} PROVE c \in used'
    <3>1. of[c] # {}
      BY <2>3, <2>4, <2>6 DEF kept
    <3>2. c \notin Stale(s)
      BY <1>4, <1>5, <2>3, <2>4, <2>6 DEF kept
    <3> QED
      BY <1>2, <2>1, <3>1, <3>2 DEF Threads
  <2>7. ASSUME NEW t \in Semaphores, head'[t] # NULL PROVE t \in ofNew[head'[t]]
    <3>1. CASE t = s
      <4>1. head'[t] \in kept
        BY <1>1, <1>2, <1>8, <1>9, <2>7, <3>1
      <4> QED
        BY <1>9, <2>3, <3>1, <4>1
    <3>2. CASE t # s
      <4>1. head'[t] = head[t] /\ head[t] \in Cells
        BY <1>1, <1>2, <2>7, <3>2 DEF Cell
      <4>2. t \in of[head[t]] /\ head[t] \notin kept
        BY <2>1, <2>4, <2>7, <3>2, <4>1 DEF Threads, kept
      <4> QED
        BY <2>3, <3>2, <4>1, <4>2
    <3> QED
      BY <3>1, <3>2
  <2>8. ASSUME NEW c \in Cells, NEW t \in ofNew[c], next'[c] # NULL
        PROVE  t \in ofNew[next'[c]] /\ rank[c] < rank[next'[c]]
    <3>1. CASE c \in kept
      <4>1. PICK i \in Turns, j \in Turns :
              i < j /\ w[i] = c /\ next'[c] = w[j] /\ w[j] \in kept \union {NULL}
        BY <1>11, <3>1 DEF kept
      <4>2. w[j] \in kept /\ w[j] # NULL
        BY <2>8, <4>1
      <4>3. t = s /\ w[j] \in Cells
        BY <1>9, <2>3, <3>1, <4>2
      <4> QED
        BY <2>2, <2>3, <4>1, <4>2, <4>3
    <3>2. CASE c \notin kept
      <4>1. next'[c] = next[c] /\ next[c] \in Cells /\ t \in of[c] /\ t # s
        BY <1>1, <1>2, <2>3, <2>8, <3>2 DEF Cell
      <4>2. t \in of[next[c]] /\ rank[c] < rank[next[c]]
        BY <2>1, <2>8, <4>1 DEF Threads
      <4>3. next[c] \notin kept
        BY <2>4, <4>1, <4>2 DEF kept
      <4> QED
        BY <2>3, <4>1, <4>2, <4>3
    <3> QED
      BY <3>1, <3>2
  <2>9. Threads(ofNew, rank)'
    BY <2>5, <2>6, <2>7, <2>8 DEF Threads
  <2> QED
    BY <2>9 DEF Threaded
<1> QED
  BY <1>2, <1>10, <1>12, <1>13, <1>14

-----------------------------------------------------------------------------
(* Every step keeps the inductive invariant.                               *)

LEMMA InvInit == Init => IInv
<1> SUFFICES ASSUME Init PROVE IInv
  OBVIOUS
<1>1. TypeOK
  BY CellFacts DEF Init, TypeOK
<1>2. Threaded
  <2>1. Threads([c \in Cells |-> {}], [c \in Cells |-> 0])
    BY DEF Init, Threads
  <2>2. [c \in Cells |-> {}] \in [Cells -> SUBSET Semaphores]
    OBVIOUS
  <2>3. [c \in Cells |-> 0] \in [Cells -> Nat]
    OBVIOUS
  <2> QED
    BY <2>1, <2>2, <2>3 DEF Threaded
<1>3. NoElement
  BY DEF Init, NoElement
<1>4. WaitersOwnElement
  BY DEF Init, WaitersOwnElement
<1> QED
  BY <1>1, <1>2, <1>3, <1>4 DEF IInv

LEMMA ThreadedFrame ==
  ASSUME Threaded, UNCHANGED <<head, next, used>>
  PROVE  Threaded'
<1>1. PICK of \in [Cells -> SUBSET Semaphores], rank \in [Cells -> Nat] : Threads(of, rank)
  BY DEF Threaded
<1>2. Threads(of, rank)'
  BY <1>1 DEF Threads
<1> QED
  BY <1>2 DEF Threaded

LEMMA InitSemKeeps ==
  ASSUME IInv, NEW p \in Processes, NEW s \in Semaphores, OS_InitSem(p, s)
  PROVE  IInv'
<1> USE DEF IInv, OS_InitSem, Running, goto, list
<1>1. TypeOK'
  BY DEF TypeOK
<1>2. Threaded'
  BY ThreadedFrame
<1>3. NoElement'
  BY DEF NoElement, TypeOK
<1>4. WaitersOwnElement'
  BY DEF WaitersOwnElement, TypeOK
<1> QED
  BY <1>1, <1>2, <1>3, <1>4

LEMMA InitTailKeeps ==
  ASSUME IInv, NEW p \in Processes, InitTail(p)
  PROVE  IInv'
<1> USE DEF IInv, InitTail, Running, goto
<1>1. TypeOK'
  BY DEF TypeOK
<1>2. Threaded'
  BY ThreadedFrame
<1>3. NoElement'
  BY DEF NoElement, TypeOK
<1>4. WaitersOwnElement'
  BY DEF WaitersOwnElement, TypeOK
<1> QED
  BY <1>1, <1>2, <1>3, <1>4

\* The elements of the list that is dropped stay what they are.
LEMMA InitHeadKeeps ==
  ASSUME IInv, NEW p \in Processes, InitHead(p)
  PROVE  IInv'
<1>1. /\ head' = [head EXCEPT ![sem[p]] = NULL]
      /\ pc' = [pc EXCEPT ![p] = "out"] /\ element' = [element EXCEPT ![p] = NULL]
      /\ sem' = [sem EXCEPT ![p] = CHOOSE s \in Semaphores : TRUE]
      /\ UNCHANGED <<count, tail, next, pid, valid, used, owned, granted, struck, halted>>
  BY DEF InitHead, return, goto
<1>2. TypeOK'
  BY <1>1 DEF IInv, TypeOK
<1>3. Threaded'
  <2>1. PICK of \in [Cells -> SUBSET Semaphores], rank \in [Cells -> Nat] : Threads(of, rank)
    BY DEF IInv, Threaded
  <2>2. \A t \in Semaphores : head'[t] # NULL => head'[t] = head[t]
    BY <1>1 DEF IInv, TypeOK
  <2>3. Threads(of, rank)'
    BY <1>1, <2>1, <2>2 DEF Threads
  <2> QED
    BY <2>3 DEF Threaded
<1>4. NoElement'
  BY <1>1 DEF IInv, NoElement, TypeOK
<1>5. WaitersOwnElement'
  BY <1>1 DEF IInv, WaitersOwnElement, TypeOK
<1> QED
  BY <1>2, <1>3, <1>4, <1>5 DEF IInv

LEMMA WaitAbortsKeeps ==
  ASSUME IInv, NEW p \in Processes, WaitAborts(p), UNCHANGED <<owned, granted, struck>>
  PROVE  IInv'
<1> USE DEF IInv, WaitAborts, list
<1>1. TypeOK'
  BY DEF TypeOK
<1>2. Threaded'
  BY ThreadedFrame
<1>3. NoElement'
  BY DEF NoElement
<1>4. WaitersOwnElement'
  BY DEF WaitersOwnElement
<1> QED
  BY <1>1, <1>2, <1>3, <1>4

LEMMA WaitInLineKeeps ==
  ASSUME IInv, NEW p \in Processes, NEW s \in Semaphores, WaitInLine(p, s),
         UNCHANGED <<owned, granted, struck>>
  PROVE  IInv'
<1>1. /\ head' \in [Semaphores -> Cell] /\ tail' \in [Semaphores -> Cell]
      /\ next' \in [Cells -> Cell]
      /\ pid' \in [Cells -> Processes \union {NULL}] /\ valid' \in [Cells -> BOOLEAN]
      /\ used' \subseteq Cells
      /\ Threaded'
  BY EnqueueKeeps DEF IInv, WaitInLine
<1>2. Malloc \in Cell /\ (Malloc # NULL => Malloc \in Cells \ used)
  BY MallocFinds DEF IInv, TypeOK
<1>3. /\ count' = count /\ owned' = owned /\ granted' = granted /\ struck' = struck
      /\ halted' = halted
      /\ pc' = [pc EXCEPT ![p] = "waiting"] /\ sem' = [sem EXCEPT ![p] = s]
      /\ element' = [element EXCEPT ![p] = Malloc] /\ p \in PERIODICs
  BY DEF WaitInLine, goto
<1>4. TypeOK'
  BY <1>1, <1>2, <1>3 DEF IInv, TypeOK, Cell
<1>5. NoElement'
  BY <1>3 DEF IInv, NoElement, TypeOK
<1>6. WaitersOwnElement'
  <2>1. /\ used' = used \union ({Malloc} \ {NULL})
        /\ pid' = Put(pid, Malloc, p) /\ valid' = Put(valid, Malloc, TRUE)
    BY DEF WaitInLine, Enqueue
  <2>2. \A c \in Cells : pid'[c] = IF c = Malloc THEN p ELSE pid[c]
    <3>1. /\ pid \in [Cells -> Processes \union {NULL}] /\ Malloc \in Cell
          /\ p \in Processes \union {NULL}
      BY <1>2 DEF IInv, TypeOK
    <3>2. \A c \in Cells : Put(pid, Malloc, p)[c] = IF c = Malloc THEN p ELSE pid[c]
      BY <3>1, CellFacts DEF Put, Cell
    <3> QED
      BY <2>1, <3>2
  <2>3. \A c \in Cells : valid'[c] = IF c = Malloc THEN TRUE ELSE valid[c]
    <3>1. valid \in [Cells -> BOOLEAN] /\ Malloc \in Cell /\ TRUE \in BOOLEAN
      BY <1>2 DEF IInv, TypeOK
    <3>2. \A c \in Cells : Put(valid, Malloc, TRUE)[c] = IF c = Malloc THEN TRUE ELSE valid[c]
      BY <3>1, CellFacts DEF Put, Cell
    <3> QED
      BY <2>1, <3>2
  <2>4. SUFFICES ASSUME ~struck, NEW q \in PERIODICs, pc'[q] = "waiting", element'[q] # NULL
                 PROVE  /\ element'[q] \in used' /\ pid'[element'[q]] = q
                        /\ valid'[element'[q]]
    BY <1>3 DEF WaitersOwnElement
  <2>5. CASE q = p
    <3>1. element'[q] = Malloc /\ Malloc # NULL
      BY <1>3, <2>4, <2>5 DEF IInv, TypeOK
    <3> QED
      BY <1>2, <2>1, <2>2, <2>3, <2>5, <3>1
  <2>6. CASE q # p
    <3>1. /\ element'[q] = element[q] /\ pc[q] = "waiting"
      BY <1>3, <2>4, <2>6 DEF IInv, TypeOK
    <3>2. element[q] \in used /\ pid[element[q]] = q /\ valid[element[q]]
      BY <2>4, <3>1 DEF IInv, WaitersOwnElement
    <3>3. element[q] \in Cells /\ element[q] # Malloc
      BY <1>2, <2>4, <3>1, <3>2 DEF IInv, TypeOK
    <3> QED
      BY <2>1, <2>2, <2>3, <3>1, <3>2, <3>3, ZenonT(40)
  <2> QED
    BY <2>5, <2>6
<1> QED
  BY <1>1, <1>4, <1>5, <1>6 DEF IInv

LEMMA WaitForTurnKeeps ==
  ASSUME IInv, NEW p \in Processes, NEW s \in Semaphores, WaitForTurn(p, s),
         pc[p] = "out", UNCHANGED <<owned, granted, struck>>
  PROVE  IInv'
<1> USE DEF IInv, WaitForTurn, goto, list
<1>1. TypeOK'
  BY DEF TypeOK
<1>2. Threaded'
  BY ThreadedFrame
<1>3. NoElement'
  BY DEF NoElement, TypeOK
<1>4. WaitersOwnElement'
  BY DEF WaitersOwnElement, NoElement, TypeOK
<1> QED
  BY <1>1, <1>2, <1>3, <1>4

LEMMA TakeKeeps ==
  ASSUME IInv, NEW p \in Processes, NEW s \in Semaphores, count[s] > 0, Take(p, s),
         sem' = [sem EXCEPT ![p] = s],
         UNCHANGED <<list, element, halted, owned, granted, struck>>
  PROVE  IInv'
<1> USE DEF IInv, Take, goto, list
<1>1. TypeOK'
  <2>1. count' \in [Semaphores -> Nat]
    BY DEF TypeOK
  <2> QED
    BY <2>1 DEF TypeOK
<1>2. Threaded'
  BY ThreadedFrame
<1>3. NoElement'
  BY DEF NoElement, TypeOK
<1>4. WaitersOwnElement'
  BY DEF WaitersOwnElement, TypeOK
<1> QED
  BY <1>1, <1>2, <1>3, <1>4

LEMMA WaitAgainKeeps ==
  ASSUME IInv, NEW p \in Processes, WaitAgain(p)
  PROVE  IInv'
<1>1. /\ pc[p] = "waiting" /\ pc' = [pc EXCEPT ![p] = "register"]
      /\ count[sem[p]] > 0 /\ count' = [count EXCEPT ![sem[p]] = @ - 1]
      /\ valid' = Put(valid, element[p], FALSE)
      /\ UNCHANGED <<head, tail, next, pid, used, owned, sem, element, granted, struck, halted>>
  BY DEF WaitAgain, Running, Available, Take, goto
<1>2. /\ valid' \in [Cells -> BOOLEAN]
      /\ \A c \in Cells : valid'[c] = IF c = element[p] THEN FALSE ELSE valid[c]
  <2>1. valid \in [Cells -> BOOLEAN] /\ element[p] \in Cell /\ FALSE \in BOOLEAN
    BY DEF IInv, TypeOK, Cell
  <2>2. /\ Put(valid, element[p], FALSE) \in [Cells -> BOOLEAN]
        /\ \A c \in Cells : Put(valid, element[p], FALSE)[c]
                             = IF c = element[p] THEN FALSE ELSE valid[c]
    BY <2>1, CellFacts DEF Put, Cell
  <2> QED
    BY <1>1, <2>2
<1>3. TypeOK'
  <2>1. count' \in [Semaphores -> Nat]
    BY <1>1 DEF IInv, TypeOK
  <2> QED
    BY <1>1, <1>2, <2>1 DEF IInv, TypeOK
<1>4. Threaded'
  BY <1>1, ThreadedFrame DEF IInv
<1>5. NoElement'
  BY <1>1 DEF IInv, NoElement, TypeOK
<1>6. WaitersOwnElement'
  <2>1. SUFFICES ASSUME ~struck, NEW q \in PERIODICs, pc'[q] = "waiting", element'[q] # NULL
                 PROVE  /\ element'[q] \in used' /\ pid'[element'[q]] = q
                        /\ valid'[element'[q]]
    BY <1>1 DEF WaitersOwnElement
  <2>2. q # p /\ pc[q] = "waiting" /\ element[q] # NULL
    BY <1>1, <2>1 DEF IInv, TypeOK
  <2>3. element[q] \in used /\ pid[element[q]] = q /\ valid[element[q]]
    BY <2>1, <2>2 DEF IInv, WaitersOwnElement
  <2>4. element[q] # element[p]
    <3>1. CASE p \in PERIODICs /\ element[p] # NULL
      BY <1>1, <2>1, <2>2, <2>3, <3>1 DEF IInv, WaitersOwnElement
    <3>2. CASE ~(p \in PERIODICs /\ element[p] # NULL)
      BY <1>1, <2>2, <3>2 DEF IInv, NoElement
    <3> QED
      BY <3>1, <3>2
  <2> QED
    BY <1>1, <1>2, <2>2, <2>3, <2>4 DEF IInv, TypeOK
<1> QED
  BY <1>3, <1>4, <1>5, <1>6 DEF IInv

\* A call that returns: its locals keep their types, and it has no element.
LEMMA ReturnKeeps ==
  ASSUME IInv, NEW p \in Processes, return(p)
  PROVE  /\ pc' \in [Processes -> Labels]
         /\ sem' \in [Processes -> Semaphores]
         /\ element' \in [Processes -> Cells \union {NULL}]
         /\ NoElement'
         /\ \A q \in Processes : pc'[q] = "waiting" => pc[q] = "waiting" /\ element'[q] = element[q]
<1>1. /\ pc' = [pc EXCEPT ![p] = "out"]
      /\ sem' = [sem EXCEPT ![p] = CHOOSE s \in Semaphores : TRUE]
      /\ element' = [element EXCEPT ![p] = NULL]
  BY DEF return, goto
<1>2. (CHOOSE s \in Semaphores : TRUE) \in Semaphores
  OBVIOUS
<1>3. sem' \in [Processes -> Semaphores]
  BY <1>1, <1>2 DEF IInv, TypeOK
<1>4. NoElement'
  BY <1>1 DEF IInv, NoElement, TypeOK
<1> QED
  BY <1>1, <1>3, <1>4 DEF IInv, TypeOK

LEMMA WaitRegisterKeeps ==
  ASSUME IInv, NEW p \in Processes, WaitRegister(p)
  PROVE  IInv'
<1>1. /\ owned' = [owned EXCEPT ![p] = @ \union {sem[p]}] /\ return(p)
      /\ UNCHANGED <<count, head, tail, next, pid, valid, used, granted, struck, halted>>
  BY DEF WaitRegister, list
<1>2. TypeOK'
  <2>1. owned' \in [Processes -> SUBSET Semaphores]
    BY <1>1 DEF IInv, TypeOK
  <2> QED
    BY <1>1, <2>1, ReturnKeeps DEF IInv, TypeOK
<1>3. Threaded' /\ NoElement'
  BY <1>1, ThreadedFrame, ReturnKeeps DEF IInv
<1>4. WaitersOwnElement'
  BY <1>1, ReturnKeeps DEF IInv, WaitersOwnElement
<1> QED
  BY <1>2, <1>3, <1>4 DEF IInv

LEMMA SignalKeeps ==
  ASSUME IInv, NEW p \in Processes, NEW s \in Semaphores, OS_Signal(p, s)
  PROVE  IInv'
<1> USE DEF IInv, OS_Signal, Running, unregister_bit, goto, list
<1>1. TypeOK'
  BY DEF TypeOK
<1>2. Threaded'
  BY ThreadedFrame
<1>3. NoElement'
  BY DEF NoElement, TypeOK
<1>4. WaitersOwnElement'
  BY DEF WaitersOwnElement, TypeOK
<1> QED
  BY <1>1, <1>2, <1>3, <1>4

LEMMA SignalReleaseKeeps ==
  ASSUME IInv, NEW p \in Processes, SignalRelease(p)
  PROVE  IInv'
<1>1. /\ pc[p] = "signal" /\ count' = [count EXCEPT ![sem[p]] = @ + 1]
      /\ cleanup_semaphore_buf(sem[p])
      /\ UNCHANGED <<owned, granted, struck, halted>>
  BY DEF SignalRelease, Running
<1>2. sem[p] \in Semaphores
  BY DEF IInv, TypeOK
<1>3. /\ head' \in [Semaphores -> Cell] /\ tail' \in [Semaphores -> Cell]
      /\ next' \in [Cells -> Cell]
      /\ used' \subseteq Cells /\ \A c \in used : valid[c] => c \in used'
      /\ pid' = pid /\ valid' = valid
      /\ Threaded'
  BY <1>1, <1>2, CleanupKeeps DEF IInv
<1>4. /\ pc' \in [Processes -> Labels]
      /\ sem' \in [Processes -> Semaphores]
      /\ element' \in [Processes -> Cells \union {NULL}]
      /\ NoElement'
      /\ \A q \in Processes : pc'[q] = "waiting" => pc[q] = "waiting" /\ element'[q] = element[q]
  <2>1. CASE p \in DEVICEs \union PERIODICs
    BY <2>1, ReturnKeeps DEF SignalRelease
  <2>2. CASE p \notin DEVICEs \union PERIODICs
    <3>1. pc' = [pc EXCEPT ![p] = "find"] /\ UNCHANGED <<sem, element>>
      BY <2>2 DEF SignalRelease, goto
    <3> QED
      BY <3>1 DEF IInv, TypeOK, NoElement
  <2> QED
    BY <2>1, <2>2
<1>5. count' \in [Semaphores -> Nat]
  BY <1>1 DEF IInv, TypeOK
<1>6. TypeOK'
  BY <1>1, <1>3, <1>4, <1>5 DEF IInv, TypeOK, Cell
<1>7. WaitersOwnElement'
  BY <1>1, <1>3, <1>4 DEF IInv, WaitersOwnElement
<1> QED
  BY <1>3, <1>4, <1>6, <1>7 DEF IInv

LEMMA SignalFindKeeps ==
  ASSUME IInv, NEW p \in Processes, SignalFind(p)
  PROVE  IInv'
<1> USE DEF IInv, SignalFind, Running, goto, list
<1>1. TypeOK'
  BY DEF TypeOK
<1>2. Threaded'
  BY ThreadedFrame
<1>3. NoElement'
  BY DEF NoElement, TypeOK
<1>4. WaitersOwnElement'
  BY DEF WaitersOwnElement, TypeOK
<1> QED
  BY <1>1, <1>2, <1>3, <1>4

LEMMA SignalLookKeeps ==
  ASSUME IInv, NEW p \in Processes, SignalLook(p)
  PROVE  IInv'
<1> DEFINE c == element[p]
<1>1. /\ pc[p] = "look"
      /\ UNCHANGED <<count, head, tail, next, pid, used, owned, granted, halted>>
  BY DEF SignalLook, Running
<1>2. Threaded'
  BY <1>1, ThreadedFrame DEF IInv
<1>3. \/ c = NULL /\ return(p) /\ UNCHANGED <<valid, struck>>
      \/ /\ c # NULL /\ return(p)
         /\ valid' = [valid EXCEPT ![c] = FALSE] /\ struck' = (struck \/ valid[c])
      \/ /\ c # NULL /\ element' = [element EXCEPT ![p] = next[c]]
         /\ UNCHANGED <<valid, struck, pc, sem>>
  BY DEF SignalLook
<1>4. c \in Cells \union {NULL}
  BY DEF IInv, TypeOK
<1>5. /\ pc' \in [Processes -> Labels]
      /\ sem' \in [Processes -> Semaphores]
      /\ element' \in [Processes -> Cells \union {NULL}]
      /\ NoElement'
      /\ \A q \in Processes : pc'[q] = "waiting" => pc[q] = "waiting" /\ element'[q] = element[q]
  <2>1. CASE return(p)
    BY <2>1, ReturnKeeps
  <2>2. CASE /\ c # NULL /\ element' = [element EXCEPT ![p] = next[c]]
             /\ UNCHANGED <<valid, struck, pc, sem>>
    <3>1. next[c] \in Cells \union {NULL}
      BY <1>4, <2>2 DEF IInv, TypeOK
    <3> QED
      BY <1>1, <2>2, <3>1 DEF IInv, TypeOK, NoElement
  <2> QED
    BY <1>3, <2>1, <2>2
<1> HIDE DEF c
<1>6. valid' \in [Cells -> BOOLEAN] /\ struck' \in BOOLEAN
  <2>1. valid \in [Cells -> BOOLEAN] /\ struck \in BOOLEAN
    BY DEF IInv, TypeOK
  <2>2. CASE UNCHANGED <<valid, struck>>
    BY <2>1, <2>2
  <2>3. CASE valid' = [valid EXCEPT ![c] = FALSE] /\ struck' = (struck \/ valid[c])
    BY <2>1, <2>3
  <2> QED
    BY <1>3, <2>2, <2>3
<1>7. TypeOK'
  BY <1>1, <1>5, <1>6 DEF IInv, TypeOK
<1>8. WaitersOwnElement'
  <2>1. SUFFICES ASSUME ~struck', NEW q \in PERIODICs, pc'[q] = "waiting", element'[q] # NULL
                 PROVE  /\ element'[q] \in used' /\ pid'[element'[q]] = q
                        /\ valid'[element'[q]]
    BY DEF WaitersOwnElement
  <2>2. pc[q] = "waiting" /\ element'[q] = element[q]
    BY <1>5, <2>1
  <2>3. ~struck
    BY <1>3, <2>1 DEF IInv, TypeOK
  <2>4. element[q] \in used /\ pid[element[q]] = q /\ valid[element[q]]
    BY <2>1, <2>2, <2>3 DEF IInv, WaitersOwnElement
  <2>5. valid'[element[q]]
    <3>1. CASE UNCHANGED valid
      BY <2>4, <3>1
    <3>2. CASE valid' = [valid EXCEPT ![c] = FALSE] /\ struck' = (struck \/ valid[c])
      <4>1. ~valid[c]
        BY <2>1, <3>2
      <4>2. c # element[q] /\ element[q] \in Cells
        BY <2>4, <4>1 DEF IInv, TypeOK
      <4> QED
        BY <2>4, <3>2, <4>2 DEF IInv, TypeOK
    <3> QED
      BY <1>3, <3>1, <3>2
  <2> QED
    BY <1>1, <2>2, <2>4, <2>5
<1> QED
  BY <1>2, <1>5, <1>7, <1>8 DEF IInv

LEMMA InvStep == IInv /\ [Next]_vars => IInv'
<1> SUFFICES ASSUME IInv, [Next]_vars PROVE IInv'
  OBVIOUS
<1>1. CASE UNCHANGED vars
  <2>1. Threaded'
    BY <1>1, ThreadedFrame DEF IInv, vars, list
  <2> QED
    BY <1>1, <2>1 DEF IInv, TypeOK, NoElement, WaitersOwnElement, vars, list
<1>2. ASSUME NEW p \in Processes, NEW s \in Semaphores, OS_InitSem(p, s) PROVE IInv'
  BY <1>2, InitSemKeeps
<1>3. ASSUME NEW p \in Processes, NEW s \in Semaphores, OS_Wait(p, s) PROVE IInv'
  <2>1. pc[p] = "out" /\ UNCHANGED <<owned, granted, struck>>
    BY <1>3 DEF OS_Wait, Running
  <2>2. \/ WaitAborts(p) \/ WaitInLine(p, s) \/ WaitForTurn(p, s)
        \/ /\ count[s] > 0 /\ Take(p, s)
           /\ sem' = [sem EXCEPT ![p] = s] /\ UNCHANGED <<list, element, halted>>
    BY <1>3 DEF OS_Wait
  <2> QED
    BY <2>1, <2>2, WaitAbortsKeeps, WaitInLineKeeps, WaitForTurnKeeps, TakeKeeps
<1>4. ASSUME NEW p \in Processes, NEW s \in Semaphores, OS_Signal(p, s) PROVE IInv'
  BY <1>4, SignalKeeps
<1>5. ASSUME NEW p \in Processes, WaitAgain(p) PROVE IInv'
  BY <1>5, WaitAgainKeeps
<1>6. ASSUME NEW p \in Processes, WaitRegister(p) PROVE IInv'
  BY <1>6, WaitRegisterKeeps
<1>7. ASSUME NEW p \in Processes, SignalRelease(p) PROVE IInv'
  BY <1>7, SignalReleaseKeeps
<1>8. ASSUME NEW p \in Processes, SignalFind(p) PROVE IInv'
  BY <1>8, SignalFindKeeps
<1>9. ASSUME NEW p \in Processes, SignalLook(p) PROVE IInv'
  BY <1>9, SignalLookKeeps
<1>10. ASSUME NEW p \in Processes, InitTail(p) \/ InitHead(p) PROVE IInv'
  BY <1>10, InitTailKeeps, InitHeadKeeps
<1> QED
  BY <1>1, <1>2, <1>3, <1>4, <1>5, <1>6, <1>7, <1>8, <1>9, <1>10 DEF Next

THEOREM Invariant == Spec => []IInv
  BY InvInit, InvStep, PTL DEF Spec

-----------------------------------------------------------------------------
(* The theorems.                                                           *)

\* Every variable keeps its type, whatever the programs keep to: no count becomes
\* negative, and every list stays among the cells.
THEOREM TypeCorrect == Spec => []TypeOK
<1>1. IInv => TypeOK
  BY DEF IInv
<1> QED
  BY <1>1, Invariant, PTL

\* The loop of cleanup_semaphore_buf, which runs with interrupts off, ends, and no
\* element is in two lists, although tail is not kept up to date.
THEOREM ListsAlwaysEnd == Spec => []ListsEnd
<1>1. IInv => ListsEnd
  <2> SUFFICES ASSUME IInv PROVE ListsEnd
    OBVIOUS
  <2>1. PICK of \in [Cells -> SUBSET Semaphores], rank \in [Cells -> Nat] : Threads(of, rank)
    BY DEF IInv, Threaded
  <2>2. ASSUME NEW s \in Semaphores, NEW c \in Members(s) PROVE c \in Cells /\ s \in of[c]
    <3>1. PICK k \in Turns : c = Walk(s)[k] /\ c # NULL
      BY <2>2 DEF Members, Turns
    <3>2. c \in Cells
      BY <3>1, WalkSteps DEF IInv, Cell
    <3> QED
      BY <2>1, <3>1, <3>2, WalkThreads DEF IInv
  <2>3. ASSUME NEW s \in Semaphores, NEW t \in Semaphores, s # t
        PROVE  Members(s) \intersect Members(t) = {}
    BY <2>1, <2>2, <2>3 DEF Threads
  <2>4. \A s \in Semaphores : Walk(s)[NumCells] = NULL
    BY WalkEnds DEF IInv
  <2> QED
    BY <2>3, <2>4 DEF ListsEnd
<1> QED
  BY <1>1, Invariant, PTL

\* Until OS_Signal strikes an element out, OS_Wait writes to an element of its own.
THEOREM WaitersKeepElement == Spec => []WaitersOwnElement
<1>1. IInv => WaitersOwnElement
  BY DEF IInv
<1> QED
  BY <1>1, Invariant, PTL

-----------------------------------------------------------------------------
(* The count and the processes that hold a semaphore, for programs that    *)
(* wait only when they hold none.                                          *)

Single == "single" \in Rules

\* A process holds at most one semaphore, and in OS_Wait and OS_Signal its bitmap is empty:
\* unregister_bit, which clears the bits of all semaphores, then loses none.
AtMostOne ==
  /\ \A p \in Processes : pc[p] \notin {"out", "tail", "head"} => owned[p] = {}
  /\ \A p \in Processes : \A s, t \in owned[p] : s = t

LEMMA AtMostOneInit == Init => AtMostOne
  BY DEF Init, AtMostOne

LEMMA AtMostOneStep ==
  ASSUME Single, IInv, AtMostOne, [Next]_vars
  PROVE  AtMostOne'
<1>1. \/ UNCHANGED <<pc, owned>>
      \/ \E p \in Processes :
           /\ \/ owned[p] = {} /\ owned' = owned
              \/ owned' = owned /\ pc'[p] \in {"out", "tail", "head"}
              \/ owned[p] = {} /\ owned' = [owned EXCEPT ![p] = @ \union {sem[p]}]
                 /\ pc' = [pc EXCEPT ![p] = "out"]
              \/ owned' = [owned EXCEPT ![p] = {}]
           /\ \E label \in Labels :
                pc' = [pc EXCEPT ![p] = label]
  <2>1. CASE UNCHANGED vars
    BY <2>1 DEF vars
  <2>0. pc \in [Processes -> Labels]
    BY DEF IInv, TypeOK
  <2>2. ASSUME NEW p \in Processes, NEW s \in Semaphores,
               OS_InitSem(p, s) \/ InitTail(p) \/ InitHead(p)
        PROVE  /\ owned' = owned /\ pc'[p] \in {"out", "tail", "head"}
               /\ pc' = [pc EXCEPT ![p] = "tail"] \/ pc' = [pc EXCEPT ![p] = "head"]
                    \/ pc' = [pc EXCEPT ![p] = "out"]
    BY <2>0, <2>2 DEF OS_InitSem, InitTail, InitHead, return, goto
  <2>3. ASSUME NEW p \in Processes, NEW s \in Semaphores, OS_Wait(p, s)
        PROVE  /\ owned[p] = {} /\ owned' = owned
               /\ \/ UNCHANGED pc
                  \/ pc' = [pc EXCEPT ![p] = "waiting"] \/ pc' = [pc EXCEPT ![p] = "register"]
    BY <2>3 DEF Single, OS_Wait, WaitAborts, WaitInLine, WaitForTurn, Take, goto
  <2>4. ASSUME NEW p \in Processes, NEW s \in Semaphores, OS_Signal(p, s)
        PROVE  owned' = [owned EXCEPT ![p] = {}] /\ pc' = [pc EXCEPT ![p] = "signal"]
    BY <2>4 DEF OS_Signal, unregister_bit, goto
  <2>5. ASSUME NEW p \in Processes, WaitAgain(p)
        PROVE  owned[p] = {} /\ owned' = owned /\ pc' = [pc EXCEPT ![p] = "register"]
    BY <2>5 DEF WaitAgain, Running, Take, goto, AtMostOne
  <2>6. ASSUME NEW p \in Processes, WaitRegister(p)
        PROVE  /\ owned[p] = {} /\ owned' = [owned EXCEPT ![p] = @ \union {sem[p]}]
               /\ pc' = [pc EXCEPT ![p] = "out"]
    BY <2>6 DEF WaitRegister, Running, return, goto, AtMostOne
  <2>7. ASSUME NEW p \in Processes, SignalRelease(p)
        PROVE  /\ owned[p] = {} /\ owned' = owned
               /\ pc' = [pc EXCEPT ![p] = "out"] \/ pc' = [pc EXCEPT ![p] = "find"]
    BY <2>7 DEF SignalRelease, Running, return, goto, AtMostOne
  <2>8. ASSUME NEW p \in Processes, SignalFind(p)
        PROVE  owned[p] = {} /\ owned' = owned /\ pc' = [pc EXCEPT ![p] = "look"]
    BY <2>8 DEF SignalFind, Running, goto, AtMostOne
  <2>9. ASSUME NEW p \in Processes, SignalLook(p)
        PROVE  /\ owned[p] = {} /\ owned' = owned
               /\ UNCHANGED pc \/ pc' = [pc EXCEPT ![p] = "out"]
    BY <2>9 DEF SignalLook, Running, return, goto, AtMostOne
  <2> QED
    BY <2>1, <2>2, <2>3, <2>4, <2>5, <2>6, <2>7, <2>8, <2>9 DEF Next
<1>2. pc \in [Processes -> Labels]
      /\ owned \in [Processes -> SUBSET Semaphores]
  BY DEF IInv, TypeOK
<1> QED
  BY <1>1, <1>2 DEF AtMostOne

\* What a step does to the holders of the semaphores: nothing, or one process takes or
\* gives back one unit of one semaphore, or a semaphore is initialised.
Same == \A s \in Semaphores : Holding(s)' = Holding(s)
Others(s) == \A t \in Semaphores \ {s} : Holding(t)' = Holding(t)

Idle == Same /\ UNCHANGED <<count, granted>>
Initialised(s) ==
  /\ Same /\ granted[s] = 0
  /\ count' = [count EXCEPT ![s] = Grants] /\ granted' = [granted EXCEPT ![s] = Grants]
Taken(p, s) ==
  /\ p \notin Holding(s) /\ count[s] > 0
  /\ Holding(s)' = Holding(s) \union {p} /\ Others(s)
  /\ count' = [count EXCEPT ![s] = @ - 1] /\ UNCHANGED granted
Released(p, s) ==
  /\ p \in Holding(s)
  /\ Holding(s)' = Holding(s) \ {p} /\ Others(s)
  /\ count' = [count EXCEPT ![s] = @ + 1] /\ UNCHANGED granted

LEMMA TakeTakes ==
  ASSUME Single, IInv, AtMostOne, NEW p \in Processes, NEW s \in Semaphores,
         pc[p] \in {"out", "waiting"}, owned[p] = {}, count[s] > 0, Take(p, s),
         sem' = [sem EXCEPT ![p] = s], UNCHANGED <<owned, granted>>
  PROVE  Taken(p, s)
<1>1. /\ pc' = [pc EXCEPT ![p] = "register"] /\ count' = [count EXCEPT ![s] = @ - 1]
  BY DEF Take, goto
<1>2. p \notin Holding(s)
  BY DEF Holding
<1>3. Holding(s)' = Holding(s) \union {p}
  BY <1>1 DEF IInv, TypeOK, Holding
<1>4. Others(s)
  BY <1>1 DEF IInv, TypeOK, Holding, Others
<1> QED
  BY <1>1, <1>2, <1>3, <1>4 DEF Taken

LEMMA HoldingStep ==
  ASSUME Single, IInv, AtMostOne, [Next]_vars
  PROVE  \/ Idle
         \/ \E s \in Semaphores : Initialised(s)
         \/ \E p \in Processes, s \in Semaphores : Taken(p, s) \/ Released(p, s)
<1>0. /\ pc \in [Processes -> Labels]
      /\ owned \in [Processes -> SUBSET Semaphores] /\ sem \in [Processes -> Semaphores]
  BY DEF IInv, TypeOK
<1>1. CASE UNCHANGED vars
  BY <1>1 DEF vars, Idle, Same, Holding
<1>2. ASSUME NEW p \in Processes, NEW s \in Semaphores, OS_InitSem(p, s) PROVE Initialised(s)
  <2>1. /\ pc[p] = "out" /\ pc' = [pc EXCEPT ![p] = "tail"] /\ sem' = [sem EXCEPT ![p] = s]
        /\ owned' = owned /\ granted[s] = 0
        /\ count' = [count EXCEPT ![s] = Grants] /\ granted' = [granted EXCEPT ![s] = Grants]
    BY <1>2 DEF OS_InitSem, Running, goto
  <2> QED
    BY <1>0, <2>1 DEF Initialised, Same, Holding
<1>3. ASSUME NEW p \in Processes, NEW s \in Semaphores, OS_Wait(p, s)
      PROVE  Idle \/ Taken(p, s)
  <2>1. pc[p] = "out" /\ owned[p] = {} /\ UNCHANGED <<owned, granted>>
    BY <1>3 DEF OS_Wait, Running, Single
  <2>2. CASE count[s] > 0 /\ Take(p, s) /\ sem' = [sem EXCEPT ![p] = s]
    BY <2>1, <2>2, TakeTakes
  <2>3. CASE WaitAborts(p)
    BY <2>1, <2>3 DEF WaitAborts, Idle, Same, Holding
  <2>4. CASE WaitInLine(p, s) \/ WaitForTurn(p, s)
    <3>1. pc' = [pc EXCEPT ![p] = "waiting"] /\ sem' = [sem EXCEPT ![p] = s] /\ UNCHANGED count
      BY <2>4 DEF WaitInLine, WaitForTurn, goto
    <3> QED
      BY <1>0, <2>1, <3>1 DEF Idle, Same, Holding
  <2> QED
    BY <1>3, <2>2, <2>3, <2>4 DEF OS_Wait
<1>4. ASSUME NEW p \in Processes, NEW s \in Semaphores, OS_Signal(p, s) PROVE Idle
  <2>1. /\ pc[p] = "out" /\ s \in owned[p] /\ owned' = [owned EXCEPT ![p] = {}]
        /\ sem' = [sem EXCEPT ![p] = s] /\ pc' = [pc EXCEPT ![p] = "signal"]
        /\ UNCHANGED <<count, granted>>
    BY <1>4 DEF OS_Signal, Running, unregister_bit, goto
  <2>2. \A t \in Semaphores : t \in owned[p] <=> t = s
    BY <2>1 DEF AtMostOne
  <2> QED
    BY <1>0, <2>1, <2>2 DEF Idle, Same, Holding
<1>5. ASSUME NEW p \in Processes, WaitAgain(p) PROVE \E s \in Semaphores : Taken(p, s)
  <2>1. /\ pc[p] = "waiting" /\ count[sem[p]] > 0 /\ Take(p, sem[p]) /\ sem[p] \in Semaphores
        /\ sem' = [sem EXCEPT ![p] = sem[p]] /\ UNCHANGED <<owned, granted>>
    BY <1>0, <1>5 DEF WaitAgain, Running, Available
  <2>2. owned[p] = {}
    BY <2>1 DEF AtMostOne
  <2> QED
    BY <2>1, <2>2, TakeTakes
<1>6. ASSUME NEW p \in Processes, WaitRegister(p) PROVE Idle
  <2>1. /\ pc[p] = "register" /\ owned' = [owned EXCEPT ![p] = @ \union {sem[p]}]
        /\ pc' = [pc EXCEPT ![p] = "out"]
        /\ sem' = [sem EXCEPT ![p] = CHOOSE t \in Semaphores : TRUE]
        /\ UNCHANGED <<count, granted>>
    BY <1>6 DEF WaitRegister, Running, return, goto
  <2>2. owned[p] = {}
    BY <2>1 DEF AtMostOne
  <2> QED
    BY <1>0, <2>1, <2>2 DEF Idle, Same, Holding
<1>7. ASSUME NEW p \in Processes, SignalRelease(p) PROVE \E s \in Semaphores : Released(p, s)
  <2>1. /\ pc[p] = "signal" /\ sem[p] \in Semaphores /\ owned[p] = {} /\ owned' = owned
        /\ count' = [count EXCEPT ![sem[p]] = @ + 1] /\ UNCHANGED granted
    BY <1>0, <1>7 DEF SignalRelease, Running, AtMostOne
  <2>2. /\ pc' = [pc EXCEPT ![p] = "out"] \/ pc' = [pc EXCEPT ![p] = "find"]
        /\ \A q \in Processes \ {p} : sem'[q] = sem[q]
    BY <1>0, <1>7 DEF SignalRelease, return, goto
  <2>3. PICK s \in Semaphores : s = sem[p]
    BY <2>1
  <2>4. p \in Holding(s) /\ Holding(s)' = Holding(s) \ {p}
    BY <1>0, <2>1, <2>2, <2>3 DEF Holding
  <2>5. Others(s)
    BY <1>0, <2>1, <2>2, <2>3 DEF Holding, Others
  <2> QED
    BY <2>1, <2>3, <2>4, <2>5 DEF Released
<1>8. ASSUME NEW p \in Processes, SignalFind(p) PROVE Idle
  BY <1>0, <1>8 DEF SignalFind, Running, goto, Idle, Same, Holding
<1>9. ASSUME NEW p \in Processes, SignalLook(p) PROVE Idle
  <2>1. /\ pc[p] = "look" /\ owned' = owned /\ UNCHANGED <<count, granted>>
        /\ UNCHANGED pc \/ pc' = [pc EXCEPT ![p] = "out"]
        /\ \A q \in Processes \ {p} : sem'[q] = sem[q]
    BY <1>0, <1>9 DEF SignalLook, Running, return, goto
  <2> QED
    BY <1>0, <2>1 DEF Idle, Same, Holding
<1>10. ASSUME NEW p \in Processes, InitTail(p) \/ InitHead(p) PROVE Idle
  <2>1. /\ pc[p] \in {"tail", "head"} /\ owned' = owned /\ UNCHANGED <<count, granted>>
        /\ pc' = [pc EXCEPT ![p] = "head"] \/ pc' = [pc EXCEPT ![p] = "out"]
        /\ \A q \in Processes \ {p} : sem'[q] = sem[q]
    BY <1>0, <1>10 DEF InitTail, InitHead, Running, return, goto
  <2> QED
    BY <1>0, <2>1 DEF Idle, Same, Holding
<1> QED
  BY <1>1, <1>2, <1>3, <1>4, <1>5, <1>6, <1>7, <1>8, <1>9, <1>10 DEF Next

LEMMA HoldingFinite ==
  \A s \in Semaphores : IsFiniteSet(Holding(s)) /\ Cardinality(Holding(s)) \in Nat
<1> TAKE s \in Semaphores
<1>1. Holding(s) \in SUBSET Processes
  BY DEF Holding
<1>2. IsFiniteSet(Processes)
  OBVIOUS
<1> QED
  BY <1>1, <1>2, FS_Subset, FS_CardinalityType

LEMMA ConservedInit == Init => Conserved
<1> SUFFICES ASSUME Init, NEW s \in Semaphores
             PROVE  count[s] + Cardinality(Holding(s)) = granted[s]
  BY DEF Conserved
<1>1. Holding(s) = {}
  BY DEF Init, Holding
<1> QED
  BY <1>1, FS_EmptySet DEF Init

LEMMA ConservedStep ==
  ASSUME Single, IInv, AtMostOne, Conserved, [Next]_vars
  PROVE  Conserved'
<1> DEFINE Held(s) == Cardinality(Holding(s))
<1>1. \A s \in Semaphores : Held(s) \in Nat /\ IsFiniteSet(Holding(s))
  BY HoldingFinite
<1>2. \A s \in Semaphores : count[s] \in Nat /\ granted[s] \in Nat /\ count[s] + Held(s) = granted[s]
  BY DEF Conserved, IInv, TypeOK
<1>3. count \in [Semaphores -> Nat] /\ granted \in [Semaphores -> {0, Grants}]
  BY DEF IInv, TypeOK
<1> SUFFICES ASSUME NEW s \in Semaphores PROVE count'[s] + Held(s)' = granted'[s]
  BY DEF Conserved
<1>4. CASE Idle
  BY <1>2, <1>4 DEF Idle, Same
<1>5. ASSUME NEW t \in Semaphores, Initialised(t) PROVE count'[s] + Held(s)' = granted'[s]
  <2>1. Held(s)' = Held(s)
    BY <1>5 DEF Initialised, Same
  <2>2. CASE s = t
    <3>1. Held(s) = 0
      BY <1>1, <1>2, <1>5, <2>2 DEF Initialised
    <3> QED
      BY <1>3, <1>5, <2>1, <2>2, <3>1 DEF Initialised
  <2>3. CASE s # t
    BY <1>2, <1>3, <1>5, <2>1, <2>3 DEF Initialised
  <2> QED
    BY <2>2, <2>3
<1>6. ASSUME NEW p \in Processes, NEW t \in Semaphores, Taken(p, t)
      PROVE  count'[s] + Held(s)' = granted'[s]
  <2>1. CASE s = t
    <3>1. Held(s)' = Held(s) + 1
      BY <1>1, <1>6, <2>1, FS_AddElement DEF Taken
    <3>2. count'[s] = count[s] - 1 /\ granted'[s] = granted[s]
      BY <1>3, <1>6, <2>1 DEF Taken
    <3> HIDE DEF Held
    <3> QED
      BY <1>1, <1>2, <3>1, <3>2
  <2>2. CASE s # t
    <3>1. Held(s)' = Held(s)
      BY <1>6, <2>2 DEF Taken, Others
    <3> QED
      BY <1>2, <1>3, <1>6, <2>2, <3>1 DEF Taken
  <2> QED
    BY <2>1, <2>2
<1>7. ASSUME NEW p \in Processes, NEW t \in Semaphores, Released(p, t)
      PROVE  count'[s] + Held(s)' = granted'[s]
  <2>1. CASE s = t
    <3>1. Held(s)' = Held(s) - 1
      BY <1>1, <1>7, <2>1, FS_RemoveElement DEF Released
    <3>2. count'[s] = count[s] + 1 /\ granted'[s] = granted[s]
      BY <1>3, <1>7, <2>1 DEF Released
    <3> HIDE DEF Held
    <3> QED
      BY <1>1, <1>2, <3>1, <3>2
  <2>2. CASE s # t
    <3>1. Held(s)' = Held(s)
      BY <1>7, <2>2 DEF Released, Others
    <3> QED
      BY <1>2, <1>3, <1>7, <2>2, <3>1 DEF Released
  <2> QED
    BY <2>1, <2>2
<1> HIDE DEF Held
<1> QED
  BY <1>4, <1>5, <1>6, <1>7, HoldingStep

\* No unit of a semaphore is lost or made while processes wait only when they hold no
\* semaphore, whatever happens to the lists and to struck elements.
THEOREM UnitsConserved ==
  ASSUME Single
  PROVE  Spec => []Conserved
<1> DEFINE CInv == IInv /\ AtMostOne /\ Conserved
<1>1. Init => CInv
  BY InvInit, AtMostOneInit, ConservedInit
<1>2. CInv /\ [Next]_vars => CInv'
  BY InvStep, AtMostOneStep, ConservedStep
<1> QED
  BY <1>1, <1>2, PTL DEF Spec

-----------------------------------------------------------------------------
(* The refinement: a step takes a unit where Taken, gives it back where    *)
(* Released, and is a stutter of the counting semaphores elsewhere.        *)

\* The cardinality of the instance is that of FiniteSets.
LEMMA UnitsCardinality == \A S : Units!Cardinality(S) = Cardinality(S)
  BY Zenon DEF Units!Cardinality, Cardinality

LEMMA UnitsInit == Init => Units!Init
  BY DEF Init, Units!Init, Holding

LEMMA UnitsStep ==
  ASSUME Single, IInv, AtMostOne, Conserved, [Next]_vars
  PROVE  [Units!Next]_<<granted, [s \in Semaphores |-> Holding(s)]>>
<1> DEFINE holding == [s \in Semaphores |-> Holding(s)]
<1>1. CASE Idle
  BY <1>1 DEF Idle, Same
<1>2. ASSUME NEW s \in Semaphores, Initialised(s) PROVE Units!InitSem(s)
  BY <1>2 DEF Initialised, Same, Units!InitSem
<1>3. ASSUME NEW p \in Processes, NEW s \in Semaphores, Taken(p, s) PROVE Units!Acquire(p, s)
  <2>1. Cardinality(Holding(s)) < granted[s]
    BY <1>3, HoldingFinite DEF Taken, Conserved, IInv, TypeOK
  <2>2. holding' = [holding EXCEPT ![s] = @ \union {p}]
    BY <1>3 DEF Taken, Others
  <2>3. p \notin holding[s] /\ Cardinality(holding[s]) < granted[s] /\ granted' = granted
    BY <1>3, <2>1 DEF Taken
  <2> QED
    BY <2>2, <2>3, UnitsCardinality DEF Units!Acquire
<1>4. ASSUME NEW p \in Processes, NEW s \in Semaphores, Released(p, s) PROVE Units!Release(p, s)
  <2>1. holding' = [holding EXCEPT ![s] = @ \ {p}]
    BY <1>4 DEF Released, Others
  <2> QED
    BY <1>4, <2>1 DEF Released, Units!Release
<1> QED
  BY <1>1, <1>2, <1>3, <1>4, HoldingStep DEF Units!Next

\* Under the same condition the interleaved calls implement counting semaphores: never
\* do more processes hold a semaphore than OS_InitSem granted, and only a process that
\* holds it gives it back.
THEOREM CountingSemaphoresImplemented ==
  ASSUME Single
  PROVE  Spec => ImplementsCountingSemaphore
<1> DEFINE CInv == IInv /\ AtMostOne /\ Conserved
<1>1. Init => CInv /\ Units!Init
  BY InvInit, AtMostOneInit, ConservedInit, UnitsInit
<1>2. CInv /\ [Next]_vars => CInv'
  BY InvStep, AtMostOneStep, ConservedStep
<1>3. CInv /\ [Next]_vars => [Units!Next]_<<granted, [s \in Semaphores |-> Holding(s)]>>
  BY UnitsStep
<1> QED
  BY <1>1, <1>2, <1>3, PTL DEF Spec, ImplementsCountingSemaphore, Units!Spec
=============================================================================
