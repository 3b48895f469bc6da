---------------------------- MODULE ScreenProofs ----------------------------
(***************************************************************************)
(* Theorems about Screen, for every size of the screen, of a register and  *)
(* of an int, and all texts.                                               *)
(***************************************************************************)
EXTENDS Screen, NaturalSets, SequenceTheorems

USE ScreenAssumption

-----------------------------------------------------------------------------
(* Folds: FoldLeft is defined by a recursion over the sets of indices.     *)

LEMMA MaxOfInterval ==
  ASSUME NEW n \in Nat, NEW s \in SUBSET (1 .. n + 1), n + 1 \in s
  PROVE  Max(s) = n + 1
<1>1. \A y \in s : n + 1 >= y
  OBVIOUS
<1>2. \A x \in s : (\A y \in s : x >= y) => x = n + 1
  OBVIOUS
<1> QED
  BY <1>1, <1>2 DEF Max

LEMMA MaxOfAll ==
  ASSUME NEW k \in Nat \ {0}
  PROVE  1 .. k # {} /\ Max(1 .. k) = k /\ (1 .. k) \ {k} = 1 .. k - 1
<1>1. PICK n \in Nat : n = k - 1
  OBVIOUS
<1>2. Max(1 .. n + 1) = n + 1
  BY MaxOfInterval
<1> QED
  BY <1>1, <1>2

LEMMA MaxIn ==
  ASSUME NEW n \in Nat, NEW s \in SUBSET (1 .. n), s # {}
  PROVE  Max(s) \in s
<1> DEFINE S == {k \in Nat : \A t \in SUBSET (1 .. k) : t # {} => \E x \in t : \A y \in t : x >= y}
<1>1. 0 \in S
  <2>1. \A t \in SUBSET (1 .. 0) : t = {}
    OBVIOUS
  <2> QED
    BY <2>1
<1>2. ASSUME NEW k \in S PROVE k + 1 \in S
  <2> SUFFICES ASSUME NEW t \in SUBSET (1 .. k + 1), t # {}
               PROVE  \E x \in t : \A y \in t : x >= y
    OBVIOUS
  <2>1. CASE k + 1 \in t
    BY <2>1
  <2>2. CASE k + 1 \notin t
    <3>1. t \in SUBSET (1 .. k)
      BY <2>2
    <3> QED
      BY <3>1
  <2> QED
    BY <2>1, <2>2
<1>3. S = Nat
  <2> HIDE DEF S
  <2>1. S \in SUBSET Nat
    BY DEF S
  <2> QED
    BY <1>1, <1>2, <2>1, Induction
<1>4. PICK x \in s : \A y \in s : x >= y
  BY <1>3
<1> QED
  BY <1>4 DEF Max

\* A function of the kind MapThenFoldSet defines exists when every step stays in a set.
Folds(f, D, base, n, step) ==
  /\ f \in [SUBSET (1 .. n) -> D]
  /\ \A s \in SUBSET (1 .. n) :
       f[s] = IF s = {} THEN base ELSE step[Max(s)][f[s \ {Max(s)}]]

LEMMA FoldExists ==
  ASSUME NEW D, NEW base \in D, NEW n \in Nat, NEW step \in [1 .. n -> [D -> D]]
  PROVE  \E f : Folds(f, D, base, n, step)
<1> DEFINE Solves(f, k) ==
             /\ f \in [SUBSET (1 .. k) -> D]
             /\ \A s \in SUBSET (1 .. k) :
                  f[s] = IF s = {} THEN base ELSE step[Max(s)][f[s \ {Max(s)}]]
           S == {k \in Nat : k <= n => \E f : Solves(f, k)}
<1>1. 0 \in S
  <2> DEFINE f == [s \in SUBSET (1 .. 0) |-> base]
  <2>1. \A s \in SUBSET (1 .. 0) : s = {}
    OBVIOUS
  <2>2. Solves(f, 0)
    BY <2>1, Zenon
  <2> QED
    BY <2>2
<1>2. ASSUME NEW k \in S PROVE k + 1 \in S
  <2>0. k \in Nat /\ k + 1 \in Nat
    OBVIOUS
  <2> SUFFICES ASSUME k + 1 <= n PROVE \E f : Solves(f, k + 1)
    BY <2>0, Zenon
  <2>1. PICK f : Solves(f, k)
    <3>1. k <= n
      BY <2>0
    <3> QED
      BY <3>1
  <2>2. PICK move \in [D -> D] : move = step[k + 1]
    BY <2>0
  <2> DEFINE g == [s \in SUBSET (1 .. k + 1) |->
                    IF k + 1 \in s THEN move[f[s \ {k + 1}]] ELSE f[s]]
  <2>3. \A s \in SUBSET (1 .. k + 1) : /\ k + 1 \in s => s \ {k + 1} \in SUBSET (1 .. k)
                                       /\ k + 1 \notin s => s \in SUBSET (1 .. k)
                                       /\ s \ {Max(s)} \in SUBSET (1 .. k + 1)
    <3>1. \A i \in 1 .. k + 1 : i # k + 1 => i \in 1 .. k
      BY <2>0
    <3> QED
      BY <3>1, Zenon
  <2>4. g \in [SUBSET (1 .. k + 1) -> D]
    <3>1. ASSUME NEW s \in SUBSET (1 .. k + 1)
          PROVE  (IF k + 1 \in s THEN move[f[s \ {k + 1}]] ELSE f[s]) \in D
      BY <2>1, <2>2, <2>3, Zenon
    <3> QED
      BY <3>1, Zenon
  <2>5. ASSUME NEW s \in SUBSET (1 .. k + 1)
        PROVE  g[s] = IF s = {} THEN base ELSE step[Max(s)][g[s \ {Max(s)}]]
    <3>1. CASE k + 1 \in s
      <4>1. Max(s) = k + 1
        BY <2>0, <3>1, MaxOfInterval
      <4>2. g[s] = move[f[s \ {k + 1}]] /\ g[s \ {k + 1}] = f[s \ {k + 1}]
        BY <2>3, <3>1, <4>1, Zenon
      <4> QED
        BY <2>2, <3>1, <4>1, <4>2, Zenon
    <3>2. CASE k + 1 \notin s
      <4>1. g[s] = f[s] /\ g[s \ {Max(s)}] = f[s \ {Max(s)}]
        BY <2>3, <3>2, Zenon
      <4>2. f[s] = IF s = {} THEN base ELSE step[Max(s)][f[s \ {Max(s)}]]
        BY <2>1, <2>3, <3>2, Zenon
      <4> QED
        BY <4>1, <4>2, Zenon
    <3> QED
      BY <3>1, <3>2
  <2>6. Solves(g, k + 1)
    BY <2>4, <2>5, Zenon
  <2> QED
    BY <2>6, Zenon
<1>3. S = Nat
  <2> HIDE DEF S
  <2>1. S \in SUBSET Nat
    BY DEF S
  <2> QED
    BY <1>1, <1>2, <2>1, Induction
<1>4. \E f : Solves(f, n)
  <2>1. n \in S
    <3> HIDE DEF S
    <3> QED
      BY <1>3
  <2>2. n <= n
    OBVIOUS
  <2> QED
    BY <2>1, <2>2, Zenon
<1> QED
  BY <1>4, Zenon DEF Folds

\* The values that such a function runs through, from base to f[1 .. n].
Steps(run, D, base, n, step) ==
  /\ run \in [0 .. n -> D]
  /\ run[0] = base
  /\ \A k \in 1 .. n : run[k] = step[k][run[k - 1]]

Unfolds(f, D, base, n, step) ==
  /\ f[{}] = base
  /\ \A s \in SUBSET (1 .. n) : s # {} /\ f[s \ {Max(s)}] \in D =>
                                  f[s] = step[Max(s)][f[s \ {Max(s)}]]

RunsTo(result, D, base, n, step) == \E run : Steps(run, D, base, n, step) /\ run[n] = result

LEMMA FoldSteps ==
  ASSUME NEW D, NEW base \in D, NEW n \in Nat, NEW step \in [1 .. n -> [D -> D]],
         NEW f, Unfolds(f, D, base, n, step)
  PROVE  RunsTo(f[1 .. n], D, base, n, step)
<1>0. /\ f[{}] = base
      /\ \A s \in SUBSET (1 .. n) : s # {} /\ f[s \ {Max(s)}] \in D =>
                                      f[s] = step[Max(s)][f[s \ {Max(s)}]]
  BY Zenon DEF Unfolds
<1> DEFINE run == [k \in 0 .. n |-> f[1 .. k]]
<1>1. run[0] = base
  <2>1. 1 .. 0 = {}
    OBVIOUS
  <2> QED
    BY <1>0, <2>1
<1>2. ASSUME NEW k \in 1 .. n, run[k - 1] \in D PROVE run[k] = step[k][run[k - 1]]
  <2>1. 1 .. k # {} /\ Max(1 .. k) = k /\ (1 .. k) \ {k} = 1 .. k - 1
    <3>1. k \in Nat \ {0}
      OBVIOUS
    <3> QED
      BY <3>1, MaxOfAll
  <2>2. 1 .. k \in SUBSET (1 .. n)
    OBVIOUS
  <2>3. run[k] = f[1 .. k] /\ run[k - 1] = f[1 .. k - 1]
    OBVIOUS
  <2> HIDE DEF run
  <2>4. (1 .. k) \ {Max(1 .. k)} = 1 .. k - 1
    BY <2>1, Zenon
  <2>5. f[(1 .. k) \ {Max(1 .. k)}] \in D
    BY <1>2, <2>3, <2>4, Zenon
  <2>6. f[1 .. k] = step[Max(1 .. k)][f[(1 .. k) \ {Max(1 .. k)}]]
    BY <1>0, <2>1, <2>2, <2>5, Zenon
  <2> QED
    BY <2>1, <2>3, <2>4, <2>6, Zenon
<1>3. run[n] = f[1 .. n]
  OBVIOUS
<1> DEFINE S == {k \in 0 .. n : run[k] \in D}
<1>4. \A k \in 0 .. n : run[k] \in D
  <2> HIDE DEF run
  <2>1. 0 \in S
    BY <1>1
  <2>2. ASSUME NEW k \in 0 .. n - 1, k \in S PROVE k + 1 \in S
    <3>1. PICK i \in 1 .. n : i = k + 1 /\ k = i - 1
      OBVIOUS
    <3>2. run[i - 1] \in D
      BY <2>2, <3>1
    <3>3. run[i] = step[i][run[i - 1]]
      BY <1>2, <3>2
    <3>4. run[i] \in D
      BY <3>2, <3>3
    <3> QED
      BY <3>1, <3>4
  <2>3. S \in SUBSET (0 .. n)
    OBVIOUS
  <2> HIDE DEF S
  <2>4. S = 0 .. n
    BY <2>1, <2>2, <2>3, InductionUpTo
  <2> QED
    BY <2>4 DEF S
<1>5. run \in [0 .. n -> D]
  BY <1>4
<1>6. \A k \in 1 .. n : run[k] = step[k][run[k - 1]]
  <2> HIDE DEF run
  <2>1. \A k \in 1 .. n : k - 1 \in 0 .. n
    OBVIOUS
  <2> QED
    BY <1>2, <1>4, <2>1
<1> HIDE DEF run
<1> QED
  BY <1>1, <1>3, <1>5, <1>6, Zenon DEF Steps, RunsTo

-----------------------------------------------------------------------------
(* Rows and columns.                                                       *)

LEMMA Geometry ==
  /\ CELLS \in Nat \ {0} /\ CELLS >= MAX_COLS
  /\ \A k : k \in Cells <=> k \in Nat /\ k < CELLS
<1>1. CELLS \in Nat
  BY DEF CELLS
<1>2. CELLS >= MAX_COLS
  <2>1. MAX_ROWS \in Int /\ MAX_ROWS >= 1
    OBVIOUS
  <2>2. MAX_ROWS * MAX_COLS >= MAX_COLS
    BY <2>1, MultipleFar
  <2> QED
    BY <2>2 DEF CELLS
<1> QED
  BY <1>1, <1>2 DEF Cells

LEMMA RowBelow ==
  ASSUME NEW r \in Int, NEW j \in 0 .. MAX_COLS - 1, NEW i \in Int
  PROVE  r * MAX_COLS + j < i * MAX_COLS <=> r < i
<1>1. PICK d \in Int : d = r - i
  OBVIOUS
<1>2. (d >= 1 => d * MAX_COLS >= MAX_COLS) /\ (d <= -1 => d * MAX_COLS <= -MAX_COLS)
  BY MultipleFar
<1>3. PICK x \in Int, y \in Int, z \in Int : x = r * MAX_COLS /\ y = i * MAX_COLS /\ z = d * MAX_COLS
  OBVIOUS
<1>4. z = x - y /\ (d = 0 => z = 0)
  BY <1>1, <1>3
<1>5. r < i <=> d <= -1
  BY <1>1
<1>6. d <= -1 <=> x + j < y
  BY <1>2, <1>3, <1>4
<1> QED
  BY <1>3, <1>5, <1>6

LEMMA RowAndColumn ==
  ASSUME NEW r \in Int, NEW j \in 0 .. MAX_COLS - 1
  PROVE  /\ get_offset_row(r * MAX_COLS + j) = r /\ (r * MAX_COLS + j) % MAX_COLS = j
         /\ r * MAX_COLS + j \in Int
         /\ r >= 0 <=> r * MAX_COLS + j >= 0
         /\ r < MAX_ROWS <=> r * MAX_COLS + j < CELLS
<1>1. r * MAX_COLS + j \in Int
  OBVIOUS
<1>2. r * MAX_COLS + j < 0 * MAX_COLS <=> r < 0
  BY RowBelow
<1>3. r >= 0 <=> r * MAX_COLS + j >= 0
  BY <1>1, <1>2
<1>4. r * MAX_COLS + j < MAX_ROWS * MAX_COLS <=> r < MAX_ROWS
  <2>1. MAX_ROWS \in Int
    OBVIOUS
  <2> QED
    BY <2>1, RowBelow
<1> QED
  BY <1>1, <1>3, <1>4, DivIs, ModIs DEF get_offset_row, CELLS

\* Every offset on the screen is one in a row.
LEMMA OffsetSplits ==
  ASSUME NEW o \in Nat
  PROVE  \E r \in Nat, j \in 0 .. MAX_COLS - 1 : o = r * MAX_COLS + j
<1>1. PICK r \in Int, j \in 0 .. MAX_COLS - 1 : r * MAX_COLS + j = o
  <2>1. o \in Int /\ MAX_COLS \in Nat \ {0}
    OBVIOUS
  <2>2. o \div MAX_COLS \in Int /\ o % MAX_COLS \in 0 .. MAX_COLS - 1
        /\ o = (o \div MAX_COLS) * MAX_COLS + (o % MAX_COLS)
    BY <2>1
  <2> QED
    BY <2>2
<1>2. r >= 0
  BY <1>1, RowAndColumn
<1>3. r \in Nat /\ o = r * MAX_COLS + j
  BY <1>1, <1>2
<1> QED
  BY <1>3, Zenon

LEMMA CellIn ==
  ASSUME NEW r \in 0 .. MAX_ROWS - 1, NEW j \in 0 .. MAX_COLS - 1
  PROVE  r * MAX_COLS + j \in Cells
<1>1. r \in Int /\ r >= 0 /\ r < MAX_ROWS
  OBVIOUS
<1>2. PICK o \in Int : o = r * MAX_COLS + j
  OBVIOUS
<1>3. o >= 0 /\ o < CELLS
  BY <1>1, <1>2, RowAndColumn, Zenon
<1>4. o \in Nat
  BY <1>3
<1>5. o \in Cells
  BY <1>3, <1>4, Geometry, Zenon
<1> QED
  BY <1>2, <1>5

LEMMA CellSplits ==
  ASSUME NEW k \in Cells
  PROVE  \E r \in 0 .. MAX_ROWS - 1, j \in 0 .. MAX_COLS - 1 : k = r * MAX_COLS + j
<1>1. k \in Nat /\ k < CELLS
  BY Geometry
<1>2. PICK r \in Nat, j \in 0 .. MAX_COLS - 1 : k = r * MAX_COLS + j
  BY <1>1, OffsetSplits
<1>3. r < MAX_ROWS
  <2>1. r \in Int
    OBVIOUS
  <2>2. r < MAX_ROWS <=> r * MAX_COLS + j < CELLS
    BY <2>1, RowAndColumn, Zenon
  <2>3. r * MAX_COLS + j < CELLS
    BY <1>1, <1>2, Zenon
  <2> QED
    BY <2>2, <2>3, Zenon
<1>4. r \in 0 .. MAX_ROWS - 1
  BY <1>3
<1> QED
  BY <1>2, <1>4, Zenon

-----------------------------------------------------------------------------
(* A row moves upwards.                                                    *)

Picture == [Cells -> Nat]

\* The cells below column j of the row at dest are those of the next row.
PartMoved(m, dest, j) == [x \in Cells |-> IF dest <= x /\ x < dest + j THEN m[x + MAX_COLS] ELSE m[x]]

LEMMA CopyUp ==
  ASSUME NEW m \in Picture, NEW source \in Nat, NEW dest \in Nat, source = dest + MAX_COLS,
         \A j \in 0 .. MAX_COLS - 1 : dest + j \in Cells /\ source + j \in Cells
  PROVE  Copied(m, source, dest, Upwards(MAX_COLS)) = PartMoved(m, dest, MAX_COLS)
<1> DEFINE order == Upwards(MAX_COLS)
           n == MAX_COLS
           Solves(f) == f = [s \in SUBSET (1 .. n) |->
                         IF s = {} THEN m
                         ELSE [f[s \ {Max(s)}] EXCEPT ![dest + order[Max(s)]] =
                                 f[s \ {Max(s)}][source + order[Max(s)]]]]
           f == CHOOSE f : Solves(f)
           step == [k \in 1 .. n |-> [x \in Picture |-> [x EXCEPT ![dest + order[k]] = x[source + order[k]]]]]
<1>0. n \in Nat /\ DOMAIN order = 1 .. n /\ \A k \in 1 .. n : order[k] = k - 1
  BY DEF Upwards
<1>a. step \in [1 .. n -> [Picture -> Picture]]
  <2>1. ASSUME NEW k \in 1 .. n, NEW x \in Picture
        PROVE  [x EXCEPT ![dest + order[k]] = x[source + order[k]]] \in Picture
    <3>1. order[k] \in 0 .. MAX_COLS - 1
      BY <1>0
    <3>2. dest + order[k] \in Cells /\ source + order[k] \in Cells
      BY <3>1
    <3> QED
      BY <3>2 DEF Picture
  <2> QED
    BY <2>1, Zenon
<1> HIDE DEF n, order, step
<1>b. PICK g : Folds(g, Picture, m, n, step)
  BY <1>0, <1>a, FoldExists
<1>1. Solves(g)
  <2>3. ASSUME NEW s \in SUBSET (1 .. n), s # {}
        PROVE  step[Max(s)][g[s \ {Max(s)}]] = [g[s \ {Max(s)}] EXCEPT ![dest + order[Max(s)]] =
                                                  g[s \ {Max(s)}][source + order[Max(s)]]]
    <3>1. Max(s) \in 1 .. n
      BY <1>0, <2>3, MaxIn
    <3>2. g[s \ {Max(s)}] \in Picture
      BY <1>b DEF Folds
    <3> QED
      BY <3>1, <3>2, Zenon DEF step
  <2> QED
    BY <1>b, <2>3, Zenon DEF Folds
<1>2. Solves(f)
  BY <1>1, Zenon
<1>3. Copied(m, source, dest, order) = f[1 .. n]
  BY <1>0, Zenon DEF Copied, FoldLeft, MapThenFoldSet
<1> HIDE DEF f
<1>4. f[{}] = m /\ \A s \in SUBSET (1 .. n) : s # {} =>
         f[s] = [f[s \ {Max(s)}] EXCEPT ![dest + order[Max(s)]] = f[s \ {Max(s)}][source + order[Max(s)]]]
  <2>1. {} \in SUBSET (1 .. n)
    OBVIOUS
  <2> QED
    BY <1>2, <2>1, Zenon
<1>5. PICK run : Steps(run, Picture, m, n, step) /\ run[n] = f[1 .. n]
  <2>1. ASSUME NEW s \in SUBSET (1 .. n), s # {}, f[s \ {Max(s)}] \in Picture
        PROVE  f[s] = step[Max(s)][f[s \ {Max(s)}]]
    <3>1. Max(s) \in 1 .. n
      BY <1>0, <2>1, MaxIn
    <3> QED
      BY <1>4, <2>1, <3>1, Zenon DEF step
  <2>2. Unfolds(f, Picture, m, n, step)
    BY <1>4, <2>1, Zenon DEF Unfolds
  <2>3. n \in Nat /\ m \in Picture
    BY <1>0
  <2>4. RunsTo(f[1 .. n], Picture, m, n, step)
    BY <1>a, <2>2, <2>3, FoldSteps, Zenon
  <2> QED
    BY <2>4, Zenon DEF RunsTo
<1> DEFINE S == {k \in 0 .. n : run[k] = PartMoved(m, dest, k)}
<1>6. 0 \in S
  <2>1. PartMoved(m, dest, 0) = m
    BY DEF PartMoved, Picture, Cells, CELLS
  <2> QED
    BY <1>0, <1>5, <2>1 DEF Steps
<1>7. ASSUME NEW k \in 0 .. n - 1, k \in S PROVE k + 1 \in S
  <2>1. PICK i \in 1 .. n : i = k + 1 /\ k = i - 1
    BY <1>0
  <2>2. run[i] = step[i][run[k]] /\ run[k] \in Picture /\ run[k] = PartMoved(m, dest, k)
    BY <1>0, <1>5, <1>7, <2>1 DEF Steps
  <2>3. step[i][run[k]] = [run[k] EXCEPT ![dest + k] = run[k][source + k]]
    BY <1>0, <2>1, <2>2 DEF step
  <2>4. dest + k \in Cells /\ source + k \in Cells
    BY <1>7 DEF n
  <2>5. run[k][source + k] = m[source + k]
    BY <1>0, <2>2, <2>4 DEF PartMoved, n
  <2>6. [run[k] EXCEPT ![dest + k] = m[source + k]] = PartMoved(m, dest, k + 1)
    <3>1. ASSUME NEW x \in Cells
          PROVE  (IF x = dest + k THEN m[source + k] ELSE run[k][x])
                 = IF dest <= x /\ x < dest + (k + 1) THEN m[x + MAX_COLS] ELSE m[x]
      <4>1. x \in Nat
        BY Geometry
      <4>2. run[k][x] = IF dest <= x /\ x < dest + k THEN m[x + MAX_COLS] ELSE m[x]
        BY <2>2 DEF PartMoved
      <4>3. CASE x = dest + k
        <5>1. source + k = x + MAX_COLS
          BY <1>0, <4>3
        <5> QED
          BY <1>0, <4>3, <5>1
      <4>4. CASE x # dest + k
        BY <1>0, <4>1, <4>2, <4>4
      <4> QED
        BY <4>3, <4>4
    <3>2. [run[k] EXCEPT ![dest + k] = m[source + k]]
          = [x \in Cells |-> IF x = dest + k THEN m[source + k] ELSE run[k][x]]
      BY <2>2, <2>4 DEF Picture
    <3> QED
      BY <3>1, <3>2 DEF PartMoved
  <2>7. run[i] = PartMoved(m, dest, k + 1)
    BY <2>2, <2>3, <2>5, <2>6
  <2> QED
    BY <2>1, <2>7
<1>8. n \in S
  <2>1. S \in SUBSET (0 .. n)
    OBVIOUS
  <2> HIDE DEF S
  <2>2. S = 0 .. n
    BY <1>0, <1>6, <1>7, <2>1, InductionUpTo
  <2> QED
    BY <1>0, <2>2
<1> QED
  BY <1>3, <1>5, <1>8 DEF order, n

LEMMA RowMoves ==
  ASSUME NEW m \in Picture, NEW i \in 1 .. MAX_ROWS - 1
  PROVE  /\ memory_copy(m, get_offset(0, i), get_offset(0, i - 1), MAX_COLS)
             = PartMoved(m, (i - 1) * MAX_COLS, MAX_COLS)
         /\ PartMoved(m, (i - 1) * MAX_COLS, MAX_COLS) \in Picture
<1>1. PICK dest \in Nat, source \in Nat :
        /\ dest = (i - 1) * MAX_COLS /\ source = i * MAX_COLS /\ source = dest + MAX_COLS
        /\ get_offset(0, i) = source /\ get_offset(0, i - 1) = dest
  BY DEF get_offset
<1>2. \A j \in 0 .. MAX_COLS - 1 : dest + j \in Cells /\ source + j \in Cells
  <2>1. i \in 0 .. MAX_ROWS - 1 /\ i - 1 \in 0 .. MAX_ROWS - 1
    OBVIOUS
  <2>2. \A j \in 0 .. MAX_COLS - 1 : i * MAX_COLS + j \in Cells /\ (i - 1) * MAX_COLS + j \in Cells
    BY <2>1, CellIn
  <2> QED
    BY <1>1, <2>2
<1>3. memory_copy(m, source, dest, MAX_COLS) = Copied(m, source, dest, Upwards(MAX_COLS))
  <2>1. source > dest
    BY <1>1
  <2>2. ~ (source < dest)
    BY <1>1
  <2> QED
    BY <2>1, <2>2, Zenon DEF memory_copy
<1>4. Copied(m, source, dest, Upwards(MAX_COLS)) = PartMoved(m, dest, MAX_COLS)
  BY <1>1, <1>2, CopyUp
<1>5. PartMoved(m, dest, MAX_COLS) \in Picture
  <2>1. ASSUME NEW x \in Cells, dest <= x, x < dest + MAX_COLS PROVE x + MAX_COLS \in Cells
    <3>1. PICK j \in 0 .. MAX_COLS - 1 : j = x - dest
      BY <2>1, Geometry
    <3>2. source + j = x + MAX_COLS
      BY <1>1, <3>1, Geometry
    <3> QED
      BY <1>2, <3>2
  <2> QED
    BY <2>1 DEF PartMoved, Picture
<1> QED
  BY <1>1, <1>3, <1>4, <1>5

\* The first i rows are those that were below them.
RowsMoved(m, i) == [x \in Cells |-> IF x < i * MAX_COLS THEN m[x + MAX_COLS] ELSE m[x]]

LEMMA OneMoreRow ==
  ASSUME NEW m \in Picture, NEW i \in 1 .. MAX_ROWS - 1
  PROVE  PartMoved(RowsMoved(m, i - 1), (i - 1) * MAX_COLS, MAX_COLS) = RowsMoved(m, i)
<1>1. PICK dest \in Nat, source \in Nat :
        /\ dest = (i - 1) * MAX_COLS /\ source = i * MAX_COLS /\ source = dest + MAX_COLS
  OBVIOUS
<1>2. ASSUME NEW x \in Cells
      PROVE  (IF dest <= x /\ x < source THEN RowsMoved(m, i - 1)[x + MAX_COLS] ELSE RowsMoved(m, i - 1)[x])
             = IF x < source THEN m[x + MAX_COLS] ELSE m[x]
  <2>1. x \in Nat
    BY Geometry
  <2>2. RowsMoved(m, i - 1)[x] = IF x < dest THEN m[x + MAX_COLS] ELSE m[x]
    BY <1>1 DEF RowsMoved
  <2>3. CASE dest <= x /\ x < source
    <3>1. x + MAX_COLS \in Cells
      <4>1. PICK j \in 0 .. MAX_COLS - 1 : j = x - dest
        BY <1>1, <2>1, <2>3
      <4>2. i \in 0 .. MAX_ROWS - 1
        OBVIOUS
      <4>3. x + MAX_COLS = i * MAX_COLS + j
        BY <1>1, <2>1, <4>1
      <4> QED
        BY <4>2, <4>3, CellIn
    <3>2. ~ (x + MAX_COLS < dest)
      BY <1>1, <2>1, <2>3
    <3>3. RowsMoved(m, i - 1)[x + MAX_COLS] = m[x + MAX_COLS]
      BY <1>1, <3>1, <3>2 DEF RowsMoved
    <3> QED
      BY <2>3, <3>3
  <2>4. CASE ~ (dest <= x /\ x < source)
    <3>1. x < source <=> x < dest
      BY <1>1, <2>1, <2>4
    <3> QED
      BY <2>2, <2>4, <3>1
  <2> QED
    BY <2>3, <2>4
<1> QED
  BY <1>1, <1>2 DEF PartMoved, RowsMoved

\* What print_char leaves after a scroll: every row is the one below it, the last one blank.
LEMMA ScrolledRows ==
  ASSUME NEW cells \in Picture
  PROVE  /\ Scrolled(cells) \in Picture
         /\ \A r \in 0 .. MAX_ROWS - 1, j \in 0 .. MAX_COLS - 1 :
              Scrolled(cells)[r * MAX_COLS + j] =
                IF r = MAX_ROWS - 1 THEN BLANK ELSE cells[(r + 1) * MAX_COLS + j]
<1> DEFINE order == Order
           n == MAX_ROWS - 1
           move(m, i) == memory_copy(m, get_offset(0, i), get_offset(0, i - 1), MAX_COLS)
           Solves(f) == f = [s \in SUBSET (1 .. n) |->
                         IF s = {} THEN cells ELSE move(f[s \ {Max(s)}], order[Max(s)])]
           f == CHOOSE f : Solves(f)
           step == [k \in 1 .. n |-> [x \in Picture |-> PartMoved(x, (k - 1) * MAX_COLS, MAX_COLS)]]
<1>0. n \in Nat /\ DOMAIN order = 1 .. n /\ \A k \in 1 .. n : order[k] = k
  BY DEF Order
<1>m. \A x \in Picture, k \in 1 .. n : /\ move(x, k) = PartMoved(x, (k - 1) * MAX_COLS, MAX_COLS)
                                       /\ PartMoved(x, (k - 1) * MAX_COLS, MAX_COLS) \in Picture
  BY RowMoves, Zenon
<1>a. step \in [1 .. n -> [Picture -> Picture]]
  BY <1>m, Zenon
<1> HIDE DEF n, order, step, move
<1>b. PICK g : Folds(g, Picture, cells, n, step)
  BY <1>0, <1>a, FoldExists
<1>c. ASSUME NEW k \in 1 .. n, NEW x \in Picture PROVE step[k][x] = move(x, order[k])
  BY <1>0, <1>c, <1>m, Zenon DEF step
<1>1. Solves(g)
  <2>3. ASSUME NEW s \in SUBSET (1 .. n), s # {}
        PROVE  step[Max(s)][g[s \ {Max(s)}]] = move(g[s \ {Max(s)}], order[Max(s)])
    <3>1. Max(s) \in 1 .. n
      BY <1>0, <2>3, MaxIn
    <3>2. g[s \ {Max(s)}] \in Picture
      BY <1>b DEF Folds
    <3> QED
      BY <1>c, <3>1, <3>2, Zenon
  <2> QED
    BY <1>b, <2>3, Zenon DEF Folds
<1>2. Solves(f)
  BY <1>1, Zenon
<1>3. Scrolled(cells) = [k \in DOMAIN cells |-> IF get_offset_row(k) = MAX_ROWS - 1 THEN BLANK ELSE f[1 .. n][k]]
  <2>1. FoldLeft(LAMBDA m, i : memory_copy(m, get_offset(0, i), get_offset(0, i - 1), MAX_COLS), cells, order)
        = f[1 .. n]
    BY <1>0, Zenon DEF FoldLeft, MapThenFoldSet, move
  <2> HIDE DEF f
  <2> QED
    BY <2>1, Zenon DEF Scrolled, order
<1> HIDE DEF f
<1>4. Unfolds(f, Picture, cells, n, step)
  <2>1. {} \in SUBSET (1 .. n)
    OBVIOUS
  <2>2. f[{}] = cells
    BY <1>2, <2>1, Zenon
  <2>3. ASSUME NEW s \in SUBSET (1 .. n), s # {}, f[s \ {Max(s)}] \in Picture
        PROVE  f[s] = step[Max(s)][f[s \ {Max(s)}]]
    <3>1. Max(s) \in 1 .. n
      BY <1>0, <2>3, MaxIn
    <3> QED
      BY <1>2, <1>c, <2>3, <3>1, Zenon
  <2> QED
    BY <2>2, <2>3, Zenon DEF Unfolds
<1>5. PICK run : Steps(run, Picture, cells, n, step) /\ run[n] = f[1 .. n]
  <2>1. RunsTo(f[1 .. n], Picture, cells, n, step)
    BY <1>0, <1>a, <1>4, FoldSteps, Zenon
  <2> QED
    BY <2>1, Zenon DEF RunsTo
<1> DEFINE S == {k \in 0 .. n : run[k] = RowsMoved(cells, k)}
<1>6. 0 \in S
  <2>1. RowsMoved(cells, 0) = cells
    <3>1. \A x \in Cells : ~ (x < 0 * MAX_COLS)
      BY Geometry
    <3>2. RowsMoved(cells, 0) = [x \in Cells |-> cells[x]]
      BY <3>1, Zenon DEF RowsMoved
    <3> QED
      BY <3>2 DEF Picture
  <2> QED
    BY <1>0, <1>5, <2>1 DEF Steps
<1>7. ASSUME NEW k \in 0 .. n - 1, k \in S PROVE k + 1 \in S
  <2>1. PICK i \in 1 .. n : i = k + 1 /\ k = i - 1
    BY <1>0
  <2>2. run[i] = step[i][RowsMoved(cells, i - 1)] /\ RowsMoved(cells, i - 1) \in Picture
    BY <1>0, <1>5, <1>7, <2>1 DEF Steps
  <2>3. step[i][RowsMoved(cells, i - 1)] = PartMoved(RowsMoved(cells, i - 1), (i - 1) * MAX_COLS, MAX_COLS)
    BY <2>1, <2>2, Zenon DEF step
  <2>4. PartMoved(RowsMoved(cells, i - 1), (i - 1) * MAX_COLS, MAX_COLS) = RowsMoved(cells, i)
    BY <2>1, OneMoreRow, Zenon DEF n
  <2>5. run[i] = RowsMoved(cells, i)
    BY <2>2, <2>3, <2>4
  <2> QED
    BY <2>1, <2>5
<1>8. f[1 .. n] = RowsMoved(cells, n)
  <2>1. S \in SUBSET (0 .. n)
    OBVIOUS
  <2> HIDE DEF S
  <2>2. S = 0 .. n
    BY <1>0, <1>6, <1>7, <2>1, InductionUpTo
  <2>3. n \in S
    BY <1>0, <2>2
  <2> QED
    BY <1>5, <2>3 DEF S
<1>9. ASSUME NEW r \in 0 .. MAX_ROWS - 1, NEW j \in 0 .. MAX_COLS - 1
      PROVE  /\ Scrolled(cells)[r * MAX_COLS + j] =
                   IF r = MAX_ROWS - 1 THEN BLANK ELSE cells[(r + 1) * MAX_COLS + j]
             /\ Scrolled(cells)[r * MAX_COLS + j] \in Nat
  <2>1. PICK k \in Cells : k = r * MAX_COLS + j
    BY CellIn
  <2>2. get_offset_row(k) = r
    <3>1. r \in Int
      OBVIOUS
    <3>2. get_offset_row(r * MAX_COLS + j) = r
      BY <3>1, RowAndColumn, Zenon
    <3> QED
      BY <2>1, <3>2
  <2>3. Scrolled(cells)[k] = IF r = MAX_ROWS - 1 THEN BLANK ELSE RowsMoved(cells, n)[k]
    BY <1>3, <1>8, <2>2 DEF Picture
  <2>4. CASE r = MAX_ROWS - 1
    BY <2>1, <2>3, <2>4 DEF BLANK
  <2>5. CASE r # MAX_ROWS - 1
    <3>1. r < n /\ r + 1 \in 0 .. MAX_ROWS - 1
      BY <2>5 DEF n
    <3>2. k < n * MAX_COLS
      BY <1>0, <2>1, <3>1, RowBelow
    <3>3. RowsMoved(cells, n)[k] = cells[k + MAX_COLS]
      BY <3>2 DEF RowsMoved
    <3>4. PICK q \in Cells : q = (r + 1) * MAX_COLS + j
      BY <3>1, CellIn
    <3>5. k + MAX_COLS = q
      BY <2>1, <3>4
    <3>6. cells[q] \in Nat
      BY DEF Picture
    <3> QED
      BY <2>1, <2>3, <2>5, <3>3, <3>4, <3>5, <3>6
  <2> QED
    BY <2>4, <2>5
<1>10. Scrolled(cells) \in Picture
  <2>1. ASSUME NEW k \in Cells PROVE Scrolled(cells)[k] \in Nat
    <3>1. PICK r \in 0 .. MAX_ROWS - 1, j \in 0 .. MAX_COLS - 1 : k = r * MAX_COLS + j
      BY CellSplits
    <3> QED
      BY <1>9, <3>1
  <2>2. Scrolled(cells) = [k \in Cells |-> Scrolled(cells)[k]]
    BY <1>3 DEF Picture
  <2> QED
    BY <2>1, <2>2 DEF Picture
<1> QED
  BY <1>9, <1>10

-----------------------------------------------------------------------------
(* The state in print_char.                                                *)

State == [cells : Picture, offset : Nat]

LEMMA StoredIs ==
  ASSUME NEW m \in Picture, NEW o \in Cells, NEW c \in Nat
  PROVE  Stored(m, o, c) = [m EXCEPT ![o] = c]
<1>1. DOMAIN m = Cells /\ Cells \union {o} = Cells
  BY DEF Picture
<1> QED
  BY <1>1 DEF Stored

LEMMA AfterIs ==
  ASSUME NEW r \in 0 .. MAX_ROWS - 1, NEW j \in 0 .. MAX_COLS - 1, NEW c \in Nat
  PROVE  /\ After(r * MAX_COLS + j, c) \in Nat
         /\ After(r * MAX_COLS + j, c) <= CELLS
         /\ c = NEWLINE => After(r * MAX_COLS + j, c) = (r + 1) * MAX_COLS
         /\ c # NEWLINE => After(r * MAX_COLS + j, c) = r * MAX_COLS + j + 1
<1>1. PICK o \in Cells : o = r * MAX_COLS + j
  BY CellIn
<1>2. o \in Nat /\ o < CELLS /\ CELLS \in Nat
  BY Geometry
<1>3. CASE c # NEWLINE
  BY <1>1, <1>2, <1>3 DEF After
<1>4. CASE c = NEWLINE
  <2>1. r \in Int
    OBVIOUS
  <2>2. get_offset_row(r * MAX_COLS + j) = r
    BY <2>1, RowAndColumn, Zenon
  <2>3. After(r * MAX_COLS + j, c) = (r + 1) * MAX_COLS + 0
    BY <1>4, <2>2, Zenon DEF After, get_offset
  <2>4. PICK x \in Nat : x = (r + 1) * MAX_COLS
    OBVIOUS
  <2>5. x <= CELLS
    <3>1. CASE r + 1 = MAX_ROWS
      BY <2>4, <3>1 DEF CELLS
    <3>2. CASE r + 1 # MAX_ROWS
      <4>1. r + 1 \in 0 .. MAX_ROWS - 1 /\ 0 \in 0 .. MAX_COLS - 1
        BY <3>2
      <4>2. (r + 1) * MAX_COLS + 0 \in Cells
        BY <4>1, CellIn
      <4>3. x \in Cells
        BY <2>4, <4>2
      <4> QED
        BY <1>2, <4>3, Geometry
    <3> QED
      BY <3>1, <3>2
  <2> QED
    BY <1>4, <2>3, <2>4, <2>5
<1> QED
  BY <1>3, <1>4

\* The characters of the screen after the one at offset o has been stored.
Shows(m, o, c) == IF c = NEWLINE THEN m ELSE [m EXCEPT ![o] = c]

LEMMA PrintOn ==
  ASSUME NEW s \in State, NEW c \in Nat, s.offset < CELLS
  PROVE  /\ ~OffScreen(s.offset)
         /\ Shows(s.cells, s.offset, c) \in Picture
         /\ After(s.offset, c) < CELLS =>
              print_char(s, c) = [cells |-> Shows(s.cells, s.offset, c), offset |-> After(s.offset, c)]
         /\ ~ (After(s.offset, c) < CELLS) =>
              print_char(s, c) = [cells |-> Scrolled(Shows(s.cells, s.offset, c)),
                                  offset |-> After(s.offset, c) - MAX_COLS]
<1>0. s.offset \in Nat /\ s.cells \in Picture
  BY DEF State
<1>1. ~OffScreen(s.offset)
  BY <1>0, Geometry DEF OffScreen
<1>2. s.offset \in Cells
  BY <1>0, Geometry
<1>3. Shows(s.cells, s.offset, c) = IF c = NEWLINE THEN s.cells ELSE Stored(s.cells, s.offset, c)
  BY <1>0, <1>2, StoredIs, Zenon DEF Shows
<1>4. Shows(s.cells, s.offset, c) \in Picture
  BY <1>0, <1>2 DEF Shows, Picture
<1>5. print_char(s, c) =
        CASE OffScreen(s.offset) -> [s EXCEPT !.cells[CELLS - 1] = ERROR_MARK]
          [] ~OffScreen(s.offset) /\ After(s.offset, c) < CELLS ->
               [cells |-> Shows(s.cells, s.offset, c), offset |-> After(s.offset, c)]
          [] OTHER -> [cells |-> Scrolled(Shows(s.cells, s.offset, c)), offset |-> After(s.offset, c) - MAX_COLS]
  BY <1>3, Zenon DEF print_char
<1> QED
  BY <1>1, <1>4, <1>5, Zenon

LEMMA PrintOff ==
  ASSUME NEW s \in State, NEW c \in Nat, ~ (s.offset < CELLS)
  PROVE  /\ OffScreen(s.offset)
         /\ print_char(s, c) \in State /\ print_char(s, c).offset = s.offset
<1>0. s.offset \in Nat /\ s.cells \in Picture
  BY DEF State
<1>1. OffScreen(s.offset)
  BY <1>0, Geometry DEF OffScreen
<1>2. print_char(s, c) = [s EXCEPT !.cells[CELLS - 1] = ERROR_MARK]
  BY <1>1, Zenon DEF print_char
<1>3. [s.cells EXCEPT ![CELLS - 1] = ERROR_MARK] \in Picture
  BY <1>0 DEF Picture, ERROR_MARK
<1>4. [s EXCEPT !.cells[CELLS - 1] = ERROR_MARK] = [cells |-> [s.cells EXCEPT ![CELLS - 1] = ERROR_MARK], offset |-> s.offset]
  BY DEF State
<1> QED
  BY <1>0, <1>1, <1>2, <1>3, <1>4 DEF State

\* print_char keeps the cursor on the screen, or off it and where it is.
LEMMA PrintType ==
  ASSUME NEW s \in State, NEW c \in Nat
  PROVE  /\ print_char(s, c) \in State
         /\ s.offset < CELLS => print_char(s, c).offset < CELLS
         /\ ~ (s.offset < CELLS) => print_char(s, c).offset = s.offset
<1>1. CASE ~ (s.offset < CELLS)
  BY <1>1, PrintOff
<1>2. CASE s.offset < CELLS
  <2>0. s.offset \in Nat /\ s.cells \in Picture /\ s.offset \in Cells
    BY <1>2, Geometry DEF State
  <2>1. PICK r \in 0 .. MAX_ROWS - 1, j \in 0 .. MAX_COLS - 1 : s.offset = r * MAX_COLS + j
    BY <2>0, CellSplits
  <2>2. PICK a \in Nat : a = After(s.offset, c) /\ a <= CELLS
    BY <2>1, AfterIs
  <2>3. Shows(s.cells, s.offset, c) \in Picture
    BY <1>2, PrintOn
  <2>4. CASE a < CELLS
    <3>1. print_char(s, c) = [cells |-> Shows(s.cells, s.offset, c), offset |-> a]
      BY <1>2, <2>2, <2>4, PrintOn
    <3> QED
      BY <1>2, <2>3, <2>4, <3>1 DEF State
  <2>5. CASE ~ (a < CELLS)
    <3>1. print_char(s, c) = [cells |-> Scrolled(Shows(s.cells, s.offset, c)), offset |-> a - MAX_COLS]
      BY <1>2, <2>2, <2>5, PrintOn
    <3>2. Scrolled(Shows(s.cells, s.offset, c)) \in Picture
      BY <2>3, ScrolledRows
    <3>3. a - MAX_COLS \in Nat /\ a - MAX_COLS < CELLS
      BY <2>2, <2>5, Geometry
    <3> QED
      BY <1>2, <3>1, <3>2, <3>3 DEF State
  <2> QED
    BY <2>4, <2>5
<1> QED
  BY <1>1, <1>2

\* What is on the screen after each character of a text.
Printed(shown, base, text) ==
  /\ shown[0] = base
  /\ \A k \in 1 .. Len(text) : shown[k] = print_char(shown[k - 1], text[k])

LEMMA PrintFold ==
  ASSUME NEW base \in State, NEW text \in Seq(Nat)
  PROVE  \E shown : Printed(shown, base, text) /\ FoldLeft(print_char, base, text) = shown[Len(text)]
<1> DEFINE n == Len(text)
           Solves(f) == f = [s \in SUBSET (1 .. n) |->
                         IF s = {} THEN base ELSE print_char(f[s \ {Max(s)}], text[Max(s)])]
           f == CHOOSE f : Solves(f)
<1>0. n \in Nat /\ DOMAIN text = 1 .. n /\ \A k \in 1 .. n : text[k] \in Nat
  OBVIOUS
<1> HIDE DEF n
<1>1. \E g : Solves(g)
  <2> DEFINE step == [k \in 1 .. n |-> [s \in State |-> print_char(s, text[k])]]
  <2>1. step \in [1 .. n -> [State -> State]]
    BY <1>0, PrintType
  <2> HIDE DEF step
  <2>2. PICK g : Folds(g, State, base, n, step)
    BY <1>0, <2>1, FoldExists
  <2>3. ASSUME NEW s \in SUBSET (1 .. n), s # {}
        PROVE  step[Max(s)][g[s \ {Max(s)}]] = print_char(g[s \ {Max(s)}], text[Max(s)])
    <3>1. Max(s) \in 1 .. n
      BY <1>0, <2>3, MaxIn
    <3>2. g[s \ {Max(s)}] \in State
      BY <2>2 DEF Folds
    <3> QED
      BY <3>1, <3>2, Zenon DEF step
  <2>4. ASSUME NEW s \in SUBSET (1 .. n)
        PROVE  g[s] = IF s = {} THEN base ELSE print_char(g[s \ {Max(s)}], text[Max(s)])
    BY <2>2, <2>3, Zenon DEF Folds
  <2>5. Solves(g)
    BY <2>2, <2>4, Zenon DEF Folds
  <2> QED
    BY <2>5
<1>2. Solves(f)
  BY <1>1, Zenon
<1>3. FoldLeft(print_char, base, text) = f[1 .. n]
  BY <1>0, Zenon DEF FoldLeft, MapThenFoldSet
<1> DEFINE shown == [k \in 0 .. n |-> f[1 .. k]]
<1> HIDE DEF f
<1>4. shown[0] = base
  <2>1. f[{}] = base
    BY <1>2, Zenon
  <2>2. 1 .. 0 = {}
    OBVIOUS
  <2>3. shown[0] = f[1 .. 0]
    BY <1>0
  <2> QED
    BY <2>1, <2>2, <2>3
<1>5. ASSUME NEW k \in 1 .. n PROVE shown[k] = print_char(shown[k - 1], text[k])
  <2>1. 1 .. k # {} /\ Max(1 .. k) = k /\ (1 .. k) \ {k} = 1 .. k - 1
    <3>1. k \in Nat \ {0}
      BY <1>0
    <3> QED
      BY <3>1, MaxOfAll
  <2>2. 1 .. k \in SUBSET (1 .. n)
    BY <1>0
  <2>3. f[1 .. k] = print_char(f[1 .. k - 1], text[k])
    BY <1>2, <2>1, <2>2, Zenon
  <2>4. shown[k] = f[1 .. k] /\ shown[k - 1] = f[1 .. k - 1]
    BY <1>0
  <2> QED
    BY <2>3, <2>4
<1>6. shown[n] = f[1 .. n]
  BY <1>0
<1> QED
  BY <1>3, <1>4, <1>5, <1>6, Zenon DEF Printed, n

\* So does a text.
LEMMA PrintText ==
  ASSUME NEW base \in State, NEW text \in Seq(Nat)
  PROVE  /\ FoldLeft(print_char, base, text) \in State
         /\ base.offset < CELLS => FoldLeft(print_char, base, text).offset < CELLS
         /\ ~ (base.offset < CELLS) => FoldLeft(print_char, base, text).offset = base.offset
<1> DEFINE n == Len(text)
<1>1. PICK shown : Printed(shown, base, text) /\ FoldLeft(print_char, base, text) = shown[n]
  BY PrintFold
<1>2. n \in Nat /\ \A k \in 1 .. n : text[k] \in Nat
  OBVIOUS
<1> HIDE DEF n
<1> DEFINE Good(s) == /\ s \in State
                      /\ base.offset < CELLS => s.offset < CELLS
                      /\ ~ (base.offset < CELLS) => s.offset = base.offset
           S == {k \in 0 .. n : Good(shown[k])}
<1>3. 0 \in S
  BY <1>1, <1>2 DEF Printed
<1>4. ASSUME NEW k \in 0 .. n - 1, k \in S PROVE k + 1 \in S
  <2>1. k + 1 \in 1 .. n /\ (k + 1) - 1 = k
    BY <1>2
  <2>2. shown[k + 1] = print_char(shown[k], text[k + 1])
    BY <1>1, <2>1 DEF Printed, n
  <2>3. Good(shown[k]) /\ text[k + 1] \in Nat
    BY <1>2, <1>4, <2>1
  <2>4. Good(print_char(shown[k], text[k + 1]))
    BY <2>3, PrintType
  <2> QED
    BY <2>1, <2>2, <2>4
<1>5. S \in SUBSET (0 .. n)
  OBVIOUS
<1> HIDE DEF S
<1>6. n \in S
  <2>1. n \in Nat /\ n \in 0 .. n
    BY <1>2
  <2>2. S = 0 .. n
    BY <1>3, <1>4, <1>5, <2>1, InductionUpTo, Zenon
  <2> QED
    BY <2>1, <2>2
<1>7. Good(shown[n])
  BY <1>6 DEF S
<1> QED
  BY <1>1, <1>7

-----------------------------------------------------------------------------
(* The bytes of the cursor.                                                *)

HighParts == {h * BYTE : h \in 0 .. BYTE - 1}

LEMMA Bytes ==
  /\ BYTE \in Nat \ {0} /\ CELLS <= BYTE * BYTE
  /\ \A h \in 0 .. BYTE - 1, l \in 0 .. BYTE - 1 : h * BYTE + l \in 0 .. BYTE * BYTE - 1
<1>1. BYTE \in Nat \ {0}
  <2>1. BYTE = 0 => BYTE * BYTE = 0
    OBVIOUS
  <2> QED
    BY <2>1, Geometry
<1>2. ASSUME NEW h \in 0 .. BYTE - 1, NEW l \in 0 .. BYTE - 1
      PROVE  h * BYTE + l \in 0 .. BYTE * BYTE - 1
  <2>1. PICK d \in Int : d = h - BYTE /\ d <= -1
    BY <1>1
  <2>2. d * BYTE <= -BYTE
    BY <1>1, <2>1, MultipleFar
  <2>3. PICK x \in Int, y \in Int, z \in Int : x = h * BYTE /\ y = BYTE * BYTE /\ z = d * BYTE
    BY <2>1
  <2>4. z = x - y
    BY <2>1, <2>3
  <2>5. x >= 0
    BY <2>3
  <2> QED
    BY <1>1, <2>2, <2>3, <2>4, <2>5
<1> QED
  BY <1>1, <1>2

LEMMA ByteParts ==
  ASSUME NEW o \in 0 .. BYTE * BYTE - 1
  PROVE  /\ HighByte(o) \in 0 .. BYTE - 1 /\ LowByte(o) \in 0 .. BYTE - 1
         /\ HighByte(o) * BYTE + LowByte(o) = o
<1>1. BYTE \in Nat \ {0} /\ o \in Nat /\ o < BYTE * BYTE
  BY Bytes
<1>2. PICK h \in Int, l \in 0 .. BYTE - 1 : h = o \div BYTE /\ l = o % BYTE /\ o = h * BYTE + l
  <2>1. o \div BYTE \in Int /\ o % BYTE \in 0 .. BYTE - 1 /\ o = (o \div BYTE) * BYTE + (o % BYTE)
    BY <1>1
  <2> QED
    BY <2>1
<1>3. h \in 0 .. BYTE - 1
  <2>1. PICK x \in Int, y \in Int : x = h * BYTE /\ y = BYTE * BYTE
    BY <1>1
  <2>2. h <= -1 => x <= -BYTE
    BY <1>1, <2>1, MultipleFar
  <2>3. PICK d \in Int, z \in Int : d = h - BYTE /\ z = d * BYTE
    BY <1>1
  <2>4. z = x - y /\ (d >= 1 => z >= BYTE) /\ (d = 0 => z = 0)
    BY <1>1, <2>1, <2>3, MultipleFar
  <2> QED
    BY <1>1, <1>2, <2>1, <2>2, <2>3, <2>4
<1>4. h % BYTE = h
  BY <1>1, <1>3
<1> QED
  BY <1>1, <1>2, <1>3, <1>4 DEF HighByte, LowByte

-----------------------------------------------------------------------------
(* Every variable keeps its type.                                          *)

Labels == {"out", "get high", "read high", "get low", "read low", "print",
           "set high", "write high", "set low", "write low"}
HalfRead == {"get low", "read low"}

\* Between the two reads of the cursor the offset is the high byte only: what is added
\* to it does not take it beyond the last value of the registers.
SInv ==
  /\ vidmem \in Picture
  /\ selected \in {14, 15}
  /\ register \in [{14, 15} -> 0 .. BYTE - 1]
  /\ running \in Processes
  /\ pc \in [Processes -> Labels]
  /\ message \in [Processes -> Seq(Nat)]
  /\ offset \in [Processes -> 0 .. BYTE * BYTE - 1]
  /\ \A p \in Processes : pc[p] \in HalfRead => offset[p] \in HighParts
  /\ mixed \in BOOLEAN

LEMMA SInitInv == Init => SInv
<1> SUFFICES ASSUME Init PROVE SInv
  OBVIOUS
<1>1. 0 \in 0 .. BYTE * BYTE - 1 /\ 0 \in 0 .. BYTE - 1
  BY Bytes
<1>2. "out" \in Labels /\ "out" \notin HalfRead
  BY Zenon DEF Labels, HalfRead
<1>3. vidmem \in Picture
  BY DEF Init, Picture, BLANK
<1>4. register \in [{14, 15} -> 0 .. BYTE - 1]
  BY <1>1 DEF Init
<1>5. pc \in [Processes -> Labels] /\ \A p \in Processes : pc[p] \notin HalfRead
  BY <1>2, Zenon DEF Init
<1>6. message \in [Processes -> Seq(Nat)] /\ offset \in [Processes -> 0 .. BYTE * BYTE - 1]
  BY <1>1 DEF Init
<1>7. selected \in {14, 15} /\ running \in Processes /\ mixed \in BOOLEAN
  BY Zenon DEF Init
<1> QED
  BY <1>3, <1>4, <1>5, <1>6, <1>7, Zenon DEF SInv

\* A step of process p that stores in its locals and in one register at most.
LEMMA LocalStep ==
  ASSUME SInv, NEW p \in Processes, NEW to \in Labels, goto(p, to),
         NEW value \in 0 .. BYTE * BYTE - 1, offset' = [offset EXCEPT ![p] = value],
         to \in HalfRead => value \in HighParts,
         NEW text \in Seq(Nat), message' = [message EXCEPT ![p] = text],
         selected' \in {14, 15}, register' \in [{14, 15} -> 0 .. BYTE - 1],
         vidmem' \in Picture, UNCHANGED <<running, mixed>>
  PROVE  SInv'
<1>1. pc \in [Processes -> Labels] /\ pc' = [pc EXCEPT ![p] = to]
  BY Zenon DEF SInv, goto
<1>2. pc' \in [Processes -> Labels]
  BY <1>1, Zenon
<1>3. message' \in [Processes -> Seq(Nat)] /\ offset' \in [Processes -> 0 .. BYTE * BYTE - 1]
  BY DEF SInv
<1>4. ASSUME NEW q \in Processes, pc'[q] \in HalfRead PROVE offset'[q] \in HighParts
  <2>1. CASE q = p
    <3>1. pc'[p] = to /\ offset'[p] = value
      BY <1>1, Zenon DEF SInv
    <3> QED
      BY <1>4, <2>1, <3>1, Zenon
  <2>2. CASE q # p
    <3>1. pc'[q] = pc[q] /\ offset'[q] = offset[q]
      BY <1>1, <2>2, Zenon DEF SInv
    <3> QED
      BY <1>4, <3>1, Zenon DEF SInv
  <2> QED
    BY <2>1, <2>2
<1>5. running' \in Processes /\ mixed' \in BOOLEAN
  BY Zenon DEF SInv
<1> QED
  BY <1>2, <1>3, <1>4, <1>5, Zenon DEF SInv

\* What holds of process p before and after such a step.
LEMMA LocalTypes ==
  ASSUME SInv, NEW p \in Processes
  PROVE  /\ offset = [offset EXCEPT ![p] = offset[p]] /\ offset[p] \in 0 .. BYTE * BYTE - 1
         /\ message = [message EXCEPT ![p] = message[p]] /\ message[p] \in Seq(Nat)
         /\ selected \in {14, 15} /\ register[selected] \in 0 .. BYTE - 1
         /\ register[14] \in 0 .. BYTE - 1 /\ register[15] \in 0 .. BYTE - 1
         /\ Cursor \in 0 .. BYTE * BYTE - 1
<1>1. register[14] \in 0 .. BYTE - 1 /\ register[15] \in 0 .. BYTE - 1
  BY DEF SInv
<1>2. Cursor \in 0 .. BYTE * BYTE - 1
  BY <1>1, Bytes DEF Cursor
<1>3. selected = 14 \/ selected = 15
  BY DEF SInv
<1> QED
  BY <1>1, <1>2, <1>3 DEF SInv

LEMMA KprintType ==
  ASSUME SInv, NEW p \in Processes, NEW m \in Messages, kprint(p, m)
  PROVE  SInv'
<1>1. "get high" \in Labels /\ "get high" \notin HalfRead
  BY Zenon DEF Labels, HalfRead
<1>2. m \in Seq(Nat)
  OBVIOUS
<1>3. /\ goto(p, "get high") /\ message' = [message EXCEPT ![p] = m]
      /\ UNCHANGED <<vidmem, selected, register, running, offset, mixed>>
  BY Zenon DEF kprint, history
<1>4. /\ offset' = [offset EXCEPT ![p] = offset[p]] /\ offset[p] \in 0 .. BYTE * BYTE - 1
      /\ selected' \in {14, 15} /\ register' \in [{14, 15} -> 0 .. BYTE - 1] /\ vidmem' \in Picture
  BY <1>3, LocalTypes, Zenon DEF SInv
<1>5. UNCHANGED <<running, mixed>>
  BY <1>3, Zenon
<1> QED
  BY <1>1, <1>2, <1>3, <1>4, <1>5, LocalStep, Zenon

LEMMA SelectType ==
  ASSUME SInv, NEW p \in Processes, NEW from, NEW r \in {14, 15}, NEW to \in Labels,
         to \in HalfRead => from \in HalfRead, Select(p, from, r, to)
  PROVE  SInv'
<1>1. /\ goto(p, to) /\ pc[p] = from /\ selected' = r
      /\ UNCHANGED <<vidmem, register, running, message, offset, mixed>>
  BY Zenon DEF Select, at, history
<1>2. /\ offset' = [offset EXCEPT ![p] = offset[p]] /\ offset[p] \in 0 .. BYTE * BYTE - 1
      /\ message' = [message EXCEPT ![p] = message[p]] /\ message[p] \in Seq(Nat)
      /\ selected' \in {14, 15} /\ register' \in [{14, 15} -> 0 .. BYTE - 1] /\ vidmem' \in Picture
  BY <1>1, LocalTypes, Zenon DEF SInv
<1>3. to \in HalfRead => offset[p] \in HighParts
  BY <1>1, Zenon DEF SInv
<1>4. UNCHANGED <<running, mixed>>
  BY <1>1, Zenon
<1> QED
  BY <1>1, <1>2, <1>3, <1>4, LocalStep, Zenon

LEMMA ReadType ==
  ASSUME SInv, NEW p \in Processes, NEW from, NEW value \in 0 .. BYTE * BYTE - 1, NEW to \in Labels,
         to \in HalfRead => value \in HighParts, Read(p, from, value, to)
  PROVE  SInv'
<1>1. /\ goto(p, to) /\ offset' = [offset EXCEPT ![p] = value]
      /\ UNCHANGED <<vidmem, selected, register, running, message, mixed>>
  BY Zenon DEF Read, history
<1>2. /\ message' = [message EXCEPT ![p] = message[p]] /\ message[p] \in Seq(Nat)
      /\ selected' \in {14, 15} /\ register' \in [{14, 15} -> 0 .. BYTE - 1] /\ vidmem' \in Picture
  BY <1>1, LocalTypes, Zenon DEF SInv
<1>3. UNCHANGED <<running, mixed>>
  BY <1>1, Zenon
<1> QED
  BY <1>1, <1>2, <1>3, LocalStep, Zenon

LEMMA WriteType ==
  ASSUME SInv, NEW p \in Processes, NEW from, NEW value \in 0 .. BYTE - 1, NEW to \in Labels,
         to \notin HalfRead, Write(p, from, value, to)
  PROVE  SInv'
<1>1. /\ goto(p, to) /\ register' = [register EXCEPT ![selected] = value]
      /\ UNCHANGED <<vidmem, selected, running, message, offset, mixed>>
  BY Zenon DEF Write, history
<1>2. /\ offset' = [offset EXCEPT ![p] = offset[p]] /\ offset[p] \in 0 .. BYTE * BYTE - 1
      /\ message' = [message EXCEPT ![p] = message[p]] /\ message[p] \in Seq(Nat)
      /\ selected' \in {14, 15} /\ vidmem' \in Picture
  BY <1>1, LocalTypes, Zenon DEF SInv
<1>3. register' \in [{14, 15} -> 0 .. BYTE - 1]
  BY <1>1, Zenon DEF SInv
<1>4. UNCHANGED <<running, mixed>>
  BY <1>1, Zenon
<1> QED
  BY <1>1, <1>2, <1>3, <1>4, LocalStep, Zenon

LEMMA GetType ==
  ASSUME SInv, NEW p \in Processes, get_cursor_offset(p)
  PROVE  SInv'
<1>1. /\ "read high" \in Labels /\ "get low" \in Labels /\ "read low" \in Labels /\ "print" \in Labels
      /\ "read high" \notin HalfRead /\ "get low" \in HalfRead /\ "read low" \in HalfRead
      /\ "print" \notin HalfRead /\ 14 \in {14, 15} /\ 15 \in {14, 15}
  BY Zenon DEF Labels, HalfRead
<1>2. CASE Select(p, "get high", 14, "read high")
  BY <1>1, <1>2, SelectType, Zenon
<1>3. CASE Read(p, "read high", register[selected] * BYTE, "get low")
  <2>1. PICK h \in 0 .. BYTE - 1 : h = register[selected]
    BY LocalTypes
  <2>2. h * BYTE \in HighParts
    BY DEF HighParts
  <2>3. h * BYTE \in 0 .. BYTE * BYTE - 1
    <3>1. 0 \in 0 .. BYTE - 1 /\ h * BYTE + 0 \in 0 .. BYTE * BYTE - 1
      BY Bytes
    <3>2. h * BYTE + 0 = h * BYTE
      BY Bytes
    <3> QED
      BY <3>1, <3>2
  <2> QED
    BY <1>1, <1>3, <2>1, <2>2, <2>3, ReadType, Zenon
<1>4. CASE Select(p, "get low", 15, "read low")
  BY <1>1, <1>4, SelectType, Zenon
<1>5. CASE Read(p, "read low", offset[p] + register[selected], "print")
  <2>1. pc[p] = "read low"
    BY <1>5, Zenon DEF Read, at
  <2>2. offset[p] \in HighParts
    BY <1>1, <2>1, Zenon DEF SInv
  <2>3. PICK h \in 0 .. BYTE - 1 : offset[p] = h * BYTE
    BY <2>2 DEF HighParts
  <2>4. PICK l \in 0 .. BYTE - 1 : l = register[selected]
    BY LocalTypes
  <2>5. offset[p] + register[selected] \in 0 .. BYTE * BYTE - 1
    BY <2>3, <2>4, Bytes
  <2> QED
    BY <1>1, <1>5, <2>5, ReadType, Zenon
<1> QED
  BY <1>2, <1>3, <1>4, <1>5, Zenon DEF get_cursor_offset

LEMMA SetType ==
  ASSUME SInv, NEW p \in Processes, set_cursor_offset(p)
  PROVE  SInv'
<1>1. /\ "write high" \in Labels /\ "set low" \in Labels /\ "write low" \in Labels /\ "print" \in Labels
      /\ "write high" \notin HalfRead /\ "set low" \notin HalfRead /\ "write low" \notin HalfRead
      /\ "print" \notin HalfRead /\ 14 \in {14, 15} /\ 15 \in {14, 15}
  BY Zenon DEF Labels, HalfRead
<1>2. HighByte(offset[p]) \in 0 .. BYTE - 1 /\ LowByte(offset[p]) \in 0 .. BYTE - 1
  BY LocalTypes, ByteParts
<1>3. CASE Select(p, "set high", 14, "write high")
  BY <1>1, <1>3, SelectType, Zenon
<1>4. CASE Write(p, "write high", HighByte(offset[p]), "set low")
  BY <1>1, <1>2, <1>4, WriteType, Zenon
<1>5. CASE Select(p, "set low", 15, "write low")
  BY <1>1, <1>5, SelectType, Zenon
<1>6. CASE Write(p, "write low", LowByte(offset[p]), "print")
  BY <1>1, <1>2, <1>6, WriteType, Zenon
<1> QED
  BY <1>3, <1>4, <1>5, <1>6, Zenon DEF set_cursor_offset

LEMMA PrintCharType ==
  ASSUME SInv, NEW p \in Processes, PrintChar(p)
  PROVE  SInv'
<1>1. "print" \in Labels /\ "set high" \in Labels /\ "print" \notin HalfRead /\ "set high" \notin HalfRead
  BY Zenon DEF Labels, HalfRead
<1>2. message[p] # <<>> /\ message[p] \in Seq(Nat)
  BY LocalTypes, Zenon DEF PrintChar
<1>3. Head(message[p]) \in Nat /\ Tail(message[p]) \in Seq(Nat)
  BY <1>2
<1>4. PICK c \in Nat : c = Head(message[p])
  BY <1>3
<1>5. PICK s \in State : s = [cells |-> vidmem, offset |-> offset[p]]
  <2>1. offset[p] \in Nat
    BY LocalTypes, Bytes
  <2> QED
    BY <2>1, Zenon DEF State, SInv
<1>6. PICK t \in State : t = print_char(s, c)
  BY PrintType
<1>7. /\ vidmem' = t.cells /\ offset' = [offset EXCEPT ![p] = t.offset]
      /\ message' = [message EXCEPT ![p] = Tail(message[p])]
      /\ goto(p, IF OffScreen(offset[p]) THEN "print" ELSE "set high")
      /\ UNCHANGED <<selected, register, running, mixed>>
  BY <1>4, <1>5, <1>6, Zenon DEF PrintChar
<1>8. t.offset \in 0 .. BYTE * BYTE - 1
  <2>1. s.offset = offset[p] /\ s.offset \in Nat /\ t.offset \in Nat
    BY <1>5 DEF State
  <2>2. CASE s.offset < CELLS
    <3>1. t.offset < CELLS
      BY <1>6, <2>2, PrintType
    <3> QED
      BY <2>1, <3>1, Bytes, Geometry
  <2>3. CASE ~ (s.offset < CELLS)
    <3>1. t.offset = s.offset
      BY <1>6, <2>3, PrintType
    <3> QED
      BY <2>1, <3>1, LocalTypes
  <2> QED
    BY <2>2, <2>3
<1>9. PICK to \in Labels : to = (IF OffScreen(offset[p]) THEN "print" ELSE "set high") /\ to \notin HalfRead
  BY <1>1, Zenon
<1>10. vidmem' \in Picture /\ selected' \in {14, 15} /\ register' \in [{14, 15} -> 0 .. BYTE - 1]
  <2>1. t.cells \in Picture
    BY DEF State
  <2> QED
    BY <1>7, <2>1, Zenon DEF SInv
<1>11. goto(p, to) /\ UNCHANGED <<running, mixed>>
  BY <1>7, <1>9, Zenon
<1> QED
  BY <1>3, <1>7, <1>8, <1>9, <1>10, <1>11, LocalStep, Zenon

LEMMA ReturnType ==
  ASSUME SInv, NEW p \in Processes, Return(p)
  PROVE  SInv'
<1>1. "out" \in Labels /\ "out" \notin HalfRead
  BY Zenon DEF Labels, HalfRead
<1>2. /\ goto(p, "out") /\ offset' = [offset EXCEPT ![p] = 0]
      /\ UNCHANGED <<vidmem, selected, register, running, message, mixed>>
  BY Zenon DEF Return, history
<1>3. 0 \in 0 .. BYTE * BYTE - 1
  BY Bytes
<1>4. /\ message' = [message EXCEPT ![p] = message[p]] /\ message[p] \in Seq(Nat)
      /\ selected' \in {14, 15} /\ register' \in [{14, 15} -> 0 .. BYTE - 1] /\ vidmem' \in Picture
  BY <1>2, LocalTypes, Zenon DEF SInv
<1>5. UNCHANGED <<running, mixed>>
  BY <1>2, Zenon
<1> QED
  BY <1>1, <1>2, <1>3, <1>4, <1>5, LocalStep, Zenon

LEMMA TickType ==
  ASSUME SInv, NEW text \in KernelTexts, NEW q \in Processes, Tick(text, q)
  PROVE  SInv'
<1>1. PICK s \in State : s = [cells |-> vidmem, offset |-> Cursor]
  <2>1. Cursor \in Nat
    BY LocalTypes, Bytes
  <2> QED
    BY <2>1, Zenon DEF State, SInv
<1>2. PICK t \in State : t = FoldLeft(print_char, s, text)
  <2>1. text \in Seq(Nat)
    OBVIOUS
  <2> QED
    BY <2>1, PrintText
<1>3. /\ vidmem' = t.cells /\ selected' = 15 /\ running' = q /\ UNCHANGED locals
      /\ register' = IF OffScreen(Cursor) THEN register
                     ELSE [register EXCEPT ![14] = HighByte(t.offset), ![15] = LowByte(t.offset)]
      /\ mixed' = (mixed \/ pc[running] # "out")
  BY <1>1, <1>2, Zenon DEF Tick
<1>4. register' \in [{14, 15} -> 0 .. BYTE - 1]
  <2>1. CASE OffScreen(Cursor)
    BY <1>3, <2>1, Zenon DEF SInv
  <2>2. CASE ~OffScreen(Cursor)
    <3>1. s.offset < CELLS
      BY <1>1, <2>2, LocalTypes, Geometry, Bytes DEF OffScreen
    <3>2. text \in Seq(Nat)
      OBVIOUS
    <3>3. t.offset < CELLS
      BY <1>2, <3>1, <3>2, PrintText
    <3>4. t.offset \in Nat
      BY DEF State
    <3>5. t.offset \in 0 .. BYTE * BYTE - 1
      BY <3>3, <3>4, Bytes, Geometry
    <3>6. HighByte(t.offset) \in 0 .. BYTE - 1 /\ LowByte(t.offset) \in 0 .. BYTE - 1
      BY <3>5, ByteParts
    <3> QED
      BY <1>3, <2>2, <3>6 DEF SInv
  <2> QED
    BY <2>1, <2>2
<1>5. vidmem' \in Picture /\ selected' \in {14, 15}
  BY <1>3 DEF State
<1>6. mixed' \in BOOLEAN
  BY <1>3, Zenon DEF SInv
<1>7. /\ running' \in Processes /\ pc' \in [Processes -> Labels] /\ message' \in [Processes -> Seq(Nat)]
      /\ offset' \in [Processes -> 0 .. BYTE * BYTE - 1]
      /\ \A p \in Processes : pc'[p] \in HalfRead => offset'[p] \in HighParts
  BY <1>3, Zenon DEF SInv, locals
<1> QED
  BY <1>4, <1>5, <1>6, <1>7, Zenon DEF SInv

LEMMA SNextInv == SInv /\ [Next]_vars => SInv'
<1> SUFFICES ASSUME SInv, [Next]_vars PROVE SInv'
  OBVIOUS
<1>1. CASE UNCHANGED vars
  BY <1>1, Zenon DEF SInv, vars, locals, history
<1>2. ASSUME NEW p \in Processes, \E m \in Messages : kprint(p, m) PROVE SInv'
  BY <1>2, KprintType, Zenon
<1>3. ASSUME NEW p \in Processes,
             get_cursor_offset(p) \/ PrintChar(p) \/ set_cursor_offset(p) \/ Return(p)
      PROVE  SInv'
  BY <1>3, GetType, PrintCharType, SetType, ReturnType, Zenon
<1>4. ASSUME NEW text \in KernelTexts, NEW q \in Processes, Tick(text, q) PROVE SInv'
  BY <1>4, TickType, Zenon
<1> QED
  BY <1>1, <1>2, <1>3, <1>4, Zenon DEF Next

THEOREM Invariant == Spec => []SInv
<1> QED
  BY SInitInv, SNextInv, PTL DEF Spec

\* Every variable keeps its type, for every size of the screen and whatever is printed:
\* no tick, wherever it comes in the reads and writes of the cursor, makes print_char
\* store a character outside the screen or the cursor exceed its registers.
THEOREM TypeCorrect == Spec => []TypeOK
<1>1. SInv => TypeOK
  BY Zenon DEF SInv, TypeOK, Picture, Labels
<1> QED
  BY <1>1, Invariant, PTL

-----------------------------------------------------------------------------
(* The lines of a text and the cells that show them.                       *)

Texts == Seq(Seq(Nat))

\* Lines that fit on the screen with the cursor behind the last one.
Fit(ls) ==
  /\ ls \in Texts /\ Len(ls) \in 1 .. MAX_ROWS
  /\ \A i \in 1 .. Len(ls) : Len(ls[i]) <= MAX_COLS
  /\ Len(ls[Len(ls)]) < MAX_COLS

Position(ls) == (Len(ls) - 1) * MAX_COLS + Len(ls[Len(ls)])

CellOf(ls, r, j) == IF r + 1 <= Len(ls) /\ j + 1 <= Len(ls[r + 1]) THEN ls[r + 1][j + 1] ELSE BLANK

Pictures(cells, ls) ==
  \A r \in 0 .. MAX_ROWS - 1, j \in 0 .. MAX_COLS - 1 : cells[r * MAX_COLS + j] = CellOf(ls, r, j)

\* The lines after a character, before a line that ends is followed by the next one.
Current(ls, c) == Append(Front(ls), IF c = NEWLINE THEN Last(ls) ELSE Append(Last(ls), c))
Ends(ls, c) == c = NEWLINE \/ Len(ls[Len(ls)]) + 1 = MAX_COLS

LEMMA FitFacts ==
  ASSUME NEW ls, Fit(ls)
  PROVE  /\ Len(ls) \in 1 .. MAX_ROWS /\ ls[Len(ls)] \in Seq(Nat)
         /\ Len(ls[Len(ls)]) \in 0 .. MAX_COLS - 1
         /\ Position(ls) \in Cells
<1>1. Len(ls) \in 1 .. MAX_ROWS /\ ls[Len(ls)] \in Seq(Nat)
  BY DEF Fit, Texts
<1>2. PICK n \in 1 .. MAX_ROWS, line \in Seq(Nat) : n = Len(ls) /\ line = ls[Len(ls)]
  BY <1>1
<1>3. Len(line) \in 0 .. MAX_COLS - 1
  <2>1. Len(line) < MAX_COLS /\ Len(line) \in Nat
    BY <1>2 DEF Fit
  <2> QED
    BY <2>1
<1>4. n - 1 \in 0 .. MAX_ROWS - 1
  OBVIOUS
<1>5. (n - 1) * MAX_COLS + Len(line) \in Cells
  BY <1>3, <1>4, CellIn
<1> QED
  BY <1>1, <1>2, <1>3, <1>5 DEF Position

LEMMA LineIs ==
  ASSUME NEW ls, Fit(ls), NEW c \in Nat
  PROVE  \E line \in Seq(Nat) : line = IF c = NEWLINE THEN ls[Len(ls)] ELSE Append(ls[Len(ls)], c)
<1>1. PICK last \in Seq(Nat) : last = ls[Len(ls)]
  BY FitFacts
<1>2. Append(last, c) \in Seq(Nat)
  OBVIOUS
<1> QED
  BY <1>1, <1>2, Zenon

LEMMA CurrentIs ==
  ASSUME NEW ls, Fit(ls), NEW c \in Nat
  PROVE  /\ Current(ls, c) \in Texts /\ Len(Current(ls, c)) = Len(ls)
         /\ \A i \in 1 .. Len(ls) : i # Len(ls) => Current(ls, c)[i] = ls[i]
         /\ Current(ls, c)[Len(ls)] = IF c = NEWLINE THEN ls[Len(ls)] ELSE Append(ls[Len(ls)], c)
<1>1. ls \in Texts /\ Len(ls) \in 1 .. MAX_ROWS /\ ls[Len(ls)] \in Seq(Nat)
  BY FitFacts DEF Fit
<1>2. PICK line \in Seq(Nat) : line = IF c = NEWLINE THEN ls[Len(ls)] ELSE Append(ls[Len(ls)], c)
  BY LineIs
<1>3. PICK front \in Texts : /\ front = Front(ls) /\ Len(front) = Len(ls) - 1
                             /\ \A i \in 1 .. Len(ls) - 1 : front[i] = ls[i]
  <2>1. Front(ls) \in Seq(Seq(Nat))
    BY <1>1 DEF Front, Texts
  <2>2. Len(Front(ls)) = Len(ls) - 1 /\ \A i \in 1 .. Len(ls) - 1 : Front(ls)[i] = ls[i]
    <3>0. PICK n \in Nat : n = Len(ls) - 1
      <4>1. Len(ls) - 1 \in Nat
        BY <1>1
      <4> QED
        BY <4>1
    <3>1. n \in Int /\ 1 \in Int /\ n <= Len(ls) /\ n - 1 + 1 = n
      BY <1>1, <3>0
    <3>2. \A i \in 1 .. n : ls[i] \in Seq(Nat)
      BY <1>1, <3>0 DEF Texts
    <3>3. /\ Len(SubSeq(ls, 1, n)) = IF 1 <= n THEN n - 1 + 1 ELSE 0
          /\ \A i \in 1 .. n - 1 + 1 : SubSeq(ls, 1, n)[i] = ls[1 + i - 1]
      BY <3>1, <3>2, SubSeqProperties
    <3>4. Len(SubSeq(ls, 1, n)) = n /\ \A i \in 1 .. n : SubSeq(ls, 1, n)[i] = ls[i]
      BY <3>1, <3>3
    <3> QED
      BY <3>0, <3>4 DEF Front
  <2> QED
    BY <2>1, <2>2 DEF Texts
<1>4. Current(ls, c) = Append(front, line)
  BY <1>2, <1>3, Zenon DEF Current, Last
<1> QED
  BY <1>1, <1>2, <1>3, <1>4 DEF Texts

LEMMA TypedIs ==
  ASSUME NEW ls, Fit(ls), NEW c \in Nat
  PROVE  /\ ~Ends(ls, c) => Typed(ls, c) = Current(ls, c)
         /\ Ends(ls, c) /\ Len(ls) < MAX_ROWS => Typed(ls, c) = Append(Current(ls, c), <<>>)
         /\ Ends(ls, c) /\ Len(ls) = MAX_ROWS => Typed(ls, c) = Tail(Append(Current(ls, c), <<>>))
<1>1. ls \in Texts /\ Len(ls) \in 1 .. MAX_ROWS /\ ls[Len(ls)] \in Seq(Nat)
  BY FitFacts DEF Fit
<1>2. PICK line \in Seq(Nat) : line = IF c = NEWLINE THEN ls[Len(ls)] ELSE Append(ls[Len(ls)], c)
  BY LineIs
<1>3. PICK cur \in Texts : cur = Current(ls, c) /\ cur = Append(Front(ls), line) /\ Len(cur) = Len(ls)
  BY <1>2, CurrentIs, ZenonT(40) DEF Current, Last
<1>4. (c = NEWLINE \/ Len(line) = MAX_COLS) <=> Ends(ls, c)
  BY <1>1, <1>2 DEF Ends
<1>5. PICK all \in Texts : all = cur \o (IF Ends(ls, c) THEN << <<>> >> ELSE <<>>)
  <2>1. << <<>> >> \in Seq(Seq(Nat)) /\ <<>> \in Seq(Seq(Nat))
    OBVIOUS
  <2>2. cur \o << <<>> >> \in Seq(Seq(Nat)) /\ cur \o <<>> \in Seq(Seq(Nat))
    BY <1>3, <2>1 DEF Texts
  <2> QED
    BY <2>2, Zenon DEF Texts
<1>6. Typed(ls, c) = IF Len(all) > MAX_ROWS THEN Tail(all) ELSE all
  <2>1. line = IF c = NEWLINE THEN Last(ls) ELSE Append(Last(ls), c)
    BY <1>2, Zenon DEF Last
  <2>2. all = Append(Front(ls), line) \o (IF c = NEWLINE \/ Len(line) = MAX_COLS THEN << <<>> >> ELSE <<>>)
    BY <1>3, <1>4, <1>5, Zenon
  <2> QED
    BY <2>1, <2>2, Zenon DEF Typed
<1>7. ~Ends(ls, c) => all = cur
  BY <1>5 DEF Texts
<1>8. Ends(ls, c) => all = Append(cur, <<>>) /\ Len(all) = Len(ls) + 1
  BY <1>3, <1>5 DEF Texts
<1>9. CASE ~Ends(ls, c)
  <2>1. ~ (Len(all) > MAX_ROWS)
    BY <1>1, <1>3, <1>7, <1>9
  <2> QED
    BY <1>3, <1>6, <1>7, <1>9, <2>1, Zenon
<1>10. CASE Ends(ls, c)
  <2>1. Len(all) > MAX_ROWS <=> Len(ls) = MAX_ROWS
    BY <1>1, <1>8, <1>10
  <2>2. Len(ls) < MAX_ROWS => Len(ls) # MAX_ROWS
    BY <1>1
  <2> QED
    BY <1>3, <1>6, <1>8, <1>10, <2>1, <2>2, Zenon
<1> QED
  BY <1>9, <1>10

\* The character is stored where the line has it.
LEMMA PictureCurrent ==
  ASSUME NEW m \in Picture, NEW ls, Fit(ls), Pictures(m, ls), NEW c \in Nat
  PROVE  Pictures(Shows(m, Position(ls), c), Current(ls, c))
<1>0. PICK n \in 1 .. MAX_ROWS, L \in 0 .. MAX_COLS - 1, pos \in Cells, line \in Seq(Nat) :
        /\ n = Len(ls) /\ line = ls[n] /\ L = Len(line) /\ pos = Position(ls) /\ pos = (n - 1) * MAX_COLS + L
  BY FitFacts, Zenon DEF Position
<1>1. PICK cur \in Texts : cur = Current(ls, c) /\ Len(cur) = n
                           /\ (\A i \in 1 .. n : i # n => cur[i] = ls[i])
                           /\ cur[n] = IF c = NEWLINE THEN line ELSE Append(line, c)
  BY <1>0, CurrentIs, Zenon
<1>2. ASSUME NEW r \in 0 .. MAX_ROWS - 1, NEW j \in 0 .. MAX_COLS - 1
      PROVE  Shows(m, pos, c)[r * MAX_COLS + j] = CellOf(cur, r, j)
  <2>1. PICK k \in Cells : k = r * MAX_COLS + j
    BY CellIn
  <2>2. m[k] = IF r + 1 <= n /\ j + 1 <= Len(ls[r + 1]) THEN ls[r + 1][j + 1] ELSE BLANK
    BY <1>0, <2>1 DEF Pictures, CellOf
  <2>3. k = pos <=> r = n - 1 /\ j = L
    <3>1. r \in Int /\ n - 1 \in Int
      OBVIOUS
    <3>2. /\ get_offset_row(r * MAX_COLS + j) = r /\ (r * MAX_COLS + j) % MAX_COLS = j
          /\ get_offset_row((n - 1) * MAX_COLS + L) = n - 1 /\ ((n - 1) * MAX_COLS + L) % MAX_COLS = L
      BY <3>1, RowAndColumn, Zenon
    <3> QED
      BY <1>0, <2>1, <3>2, Zenon
  <2>4. CASE c = NEWLINE
    <3>1. r + 1 <= n => cur[r + 1] = ls[r + 1]
      BY <1>0, <1>1, <2>4, SMTT(30)
    <3> QED
      BY <1>1, <2>1, <2>2, <2>4, <3>1, Zenon DEF Shows, CellOf
  <2>5. CASE c # NEWLINE /\ k = pos
    <3>1. Shows(m, pos, c)[k] = c
      BY <2>5 DEF Shows, Picture
    <3>2. r + 1 = n /\ j + 1 = L + 1 /\ L + 1 = Len(Append(line, c)) /\ Append(line, c)[L + 1] = c
      BY <1>0, <2>3, <2>5
    <3>3. r + 1 <= n /\ j + 1 <= Len(cur[r + 1]) /\ cur[r + 1][j + 1] = c
      BY <1>1, <2>5, <3>2
    <3> QED
      BY <1>1, <2>1, <3>1, <3>3, Zenon DEF CellOf
  <2>6. CASE c # NEWLINE /\ k # pos
    <3>1. Shows(m, pos, c)[k] = m[k]
      BY <2>6 DEF Shows, Picture
    <3>2. CASE r + 1 = n
      <4>1. j # L
        BY <2>3, <2>6, <3>2
      <4>2. Len(Append(line, c)) = L + 1 /\ \A i \in 1 .. L : Append(line, c)[i] = line[i]
        BY <1>0
      <4>3. cur[r + 1] = Append(line, c) /\ ls[r + 1] = line
        BY <1>0, <1>1, <2>6, <3>2
      <4>4. j + 1 <= Len(cur[r + 1]) <=> j + 1 <= Len(ls[r + 1])
        BY <1>0, <4>1, <4>2, <4>3, SMTT(30)
      <4>5. j + 1 <= Len(ls[r + 1]) => cur[r + 1][j + 1] = ls[r + 1][j + 1]
        BY <1>0, <4>2, <4>3
      <4> QED
        BY <1>1, <2>1, <2>2, <3>1, <4>4, <4>5, Zenon DEF CellOf
    <3>3. CASE r + 1 # n
      <4>1. r + 1 <= n => cur[r + 1] = ls[r + 1]
        BY <1>0, <1>1, <3>3
      <4> QED
        BY <1>1, <2>1, <2>2, <3>1, <4>1, Zenon DEF CellOf
    <3> QED
      BY <3>2, <3>3
  <2> QED
    BY <2>4, <2>5, <2>6
<1> QED
  BY <1>0, <1>1, <1>2, Zenon DEF Pictures

\* An empty line below shows nothing.
LEMMA PictureNewLine ==
  ASSUME NEW m \in Picture, NEW ls \in Texts, Pictures(m, ls)
  PROVE  Pictures(m, Append(ls, <<>>))
<1>1. PICK n \in Nat : n = Len(ls)
  BY DEF Texts
<1>2. PICK all \in Texts : all = Append(ls, <<>>) /\ Len(all) = n + 1 /\ all[n + 1] = <<>>
                           /\ \A i \in 1 .. n : all[i] = ls[i]
  <2>1. Append(ls, <<>>) \in Seq(Seq(Nat))
    BY DEF Texts
  <2>2. /\ Len(Append(ls, <<>>)) = n + 1 /\ Append(ls, <<>>)[n + 1] = <<>>
        /\ \A i \in 1 .. n : Append(ls, <<>>)[i] = ls[i]
    BY <1>1 DEF Texts
  <2> QED
    BY <2>1, <2>2, Zenon DEF Texts
<1>3. ASSUME NEW r \in 0 .. MAX_ROWS - 1, NEW j \in 0 .. MAX_COLS - 1
      PROVE  CellOf(all, r, j) = CellOf(ls, r, j)
  <2>1. CASE r + 1 <= n
    <3>1. r + 1 <= Len(all) /\ r + 1 <= Len(ls) /\ all[r + 1] = ls[r + 1]
      BY <1>1, <1>2, <2>1
    <3> QED
      BY <3>1, Zenon DEF CellOf
  <2>2. CASE r + 1 = n + 1
    <3>1. Len(all[r + 1]) = 0
      BY <1>2, <2>2
    <3>2. ~ (j + 1 <= Len(all[r + 1])) /\ ~ (r + 1 <= Len(ls))
      BY <1>1, <2>2, <3>1
    <3> QED
      BY <3>2, Zenon DEF CellOf
  <2>3. CASE r + 1 > n + 1
    <3>1. ~ (r + 1 <= Len(all)) /\ ~ (r + 1 <= Len(ls))
      BY <1>1, <1>2, <2>3
    <3> QED
      BY <3>1, Zenon DEF CellOf
  <2> QED
    BY <2>1, <2>2, <2>3
<1> QED
  BY <1>2, <1>3, Zenon DEF Pictures

\* A scroll shows all lines but the first.
LEMMA PictureScrolled ==
  ASSUME NEW m \in Picture, NEW ls \in Texts, Len(ls) = MAX_ROWS, Pictures(m, ls)
  PROVE  Pictures(Scrolled(m), Tail(Append(ls, <<>>)))
<1>1. PICK n \in Nat \ {0} : n = MAX_ROWS /\ Len(ls) = n
  OBVIOUS
<1>2. PICK all \in Texts : /\ all = Tail(Append(ls, <<>>)) /\ Len(all) = n /\ all[n] = <<>>
                           /\ \A i \in 1 .. n - 1 : all[i] = ls[i + 1]
  <2>1. PICK more \in Seq(Seq(Nat)) : /\ more = Append(ls, <<>>) /\ Len(more) = n + 1 /\ more[n + 1] = <<>>
                                      /\ \A i \in 1 .. n : more[i] = ls[i]
    <3>1. Append(ls, <<>>) \in Seq(Seq(Nat))
      BY DEF Texts
    <3>2. /\ Len(Append(ls, <<>>)) = n + 1 /\ Append(ls, <<>>)[n + 1] = <<>>
          /\ \A i \in 1 .. n : Append(ls, <<>>)[i] = ls[i]
      BY <1>1 DEF Texts
    <3> QED
      BY <3>1, <3>2, Zenon
  <2>2. Tail(more) \in Seq(Seq(Nat)) /\ Len(Tail(more)) = n /\ \A i \in 1 .. n : Tail(more)[i] = more[i + 1]
    BY <1>1, <2>1
  <2>3. Tail(more)[n] = <<>> /\ \A i \in 1 .. n - 1 : Tail(more)[i] = ls[i + 1]
    BY <1>1, <2>1, <2>2
  <2> QED
    BY <2>1, <2>2, <2>3, Zenon DEF Texts
<1>3. ASSUME NEW r \in 0 .. MAX_ROWS - 1, NEW j \in 0 .. MAX_COLS - 1
      PROVE  Scrolled(m)[r * MAX_COLS + j] = CellOf(all, r, j)
  <2>1. Scrolled(m)[r * MAX_COLS + j] = IF r = MAX_ROWS - 1 THEN BLANK ELSE m[(r + 1) * MAX_COLS + j]
    BY ScrolledRows, Zenon
  <2>2. CASE r = MAX_ROWS - 1
    <3>1. r + 1 = n
      BY <1>1, <2>2
    <3>2. Len(all[r + 1]) = 0
      BY <1>2, <3>1
    <3>3. ~ (j + 1 <= Len(all[r + 1]))
      BY <3>2
    <3> QED
      BY <2>1, <2>2, <3>3, Zenon DEF CellOf
  <2>3. CASE r # MAX_ROWS - 1
    <3>1. PICK i \in 0 .. MAX_ROWS - 1 : i = r + 1
      BY <2>3
    <3>2. m[i * MAX_COLS + j] = CellOf(ls, i, j)
      BY Zenon DEF Pictures
    <3>3. r + 1 <= Len(all) /\ i + 1 <= Len(ls) /\ all[r + 1] = ls[i + 1]
      BY <1>1, <1>2, <2>3, <3>1
    <3>4. CellOf(ls, i, j) = CellOf(all, r, j)
      BY <3>3, Zenon DEF CellOf
    <3> QED
      BY <2>1, <2>3, <3>1, <3>2, <3>4
  <2> QED
    BY <2>2, <2>3
<1> QED
  BY <1>2, <1>3, Zenon DEF Pictures

\* What print_char shows is what a reader expects.
Reads(s, ls) == s \in State /\ Fit(ls) /\ s.offset = Position(ls) /\ Pictures(s.cells, ls)

LEMMA PrintReads ==
  ASSUME NEW s \in State, NEW ls, Reads(s, ls), NEW c \in Nat
  PROVE  Reads(print_char(s, c), Typed(ls, c))
<1>0. PICK n \in 1 .. MAX_ROWS, L \in 0 .. MAX_COLS - 1, pos \in Cells, line \in Seq(Nat) :
        /\ n = Len(ls) /\ line = ls[n] /\ L = Len(line)
        /\ pos = Position(ls) /\ pos = (n - 1) * MAX_COLS + L /\ pos = s.offset
  BY FitFacts, Zenon DEF Position, Reads
<1>x. PICK x \in Nat : x = (n - 1) * MAX_COLS /\ n * MAX_COLS = x + MAX_COLS
  OBVIOUS
<1>p. pos = x + L
  BY <1>0, <1>x
<1>n. n \in Nat \ {0}
  OBVIOUS
<1>1. PICK cur \in Texts : /\ cur = Current(ls, c) /\ Len(cur) = n
                           /\ (\A i \in 1 .. n : i # n => cur[i] = ls[i])
                           /\ cur[n] = IF c = NEWLINE THEN line ELSE Append(line, c)
  BY <1>0, CurrentIs, Zenon DEF Reads
<1>2. PICK m \in Picture : m = Shows(s.cells, pos, c) /\ Pictures(m, cur)
  <2>1. s.cells \in Picture
    BY DEF State
  <2>2. pos < CELLS
    BY Geometry
  <2>3. Shows(s.cells, pos, c) \in Picture
    BY <1>0, <2>2, PrintOn
  <2>4. Pictures(Shows(s.cells, pos, c), cur)
    BY <1>0, <1>1, <2>1, PictureCurrent, Zenon DEF Reads
  <2> QED
    BY <2>3, <2>4
<1>3. PICK a \in Nat : /\ a = After(pos, c) /\ a <= CELLS
                       /\ c = NEWLINE => a = n * MAX_COLS
                       /\ c # NEWLINE => a = pos + 1
  <2>1. n - 1 \in 0 .. MAX_ROWS - 1 /\ (n - 1) + 1 = n
    OBVIOUS
  <2>2. PICK i \in 0 .. MAX_ROWS - 1 : i = n - 1
    BY <2>1
  <2>3. /\ After(i * MAX_COLS + L, c) \in Nat /\ After(i * MAX_COLS + L, c) <= CELLS
        /\ c = NEWLINE => After(i * MAX_COLS + L, c) = (i + 1) * MAX_COLS
        /\ c # NEWLINE => After(i * MAX_COLS + L, c) = i * MAX_COLS + L + 1
    BY AfterIs, Zenon
  <2>4. pos = i * MAX_COLS + L /\ i + 1 = n
    BY <1>0, <2>2
  <2>5. /\ After(pos, c) \in Nat /\ After(pos, c) <= CELLS
        /\ c = NEWLINE => After(pos, c) = n * MAX_COLS
        /\ c # NEWLINE => After(pos, c) = pos + 1
    BY <2>3, <2>4
  <2> QED
    BY <2>5
<1>4. /\ a < CELLS => print_char(s, c) = [cells |-> m, offset |-> a]
      /\ ~ (a < CELLS) => print_char(s, c) = [cells |-> Scrolled(m), offset |-> a - MAX_COLS]
  <2>1. pos < CELLS
    BY Geometry
  <2> QED
    BY <1>0, <1>2, <1>3, <2>1, PrintOn, Zenon
<1>5. \A i \in 1 .. n : i # n => Len(cur[i]) <= MAX_COLS
  BY <1>0, <1>1 DEF Reads, Fit
<1>6. Len(Append(line, c)) = L + 1
  BY <1>0
<1>7. print_char(s, c) \in State
  BY PrintType
<1>8. CASE ~Ends(ls, c)
  <2>1. c # NEWLINE /\ L + 1 < MAX_COLS /\ cur[n] = Append(line, c)
    BY <1>0, <1>1, <1>8 DEF Ends
  <2>2. a = (n - 1) * MAX_COLS + (L + 1) /\ L + 1 \in 0 .. MAX_COLS - 1
    <3>1. a = x + L + 1
      BY <1>p, <1>3, <2>1
    <3> QED
      BY <1>x, <2>1, <3>1
  <2>3. a < CELLS
    <3>1. n - 1 \in 0 .. MAX_ROWS - 1
      OBVIOUS
    <3>2. (n - 1) * MAX_COLS + (L + 1) \in Cells
      BY <2>2, <3>1, CellIn
    <3> QED
      BY <2>2, <3>2, Geometry
  <2>4. Fit(cur)
    <3>1. Len(cur[n]) < MAX_COLS
      BY <1>6, <2>1
    <3> QED
      BY <1>1, <1>5, <1>6, <2>1, <3>1 DEF Fit
  <2>5. Position(cur) = a
    BY <1>1, <1>6, <2>1, <2>2 DEF Position
  <2>6. Typed(ls, c) = cur
    BY <1>1, <1>8, TypedIs, Zenon DEF Reads
  <2> QED
    BY <1>2, <1>4, <1>7, <2>3, <2>4, <2>5, <2>6 DEF Reads
<1>9. CASE Ends(ls, c)
  <2>1. a = n * MAX_COLS
    <3>1. CASE c = NEWLINE
      BY <1>3, <3>1
    <3>2. CASE c # NEWLINE
      <4>1. L + 1 = MAX_COLS
        BY <1>0, <1>9, <3>2 DEF Ends
      <4> QED
        BY <1>p, <1>x, <1>3, <3>2, <4>1
    <3> QED
      BY <3>1, <3>2
  <2>2. Len(cur[n]) <= MAX_COLS
    BY <1>0, <1>1, <1>6
  <2>3. PICK more \in Texts : /\ more = Append(cur, <<>>) /\ Len(more) = n + 1 /\ more[n + 1] = <<>>
                              /\ \A i \in 1 .. n : more[i] = cur[i]
    <3>1. Append(cur, <<>>) \in Seq(Seq(Nat))
      BY DEF Texts
    <3>2. /\ Len(Append(cur, <<>>)) = n + 1 /\ Append(cur, <<>>)[n + 1] = <<>>
          /\ \A i \in 1 .. n : Append(cur, <<>>)[i] = cur[i]
      BY <1>1 DEF Texts
    <3> QED
      BY <3>1, <3>2, Zenon DEF Texts
  <2>4. CASE n < MAX_ROWS
    <3>1. a < CELLS
      <4>1. n \in 0 .. MAX_ROWS - 1 /\ 0 \in 0 .. MAX_COLS - 1
        BY <2>4
      <4>2. n * MAX_COLS + 0 \in Cells
        BY <4>1, CellIn
      <4>3. a \in Cells
        BY <2>1, <4>2
      <4> QED
        BY <4>3, Geometry
    <3>2. Fit(more)
      <4>1. \A i \in 1 .. n + 1 : Len(more[i]) <= MAX_COLS
        BY <1>5, <2>2, <2>3
      <4>2. Len(more[n + 1]) < MAX_COLS
        BY <2>3
      <4> QED
        BY <2>3, <2>4, <4>1, <4>2 DEF Fit
    <3>3. Position(more) = a
      <4>1. Len(more) - 1 = n /\ Len(more[Len(more)]) = 0
        BY <1>n, <2>3
      <4>2. Position(more) = n * MAX_COLS + 0
        BY <4>1, Zenon DEF Position
      <4> QED
        BY <1>x, <2>1, <4>2
    <3>4. Pictures(m, more)
      BY <1>2, <2>3, PictureNewLine, Zenon
    <3>5. Typed(ls, c) = more
      BY <1>0, <1>1, <1>9, <2>3, <2>4, TypedIs, Zenon DEF Reads
    <3> QED
      BY <1>4, <1>7, <3>1, <3>2, <3>3, <3>4, <3>5 DEF Reads
  <2>5. CASE n = MAX_ROWS
    <3>1. ~ (a < CELLS) /\ a - MAX_COLS = (n - 1) * MAX_COLS
      BY <2>1, <2>5 DEF CELLS
    <3>2. PICK rest \in Texts : /\ rest = Tail(more) /\ Len(rest) = n
                                /\ \A i \in 1 .. n : rest[i] = more[i + 1]
      <4>1. Tail(more) \in Seq(Seq(Nat)) /\ Len(Tail(more)) = n /\ \A i \in 1 .. n : Tail(more)[i] = more[i + 1]
        <5>1. more \in Seq(Seq(Nat)) /\ Len(more) = n + 1
          BY <2>3, Zenon DEF Texts
        <5> QED
          BY <1>n, <5>1
      <4> QED
        BY <4>1, Zenon DEF Texts
    <3>3. Fit(rest)
      <4>1. \A i \in 1 .. n : Len(rest[i]) <= MAX_COLS
        BY <1>5, <2>2, <2>3, <3>2
      <4>2. Len(rest[n]) < MAX_COLS
        BY <2>3, <3>2
      <4> QED
        BY <3>2, <4>1, <4>2 DEF Fit
    <3>4. Position(rest) = a - MAX_COLS
      <4>1. Len(rest) - 1 = n - 1 /\ Len(rest[Len(rest)]) = 0
        BY <1>n, <2>3, <3>2
      <4>2. Position(rest) = (n - 1) * MAX_COLS + 0
        BY <4>1, Zenon DEF Position
      <4> QED
        BY <1>x, <3>1, <4>2
    <3>5. Pictures(Scrolled(m), rest)
      BY <1>1, <1>2, <2>3, <2>5, <3>2, PictureScrolled, Zenon
    <3>6. Typed(ls, c) = rest
      BY <1>0, <1>1, <1>9, <2>3, <2>5, <3>2, TypedIs, Zenon DEF Reads
    <3> QED
      BY <1>4, <1>7, <3>1, <3>3, <3>4, <3>5, <3>6 DEF Reads
  <2> QED
    BY <2>4, <2>5
<1> QED
  BY <1>8, <1>9

Readable == {ls \in Texts : \E s \in State : Reads(s, ls)}

LEMMA TypedReadable ==
  ASSUME NEW ls \in Readable, NEW c \in Nat
  PROVE  Typed(ls, c) \in Readable
<1>1. PICK s \in State : Reads(s, ls)
  BY DEF Readable
<1>2. Reads(print_char(s, c), Typed(ls, c))
  BY <1>1, PrintReads
<1>3. print_char(s, c) \in State /\ Typed(ls, c) \in Texts
  BY <1>2, Zenon DEF Reads, Fit
<1> QED
  BY <1>2, <1>3, Zenon DEF Readable

LEMMA TypedFold ==
  ASSUME NEW base \in Readable, NEW text \in Seq(Nat)
  PROVE  \E read : /\ FoldLeft(Typed, base, text) = read[Len(text)] /\ read[0] = base
                   /\ \A k \in 1 .. Len(text) : read[k] = Typed(read[k - 1], text[k])
<1> DEFINE n == Len(text)
           Solves(f) == f = [s \in SUBSET (1 .. n) |->
                         IF s = {} THEN base ELSE Typed(f[s \ {Max(s)}], text[Max(s)])]
           f == CHOOSE f : Solves(f)
           step == [k \in 1 .. n |-> [ls \in Readable |-> Typed(ls, text[k])]]
<1>0. n \in Nat /\ DOMAIN text = 1 .. n /\ \A k \in 1 .. n : text[k] \in Nat
  OBVIOUS
<1> HIDE DEF n
<1>a. step \in [1 .. n -> [Readable -> Readable]]
  BY <1>0, TypedReadable
<1>c. ASSUME NEW k \in 1 .. n, NEW ls \in Readable PROVE step[k][ls] = Typed(ls, text[k])
  BY Zenon
<1> HIDE DEF step
<1>1. PICK g : Folds(g, Readable, base, n, step)
  BY <1>0, <1>a, FoldExists
<1>2. Solves(g)
  <2>3. ASSUME NEW s \in SUBSET (1 .. n), s # {}
        PROVE  step[Max(s)][g[s \ {Max(s)}]] = Typed(g[s \ {Max(s)}], text[Max(s)])
    <3>1. Max(s) \in 1 .. n
      BY <1>0, <2>3, MaxIn
    <3>2. g[s \ {Max(s)}] \in Readable
      BY <1>1 DEF Folds
    <3> QED
      BY <1>c, <3>1, <3>2, Zenon
  <2> QED
    BY <1>1, <2>3, Zenon DEF Folds
<1>3. Solves(f)
  BY <1>2, Zenon
<1>4. FoldLeft(Typed, base, text) = f[1 .. n]
  BY <1>0, Zenon DEF FoldLeft, MapThenFoldSet
<1> HIDE DEF f
<1>5. Unfolds(f, Readable, base, n, step)
  <2>1. {} \in SUBSET (1 .. n)
    OBVIOUS
  <2>2. f[{}] = base
    BY <1>3, <2>1, Zenon
  <2>3. ASSUME NEW s \in SUBSET (1 .. n), s # {}, f[s \ {Max(s)}] \in Readable
        PROVE  f[s] = step[Max(s)][f[s \ {Max(s)}]]
    <3>1. Max(s) \in 1 .. n
      BY <1>0, <2>3, MaxIn
    <3> QED
      BY <1>3, <1>c, <2>3, <3>1, Zenon
  <2> QED
    BY <2>2, <2>3, Zenon DEF Unfolds
<1>6. PICK run : Steps(run, Readable, base, n, step) /\ run[n] = f[1 .. n]
  <2>1. RunsTo(f[1 .. n], Readable, base, n, step)
    BY <1>0, <1>a, <1>5, FoldSteps, Zenon
  <2> QED
    BY <2>1, Zenon DEF RunsTo
<1>7. ASSUME NEW k \in 1 .. n PROVE run[k] = Typed(run[k - 1], text[k])
  <2>1. k - 1 \in 0 .. n
    BY <1>0
  <2>2. run[k] = step[k][run[k - 1]] /\ run[k - 1] \in Readable
    BY <1>6, <2>1, Zenon DEF Steps
  <2> QED
    BY <1>c, <2>2, Zenon
<1>8. run[0] = base
  BY <1>6, Zenon DEF Steps
<1> QED
  BY <1>4, <1>6, <1>7, <1>8, Zenon DEF n

\* A tick shows its text.
LEMMA TextReads ==
  ASSUME NEW s \in State, NEW ls, Reads(s, ls), NEW text \in Seq(Nat)
  PROVE  Reads(FoldLeft(print_char, s, text), FoldLeft(Typed, ls, text))
<1> DEFINE n == Len(text)
<1>0. n \in Nat /\ n \in 0 .. n /\ \A k \in 1 .. n : text[k] \in Nat
  OBVIOUS
<1>1. ls \in Readable
  BY Zenon DEF Readable, Reads, Fit
<1>2. PICK shown : Printed(shown, s, text) /\ FoldLeft(print_char, s, text) = shown[n]
  BY PrintFold
<1>3. PICK read : /\ FoldLeft(Typed, ls, text) = read[n] /\ read[0] = ls
                  /\ \A k \in 1 .. n : read[k] = Typed(read[k - 1], text[k])
  BY <1>1, TypedFold, Zenon
<1>4. shown[0] = s /\ \A k \in 1 .. n : shown[k] = print_char(shown[k - 1], text[k])
  BY <1>2, Zenon DEF Printed
<1> HIDE DEF n
<1> DEFINE S == {k \in 0 .. n : Reads(shown[k], read[k])}
<1>5. 0 \in S
  BY <1>0, <1>3, <1>4
<1>6. ASSUME NEW k \in 0 .. n - 1, k \in S PROVE k + 1 \in S
  <2>1. PICK i \in 1 .. n : i = k + 1 /\ i - 1 = k /\ i \in 0 .. n
    BY <1>0
  <2>2. shown[i] = print_char(shown[k], text[i]) /\ read[i] = Typed(read[k], text[i])
    BY <1>3, <1>4, <2>1
  <2>3. Reads(shown[k], read[k]) /\ shown[k] \in State
    BY <1>6, Zenon DEF Reads
  <2>4. Reads(shown[i], read[i])
    BY <1>0, <2>2, <2>3, PrintReads
  <2> QED
    BY <2>1, <2>4
<1>7. S = 0 .. n
  <2>1. S \in SUBSET (0 .. n)
    OBVIOUS
  <2> HIDE DEF S
  <2> QED
    BY <1>0, <1>5, <1>6, <2>1, InductionUpTo
<1>8. n \in S
  <2> HIDE DEF S
  <2> QED
    BY <1>0, <1>7
<1> QED
  BY <1>2, <1>3, <1>8

-----------------------------------------------------------------------------
(* What has been printed is on the screen.                                 *)

\* Where the registers of the cursor hold the position behind the last line,
Settled == {"out", "get high", "read high", "get low", "read low", "print"}
\* where the offset of the process does,
Placed == {"print", "set high", "write high", "set low", "write low"}
\* where a register has been selected to be accessed, the high byte or the low byte,
HighSelected == {"read high", "write high"}
LowSelected == {"read low", "write low"}
\* and where the high byte of the new position has been written.
HalfWritten == {"set low", "write low"}

LabelInv(l, p) ==
  /\ l \in Settled => Cursor = Position(lines)
  /\ l \in HalfRead => offset[p] = register[14] * BYTE
  /\ l \in Placed => offset[p] = Position(lines)
  /\ l \in HighSelected => selected = 14
  /\ l \in LowSelected => selected = 15
  /\ l \in HalfWritten => register[14] = HighByte(Position(lines))

\* As long as no tick has come in the middle of a call, only the process that has the CPU
\* is in one, and what it has read and written of the cursor is right.
TInv ==
  ~mixed =>
    /\ \A p \in Processes : p # running => pc[p] = "out"
    /\ Fit(lines) /\ Pictures(vidmem, lines)
    /\ LabelInv(pc[running], running)

LEMMA Memberships ==
  /\ "out" \in Settled /\ "get high" \in Settled /\ "read high" \in Settled /\ "get low" \in Settled
  /\ "read low" \in Settled /\ "print" \in Settled /\ "set high" \notin Settled
  /\ "write high" \notin Settled /\ "set low" \notin Settled /\ "write low" \notin Settled
  /\ "out" \notin HalfRead /\ "get high" \notin HalfRead /\ "read high" \notin HalfRead
  /\ "get low" \in HalfRead /\ "read low" \in HalfRead /\ "print" \notin HalfRead
  /\ "set high" \notin HalfRead /\ "write high" \notin HalfRead /\ "set low" \notin HalfRead
  /\ "write low" \notin HalfRead
  /\ "out" \notin Placed /\ "get high" \notin Placed /\ "read high" \notin Placed
  /\ "get low" \notin Placed /\ "read low" \notin Placed /\ "print" \in Placed /\ "set high" \in Placed
  /\ "write high" \in Placed /\ "set low" \in Placed /\ "write low" \in Placed
  /\ "out" \notin HighSelected /\ "get high" \notin HighSelected /\ "read high" \in HighSelected
  /\ "get low" \notin HighSelected /\ "read low" \notin HighSelected /\ "print" \notin HighSelected
  /\ "set high" \notin HighSelected /\ "write high" \in HighSelected /\ "set low" \notin HighSelected
  /\ "write low" \notin HighSelected
  /\ "out" \notin LowSelected /\ "get high" \notin LowSelected /\ "read high" \notin LowSelected
  /\ "get low" \notin LowSelected /\ "read low" \in LowSelected /\ "print" \notin LowSelected
  /\ "set high" \notin LowSelected /\ "write high" \notin LowSelected /\ "set low" \notin LowSelected
  /\ "write low" \in LowSelected
  /\ "out" \notin HalfWritten /\ "get high" \notin HalfWritten /\ "read high" \notin HalfWritten
  /\ "get low" \notin HalfWritten /\ "read low" \notin HalfWritten /\ "print" \notin HalfWritten
  /\ "set high" \notin HalfWritten /\ "write high" \notin HalfWritten /\ "set low" \in HalfWritten
  /\ "write low" \in HalfWritten
BY Zenon DEF Settled, HalfRead, Placed, HighSelected, LowSelected, HalfWritten

LEMMA TInit == Init => TInv
<1> SUFFICES ASSUME Init PROVE TInv
  OBVIOUS
<1>1. lines = << <<>> >> /\ lines \in Texts /\ Len(lines) = 1 /\ lines[1] = <<>>
  BY DEF Init, Texts
<1>2. Fit(lines) /\ Position(lines) = 0
  BY <1>1 DEF Fit, Position
<1>3. Pictures(vidmem, lines)
  <2>1. ASSUME NEW r \in 0 .. MAX_ROWS - 1, NEW j \in 0 .. MAX_COLS - 1
        PROVE  vidmem[r * MAX_COLS + j] = CellOf(lines, r, j)
    <3>1. PICK k \in Cells : k = r * MAX_COLS + j
      BY CellIn
    <3>2. vidmem[k] = BLANK
      BY DEF Init
    <3>3. ~ (r + 1 <= Len(lines) /\ j + 1 <= Len(lines[r + 1]))
      <4>1. r = 0 => Len(lines[r + 1]) = 0
        BY <1>1
      <4> QED
        BY <1>1, <4>1
    <3> QED
      BY <3>1, <3>2, <3>3, Zenon DEF CellOf
  <2> QED
    BY <2>1, Zenon DEF Pictures
<1>4. Cursor = 0
  <2>1. register[14] = 0 /\ register[15] = 0
    BY DEF Init
  <2> QED
    BY <2>1, Bytes DEF Cursor
<1>5. LabelInv("out", running)
  BY <1>2, <1>4, Memberships, Zenon DEF LabelInv
<1>6. running \in Processes /\ \A p \in Processes : pc[p] = "out"
  BY Zenon DEF Init
<1> QED
  BY <1>2, <1>3, <1>5, <1>6, Zenon DEF TInv

\* A step of the process that has the CPU.
LEMMA LocalText ==
  ASSUME SInv, TInv, NEW p \in Processes, p = running, NEW to, goto(p, to), UNCHANGED <<running, mixed>>,
         ~mixed => (Fit(lines) /\ Pictures(vidmem, lines) /\ LabelInv(to, p))'
  PROVE  TInv'
<1>1. pc' = [pc EXCEPT ![p] = to] /\ pc \in [Processes -> Labels]
  BY Zenon DEF goto, SInv
<1>2. pc'[p] = to /\ \A q \in Processes : q # p => pc'[q] = pc[q]
  BY <1>1, Zenon
<1>3. ~mixed => \A q \in Processes : q # p => pc[q] = "out"
  BY Zenon DEF TInv
<1>4. running' = p /\ mixed' = mixed
  BY Zenon
<1>5. pc'[running'] = to
  BY <1>2, <1>4, Zenon
<1>6. LabelInv(to, p)' => LabelInv(pc[running], running)'
  <2> HIDE <1>1, <1>2
  <2> QED
    BY <1>4, <1>5, Zenon DEF LabelInv
<1>7. \A q \in Processes : q # running' => pc'[q] = pc[q]
  BY <1>2, <1>4, Zenon
<1>8. ASSUME ~mixed'
      PROVE  (/\ \A q \in Processes : q # running => pc[q] = "out"
              /\ Fit(lines) /\ Pictures(vidmem, lines)
              /\ LabelInv(pc[running], running))'
  <2>1. ~mixed
    <3>1. mixed' = mixed
      BY <1>4, Zenon
    <3> QED
      BY <1>8, <3>1
  <2>2. (Fit(lines) /\ Pictures(vidmem, lines))' /\ LabelInv(pc[running], running)'
    BY <1>6, <2>1, Zenon
  <2>3. \A q \in Processes : q # running' => pc'[q] = "out"
    BY <1>3, <1>4, <1>7, <2>1, Zenon
  <2> QED
    BY <2>2, <2>3, Zenon
<1> QED
  BY <1>8, Zenon DEF TInv

\* A step that leaves the picture and the lines alone.
LEMMA LabelStep ==
  ASSUME SInv, TInv, NEW p \in Processes, p = running, NEW to, goto(p, to),
         UNCHANGED <<running, mixed, lines, vidmem>>,
         ~mixed => LabelInv(to, p)'
  PROVE  TInv'
<1>1. ~mixed => (Fit(lines) /\ Pictures(vidmem, lines) /\ LabelInv(to, p))'
  BY Zenon DEF TInv, Fit, Pictures, CellOf
<1>2. UNCHANGED <<running, mixed>>
  BY Zenon
<1> QED
  BY <1>1, <1>2, LocalText, Zenon

\* What a step of p finds, by the label it is at.
LEMMA AtLabel ==
  ASSUME SInv, TInv, NEW p \in Processes, NEW from, at(p, from)
  PROVE  p = running /\ pc[p] = from /\ (~mixed => Fit(lines) /\ Pictures(vidmem, lines) /\ LabelInv(from, p))
<1>1. running = p /\ pc[p] = from
  BY Zenon DEF at
<1> QED
  BY <1>1, Zenon DEF TInv

LEMMA KprintText ==
  ASSUME SInv, TInv, NEW p \in Processes, NEW m \in Messages, kprint(p, m)
  PROVE  TInv'
<1>1. /\ at(p, "out") /\ goto(p, "get high")
      /\ UNCHANGED <<vidmem, selected, register, running, offset, lines, mixed>>
  BY Zenon DEF kprint, history
<1>2. p = running /\ (~mixed => LabelInv("out", p))
  BY <1>1, AtLabel, Zenon
<1>3. ~mixed => LabelInv("get high", p)'
  BY <1>1, <1>2, Memberships, Zenon DEF LabelInv, Cursor
<1>4. UNCHANGED <<running, mixed, lines, vidmem>>
  BY <1>1, Zenon
<1> QED
  BY <1>1, <1>2, <1>3, <1>4, LabelStep, Zenon

LEMMA SelectText ==
  ASSUME SInv, TInv, NEW p \in Processes, NEW from, NEW r, NEW to, Select(p, from, r, to),
         to \in Settled => from \in Settled, to \in HalfRead => from \in HalfRead,
         to \in Placed => from \in Placed, to \in HalfWritten => from \in HalfWritten,
         to \in HighSelected => r = 14, to \in LowSelected => r = 15
  PROVE  TInv'
<1>1. /\ at(p, from) /\ goto(p, to) /\ selected' = r
      /\ UNCHANGED <<vidmem, register, running, offset, lines, mixed>>
  BY Zenon DEF Select, history
<1>2. p = running /\ (~mixed => LabelInv(from, p))
  BY <1>1, AtLabel, Zenon
<1>3. ~mixed => LabelInv(to, p)'
  BY <1>1, <1>2, Zenon DEF LabelInv, Cursor
<1>4. UNCHANGED <<running, mixed, lines, vidmem>>
  BY <1>1, Zenon
<1> QED
  BY <1>1, <1>2, <1>3, <1>4, LabelStep, Zenon

LEMMA GetText ==
  ASSUME SInv, TInv, NEW p \in Processes, get_cursor_offset(p)
  PROVE  TInv'
<1>1. CASE Select(p, "get high", 14, "read high")
  BY <1>1, Memberships, SelectText, Zenon
<1>2. CASE Read(p, "read high", register[selected] * BYTE, "get low")
  <2>1. /\ at(p, "read high") /\ goto(p, "get low")
        /\ offset' = [offset EXCEPT ![p] = register[selected] * BYTE]
        /\ UNCHANGED <<vidmem, selected, register, running, lines, mixed>>
    BY <1>2, Zenon DEF Read, history
  <2>2. p = running /\ (~mixed => LabelInv("read high", p))
    BY <2>1, AtLabel, Zenon
  <2>3. ~mixed => selected = 14 /\ Cursor = Position(lines)
    BY <2>2, Memberships, Zenon DEF LabelInv
  <2>4. offset'[p] = register[selected] * BYTE
    BY <2>1, Zenon DEF SInv
  <2>5. ~mixed => LabelInv("get low", p)'
    BY <2>1, <2>3, <2>4, Memberships, Zenon DEF LabelInv, Cursor
  <2>6. UNCHANGED <<running, mixed, lines, vidmem>>
    BY <2>1, Zenon
  <2> QED
    BY <2>1, <2>2, <2>5, <2>6, LabelStep, Zenon
<1>3. CASE Select(p, "get low", 15, "read low")
  BY <1>3, Memberships, SelectText, Zenon
<1>4. CASE Read(p, "read low", offset[p] + register[selected], "print")
  <2>1. /\ at(p, "read low") /\ goto(p, "print")
        /\ offset' = [offset EXCEPT ![p] = offset[p] + register[selected]]
        /\ UNCHANGED <<vidmem, selected, register, running, lines, mixed>>
    BY <1>4, Zenon DEF Read, history
  <2>2. p = running /\ (~mixed => LabelInv("read low", p))
    BY <2>1, AtLabel, Zenon
  <2>3. ~mixed => selected = 15 /\ Cursor = Position(lines) /\ offset[p] = register[14] * BYTE
    BY <2>2, Memberships, Zenon DEF LabelInv
  <2>4. offset'[p] = offset[p] + register[selected]
    BY <2>1, Zenon DEF SInv
  <2>5. ~mixed => offset'[p] = Position(lines)
    BY <2>3, <2>4, Zenon DEF Cursor
  <2>6. ~mixed => LabelInv("print", p)'
    BY <2>1, <2>3, <2>5, Memberships, Zenon DEF LabelInv, Cursor
  <2>7. UNCHANGED <<running, mixed, lines, vidmem>>
    BY <2>1, Zenon
  <2> QED
    BY <2>1, <2>2, <2>6, <2>7, LabelStep, Zenon
<1> QED
  BY <1>1, <1>2, <1>3, <1>4, Zenon DEF get_cursor_offset

LEMMA SetText ==
  ASSUME SInv, TInv, NEW p \in Processes, set_cursor_offset(p)
  PROVE  TInv'
<1>1. CASE Select(p, "set high", 14, "write high")
  BY <1>1, Memberships, SelectText, Zenon
<1>2. CASE Write(p, "write high", HighByte(offset[p]), "set low")
  <2>1. /\ at(p, "write high") /\ goto(p, "set low")
        /\ register' = [register EXCEPT ![selected] = HighByte(offset[p])]
        /\ UNCHANGED <<vidmem, selected, running, offset, lines, mixed>>
    BY <1>2, Zenon DEF Write, history
  <2>2. p = running /\ (~mixed => LabelInv("write high", p))
    BY <2>1, AtLabel, Zenon
  <2>3. ~mixed => selected = 14 /\ offset[p] = Position(lines)
    BY <2>2, Memberships, Zenon DEF LabelInv
  <2>4. selected = 14 => register'[14] = HighByte(offset[p])
    BY <2>1, Zenon DEF SInv
  <2>5. ~mixed => LabelInv("set low", p)'
    BY <2>1, <2>3, <2>4, Memberships, Zenon DEF LabelInv
  <2>6. UNCHANGED <<running, mixed, lines, vidmem>>
    BY <2>1, Zenon
  <2> QED
    BY <2>1, <2>2, <2>5, <2>6, LabelStep, Zenon
<1>3. CASE Select(p, "set low", 15, "write low")
  BY <1>3, Memberships, SelectText, Zenon
<1>4. CASE Write(p, "write low", LowByte(offset[p]), "print")
  <2>1. /\ at(p, "write low") /\ goto(p, "print")
        /\ register' = [register EXCEPT ![selected] = LowByte(offset[p])]
        /\ UNCHANGED <<vidmem, selected, running, offset, lines, mixed>>
    BY <1>4, Zenon DEF Write, history
  <2>2. p = running /\ (~mixed => LabelInv("write low", p))
    BY <2>1, AtLabel, Zenon
  <2>3. ~mixed => /\ selected = 15 /\ offset[p] = Position(lines)
                  /\ register[14] = HighByte(Position(lines))
    BY <2>2, Memberships, Zenon DEF LabelInv
  <2>4. selected = 15 => register'[15] = LowByte(offset[p]) /\ register'[14] = register[14]
    <3>1. /\ register' = [register EXCEPT ![selected] = LowByte(offset[p])]
          /\ register \in [{14, 15} -> 0 .. BYTE - 1]
      BY <2>1, Zenon DEF SInv
    <3> QED
      BY <3>1
  <2>5. HighByte(offset[p]) * BYTE + LowByte(offset[p]) = offset[p]
    BY LocalTypes, ByteParts
  <2>6. ~mixed => Cursor' = Position(lines)
    BY <2>3, <2>4, <2>5, Zenon DEF Cursor
  <2>7. ~mixed => LabelInv("print", p)'
    BY <2>1, <2>3, <2>6, Memberships, Zenon DEF LabelInv
  <2>8. UNCHANGED <<running, mixed, lines, vidmem>>
    BY <2>1, Zenon
  <2> QED
    BY <2>1, <2>2, <2>7, <2>8, LabelStep, Zenon
<1> QED
  BY <1>1, <1>2, <1>3, <1>4, Zenon DEF set_cursor_offset

LEMMA ReturnText ==
  ASSUME SInv, TInv, NEW p \in Processes, Return(p)
  PROVE  TInv'
<1>1. /\ at(p, "print") /\ goto(p, "out")
      /\ UNCHANGED <<vidmem, selected, register, running, lines, mixed>>
  BY Zenon DEF Return, history
<1>2. p = running /\ (~mixed => LabelInv("print", p))
  BY <1>1, AtLabel, Zenon
<1>3. ~mixed => LabelInv("out", p)'
  BY <1>1, <1>2, Memberships, Zenon DEF LabelInv, Cursor
<1>4. UNCHANGED <<running, mixed, lines, vidmem>>
  BY <1>1, Zenon
<1> QED
  BY <1>1, <1>2, <1>3, <1>4, LabelStep, Zenon

LEMMA PrintCharText ==
  ASSUME SInv, TInv, NEW p \in Processes, PrintChar(p)
  PROVE  TInv'
<1>0. at(p, "print") /\ message[p] # <<>> /\ message[p] \in Seq(Nat)
  BY LocalTypes, Zenon DEF PrintChar
<1>1. PICK c \in Nat : c = Head(message[p])
  BY <1>0
<1>2. /\ vidmem' = print_char([cells |-> vidmem, offset |-> offset[p]], c).cells
      /\ offset' = [offset EXCEPT ![p] = print_char([cells |-> vidmem, offset |-> offset[p]], c).offset]
      /\ goto(p, IF OffScreen(offset[p]) THEN "print" ELSE "set high")
      /\ lines' = IF mixed THEN lines ELSE Typed(lines, c)
      /\ UNCHANGED <<selected, register, running, mixed>>
  BY <1>1, Zenon DEF PrintChar
<1>3. /\ p = running
      /\ ~mixed => Fit(lines) /\ Pictures(vidmem, lines) /\ LabelInv("print", p)
  BY <1>0, AtLabel, Zenon
<1>4. UNCHANGED <<running, mixed>>
  BY <1>2, Zenon
<1>5. CASE mixed
  <2>1. PICK to : goto(p, to)
    BY <1>2, Zenon
  <2> QED
    BY <1>3, <1>4, <1>5, <2>1, LocalText, Zenon
<1>6. CASE ~mixed
  <2>1. Fit(lines) /\ Pictures(vidmem, lines) /\ offset[p] = Position(lines)
    BY <1>3, <1>6, Memberships, Zenon DEF LabelInv
  <2>2. offset[p] \in Cells
    BY <2>1, FitFacts
  <2>3. ~OffScreen(offset[p])
    BY <2>2, Geometry DEF OffScreen
  <2>4. PICK s \in State : s = [cells |-> vidmem, offset |-> offset[p]]
    <3>1. offset[p] \in Nat
      BY <2>2, Geometry
    <3> QED
      BY <3>1, Zenon DEF State, SInv
  <2>5. Reads(s, lines)
    <3>1. s.offset = offset[p] /\ s.cells = vidmem
      BY <2>4
    <3> QED
      BY <2>1, <3>1, Zenon DEF Reads
  <2>6. Reads(print_char(s, c), Typed(lines, c))
    BY <2>5, PrintReads
  <2>7. PICK t, ls : t = print_char(s, c) /\ ls = Typed(lines, c) /\ Reads(t, ls)
    BY <2>6, Zenon
  <2>8. /\ vidmem' = t.cells /\ offset' = [offset EXCEPT ![p] = t.offset] /\ lines' = ls
        /\ goto(p, "set high")
    BY <1>2, <1>6, <2>3, <2>4, <2>7, Zenon
  <2>9. offset'[p] = t.offset
    BY <2>8, Zenon DEF SInv
  <2>10. Fit(ls) /\ Pictures(t.cells, ls) /\ t.offset = Position(ls)
    BY <2>7, Zenon DEF Reads
  <2>11. (Fit(lines) /\ Pictures(vidmem, lines))'
    BY <2>8, <2>10, Zenon DEF Fit, Pictures, CellOf
  <2>12. LabelInv("set high", p)'
    <3>1. offset'[p] = Position(lines')
      BY <2>8, <2>9, <2>10, Zenon
    <3> QED
      BY <3>1, Memberships, Zenon DEF LabelInv
  <2> QED
    BY <1>3, <1>4, <2>8, <2>11, <2>12, LocalText, Zenon
<1> QED
  BY <1>5, <1>6

\* A tick between calls prints below what has been printed.
LEMMA TickText ==
  ASSUME SInv, TInv, NEW text \in KernelTexts, NEW q \in Processes, Tick(text, q)
  PROVE  TInv'
<1>1. mixed' = (mixed \/ pc[running] # "out") /\ pc' = pc /\ running' = q
  BY Zenon DEF Tick, locals
<1>2. SUFFICES ASSUME ~mixed, pc[running] = "out" PROVE TInv'
  <2>1. CASE mixed'
    BY <2>1, Zenon DEF TInv
  <2>2. CASE ~mixed'
    <3>1. ~mixed /\ pc[running] = "out"
      <4>1. ~ (mixed \/ pc[running] # "out")
        BY <1>1, <2>2, Zenon
      <4> QED
        BY <4>1, Zenon
    <3> QED
      BY <1>2, <3>1
  <2> QED
    BY <2>1, <2>2
<1>3. /\ \A p \in Processes : pc[p] = "out"
      /\ Fit(lines) /\ Pictures(vidmem, lines) /\ LabelInv("out", running)
  BY <1>2, Zenon DEF TInv
<1>4. Cursor = Position(lines) /\ Cursor \in Cells
  <2>1. Cursor = Position(lines)
    BY <1>3, Memberships, Zenon DEF LabelInv
  <2> QED
    BY <1>3, <2>1, FitFacts
<1>5. PICK s \in State : s = [cells |-> vidmem, offset |-> Cursor]
  <2>1. Cursor \in Nat
    BY <1>4, Geometry
  <2> QED
    BY <2>1, Zenon DEF State, SInv
<1>6. Reads(s, lines)
  <2>1. s.cells = vidmem /\ s.offset = Cursor
    BY <1>5
  <2> QED
    BY <1>3, <1>4, <2>1, Zenon DEF Reads
<1>7. PICK t, ls : /\ t = FoldLeft(print_char, s, text) /\ ls = FoldLeft(Typed, lines, text)
                   /\ Reads(t, ls)
  <2>1. text \in Seq(Nat)
    OBVIOUS
  <2>2. Reads(FoldLeft(print_char, s, text), FoldLeft(Typed, lines, text))
    BY <1>6, <2>1, TextReads, Zenon
  <2> QED
    BY <2>2, Zenon
<1>8. ~OffScreen(Cursor)
  BY <1>4, Geometry DEF OffScreen
<1>9. ~mixed'
  BY <1>1, <1>2, Zenon
<1>10. /\ vidmem' = t.cells /\ lines' = ls
       /\ register' = [register EXCEPT ![14] = HighByte(t.offset), ![15] = LowByte(t.offset)]
  BY <1>5, <1>7, <1>8, <1>9, Zenon DEF Tick
<1>11. Fit(ls) /\ Pictures(t.cells, ls) /\ t.offset = Position(ls)
  BY <1>7, Zenon DEF Reads
<1>12. Cursor' = Position(ls)
  <2>1. Position(ls) \in 0 .. BYTE * BYTE - 1
    BY <1>11, FitFacts, Bytes, Geometry
  <2>2. register'[14] = HighByte(t.offset) /\ register'[15] = LowByte(t.offset)
    <3>1. register \in [{14, 15} -> 0 .. BYTE - 1]
      BY Zenon DEF SInv
    <3> QED
      BY <1>10, <3>1
  <2>3. HighByte(t.offset) * BYTE + LowByte(t.offset) = t.offset
    BY <1>11, <2>1, ByteParts, Zenon
  <2> QED
    BY <1>11, <2>2, <2>3, Zenon DEF Cursor
<1>13. (Fit(lines) /\ Pictures(vidmem, lines))'
  BY <1>10, <1>11, Zenon DEF Fit, Pictures, CellOf
<1>14. LabelInv(pc[running], running)'
  <2>1. pc'[running'] = "out"
    BY <1>1, <1>3, Zenon
  <2>2. Cursor' = Position(lines')
    BY <1>10, <1>12, Zenon
  <2> QED
    BY <2>1, <2>2, Memberships, Zenon DEF LabelInv
<1>15. \A p \in Processes : pc'[p] = "out"
  BY <1>1, <1>3, Zenon
<1> QED
  BY <1>13, <1>14, <1>15, Zenon DEF TInv

LEMMA TNext == SInv /\ TInv /\ [Next]_vars => TInv'
<1> SUFFICES ASSUME SInv, TInv, [Next]_vars PROVE TInv'
  OBVIOUS
<1>1. CASE UNCHANGED vars
  BY <1>1, Zenon DEF TInv, Fit, Pictures, CellOf, LabelInv, Position, Cursor, vars, locals, history
<1>2. ASSUME NEW p \in Processes, \E m \in Messages : kprint(p, m) PROVE TInv'
  BY <1>2, KprintText, Zenon
<1>3. ASSUME NEW p \in Processes,
             get_cursor_offset(p) \/ PrintChar(p) \/ set_cursor_offset(p) \/ Return(p)
      PROVE  TInv'
  BY <1>3, GetText, PrintCharText, SetText, ReturnText, Zenon
<1>4. ASSUME NEW text \in KernelTexts, NEW q \in Processes, Tick(text, q) PROVE TInv'
  BY <1>4, TickText, Zenon
<1> QED
  BY <1>1, <1>2, <1>3, <1>4, Zenon DEF Next

LEMMA TextInvariant == SInv /\ TInv => ShowsText
<1> SUFFICES ASSUME SInv, TInv, ~mixed, pc[running] \in {"out", "print"}
             PROVE  /\ \A k \in Cells :
                         vidmem[k] = IF /\ get_offset_row(k) + 1 <= Len(lines)
                                        /\ (k % MAX_COLS) + 1 <= Len(lines[get_offset_row(k) + 1])
                                     THEN lines[get_offset_row(k) + 1][(k % MAX_COLS) + 1] ELSE BLANK
                    /\ Cursor = get_offset(Len(Last(lines)), Len(lines) - 1)
  BY Zenon DEF ShowsText
<1>1. Fit(lines) /\ Pictures(vidmem, lines) /\ Cursor = Position(lines)
  BY Memberships, Zenon DEF TInv, LabelInv
<1>2. Cursor = get_offset(Len(Last(lines)), Len(lines) - 1)
  BY <1>1, Zenon DEF get_offset, Position, Last
<1>3. ASSUME NEW k \in Cells
      PROVE  vidmem[k] = IF /\ get_offset_row(k) + 1 <= Len(lines)
                            /\ (k % MAX_COLS) + 1 <= Len(lines[get_offset_row(k) + 1])
                         THEN lines[get_offset_row(k) + 1][(k % MAX_COLS) + 1] ELSE BLANK
  <2>1. PICK r \in 0 .. MAX_ROWS - 1, j \in 0 .. MAX_COLS - 1 : k = r * MAX_COLS + j
    BY CellSplits
  <2>2. get_offset_row(k) = r /\ k % MAX_COLS = j
    <3>1. r \in Int
      OBVIOUS
    <3>2. get_offset_row(r * MAX_COLS + j) = r /\ (r * MAX_COLS + j) % MAX_COLS = j
      BY <3>1, RowAndColumn, Zenon
    <3> QED
      BY <2>1, <3>2, Zenon
  <2>3. vidmem[k] = CellOf(lines, r, j)
    BY <1>1, <2>1, Zenon DEF Pictures
  <2> QED
    BY <2>2, <2>3, Zenon DEF CellOf
<1> QED
  BY <1>2, <1>3, Zenon

\* As long as ticks come between calls only, the lines printed last are on the screen,
\* each at its row, full lines broken and older ones scrolled away, and the cursor is
\* behind them: for every size of the screen and all texts.
THEOREM TextShown == Spec => []ShowsText
<1>1. SInv /\ TInv /\ [Next]_vars /\ SInv' => TInv'
  BY TNext
<1> QED
  BY TInit, TextInvariant, <1>1, Invariant, PTL DEF Spec

-----------------------------------------------------------------------------
(* Numbers: what int_to_ascii and hex_to_ascii leave in a string, and how  *)
(* it is read.                                                             *)

\* On a cleared screen a text that fits and has no end of line is shown as it is.
LEMMA ShownText ==
  ASSUME NEW text \in Seq(Nat), \A k \in 1 .. Len(text) : text[k] # NEWLINE, Len(text) < CELLS,
         Cleared
  PROVE  Shown(text) = text
<1> DEFINE n == Len(text)
           base == [cells |-> vidmem, offset |-> Cursor]
<1>0. /\ n \in Nat /\ n < CELLS /\ CELLS \in Nat /\ DOMAIN text = 1 .. n
      /\ \A k \in 1 .. n : text[k] \in Nat /\ text[k] # NEWLINE
  BY Geometry
<1>1. vidmem \in Picture /\ Cursor = 0 /\ base \in State
  BY DEF Cleared, Picture, State, BLANK
<1>2. PICK shown : Printed(shown, base, text) /\ FoldLeft(print_char, base, text) = shown[n]
  BY <1>1, PrintFold
<1>3. base.offset = 0
  BY <1>1
<1> DEFINE Good(k) == /\ shown[k] \in State /\ shown[k].offset = k
                      /\ \A x \in 1 .. k : shown[k].cells[x - 1] = text[x]
           S == {k \in 0 .. n : Good(k)}
<1>4. 0 \in S
  BY <1>0, <1>1, <1>2, <1>3 DEF Printed
<1> HIDE DEF base
<1>5. ASSUME NEW k \in 0 .. n - 1, k \in S PROVE k + 1 \in S
  <2>1. k + 1 \in 1 .. n /\ (k + 1) - 1 = k /\ k \in Nat /\ k < CELLS /\ k + 1 < CELLS
    BY <1>0
  <2>2. PICK c \in Nat : c = text[k + 1] /\ c # NEWLINE
    BY <1>0, <2>1
  <2>3. PICK s \in State : s = shown[k]
    BY <1>5
  <2>4. shown[k + 1] = print_char(s, c)
    BY <1>2, <2>1, <2>2, <2>3 DEF Printed
  <2>5. s.offset = k /\ \A x \in 1 .. k : s.cells[x - 1] = text[x]
    BY <1>5, <2>3
  <2>6. After(s.offset, c) = k + 1
    BY <2>2, <2>5 DEF After
  <2>7. Shows(s.cells, s.offset, c) = [s.cells EXCEPT ![k] = c]
    BY <2>2, <2>5 DEF Shows
  <2>8. print_char(s, c) = [cells |-> [s.cells EXCEPT ![k] = c], offset |-> k + 1]
    BY <2>1, <2>5, <2>6, <2>7, PrintOn
  <2>9. s.cells \in Picture /\ k \in Cells
    BY <2>1, Geometry DEF State
  <2>10. PICK m \in Picture : m = [s.cells EXCEPT ![k] = c]
    BY <2>9 DEF Picture
  <2>11. \A x \in 1 .. k + 1 : m[x - 1] = text[x]
    <3> TAKE x \in 1 .. k + 1
    <3>1. x - 1 \in Cells
      BY <2>1, Geometry
    <3>2. CASE x = k + 1
      BY <2>1, <2>2, <2>9, <2>10, <3>2 DEF Picture
    <3>3. CASE x # k + 1
      <4>1. x \in 1 .. k /\ x - 1 # k
        BY <2>1, <3>3
      <4> QED
        BY <2>5, <2>9, <2>10, <3>1, <4>1 DEF Picture
    <3> QED
      BY <3>2, <3>3
  <2>12. shown[k + 1] = [cells |-> m, offset |-> k + 1]
    BY <2>4, <2>8, <2>10
  <2> QED
    BY <2>1, <2>11, <2>12 DEF State
<1>6. S \in SUBSET (0 .. n)
  OBVIOUS
<1>7. n \in S
  <2> HIDE DEF S, n
  <2>1. n \in Nat /\ n \in 0 .. n
    BY <1>0
  <2>2. S = 0 .. n
    BY <1>4, <1>5, <1>6, <2>1, InductionUpTo, Zenon
  <2> QED
    BY <2>1, <2>2
<1>8. Shown(text) = [k \in 1 .. shown[n].offset |-> shown[n].cells[k - 1]]
  BY <1>2, Zenon DEF Shown, base
<1>9. Good(n)
  BY <1>7
<1> HIDE DEF n
<1>10. Shown(text) = [k \in 1 .. n |-> text[k]]
  BY <1>8, <1>9
<1>11. text = [k \in 1 .. n |-> text[k]]
  BY <1>0
<1> QED
  BY <1>10, <1>11

\* A string of digits is read from the left: the value so far times the base, and the digit.
Horner(f, b, n, d) ==
  f = [s \in SUBSET (1 .. n) |-> IF s = {} THEN 0 ELSE b * f[s \ {Max(s)}] + d[Max(s)]]

LEMMA HornerExists ==
  ASSUME NEW b \in Nat, NEW n \in Nat, NEW d \in [1 .. n -> Int]
  PROVE  \E f : Horner(f, b, n, d)
<1> DEFINE step == [k \in 1 .. n |-> [v \in Int |-> b * v + d[k]]]
<1>1. step \in [1 .. n -> [Int -> Int]]
  OBVIOUS
<1> HIDE DEF step
<1>2. PICK g : Folds(g, Int, 0, n, step)
  <2>1. 0 \in Int
    OBVIOUS
  <2> QED
    BY <1>1, <2>1, FoldExists
<1>3. ASSUME NEW s \in SUBSET (1 .. n), s # {}
      PROVE  step[Max(s)][g[s \ {Max(s)}]] = b * g[s \ {Max(s)}] + d[Max(s)]
  <2>1. Max(s) \in 1 .. n
    BY <1>3, MaxIn
  <2>2. g[s \ {Max(s)}] \in Int
    BY <1>2 DEF Folds
  <2> QED
    BY <2>1, <2>2, Zenon DEF step
<1>4. ASSUME NEW s \in SUBSET (1 .. n)
      PROVE  g[s] = IF s = {} THEN 0 ELSE b * g[s \ {Max(s)}] + d[Max(s)]
  BY <1>2, <1>3, Zenon DEF Folds
<1>5. Horner(g, b, n, d)
  BY <1>2, <1>4, Zenon DEF Folds, Horner
<1> QED
  BY <1>5

\* The values that the reading runs through are these.
Reading(A, b, n, d) == A[0] = 0 /\ \A k \in 1 .. n : A[k] = b * A[k - 1] + d[k]

ReadTo(b, n, d, x) == \A f : Horner(f, b, n, d) => f[1 .. n] = x

LEMMA HornerReads ==
  ASSUME NEW b \in Nat, NEW n \in Nat, NEW d \in [1 .. n -> Int],
         NEW A \in [0 .. n -> Int], Reading(A, b, n, d)
  PROVE  ReadTo(b, n, d, A[n])
<1> SUFFICES ASSUME NEW f, Horner(f, b, n, d) PROVE f[1 .. n] = A[n]
  BY Zenon DEF ReadTo
<1> DEFINE S == {k \in 0 .. n : f[1 .. k] = A[k]}
<1>0. \A s \in SUBSET (1 .. n) : f[s] = IF s = {} THEN 0 ELSE b * f[s \ {Max(s)}] + d[Max(s)]
  BY Zenon DEF Horner
<1>1. 0 \in S
  <2>1. 1 .. 0 = {} /\ 1 .. 0 \in SUBSET (1 .. n)
    OBVIOUS
  <2>2. f[1 .. 0] = 0
    BY <1>0, <2>1, Zenon
  <2> QED
    BY <2>2 DEF Reading
<1>2. ASSUME NEW k \in 0 .. n - 1, k \in S PROVE k + 1 \in S
  <2>1. PICK i \in 1 .. n : i = k + 1 /\ i - 1 = k
    OBVIOUS
  <2>2. 1 .. i # {} /\ Max(1 .. i) = i /\ (1 .. i) \ {i} = 1 .. i - 1
    <3>1. i \in Nat \ {0}
      OBVIOUS
    <3> QED
      BY <3>1, MaxOfAll
  <2>3. 1 .. i \in SUBSET (1 .. n)
    OBVIOUS
  <2>4. f[1 .. i] = b * f[1 .. i - 1] + d[i]
    BY <1>0, <2>2, <2>3, Zenon
  <2>5. f[1 .. i - 1] = A[i - 1]
    BY <1>2, <2>1
  <2>6. A[i] = b * A[i - 1] + d[i]
    BY DEF Reading
  <2>7. f[1 .. i] = A[i]
    BY <2>4, <2>5, <2>6, Zenon
  <2> QED
    BY <2>1, <2>7
<1>3. S \in SUBSET (0 .. n)
  OBVIOUS
<1> HIDE DEF S
<1>4. n \in S
  <2>1. n \in 0 .. n
    OBVIOUS
  <2>2. S = 0 .. n
    BY <1>1, <1>2, <1>3, InductionUpTo, Zenon
  <2> QED
    BY <2>1, <2>2
<1> QED
  BY <1>4 DEF S

LEMMA DecimalReads ==
  ASSUME NEW n \in Nat, NEW str \in [1 .. n -> Int], NEW A \in [0 .. n -> Int],
         NEW d \in [1 .. n -> Int], \A k \in 1 .. n : d[k] = str[k] - Zero,
         Reading(A, 10, n, d)
  PROVE  Decimal(str) = A[n]
<1> DEFINE Solves(f) == f = [s \in SUBSET (1 .. n) |->
                         IF s = {} THEN 0 ELSE 10 * f[s \ {Max(s)}] + (str[Max(s)] - Zero)]
           f == CHOOSE f : Solves(f)
<1>1. ASSUME NEW s \in SUBSET (1 .. n), s # {} PROVE d[Max(s)] = str[Max(s)] - Zero
  BY <1>1, MaxIn
<1>2. \A g : Solves(g) <=> Horner(g, 10, n, d)
  <2> TAKE g
  <2>1. [s \in SUBSET (1 .. n) |-> IF s = {} THEN 0 ELSE 10 * g[s \ {Max(s)}] + (str[Max(s)] - Zero)]
        = [s \in SUBSET (1 .. n) |-> IF s = {} THEN 0 ELSE 10 * g[s \ {Max(s)}] + d[Max(s)]]
    BY <1>1, Zenon
  <2> QED
    BY <2>1, Zenon DEF Horner
<1>3. 10 \in Nat
  OBVIOUS
<1>4. \E g : Horner(g, 10, n, d)
  BY <1>3, HornerExists, Zenon
<1>5. Solves(f)
  BY <1>2, <1>4, Zenon
<1>6. Horner(f, 10, n, d)
  BY <1>2, <1>5, Zenon
<1>7. DOMAIN str = 1 .. n
  OBVIOUS
<1>8. Decimal(str) = f[1 .. n]
  BY <1>7, Zenon DEF Decimal, Value, FoldLeft, MapThenFoldSet
<1> HIDE DEF f
<1>9. f[1 .. n] = A[n]
  <2>1. ReadTo(10, n, d, A[n])
    BY <1>3, HornerReads, Zenon
  <2> QED
    BY <1>6, <2>1, Zenon DEF ReadTo
<1> QED
  BY <1>8, <1>9

LEMMA IntsAre ==
  \E M \in Nat \ {0} : M = 2 ^ (INT_BITS - 1) /\ Ints = -M .. M - 1
<1>1. PICK k \in Nat : k = INT_BITS - 1
  BY LibCAssumption
<1>2. TwoTo(k) \in Nat \ {0}
  BY Powers
<1>3. PICK M \in Nat \ {0} : M = TwoTo(k)
  BY <1>2
<1>4. M = 2 ^ (INT_BITS - 1)
  BY <1>1, <1>3, Zenon DEF TwoTo
<1>5. Ints = -M .. M - 1
  BY <1>4, Zenon DEF Ints
<1> QED
  BY <1>4, <1>5

\* The quotient of a number that has more digits is a smaller one.
LEMMA QuotSmaller ==
  ASSUME NEW n \in Ints, More(Quot(n, 10))
  PROVE  /\ n \in Nat /\ n > 0 /\ Quot(n, 10) = n \div 10
         /\ Quot(n, 10) \in Ints /\ Quot(n, 10) < n
<1>1. PICK M \in Nat \ {0} : Ints = -M .. M - 1
  BY IntsAre
<1>2. n \in Int
  BY <1>1
<1>3. n >= 0
  <2> SUFFICES ASSUME n < 0 PROVE FALSE
    BY <1>2
  <2>1. Quot(n, 10) = -((-n) \div 10) /\ (-n) \div 10 \in Nat
    BY <1>2 DEF Quot
  <2> QED
    BY <2>1 DEF More
<1>4. Quot(n, 10) = n \div 10
  BY <1>2, <1>3 DEF Quot
<1>5. n \div 10 > 0
  BY <1>4 DEF More
<1>6. n \div 10 \in Nat /\ n \div 10 < n /\ n > 0
  BY <1>2, <1>3, <1>5
<1> QED
  BY <1>1, <1>2, <1>3, <1>4, <1>6

DigitsFrom(h, n) == <<Zero + Rem(n, 10)>> \o (IF More(Quot(n, 10)) THEN h[Quot(n, 10)] ELSE <<>>)

\* The digits of all numbers below b.
DigitsBelow(h, b) == h = [n \in {x \in Ints : x < b} |-> DigitsFrom(h, n)]

LEMMA DigitsExist ==
  ASSUME NEW b \in Nat
  PROVE  \E h : DigitsBelow(h, b)
<1> DEFINE S == {k \in Nat : \E h : DigitsBelow(h, k)}
<1>0. PICK M \in Nat \ {0} : Ints = -M .. M - 1
  BY IntsAre
<1>1. 0 \in S
  <2> DEFINE h == [n \in {x \in Ints : x < 0} |-> <<Zero + Rem(n, 10)>> \o <<>>]
  <2>1. ASSUME NEW n \in {x \in Ints : x < 0} PROVE ~ More(Quot(n, 10))
    <3>1. n \in Ints /\ n < 0
      OBVIOUS
    <3>2. ~ (n > 0)
      BY <1>0, <3>1
    <3> QED
      BY <3>1, <3>2, QuotSmaller
  <2>2. h = [n \in {x \in Ints : x < 0} |-> DigitsFrom(h, n)]
    BY <2>1, Zenon DEF DigitsFrom
  <2> QED
    BY <2>2, Zenon DEF DigitsBelow
<1>2. ASSUME NEW k \in S PROVE k + 1 \in S
  <2>0. k \in Nat /\ k + 1 \in Nat
    OBVIOUS
  <2>1. PICK h : DigitsBelow(h, k)
    OBVIOUS
  <2>2. CASE k \notin Ints
    <3>1. {x \in Ints : x < k + 1} = {x \in Ints : x < k}
      BY <1>0, <2>0, <2>2
    <3>2. DigitsBelow(h, k + 1)
      BY <2>1, <3>1, Zenon DEF DigitsBelow
    <3> QED
      BY <2>0, <3>2
  <2>3. CASE k \in Ints
    <3> DEFINE g == [n \in {x \in Ints : x < k + 1} |-> IF n = k THEN DigitsFrom(h, k) ELSE h[n]]
    <3>1. ASSUME NEW n \in {x \in Ints : x < k + 1}
          PROVE  DigitsFrom(g, n) = DigitsFrom(h, n)
      <4>1. CASE More(Quot(n, 10))
        <5>1. Quot(n, 10) \in Ints /\ Quot(n, 10) < n /\ n \in Ints /\ n < k + 1
          BY <4>1, QuotSmaller
        <5>2. Quot(n, 10) \in {x \in Ints : x < k + 1} /\ Quot(n, 10) # k
          BY <1>0, <2>0, <5>1
        <5>3. g[Quot(n, 10)] = h[Quot(n, 10)]
          BY <5>2, Zenon
        <5> QED
          BY <5>3, Zenon DEF DigitsFrom
      <4>2. CASE ~ More(Quot(n, 10))
        BY <4>2, Zenon DEF DigitsFrom
      <4> QED
        BY <4>1, <4>2
    <3>2. ASSUME NEW n \in {x \in Ints : x < k + 1} PROVE g[n] = DigitsFrom(g, n)
      <4>1. CASE n = k
        BY <3>1, <4>1, Zenon
      <4>2. CASE n # k
        <5>1. n \in {x \in Ints : x < k}
          BY <1>0, <2>0, <4>2
        <5>2. h[n] = DigitsFrom(h, n)
          BY <2>1, <5>1, Zenon DEF DigitsBelow
        <5> QED
          BY <3>1, <4>2, <5>2, Zenon
      <4> QED
        BY <4>1, <4>2
    <3>3. g = [n \in {x \in Ints : x < k + 1} |-> DigitsFrom(g, n)]
      BY <3>2, Zenon
    <3>4. DigitsBelow(g, k + 1)
      BY <3>3, Zenon DEF DigitsBelow
    <3> QED
      BY <2>0, <3>4
  <2> QED
    BY <2>2, <2>3
<1>3. S \in SUBSET Nat
  OBVIOUS
<1> HIDE DEF S
<1>4. S = Nat
  BY <1>1, <1>2, <1>3, Induction
<1> QED
  BY <1>4 DEF S

LEMMA DigitsAre ==
  \A n \in Ints : digits[n] = DigitsFrom(digits, n)
<1>1. PICK M \in Nat \ {0} : Ints = -M .. M - 1
  BY IntsAre
<1>2. {x \in Ints : x < M} = Ints
  BY <1>1
<1>3. PICK h : DigitsBelow(h, M)
  BY DigitsExist
<1>4. h = [n \in Ints |-> DigitsFrom(h, n)]
  BY <1>2, <1>3, Zenon DEF DigitsBelow
<1> DEFINE Solves(f) == f = [n \in Ints |-> <<Zero + Rem(n, 10)>> \o
                                              (IF More(Quot(n, 10)) THEN f[Quot(n, 10)] ELSE <<>>)]
           f == CHOOSE f : Solves(f)
<1>5. Solves(h)
  BY <1>4, Zenon DEF DigitsFrom
<1>6. Solves(f)
  BY <1>5, Zenon
<1>7. digits = f
  BY Zenon DEF digits
<1> HIDE DEF f
<1> QED
  BY <1>6, <1>7, Zenon DEF DigitsFrom

\* The quotients of n by the base, down to the 0 that ends the loop of int_to_ascii.
Chain(n, L, q) ==
  /\ q \in [0 .. L -> Nat] /\ q[0] = n /\ q[L] = 0
  /\ \A k \in 0 .. L - 1 : q[k + 1] = q[k] \div 10
  /\ L > 1 => q[L - 1] > 0

Digit(x) == Zero + (x % 10)
LastDigits(L, q) == [k \in 1 .. L |-> Digit(q[k - 1])]
ChainOf(n) == \E L \in Nat \ {0} : \E q : Chain(n, L, q) /\ digits[n] = LastDigits(L, q)

LEMMA DigitsChain ==
  ASSUME NEW n \in Ints, n >= 0
  PROVE  ChainOf(n)
<1> DEFINE S == {b \in Nat : \A x \in Ints : 0 <= x /\ x < b => ChainOf(x)}
<1>0. PICK M \in Nat \ {0} : Ints = -M .. M - 1
  BY IntsAre
<1>1. 0 \in S
  BY <1>0
<1>2. ASSUME NEW b \in S PROVE b + 1 \in S
  <2>0. b \in Nat /\ b + 1 \in Nat
    OBVIOUS
  <2> SUFFICES ASSUME NEW x \in Ints, 0 <= x, x < b + 1 PROVE ChainOf(x)
    BY <2>0, Zenon
  <2>1. x \in Nat
    BY <1>0
  <2>2. Quot(x, 10) = x \div 10 /\ Rem(x, 10) = x % 10 /\ x \div 10 \in Nat /\ x % 10 \in Nat
    BY <2>1 DEF Quot, Rem
  <2>3. digits[x] = DigitsFrom(digits, x)
    BY DigitsAre
  <2>4. CASE ~ More(Quot(x, 10))
    <3>1. x \div 10 = 0
      BY <2>2, <2>4 DEF More
    <3> DEFINE q == [k \in 0 .. 1 |-> IF k = 0 THEN x ELSE 0]
    <3>2. q[0] = x /\ q[1] = 0 /\ q \in [0 .. 1 -> Nat]
      BY <2>1
    <3>3. Chain(x, 1, q)
      BY <3>1, <3>2 DEF Chain
    <3>4. digits[x] = <<Zero + Rem(x, 10)>> \o <<>>
      BY <2>3, <2>4, Zenon DEF DigitsFrom
    <3>5. digits[x] = [k \in 1 .. 1 |-> Zero + (x % 10)]
      BY <2>2, <3>4
    <3> HIDE DEF q
    <3>6. digits[x] = LastDigits(1, q)
      BY <3>2, <3>5 DEF LastDigits, Digit
    <3>7. 1 \in Nat \ {0}
      OBVIOUS
    <3> QED
      BY <3>3, <3>6, <3>7, Zenon DEF ChainOf
  <2>5. CASE More(Quot(x, 10))
    <3>1. PICK y \in Ints : y = x \div 10 /\ y < x /\ y \in Nat /\ More(y)
      BY <2>2, <2>5, QuotSmaller
    <3>2. ChainOf(y)
      <4>1. 0 <= y /\ y < b
        BY <2>0, <2>1, <3>1
      <4> QED
        BY <4>1, Zenon
    <3>a. PICK L \in Nat \ {0} : \E r : Chain(y, L, r) /\ digits[y] = LastDigits(L, r)
      BY <3>2, Zenon DEF ChainOf
    <3>3. PICK r : Chain(y, L, r) /\ digits[y] = LastDigits(L, r)
      BY <3>a, Zenon
    <3> DEFINE q == [k \in 0 .. L + 1 |-> IF k = 0 THEN x ELSE r[k - 1]]
    <3>4. q[0] = x /\ q \in [0 .. L + 1 -> Nat] /\ \A k \in 0 .. L : q[k + 1] = r[k]
      <4>1. r \in [0 .. L -> Nat]
        BY <3>3 DEF Chain
      <4>2. \A k \in 0 .. L : k + 1 \in 0 .. L + 1 /\ k + 1 # 0 /\ (k + 1) - 1 = k
        OBVIOUS
      <4>3. \A k \in 0 .. L + 1 : k # 0 => k - 1 \in 0 .. L
        OBVIOUS
      <4> QED
        BY <2>1, <4>1, <4>2, <4>3
    <3> HIDE DEF q
    <3>5. Chain(x, L + 1, q)
      <4>1. r[0] = y /\ r[L] = 0 /\ (L > 1 => r[L - 1] > 0)
            /\ \A k \in 0 .. L - 1 : r[k + 1] = r[k] \div 10
        BY <3>3 DEF Chain
      <4>2. q[L + 1] = 0
        BY <3>4, <4>1
      <4>3. ASSUME NEW k \in 0 .. (L + 1) - 1 PROVE q[k + 1] = q[k] \div 10
        <5>1. CASE k = 0
          BY <3>1, <3>4, <4>1, <5>1
        <5>2. CASE k # 0
          <6>1. PICK i \in 0 .. L - 1 : k = i + 1
            <7>1. k - 1 \in 0 .. L - 1 /\ k = (k - 1) + 1
              BY <5>2
            <7> QED
              BY <7>1
          <6>2. q[k] = r[i] /\ q[k + 1] = r[i + 1]
            BY <3>4, <6>1
          <6> QED
            BY <4>1, <6>2
        <5> QED
          BY <5>1, <5>2
      <4>4. q[(L + 1) - 1] > 0
        <5>1. CASE L = 1
          BY <3>1, <3>4, <4>1, <5>1 DEF More
        <5>2. CASE L > 1
          <6>1. L - 1 \in 0 .. L /\ (L - 1) + 1 = L /\ (L + 1) - 1 = L
            BY <5>2
          <6>2. q[L] = r[L - 1]
            BY <3>4, <6>1
          <6> QED
            BY <4>1, <5>2, <6>1, <6>2
        <5> QED
          BY <5>1, <5>2
      <4> QED
        BY <3>4, <4>2, <4>3, <4>4 DEF Chain
    <3>6. digits[x] = LastDigits(L + 1, q)
      <4>1. digits[x] = <<Zero + (x % 10)>> \o digits[y]
        BY <2>2, <2>3, <2>5, <3>1, Zenon DEF DigitsFrom
      <4>2. PICK s \in Seq(Int) : s = LastDigits(L, r) /\ Len(s) = L
        <5>1. r \in [0 .. L -> Nat]
          BY <3>3 DEF Chain
        <5>2. \A k \in 1 .. L : Digit(r[k - 1]) \in Int
          BY <5>1 DEF Digit, Zero
        <5>3. PICK s : s = [k \in 1 .. L |-> Digit(r[k - 1])]
          OBVIOUS
        <5>4. s \in Seq(Int) /\ Len(s) = L
          BY <5>2, <5>3
        <5> QED
          BY <5>3, <5>4 DEF LastDigits
      <4>3. PICK e \in Int : e = Zero + (x % 10)
        BY <2>2 DEF Zero
      <4>4. <<e>> \o s = [k \in 1 .. L + 1 |-> IF k = 1 THEN e ELSE s[k - 1]]
        BY <4>2
      <4>5. ASSUME NEW k \in 1 .. L + 1 PROVE (IF k = 1 THEN e ELSE s[k - 1]) = Digit(q[k - 1])
        <5>1. CASE k = 1
          BY <3>4, <4>3, <5>1 DEF Digit
        <5>2. CASE k # 1
          <6>1. PICK i \in 1 .. L : i = k - 1 /\ i - 1 \in 0 .. L /\ (i - 1) + 1 = k - 1
            BY <5>2
          <6>2. s[i] = Digit(r[i - 1])
            BY <4>2, <6>1 DEF LastDigits
          <6>3. q[k - 1] = r[i - 1]
            BY <3>4, <6>1
          <6> QED
            BY <5>2, <6>1, <6>2, <6>3
        <5> QED
          BY <5>1, <5>2
      <4>6. [k \in 1 .. L + 1 |-> IF k = 1 THEN e ELSE s[k - 1]] = LastDigits(L + 1, q)
        BY <4>5, Zenon DEF LastDigits
      <4> QED
        BY <3>3, <4>1, <4>2, <4>3, <4>4, <4>6, Zenon
    <3>7. L + 1 \in Nat \ {0}
      OBVIOUS
    <3> QED
      BY <3>5, <3>6, <3>7, Zenon DEF ChainOf
  <2> QED
    BY <2>4, <2>5
<1>3. S \in SUBSET Nat
  OBVIOUS
<1> HIDE DEF S
<1>4. S = Nat
  BY <1>1, <1>2, <1>3, Induction
<1>5. n \in Nat /\ n + 1 \in Nat /\ n < n + 1
  BY <1>0
<1> QED
  BY <1>4, <1>5 DEF S

\* The first digit first.
Reversed(L, q) == [k \in 1 .. L |-> Digit(q[L - k])]

LEMMA ReadsBack ==
  ASSUME NEW n \in Nat, NEW L \in Nat \ {0}, NEW q, Chain(n, L, q)
  PROVE  /\ Reversed(L, q) \in Seq(Nat) /\ Len(Reversed(L, q)) = L
         /\ DOMAIN Reversed(L, q) = 1 .. L
         /\ \A k \in 1 .. L : Reversed(L, q)[k] \in Zero .. Zero + 9
         /\ Decimal(Reversed(L, q)) = n
         /\ L > 1 => Reversed(L, q)[1] # Zero
<1>1. q \in [0 .. L -> Nat] /\ q[0] = n /\ q[L] = 0 /\ (L > 1 => q[L - 1] > 0)
      /\ \A k \in 0 .. L - 1 : q[k + 1] = q[k] \div 10
  BY DEF Chain
<1>2. \A k \in 1 .. L : L - k \in 0 .. L - 1 /\ L - k \in 0 .. L /\ L - (k - 1) = (L - k) + 1
                        /\ L - (k - 1) \in 0 .. L
  OBVIOUS
<1>3. \A k \in 1 .. L : (q[L - k] \in Nat) /\ (q[L - k] % 10) \in 0 .. 9
  <2>1. \A x \in Nat : (x % 10) \in 0 .. 9
    OBVIOUS
  <2>2. \A k \in 1 .. L : q[L - k] \in Nat
    BY <1>1, <1>2
  <2> QED
    BY <2>1, <2>2, Zenon
<1>4. PICK str : str = Reversed(L, q)
  OBVIOUS
<1>5. \A k \in 1 .. L : str[k] = Zero + (q[L - k] % 10)
  BY <1>4 DEF Reversed, Digit
<1>6. DOMAIN str = 1 .. L /\ str \in Seq(Nat) /\ str \in [1 .. L -> Int] /\ Len(str) = L
  <2>1. \A k \in 1 .. L : Digit(q[L - k]) \in Nat
    BY <1>3 DEF Digit, Zero
  <2>2. str = [k \in 1 .. L |-> Digit(q[L - k])]
    BY <1>4 DEF Reversed
  <2> QED
    BY <2>1, <2>2
<1>7. \A k \in 1 .. L : str[k] \in Zero .. Zero + 9
  <2> TAKE k \in 1 .. L
  <2>1. PICK x \in 0 .. 9 : x = q[L - k] % 10
    BY <1>3, Zenon
  <2>2. str[k] = Zero + x
    BY <1>5, <2>1
  <2> QED
    BY <2>2 DEF Zero
<1>8. Decimal(str) = n
  <2>1. PICK d : d = [k \in 1 .. L |-> q[L - k] % 10]
    OBVIOUS
  <2>2. d \in [1 .. L -> Int] /\ \A k \in 1 .. L : d[k] = str[k] - Zero
    <3>1. \A k \in 1 .. L : d[k] \in 0 .. 9 /\ str[k] = Zero + d[k]
      BY <1>3, <1>5, <2>1, Zenon
    <3>2. d \in [1 .. L -> Int]
      <4>1. \A k \in 1 .. L : d[k] \in Int
        BY <3>1
      <4>2. DOMAIN d = 1 .. L /\ d = [k \in 1 .. L |-> d[k]]
        BY <2>1, Zenon
      <4> QED
        BY <4>1, <4>2, Zenon
    <3>3. \A k \in 1 .. L : d[k] = str[k] - Zero
      BY <3>1, SMTT(30) DEF Zero
    <3> QED
      BY <3>2, <3>3
  <2>3. PICK A : A = [k \in 0 .. L |-> q[L - k]]
    OBVIOUS
  <2>4. A \in [0 .. L -> Int]
    <3>1. \A k \in 0 .. L : L - k \in 0 .. L
      OBVIOUS
    <3> QED
      BY <1>1, <2>3, <3>1
  <2>5. A[0] = 0 /\ A[L] = n
    BY <1>1, <2>3
  <2>6. ASSUME NEW k \in 1 .. L PROVE A[k] = 10 * A[k - 1] + d[k]
    <3>1. PICK x \in Nat : x = q[L - k]
      BY <1>3
    <3>2. q[(L - k) + 1] = x \div 10
      BY <1>1, <1>2, <3>1
    <3>3. A[k - 1] = x \div 10 /\ A[k] = x /\ d[k] = x % 10
      <4>1. k \in 0 .. L /\ k - 1 \in 0 .. L
        OBVIOUS
      <4> QED
        BY <1>2, <2>1, <2>3, <3>1, <3>2, <4>1
    <3>4. x = 10 * (x \div 10) + (x % 10)
      OBVIOUS
    <3> QED
      BY <3>3, <3>4
  <2>7. Reading(A, 10, L, d)
    BY <2>5, <2>6 DEF Reading
  <2> QED
    BY <1>6, <2>2, <2>4, <2>5, <2>7, DecimalReads, ZenonT(40)
<1>9. ASSUME L > 1 PROVE str[1] # Zero
  <2>1. PICK x \in Nat : x = q[L - 1] /\ x > 0
    BY <1>1, <1>3, <1>9
  <2>2. x \div 10 = 0
    BY <1>1, <2>1
  <2>3. x % 10 # 0
    BY <2>1, <2>2
  <2> QED
    BY <1>5, <2>1, <2>3 DEF Zero
<1> QED
  BY <1>4, <1>6, <1>7, <1>8, <1>9

\* int_to_ascii, without a sign and with one.
LEMMA PositiveText ==
  ASSUME NEW n \in Ints, n >= 0
  PROVE  \E L \in Nat \ {0} : \E q : Chain(n, L, q) /\ int_to_ascii(n) = Reversed(L, q)
<1>1. PICK M \in Nat \ {0} : Ints = -M .. M - 1
  BY IntsAre
<1>2. ~ (n < 0)
  BY <1>1
<1>a. PICK L \in Nat \ {0} : \E q : Chain(n, L, q) /\ digits[n] = LastDigits(L, q)
  BY DigitsChain, Zenon DEF ChainOf
<1>3. PICK q : Chain(n, L, q) /\ digits[n] = LastDigits(L, q)
  BY <1>a, Zenon
<1>4. PICK s : s = [k \in 1 .. L |-> Digit(q[k - 1])]
  OBVIOUS
<1>5. s \in Seq(Nat) /\ DOMAIN s = 1 .. L /\ Len(s) = L
  <2>1. \A k \in 1 .. L : Digit(q[k - 1]) \in Nat
    BY <1>3 DEF Chain, Digit, Zero
  <2> QED
    BY <1>4, <2>1
<1>6. int_to_ascii(n) = reverse(s)
  BY <1>2, <1>3, <1>4, Zenon DEF int_to_ascii, LastDigits
<1>7. \A k \in 1 .. L : s[L + 1 - k] = Digit(q[L - k])
  <2>1. \A k \in 1 .. L : L + 1 - k \in 1 .. L /\ (L + 1 - k) - 1 = L - k
    OBVIOUS
  <2> QED
    BY <1>4, <2>1
<1>8. reverse(s) = Reversed(L, q)
  BY <1>5, <1>7 DEF reverse, Reversed
<1> QED
  BY <1>3, <1>6, <1>8

LEMMA NegativeText ==
  ASSUME NEW n \in Ints, n < 0, n # -(2 ^ (INT_BITS - 1))
  PROVE  /\ -n \in Nat
         /\ \E L \in Nat \ {0} : \E q : /\ Chain(-n, L, q)
                                        /\ int_to_ascii(n) = <<Minus>> \o Reversed(L, q)
<1>1. PICK M \in Nat \ {0} : M = 2 ^ (INT_BITS - 1) /\ Ints = -M .. M - 1
  BY IntsAre
<1>2. PICK m \in Ints : m = -n /\ m >= 0 /\ m \in Nat /\ Negated(n) = m
  <2>1. n \in Int /\ n # -M
    BY <1>1
  <2>2. -n \in Ints /\ -n >= 0 /\ -n \in Nat
    BY <1>1, <2>1
  <2>3. Negated(n) = -n
    BY Zenon DEF Negated
  <2> QED
    BY <2>2, <2>3
<1>a. PICK L \in Nat \ {0} : \E q : Chain(m, L, q) /\ digits[m] = LastDigits(L, q)
  BY <1>2, DigitsChain, Zenon DEF ChainOf
<1>3. PICK q : Chain(m, L, q) /\ digits[m] = LastDigits(L, q)
  BY <1>a, Zenon
<1>4. PICK s : s = [k \in 1 .. L |-> Digit(q[k - 1])]
  OBVIOUS
<1>5. s \in Seq(Nat) /\ DOMAIN s = 1 .. L /\ Len(s) = L
  <2>1. \A k \in 1 .. L : Digit(q[k - 1]) \in Nat
    BY <1>3 DEF Chain, Digit, Zero
  <2> QED
    BY <1>4, <2>1
<1>6. int_to_ascii(n) = reverse(s \o <<Minus>>)
  BY <1>2, <1>3, <1>4, Zenon DEF int_to_ascii, LastDigits
<1>7. PICK t \in Seq(Nat) : t = s \o <<Minus>> /\ Len(t) = L + 1 /\ DOMAIN t = 1 .. L + 1
                           /\ t[L + 1] = Minus /\ \A k \in 1 .. L : t[k] = s[k]
  <2>1. Minus \in Nat /\ <<Minus>> \in Seq(Nat) /\ Len(<<Minus>>) = 1 /\ <<Minus>>[1] = Minus
    BY DEF Minus
  <2>2. PICK t : t = s \o <<Minus>>
    OBVIOUS
  <2>3. t \in Seq(Nat) /\ Len(t) = L + 1
    BY <1>5, <2>1, <2>2
  <2>4. \A k \in 1 .. L : t[k] = s[k]
    BY <1>5, <2>1, <2>2
  <2>5. t[L + 1] = Minus
    BY <1>5, <2>1, <2>2
  <2>6. DOMAIN t = 1 .. L + 1
    BY <2>3
  <2> QED
    BY <2>2, <2>3, <2>4, <2>5, <2>6
<1>8. PICK r \in Seq(Nat) : r = Reversed(L, q) /\ Len(r) = L
  BY <1>2, <1>3, ReadsBack
<1>9. <<Minus>> \o r = [k \in 1 .. L + 1 |-> IF k = 1 THEN Minus ELSE r[k - 1]]
  BY <1>8 DEF Minus
<1>10. ASSUME NEW k \in 1 .. L + 1 PROVE t[(L + 1) + 1 - k] = IF k = 1 THEN Minus ELSE r[k - 1]
  <2>1. CASE k = 1
    BY <1>7, <2>1
  <2>2. CASE k # 1
    <3>1. PICK i \in 1 .. L : i = (L + 1) + 1 - k /\ k - 1 \in 1 .. L /\ i - 1 = L - (k - 1)
      BY <2>2
    <3>2. t[i] = Digit(q[i - 1])
      BY <1>4, <1>7, <3>1
    <3>3. r[k - 1] = Digit(q[L - (k - 1)])
      BY <1>8, <3>1 DEF Reversed
    <3> QED
      BY <2>2, <3>1, <3>2, <3>3
  <2> QED
    BY <2>1, <2>2
<1>11. reverse(t) = [k \in 1 .. L + 1 |-> IF k = 1 THEN Minus ELSE r[k - 1]]
  <2>1. DOMAIN t = 1 .. L + 1 /\ Len(t) = L + 1
    BY <1>7
  <2>2. reverse(t) = [k \in 1 .. L + 1 |-> t[(L + 1) + 1 - k]]
    BY <2>1, Zenon DEF reverse
  <2> QED
    BY <1>10, <2>2, Zenon
<1> QED
  BY <1>2, <1>3, <1>6, <1>7, <1>8, <1>9, <1>11, ZenonT(40)

LEMMA NumbersRead ==
  Cleared => NumbersShown
<1> SUFFICES ASSUME Cleared, NEW n \in Ints \ {-(2 ^ (INT_BITS - 1))}
             PROVE  LET str == Shown(int_to_ascii(n))
                        shown == IF n < 0 THEN Tail(str) ELSE str
                    IN  /\ (n < 0) <=> (str[1] = Minus)
                        /\ \A k \in DOMAIN shown : shown[k] \in Zero .. Zero + 9
                        /\ Decimal(shown) = (IF n < 0 THEN -n ELSE n)
                        /\ Len(shown) > 1 => shown[1] # Zero
  BY DEF NumbersShown
<1>1. PICK M \in Nat \ {0} : Ints = -M .. M - 1
  BY IntsAre
<1>2. n \in Ints /\ n \in Int /\ n # -(2 ^ (INT_BITS - 1))
  <2>1. n \in Ints
    OBVIOUS
  <2> QED
    BY <1>1, <2>1
<1>3. PICK str : str = int_to_ascii(n)
  OBVIOUS
<1>4. Len(str) < CELLS
  BY <1>2, <1>3, RoomAssumption, Zenon
<1>5. ASSUME str \in Seq(Nat), \A k \in 1 .. Len(str) : str[k] # NEWLINE
      PROVE  Shown(int_to_ascii(n)) = str
  BY <1>3, <1>4, <1>5, ShownText
<1>0. (\A x \in Zero .. Zero + 9 : x # NEWLINE) /\ (n >= 0 \/ n < 0)
  BY <1>2 DEF Zero, NEWLINE
<1>6. CASE n >= 0
  <2>a. PICK L \in Nat \ {0} : \E q : Chain(n, L, q) /\ str = Reversed(L, q)
    BY <1>2, <1>3, <1>6, PositiveText
  <2>1. PICK q : Chain(n, L, q) /\ str = Reversed(L, q)
    BY <2>a, Zenon
  <2>2. n \in Nat /\ ~ (n < 0)
    BY <1>2, <1>6
  <2>3. /\ str \in Seq(Nat) /\ Len(str) = L /\ DOMAIN str = 1 .. L
        /\ \A k \in 1 .. L : str[k] \in Zero .. Zero + 9
        /\ Decimal(str) = n /\ (L > 1 => str[1] # Zero)
    BY <2>1, <2>2, ReadsBack
  <2>4. Shown(int_to_ascii(n)) = str
    <3>1. \A k \in 1 .. Len(str) : str[k] # NEWLINE
      BY <1>0, <2>3, Zenon
    <3> QED
      BY <1>5, <2>3, <3>1, Zenon
  <2>5. str[1] # Minus
    BY <2>3 DEF Zero, Minus
  <2> QED
    BY <2>2, <2>3, <2>4, <2>5, Zenon
<1>7. CASE n < 0
  <2>a. PICK m \in Nat, L \in Nat \ {0} : \E q : m = -n /\ Chain(m, L, q) /\ str = <<Minus>> \o Reversed(L, q)
    BY <1>2, <1>3, <1>7, NegativeText
  <2>1. PICK q : m = -n /\ Chain(m, L, q) /\ str = <<Minus>> \o Reversed(L, q)
    BY <2>a, Zenon
  <2>2. PICK r \in Seq(Nat) : r = Reversed(L, q) /\ Len(r) = L /\ DOMAIN r = 1 .. L
                              /\ (\A k \in 1 .. L : r[k] \in Zero .. Zero + 9)
                              /\ Decimal(r) = m /\ (L > 1 => r[1] # Zero)
    BY <2>1, ReadsBack
  <2>3. str = <<Minus>> \o r
    BY <2>1, <2>2
  <2>4. /\ str \in Seq(Nat) /\ Len(str) = L + 1 /\ str[1] = Minus
        /\ \A k \in 1 .. L : str[k + 1] = r[k]
    <3>1. Minus \in Nat
      BY DEF Minus
    <3> QED
      BY <2>2, <2>3, <3>1
  <2>5. Tail(str) = r
    BY <2>2, <2>4, SMTT(30)
  <2>6. \A k \in 1 .. Len(str) : str[k] # NEWLINE
    <3> TAKE k \in 1 .. Len(str)
    <3>1. CASE k = 1
      BY <2>4, <3>1 DEF Minus, NEWLINE
    <3>2. CASE k # 1
      <4>1. PICK i \in 1 .. L : k = i + 1
        <5>1. k - 1 \in 1 .. L /\ k = (k - 1) + 1
          BY <2>4, <3>2
        <5> QED
          BY <5>1
      <4>2. str[k] = r[i] /\ r[i] \in Zero .. Zero + 9
        BY <2>2, <2>4, <4>1
      <4> QED
        BY <1>0, <4>2, Zenon
    <3> QED
      BY <3>1, <3>2
  <2>7. Shown(int_to_ascii(n)) = str
    BY <1>5, <2>4, <2>6
  <2> QED
    BY <1>7, <2>1, <2>2, <2>4, <2>5, <2>7, Zenon
<1> QED
  BY <1>0, <1>6, <1>7, Zenon

\* On a cleared screen every number that dbg prints can be read back from the cells, but
\* for the smallest int: the digits of int_to_ascii are those of the number, print_char
\* puts them there in their order.
THEOREM NumbersReadBack == Spec => []NumbersShown
<1>1. NumbersShown
  BY NumbersRead DEF NumbersShown
<1> QED
  BY <1>1, PTL

\* A power of two four bits further.
LEMMA Sixteen ==
  ASSUME NEW k \in Nat
  PROVE  TwoTo(k) \in Nat \ {0} /\ TwoTo(k + 4) = 16 * TwoTo(k)
<1>1. PICK a \in Nat \ {0} : a = TwoTo(k)
  BY Powers
<1>2. k + 1 \in Nat /\ k + 2 \in Nat /\ k + 3 \in Nat
      /\ (k + 1) + 1 = k + 2 /\ (k + 2) + 1 = k + 3 /\ (k + 3) + 1 = k + 4
  OBVIOUS
<1>3. TwoTo(k + 1) = 2 * a
  BY <1>1, Powers
<1>4. TwoTo(k + 2) = 2 * TwoTo(k + 1)
  BY <1>2, Powers
<1>5. TwoTo(k + 3) = 2 * TwoTo(k + 2)
  BY <1>2, Powers
<1>6. TwoTo(k + 4) = 2 * TwoTo(k + 3)
  BY <1>2, Powers
<1>7. TwoTo(k + 4) = 16 * a
  BY <1>3, <1>4, <1>5, <1>6
<1> QED
  BY <1>1, <1>7

LEMMA Splits ==
  ASSUME NEW n \in Nat \ {0}, NEW a \in Int
  PROVE  \E q \in Int, r \in 0 .. n - 1 : a = q * n + r
<1>1. PICK q \in Int : a = q * n + (a % n) /\ a % n \in 0 .. n - 1
  BY Division
<1> QED
  BY <1>1, Zenon

\* The lowest m + 4 bits of what is left of n without its last i are the lowest m bits of
\* what is left without four more, and those four.
LEMMA NibbleBelow ==
  ASSUME NEW n \in Int, NEW i \in Nat, NEW m \in Nat
  PROVE  /\ Nibble(n, i) \in 0 .. 15
         /\ (n \div TwoTo(i + 4)) % TwoTo(m) \in Int
         /\ (n \div TwoTo(i)) % TwoTo(m + 4)
              = 16 * ((n \div TwoTo(i + 4)) % TwoTo(m)) + Nibble(n, i)
<1>1. PICK t \in Nat \ {0} : t = TwoTo(i) /\ TwoTo(i + 4) = 16 * t
  BY Sixteen
<1>2. PICK g \in Nat \ {0} : g = TwoTo(m) /\ TwoTo(m + 4) = 16 * g
  BY Sixteen
<1>3. PICK b \in Nat \ {0} : b = 16 * t
  BY <1>1
<1>4. PICK q \in Int, r \in 0 .. b - 1 : n = q * b + r
  BY <1>3, Splits
<1>5. PICK u \in Int, v \in 0 .. t - 1 : r = u * t + v
  <2>1. r \in Int
    BY <1>3
  <2> QED
    BY <1>1, <2>1, Splits
<1>6. u \in 0 .. 15
  <2>1. PICK x \in Int : x = u * t
    BY <1>1
  <2>2. x > -t /\ x < 16 * t
    BY <1>3, <1>5, <2>1
  <2>3. u >= 0
    <3>1. u <= -1 => u * t <= -t
      BY MultipleFar
    <3> QED
      BY <1>5, <2>1, <2>2, <3>1
  <2>4. u <= 15
    <3> SUFFICES ASSUME u >= 16 PROVE FALSE
      BY <1>5
    <3>1. PICK z \in Nat : u = z + 16
      <4>1. u - 16 \in Nat /\ u = (u - 16) + 16
        BY <1>5
      <4> QED
        BY <4>1, Zenon
    <3>2. PICK f \in Nat : f = z * t
      BY <1>1
    <3>3. u * t = z * t + 16 * t
      BY <1>1, <3>1
    <3>4. PICK e \in Nat : e = 16 * t
      BY <1>1
    <3>5. x = f + e
      BY <2>1, <3>2, <3>3, <3>4, Zenon
    <3>6. x < e
      BY <2>2, <3>4
    <3> QED
      BY <3>2, <3>4, <3>5, <3>6
  <2> QED
    BY <1>5, <2>3, <2>4
<1>7. n \div b = q
  BY <1>4, DivIs
<1>8. PICK y \in Int : y = 16 * q + u
  BY <1>4, <1>6
<1>9. n \div t = y
  <2>1. n = y * t + v
    <3>1. q * b = (16 * q) * t
      BY <1>3, <1>4
    <3>2. y * t = (16 * q) * t + u * t
      BY <1>6, <1>8
    <3> QED
      BY <1>4, <1>5, <3>1, <3>2
  <2> QED
    BY <1>5, <1>8, <2>1, DivIs
<1>10. Nibble(n, i) = u
  <2>1. y = q * 16 + u
    BY <1>4, <1>6, <1>8
  <2>2. y % 16 = u
    BY <1>4, <1>6, <2>1
  <2>3. Nibble(n, i) = (n \div TwoTo(i)) % 16
    BY Zenon DEF Nibble, TwoTo
  <2> QED
    BY <1>1, <1>9, <2>2, <2>3
<1>11. PICK s \in Int, w \in 0 .. g - 1 : q = s * g + w
  BY <1>2, Splits
<1>12. q % g = w
  BY <1>11, ModIs
<1>13. y % (16 * g) = 16 * w + u
  <2>1. PICK h \in Nat \ {0} : h = 16 * g
    BY <1>2
  <2>2. PICK z \in 0 .. h - 1 : z = 16 * w + u
    BY <1>6, <1>11, <2>1
  <2>3. y = s * h + z
    <3>1. 16 * q = 16 * (s * g) + 16 * w
      <4>1. PICK x \in Int : x = s * g
        BY <1>2, <1>11
      <4> QED
        BY <1>11, <4>1
    <3>2. s * h = 16 * (s * g)
      BY <1>11, <2>1
    <3> QED
      BY <1>6, <1>8, <1>11, <2>2, <3>1, <3>2
  <2>4. y % h = z
    BY <2>2, <2>3, ModIs
  <2> QED
    BY <2>1, <2>2, <2>4
<1>14. n \div TwoTo(i) = y /\ n \div TwoTo(i + 4) = q
  BY <1>1, <1>3, <1>7, <1>9
<1>15. /\ (n \div TwoTo(i + 4)) % TwoTo(m) = w
       /\ (n \div TwoTo(i)) % TwoTo(m + 4) = 16 * w + u
  BY <1>2, <1>12, <1>13, <1>14, Zenon
<1>16. w \in Int
  BY <1>2
<1> QED
  BY <1>6, <1>10, <1>15, <1>16, Zenon

\* The characters that hex_to_ascii appends may be put together in any order.
LEMMA Associative ==
  ASSUME NEW s \in Seq(Nat), NEW t \in Seq(Nat), NEW u \in Seq(Nat)
  PROVE  (s \o t) \o u = s \o (t \o u)
BY ConcatAssociative, SMTT(30)

\* Appending the characters of a text one by one to nothing gives the text.
LEMMA AppendAll ==
  ASSUME NEW text \in Seq(Nat)
  PROVE  FoldLeft(append, <<>>, text) = text
<1> DEFINE n == Len(text)
           Solves(f) == f = [s \in SUBSET (1 .. n) |->
                         IF s = {} THEN <<>> ELSE append(f[s \ {Max(s)}], text[Max(s)])]
           f == CHOOSE f : Solves(f)
           Part(k) == [x \in 1 .. k |-> text[x]]
<1>0. n \in Nat /\ DOMAIN text = 1 .. n /\ (\A k \in 1 .. n : text[k] \in Nat) /\ text = Part(n)
  OBVIOUS
<1> HIDE DEF n
<1>1. \E g : Solves(g)
  <2> DEFINE step == [k \in 1 .. n |-> [s \in Seq(Nat) |-> append(s, text[k])]]
  <2>1. step \in [1 .. n -> [Seq(Nat) -> Seq(Nat)]]
    <3>1. \A k \in 1 .. n, s \in Seq(Nat) : append(s, text[k]) \in Seq(Nat)
      BY <1>0 DEF append
    <3> QED
      BY <3>1, Zenon
  <2>2. <<>> \in Seq(Nat)
    OBVIOUS
  <2> HIDE DEF step
  <2>3. PICK g : Folds(g, Seq(Nat), <<>>, n, step)
    BY <1>0, <2>1, <2>2, FoldExists
  <2>4. ASSUME NEW s \in SUBSET (1 .. n), s # {}
        PROVE  step[Max(s)][g[s \ {Max(s)}]] = append(g[s \ {Max(s)}], text[Max(s)])
    <3>1. Max(s) \in 1 .. n
      BY <1>0, <2>4, MaxIn
    <3>2. g[s \ {Max(s)}] \in Seq(Nat)
      BY <2>3, Zenon DEF Folds
    <3> QED
      BY <3>1, <3>2, Zenon DEF step
  <2>5. ASSUME NEW s \in SUBSET (1 .. n)
        PROVE  g[s] = IF s = {} THEN <<>> ELSE append(g[s \ {Max(s)}], text[Max(s)])
    BY <2>3, <2>4, Zenon DEF Folds
  <2>6. Solves(g)
    BY <2>3, <2>5, Zenon DEF Folds
  <2> QED
    BY <2>6, Zenon
<1>2. Solves(f)
  BY <1>1, Zenon
<1>3. FoldLeft(append, <<>>, text) = f[1 .. n]
  BY <1>0, Zenon DEF FoldLeft, MapThenFoldSet
<1> HIDE DEF f
<1>4. \A s \in SUBSET (1 .. n) : f[s] = IF s = {} THEN <<>> ELSE append(f[s \ {Max(s)}], text[Max(s)])
  BY <1>2, Zenon
<1> DEFINE S == {k \in 0 .. n : f[1 .. k] = Part(k)}
<1>5. 0 \in S
  <2>1. 1 .. 0 = {} /\ 1 .. 0 \in SUBSET (1 .. n) /\ 0 \in 0 .. n
    BY <1>0
  <2>2. f[1 .. 0] = <<>>
    BY <1>4, <2>1, Zenon
  <2>3. Part(0) = <<>>
    OBVIOUS
  <2> QED
    BY <2>1, <2>2, <2>3
<1>6. ASSUME NEW k \in 0 .. n - 1, k \in S PROVE k + 1 \in S
  <2>0. k + 1 \in 1 .. n /\ (k + 1) - 1 = k /\ k + 1 \in Nat \ {0}
    BY <1>0, SMTT(30)
  <2>1. PICK i \in 1 .. n : i = k + 1 /\ i - 1 = k /\ i \in Nat \ {0}
    BY <2>0, Zenon
  <2>2. 1 .. i # {} /\ Max(1 .. i) = i /\ (1 .. i) \ {i} = 1 .. i - 1
    BY <2>1, MaxOfAll
  <2>3. 1 .. i \in SUBSET (1 .. n)
    BY <1>0
  <2>4. f[1 .. i] = append(f[1 .. i - 1], text[i])
    BY <1>4, <2>2, <2>3, Zenon
  <2>5. f[1 .. i - 1] = Part(k)
    BY <1>6, <2>1
  <2>6. PICK s \in Seq(Nat) : s = Part(k) /\ Len(s) = k
    <3>1. k \in Nat /\ \A x \in 1 .. k : text[x] \in Nat
      BY <1>0
    <3>2. PICK s : s = [x \in 1 .. k |-> text[x]]
      OBVIOUS
    <3>3. s \in Seq(Nat) /\ Len(s) = k
      BY <3>1, <3>2
    <3> QED
      BY <3>2, <3>3
  <2>7. PICK c \in Nat : c = text[i]
    BY <1>0
  <2>8. s \o <<c>> = [x \in 1 .. k + 1 |-> IF x = k + 1 THEN c ELSE s[x]]
    BY <2>6
  <2>9. \A x \in 1 .. k + 1 : (IF x = k + 1 THEN c ELSE s[x]) = text[x]
    <3> TAKE x \in 1 .. k + 1
    <3>1. CASE x = k + 1
      BY <2>1, <2>7, <3>1
    <3>2. CASE x # k + 1
      <4>1. x \in 1 .. k
        BY <3>2
      <4> QED
        BY <2>6, <3>2, <4>1
    <3> QED
      BY <3>1, <3>2
  <2>10. f[1 .. i] = Part(k + 1)
    <3>1. f[1 .. i] = s \o <<c>>
      BY <2>4, <2>5, <2>6, <2>7, Zenon DEF append
    <3>2. [x \in 1 .. k + 1 |-> IF x = k + 1 THEN c ELSE s[x]] = [x \in 1 .. k + 1 |-> text[x]]
      BY <2>9, Zenon
    <3> QED
      BY <2>8, <3>1, <3>2, Zenon
  <2>11. k + 1 \in 0 .. n
    BY <1>0, SMTT(30)
  <2> QED
    BY <2>1, <2>10, <2>11
<1>7. S \in SUBSET (0 .. n)
  OBVIOUS
<1> HIDE DEF S
<1>8. n \in S
  <2>1. n \in 0 .. n
    BY <1>0
  <2>2. S = 0 .. n
    BY <1>0, <1>5, <1>6, <1>7, InductionUpTo, Zenon
  <2> QED
    BY <2>1, <2>2
<1>9. f[1 .. n] = Part(n)
  BY <1>8 DEF S
<1> QED
  BY <1>0, <1>3, <1>9, Zenon

\* The k-th hexadecimal digit of n, counted from the left.
HexDigit(n, k) == Nibble(n, INT_BITS - 4 * k)

\* What hex_to_ascii shows of K digits, the first h of them being zeros that it leaves out.
HexDigits(n, K, h) ==
  [j \in 1 .. K - h |-> IF j < K - h THEN HighDigit(HexDigit(n, h + j)) ELSE LowDigit(HexDigit(n, K))]

HexSize(K) == K \in Nat \ {0} /\ INT_BITS = 4 * K

LEMMA HexSizes == \E K : HexSize(K)
<1>1. PICK K \in Int : INT_BITS = K * 4 + (INT_BITS % 4)
  <2>1. 4 \in Nat \ {0} /\ INT_BITS \in Int
    BY LibCAssumption
  <2> QED
    BY <2>1, Division
<1>2. K \in Nat \ {0} /\ INT_BITS = 4 * K
  BY <1>1, LibCAssumption
<1> QED
  BY <1>2 DEF HexSize

LEMMA HexDigitIs ==
  ASSUME NEW n \in Int, NEW K, HexSize(K), NEW k \in 1 .. K
  PROVE  HexDigit(n, k) \in 0 .. 15
<1>1. PICK i \in Nat : i = INT_BITS - 4 * k
  <2>1. K \in Nat \ {0} /\ INT_BITS = 4 * K
    BY DEF HexSize
  <2>2. INT_BITS - 4 * k \in Nat
    BY <2>1
  <2> QED
    BY <2>2, Zenon
<1>2. 0 \in Nat
  OBVIOUS
<1>3. Nibble(n, i) \in 0 .. 15
  BY <1>2, NibbleBelow
<1> QED
  BY <1>1, <1>3 DEF HexDigit

\* The digits that hex_to_ascii keeps: all but the zeros that lead.
Kept(n, K, h, kept) ==
  /\ h \in 0 .. K - 1 /\ \A k \in 1 .. h : HexDigit(n, k) = 0
  /\ kept \in Seq(Int) /\ Len(kept) = (K - 1) - h
  /\ \A j \in 1 .. (K - 1) - h : kept[j] = HexDigit(n, h + j)

LEMMA PartOf ==
  ASSUME NEW s, NEW x \in Int, NEW y \in Int, x <= y, \A i \in x .. y : s[i] \in Int
  PROVE  /\ SubSeq(s, x, y) \in Seq(Int) /\ Len(SubSeq(s, x, y)) = y - x + 1
         /\ \A i \in 1 .. y - x + 1 : SubSeq(s, x, y)[i] = s[x + i - 1]
BY SubSeqProperties

LEMMA HexKept ==
  ASSUME NEW n \in Int, NEW K, HexSize(K), NEW high, NEW first,
         high = [k \in 1 .. K - 1 |-> HexDigit(n, k)],
         first = SelectInSubSeq(high, 1, Len(high), LAMBDA d : d # 0)
  PROVE  \E h : Kept(n, K, h, IF first = 0 THEN <<>> ELSE SubSeq(high, first, Len(high)))
<1>1. K \in Nat \ {0}
  BY DEF HexSize
<1>0. \A k \in 1 .. K - 1 : HexDigit(n, k) \in Int
  <2> TAKE k \in 1 .. K - 1
  <2>1. k \in 1 .. K
    BY <1>1
  <2> QED
    BY <2>1, HexDigitIs
<1>2. high \in Seq(Int) /\ Len(high) = K - 1 /\ \A k \in 1 .. K - 1 : high[k] = HexDigit(n, k)
  BY <1>0, <1>1
<1>3. PICK I : I = {i \in 1 .. Len(high) : high[i] # 0}
  OBVIOUS
<1>4. first = IF I # {} THEN Min(I) ELSE 0
  BY <1>3, Zenon DEF SelectInSubSeq
<1>5. CASE I = {}
  <2>1. first = 0
    BY <1>4, <1>5
  <2>2. \A k \in 1 .. K - 1 : HexDigit(n, k) = 0
    BY <1>2, <1>3, <1>5
  <2>3. Kept(n, K, K - 1, <<>>)
    BY <1>1, <2>2 DEF Kept
  <2> QED
    BY <2>1, <2>3, Zenon
<1>6. CASE I # {}
  <2>1. I \in SUBSET Nat
    BY <1>1, <1>2, <1>3
  <2>2. first \in I /\ \A y \in I : first <= y
    <3>1. first = Min(I)
      BY <1>4, <1>6, Zenon
    <3>2. Min(I) \in I /\ \A y \in I : Min(I) <= y
      BY <1>6, <2>1, MinOfNaturals, Zenon
    <3> QED
      BY <3>1, <3>2, Zenon
  <2>3. first \in 1 .. K - 1
    BY <1>2, <1>3, <2>2
  <2>4. PICK h \in 0 .. K - 1 : h = first - 1 /\ first = h + 1
    <3>1. PICK a \in 1 .. K - 1 : a = first
      BY <2>3, Zenon
    <3>2. a - 1 \in 0 .. K - 1 /\ (a - 1) + 1 = a
      BY <1>1
    <3> QED
      BY <3>1, <3>2
  <2>5. ASSUME NEW k \in 1 .. h PROVE HexDigit(n, k) = 0
    <3>1. k \in 1 .. K - 1 /\ ~ (first <= k)
      BY <1>1, <2>3, <2>4
    <3>2. k \notin I
      BY <2>2, <3>1
    <3> QED
      BY <1>2, <1>3, <3>1, <3>2
  <2>6. PICK kept : kept = SubSeq(high, first, Len(high))
    OBVIOUS
  <2>7. kept \in Seq(Int) /\ Len(kept) = (K - 1) - h
        /\ \A j \in 1 .. (K - 1) - h : kept[j] = high[h + j]
    <3>1. PICK x \in Int, y \in Int : x = h + 1 /\ y = K - 1 /\ 1 <= x /\ x <= y
      <4>1. h + 1 \in Int /\ K - 1 \in Int /\ 1 <= h + 1 /\ h + 1 <= K - 1
        BY <1>1, <2>3, <2>4
      <4> QED
        BY <4>1, Zenon
    <3>2. kept = SubSeq(high, x, y)
      BY <1>2, <2>4, <2>6, <3>1
    <3>3. \A k \in x .. y : high[k] \in Int
      <4>1. \A k \in x .. y : k \in 1 .. Len(high)
        BY <1>1, <1>2, <3>1
      <4>2. \A k \in 1 .. Len(high) : high[k] \in Int
        BY <1>0, <1>2
      <4> QED
        BY <4>1, <4>2, Zenon
    <3>4. /\ kept \in Seq(Int) /\ Len(kept) = y - x + 1
          /\ \A k \in 1 .. y - x + 1 : kept[k] = high[x + k - 1]
      <4>1. x <= y
        BY <3>1
      <4>2. /\ SubSeq(high, x, y) \in Seq(Int) /\ Len(SubSeq(high, x, y)) = y - x + 1
            /\ \A k \in 1 .. y - x + 1 : SubSeq(high, x, y)[k] = high[x + k - 1]
        BY <3>3, <4>1, PartOf
      <4> QED
        BY <3>2, <4>2
    <3>5. y - x + 1 = (K - 1) - h /\ x <= y
      BY <1>1, <3>1
    <3>6. \A k \in Int : x + k - 1 = h + k
      BY <1>1, <3>1
    <3>7. \A k \in 1 .. (K - 1) - h : k \in Int
      OBVIOUS
    <3> QED
      BY <3>4, <3>5, <3>6, <3>7, Zenon
  <2>8. \A j \in 1 .. (K - 1) - h : high[h + j] = HexDigit(n, h + j)
    <3> TAKE j \in 1 .. (K - 1) - h
    <3>1. h + j \in 1 .. K - 1
      BY <1>1, <2>4
    <3> QED
      BY <1>2, <3>1
  <2>9. Kept(n, K, h, kept)
    BY <2>4, <2>5, <2>7, <2>8, ZenonT(40) DEF Kept
  <2>10. first # 0
    BY <1>1, <2>3
  <2> QED
    BY <2>6, <2>9, <2>10, Zenon
<1> QED
  BY <1>5, <1>6

LEMMA DigitCodes ==
  ASSUME NEW d \in 0 .. 15
  PROVE  /\ HighDigit(d) \in Zero .. Zero + 10 \/ HighDigit(d) \in SmallA .. SmallA + 5
         /\ LowDigit(d) \in Zero .. Zero + 10 \/ LowDigit(d) \in SmallA .. SmallA + 5
         /\ d = IF HighDigit(d) <= Zero + 10 THEN HighDigit(d) - Zero ELSE HighDigit(d) - SmallA + 10
         /\ d = IF LowDigit(d) <= Zero + 10 THEN LowDigit(d) - Zero ELSE LowDigit(d) - SmallA + 10
BY DEF HighDigit, LowDigit, Zero, SmallA

\* The value of a hexadecimal digit, a ":" for a ten included.
HexCode(c) == IF c <= Zero + 10 THEN c - Zero ELSE c - SmallA + 10

LEMMA HexReads ==
  ASSUME NEW n \in Nat, NEW str \in [1 .. n -> Int], NEW A \in [0 .. n -> Int],
         NEW d \in [1 .. n -> Int], \A k \in 1 .. n : d[k] = HexCode(str[k]),
         Reading(A, 16, n, d)
  PROVE  Value(str, 16, HexCode) = A[n]
<1> DEFINE Solves(f) == f = [s \in SUBSET (1 .. n) |->
                         IF s = {} THEN 0 ELSE 16 * f[s \ {Max(s)}] + HexCode(str[Max(s)])]
           f == CHOOSE f : Solves(f)
<1>1. ASSUME NEW s \in SUBSET (1 .. n), s # {} PROVE d[Max(s)] = HexCode(str[Max(s)])
  BY <1>1, MaxIn
<1>2. \A g : Solves(g) <=> Horner(g, 16, n, d)
  <2> TAKE g
  <2>1. [s \in SUBSET (1 .. n) |-> IF s = {} THEN 0 ELSE 16 * g[s \ {Max(s)}] + HexCode(str[Max(s)])]
        = [s \in SUBSET (1 .. n) |-> IF s = {} THEN 0 ELSE 16 * g[s \ {Max(s)}] + d[Max(s)]]
    BY <1>1, Zenon
  <2> QED
    BY <2>1, Zenon DEF Horner
<1>3. 16 \in Nat
  OBVIOUS
<1>4. \E g : Horner(g, 16, n, d)
  BY <1>3, HornerExists, Zenon
<1>5. Solves(f)
  BY <1>2, <1>4, Zenon
<1>6. Horner(f, 16, n, d)
  BY <1>2, <1>5, Zenon
<1>7. DOMAIN str = 1 .. n
  OBVIOUS
<1>8. Value(str, 16, HexCode) = f[1 .. n]
  BY <1>7, Zenon DEF Value, FoldLeft, MapThenFoldSet
<1> HIDE DEF f
<1>9. f[1 .. n] = A[n]
  <2>1. ReadTo(16, n, d, A[n])
    BY <1>3, HornerReads, Zenon
  <2> QED
    BY <1>6, <2>1, Zenon DEF ReadTo
<1> QED
  BY <1>8, <1>9

\* The first k hexadecimal digits of n as a number.
Leading(n, K, k) == (n \div TwoTo(4 * (K - k))) % TwoTo(4 * k)

LEMMA LeadingDigits ==
  ASSUME NEW n \in Int, NEW K, HexSize(K)
  PROVE  /\ Leading(n, K, 0) = 0 /\ Leading(n, K, K) = n % TwoTo(INT_BITS)
         /\ \A k \in 0 .. K : Leading(n, K, k) \in Int
         /\ \A k \in 1 .. K : Leading(n, K, k) = 16 * Leading(n, K, k - 1) + HexDigit(n, k)
<1>1. K \in Nat \ {0} /\ INT_BITS = 4 * K
  BY DEF HexSize
<1>2. Leading(n, K, 0) = 0
  <2>1. PICK t \in Nat \ {0} : t = TwoTo(4 * (K - 0))
    <3>1. 4 * (K - 0) \in Nat
      BY <1>1
    <3> QED
      BY <3>1, Powers
  <2>2. PICK x \in Int : x = n \div t
    BY <2>1
  <2>3. TwoTo(4 * 0) = 1
    <3>1. 4 * 0 = 0
      OBVIOUS
    <3> QED
      BY <3>1, Powers
  <2>4. x % 1 = 0
    OBVIOUS
  <2> QED
    BY <2>1, <2>2, <2>3, <2>4 DEF Leading
<1>3. Leading(n, K, K) = n % TwoTo(INT_BITS)
  <2>1. 4 * (K - K) = 0 /\ 4 * K = INT_BITS
    BY <1>1
  <2>2. TwoTo(4 * (K - K)) = 1
    BY <2>1, Powers
  <2>3. n \div 1 = n
    OBVIOUS
  <2> QED
    BY <2>1, <2>2, <2>3 DEF Leading
<1>4. ASSUME NEW k \in 1 .. K
      PROVE  /\ Leading(n, K, k - 1) \in Int /\ HexDigit(n, k) \in Int
             /\ Leading(n, K, k) = 16 * Leading(n, K, k - 1) + HexDigit(n, k)
  <2>1. PICK i \in Nat : i = INT_BITS - 4 * k /\ i = 4 * (K - k) /\ i + 4 = 4 * (K - (k - 1))
    <3>1. /\ 4 * (K - k) \in Nat /\ 4 * (K - k) = INT_BITS - 4 * k
          /\ 4 * (K - k) + 4 = 4 * (K - (k - 1))
      BY <1>1
    <3> QED
      BY <3>1, Zenon
  <2>2. PICK m \in Nat : m = 4 * (k - 1) /\ m + 4 = 4 * k
    <3>1. 4 * (k - 1) \in Nat /\ 4 * (k - 1) + 4 = 4 * k
      BY <1>1
    <3> QED
      BY <3>1, Zenon
  <2>3. Leading(n, K, k) = (n \div TwoTo(i)) % TwoTo(m + 4)
    BY <2>1, <2>2, Zenon DEF Leading
  <2>4. Leading(n, K, k - 1) = (n \div TwoTo(i + 4)) % TwoTo(m)
    BY <2>1, <2>2, Zenon DEF Leading
  <2>5. HexDigit(n, k) = Nibble(n, i)
    BY <2>1, Zenon DEF HexDigit
  <2>6. /\ Nibble(n, i) \in 0 .. 15
        /\ (n \div TwoTo(i + 4)) % TwoTo(m) \in Int
        /\ (n \div TwoTo(i)) % TwoTo(m + 4)
             = 16 * ((n \div TwoTo(i + 4)) % TwoTo(m)) + Nibble(n, i)
    BY NibbleBelow, Zenon
  <2>7. Nibble(n, i) \in Int
    <3>1. 0 .. 15 \in SUBSET Int
      OBVIOUS
    <3> QED
      BY <2>6, <3>1, Zenon
  <2> QED
    BY <2>3, <2>4, <2>5, <2>6, <2>7, Zenon
<1>5. ASSUME NEW k \in 0 .. K PROVE Leading(n, K, k) \in Int
  <2>1. CASE k = 0
    BY <1>2, <2>1
  <2>2. CASE k # 0
    <3>1. k \in 1 .. K
      BY <1>1, <2>2
    <3>2. PICK x \in Int, y \in Int : Leading(n, K, k) = 16 * x + y
      BY <1>4, <3>1, Zenon
    <3> QED
      BY <3>2
  <2> QED
    BY <2>1, <2>2
<1> QED
  BY <1>2, <1>3, <1>4, <1>5, Zenon

LEMMA HexReadsBack ==
  ASSUME NEW n \in Int, NEW K, HexSize(K), NEW h \in 0 .. K - 1, \A k \in 1 .. h : HexDigit(n, k) = 0
  PROVE  /\ HexDigits(n, K, h) \in Seq(Nat) /\ Len(HexDigits(n, K, h)) = K - h
         /\ \A k \in 1 .. K - h : \/ HexDigits(n, K, h)[k] \in Zero .. Zero + 10
                                  \/ HexDigits(n, K, h)[k] \in SmallA .. SmallA + 5
         /\ Value(HexDigits(n, K, h), 16, HexCode) = n % TwoTo(INT_BITS)
<1>1. K \in Nat \ {0}
  BY DEF HexSize
<1>2. PICK L \in Nat \ {0} : L = K - h
  <2>1. K - h \in Nat \ {0}
    BY <1>1
  <2> QED
    BY <2>1, Zenon
<1>3. \A j \in 1 .. L : h + j \in 1 .. K /\ (h + j) - 1 = h + (j - 1) /\ (~ (j < L) => h + j = K)
  BY <1>1, <1>2
<1>4. PICK d : d = [j \in 1 .. L |-> HexDigit(n, h + j)]
  OBVIOUS
<1>5. \A j \in 1 .. L : d[j] \in 0 .. 15
  BY <1>3, <1>4, HexDigitIs
<1>6. PICK str : str = HexDigits(n, K, h)
  OBVIOUS
<1>7. str = [j \in 1 .. L |-> IF j < L THEN HighDigit(d[j]) ELSE LowDigit(d[j])]
  <2>1. \A j \in 1 .. L : (~ (j < L) => d[j] = HexDigit(n, K)) /\ d[j] = HexDigit(n, h + j)
    BY <1>3, <1>4
  <2>2. [j \in 1 .. L |-> IF j < L THEN HighDigit(HexDigit(n, h + j)) ELSE LowDigit(HexDigit(n, K))]
        = [j \in 1 .. L |-> IF j < L THEN HighDigit(d[j]) ELSE LowDigit(d[j])]
    BY <2>1, Zenon
  <2> QED
    BY <1>2, <1>6, <2>2, Zenon DEF HexDigits
<1>8. \A j \in 1 .. L : /\ str[j] \in Zero .. Zero + 10 \/ str[j] \in SmallA .. SmallA + 5
                        /\ d[j] = HexCode(str[j])
  <2> TAKE j \in 1 .. L
  <2>1. PICK x \in 0 .. 15 : x = d[j]
    BY <1>5, Zenon
  <2>2. str[j] = IF j < L THEN HighDigit(x) ELSE LowDigit(x)
    BY <1>7, <2>1, Zenon
  <2> QED
    BY <2>1, <2>2, DigitCodes, Zenon DEF HexCode
<1>9. \A j \in 1 .. L : str[j] \in Nat
  <2>1. /\ \A x \in Zero .. Zero + 10 : x \in Nat
        /\ \A x \in SmallA .. SmallA + 5 : x \in Nat
    BY DEF Zero, SmallA
  <2> QED
    BY <1>8, <2>1, Zenon
<1>10. str \in Seq(Nat) /\ Len(str) = L
  <2>1. str = [j \in 1 .. L |-> str[j]]
    BY <1>7, Zenon
  <2> QED
    BY <1>9, <2>1
<1>11. str \in [1 .. L -> Int] /\ d \in [1 .. L -> Int]
  <2>1. \A j \in 1 .. L : str[j] \in Int /\ d[j] \in Int
    BY <1>5, <1>9, SMTT(30)
  <2>2. str = [j \in 1 .. L |-> str[j]] /\ d = [j \in 1 .. L |-> d[j]]
    BY <1>4, <1>7, Zenon
  <2> QED
    BY <2>1, <2>2, Zenon
<1>12. /\ Leading(n, K, 0) = 0 /\ Leading(n, K, K) = n % TwoTo(INT_BITS)
       /\ \A k \in 0 .. K : Leading(n, K, k) \in Int
       /\ \A k \in 1 .. K : Leading(n, K, k) = 16 * Leading(n, K, k - 1) + HexDigit(n, k)
  BY LeadingDigits, Zenon
<1>13. Leading(n, K, h) = 0
  <2> DEFINE S == {k \in 0 .. h : Leading(n, K, k) = 0}
  <2>1. 0 \in S
    BY <1>12
  <2>2. ASSUME NEW k \in 0 .. h - 1, k \in S PROVE k + 1 \in S
    <3>1. k + 1 \in 1 .. K /\ k + 1 \in 1 .. h /\ (k + 1) - 1 = k
      BY <1>1
    <3>2. Leading(n, K, k + 1) = 16 * Leading(n, K, k) + HexDigit(n, k + 1)
      BY <1>12, <3>1
    <3>3. Leading(n, K, k) = 0 /\ HexDigit(n, k + 1) = 0
      BY <2>2, <3>1
    <3>4. Leading(n, K, k + 1) = 0
      BY <3>2, <3>3
    <3> QED
      BY <3>1, <3>4
  <2>3. S \in SUBSET (0 .. h)
    OBVIOUS
  <2> HIDE DEF S
  <2>4. h \in Nat /\ h \in 0 .. h
    BY <1>1
  <2>5. S = 0 .. h
    BY <2>1, <2>2, <2>3, <2>4, InductionUpTo, Zenon
  <2>6. h \in S
    BY <2>4, <2>5, Zenon
  <2> QED
    BY <2>6 DEF S
<1>14. PICK A : A = [j \in 0 .. L |-> Leading(n, K, h + j)]
  OBVIOUS
<1>15. A \in [0 .. L -> Int] /\ A[0] = 0 /\ A[L] = n % TwoTo(INT_BITS)
  <2>1. \A j \in 0 .. L : h + j \in 0 .. K
    BY <1>1, <1>2
  <2>2. h + 0 = h /\ h + L = K /\ 0 \in 0 .. L /\ L \in 0 .. L
    BY <1>1, <1>2
  <2>3. A \in [0 .. L -> Int]
    BY <1>12, <1>14, <2>1, Zenon
  <2>4. A[0] = Leading(n, K, h) /\ A[L] = Leading(n, K, K)
    BY <1>14, <2>2, Zenon
  <2> QED
    BY <1>12, <1>13, <2>3, <2>4, Zenon
<1>16. ASSUME NEW j \in 1 .. L PROVE A[j] = 16 * A[j - 1] + d[j]
  <2>1. h + j \in 1 .. K /\ (h + j) - 1 = h + (j - 1) /\ j \in 0 .. L /\ j - 1 \in 0 .. L
    BY <1>3
  <2>2. A[j] = Leading(n, K, h + j) /\ A[j - 1] = Leading(n, K, h + (j - 1))
    BY <1>14, <2>1, Zenon
  <2>3. Leading(n, K, h + j) = 16 * Leading(n, K, (h + j) - 1) + HexDigit(n, h + j)
    BY <1>12, <2>1, Zenon
  <2>4. d[j] = HexDigit(n, h + j)
    BY <1>4
  <2> QED
    BY <2>1, <2>2, <2>3, <2>4, Zenon
<1>17. Reading(A, 16, L, d)
  BY <1>15, <1>16, Zenon DEF Reading
<1>18. Value(str, 16, HexCode) = A[L]
  <2>1. \A k \in 1 .. L : d[k] = HexCode(str[k])
    BY <1>8, Zenon
  <2> QED
    BY <1>11, <1>15, <1>17, <2>1, HexReads, ZenonT(40)
<1> QED
  BY <1>2, <1>6, <1>8, <1>10, <1>15, <1>18, Zenon

\* What hex_to_ascii leaves in an empty string.
LEMMA HexText ==
  ASSUME NEW n \in Int, NEW K, HexSize(K)
  PROVE  \E h \in 0 .. K - 1 : /\ \A k \in 1 .. h : HexDigit(n, k) = 0
                               /\ hex_to_ascii(n, <<>>) = <<Zero, SmallX>> \o HexDigits(n, K, h)
<1>1. K \in Nat \ {0} /\ INT_BITS \div 4 - 1 = K - 1 /\ INT_BITS - 4 * K = 0
  BY DEF HexSize
<1>2. PICK high : high = [k \in 1 .. INT_BITS \div 4 - 1 |-> Nibble(n, INT_BITS - 4 * k)]
  OBVIOUS
<1>3. PICK first : first = SelectInSubSeq(high, 1, Len(high), LAMBDA d : d # 0)
  OBVIOUS
<1>4. PICK kept : kept = IF first = 0 THEN <<>> ELSE SubSeq(high, first, Len(high))
  OBVIOUS
<1>5. PICK low : low = LowDigit(Nibble(n, 0))
  OBVIOUS
<1>6. PICK shown : shown = [k \in DOMAIN kept |-> HighDigit(kept[k])]
  OBVIOUS
<1>7. hex_to_ascii(n, <<>>) = FoldLeft(append, <<>>, <<Zero, SmallX>> \o shown \o <<low>>)
  BY <1>2, <1>3, <1>4, <1>5, <1>6, Zenon DEF hex_to_ascii
<1>8. high = [k \in 1 .. K - 1 |-> HexDigit(n, k)]
  BY <1>1, <1>2, Zenon DEF HexDigit
<1>9. PICK h : Kept(n, K, h, kept)
  BY <1>3, <1>4, <1>8, HexKept
<1>10. /\ h \in 0 .. K - 1 /\ (\A k \in 1 .. h : HexDigit(n, k) = 0)
       /\ kept \in Seq(Int) /\ Len(kept) = (K - 1) - h
       /\ \A j \in 1 .. (K - 1) - h : kept[j] = HexDigit(n, h + j)
  BY <1>9, Zenon DEF Kept
<1>11. PICK m \in Nat : m = (K - 1) - h /\ K - h = m + 1
  <2>1. (K - 1) - h \in Nat /\ K - h = ((K - 1) - h) + 1
    BY <1>1, <1>10
  <2> QED
    BY <2>1, Zenon
<1>12. PICK str \in Seq(Nat) : str = HexDigits(n, K, h) /\ Len(str) = m + 1
  BY <1>10, <1>11, HexReadsBack
<1>13. str = [j \in 1 .. m + 1 |-> IF j < m + 1 THEN HighDigit(HexDigit(n, h + j)) ELSE LowDigit(HexDigit(n, K))]
  BY <1>11, <1>12, Zenon DEF HexDigits
<1>14. \A j \in 1 .. m : j \in 1 .. m + 1 /\ j < m + 1
  OBVIOUS
<1>15. DOMAIN kept = 1 .. m
  BY <1>10, <1>11
<1>16. shown = [j \in 1 .. m |-> str[j]]
  <2>1. \A j \in 1 .. m : HighDigit(kept[j]) = str[j]
    BY <1>10, <1>11, <1>13, <1>14, Zenon
  <2> QED
    BY <1>6, <1>15, <2>1, Zenon
<1>17. low = str[m + 1]
  <2>1. m + 1 \in 1 .. m + 1 /\ ~ (m + 1 < m + 1)
    OBVIOUS
  <2>2. str[m + 1] = LowDigit(HexDigit(n, K))
    BY <1>13, <2>1, Zenon
  <2>3. HexDigit(n, K) = Nibble(n, 0)
    BY <1>1, Zenon DEF HexDigit
  <2> QED
    BY <1>5, <2>2, <2>3, Zenon
<1>18. \A j \in 1 .. m + 1 : str[j] \in Nat
  BY <1>12
<1>19. shown \in Seq(Nat) /\ Len(shown) = m /\ low \in Nat
  BY <1>14, <1>16, <1>17, <1>18
<1>20. PICK start \in Seq(Nat) : start = <<Zero, SmallX>>
  <2>1. <<Zero, SmallX>> \in Seq(Nat)
    BY DEF Zero, SmallX
  <2> QED
    BY <2>1, Zenon
<1>21. shown \o <<low>> = str
  <2>1. shown \o <<low>> = [j \in 1 .. m + 1 |-> IF j = m + 1 THEN low ELSE shown[j]]
    <3>1. PICK s \in Seq(Nat), c \in Nat : s = shown /\ c = low /\ Len(s) = m
      BY <1>19, Zenon
    <3>2. s \o <<c>> = [j \in 1 .. m + 1 |-> IF j = m + 1 THEN c ELSE s[j]]
      BY <3>1
    <3> QED
      BY <3>1, <3>2, Zenon
  <2>2. \A j \in 1 .. m + 1 : (IF j = m + 1 THEN low ELSE shown[j]) = str[j]
    <3> TAKE j \in 1 .. m + 1
    <3>1. j # m + 1 => j \in 1 .. m
      OBVIOUS
    <3> QED
      BY <1>16, <1>17, <3>1, Zenon
  <2>3. str = [j \in 1 .. m + 1 |-> str[j]]
    BY <1>13, Zenon
  <2> QED
    BY <2>1, <2>2, <2>3, Zenon
<1>22. start \o shown \o <<low>> = start \o str /\ start \o str \in Seq(Nat)
  <2>1. <<low>> \in Seq(Nat)
    BY <1>19
  <2>2. (start \o shown) \o <<low>> = start \o (shown \o <<low>>)
    BY <1>19, <2>1, Associative, Zenon
  <2>3. start \o str \in Seq(Nat)
    OBVIOUS
  <2> QED
    BY <1>21, <2>2, <2>3, Zenon
<1>23. hex_to_ascii(n, <<>>) = start \o str
  BY <1>7, <1>20, <1>22, AppendAll, Zenon
<1> QED
  BY <1>10, <1>12, <1>20, <1>23, Zenon

LEMMA HexRead ==
  Cleared => HexShown
<1> SUFFICES ASSUME Cleared, NEW n \in Ints
             PROVE  LET all == Shown(hex_to_ascii(n, <<>>))
                        str == SubSeq(all, 3, Len(all))
                        digit(c) == IF c <= Zero + 10 THEN c - Zero ELSE c - SmallA + 10
                    IN  /\ SubSeq(all, 1, 2) = <<Zero, SmallX>>
                        /\ \A k \in DOMAIN str : str[k] \in Zero .. Zero + 10 \/ str[k] \in SmallA .. SmallA + 5
                        /\ Value(str, 16, digit) = n % 2 ^ INT_BITS
  BY DEF HexShown
<1>1. n \in Int
  <2>1. PICK M \in Nat \ {0} : Ints = -M .. M - 1
    BY IntsAre
  <2> QED
    BY <2>1
<1>2. PICK K : HexSize(K)
  BY HexSizes
<1>3. PICK h \in 0 .. K - 1 : /\ \A k \in 1 .. h : HexDigit(n, k) = 0
                              /\ hex_to_ascii(n, <<>>) = <<Zero, SmallX>> \o HexDigits(n, K, h)
  BY <1>1, <1>2, HexText
<1>4. PICK L \in Nat : L = K - h
  BY <1>2 DEF HexSize
<1>5. PICK str \in Seq(Nat) : /\ str = HexDigits(n, K, h) /\ Len(str) = L
                              /\ \A k \in 1 .. L : str[k] \in Zero .. Zero + 10 \/ str[k] \in SmallA .. SmallA + 5
                              /\ Value(str, 16, HexCode) = n % TwoTo(INT_BITS)
  BY <1>1, <1>2, <1>3, <1>4, HexReadsBack
<1>6. PICK all : all = <<Zero, SmallX>> \o str /\ all = hex_to_ascii(n, <<>>)
  BY <1>3, <1>5
<1>7. /\ all \in Seq(Nat) /\ Len(all) = L + 2 /\ all[1] = Zero /\ all[2] = SmallX
      /\ \A k \in 1 .. L : all[k + 2] = str[k]
  <2>1. Zero \in Nat /\ SmallX \in Nat
    BY DEF Zero, SmallX
  <2> QED
    BY <1>5, <1>6, <2>1
<1>8. \A k \in 1 .. Len(all) : all[k] # NEWLINE
  <2>1. /\ \A x \in Zero .. Zero + 10 : x # NEWLINE
        /\ \A x \in SmallA .. SmallA + 5 : x # NEWLINE
        /\ Zero # NEWLINE /\ SmallX # NEWLINE
    BY DEF Zero, SmallA, SmallX, NEWLINE
  <2> TAKE k \in 1 .. Len(all)
  <2>2. CASE k = 1 \/ k = 2
    BY <1>7, <2>1, <2>2
  <2>3. CASE ~ (k = 1 \/ k = 2)
    <3>1. PICK i \in 1 .. L : k = i + 2
      <4>1. k - 2 \in 1 .. L /\ k = (k - 2) + 2
        BY <1>7, <2>3
      <4> QED
        BY <4>1, Zenon
    <3> QED
      BY <1>5, <1>7, <2>1, <3>1, Zenon
  <2> QED
    BY <2>2, <2>3
<1>9. Shown(hex_to_ascii(n, <<>>)) = all
  <2>1. Len(all) < CELLS
    BY <1>6, RoomAssumption, Zenon
  <2> QED
    BY <1>6, <1>7, <1>8, <2>1, ShownText, Zenon
<1>10. SubSeq(all, 1, 2) = <<Zero, SmallX>>
  <2>1. \A i \in 1 .. 2 : all[i] \in Int
    BY <1>7
  <2>2. PICK s \in Seq(Int) : s = SubSeq(all, 1, 2) /\ Len(s) = 2 /\ \A i \in 1 .. 2 : s[i] = all[i]
    <3>1. /\ SubSeq(all, 1, 2) \in Seq(Int) /\ Len(SubSeq(all, 1, 2)) = 2 - 1 + 1
          /\ \A i \in 1 .. 2 - 1 + 1 : SubSeq(all, 1, 2)[i] = all[1 + i - 1]
      BY <2>1, PartOf
    <3>2. 2 - 1 + 1 = 2 /\ \A i \in 1 .. 2 : 1 + i - 1 = i
      OBVIOUS
    <3> QED
      BY <3>1, <3>2, Zenon
  <2>3. s[1] = Zero /\ s[2] = SmallX
    BY <1>7, <2>2
  <2>4. PICK t \in Seq(Int) : t = <<Zero, SmallX>> /\ Len(t) = 2 /\ t[1] = Zero /\ t[2] = SmallX
    <3>1. <<Zero, SmallX>> \in Seq(Int)
      BY DEF Zero, SmallX
    <3> QED
      BY <3>1
  <2>5. s = [i \in 1 .. 2 |-> s[i]] /\ t = [i \in 1 .. 2 |-> t[i]]
    BY <2>2, <2>4
  <2>6. \A i \in 1 .. 2 : s[i] = t[i]
    BY <2>3, <2>4
  <2>7. s = t
    BY <2>5, <2>6, Zenon
  <2> QED
    BY <2>2, <2>4, <2>7, Zenon
<1>11. SubSeq(all, 3, Len(all)) = str
  <2>1. \A k \in 1 .. L : str[k] = all[k + 2]
    BY <1>7
  <2> QED
    BY <1>5, <1>7, <2>1
<1>12. DOMAIN str = 1 .. L
  BY <1>5
<1>13. Value(str, 16, LAMBDA c : IF c <= Zero + 10 THEN c - Zero ELSE c - SmallA + 10) = n % 2 ^ INT_BITS
  BY <1>5, Zenon DEF Value, FoldLeft, MapThenFoldSet, HexCode, TwoTo
<1> QED
  BY <1>5, <1>9, <1>10, <1>11, <1>12, <1>13, Zenon

\* So can every number that dbg_hex prints, the negative ones by their complement.
THEOREM HexReadBack == Spec => []HexShown
<1>1. HexShown
  BY HexRead DEF HexShown
<1> QED
  BY <1>1, PTL
=============================================================================
