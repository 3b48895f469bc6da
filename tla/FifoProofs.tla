----------------------------- MODULE FifoProofs -----------------------------
(***************************************************************************)
(* Theorems about Fifo, for every number of processes and FIFOs, every     *)
(* size of a FIFO and every bound on idx.                                  *)
(***************************************************************************)
EXTENDS Fifo, FiniteSetTheorems, SequenceTheorems, NaturalSets

USE FifoAssumption

-----------------------------------------------------------------------------
(* Arithmetic modulo FIFOSIZE.                                             *)

\* Going on by k cells, at most once around.
LEMMA ModShift ==
  ASSUME NEW a \in Nat, NEW k \in 0 .. FIFOSIZE
  PROVE  /\ a % FIFOSIZE \in Cells
         /\ (a + k) % FIFOSIZE = IF (a % FIFOSIZE) + k < FIFOSIZE THEN (a % FIFOSIZE) + k
                                 ELSE (a % FIFOSIZE) + k - FIFOSIZE
<1> DEFINE r == a % FIFOSIZE
<1>1. PICK q \in Int : a = q * FIFOSIZE + r /\ r \in 0 .. FIFOSIZE - 1
  <2>1. a \in Int /\ FIFOSIZE \in Nat \ {0}
    OBVIOUS
  <2>2. \E q \in Int : a = q * FIFOSIZE + (a % FIFOSIZE) /\ a % FIFOSIZE \in 0 .. FIFOSIZE - 1
    BY <2>1, Division
  <2> QED
    BY <2>2
<1> HIDE DEF r
<1>2. CASE r + k < FIFOSIZE
  <2>1. a + k = q * FIFOSIZE + (r + k) /\ r + k \in 0 .. FIFOSIZE - 1
    BY <1>1, <1>2
  <2>2. (q * FIFOSIZE + (r + k)) % FIFOSIZE = r + k
    BY <2>1, ModIs
  <2> QED
    BY <1>1, <1>2, <2>1, <2>2 DEF r, Cells
<1>3. CASE r + k >= FIFOSIZE
  <2>1. a + k = (q + 1) * FIFOSIZE + (r + k - FIFOSIZE) /\ r + k - FIFOSIZE \in 0 .. FIFOSIZE - 1
    BY <1>1, <1>3
  <2>2. ((q + 1) * FIFOSIZE + (r + k - FIFOSIZE)) % FIFOSIZE = r + k - FIFOSIZE
    BY <2>1, ModIs, SMTT(30)
  <2>3. (a + k) % FIFOSIZE = r + k - FIFOSIZE
    BY <2>1, <2>2
  <2> QED
    BY <1>1, <1>3, <2>3 DEF r, Cells
<1> QED
  BY <1>1, <1>2, <1>3

LEMMA ModType ==
  ASSUME NEW a \in Int
  PROVE  Mod(a, FIFOSIZE) \in -FIFOSIZE .. FIFOSIZE - 1
<1>1. CASE a < 0
  <2>1. -a \in Int
    OBVIOUS
  <2>2. (-a) % FIFOSIZE \in 0 .. FIFOSIZE - 1
    BY <2>1, Division
  <2>3. Mod(a, FIFOSIZE) = -((-a) % FIFOSIZE)
    BY <1>1 DEF Mod
  <2> HIDE DEF Mod
  <2> QED
    BY <2>2, <2>3
<1>2. CASE a >= 0
  <2>1. a % FIFOSIZE \in 0 .. FIFOSIZE - 1
    BY Division
  <2> QED
    BY <1>2, <2>1 DEF Mod
<1> QED
  BY <1>1, <1>2

\* The cell k places on is another one, unless that is once around.
LEMMA CellsDiffer ==
  ASSUME NEW a \in Nat, NEW j \in 0 .. FIFOSIZE, NEW k \in 0 .. FIFOSIZE, j < k,
         k - j < FIFOSIZE
  PROVE  (a + j) % FIFOSIZE # (a + k) % FIFOSIZE
<1>1. a % FIFOSIZE \in 0 .. FIFOSIZE - 1
  BY ModShift DEF Cells
<1>2. (a + j) % FIFOSIZE = IF (a % FIFOSIZE) + j < FIFOSIZE THEN (a % FIFOSIZE) + j
                           ELSE (a % FIFOSIZE) + j - FIFOSIZE
  BY ModShift
<1>3. (a + k) % FIFOSIZE = IF (a % FIFOSIZE) + k < FIFOSIZE THEN (a % FIFOSIZE) + k
                           ELSE (a % FIFOSIZE) + k - FIFOSIZE
  BY ModShift
<1> DEFINE r == a % FIFOSIZE
           x == (a + j) % FIFOSIZE
           y == (a + k) % FIFOSIZE
<1>4. /\ r \in 0 .. FIFOSIZE - 1
      /\ x = IF r + j < FIFOSIZE THEN r + j ELSE r + j - FIFOSIZE
      /\ y = IF r + k < FIFOSIZE THEN r + k ELSE r + k - FIFOSIZE
  BY <1>1, <1>2, <1>3
<1> HIDE DEF r, x, y
<1>5. x # y
  BY <1>4
<1> QED
  BY <1>5 DEF x, y

-----------------------------------------------------------------------------
(* Types, however calls interleave.                                        *)

LEMMA StoreWordType ==
  ASSUME TypeOK, NEW f \in Fifos, NEW k \in Int, NEW v \in Int, StoreWord(f, k, v)
  PROVE  /\ length' \in [Fifos -> Int] /\ idx' \in [Fifos -> Int]
         /\ data' \in [Fifos -> [Cells -> Int]]
<1>1. length \in [Fifos -> Int] /\ idx \in [Fifos -> Int] /\ data \in [Fifos -> [Cells -> Int]]
  BY DEF TypeOK
<1> DEFINE g == Owner(f, k)
           i == Field(k) - 2
<1>2. i \in Int /\ (Field(k) > 1 => i \in Cells)
  <2>1. k + 2 \in Int /\ FIFOSIZE + 2 \in Nat \ {0}
    OBVIOUS
  <2>2. (k + 2) % (FIFOSIZE + 2) \in 0 .. (FIFOSIZE + 2) - 1
    BY <2>1, Division
  <2> QED
    BY <2>2 DEF Field, Record, Cells
<1>3. /\ length' = length \/ (g \in Fifos /\ length' = [length EXCEPT ![g] = v])
      /\ idx' = idx \/ (g \in Fifos /\ idx' = [idx EXCEPT ![g] = v])
      /\ data' = data \/ (g \in Fifos /\ Field(k) > 1 /\ data' = [data EXCEPT ![g][i] = v])
  BY DEF StoreWord
<1> HIDE DEF g, i
<1>4. length' \in [Fifos -> Int] /\ idx' \in [Fifos -> Int]
  BY <1>1, <1>3
<1>5. data' \in [Fifos -> [Cells -> Int]]
  <2>1. CASE data' = data
    BY <1>1, <2>1
  <2>2. CASE g \in Fifos /\ Field(k) > 1 /\ data' = [data EXCEPT ![g][i] = v]
    <3>1. data[g] \in [Cells -> Int] /\ i \in Cells
      BY <1>1, <1>2, <2>2
    <3>2. [data[g] EXCEPT ![i] = v] \in [Cells -> Int]
      BY <3>1
    <3>3. data' = [data EXCEPT ![g] = [data[g] EXCEPT ![i] = v]]
      BY <2>2
    <3> QED
      BY <1>1, <2>2, <3>2, <3>3
  <2> QED
    BY <1>3, <2>1, <2>2
<1> QED
  BY <1>4, <1>5

LEMMA WordType ==
  ASSUME TypeOK, NEW f \in Fifos, NEW k \in Int, NEW v \in Word(f, k)
  PROVE  v \in Int
<1>1. CASE Owner(f, k) \notin Fifos
  BY <1>1 DEF Word
<1>2. CASE Owner(f, k) \in Fifos
  <2>1. Field(k) \in 0 .. FIFOSIZE + 1
    <3>1. k + 2 \in Int /\ FIFOSIZE + 2 \in Nat \ {0}
      OBVIOUS
    <3>2. (k + 2) % (FIFOSIZE + 2) \in 0 .. (FIFOSIZE + 2) - 1
      BY <3>1, Division
    <3> QED
      BY <3>2 DEF Field, Record
  <2> DEFINE g == Owner(f, k)
  <2>2. v = CASE Field(k) = 0 -> length[g] [] Field(k) = 1 -> idx[g]
              [] OTHER -> data[g][Field(k) - 2]
    BY <1>2 DEF Word
  <2>3. length[g] \in Int /\ idx[g] \in Int /\ data[g] \in [Cells -> Int]
    BY <1>2 DEF TypeOK
  <2>4. Field(k) # 0 /\ Field(k) # 1 => Field(k) - 2 \in Cells
    BY <2>1 DEF Cells
  <2> HIDE DEF g
  <2> QED
    BY <2>2, <2>3, <2>4
<1> QED
  BY <1>1, <1>2

LEMMA FreeFirst ==
  ASSUME Free # {}
  PROVE  Min(Free) \in Fifos /\ length[Min(Free)] = -1
<1>1. Free \in SUBSET Nat
  BY DEF Free, Fifos
<1>2. Min(Free) \in Free
  BY <1>1, MinOfNaturals
<1> QED
  BY <1>2 DEF Free

LEMMA TypeInit == Init => TypeOK
  BY DEF Init, TypeOK, Fifos, Cells

LEMMA TypeStep == TypeOK /\ [Next]_vars => TypeOK'
<1> SUFFICES ASSUME TypeOK, [Next]_vars PROVE TypeOK'
  OBVIOUS
<1>0. 0 \in Fifos /\ 0 \in -FIFOSIZE .. FIFOSIZE - 1 /\ Fifos \subseteq Nat
  BY DEF Fifos
<1>1. CASE UNCHANGED vars
  BY <1>1 DEF TypeOK, vars, locals
<1>2. ASSUME NEW p \in Processes, OS_InitFiFo(p) PROVE TypeOK'
  BY <1>2, FreeFirst DEF TypeOK, OS_InitFiFo, goto
<1>3. ASSUME NEW p \in Processes, Claim(p) PROVE TypeOK'
  <2>1. length' \in [Fifos -> Int] /\ holders' \in [Fifos -> SUBSET Processes]
    BY <1>3 DEF TypeOK, Claim
  <2> QED
    BY <1>0, <1>3, <2>1 DEF TypeOK, Claim, return, goto
<1>4. ASSUME NEW p \in Processes, NEW f \in Fifos, NEW v \in Values, OS_Write(p, f, v)
      PROVE  TypeOK'
  <2>1. length[f] \in Int /\ idx[f] \in Int /\ v \in Int
    BY DEF TypeOK
  <2>2. NextCell(f) \in -FIFOSIZE .. FIFOSIZE - 1
    BY <2>1, ModType DEF NextCell
  <2>3. /\ at' = [at EXCEPT ![p] = f] /\ val' = [val EXCEPT ![p] = v]
        /\ cell' = [cell EXCEPT ![p] = NextCell(f)]
        /\ \E r \in Int : reg' = [reg EXCEPT ![p] = r]
        /\ \E label \in {"length", "drop"} : pc' = [pc EXCEPT ![p] = label]
        /\ UNCHANGED <<length, idx, data, holders>>
    BY <1>4, <2>1 DEF OS_Write, goto
  <2> QED
    BY <2>1, <2>2, <2>3 DEF TypeOK
<1>5. ASSUME NEW p \in Processes, WriteLength(p) PROVE TypeOK'
  BY <1>5 DEF TypeOK, WriteLength, locals, goto
<1>6. ASSUME NEW p \in Processes, WriteDrop(p) PROVE TypeOK'
  BY <1>6 DEF TypeOK, WriteDrop, locals, goto
<1>7. ASSUME NEW p \in Processes, WriteData(p) PROVE TypeOK'
  <2>1. at[p] \in Fifos /\ cell[p] \in Int /\ val[p] \in Int
    BY DEF TypeOK
  <2>2. /\ length' \in [Fifos -> Int] /\ idx' \in [Fifos -> Int]
        /\ data' \in [Fifos -> [Cells -> Int]]
    BY <1>7, <2>1, StoreWordType DEF WriteData
  <2> QED
    BY <1>0, <1>7, <2>2 DEF TypeOK, WriteData, return, goto
<1>8. ASSUME NEW p \in Processes, NEW f \in Fifos, OS_Read(p, f) PROVE TypeOK'
  <2>1. idx[f] \in Int
    BY DEF TypeOK
  <2>2. PICK v \in Word(f, idx[f]) : val' = [val EXCEPT ![p] = v]
    BY <1>8 DEF OS_Read
  <2>3. v \in Int
    BY <2>1, WordType
  <2>4. Mod(idx[f] + 1, FIFOSIZE) \in Int
    BY <2>1, ModType
  <2> QED
    BY <1>8, <2>2, <2>3, <2>4 DEF TypeOK, OS_Read, goto
<1>9. ASSUME NEW p \in Processes, ReadTake(p) PROVE TypeOK'
  BY <1>9 DEF TypeOK, ReadTake, goto
<1>10. ASSUME NEW p \in Processes, ReadShrink(p) PROVE TypeOK'
  BY <1>0, <1>10 DEF TypeOK, ReadShrink, return, goto
<1> QED
  BY <1>1, <1>2, <1>3, <1>4, <1>5, <1>6, <1>7, <1>8, <1>9, <1>10 DEF Next

\* Every variable keeps its type under every interleaving: no store of a call, whether
\* calls are serialised or not, leaves the collection of FIFOs.
THEOREM TypeCorrect == Spec => []TypeOK
  BY TypeInit, TypeStep, PTL DEF Spec

-----------------------------------------------------------------------------
(* The inductive invariant under serialised calls.                         *)

Serial == {"init", "use"} \subseteq Serialised

UseLabels == {"length", "drop", "data", "take", "shrink"}
Uses(p) == pc[p] \in UseLabels

\* Calls on one FIFO exclude each other, as do calls that look for a free one; a FIFO that
\* is about to be claimed is still free, one that is used is not.
Exclusive ==
  /\ \A p, q \in Processes : pc[p] = "claim" /\ pc[q] = "claim" => p = q
  /\ \A p, q \in Processes : Uses(p) /\ Uses(q) /\ at[p] = at[q] => p = q
  /\ \A p \in Processes : pc[p] = "claim" => length[at[p]] = -1
  /\ \A p \in Processes : Uses(p) => holders[at[p]] # {}

\* A FIFO has been handed out just when its length says so, and the length stays in range.
Counted ==
  /\ \A f \in Fifos : holders[f] = {} => length[f] = -1
  /\ \A f \in Fifos : holders[f] # {} => length[f] \in 0 .. FIFOSIZE
  /\ \A f \in Fifos : idx[f] \in Nat

\* What a process is about to store was computed from a length and an idx that still hold.
Stores ==
  \A p \in Processes :
    /\ pc[p] = "length" => length[at[p]] < FIFOSIZE /\ reg[p] = length[at[p]] + 1
    /\ pc[p] = "drop" => length[at[p]] = FIFOSIZE /\ reg[p] = idx[at[p]] + 1
    /\ pc[p] \in {"length", "drop"} => cell[p] = (idx[at[p]] + length[at[p]]) % FIFOSIZE
    /\ pc[p] = "data" => cell[p] \in Cells
    /\ pc[p] \in {"length", "drop", "data"} => val[p] \in Values
    /\ pc[p] = "take" => length[at[p]] > 0 /\ reg[p] = (idx[at[p]] + 1) % FIFOSIZE
    /\ pc[p] = "shrink" => length[at[p]] > 0 /\ reg[p] = length[at[p]] - 1

SInv == TypeOK /\ Exclusive /\ Counted /\ Stores

LEMMA SInvInit == Init => SInv
<1> SUFFICES ASSUME Init PROVE SInv
  OBVIOUS
<1>1. TypeOK
  BY TypeInit
<1>2. Exclusive /\ Counted /\ Stores
  BY DEF Init, Exclusive, Counted, Stores, Uses, UseLabels
<1> QED
  BY <1>1, <1>2 DEF SInv

\* A cell of data is a word of its own record.
LEMMA OwnCell ==
  ASSUME NEW f \in Fifos, NEW k \in Cells
  PROVE  Owner(f, k) = f /\ Field(k) = k + 2 /\ k + 2 > 1 /\ (k + 2) - 2 = k
<1>1. (k + 2) % (FIFOSIZE + 2) = k + 2
  <2>1. 0 * (FIFOSIZE + 2) + (k + 2) = k + 2 /\ k + 2 \in 0 .. (FIFOSIZE + 2) - 1
    BY DEF Cells
  <2>2. 0 \in Int /\ FIFOSIZE + 2 \in Nat \ {0}
    OBVIOUS
  <2>3. (0 * (FIFOSIZE + 2) + (k + 2)) % (FIFOSIZE + 2) = k + 2
    BY <2>1, <2>2, ModIs
  <2> QED
    BY <2>1, <2>3
<1>2. (k + 2) \div (FIFOSIZE + 2) = 0
  <2> DEFINE d == (k + 2) \div (FIFOSIZE + 2)
             n == FIFOSIZE + 2
  <2>1. n \in Nat \ {0} /\ k + 2 \in Int
    BY DEF Cells
  <2>2. d \in Int /\ k + 2 = n * d + ((k + 2) % n)
    BY <2>1
  <2>3. n * d = 0
    BY <1>1, <2>2, <2>1
  <2> HIDE DEF n, d
  <2>4. d = 0
    BY <2>1, <2>2, <2>3
  <2> QED
    BY <2>4 DEF d
<1> QED
  BY <1>1, <1>2 DEF Owner, Field, Record, Cells, Fifos

\* A store through cell changes one element, and no length or idx.
LEMMA StoreWordData ==
  ASSUME TypeOK, NEW f \in Fifos, NEW k \in Cells, NEW v \in Int, StoreWord(f, k, v)
  PROVE  /\ length' = length /\ idx' = idx
         /\ data' = [data EXCEPT ![f] = [data[f] EXCEPT ![k] = v]]
<1>3. Owner(f, k) = f /\ Field(k) = k + 2 /\ k + 2 > 1 /\ (k + 2) - 2 = k
  BY OwnCell
<1>4. f \in Fifos /\ Field(k) # 0 /\ Field(k) # 1 /\ Field(k) > 1
  BY <1>3 DEF Cells
<1>5. length' = length /\ idx' = idx
  BY <1>3, <1>4 DEF StoreWord
<1>6. data' = [data EXCEPT ![f][k] = v]
  BY <1>3, <1>4, Zenon DEF StoreWord
<1>7. [data EXCEPT ![f][k] = v] = [data EXCEPT ![f] = [data[f] EXCEPT ![k] = v]]
  BY DEF TypeOK
<1> QED
  BY <1>5, <1>6, <1>7

LEMMA InitFiFoKeeps ==
  ASSUME Serial, SInv, NEW p \in Processes, OS_InitFiFo(p)
  PROVE  Exclusive' /\ Counted' /\ Stores'
<1>1. /\ pc[p] = "out" /\ pc' = [pc EXCEPT ![p] = "claim"]
      /\ \A q \in Processes : pc[q] # "claim"
      /\ at' = [at EXCEPT ![p] = Min(Free)]
      /\ UNCHANGED <<length, idx, data, reg, cell, val, holders>>
  BY DEF OS_InitFiFo, goto, Serial
<1>2. Min(Free) \in Fifos /\ length[Min(Free)] = -1
  BY FreeFirst DEF OS_InitFiFo
<1>3. Exclusive'
  BY <1>1, <1>2 DEF SInv, TypeOK, Exclusive, Uses, UseLabels
<1>4. Counted'
  BY <1>1 DEF SInv, Counted
<1>5. Stores'
  BY <1>1 DEF SInv, TypeOK, Stores
<1> QED
  BY <1>3, <1>4, <1>5

LEMMA ClaimKeeps ==
  ASSUME Serial, SInv, NEW p \in Processes, Claim(p)
  PROVE  Exclusive' /\ Counted' /\ Stores'
<1> DEFINE f == at[p]
<1>1. /\ pc[p] = "claim" /\ pc' = [pc EXCEPT ![p] = "out"]
      /\ length' = [length EXCEPT ![f] = 0] /\ holders' = [holders EXCEPT ![f] = @ \union {p}]
      /\ \A q \in Processes \ {p} :
           at'[q] = at[q] /\ reg'[q] = reg[q] /\ cell'[q] = cell[q] /\ val'[q] = val[q]
      /\ UNCHANGED <<idx, data>>
  BY DEF Claim, return, goto, SInv, TypeOK
<1>2. f \in Fifos /\ length[f] = -1 /\ holders[f] = {}
  BY <1>1 DEF SInv, TypeOK, Exclusive, Counted
<1>3. \A q \in Processes : Uses(q) => at[q] # f
  BY <1>2 DEF SInv, Exclusive
<1>4. \A q \in Processes \ {p} : pc'[q] = pc[q] /\ pc[q] # "claim"
  BY <1>1 DEF SInv, TypeOK, Exclusive
<1>5. holders'[f] = {p} /\ length'[f] = 0
      /\ \A g \in Fifos \ {f} : holders'[g] = holders[g] /\ length'[g] = length[g]
  BY <1>1, <1>2 DEF SInv, TypeOK
<1> HIDE DEF f
<1>6. pc'[p] = "out"
  BY <1>1 DEF SInv, TypeOK
<1>7. Exclusive'
  <2>1. \A q \in Processes : pc'[q] # "claim"
    BY <1>4, <1>6
  <2>2. \A q \in Processes : Uses(q)' => q # p /\ Uses(q) /\ at'[q] = at[q] /\ at[q] \in Fifos \ {f}
    BY <1>1, <1>3, <1>4, <1>6 DEF Uses, UseLabels, SInv, TypeOK
  <2>3. \A q \in Processes : Uses(q)' => holders'[at'[q]] # {}
    BY <1>5, <2>2 DEF SInv, Exclusive
  <2>4. \A q, r \in Processes : Uses(q)' /\ Uses(r)' /\ at'[q] = at'[r] => q = r
    BY <2>2 DEF SInv, Exclusive
  <2> QED
    BY <2>1, <2>3, <2>4 DEF Exclusive
<1>8. Counted'
  BY <1>1, <1>2, <1>5 DEF SInv, Counted
<1>9. Stores'
  BY <1>1, <1>3, <1>4, <1>5, <1>6 DEF SInv, TypeOK, Stores, Uses, UseLabels
<1> QED
  BY <1>7, <1>8, <1>9


\* A call starts on FIFO f: no process uses it yet.
Starts(p, f, label) ==
  /\ pc[p] = "out" /\ holders[f] # {} /\ pc' = [pc EXCEPT ![p] = label]
  /\ \A q \in Processes : Uses(q) => at[q] # f
  /\ at' = [at EXCEPT ![p] = f]
  /\ UNCHANGED <<length, idx, data, holders>>

LEMMA StartKeeps ==
  ASSUME SInv, NEW p \in Processes, NEW f \in Fifos, NEW label \in UseLabels,
         Starts(p, f, label)
  PROVE  Exclusive' /\ Counted'
<1>1. Exclusive'
  <2>1. \A q \in Processes : pc'[q] = "claim" => q # p /\ pc[q] = "claim" /\ at'[q] = at[q]
    BY DEF SInv, TypeOK, Starts, UseLabels
  <2>2. \A q \in Processes : Uses(q)' => q = p \/ (Uses(q) /\ at'[q] = at[q] /\ at[q] # f)
    BY DEF SInv, TypeOK, Starts, Uses, UseLabels
  <2>3. at'[p] = f
    BY DEF SInv, TypeOK, Starts
  <2> QED
    BY <2>1, <2>2, <2>3 DEF SInv, Exclusive, Starts
<1>2. Counted'
  BY DEF SInv, Starts, Counted
<1> QED
  BY <1>1, <1>2

LEMMA MayUseStarts ==
  ASSUME Serial, NEW p \in Processes, NEW f \in Fifos, MayUse(p, f)
  PROVE  pc[p] = "out" /\ holders[f] # {} /\ \A q \in Processes : Uses(q) => at[q] # f
  BY DEF Serial, MayUse, Inside, Uses, UseLabels

LEMMA WriteKeeps ==
  ASSUME Serial, SInv, NEW p \in Processes, NEW f \in Fifos, NEW v \in Values, OS_Write(p, f, v)
  PROVE  Exclusive' /\ Counted' /\ Stores'
<1>1. PICK label \in {"length", "drop"} :
        /\ Starts(p, f, label)
        /\ label = "length" => length[f] < FIFOSIZE /\ reg' = [reg EXCEPT ![p] = length[f] + 1]
        /\ label = "drop" => length[f] >= FIFOSIZE /\ reg' = [reg EXCEPT ![p] = idx[f] + 1]
  BY MayUseStarts DEF OS_Write, Starts, goto
<1>2. Exclusive' /\ Counted'
  BY <1>1, StartKeeps DEF UseLabels
<1>3. length[f] \in 0 .. FIFOSIZE /\ idx[f] \in Nat
  BY <1>1 DEF SInv, Counted, Starts
<1>4. NextCell(f) = (idx[f] + length[f]) % FIFOSIZE
  BY <1>3 DEF NextCell, Mod
<1>5. /\ val' = [val EXCEPT ![p] = v] /\ cell' = [cell EXCEPT ![p] = NextCell(f)]
      /\ reg' = [reg EXCEPT ![p] = reg'[p]]
  BY <1>1 DEF OS_Write, SInv, TypeOK
<1>6. Stores'
  <2>1. ASSUME NEW q \in Processes, q # p
        PROVE  /\ pc'[q] = pc[q] /\ at'[q] = at[q] /\ reg'[q] = reg[q] /\ cell'[q] = cell[q]
               /\ val'[q] = val[q]
    BY <1>1, <1>5, <2>1 DEF Starts, SInv, TypeOK
  <2>2. /\ pc'[p] = label /\ at'[p] = f /\ cell'[p] = (idx[f] + length[f]) % FIFOSIZE
        /\ val'[p] = v
    BY <1>1, <1>4, <1>5 DEF Starts, SInv, TypeOK
  <2>3. /\ label = "length" => length[f] < FIFOSIZE /\ reg'[p] = length[f] + 1
        /\ label = "drop" => length[f] = FIFOSIZE /\ reg'[p] = idx[f] + 1
    <3>1. reg \in [Processes -> Int]
      BY DEF SInv, TypeOK
    <3>2. CASE label = "length"
      BY <1>1, <3>1, <3>2
    <3>3. CASE label = "drop"
      BY <1>1, <1>3, <3>1, <3>3
    <3> QED
      BY <3>2, <3>3
  <2>4. UNCHANGED <<length, idx>>
    BY <1>1 DEF Starts
  <2> QED
    BY <2>1, <2>2, <2>3, <2>4 DEF SInv, Stores
<1> QED
  BY <1>2, <1>6

LEMMA ReadKeeps ==
  ASSUME Serial, SInv, NEW p \in Processes, NEW f \in Fifos, OS_Read(p, f)
  PROVE  Exclusive' /\ Counted' /\ Stores'
<1>1. /\ Starts(p, f, "take") /\ length[f] > 0
      /\ reg' = [reg EXCEPT ![p] = Mod(idx[f] + 1, FIFOSIZE)] /\ cell' = cell
      /\ \A q \in Processes \ {p} : val'[q] = val[q]
  BY MayUseStarts DEF OS_Read, Starts, goto, Readable, SInv, TypeOK
<1>2. Exclusive' /\ Counted'
  BY <1>1, StartKeeps DEF UseLabels
<1>3. idx[f] \in Nat
  BY DEF SInv, Counted
<1>4. Mod(idx[f] + 1, FIFOSIZE) = (idx[f] + 1) % FIFOSIZE
  BY <1>3 DEF Mod
<1>5. Stores'
  <2>1. ASSUME NEW q \in Processes, q # p
        PROVE  /\ pc'[q] = pc[q] /\ at'[q] = at[q] /\ reg'[q] = reg[q] /\ cell'[q] = cell[q]
               /\ val'[q] = val[q]
    BY <1>1, <2>1 DEF Starts, SInv, TypeOK
  <2>2. pc'[p] = "take" /\ at'[p] = f /\ reg'[p] = (idx[f] + 1) % FIFOSIZE
    BY <1>1, <1>4 DEF Starts, SInv, TypeOK
  <2>3. UNCHANGED <<length, idx>>
    BY <1>1 DEF Starts
  <2> QED
    BY <1>1, <2>1, <2>2, <2>3 DEF SInv, Stores
<1> QED
  BY <1>2, <1>5

\* A store of process p to the length, the idx or the data of the FIFO it uses.
StoresTo(p) ==
  /\ Uses(p) /\ UNCHANGED holders
  /\ \A q \in Processes \ {p} :
       pc'[q] = pc[q] /\ at'[q] = at[q] /\ reg'[q] = reg[q] /\ cell'[q] = cell[q] /\ val'[q] = val[q]
  /\ pc'[p] = "out" \/ (pc'[p] \in UseLabels /\ at'[p] = at[p])
  /\ \A f \in Fifos \ {at[p]} : length'[f] = length[f] /\ idx'[f] = idx[f]
  /\ length'[at[p]] \in 0 .. FIFOSIZE /\ idx'[at[p]] \in Nat

LEMMA StoreKeeps ==
  ASSUME SInv, NEW p \in Processes, StoresTo(p)
  PROVE  /\ Exclusive' /\ Counted'
         /\ \A q \in Processes \ {p} : Uses(q)' => Uses(q) /\ at[q] \in Fifos \ {at[p]}
<1> DEFINE f == at[p]
<1>1. f \in Fifos /\ holders[f] # {}
  BY DEF SInv, TypeOK, Exclusive, StoresTo
<1>2. \A q \in Processes \ {p} : Uses(q)' => Uses(q) /\ at'[q] = at[q] /\ at[q] \in Fifos \ {f}
  BY DEF StoresTo, Uses, SInv, TypeOK, Exclusive
<1>3. \A q \in Processes : pc'[q] = "claim" =>
        q # p /\ pc[q] = "claim" /\ at'[q] = at[q] /\ length'[at[q]] = -1
  <2>1. ASSUME NEW q \in Processes, pc'[q] = "claim"
        PROVE  q # p /\ pc[q] = "claim" /\ at'[q] = at[q] /\ length'[at[q]] = -1
    <3>1. q # p /\ pc[q] = "claim" /\ at'[q] = at[q]
      BY <2>1 DEF StoresTo, UseLabels
    <3>2. length[at[q]] = -1 /\ at[q] \in Fifos
      BY <3>1 DEF SInv, TypeOK, Exclusive
    <3>3. at[q] # f
      BY <1>1, <3>2 DEF SInv, Counted
    <3> QED
      BY <3>1, <3>2, <3>3 DEF StoresTo
  <2> QED
    BY <2>1
<1>4. Exclusive'
  <2>1. \A q, r \in Processes : pc'[q] = "claim" /\ pc'[r] = "claim" => q = r
    BY <1>3 DEF SInv, Exclusive
  <2>2. \A q \in Processes : pc'[q] = "claim" => length'[at'[q]] = -1
    BY <1>3
  <2>3. Uses(p)' => at'[p] = f
    BY DEF StoresTo, Uses, UseLabels
  <2>4. \A q, r \in Processes : Uses(q)' /\ Uses(r)' /\ at'[q] = at'[r] => q = r
    BY <1>2, <2>3 DEF SInv, Exclusive
  <2>5. \A q \in Processes : Uses(q)' => holders'[at'[q]] # {}
    BY <1>1, <1>2, <2>3 DEF SInv, Exclusive, StoresTo
  <2> QED
    BY <2>1, <2>2, <2>4, <2>5 DEF Exclusive
<1>5. Counted'
  BY <1>1 DEF SInv, StoresTo, Counted
<1> QED
  BY <1>2, <1>4, <1>5

LEMMA WriteLengthKeeps ==
  ASSUME SInv, NEW p \in Processes, WriteLength(p)
  PROVE  Exclusive' /\ Counted' /\ Stores'
<1>1. /\ pc[p] = "length" /\ pc' = [pc EXCEPT ![p] = "data"]
      /\ length' = [length EXCEPT ![at[p]] = reg[p]]
      /\ UNCHANGED <<idx, data, at, reg, cell, val, holders>>
  BY DEF WriteLength, goto, locals
<1>2. /\ at[p] \in Fifos /\ length[at[p]] \in 0 .. FIFOSIZE /\ idx[at[p]] \in Nat
      /\ reg[p] = length[at[p]] + 1 /\ length[at[p]] < FIFOSIZE
      /\ cell[p] = (idx[at[p]] + length[at[p]]) % FIFOSIZE /\ val[p] \in Values
  BY <1>1 DEF SInv, TypeOK, Exclusive, Uses, UseLabels, Counted, Stores
<1>3. StoresTo(p)
  BY <1>1, <1>2 DEF StoresTo, Uses, UseLabels, SInv, TypeOK
<1>4. /\ Exclusive' /\ Counted'
      /\ \A q \in Processes \ {p} : Uses(q)' => Uses(q) /\ at[q] \in Fifos \ {at[p]}
  BY <1>3, StoreKeeps
<1>5. cell[p] \in Cells
  <2>1. idx[at[p]] + length[at[p]] \in Nat /\ 0 \in 0 .. FIFOSIZE
    BY <1>2
  <2> QED
    BY <1>2, <2>1, ModShift
<1>6. Stores'
  BY <1>1, <1>2, <1>3, <1>4, <1>5 DEF StoresTo, Uses, UseLabels, SInv, TypeOK, Stores
<1> QED
  BY <1>4, <1>6

LEMMA WriteDropKeeps ==
  ASSUME SInv, NEW p \in Processes, WriteDrop(p)
  PROVE  Exclusive' /\ Counted' /\ Stores'
<1>1. /\ pc[p] = "drop" /\ pc' = [pc EXCEPT ![p] = "data"]
      /\ idx' = [idx EXCEPT ![at[p]] = reg[p]]
      /\ UNCHANGED <<length, data, at, reg, cell, val, holders>>
  BY DEF WriteDrop, goto, locals
<1>2. /\ at[p] \in Fifos /\ length[at[p]] \in 0 .. FIFOSIZE /\ idx[at[p]] \in Nat
      /\ reg[p] = idx[at[p]] + 1
      /\ cell[p] = (idx[at[p]] + length[at[p]]) % FIFOSIZE /\ val[p] \in Values
  BY <1>1 DEF SInv, TypeOK, Exclusive, Uses, UseLabels, Counted, Stores
<1>3. StoresTo(p)
  BY <1>1, <1>2 DEF StoresTo, Uses, UseLabels, SInv, TypeOK
<1>4. /\ Exclusive' /\ Counted'
      /\ \A q \in Processes \ {p} : Uses(q)' => Uses(q) /\ at[q] \in Fifos \ {at[p]}
  BY <1>3, StoreKeeps
<1>5. cell[p] \in Cells
  <2>1. idx[at[p]] + length[at[p]] \in Nat /\ 0 \in 0 .. FIFOSIZE
    BY <1>2
  <2> QED
    BY <1>2, <2>1, ModShift
<1>6. Stores'
  BY <1>1, <1>2, <1>3, <1>4, <1>5 DEF StoresTo, Uses, UseLabels, SInv, TypeOK, Stores
<1> QED
  BY <1>4, <1>6

LEMMA WriteDataKeeps ==
  ASSUME SInv, NEW p \in Processes, WriteData(p)
  PROVE  /\ Exclusive' /\ Counted' /\ Stores'
         /\ length' = length /\ idx' = idx
         /\ data' = [data EXCEPT ![at[p]] = [data[at[p]] EXCEPT ![cell[p]] = val[p]]]
<1>1. /\ pc[p] = "data" /\ StoreWord(at[p], cell[p], val[p]) /\ return(p) /\ UNCHANGED holders
  BY DEF WriteData
<1>2. /\ at[p] \in Fifos /\ length[at[p]] \in 0 .. FIFOSIZE /\ idx[at[p]] \in Nat
      /\ cell[p] \in Cells /\ val[p] \in Int
  BY <1>1 DEF SInv, TypeOK, Exclusive, Uses, UseLabels, Counted, Stores
<1>3. /\ length' = length /\ idx' = idx
      /\ data' = [data EXCEPT ![at[p]] = [data[at[p]] EXCEPT ![cell[p]] = val[p]]]
  BY <1>1, <1>2, StoreWordData DEF SInv
<1>4. StoresTo(p)
  BY <1>1, <1>2, <1>3 DEF return, goto, StoresTo, Uses, UseLabels, SInv, TypeOK
<1>5. /\ Exclusive' /\ Counted'
      /\ \A q \in Processes \ {p} : Uses(q)' => Uses(q) /\ at[q] \in Fifos \ {at[p]}
  BY <1>4, StoreKeeps
<1>6. pc'[p] = "out"
  BY <1>1 DEF return, goto, SInv, TypeOK
<1>7. Stores'
  BY <1>3, <1>4, <1>6 DEF StoresTo, SInv, Stores
<1> QED
  BY <1>3, <1>5, <1>7

LEMMA ReadTakeKeeps ==
  ASSUME SInv, NEW p \in Processes, ReadTake(p)
  PROVE  Exclusive' /\ Counted' /\ Stores'
<1>1. /\ pc[p] = "take" /\ pc' = [pc EXCEPT ![p] = "shrink"]
      /\ idx' = [idx EXCEPT ![at[p]] = reg[p]]
      /\ reg' = [reg EXCEPT ![p] = length[at[p]] - 1]
      /\ UNCHANGED <<length, data, at, cell, val, holders>>
  BY DEF ReadTake, goto
<1>2. /\ at[p] \in Fifos /\ length[at[p]] \in 0 .. FIFOSIZE /\ idx[at[p]] \in Nat
      /\ reg[p] = (idx[at[p]] + 1) % FIFOSIZE /\ length[at[p]] > 0
  BY <1>1 DEF SInv, TypeOK, Exclusive, Uses, UseLabels, Counted, Stores
<1>3. reg[p] \in Nat
  <2>1. idx[at[p]] + 1 \in Nat /\ 0 \in 0 .. FIFOSIZE
    BY <1>2
  <2>2. reg[p] \in Cells
    BY <1>2, <2>1, ModShift
  <2> QED
    BY <2>2 DEF Cells
<1>4. StoresTo(p)
  BY <1>1, <1>2, <1>3 DEF StoresTo, Uses, UseLabels, SInv, TypeOK
<1>5. /\ Exclusive' /\ Counted'
      /\ \A q \in Processes \ {p} : Uses(q)' => Uses(q) /\ at[q] \in Fifos \ {at[p]}
  BY <1>4, StoreKeeps
<1>6. pc'[p] = "shrink" /\ reg'[p] = length[at[p]] - 1
  BY <1>1 DEF SInv, TypeOK
<1>7. Stores'
  BY <1>1, <1>2, <1>4, <1>5, <1>6 DEF StoresTo, Uses, UseLabels, SInv, TypeOK, Stores
<1> QED
  BY <1>5, <1>7

LEMMA ReadShrinkKeeps ==
  ASSUME SInv, NEW p \in Processes, ReadShrink(p)
  PROVE  Exclusive' /\ Counted' /\ Stores'
<1>1. /\ pc[p] = "shrink" /\ length' = [length EXCEPT ![at[p]] = reg[p]] /\ return(p)
      /\ UNCHANGED <<idx, data, holders>>
  BY DEF ReadShrink
<1>2. /\ at[p] \in Fifos /\ length[at[p]] \in 0 .. FIFOSIZE /\ idx[at[p]] \in Nat
      /\ reg[p] = length[at[p]] - 1 /\ length[at[p]] > 0
  BY <1>1 DEF SInv, TypeOK, Exclusive, Uses, UseLabels, Counted, Stores
<1>3. StoresTo(p)
  BY <1>1, <1>2 DEF return, goto, StoresTo, Uses, UseLabels, SInv, TypeOK
<1>4. /\ Exclusive' /\ Counted'
      /\ \A q \in Processes \ {p} : Uses(q)' => Uses(q) /\ at[q] \in Fifos \ {at[p]}
  BY <1>3, StoreKeeps
<1>5. pc'[p] = "out"
  BY <1>1 DEF return, goto, SInv, TypeOK
<1>6. Stores'
  BY <1>3, <1>4, <1>5 DEF StoresTo, Uses, UseLabels, SInv, Stores
<1> QED
  BY <1>4, <1>6

LEMMA SInvStep ==
  ASSUME Serial
  PROVE  SInv /\ [Next]_vars => SInv'
<1> SUFFICES ASSUME SInv, [Next]_vars PROVE Exclusive' /\ Counted' /\ Stores'
  BY TypeStep DEF SInv
<1>1. CASE UNCHANGED vars
  BY <1>1 DEF vars, locals, SInv, Exclusive, Uses, Counted, Stores
<1>2. ASSUME NEW p \in Processes, OS_InitFiFo(p)
      PROVE  Exclusive' /\ Counted' /\ Stores'
  BY <1>2, InitFiFoKeeps
<1>3. ASSUME NEW p \in Processes, Claim(p)
      PROVE  Exclusive' /\ Counted' /\ Stores'
  BY <1>3, ClaimKeeps
<1>4. ASSUME NEW p \in Processes, NEW f \in Fifos, NEW v \in Values, OS_Write(p, f, v)
      PROVE  Exclusive' /\ Counted' /\ Stores'
  BY <1>4, WriteKeeps
<1>5. ASSUME NEW p \in Processes, NEW f \in Fifos, OS_Read(p, f)
      PROVE  Exclusive' /\ Counted' /\ Stores'
  BY <1>5, ReadKeeps
<1> QED
  BY <1>1, <1>2, <1>3, <1>4, <1>5, WriteLengthKeeps, WriteDropKeeps, WriteDataKeeps,
     ReadTakeKeeps, ReadShrinkKeeps DEF Next

\* Where calls exclude each other, a FIFO in use never looks free to OS_InitFiFo, wherever
\* its writers and readers are pre-empted.
THEOREM UsedIsNotFree ==
  ASSUME Serial
  PROVE  Spec => []NeverFreeInUse
<1>1. SInv => NeverFreeInUse
  BY DEF SInv, Counted, NeverFreeInUse
<1> QED
  BY <1>1, SInvInit, SInvStep, PTL DEF Spec

-----------------------------------------------------------------------------
(* The elements of a FIFO as a window of its cells.                        *)

Elements(n, i, d) == [k \in 1 .. n |-> d[(i + k - 1) % FIFOSIZE]]

LEMMA ElementsType ==
  ASSUME NEW n \in Nat, NEW i \in Nat, NEW d \in [Cells -> Int]
  PROVE  /\ Elements(n, i, d) \in Seq(Int) /\ Len(Elements(n, i, d)) = n
         /\ \A k \in 1 .. n : /\ (i + k - 1) % FIFOSIZE \in Cells
                              /\ Elements(n, i, d)[k] = d[(i + k - 1) % FIFOSIZE]
<1>1. ASSUME NEW k \in 1 .. n PROVE (i + k - 1) % FIFOSIZE \in Cells
  <2>1. i + k - 1 \in Nat /\ 0 \in 0 .. FIFOSIZE
    OBVIOUS
  <2> QED
    BY <2>1, ModShift
<1>2. Elements(n, i, d) \in [1 .. n -> Int]
  BY <1>1 DEF Elements
<1>3. Elements(n, i, d) \in Seq(Int)
  BY <1>2, SeqDef
<1>4. Len(Elements(n, i, d)) = n
  <2>1. DOMAIN Elements(n, i, d) = 1 .. n
    BY DEF Elements
  <2>2. DOMAIN Elements(n, i, d) = 1 .. Len(Elements(n, i, d)) /\ Len(Elements(n, i, d)) \in Nat
    BY <1>3, LenProperties
  <2> QED
    BY <2>1, <2>2
<1>5. \A k \in 1 .. n : Elements(n, i, d)[k] = d[(i + k - 1) % FIFOSIZE]
  BY DEF Elements
<1> QED
  BY <1>1, <1>3, <1>4, <1>5

\* A write to a FIFO with room.
Stored(d, e, c, v) == e[c] = v /\ \A b \in Cells : b # c => e[b] = d[b]

LEMMA ElementsAppend ==
  ASSUME NEW n \in Nat, n < FIFOSIZE, NEW m \in Nat, m - n = 1, NEW i \in Nat, NEW v \in Int,
         NEW c \in Cells, NEW d \in [Cells -> Int], NEW e \in [Cells -> Int]
  PROVE  (i + n) % FIFOSIZE = c /\ Stored(d, e, c, v) =>
           Elements(m, i, e) = Append(Elements(n, i, d), v)
<1> DEFINE new == Elements(m, i, e)
           old == Elements(n, i, d)
<1>1. m = n + 1
  OBVIOUS
<1>3. /\ old \in Seq(Int) /\ Len(old) = n
      /\ \A k \in 1 .. n : (i + k - 1) % FIFOSIZE \in Cells /\ old[k] = d[(i + k - 1) % FIFOSIZE]
  <2>1. /\ old \in Seq(Int) /\ Len(old) = n
        /\ \A k \in 1 .. n : old[k] = d[(i + k - 1) % FIFOSIZE]
    BY ElementsType
  <2>2. \A k \in 1 .. n : (i + k - 1) % FIFOSIZE \in Cells
    BY ElementsType
  <2> HIDE DEF old
  <2> QED
    BY <2>1, <2>2
<1>4. /\ new \in Seq(Int) /\ Len(new) = n + 1
      /\ \A k \in 1 .. n + 1 : new[k] = e[(i + k - 1) % FIFOSIZE]
  <2>1. /\ new \in Seq(Int) /\ Len(new) = m
        /\ \A k \in 1 .. m : new[k] = e[(i + k - 1) % FIFOSIZE]
    BY ElementsType
  <2> HIDE DEF new
  <2> QED
    BY <1>1, <2>1
<1> HIDE DEF new, old
<1> SUFFICES ASSUME (i + n) % FIFOSIZE = c, Stored(d, e, c, v)
             PROVE  new = Append(old, v)
  BY DEF new, old
<1>5. ASSUME NEW k \in 1 .. n PROVE (i + k - 1) % FIFOSIZE # c
  <2>1. k - 1 \in 0 .. FIFOSIZE /\ n \in 0 .. FIFOSIZE /\ k - 1 < n /\ n - (k - 1) < FIFOSIZE
    OBVIOUS
  <2>2. (i + (k - 1)) % FIFOSIZE # (i + n) % FIFOSIZE
    BY <2>1, CellsDiffer
  <2>3. i + k - 1 = i + (k - 1)
    OBVIOUS
  <2> QED
    BY <2>2, <2>3
<1>6. (i + (n + 1) - 1) % FIFOSIZE = c
  <2>1. i + (n + 1) - 1 = i + n
    OBVIOUS
  <2> QED
    BY <2>1
<1>7. \A k \in 1 .. n : new[k] = old[k]
  BY <1>3, <1>4, <1>5 DEF Stored
<1>8. new[n + 1] = v
  BY <1>4, <1>6 DEF Stored
<1>9. Append(old, v) \in Seq(Int) /\ Len(Append(old, v)) = n + 1
      /\ \A k \in 1 .. n + 1 : Append(old, v)[k] = IF k = n + 1 THEN v ELSE old[k]
  BY <1>3
<1>10. \A k \in 1 .. n + 1 : new[k] = Append(old, v)[k]
  BY <1>7, <1>8, <1>9
<1>11. new = Append(old, v)
  BY <1>4, <1>9, <1>10, SeqEqual, SMTT(40)
<1> QED
  BY <1>11

\* The elements but the first.
LEMMA ElementsTail ==
  ASSUME NEW i \in Nat, NEW j \in Nat, j - i = 1, NEW n \in Nat, NEW m \in Nat, m - n = 1,
         NEW d \in [Cells -> Int]
  PROVE  Elements(n, j, d) = Tail(Elements(m, i, d))
<1> DEFINE old == Elements(m, i, d)
           rest == Elements(n, j, d)
<1>1. /\ old \in Seq(Int) /\ Len(old) = m
      /\ \A k \in 1 .. m : old[k] = d[(i + k - 1) % FIFOSIZE]
  BY ElementsType
<1>2. /\ rest \in Seq(Int) /\ Len(rest) = n
      /\ \A k \in 1 .. n : rest[k] = d[(j + k - 1) % FIFOSIZE]
  BY ElementsType
<1> HIDE DEF old, rest
<1>3. ASSUME NEW k \in 1 .. n PROVE rest[k] = old[k + 1]
  <2>1. k + 1 \in 1 .. m /\ j + k - 1 = i + (k + 1) - 1
    OBVIOUS
  <2>2. rest[k] = d[(j + k - 1) % FIFOSIZE] /\ old[k + 1] = d[(i + (k + 1) - 1) % FIFOSIZE]
    BY <1>1, <1>2, <2>1
  <2> QED
    BY <2>1, <2>2
<1>4. /\ Tail(old) \in Seq(Int) /\ Len(Tail(old)) = n
      /\ \A k \in 1 .. n : Tail(old)[k] = old[k + 1]
  <2>1. old # <<>>
    BY <1>1
  <2> QED
    BY <1>1, <2>1, HeadTailProperties
<1>5. rest = Tail(old)
  BY <1>2, <1>3, <1>4, SeqEqual
<1> QED
  BY <1>5 DEF old, rest

\* A write to a full FIFO: the first element goes.
LEMMA ElementsDrop ==
  ASSUME NEW i \in Nat, NEW j \in Nat, j - i = 1, NEW v \in Int,
         NEW c \in Cells, NEW d \in [Cells -> Int], NEW e \in [Cells -> Int]
  PROVE  (i + FIFOSIZE) % FIFOSIZE = c /\ Stored(d, e, c, v) =>
           Elements(FIFOSIZE, j, e) = Append(Tail(Elements(FIFOSIZE, i, d)), v)
<1>1. \A n, m \in Nat : n < FIFOSIZE /\ m - n = 1 =>
        ((j + n) % FIFOSIZE = c /\ Stored(d, e, c, v) =>
           Elements(m, j, e) = Append(Elements(n, j, d), v))
  BY ElementsAppend
<1>2. \A n, m \in Nat : m - n = 1 => Elements(n, j, d) = Tail(Elements(m, i, d))
  BY ElementsTail
<1>3. PICK n \in Nat : n = FIFOSIZE - 1
  OBVIOUS
<1>4. n < FIFOSIZE /\ FIFOSIZE - n = 1 /\ j + n = i + FIFOSIZE /\ FIFOSIZE \in Nat
  BY <1>3
<1>5. Elements(n, j, d) = Tail(Elements(FIFOSIZE, i, d))
  BY <1>2, <1>4
<1> SUFFICES ASSUME (i + FIFOSIZE) % FIFOSIZE = c, Stored(d, e, c, v)
             PROVE  Elements(FIFOSIZE, j, e) = Append(Tail(Elements(FIFOSIZE, i, d)), v)
  OBVIOUS
<1>6. (j + n) % FIFOSIZE = c
  BY <1>4
<1> QED
  BY <1>1, <1>4, <1>5, <1>6

\* A read.
LEMMA ElementsTake ==
  ASSUME NEW n \in Nat \ {0}, n <= FIFOSIZE, NEW i \in Nat, NEW j \in Nat, (i + 1) % FIFOSIZE = j,
         NEW m \in Nat, n - m = 1, NEW d \in [Cells -> Int]
  PROVE  Elements(m, j, d) = Tail(Elements(n, i, d))
<1> DEFINE old == Elements(n, i, d)
           rest == Elements(m, j, d)
<1>1. m = n - 1
  OBVIOUS
<1>2. /\ old \in Seq(Int) /\ Len(old) = n
      /\ \A k \in 1 .. n : old[k] = d[(i + k - 1) % FIFOSIZE]
  BY ElementsType
<1> HIDE DEF old
<1>3. /\ rest \in Seq(Int) /\ Len(rest) = m
      /\ \A k \in 1 .. m : rest[k] = d[(j + k - 1) % FIFOSIZE]
  BY ElementsType
<1>4. ASSUME NEW k \in 1 .. m PROVE (j + k - 1) % FIFOSIZE = (i + (k + 1) - 1) % FIFOSIZE
  <2> DEFINE a == i + 1
             b == k - 1
  <2>1. a \in Nat /\ b \in 0 .. FIFOSIZE /\ b < FIFOSIZE /\ i + (k + 1) - 1 = a + b
    OBVIOUS
  <2>2. /\ a % FIFOSIZE \in Cells
        /\ (a + b) % FIFOSIZE = IF (a % FIFOSIZE) + b < FIFOSIZE THEN (a % FIFOSIZE) + b
                                ELSE (a % FIFOSIZE) + b - FIFOSIZE
    BY <2>1, ModShift
  <2>3. j = a % FIFOSIZE /\ j + k - 1 = j + b
    OBVIOUS
  <2> HIDE DEF a, b
  <2>4. j % FIFOSIZE = j
    <3>1. 0 * FIFOSIZE + j = j /\ 0 \in Int /\ j \in 0 .. FIFOSIZE - 1
      BY <2>2, <2>3 DEF Cells
    <3>2. (0 * FIFOSIZE + j) % FIFOSIZE = j
      BY <3>1, ModIs
    <3> QED
      BY <3>1, <3>2
  <2>5. (j + b) % FIFOSIZE = IF (j % FIFOSIZE) + b < FIFOSIZE THEN (j % FIFOSIZE) + b
                             ELSE (j % FIFOSIZE) + b - FIFOSIZE
    BY <2>1, ModShift
  <2> QED
    BY <2>1, <2>2, <2>3, <2>4, <2>5
<1> HIDE DEF rest
<1>5. ASSUME NEW k \in 1 .. m PROVE rest[k] = old[k + 1]
  <2>1. k + 1 \in 1 .. n
    BY <1>1
  <2>2. rest[k] = d[(j + k - 1) % FIFOSIZE] /\ old[k + 1] = d[(i + (k + 1) - 1) % FIFOSIZE]
    BY <1>2, <1>3, <2>1
  <2> QED
    BY <1>4, <2>2
<1>6. /\ Tail(old) \in Seq(Int) /\ Len(Tail(old)) = m
      /\ \A k \in 1 .. m : Tail(old)[k] = old[k + 1]
  <2>1. old # <<>>
    BY <1>2
  <2> QED
    BY <1>1, <1>2, <2>1, HeadTailProperties
<1>7. rest = Tail(old)
  BY <1>3, <1>5, <1>6, SeqEqual
<1> QED
  BY <1>7 DEF rest, old

-----------------------------------------------------------------------------
(* What Unread shows of a FIFO: there is at most one store under way.      *)

Storing(q, f) == pc[q] \in {"data", "shrink"} /\ at[q] = f

Shown ==
  \A f \in Fifos :
    /\ (\A q \in Processes : ~Storing(q, f)) =>
         Unread(f) = Elements(IF length[f] < 0 THEN 0 ELSE length[f], idx[f], data[f])
    /\ \A p \in Processes : pc[p] = "data" /\ at[p] = f =>
         Unread(f) = Elements(length[f], idx[f], [data[f] EXCEPT ![cell[p]] = val[p]])
    /\ \A p \in Processes : pc[p] = "shrink" /\ at[p] = f =>
         Unread(f) = Elements(length[f] - 1, idx[f], data[f])

LEMMA MaxZero ==
  ASSUME NEW n \in Int
  PROVE  Max({n, 0}) = IF n < 0 THEN 0 ELSE n
<1> DEFINE m == IF n < 0 THEN 0 ELSE n
<1>1. m \in {n, 0} /\ \A y \in {n, 0} : m >= y
  OBVIOUS
<1>2. ASSUME NEW x \in {n, 0}, \A y \in {n, 0} : x >= y PROVE x = m
  BY <1>2
<1> HIDE DEF m
<1>3. (CHOOSE x \in {n, 0} : \A y \in {n, 0} : x >= y) = m
  BY <1>1, <1>2
<1> QED
  BY <1>3 DEF Max, m

LEMMA UnreadShown == SInv => Shown
<1> SUFFICES ASSUME SInv, NEW f \in Fifos
             PROVE  /\ (\A q \in Processes : ~Storing(q, f)) =>
                         Unread(f) = Elements(IF length[f] < 0 THEN 0 ELSE length[f], idx[f], data[f])
                    /\ \A p \in Processes : pc[p] = "data" /\ at[p] = f =>
                         Unread(f) = Elements(length[f], idx[f], [data[f] EXCEPT ![cell[p]] = val[p]])
                    /\ \A p \in Processes : pc[p] = "shrink" /\ at[p] = f =>
                         Unread(f) = Elements(length[f] - 1, idx[f], data[f])
  BY DEF Shown
<1> DEFINE taken == {q \in Processes : pc[q] = "shrink" /\ at[q] = f}
           writes(c) == {q \in Processes : pc[q] = "data" /\ at[q] = f /\ cell[q] = c}
           word(c) == IF writes(c) = {} THEN data[f][c] ELSE val[CHOOSE q \in writes(c) : TRUE]
<1>0. /\ length[f] \in Int /\ idx[f] \in Nat /\ data[f] \in [Cells -> Int]
      /\ \A k \in Nat \ {0} : (idx[f] + k - 1) % FIFOSIZE \in Cells
  <2>1. length[f] \in Int /\ idx[f] \in Nat /\ data[f] \in [Cells -> Int]
    BY DEF SInv, TypeOK, Counted
  <2>2. ASSUME NEW k \in Nat \ {0} PROVE (idx[f] + k - 1) % FIFOSIZE \in Cells
    <3>1. PICK a \in Nat : a = idx[f] + k - 1
      BY <2>1
    <3>2. a % FIFOSIZE \in Cells
      <4>1. 0 \in 0 .. FIFOSIZE
        OBVIOUS
      <4> QED
        BY <4>1, ModShift
    <3> QED
      BY <3>1, <3>2
  <2> QED
    BY <2>1, <2>2
<1>1. Unread(f) = [k \in 1 .. Max({length[f] - Cardinality(taken), 0}) |-> word((idx[f] + k - 1) % FIFOSIZE)]
  BY DEF Unread
<1>2. ASSUME \A q \in Processes : ~Storing(q, f)
      PROVE  Unread(f) = Elements(IF length[f] < 0 THEN 0 ELSE length[f], idx[f], data[f])
  <2>1. taken = {} /\ \A c : writes(c) = {}
    BY <1>2 DEF Storing
  <2>2. Cardinality(taken) = 0
    BY <2>1, FS_EmptySet
  <2>3. \A c : word(c) = data[f][c]
    BY <2>1
  <2>4. Max({length[f] - Cardinality(taken), 0}) = IF length[f] < 0 THEN 0 ELSE length[f]
    <3>1. length[f] - Cardinality(taken) = length[f]
      BY <1>0, <2>2
    <3> QED
      BY <1>0, <3>1, MaxZero
  <2> HIDE DEF taken, word
  <2> QED
    BY <1>1, <2>3, <2>4 DEF Elements
<1>3. ASSUME NEW p \in Processes, pc[p] = "data", at[p] = f
      PROVE  Unread(f) = Elements(length[f], idx[f], [data[f] EXCEPT ![cell[p]] = val[p]])
  <2>1. \A q \in Processes : pc[q] \in {"data", "shrink"} /\ at[q] = f => q = p
    BY <1>3 DEF SInv, Exclusive, Uses, UseLabels
  <2>2. taken = {} /\ \A c : writes(c) = IF c = cell[p] THEN {p} ELSE {}
    BY <1>3, <2>1
  <2>3. Cardinality(taken) = 0
    BY <2>2, FS_EmptySet
  <2>4. ASSUME NEW c \in Cells PROVE word(c) = [data[f] EXCEPT ![cell[p]] = val[p]][c]
    <3>1. CASE c = cell[p]
      <4>1. writes(c) = {p}
        BY <2>2, <3>1
      <4>2. word(c) = val[p]
        BY <4>1
      <4> QED
        BY <1>0, <3>1, <4>2
    <3>2. CASE c # cell[p]
      <4>1. word(c) = data[f][c]
        BY <2>2, <3>2
      <4> QED
        BY <1>0, <3>2, <4>1
    <3> QED
      BY <3>1, <3>2
  <2>5. length[f] \in Nat
    <3>1. holders[f] # {}
      BY <1>3 DEF SInv, Exclusive, Uses, UseLabels
    <3> QED
      BY <3>1 DEF SInv, Counted
  <2>6. Max({length[f] - Cardinality(taken), 0}) = length[f]
    <3>1. length[f] - Cardinality(taken) = length[f]
      BY <2>3, <2>5
    <3>2. Max({length[f], 0}) = length[f]
      BY <2>5, MaxZero
    <3> QED
      BY <3>1, <3>2
  <2> HIDE DEF taken, word
  <2> QED
    BY <1>0, <1>1, <2>4, <2>5, <2>6 DEF Elements
<1>4. ASSUME NEW p \in Processes, pc[p] = "shrink", at[p] = f
      PROVE  Unread(f) = Elements(length[f] - 1, idx[f], data[f])
  <2>1. \A q \in Processes : pc[q] \in {"data", "shrink"} /\ at[q] = f => q = p
    BY <1>4 DEF SInv, Exclusive, Uses, UseLabels
  <2>2. taken = {p} /\ \A c : writes(c) = {}
    BY <1>4, <2>1
  <2>3. Cardinality(taken) = 1
    BY <2>2, FS_Singleton
  <2>4. \A c : word(c) = data[f][c]
    BY <2>2
  <2>5. length[f] - 1 \in Nat
    BY <1>4 DEF SInv, Stores, TypeOK
  <2>6. Max({length[f] - Cardinality(taken), 0}) = length[f] - 1
    <3>1. PICK n \in Nat : n = length[f] - 1
      BY <2>5
    <3>2. Max({n, 0}) = n
      BY MaxZero
    <3> QED
      BY <2>3, <3>1, <3>2
  <2> HIDE DEF taken, word
  <2> QED
    BY <1>1, <2>4, <2>6 DEF Elements
<1> QED
  BY <1>2, <1>3, <1>4

LEMMA UnreadShownNext == SInv' => Shown'
  BY UnreadShown, PTL

\* A FIFO a step does not touch shows the same elements.
LEMMA Elsewhere ==
  ASSUME SInv, SInv', NEW f \in Fifos,
         length'[f] = length[f], idx'[f] = idx[f], data'[f] = data[f],
         \A q \in Processes : Storing(q, f)' <=> Storing(q, f),
         \A q \in Processes : Storing(q, f) =>
           pc'[q] = pc[q] /\ at'[q] = at[q] /\ cell'[q] = cell[q] /\ val'[q] = val[q]
  PROVE  Unread(f)' = Unread(f)
<1>0. Shown /\ Shown'
  BY UnreadShown, UnreadShownNext
<1>1. CASE \A q \in Processes : ~Storing(q, f)
  <2>1. \A q \in Processes : ~Storing(q, f)'
    BY <1>1
  <2> QED
    BY <1>0, <1>1, <2>1 DEF Shown
<1>2. CASE \E q \in Processes : Storing(q, f)
  <2>1. PICK p \in Processes : Storing(p, f)
    BY <1>2
  <2>2. pc'[p] = pc[p] /\ at'[p] = f /\ at[p] = f /\ cell'[p] = cell[p] /\ val'[p] = val[p]
    BY <2>1 DEF Storing
  <2>3. CASE pc[p] = "data"
    <3>1. Unread(f) = Elements(length[f], idx[f], [data[f] EXCEPT ![cell[p]] = val[p]])
      BY <1>0, <2>2, <2>3 DEF Shown
    <3>2. Unread(f)' = Elements(length'[f], idx'[f], [data'[f] EXCEPT ![cell'[p]] = val'[p]])
      BY <1>0, <2>2, <2>3, SMTT(30) DEF Shown
    <3> QED
      BY <2>2, <3>1, <3>2
  <2>4. CASE pc[p] = "shrink"
    <3>1. Unread(f) = Elements(length[f] - 1, idx[f], data[f])
      BY <1>0, <2>2, <2>4 DEF Shown
    <3>2. Unread(f)' = Elements(length'[f] - 1, idx'[f], data'[f])
      BY <1>0, <2>2, <2>4 DEF Shown
    <3> QED
      BY <2>2, <3>1, <3>2
  <2> QED
    BY <2>1, <2>3, <2>4 DEF Storing
<1> QED
  BY <1>1, <1>2

\* No other process stores in the FIFO a process uses.
LEMMA OnlyUser ==
  ASSUME SInv, NEW p \in Processes, Uses(p)
  PROVE  /\ at[p] \in Fifos /\ length[at[p]] \in 0 .. FIFOSIZE /\ idx[at[p]] \in Nat
         /\ data[at[p]] \in [Cells -> Int]
         /\ \A q \in Processes : Storing(q, at[p]) => q = p
<1>1. at[p] \in Fifos /\ data[at[p]] \in [Cells -> Int]
  BY DEF SInv, TypeOK
<1>2. holders[at[p]] # {}
  BY DEF SInv, Exclusive
<1>3. length[at[p]] \in 0 .. FIFOSIZE /\ idx[at[p]] \in Nat
  BY <1>1, <1>2 DEF SInv, Counted
<1>4. ASSUME NEW q \in Processes, Storing(q, at[p]) PROVE q = p
  <2>1. Uses(q) /\ at[q] = at[p]
    BY <1>4 DEF Storing, Uses, UseLabels
  <2> QED
    BY <2>1 DEF SInv, Exclusive
<1> QED
  BY <1>1, <1>3, <1>4

LEMMA StartShows ==
  ASSUME SInv, SInv', NEW p \in Processes, NEW f \in Fifos, 
         UNCHANGED <<length, idx, data>>, pc[p] = "out",
         pc' = [pc EXCEPT ![p] = pc'[p]], pc'[p] \in {"claim", "length", "drop", "take"},
         \A q \in Processes \ {p} : at'[q] = at[q] /\ cell'[q] = cell[q] /\ val'[q] = val[q]
  PROVE  Unread(f)' = Unread(f)
<1>1. ~Storing(p, f) /\ ~Storing(p, f)'
  BY DEF Storing
<1>2. \A q \in Processes \ {p} : pc'[q] = pc[q] /\ at'[q] = at[q] /\ cell'[q] = cell[q] /\ val'[q] = val[q]
  BY DEF SInv, TypeOK
<1>3. \A q \in Processes : Storing(q, f)' <=> Storing(q, f)
  BY <1>1, <1>2 DEF Storing
<1> QED
  BY <1>1, <1>2, <1>3, Elsewhere

\* A store of process p: the FIFOs it does not work on.
LEMMA OtherFifo ==
  ASSUME SInv, SInv', NEW p \in Processes, NEW f \in Fifos, at[p] # f,
         length'[f] = length[f], idx'[f] = idx[f], data'[f] = data[f],
         at'[p] = at[p] \/ pc'[p] = "out",
         \A q \in Processes \ {p} : pc'[q] = pc[q] /\ at'[q] = at[q] /\ cell'[q] = cell[q] /\ val'[q] = val[q]
  PROVE  Unread(f)' = Unread(f)
<1>1. ~Storing(p, f) /\ ~Storing(p, f)'
  BY DEF Storing
<1>2. \A q \in Processes : Storing(q, f)' <=> Storing(q, f)
  BY <1>1 DEF Storing
<1> QED
  BY <1>1, <1>2, Elsewhere

-----------------------------------------------------------------------------
(* The refinement: the steps that change what a FIFO shows.                *)

LEMMA QueueWrites ==
  ASSUME NEW g \in Fifos, NEW v,
         \A f \in Fifos : f # g => Unread(f)' = Unread(f),
         Unread(g)' = Append(IF Len(Unread(g)) < FIFOSIZE THEN Unread(g) ELSE Tail(Unread(g)), v)
  PROVE  Queue!Put(g, v)
  BY DEF Queue!Put

LEMMA QueueReads ==
  ASSUME NEW g \in Fifos,
         \A f \in Fifos : f # g => Unread(f)' = Unread(f),
         Unread(g) # <<>>, Unread(g)' = Tail(Unread(g))
  PROVE  Queue!Take(g)
  BY DEF Queue!Take

LEMMA WriteLengthShows ==
  ASSUME SInv, SInv', NEW p \in Processes, WriteLength(p)
  PROVE  \E f \in Fifos, v \in Values : Queue!Put(f, v)
<1>0. Shown /\ Shown'
  BY UnreadShown, UnreadShownNext
<1>1. PICK g \in Fifos : g = at[p]
  BY DEF SInv, TypeOK
<1>2. pc[p] = "length" /\ Uses(p)
  BY DEF WriteLength, Uses, UseLabels
<1>3. /\ length[g] \in 0 .. FIFOSIZE /\ idx[g] \in Nat /\ data[g] \in [Cells -> Int]
      /\ \A q \in Processes : ~Storing(q, g)
  <2>1. /\ length[g] \in 0 .. FIFOSIZE /\ idx[g] \in Nat /\ data[g] \in [Cells -> Int]
        /\ \A q \in Processes : Storing(q, g) => q = p
    BY <1>1, <1>2, OnlyUser
  <2>2. ~Storing(p, g)
    BY <1>2 DEF Storing
  <2> QED
    BY <2>1, <2>2
<1>4. /\ length[g] < FIFOSIZE /\ reg[p] = length[g] + 1 /\ cell[p] = (idx[g] + length[g]) % FIFOSIZE
      /\ val[p] \in Values
  BY <1>1, <1>2 DEF SInv, Stores
<1>5. /\ pc'[p] = "data" /\ length'[g] = length[g] + 1 /\ idx' = idx /\ data' = data
      /\ at' = at /\ cell' = cell /\ val' = val
      /\ \A f \in Fifos : f # g => length'[f] = length[f]
      /\ \A q \in Processes \ {p} : pc'[q] = pc[q]
  BY <1>1, <1>4 DEF WriteLength, goto, SInv, TypeOK, locals
<1>6. Unread(g) = Elements(length[g], idx[g], data[g])
  BY <1>0, <1>3 DEF Shown
<1>7. Unread(g)' = Elements(length'[g], idx[g], [data[g] EXCEPT ![cell[p]] = val[p]])
  <2>1. Unread(g)' = Elements(length'[g], idx'[g], [data'[g] EXCEPT ![cell'[p]] = val'[p]])
    BY <1>0, <1>1, <1>5 DEF Shown
  <2> QED
    BY <1>5, <2>1
<1>8. Unread(g)' = Append(Unread(g), val[p])
  <2>1. PICK n \in Nat, m \in Nat, i \in Nat, d \in [Cells -> Int], c \in Cells, v \in Int :
          n = length[g] /\ m = length'[g] /\ i = idx[g] /\ d = data[g] /\ c = cell[p] /\ v = val[p]
    <3>1. cell[p] \in Cells
      <4>1. pc'[p] = "data" => cell'[p] \in Cells
        BY DEF SInv, Stores
      <4> QED
        BY <1>5, <4>1
    <3>2. val[p] \in Int
      BY DEF SInv, TypeOK
    <3> QED
      BY <1>3, <1>5, <3>1, <3>2
  <2>2. PICK e \in [Cells -> Int] : e = [d EXCEPT ![c] = v]
    OBVIOUS
  <2>3. Stored(d, e, c, v)
    BY <2>2 DEF Stored
  <2>4. n < FIFOSIZE /\ m - n = 1 /\ (i + n) % FIFOSIZE = c
    BY <1>4, <1>5, <2>1
  <2>5. Elements(m, i, e) = Append(Elements(n, i, d), v)
    <3>1. n < FIFOSIZE /\ m - n = 1
      BY <2>4
    <3>2. (i + n) % FIFOSIZE = c /\ Stored(d, e, c, v) => Elements(m, i, e) = Append(Elements(n, i, d), v)
      BY <3>1, ElementsAppend, SMTT(30)
    <3> QED
      BY <2>3, <2>4, <3>2
  <2> QED
    BY <1>6, <1>7, <2>1, <2>2, <2>5
<1>9. Len(Unread(g)) < FIFOSIZE
  <2>1. PICK n \in Nat, i \in Nat, d \in [Cells -> Int] : n = length[g] /\ i = idx[g] /\ d = data[g]
    BY <1>3
  <2>2. Len(Elements(n, i, d)) = n
    BY ElementsType
  <2> QED
    BY <1>4, <1>6, <2>1, <2>2
<1>10. \A f \in Fifos : f # g => Unread(f)' = Unread(f)
  BY <1>1, <1>5, OtherFifo
<1>11. Queue!Put(g, val[p])
  <2>1. Unread(g)' = Append(IF Len(Unread(g)) < FIFOSIZE THEN Unread(g) ELSE Tail(Unread(g)), val[p])
    BY <1>8, <1>9
  <2> QED
    BY <1>10, <2>1, QueueWrites
<1> QED
  BY <1>4, <1>11

LEMMA WriteDropShows ==
  ASSUME SInv, SInv', NEW p \in Processes, WriteDrop(p)
  PROVE  \E f \in Fifos, v \in Values : Queue!Put(f, v)
<1>0. Shown /\ Shown'
  BY UnreadShown, UnreadShownNext
<1>1. PICK g \in Fifos : g = at[p]
  BY DEF SInv, TypeOK
<1>2. pc[p] = "drop" /\ Uses(p)
  BY DEF WriteDrop, Uses, UseLabels
<1>3. /\ length[g] \in 0 .. FIFOSIZE /\ idx[g] \in Nat /\ data[g] \in [Cells -> Int]
      /\ \A q \in Processes : ~Storing(q, g)
  <2>1. /\ length[g] \in 0 .. FIFOSIZE /\ idx[g] \in Nat /\ data[g] \in [Cells -> Int]
        /\ \A q \in Processes : Storing(q, g) => q = p
    BY <1>1, <1>2, OnlyUser
  <2>2. ~Storing(p, g)
    BY <1>2 DEF Storing
  <2> QED
    BY <2>1, <2>2
<1>4. /\ length[g] = FIFOSIZE /\ reg[p] = idx[g] + 1 /\ cell[p] = (idx[g] + length[g]) % FIFOSIZE
      /\ val[p] \in Values
  BY <1>1, <1>2 DEF SInv, Stores
<1>5. /\ pc'[p] = "data" /\ idx'[g] = idx[g] + 1 /\ length' = length /\ data' = data
      /\ at' = at /\ cell' = cell /\ val' = val
      /\ \A f \in Fifos : f # g => idx'[f] = idx[f]
      /\ \A q \in Processes \ {p} : pc'[q] = pc[q]
  BY <1>1, <1>4 DEF WriteDrop, goto, SInv, TypeOK, locals
<1>6. Unread(g) = Elements(FIFOSIZE, idx[g], data[g])
  <2>1. Unread(g) = Elements(length[g], idx[g], data[g])
    BY <1>0, <1>3 DEF Shown
  <2> QED
    BY <1>4, <2>1
<1>7. Unread(g)' = Elements(FIFOSIZE, idx'[g], [data[g] EXCEPT ![cell[p]] = val[p]])
  <2>1. Unread(g)' = Elements(length'[g], idx'[g], [data'[g] EXCEPT ![cell'[p]] = val'[p]])
    BY <1>0, <1>1, <1>5 DEF Shown
  <2> QED
    BY <1>4, <1>5, <2>1
<1>8. Unread(g)' = Append(Tail(Unread(g)), val[p])
  <2>1. PICK i \in Nat, j \in Nat, d \in [Cells -> Int], c \in Cells, v \in Int :
          i = idx[g] /\ j = idx'[g] /\ d = data[g] /\ c = cell[p] /\ v = val[p]
    <3>1. cell[p] \in Cells
      <4>1. pc'[p] = "data" => cell'[p] \in Cells
        BY DEF SInv, Stores
      <4> QED
        BY <1>5, <4>1
    <3>2. val[p] \in Int
      BY DEF SInv, TypeOK
    <3> QED
      BY <1>3, <1>5, <3>1, <3>2
  <2>2. PICK e \in [Cells -> Int] : e = [d EXCEPT ![c] = v]
    OBVIOUS
  <2>3. Stored(d, e, c, v)
    BY <2>2 DEF Stored
  <2>4. j - i = 1 /\ (i + FIFOSIZE) % FIFOSIZE = c
    BY <1>4, <1>5, <2>1
  <2>5. Elements(FIFOSIZE, j, e) = Append(Tail(Elements(FIFOSIZE, i, d)), v)
    <3>1. j - i = 1
      BY <2>4
    <3>2. (i + FIFOSIZE) % FIFOSIZE = c /\ Stored(d, e, c, v) =>
            Elements(FIFOSIZE, j, e) = Append(Tail(Elements(FIFOSIZE, i, d)), v)
      BY <3>1, ElementsDrop
    <3> QED
      BY <2>3, <2>4, <3>2
  <2> QED
    BY <1>6, <1>7, <2>1, <2>2, <2>5
<1>9. ~(Len(Unread(g)) < FIFOSIZE)
  <2>1. PICK n \in Nat, i \in Nat, d \in [Cells -> Int] : n = FIFOSIZE /\ i = idx[g] /\ d = data[g]
    BY <1>3
  <2>2. Len(Elements(n, i, d)) = n
    BY ElementsType
  <2> QED
    BY <1>6, <2>1, <2>2
<1>10. \A f \in Fifos : f # g => Unread(f)' = Unread(f)
  BY <1>1, <1>5, OtherFifo
<1>11. Queue!Put(g, val[p])
  <2>1. Unread(g)' = Append(IF Len(Unread(g)) < FIFOSIZE THEN Unread(g) ELSE Tail(Unread(g)), val[p])
    BY <1>8, <1>9
  <2> QED
    BY <1>10, <2>1, QueueWrites
<1> QED
  BY <1>4, <1>11

LEMMA ReadTakeShows ==
  ASSUME SInv, SInv', NEW p \in Processes, ReadTake(p)
  PROVE  at[p] \in Fifos /\ Queue!Take(at[p])
<1>0. Shown /\ Shown'
  BY UnreadShown, UnreadShownNext
<1>1. PICK g \in Fifos : g = at[p]
  BY DEF SInv, TypeOK
<1>2. pc[p] = "take" /\ Uses(p)
  BY DEF ReadTake, Uses, UseLabels
<1>3. /\ length[g] \in 0 .. FIFOSIZE /\ idx[g] \in Nat /\ data[g] \in [Cells -> Int]
      /\ \A q \in Processes : ~Storing(q, g)
  <2>1. /\ length[g] \in 0 .. FIFOSIZE /\ idx[g] \in Nat /\ data[g] \in [Cells -> Int]
        /\ \A q \in Processes : Storing(q, g) => q = p
    BY <1>1, <1>2, OnlyUser
  <2>2. ~Storing(p, g)
    BY <1>2 DEF Storing
  <2> QED
    BY <2>1, <2>2
<1>4. length[g] > 0 /\ reg[p] = (idx[g] + 1) % FIFOSIZE
  BY <1>1, <1>2 DEF SInv, Stores
<1>5. /\ pc'[p] = "shrink" /\ idx'[g] = (idx[g] + 1) % FIFOSIZE /\ length' = length /\ data' = data
      /\ at' = at /\ cell' = cell /\ val' = val
      /\ \A f \in Fifos : f # g => idx'[f] = idx[f]
      /\ \A q \in Processes \ {p} : pc'[q] = pc[q]
  BY <1>1, <1>4 DEF ReadTake, goto, SInv, TypeOK
<1>6. Unread(g) = Elements(length[g], idx[g], data[g])
  BY <1>0, <1>3 DEF Shown
<1>7. Unread(g)' = Elements(length[g] - 1, idx'[g], data[g])
  <2>1. Unread(g)' = Elements(length'[g] - 1, idx'[g], data'[g])
    BY <1>0, <1>1, <1>5 DEF Shown
  <2> QED
    BY <1>5, <2>1
<1>8. Unread(g)' = Tail(Unread(g)) /\ Unread(g) # <<>>
  <2>1. PICK n \in Nat \ {0}, m \in Nat, i \in Nat, j \in Nat, d \in [Cells -> Int] :
          n = length[g] /\ m = length[g] - 1 /\ i = idx[g] /\ j = idx'[g] /\ d = data[g]
    <3>1. idx'[g] \in Nat
      BY DEF SInv, Counted
    <3> QED
      BY <1>3, <1>4, <3>1
  <2>2. n <= FIFOSIZE /\ n - m = 1 /\ (i + 1) % FIFOSIZE = j
    BY <1>3, <1>5, <2>1
  <2>3. Elements(m, j, d) = Tail(Elements(n, i, d))
    BY <2>2, ElementsTake
  <2>4. Len(Elements(n, i, d)) = n
    BY ElementsType
  <2> QED
    BY <1>6, <1>7, <2>1, <2>3, <2>4
<1>9. \A f \in Fifos : f # g => Unread(f)' = Unread(f)
  BY <1>1, <1>5, OtherFifo
<1> QED
  BY <1>1, <1>8, <1>9, QueueReads

-----------------------------------------------------------------------------
(* The steps that a process of the abstract queue does not see.            *)

Same == \A f \in Fifos : Unread(f)' = Unread(f)

LEMMA StartsSame ==
  ASSUME SInv, SInv', NEW p \in Processes,
         \/ OS_InitFiFo(p)
         \/ \E f \in Fifos, v \in Values : OS_Write(p, f, v)
         \/ \E f \in Fifos : OS_Read(p, f)
  PROVE  Same
<1>1. UNCHANGED <<length, idx, data>> /\ pc[p] = "out"
  BY DEF OS_InitFiFo, OS_Write, OS_Read, MayUse
<1>2. pc' = [pc EXCEPT ![p] = pc'[p]] /\ pc'[p] \in {"claim", "length", "drop", "take"}
  <2>1. pc \in [Processes -> {"out", "claim", "length", "drop", "data", "take", "shrink"}]
    BY DEF SInv, TypeOK
  <2> QED
    BY <2>1 DEF OS_InitFiFo, OS_Write, OS_Read, goto
<1>3. ASSUME NEW q \in Processes \ {p} PROVE at'[q] = at[q] /\ cell'[q] = cell[q] /\ val'[q] = val[q]
  BY DEF OS_InitFiFo, OS_Write, OS_Read, SInv, TypeOK
<1>4. ASSUME NEW f \in Fifos PROVE Unread(f)' = Unread(f)
  BY <1>1, <1>2, <1>3, StartShows
<1> QED
  BY <1>4 DEF Same

LEMMA ClaimSame ==
  ASSUME SInv, SInv', NEW p \in Processes, Claim(p)
  PROVE  Same
<1>0. Shown /\ Shown'
  BY UnreadShown, UnreadShownNext
<1>1. PICK g \in Fifos : g = at[p]
  BY DEF SInv, TypeOK
<1>2. pc[p] = "claim" /\ length[g] = -1
  BY <1>1 DEF Claim, SInv, Exclusive
<1>3. /\ pc'[p] = "out" /\ length'[g] = 0 /\ idx' = idx /\ data' = data
      /\ \A f \in Fifos : f # g => length'[f] = length[f]
      /\ \A q \in Processes \ {p} : pc'[q] = pc[q] /\ at'[q] = at[q] /\ cell'[q] = cell[q] /\ val'[q] = val[q]
  BY <1>1, <1>2 DEF Claim, return, goto, SInv, TypeOK
<1>4. \A q \in Processes : ~Storing(q, g) /\ ~Storing(q, g)'
  <2>1. ASSUME NEW q \in Processes, Storing(q, g) PROVE FALSE
    <3>1. Uses(q) /\ at[q] = g
      BY <2>1 DEF Storing, Uses, UseLabels
    <3>2. length[g] \in 0 .. FIFOSIZE
      BY <3>1, OnlyUser
    <3> QED
      BY <1>2, <3>2
  <2> QED
    BY <1>3, <2>1 DEF Storing
<1>5. Unread(g) = Elements(0, idx[g], data[g])
  BY <1>0, <1>2, <1>4 DEF Shown
<1>6. Unread(g)' = Elements(0, idx'[g], data'[g])
  <2>1. ~(length'[g] < 0)
    BY <1>3
  <2> QED
    BY <1>0, <1>3, <1>4, <2>1 DEF Shown
<1>7. \A f \in Fifos : f # g => Unread(f)' = Unread(f)
  BY <1>1, <1>3, OtherFifo
<1> QED
  BY <1>3, <1>5, <1>6, <1>7 DEF Same

LEMMA WriteDataSame ==
  ASSUME SInv, SInv', NEW p \in Processes, WriteData(p)
  PROVE  Same
<1>0. Shown /\ Shown'
  BY UnreadShown, UnreadShownNext
<1>1. PICK g \in Fifos : g = at[p]
  BY DEF SInv, TypeOK
<1>2. pc[p] = "data" /\ Uses(p)
  BY DEF WriteData, Uses, UseLabels
<1>3. /\ length[g] \in 0 .. FIFOSIZE /\ data[g] \in [Cells -> Int]
      /\ \A q \in Processes : Storing(q, g) => q = p
  BY <1>1, <1>2, OnlyUser
<1>4. PICK c \in Cells, v \in Int : c = cell[p] /\ v = val[p]
  BY <1>2 DEF SInv, Stores, TypeOK
<1>5. /\ pc'[p] = "out" /\ StoreWord(g, c, v)
      /\ \A q \in Processes \ {p} : pc'[q] = pc[q] /\ at'[q] = at[q] /\ cell'[q] = cell[q] /\ val'[q] = val[q]
  BY <1>1, <1>4 DEF WriteData, return, goto, SInv, TypeOK
<1>6. length' = length /\ idx' = idx /\ data' = [data EXCEPT ![g] = [data[g] EXCEPT ![c] = v]]
  BY <1>5, StoreWordData DEF SInv
<1>7. \A q \in Processes : ~Storing(q, g)'
  BY <1>3, <1>5 DEF Storing
<1>8. Unread(g) = Elements(length[g], idx[g], [data[g] EXCEPT ![c] = v])
  BY <1>0, <1>1, <1>2, <1>4 DEF Shown
<1>9. Unread(g)' = Elements(length'[g], idx'[g], data'[g])
  <2>1. ~(length'[g] < 0)
    BY <1>3, <1>6
  <2> QED
    BY <1>0, <1>7, <2>1 DEF Shown
<1>10. data'[g] = [data[g] EXCEPT ![c] = v] /\ \A f \in Fifos : f # g => data'[f] = data[f]
  BY <1>6 DEF SInv, TypeOK
<1>11. \A f \in Fifos : f # g => Unread(f)' = Unread(f)
  BY <1>1, <1>5, <1>6, <1>10, OtherFifo
<1> QED
  BY <1>6, <1>8, <1>9, <1>10, <1>11 DEF Same

LEMMA ReadShrinkSame ==
  ASSUME SInv, SInv', NEW p \in Processes, ReadShrink(p)
  PROVE  Same
<1>0. Shown /\ Shown'
  BY UnreadShown, UnreadShownNext
<1>1. PICK g \in Fifos : g = at[p]
  BY DEF SInv, TypeOK
<1>2. pc[p] = "shrink" /\ Uses(p)
  BY DEF ReadShrink, Uses, UseLabels
<1>3. /\ length[g] \in 0 .. FIFOSIZE
      /\ \A q \in Processes : Storing(q, g) => q = p
  BY <1>1, <1>2, OnlyUser
<1>4. length[g] > 0 /\ reg[p] = length[g] - 1
  BY <1>1, <1>2 DEF SInv, Stores
<1>5. /\ pc'[p] = "out" /\ length'[g] = length[g] - 1 /\ idx' = idx /\ data' = data
      /\ \A f \in Fifos : f # g => length'[f] = length[f]
      /\ \A q \in Processes \ {p} : pc'[q] = pc[q] /\ at'[q] = at[q] /\ cell'[q] = cell[q] /\ val'[q] = val[q]
  BY <1>1, <1>4 DEF ReadShrink, return, goto, SInv, TypeOK
<1>6. \A q \in Processes : ~Storing(q, g)'
  BY <1>3, <1>5 DEF Storing
<1>7. Unread(g) = Elements(length[g] - 1, idx[g], data[g])
  BY <1>0, <1>1, <1>2 DEF Shown
<1>8. Unread(g)' = Elements(length'[g], idx'[g], data'[g])
  <2>1. ~(length'[g] < 0)
    BY <1>3, <1>4, <1>5
  <2> QED
    BY <1>0, <1>6, <2>1 DEF Shown
<1>9. \A f \in Fifos : f # g => Unread(f)' = Unread(f)
  BY <1>1, <1>5, OtherFifo
<1> QED
  BY <1>5, <1>7, <1>8, <1>9 DEF Same

LEMMA UnchangedSame ==
  ASSUME UNCHANGED vars
  PROVE  Same
  BY DEF vars, locals, Same, Unread

-----------------------------------------------------------------------------
(* The refinement.                                                         *)

LEMMA QueueInit == Init => Queue!Empty
<1> SUFFICES ASSUME Init PROVE Queue!Empty
  OBVIOUS
<1>1. SInv /\ Shown
  BY SInvInit, UnreadShown
<1>2. ASSUME NEW f \in Fifos PROVE Unread(f) = <<>>
  <2>1. \A q \in Processes : ~Storing(q, f)
    BY DEF Init, Storing
  <2>2. length[f] = -1 /\ idx[f] = 0 /\ data[f] \in [Cells -> Int]
    BY DEF Init
  <2>3. Unread(f) = Elements(0, idx[f], data[f])
    BY <1>1, <2>1, <2>2 DEF Shown
  <2>4. PICK n \in Nat, d \in [Cells -> Int] : n = 0 /\ d = data[f]
    BY <2>2
  <2>5. Elements(n, n, d) \in Seq(Int) /\ Len(Elements(n, n, d)) = n
    BY ElementsType
  <2>6. Elements(n, n, d) = <<>>
    BY <2>4, <2>5, EmptySeq
  <2> QED
    BY <2>2, <2>3, <2>4, <2>6
<1> QED
  BY <1>2 DEF Queue!Empty

LEMMA QueueStep ==
  ASSUME SInv, SInv', [Next]_vars
  PROVE  [Queue!ContentsNext]_[f \in Fifos |-> Unread(f)]
<1>1. ASSUME Same PROVE [Queue!ContentsNext]_[f \in Fifos |-> Unread(f)]
  <2>1. [f \in Fifos |-> Unread(f)]' = [f \in Fifos |-> Unread(f)]
    BY <1>1 DEF Same
  <2> QED
    BY <2>1
<1>2. CASE UNCHANGED vars
  BY <1>1, <1>2, UnchangedSame
<1>3. ASSUME NEW p \in Processes,
             \/ OS_InitFiFo(p)
             \/ \E f \in Fifos, v \in Values : OS_Write(p, f, v)
             \/ \E f \in Fifos : OS_Read(p, f)
      PROVE  Same
  BY <1>3, StartsSame
<1>4. ASSUME NEW p \in Processes, Claim(p) \/ WriteData(p) \/ ReadShrink(p) PROVE Same
  BY <1>4, ClaimSame, WriteDataSame, ReadShrinkSame
<1>5. ASSUME NEW p \in Processes, WriteLength(p) \/ WriteDrop(p) PROVE Queue!ContentsNext
  <2>1. \E f \in Fifos, v \in Values : Queue!Put(f, v)
    BY <1>5, WriteLengthShows, WriteDropShows
  <2> QED
    BY <2>1 DEF Queue!ContentsNext
<1>6. ASSUME NEW p \in Processes, ReadTake(p) PROVE Queue!ContentsNext
  <2>1. \E f \in Fifos : Queue!Take(f)
    BY <1>6, ReadTakeShows
  <2> QED
    BY <2>1 DEF Queue!ContentsNext
<1> QED
  BY <1>1, <1>2, <1>3, <1>4, <1>5, <1>6 DEF Next

\* Where calls exclude each other, the stores of OS_Write and OS_Read, pre-empted at any
\* point, leave in each FIFO what indivisible operations on a bounded one leave: elements
\* go in the order they came, and a write to a full FIFO drops the first.
THEOREM ContentsKept ==
  ASSUME Serial
  PROVE  Spec => KeepsContents
<1>1. Init => Queue!Empty
  BY QueueInit
<1>2. SInv /\ SInv' /\ [Next]_vars => [Queue!ContentsNext]_[f \in Fifos |-> Unread(f)]
  BY QueueStep
<1> QED
  BY <1>1, <1>2, SInvInit, SInvStep, PTL DEF Spec, KeepsContents, Queue!ContentsSpec

-----------------------------------------------------------------------------
(* What the reads return.                                                  *)

\* A read that has loaded its word from the array still has the first unread one.
Loaded ==
  \A p \in Processes :
    pc[p] = "take" /\ idx[at[p]] \in Cells => val[p] = data[at[p]][idx[at[p]]]

LEMMA LoadedInit == Init => Loaded
  BY DEF Init, Loaded

LEMMA WordOfCell ==
  ASSUME NEW f \in Fifos, NEW k \in Cells
  PROVE  Word(f, k) = {data[f][k]}
<1>1. Owner(f, k) = f /\ Field(k) = k + 2 /\ k + 2 > 1 /\ (k + 2) - 2 = k
  BY OwnCell
<1>2. f \in Fifos /\ Field(k) # 0 /\ Field(k) # 1
  BY <1>1 DEF Cells
<1>3. Word(f, k) = {data[f][Field(k) - 2]}
  BY <1>1, <1>2, Zenon DEF Word
<1> QED
  BY <1>1, <1>3

\* The step of a call that has started keeps what other processes have loaded: they
\* work on other FIFOs.
Keeps(p) ==
  /\ \A q \in Processes \ {p} :
       pc'[q] = pc[q] /\ at'[q] = at[q] /\ reg'[q] = reg[q] /\ val'[q] = val[q]
  /\ \A f \in Fifos : f # at[p] => idx'[f] = idx[f] /\ data'[f] = data[f]

LEMMA OthersLoaded ==
  ASSUME SInv, Loaded, NEW p \in Processes, Uses(p), Keeps(p),
         pc'[p] # "take"
  PROVE  Loaded'
<1> SUFFICES ASSUME NEW q \in Processes, pc'[q] = "take", idx'[at'[q]] \in Cells
             PROVE  val'[q] = data'[at'[q]][idx'[at'[q]]]
  BY DEF Loaded
<1>1. q # p
  OBVIOUS
<1>2. pc[q] = "take" /\ Uses(q)
  BY <1>1 DEF Keeps, Uses, UseLabels
<1>3. at[q] # at[p] /\ at[q] \in Fifos
  BY <1>1, <1>2 DEF SInv, TypeOK, Exclusive
<1>4. idx[at[q]] \in Cells
  BY <1>1, <1>3 DEF Keeps
<1>5. val[q] = data[at[q]][idx[at[q]]]
  BY <1>2, <1>4 DEF Loaded
<1> QED
  BY <1>1, <1>3, <1>5 DEF Keeps

\* A step that changes no idx and no data, by a process that has loaded nothing after it
\* but what it loads now.
LEMMA SameLoaded ==
  ASSUME SInv, Loaded, NEW p \in Processes, idx' = idx, data' = data,
         \A q \in Processes \ {p} :
           pc'[q] = pc[q] /\ at'[q] = at[q] /\ reg'[q] = reg[q] /\ val'[q] = val[q],
         pc'[p] = "take" /\ idx[at'[p]] \in Cells => val'[p] = data[at'[p]][idx[at'[p]]]
  PROVE  Loaded'
  BY DEF Loaded

LEMMA ReadLoads ==
  ASSUME SInv, Loaded, NEW p \in Processes, NEW f \in Fifos, OS_Read(p, f)
  PROVE  Loaded'
<1>1. \A q \in Processes \ {p} :
        pc'[q] = pc[q] /\ at'[q] = at[q] /\ reg'[q] = reg[q] /\ val'[q] = val[q]
  BY DEF OS_Read, goto, SInv, TypeOK
<1>2. pc'[p] = "take" /\ at'[p] = f /\ idx' = idx /\ data' = data
  BY DEF OS_Read, goto, SInv, TypeOK
<1>3. ASSUME idx[f] \in Cells PROVE val'[p] = data[f][idx[f]]
  <2>1. Word(f, idx[f]) = {data[f][idx[f]]}
    BY <1>3, WordOfCell
  <2>2. val'[p] \in Word(f, idx[f])
    BY DEF OS_Read, SInv, TypeOK
  <2> QED
    BY <2>1, <2>2
<1> QED
  BY <1>1, <1>2, <1>3, SameLoaded

LEMMA StoreLoads ==
  ASSUME SInv, Loaded, NEW p \in Processes, WriteDrop(p) \/ ReadTake(p) \/ WriteData(p)
  PROVE  Loaded'
<1>1. PICK g \in Fifos : g = at[p]
  BY DEF SInv, TypeOK
<1>2. Uses(p) /\ pc'[p] \in {"data", "shrink", "out"}
  BY DEF WriteDrop, ReadTake, WriteData, return, goto, Uses, UseLabels, SInv, TypeOK
<1>3. \A q \in Processes \ {p} :
        pc'[q] = pc[q] /\ at'[q] = at[q] /\ reg'[q] = reg[q] /\ val'[q] = val[q]
  BY DEF WriteDrop, ReadTake, WriteData, return, goto, locals, SInv, TypeOK
<1>4. \A f \in Fifos : f # g => idx'[f] = idx[f] /\ data'[f] = data[f]
  <2>1. CASE WriteDrop(p) \/ ReadTake(p)
    <3>1. idx' = [idx EXCEPT ![g] = reg[p]] /\ data' = data
      BY <1>1, <2>1 DEF WriteDrop, ReadTake
    <3> QED
      BY <3>1 DEF SInv, TypeOK
  <2>2. CASE WriteData(p)
    <3>1. PICK c \in Cells, v \in Int : c = cell[p] /\ v = val[p]
      BY <2>2 DEF WriteData, SInv, Stores, TypeOK
    <3>2. StoreWord(g, c, v)
      BY <1>1, <2>2, <3>1 DEF WriteData
    <3>3. idx' = idx /\ data' = [data EXCEPT ![g] = [data[g] EXCEPT ![c] = v]]
      BY <3>2, StoreWordData DEF SInv
    <3> QED
      BY <3>3 DEF SInv, TypeOK
  <2> QED
    BY <2>1, <2>2
<1>5. Keeps(p)
  BY <1>1, <1>3, <1>4 DEF Keeps
<1> QED
  BY <1>2, <1>5, OthersLoaded

\* The step of a process that works on no idx and no data.
LeavesData(p) ==
  \/ OS_InitFiFo(p) \/ Claim(p) \/ WriteLength(p) \/ ReadShrink(p)
  \/ \E f \in Fifos, v \in Values : OS_Write(p, f, v)

LEMMA LoadedStep == SInv /\ Loaded /\ [Next]_vars => Loaded'
<1> SUFFICES ASSUME SInv, Loaded, [Next]_vars PROVE Loaded'
  OBVIOUS
<1>1. CASE UNCHANGED vars
  BY <1>1 DEF vars, locals, Loaded
<1>2. ASSUME NEW p \in Processes, LeavesData(p) PROVE Loaded'
  <2>1. \A q \in Processes \ {p} :
          pc'[q] = pc[q] /\ at'[q] = at[q] /\ reg'[q] = reg[q] /\ val'[q] = val[q]
    BY <1>2 DEF LeavesData, OS_InitFiFo, Claim, WriteLength, ReadShrink, OS_Write, return,
                goto, locals, SInv, TypeOK
  <2>2. pc'[p] # "take" /\ idx' = idx /\ data' = data
    BY <1>2 DEF LeavesData, OS_InitFiFo, Claim, WriteLength, ReadShrink, OS_Write, return,
                goto, SInv, TypeOK
  <2> QED
    BY <2>1, <2>2, SameLoaded
<1> QED
  BY <1>1, <1>2, ReadLoads, StoreLoads DEF Next, LeavesData

\* The store of a read takes the word that the read has loaded.
LEMMA ReadTakeLoads ==
  ASSUME SInv, Loaded, NEW p \in Processes, ReadTake(p), idx[at[p]] \in Cells
  PROVE  Head(Unread(at[p])) = val[p]
<1>1. PICK g \in Fifos : g = at[p]
  BY DEF SInv, TypeOK
<1>2. pc[p] = "take" /\ Uses(p)
  BY DEF ReadTake, Uses, UseLabels
<1>3. /\ length[g] \in 0 .. FIFOSIZE /\ idx[g] \in Nat /\ data[g] \in [Cells -> Int]
      /\ \A q \in Processes : ~Storing(q, g)
  <2>1. /\ length[g] \in 0 .. FIFOSIZE /\ idx[g] \in Nat /\ data[g] \in [Cells -> Int]
        /\ \A q \in Processes : Storing(q, g) => q = p
    BY <1>1, <1>2, OnlyUser
  <2> QED
    BY <1>2, <2>1 DEF Storing
<1>4. length[g] > 0 /\ idx[g] \in Cells /\ val[p] = data[g][idx[g]]
  BY <1>1, <1>2 DEF SInv, Stores, Loaded
<1>5. Head(Unread(g)) = val[p]
  <2>1. Unread(g) = Elements(length[g], idx[g], data[g])
    BY <1>3, UnreadShown DEF Shown
  <2>2. PICK n \in Nat, i \in Nat, d \in [Cells -> Int] : n = length[g] /\ i = idx[g] /\ d = data[g]
    BY <1>3
  <2>3. 1 \in 1 .. n /\ i + 1 - 1 = i /\ i % FIFOSIZE = i
    <3>1. n > 0 /\ i < FIFOSIZE
      BY <1>4, <2>2 DEF Cells
    <3> QED
      BY <3>1
  <2>4. Elements(n, i, d)[1] = d[i]
    <3>1. \A k \in 1 .. n : Elements(n, i, d)[k] = d[(i + k - 1) % FIFOSIZE]
      BY ElementsType
    <3>2. Elements(n, i, d)[1] = d[(i + 1 - 1) % FIFOSIZE]
      BY <2>3, <3>1, Zenon
    <3>3. (i + 1 - 1) % FIFOSIZE = i
      BY <2>3
    <3> QED
      BY <3>2, <3>3, Zenon
  <2>5. Head(Elements(n, i, d)) = Elements(n, i, d)[1]
    <3>1. Elements(n, i, d) \in Seq(Int)
      BY ElementsType
    <3> QED
      BY <3>1
  <2> QED
    BY <1>4, <2>1, <2>2, <2>4, <2>5
<1> QED
  BY <1>1, <1>5

\* With serialised calls each read returns the word that was the first unread one when it
\* took effect, as long as idx is in the array.
THEOREM ReadsFirst ==
  ASSUME Serial
  PROVE  Spec => ReadsFirstUnread
<1>1. SInv /\ Loaded /\ [Next]_vars
        => [\A p \in Processes :
              Result(p)' \notin {Result(p), <<>>} /\ idx[at[p]] \in Cells
                => Result(p)' = <<Head(Unread(at[p]))>>]_vars
  <2> SUFFICES ASSUME SInv, Loaded, Next, NEW p \in Processes,
                      Result(p)' \notin {Result(p), <<>>}, idx[at[p]] \in Cells
               PROVE  Result(p)' = <<Head(Unread(at[p]))>>
    OBVIOUS
  <2>1. pc'[p] = "shrink" /\ Result(p)' = <<val'[p]>>
    BY DEF Result
  <2>2. pc[p] # "shrink" \/ val'[p] # val[p]
    BY <2>1 DEF Result
  <2>3. PICK q \in Processes :
          \/ OS_InitFiFo(q) \/ Claim(q)
          \/ \E f \in Fifos, v \in Values : OS_Write(q, f, v)
          \/ WriteLength(q) \/ WriteDrop(q) \/ WriteData(q)
          \/ \E f \in Fifos : OS_Read(q, f)
          \/ ReadTake(q) \/ ReadShrink(q)
    BY DEF Next
  <2>4. CASE ReadTake(q)
    <3>1. q = p /\ val'[p] = val[p]
      BY <2>1, <2>2, <2>4 DEF ReadTake, goto, SInv, TypeOK
    <3> QED
      BY <2>1, <2>4, <3>1, ReadTakeLoads
  <2>5. CASE ~ReadTake(q)
    <3> DEFINE Kept == pc'[p] = pc[p] /\ val'[p] = val[p]
    <3>1. Kept \/ pc'[p] # "shrink"
      <4>1. CASE OS_InitFiFo(q) \/ \E f \in Fifos : OS_Read(q, f)
        BY <4>1 DEF OS_InitFiFo, OS_Read, goto, SInv, TypeOK
      <4>2. CASE \E f \in Fifos, v \in Values : OS_Write(q, f, v)
        <5>1. PICK f \in Fifos, v \in Values : OS_Write(q, f, v)
          BY <4>2
        <5>2. pc' = [pc EXCEPT ![q] = "length"] \/ pc' = [pc EXCEPT ![q] = "drop"]
          BY <5>1 DEF OS_Write, goto
        <5>3. val' = [val EXCEPT ![q] = v]
          BY <5>1 DEF OS_Write
        <5> QED
          BY <5>2, <5>3 DEF SInv, TypeOK
      <4>3. CASE Claim(q) \/ ReadShrink(q)
        BY <4>3 DEF Claim, ReadShrink, return, goto, locals, SInv, TypeOK
      <4>4. CASE WriteLength(q) \/ WriteDrop(q) \/ WriteData(q)
        BY <4>4 DEF WriteLength, WriteDrop, WriteData, return, goto, locals, SInv, TypeOK
      <4> QED
        BY <2>3, <2>5, <4>1, <4>2, <4>3, <4>4, Zenon
    <3> QED
      BY <2>1, <2>2, <3>1
  <2> QED
    BY <2>4, <2>5
<1> QED
  BY <1>1, SInvInit, SInvStep, LoadedInit, LoadedStep, PTL DEF Spec, ReadsFirstUnread

-----------------------------------------------------------------------------
(* Contents and results together, where no write leaves idx behind the array. *)

\* No write overtakes the reads of a FIFO whose idx is the last cell: the line
\* idx++ of OS_Write, which has no modulo, then leaves idx inside data.
IdxInArray == MaxIdx < FIFOSIZE

InArray ==
  /\ \A f \in Fifos : idx[f] \in Cells
  /\ \A p \in Processes : pc[p] = "drop" => reg[p] \in Cells

LEMMA InArrayInit == Init => InArray
  BY DEF Init, InArray, Cells

LEMMA WriteInArray ==
  ASSUME IdxInArray, SInv, InArray, NEW p \in Processes, NEW f \in Fifos,
         NEW v \in Values, OS_Write(p, f, v)
  PROVE  InArray'
<1>1. \A q \in Processes \ {p} : pc'[q] = pc[q] /\ reg'[q] = reg[q]
  BY DEF OS_Write, goto, SInv, TypeOK
<1>2. idx' = idx
  BY DEF OS_Write
<1>3. ASSUME pc'[p] = "drop" PROVE reg'[p] \in Cells
  <2>1. length[f] >= FIFOSIZE /\ reg'[p] = idx[f] + 1
    BY <1>3 DEF OS_Write, goto, SInv, TypeOK
  <2>2. idx[f] < MaxIdx
    BY <2>1 DEF OS_Write
  <2> QED
    BY <2>1, <2>2 DEF InArray, Cells, IdxInArray
<1> QED
  BY <1>1, <1>2, <1>3 DEF InArray

LEMMA StoreInArray ==
  ASSUME SInv, InArray, NEW p \in Processes, WriteDrop(p) \/ ReadTake(p)
  PROVE  InArray'
<1>1. PICK g \in Fifos : g = at[p]
  BY DEF SInv, TypeOK
<1>2. /\ pc'[p] # "drop"
      /\ \A q \in Processes \ {p} : pc'[q] = pc[q] /\ reg'[q] = reg[q]
  BY DEF WriteDrop, ReadTake, goto, locals, SInv, TypeOK
<1>3. reg[p] \in Cells
  <2>1. CASE WriteDrop(p)
    BY <2>1 DEF WriteDrop, InArray
  <2>2. CASE ReadTake(p)
    <3>1. reg[p] = (idx[g] + 1) % FIFOSIZE /\ idx[g] \in Nat
      BY <1>1, <2>2 DEF ReadTake, SInv, Stores, InArray, Cells
    <3> QED
      BY <3>1 DEF Cells
  <2> QED
    BY <2>1, <2>2
<1>4. idx' = [idx EXCEPT ![g] = reg[p]]
  BY <1>1 DEF WriteDrop, ReadTake
<1> QED
  BY <1>2, <1>3, <1>4 DEF InArray, SInv, TypeOK

LEMMA InArrayStep ==
  ASSUME IdxInArray
  PROVE  SInv /\ InArray /\ [Next]_vars => InArray'
<1> SUFFICES ASSUME SInv, InArray, [Next]_vars PROVE InArray'
  OBVIOUS
<1>1. CASE UNCHANGED vars
  BY <1>1 DEF vars, locals, InArray
<1>2. ASSUME NEW p \in Processes,
             \/ OS_InitFiFo(p) \/ Claim(p) \/ WriteLength(p) \/ ReadShrink(p)
             \/ \E f \in Fifos : OS_Read(p, f)
      PROVE  InArray'
  <2>1. \A q \in Processes \ {p} : pc'[q] = pc[q] /\ reg'[q] = reg[q]
    BY <1>2 DEF OS_InitFiFo, Claim, WriteLength, ReadShrink, OS_Read, return, goto, locals,
                SInv, TypeOK
  <2>2. pc'[p] # "drop" /\ idx' = idx
    BY <1>2 DEF OS_InitFiFo, Claim, WriteLength, ReadShrink, OS_Read, return, goto,
                SInv, TypeOK
  <2> QED
    BY <2>1, <2>2 DEF InArray
<1>3. ASSUME NEW p \in Processes, WriteData(p) PROVE InArray'
  <2>1. PICK g \in Fifos, c \in Cells, v \in Int : g = at[p] /\ c = cell[p] /\ v = val[p]
    BY <1>3 DEF WriteData, SInv, Stores, TypeOK
  <2>2. StoreWord(g, c, v)
    BY <1>3, <2>1 DEF WriteData
  <2>3. idx' = idx
    BY <2>2, StoreWordData DEF SInv
  <2>4. /\ pc'[p] # "drop"
        /\ \A q \in Processes \ {p} : pc'[q] = pc[q] /\ reg'[q] = reg[q]
    BY <1>3 DEF WriteData, return, goto, SInv, TypeOK
  <2> QED
    BY <2>3, <2>4 DEF InArray
<1> QED
  BY <1>1, <1>2, <1>3, WriteInArray, StoreInArray DEF Next

\* The store of a read takes what the read has loaded.
LEMMA ReadTakeReads ==
  ASSUME SInv, SInv', Loaded, InArray, NEW p \in Processes, ReadTake(p)
  PROVE  \E f \in Fifos : Queue!Read(p, f)
<1>1. PICK g \in Fifos : g = at[p] /\ Queue!Take(g)
  BY ReadTakeShows
<1>2. Head(Unread(g)) = val[p]
  BY <1>1, ReadTakeLoads DEF InArray
<1>3. /\ Result(p) = <<>> /\ Result(p)' = <<val[p]>>
      /\ \A q \in Processes \ {p} : Result(q)' = Result(q)
  BY DEF ReadTake, goto, Result, SInv, TypeOK
<1>4. [q \in Processes |-> Result(q)]' =
        [[q \in Processes |-> Result(q)] EXCEPT ![p] = <<Head([f \in Fifos |-> Unread(f)][g])>>]
  BY <1>2, <1>3
<1>5. [q \in Processes |-> Result(q)][p] = <<>>
  BY <1>3
<1> QED
  BY <1>1, <1>4, <1>5 DEF Queue!Read

LEMMA ReadShrinkReturns ==
  ASSUME SInv, SInv', NEW p \in Processes, ReadShrink(p)
  PROVE  Queue!Return(p)
<1>1. /\ Result(p) = <<val[p]>> /\ Result(p)' = <<>>
      /\ \A q \in Processes \ {p} : Result(q)' = Result(q)
  BY DEF ReadShrink, return, goto, Result, SInv, TypeOK
<1>2. [f \in Fifos |-> Unread(f)]' = [f \in Fifos |-> Unread(f)]
  BY ReadShrinkSame DEF Same
<1>3. [q \in Processes |-> Result(q)]' = [[q \in Processes |-> Result(q)] EXCEPT ![p] = <<>>]
  BY <1>1
<1>4. [q \in Processes |-> Result(q)][p] # <<>>
  BY <1>1
<1> QED
  BY <1>2, <1>3, <1>4 DEF Queue!Return

\* All other steps leave the results of the reads alone.
LEMMA ResultsSame ==
  ASSUME SInv, NEW p \in Processes,
         \/ OS_InitFiFo(p) \/ Claim(p)
         \/ \E f \in Fifos, v \in Values : OS_Write(p, f, v)
         \/ WriteLength(p) \/ WriteDrop(p) \/ WriteData(p)
         \/ \E f \in Fifos : OS_Read(p, f)
  PROVE  [q \in Processes |-> Result(q)]' = [q \in Processes |-> Result(q)]
<1>1. pc[p] # "shrink" /\ pc'[p] # "shrink"
  BY DEF OS_InitFiFo, Claim, OS_Write, WriteLength, WriteDrop, WriteData, OS_Read, MayUse,
         return, goto, SInv, TypeOK
<1>2. \A q \in Processes \ {p} : pc'[q] = pc[q] /\ val'[q] = val[q]
  BY DEF OS_InitFiFo, Claim, OS_Write, WriteLength, WriteDrop, WriteData, OS_Read,
         return, goto, locals, SInv, TypeOK
<1>3. \A q \in Processes : Result(q)' = Result(q)
  BY <1>1, <1>2 DEF Result
<1> QED
  BY <1>3

QueueVars == <<[f \in Fifos |-> Unread(f)], [p \in Processes |-> Result(p)]>>

LEMMA QueueStepWithResults ==
  ASSUME SInv, SInv', Loaded, InArray, [Next]_vars
  PROVE  [Queue!Next]_QueueVars
<1>1. CASE UNCHANGED vars
  <2>1. Same
    BY <1>1, UnchangedSame
  <2>2. [p \in Processes |-> Result(p)]' = [p \in Processes |-> Result(p)]
    BY <1>1 DEF vars, locals, Result
  <2> QED
    BY <2>1, <2>2 DEF QueueVars, Same
<1>2. ASSUME NEW p \in Processes,
             \/ OS_InitFiFo(p)
             \/ \E f \in Fifos, v \in Values : OS_Write(p, f, v)
             \/ \E f \in Fifos : OS_Read(p, f)
      PROVE  UNCHANGED QueueVars
  BY <1>2, StartsSame, ResultsSame DEF QueueVars, Same
<1>3. ASSUME NEW p \in Processes, Claim(p) \/ WriteData(p) PROVE UNCHANGED QueueVars
  BY <1>3, ClaimSame, WriteDataSame, ResultsSame DEF QueueVars, Same
<1>4. ASSUME NEW p \in Processes, WriteLength(p) \/ WriteDrop(p) PROVE Queue!Next
  <2>1. PICK f \in Fifos, v \in Values : Queue!Put(f, v)
    BY <1>4, WriteLengthShows, WriteDropShows
  <2>2. Queue!Write(f, v)
    BY <1>4, <2>1, ResultsSame DEF Queue!Write
  <2> QED
    BY <2>2 DEF Queue!Next
<1>5. ASSUME NEW p \in Processes, ReadTake(p) \/ ReadShrink(p) PROVE Queue!Next
  BY <1>5, ReadTakeReads, ReadShrinkReturns DEF Queue!Next
<1> QED
  BY <1>1, <1>2, <1>3, <1>4, <1>5 DEF Next

\* Where calls exclude each other and no write overtakes the reads while idx is at the last
\* cell, the calls implement a bounded FIFO: each OS_Read that returns TRUE has given its
\* caller the first unread element.
THEOREM BoundedFifoImplemented ==
  ASSUME Serial, IdxInArray
  PROVE  Spec => ImplementsBoundedFifo
<1>1. Init => Queue!Init
  <2>1. Init => [p \in Processes |-> Result(p)] = [p \in Processes |-> <<>>]
    BY DEF Init, Result
  <2> QED
    BY <2>1, QueueInit DEF Queue!Init
<1>2. SInv /\ SInv' /\ Loaded /\ InArray /\ [Next]_vars => [Queue!Next]_QueueVars
  BY QueueStepWithResults
<1> QED
  BY <1>1, <1>2, SInvInit, SInvStep, LoadedInit, LoadedStep,
     InArrayInit, InArrayStep, PTL
     DEF Spec, ImplementsBoundedFifo, Queue!Spec, QueueVars
=============================================================================
