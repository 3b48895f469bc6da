---------------------------- MODULE NaturalSets ----------------------------
(***************************************************************************)
(* Sets of natural numbers: a set of them has a first member, and one that *)
(* has 0 and the successor of each of its members has them all.  The       *)
(* proofs use the latter for inductions over a set that names what is to   *)
(* be shown of a number.  Division: a number has one quotient and one      *)
(* remainder.                                                              *)
(***************************************************************************)
EXTENDS Integers, FiniteSetsExt, FiniteSetTheorems, WellFoundedInduction, TLAPS

\* Min finds the first member of any set of natural numbers: Malloc, OS_InitFiFo and the
\* lists of the semaphores look for one.
LEMMA MinOfNaturals ==
  ASSUME NEW S \in SUBSET Nat, S # {}
  PROVE  Min(S) \in S /\ \A y \in S : Min(S) <= y
<1>1. PICK x \in S : \A y \in S : ~ (<<y, x>> \in OpToRel(<, Nat))
  BY NatLessThanWellFounded, WFMin, Zenon
<1>2. ASSUME NEW y \in S PROVE x <= y
  <2>1. ~ (<<y, x>> \in OpToRel(<, Nat))
    BY <1>1
  <2>2. ~ (y < x)
    BY <2>1 DEF OpToRel
  <2> QED
    BY <2>2
<1> QED
  BY <1>2 DEF Min

\* Induction on the natural numbers.
LEMMA Induction ==
  ASSUME NEW S \in SUBSET Nat, 0 \in S, \A n \in S : n + 1 \in S
  PROVE  S = Nat
<1> DEFINE Rest == Nat \ S
<1>1. SUFFICES ASSUME Rest # {} PROVE FALSE
  OBVIOUS
<1>2. Min(Rest) \in Rest /\ \A y \in Rest : Min(Rest) <= y
  BY <1>1, MinOfNaturals
<1>3. PICK n \in Nat : n \notin S /\ \A y \in Nat : y \in S \/ n <= y
  BY <1>2
<1>4. n - 1 \in Nat /\ n - 1 \notin S
  BY <1>3
<1> QED
  BY <1>3, <1>4

\* Induction up to a bound.
LEMMA InductionUpTo ==
  ASSUME NEW N \in Nat, NEW S \in SUBSET (0 .. N), 0 \in S,
         \A n \in 0 .. N - 1 : n \in S => n + 1 \in S
  PROVE  S = 0 .. N
<1> DEFINE T == S \union {n \in Nat : n > N}
<1>1. S \in SUBSET Nat /\ \A n \in S : n <= N
  OBVIOUS
<1>2. \A n \in Nat : n \in T <=> n \in S \/ n > N
  OBVIOUS
<1>3. T \in SUBSET Nat
  BY <1>1
<1> HIDE DEF T
<1>4. ASSUME NEW n \in T PROVE n + 1 \in T
  <2>1. n \in Nat /\ n + 1 \in Nat
    BY <1>3
  <2>2. CASE n \in S /\ n < N
    <3>1. n + 1 \in S
      BY <2>1, <2>2
    <3> QED
      BY <1>2, <2>1, <3>1
  <2>3. CASE n >= N
    BY <1>2, <2>1, <2>3
  <2> QED
    BY <1>1, <1>2, <2>1, <2>2, <2>3
<1>5. T = Nat
  BY <1>2, <1>3, <1>4, Induction
<1>6. \A n \in 0 .. N : n \in S
  BY <1>2, <1>5
<1> QED
  BY <1>1, <1>6

-----------------------------------------------------------------------------
(* Division.                                                               *)

LEMMA Division ==
  ASSUME NEW n \in Nat \ {0}, NEW a \in Int
  PROVE  \E q \in Int : a = q * n + (a % n) /\ a % n \in 0 .. n - 1
<1>1. a \div n \in Int /\ a = (a \div n) * n + (a % n) /\ a % n \in 0 .. n - 1
  OBVIOUS
<1> QED
  BY <1>1

LEMMA MultipleFar ==
  ASSUME NEW n \in Nat \ {0}, NEW x \in Int
  PROVE  (x >= 1 => x * n >= n) /\ (x <= -1 => x * n <= -n)
  OBVIOUS

LEMMA ModIs ==
  ASSUME NEW n \in Nat \ {0}, NEW q \in Int, NEW r \in 0 .. n - 1
  PROVE  (q * n + r) % n = r
<1> DEFINE a == q * n + r
<1>1. a \in Int
  OBVIOUS
<1>2. PICK p \in Int : a = p * n + (a % n) /\ a % n \in 0 .. n - 1
  BY <1>1, Division
<1>3. (q - p) * n = (a % n) - r
  BY <1>2
<1>4. q - p \in Int /\ ((q - p >= 1) => (q - p) * n >= n) /\ ((q - p <= -1) => (q - p) * n <= -n)
  BY MultipleFar
<1>5. q = p
  <2> HIDE DEF a
  <2> QED
    BY <1>2, <1>3, <1>4
<1> QED
  BY <1>2, <1>3, <1>5

LEMMA DivIs ==
  ASSUME NEW n \in Nat \ {0}, NEW q \in Int, NEW r \in 0 .. n - 1
  PROVE  (q * n + r) \div n = q
<1> DEFINE a == q * n + r
<1>1. a \in Int
  OBVIOUS
<1>2. PICK p \in Int, s \in 0 .. n - 1 : p = a \div n /\ a = p * n + s
  <2>1. a \div n \in Int /\ a = (a \div n) * n + (a % n) /\ a % n \in 0 .. n - 1
    BY <1>1
  <2> QED
    BY <2>1
<1>3. (q - p) * n = s - r
  BY <1>2
<1>4. q - p \in Int /\ ((q - p >= 1) => (q - p) * n >= n) /\ ((q - p <= -1) => (q - p) * n <= -n)
  BY MultipleFar
<1>5. q = p
  <2> HIDE DEF a
  <2> QED
    BY <1>2, <1>3, <1>4
<1> QED
  BY <1>2, <1>5

-----------------------------------------------------------------------------
(* Powers of two: they count the subsets of a set.                        *)

LEMMA NextPower ==
  ASSUME NEW k \in Nat
  PROVE  2 ^ k \in Nat /\ 2 ^ (k + 1) = 2 * (2 ^ k)
<1> DEFINE S == 1 .. k
           A == SUBSET S
           B == {s \union {k + 1} : s \in A}
           add == [s \in A |-> s \union {k + 1}]
           C == Cardinality(A)
<1>1. IsFiniteSet(S) /\ Cardinality(S) = k /\ k + 1 \notin S
  BY FS_Interval
<1>2. IsFiniteSet(A) /\ C \in Nat
  BY <1>1, FS_SUBSET, FS_CardinalityType
<1>3. C = 2 ^ k
  BY <1>1, FS_SUBSET, Zenon
<1>4. SUBSET (S \union {k + 1}) = A \union B
  <2>1. ASSUME NEW s \in SUBSET (S \union {k + 1}), k + 1 \in s PROVE s \in B
    <3>1. s \ {k + 1} \in A /\ s = (s \ {k + 1}) \union {k + 1}
      BY <2>1
    <3> QED
      BY <3>1
  <2> QED
    BY <2>1
<1>5. A \intersect B = {}
  BY <1>1
<1>6. add \in Bijection(A, B)
  <2>1. \A s, t \in A : s \union {k + 1} = t \union {k + 1} => s = t
    <3> TAKE s, t \in A
    <3> HAVE s \union {k + 1} = t \union {k + 1}
    <3>1. k + 1 \notin s /\ k + 1 \notin t
      BY <1>1
    <3> QED
      BY <3>1
  <2>2. add \in [A -> B] /\ \A s \in A : add[s] = s \union {k + 1}
    OBVIOUS
  <2>3. \A u \in B : \E s \in A : add[s] = u
    BY <2>2
  <2> HIDE DEF add, B
  <2> QED
    BY <2>1, <2>2, <2>3 DEF Bijection, Injection, Surjection, IsInjective
<1> HIDE DEF A, B, S
<1>7. IsFiniteSet(B) /\ Cardinality(B) = C
  BY <1>2, <1>6, FS_Bijection DEF ExistsBijection
<1>8. Cardinality(A \union B) = Cardinality(A) + Cardinality(B) - Cardinality({})
  <2>1. Cardinality(A \union B) = Cardinality(A) + Cardinality(B) - Cardinality(A \intersect B)
    BY <1>2, <1>7, FS_Union, Zenon
  <2> QED
    BY <2>1, <1>5, Zenon
<1>9. Cardinality(SUBSET (S \union {k + 1})) = C + C
  <2>1. Cardinality(A \union B) = C + C
    BY <1>2, <1>7, <1>8, FS_EmptySet
  <2> QED
    BY <2>1, <1>4, Zenon
<1>10. IsFiniteSet(S \union {k + 1}) /\ Cardinality(S \union {k + 1}) = k + 1
  BY <1>1, FS_AddElement
<1>11. 2 ^ (k + 1) = C + C
  BY <1>9, <1>10, FS_SUBSET, Zenon
<1> HIDE DEF C
<1>12. 2 ^ (k + 1) = 2 * C
  BY <1>2, <1>11
<1> QED
  BY <1>2, <1>3, <1>12, Zenon

\* A name for the powers, which the provers would evaluate.
TwoTo(k) == 2 ^ k

LEMMA Powers ==
  /\ TwoTo(0) = 1 /\ TwoTo(1) = 2 /\ TwoTo(2) = 4
  /\ \A k \in Nat : TwoTo(k) \in Nat \ {0} /\ TwoTo(k + 1) = 2 * TwoTo(k)
<1>1. TwoTo(0) = 1 /\ TwoTo(1) = 2 /\ TwoTo(2) = 4
  BY DEF TwoTo
<1>2. ASSUME NEW k \in Nat PROVE TwoTo(k) \in Nat /\ TwoTo(k + 1) = 2 * TwoTo(k)
  BY NextPower DEF TwoTo
<1> DEFINE S == {k \in Nat : TwoTo(k) > 0}
<1>3. ASSUME NEW k \in S PROVE k + 1 \in S
  <2>1. k \in Nat /\ k + 1 \in Nat /\ TwoTo(k) \in Nat /\ TwoTo(k) > 0 /\ TwoTo(k + 1) = 2 * TwoTo(k)
    BY <1>2
  <2> QED
    BY <2>1
<1>4. 0 \in S /\ S \in SUBSET Nat
  BY <1>1
<1> HIDE DEF S
<1>5. S = Nat
  BY <1>3, <1>4, Induction
<1> QED
  BY <1>1, <1>2, <1>5 DEF S
=============================================================================
