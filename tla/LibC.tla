-------------------------------- MODULE LibC --------------------------------
(***************************************************************************)
(* The functions of libc/mem.c and libc/string.c that the kernel prints    *)
(* with.  A string is the sequence of its character codes, without the 0   *)
(* that ends it; memory is a function from addresses to bytes.             *)
(***************************************************************************)
EXTENDS Integers, SequencesExt

CONSTANT INT_BITS  \* bits of an int

ASSUME LibCAssumption == INT_BITS \in Nat /\ INT_BITS % 4 = 0 /\ INT_BITS > 0

Ints == -(2 ^ (INT_BITS - 1)) .. 2 ^ (INT_BITS - 1) - 1
Minus == 45
Zero == 48
SmallA == 97
SmallX == 120

-----------------------------------------------------------------------------
(* mem.c                                                                   *)

\* One byte after the other, in the order of the offsets given.
Copied(mem, source, dest, order) ==
  FoldLeft(LAMBDA m, i : [m EXCEPT ![dest + i] = m[source + i]], mem, order)

Upwards(nbytes) == [k \in 1 .. nbytes |-> k - 1]
\* Going down, byte 0 is not copied.
Downwards(nbytes) == [k \in 1 .. nbytes - 1 |-> nbytes - k]

memory_copy(mem, source, dest, nbytes) ==
  CASE source > dest -> Copied(mem, source, dest, Upwards(nbytes))
    [] source < dest -> Copied(mem, source, dest, Downwards(nbytes))
    [] OTHER -> mem

-----------------------------------------------------------------------------
(* string.c                                                                *)

\* / and % of C round towards 0.
Quot(a, b) == IF a < 0 THEN -((-a) \div b) ELSE a \div b
Rem(a, b) == a - b * Quot(a, b)

\* -n of an int: the smallest one has no opposite and stays what it is.
Negated(n) == IF n = -(2 ^ (INT_BITS - 1)) THEN n ELSE -n

\* Mutant: the loop stops at the last digit but one.
More_early(n) == n > 9
More(n) == n > 0

\* The digits of n, the last one first.
digits[n \in Ints] ==
  <<Zero + Rem(n, 10)>> \o (IF More(Quot(n, 10)) THEN digits[Quot(n, 10)] ELSE <<>>)

reverse(str) == [k \in DOMAIN str |-> str[Len(str) + 1 - k]]

\* What int_to_ascii leaves in str.
int_to_ascii(n) ==
  reverse(IF n < 0 THEN digits[Negated(n)] \o <<Minus>> ELSE digits[n])

append(str, c) == str \o <<c>>

Nibble(n, i) == (n \div 2 ^ i) % 16

\* All digits but the last: a ten is taken for a decimal digit.
\* Mutant: so is an eleven.
HighDigit_late(d) == IF d > 11 THEN SmallA + d - 10 ELSE Zero + d
HighDigit(d) == IF d > 10 THEN SmallA + d - 10 ELSE Zero + d
LowDigit(d) == IF d >= 10 THEN SmallA + d - 10 ELSE Zero + d

\* What hex_to_ascii leaves in str, after what was there before.
hex_to_ascii(n, str) ==
  LET high == [k \in 1 .. INT_BITS \div 4 - 1 |-> Nibble(n, INT_BITS - 4 * k)]
      first == SelectInSubSeq(high, 1, Len(high), LAMBDA d : d # 0)
      kept == IF first = 0 THEN <<>> ELSE SubSeq(high, first, Len(high))
      shown == [k \in DOMAIN kept |-> HighDigit(kept[k])]
  IN  FoldLeft(append, str, <<Zero, SmallX>> \o shown \o <<LowDigit(Nibble(n, 0))>>)
=============================================================================
