------------------------------- MODULE Screen -------------------------------
(***************************************************************************)
(* The text screen of drivers/screen.c: kprint, print_char and the cursor  *)
(* in the registers of the VGA controller.                                 *)
(*                                                                         *)
(* A process prints with interrupts enabled; a step is one access to a     *)
(* port, or the stores of a character.  A tick may come between any two of *)
(* its steps: check_schedule prints too, with interrupts disabled, and     *)
(* may leave the CPU to another process.                                   *)
(*                                                                         *)
(* A cell of the screen is its character, an offset counts cells.  That    *)
(* the rows of a scroll move in one step changes no property: the steps    *)
(* between them touch nothing but characters.                              *)
(***************************************************************************)
EXTENDS LibC

CONSTANTS
  Processes,
  MAX_COLS, MAX_ROWS,
  BYTE,        \* the values of a register of the controller: 256
  Messages,    \* what processes print: sequences of character codes
  KernelTexts  \* what check_schedule prints in a tick

NEWLINE == 10
BLANK == 32
ERROR_MARK == 69  \* E
CELLS == MAX_ROWS * MAX_COLS
Cells == 0 .. CELLS - 1

ASSUME ScreenAssumption ==
  /\ MAX_COLS \in Nat \ {0} /\ MAX_ROWS \in Nat \ {0} /\ BYTE \in Nat
  /\ CELLS <= BYTE * BYTE
  /\ Messages \subseteq Seq(Nat) /\ KernelTexts \subseteq Seq(Nat)

\* A number does not fill the screen: it has 11 characters at most, the screen 2000 cells.
ASSUME RoomAssumption ==
  \A n \in Ints : Len(int_to_ascii(n)) < CELLS /\ Len(hex_to_ascii(n, <<>>)) < CELLS

VARIABLES
  vidmem,
  selected,   \* the register that REG_SCREEN_DATA stands for: 14 or 15
  register,   \* registers 14 and 15: high and low byte of the cursor
  running,    \* the process that has the CPU
  pc,         \* where each process is; "out" when it is in no call
  message,    \* what is left to print
  offset,
  lines,      \* history: the lines printed, as a reader would write them down
  mixed       \* history: a tick has come in the middle of a call

locals == <<pc, message, offset>>
history == <<lines, mixed>>
vars == <<vidmem, selected, register, running, locals, history>>

\* clear_screen has been called.
Init ==
  /\ vidmem = [k \in Cells |-> BLANK]
  /\ selected = 15
  /\ register = [r \in {14, 15} |-> 0]
  /\ running \in Processes
  /\ pc = [p \in Processes |-> "out"]
  /\ message = [p \in Processes |-> <<>>]
  /\ offset = [p \in Processes |-> 0]
  /\ lines = << <<>> >>
  /\ mixed = FALSE

-----------------------------------------------------------------------------
(* The effect of print_char on the characters and the offset.              *)

get_offset(col, row) == row * MAX_COLS + col
get_offset_row(o) == o \div MAX_COLS

\* Row by row upwards, then the last line is blanked.
\* Mutant: the rows are moved from the last one on.
Order_last == [k \in 1 .. MAX_ROWS - 1 |-> MAX_ROWS - k]
Order == [k \in 1 .. MAX_ROWS - 1 |-> k]
Scrolled(cells) ==
  LET moved == FoldLeft(LAMBDA m, i : memory_copy(m, get_offset(0, i), get_offset(0, i - 1), MAX_COLS),
                        cells, Order)
  IN  [k \in DOMAIN cells |-> IF get_offset_row(k) = MAX_ROWS - 1 THEN BLANK ELSE moved[k]]

\* Mutant: the cell after the last one still counts as on the screen.
OffScreen_late(o) == o > CELLS
OffScreen(o) == o >= CELLS

\* A store in the video memory; one outside the screen adds a cell to it.
Stored(cells, o, c) == [k \in DOMAIN cells \union {o} |-> IF k = o THEN c ELSE cells[k]]

After(o, c) == IF c = NEWLINE THEN get_offset(0, get_offset_row(o) + 1) ELSE o + 1

\* The characters and the offset after print_char, which leaves the offset as it is, and
\* the cursor too, when it lies off the screen.
print_char(s, c) ==
  LET o == s.offset
      stored == IF c = NEWLINE THEN s.cells ELSE Stored(s.cells, o, c)
  IN  CASE OffScreen(o) -> [s EXCEPT !.cells[CELLS - 1] = ERROR_MARK]
        [] ~OffScreen(o) /\ After(o, c) < CELLS ->
             [cells |-> stored, offset |-> After(o, c)]
        [] OTHER -> [cells |-> Scrolled(stored), offset |-> After(o, c) - MAX_COLS]

Cursor == register[14] * BYTE + register[15]
HighByte(o) == (o \div BYTE) % BYTE
LowByte(o) == o % BYTE

-----------------------------------------------------------------------------
(* What a reader expects to see.                                           *)

\* A line that is full is followed by the next one; the oldest goes when there are too many.
Typed(ls, c) ==
  LET last == IF c = NEWLINE THEN Last(ls) ELSE Append(Last(ls), c)
      all == Append(Front(ls), last) \o
               (IF c = NEWLINE \/ Len(last) = MAX_COLS THEN << <<>> >> ELSE <<>>)
  IN  IF Len(all) > MAX_ROWS THEN Tail(all) ELSE all

-----------------------------------------------------------------------------
(* A process prints.                                                       *)

goto(p, label) == pc' = [pc EXCEPT ![p] = label]
at(p, label) == running = p /\ pc[p] = label

kprint(p, m) ==
  /\ at(p, "out")
  /\ message' = [message EXCEPT ![p] = m]
  /\ goto(p, "get high")
  /\ UNCHANGED <<vidmem, selected, register, running, offset, history>>

Select(p, from, r, to) ==
  /\ at(p, from)
  /\ selected' = r
  /\ goto(p, to)
  /\ UNCHANGED <<vidmem, register, running, message, offset, history>>

Read(p, from, value, to) ==
  /\ at(p, from)
  /\ offset' = [offset EXCEPT ![p] = value]
  /\ goto(p, to)
  /\ UNCHANGED <<vidmem, selected, register, running, message, history>>

get_cursor_offset(p) ==
  \/ Select(p, "get high", 14, "read high")
  \/ Read(p, "read high", register[selected] * BYTE, "get low")
  \/ Select(p, "get low", 15, "read low")
  \/ Read(p, "read low", offset[p] + register[selected], "print")

PrintChar(p) ==
  LET c == Head(message[p])
      s == print_char([cells |-> vidmem, offset |-> offset[p]], c)
  IN  /\ at(p, "print") /\ message[p] # <<>>
      /\ vidmem' = s.cells
      /\ offset' = [offset EXCEPT ![p] = s.offset]
      /\ message' = [message EXCEPT ![p] = Tail(@)]
      /\ goto(p, IF OffScreen(offset[p]) THEN "print" ELSE "set high")
      /\ lines' = IF mixed THEN lines ELSE Typed(lines, c)
      /\ UNCHANGED <<selected, register, running, mixed>>

Write(p, from, value, to) ==
  /\ at(p, from)
  /\ register' = [register EXCEPT ![selected] = value]
  /\ goto(p, to)
  /\ UNCHANGED <<vidmem, selected, running, message, offset, history>>

set_cursor_offset(p) ==
  \/ Select(p, "set high", 14, "write high")
  \/ Write(p, "write high", HighByte(offset[p]), "set low")
  \/ Select(p, "set low", 15, "write low")
  \/ Write(p, "write low", LowByte(offset[p]), "print")

\* The end of the message: the call returns, and its locals are gone.
Return(p) ==
  /\ at(p, "print") /\ message[p] = <<>>
  /\ offset' = [offset EXCEPT ![p] = 0]
  /\ goto(p, "out")
  /\ UNCHANGED <<vidmem, selected, register, running, message, history>>

\* The timer interrupt: check_schedule prints text, and process q is the next to run.
Tick(text, q) ==
  LET s == FoldLeft(print_char, [cells |-> vidmem, offset |-> Cursor], text)
  IN  /\ vidmem' = s.cells
      /\ selected' = 15
      /\ register' = IF OffScreen(Cursor) THEN register
                     ELSE [register EXCEPT ![14] = HighByte(s.offset), ![15] = LowByte(s.offset)]
      /\ running' = q
      /\ mixed' = (mixed \/ pc[running] # "out")
      /\ lines' = IF mixed' THEN << <<>> >> ELSE FoldLeft(Typed, lines, text)
      /\ UNCHANGED locals

Next ==
  \/ \E p \in Processes :
       \/ \E m \in Messages : kprint(p, m)
       \/ get_cursor_offset(p) \/ PrintChar(p) \/ set_cursor_offset(p) \/ Return(p)
  \/ \E text \in KernelTexts, q \in Processes : Tick(text, q)

Spec == Init /\ [][Next]_vars

-----------------------------------------------------------------------------
(* Properties.                                                             *)

\* Every variable keeps its type: wherever a tick leaves the cursor, no character is
\* stored outside the screen.
TypeOK ==
  /\ DOMAIN vidmem = Cells
  /\ selected \in {14, 15}
  /\ register \in [{14, 15} -> 0 .. BYTE - 1]
  /\ running \in Processes
  /\ pc \in [Processes -> {"out", "get high", "read high", "get low", "read low", "print",
                           "set high", "write high", "set low", "write low"}]
  /\ offset \in [Processes -> 0 .. BYTE * BYTE - 1]
  /\ mixed \in BOOLEAN

\* As long as no tick comes in the middle of a call, what has been printed is on the
\* screen, the last lines of it, and the cursor behind it (screen.c, "Sets the video
\* cursor to the returned offset").
ShowsText ==
  ~mixed /\ pc[running] \in {"out", "print"} =>
    /\ \A k \in Cells :
         LET row == get_offset_row(k) + 1
             col == (k % MAX_COLS) + 1
         IN  vidmem[k] = IF row <= Len(lines) /\ col <= Len(lines[row])
                         THEN lines[row][col] ELSE BLANK
    /\ Cursor = get_offset(Len(Last(lines)), Len(lines) - 1)

\* What the cells show of a text printed from here, up to the cursor.
Shown(text) ==
  LET s == FoldLeft(print_char, [cells |-> vidmem, offset |-> Cursor], text)
  IN  [k \in 1 .. s.offset |-> s.cells[k - 1]]

\* Nobody prints and nothing has been printed since clear_screen.
Cleared ==
  /\ \A p \in Processes : pc[p] = "out"
  /\ Cursor = 0 /\ vidmem = [k \in Cells |-> BLANK]

Value(str, base, digit(_)) == FoldLeft(LAMBDA v, c : base * v + digit(c), 0, str)
Decimal(str) == Value(str, 10, LAMBDA c : c - Zero)

\* On a cleared screen that has room for it, every number that dbg prints but the smallest
\* int, which has no opposite, can be read back from the cells: a minus if it is negative,
\* then decimal digits without superfluous zeros (int_to_ascii, then print_char).
NumbersShown ==
  Cleared =>
    \A n \in Ints \ {-(2 ^ (INT_BITS - 1))} :
      LET str == Shown(int_to_ascii(n))
          shown == IF n < 0 THEN Tail(str) ELSE str
      IN  /\ (n < 0) <=> (str[1] = Minus)
          /\ \A k \in DOMAIN shown : shown[k] \in Zero .. Zero + 9
          /\ Decimal(shown) = (IF n < 0 THEN -n ELSE n)
          /\ Len(shown) > 1 => shown[1] # Zero

\* So can every number that dbg_hex prints, negative ones by their complement: the digits
\* are hexadecimal, but for a ":" where a ten is not the last digit (hex_to_ascii).
HexShown ==
  Cleared =>
    \A n \in Ints :
      LET all == Shown(hex_to_ascii(n, <<>>))
          str == SubSeq(all, 3, Len(all))
          digit(c) == IF c <= Zero + 10 THEN c - Zero ELSE c - SmallA + 10
      IN  /\ SubSeq(all, 1, 2) = <<Zero, SmallX>>
          /\ \A k \in DOMAIN str : str[k] \in Zero .. Zero + 10 \/ str[k] \in SmallA .. SmallA + 5
          /\ Value(str, 16, digit) = n % 2 ^ INT_BITS
=============================================================================
