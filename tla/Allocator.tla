----------------------------- MODULE Allocator -----------------------------
(***************************************************************************)
(* The memory allocator of kernel/kernel.c: OS_InitMemory, OS_Malloc and   *)
(* OS_Free.  Blocks and free space start with two control bytes in the     *)
(* heap itself, a mark and the logarithm of the size; address_book holds   *)
(* the blocks in use.                                                      *)
(*                                                                         *)
(* A step of OS_Malloc is a turn of its search, or the stores that follow: *)
(* processes call it with interrupts enabled.  Calls that do not overlap   *)
(* leave nothing behind that depends on the caller, so one element of      *)
(* Processes stands for any number of processes whose calls exclude each   *)
(* other.                                                                  *)
(* Programs free blocks they were given; any other address is refused by   *)
(* OS_Free, which then changes nothing.                                    *)
(***************************************************************************)
EXTENDS Integers, FiniteSetsExt

CONSTANTS
  Processes,              \* processes whose calls may overlap
  Requests,               \* the arguments of OS_Malloc
  Freed,                  \* those requests whose blocks are given back
  Data,                   \* the bytes that programs fill their blocks with
  BASE_MEM_LOCATION, BASE_STACK_LOCATION,
  MAX_NUMBER_OF_MALLOCS   \* size of address_book

MEMORY_IN_USE == 240
MEMORY_CLEAR == 15
MAX_SINGLE_MALLOC_SIZE_SHIFT == 29

Limit == BASE_STACK_LOCATION - 2
Heap == BASE_MEM_LOCATION .. Limit
Slots == 1 .. MAX_NUMBER_OF_MALLOCS

ASSUME AllocatorAssumption ==
  /\ Requests \subseteq Nat /\ Freed \subseteq Requests /\ Data \subseteq 0 .. 255
  /\ BASE_MEM_LOCATION \in Nat \ {0} /\ BASE_STACK_LOCATION \in Nat
  /\ BASE_MEM_LOCATION + 1 \in Heap
  /\ MAX_NUMBER_OF_MALLOCS \in Nat

VARIABLES
  mem,           \* the bytes of the heap
  address_book,  \* where the blocks in use start; 0 in a slot that is free
  pc,            \* where each process is; "out" when it is in no call
  request,       \* the argument of its call
  base,          \* current_base
  total,         \* total_available_space
  blocks         \* history: the blocks handed out and not given back

locals == <<request, base, total>>
vars == <<mem, address_book, pc, locals, blocks>>

Init ==
  /\ mem = [a \in Heap |-> CASE a = BASE_MEM_LOCATION -> MEMORY_CLEAR
                             [] a = BASE_MEM_LOCATION + 1 -> MAX_SINGLE_MALLOC_SIZE_SHIFT
                             [] OTHER -> 0]
  /\ address_book = [i \in Slots |-> 0]
  /\ pc = [p \in Processes |-> "out"]
  /\ request = [p \in Processes |-> 0]
  /\ base = [p \in Processes |-> 0]
  /\ total = [p \in Processes |-> 0]
  /\ blocks = {}

goto(p, label) == pc' = [pc EXCEPT ![p] = label]
\* The call returns: its locals are gone.
return(p) ==
  /\ goto(p, "out")
  /\ request' = [request EXCEPT ![p] = 0]
  /\ base' = [base EXCEPT ![p] = 0]
  /\ total' = [total EXCEPT ![p] = 0]

Marked(a) == mem[a] \in {MEMORY_IN_USE, MEMORY_CLEAR}
Space(a) == 2 ^ (mem[a + 1] % 32)

\* Where the heap ends: control bytes start before it.
\* Mutant: it ends where the stacks begin.
Beyond_late(a) == a > BASE_STACK_LOCATION
Beyond(a) == a >= Limit

\* The power of two for val bytes and the two control bytes, and its logarithm.
\* Mutant: the control bytes are forgotten.
Shift_bare(val) == Min({k \in 0 .. 30 : 2 ^ k >= val})
Shift(val) == Min({k \in 0 .. 30 : 2 ^ k > val + 1})
ActualSize(val) == 2 ^ Shift(val)

OS_Malloc(p, val) ==
  /\ pc[p] = "out"
  /\ val >= 2 /\ Shift(val) <= MAX_SINGLE_MALLOC_SIZE_SHIFT
  /\ request' = [request EXCEPT ![p] = val]
  /\ base' = [base EXCEPT ![p] = BASE_MEM_LOCATION]
  /\ goto(p, "search")
  /\ UNCHANGED <<mem, address_book, total, blocks>>

\* What is left of the free space found so far behind a block in use.
\* Mutant: all of it.
AfterBlock_same(p) == total[p]
AfterBlock(p) == 0

StepOver(p, space) ==
  /\ base' = [base EXCEPT ![p] = @ + Space(@)]
  /\ total' = [total EXCEPT ![p] = space]
  /\ UNCHANGED <<pc, request>>

\* The end of the heap: the call returns 0.
SearchFails(p) == Beyond(base[p]) /\ return(p)

SearchUsed(p) ==
  /\ ~Beyond(base[p]) /\ mem[base[p]] = MEMORY_IN_USE
  /\ StepOver(p, AfterBlock(p))

SearchFree(p) ==
  LET n == ActualSize(request[p])
      found == total[p] + Space(base[p])
  IN  /\ ~Beyond(base[p]) /\ mem[base[p]] = MEMORY_CLEAR
      /\ \/ /\ Beyond(base[p] + n)
            /\ return(p)
         \/ /\ ~Beyond(base[p] + n) /\ found >= n
            /\ base' = [base EXCEPT ![p] = @ - total[p]]
            /\ goto(p, "split")
            /\ UNCHANGED <<request, total>>
         \/ /\ ~Beyond(base[p] + n) /\ found < n
            /\ StepOver(p, found)

\* A byte that is no mark stops the kernel's search for ever ("Memory corrupted").
Search(p) ==
  /\ pc[p] = "search"
  /\ SearchFails(p) \/ SearchUsed(p) \/ SearchFree(p)
  /\ UNCHANGED <<mem, address_book, blocks>>

\* The space behind the block gets control bytes, of the largest size, if it has none.
\* Mutant: it gets them in any case.
Split_always(a) == TRUE
Splits(a) == ~Marked(a)
Split(p) ==
  LET a == base[p] + ActualSize(request[p])
  IN  /\ pc[p] = "split"
      /\ mem' = IF Splits(a)
                THEN [mem EXCEPT ![a] = MEMORY_CLEAR, ![a + 1] = MAX_SINGLE_MALLOC_SIZE_SHIFT]
                ELSE mem
      /\ goto(p, "book")
      /\ UNCHANGED <<address_book, locals, blocks>>

Listed(a) == {i \in Slots : address_book[i] = a}

\* Without a free slot the call returns 0.
Book(p) ==
  /\ pc[p] = "book"
  /\ \/ /\ Listed(0) = {}
        /\ return(p)
        /\ UNCHANGED address_book
     \/ /\ Listed(0) # {}
        /\ address_book' = [address_book EXCEPT ![Min(Listed(0))] = base[p]]
        /\ goto(p, "seal")
        /\ UNCHANGED locals
  /\ UNCHANGED <<mem, blocks>>

NewBlock(p) == [base |-> base[p], val |-> request[p]]

Seal(p) ==
  /\ pc[p] = "seal"
  /\ mem' = [mem EXCEPT ![base[p]] = MEMORY_IN_USE, ![base[p] + 1] = Shift(request[p])]
  /\ blocks' = blocks \union {NewBlock(p)}
  /\ return(p)
  /\ UNCHANGED address_book

\* Mutant: the slot in the address book stays taken.
Unlisted_not(a) == address_book
Unlisted(a) == [address_book EXCEPT ![Min(Listed(a))] = 0]
OS_Free(p, b) ==
  /\ pc[p] = "out"
  /\ mem[b.base] = MEMORY_IN_USE /\ Listed(b.base) # {}
  /\ address_book' = Unlisted(b.base)
  /\ blocks' = blocks \ {b}
  /\ base' = [base EXCEPT ![p] = b.base]
  /\ goto(p, "clear")
  /\ UNCHANGED <<mem, request, total>>

FreeClear(p) ==
  /\ pc[p] = "clear"
  /\ mem' = [mem EXCEPT ![base[p]] = MEMORY_CLEAR]
  /\ return(p)
  /\ UNCHANGED <<address_book, blocks>>

\* A program writes to all of a block it was given.
Contents(b) == b.base + 2 .. b.base + 1 + b.val
Fill(b, byte) ==
  /\ mem' = [a \in Heap |-> IF a \in Contents(b) THEN byte ELSE mem[a]]
  /\ UNCHANGED <<address_book, pc, locals, blocks>>

Next ==
  \/ \E p \in Processes :
       \/ \E val \in Requests : OS_Malloc(p, val)
       \/ \E b \in blocks : b.val \in Freed /\ OS_Free(p, b)
       \/ Search(p) \/ Split(p) \/ Book(p) \/ Seal(p) \/ FreeClear(p)
  \/ \E b \in blocks, byte \in Data : Fill(b, byte)

Spec == Init /\ [][Next]_vars

\* A process that is in a call goes on with it.
Proceed(p) == Search(p) \/ Split(p) \/ Book(p) \/ Seal(p) \/ FreeClear(p)
FairSpec == Spec /\ \A p \in Processes : WF_vars(Proceed(p))

-----------------------------------------------------------------------------
(* Properties.                                                             *)

\* Every variable keeps its type: no store leaves the heap.
TypeOK ==
  /\ mem \in [Heap -> 0 .. 255]
  /\ address_book \in [Slots -> Heap \union {0}]
  /\ pc \in [Processes -> {"out", "search", "split", "book", "seal", "clear"}]
  /\ request \in [Processes -> Requests \union {0}]
  /\ base \in [Processes -> Nat]
  /\ total \in [Processes -> Nat]
  /\ blocks \subseteq [base : Heap, val : Requests]
  /\ \A p \in Processes : pc[p] = "split" => base[p] + ActualSize(request[p]) + 1 \in Heap

Extent(b) == b.base .. b.base + ActualSize(b.val) - 1

\* Blocks lie in the heap and do not overlap, those about to be handed out included
\* (OS_Malloc, line 584: "aren't stepping on some other memory").
Disjoint ==
  LET given == blocks
      claimed == {NewBlock(p) : p \in {q \in Processes : pc[q] = "seal"}}
  IN  /\ \A b \in given \union claimed : Extent(b) \subseteq BASE_MEM_LOCATION .. Limit - 1
      /\ \A b \in given, c \in given \union claimed :
           (b # c \/ c \in claimed) => Extent(b) \intersect Extent(c) = {}

\* Between calls address_book lists exactly the blocks in use, each one once, so that
\* OS_Free takes back every block, whatever its program wrote to it.
BookExact ==
  (\A p \in Processes : pc[p] = "out") =>
    /\ {address_book[i] : i \in Slots} \ {0} = {b.base : b \in blocks}
    /\ \A b \in blocks : Cardinality(Listed(b.base)) = 1 /\ mem[b.base] = MEMORY_IN_USE

\* Every call returns: the search does not go round in circles and never waits at a
\* byte that is no mark ("Memory corrupted").
CallsReturn == \A p \in Processes : pc[p] # "out" ~> pc[p] = "out"

Store == INSTANCE Heap WITH First <- BASE_MEM_LOCATION, Limit <- Limit, Request <- Requests

\* OS_Malloc and OS_Free implement a heap: a block is handed out to one owner and stays
\* his until he gives it back.
ImplementsHeap == Store!Spec
=============================================================================
