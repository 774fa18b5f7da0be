--------------------------------- MODULE Heap ---------------------------------
(***************************************************************************)
(* The kernel heap (mem/memory.c): blocks are cut off a region from bottom *)
(* to top, each behind a word that holds its size, and none is ever used   *)
(* again.  A heap is a record of heap_current and the words of the region, *)
(* with the blocks handed out as history.                                  *)
(*                                                                         *)
(* The region is not the heap's own: HEAP_START is where kernel/linker.ld  *)
(* puts the kernel image.  Nothing reserves the image's memory, so blocks  *)
(* are first cut off whatever of the image the running kernel has no more  *)
(* use for, and then off what it runs on; from there on (lost) its         *)
(* behaviour is undefined, and the modules that use the heap end.          *)
(*                                                                         *)
(* Sizes and addresses are bytes; sums of them are taken modulo WORD, as   *)
(* size_t and 32-bit pointers are.                                         *)
(***************************************************************************)
EXTENDS Integers

CONSTANTS
  WORD,          \* number of values of a size_t, 2^32 in the code
  HEAP_START,    \* 0x100000
  HEAP_SIZE,     \* 0x100000
  USED_START     \* where the code and data begin that the running kernel needs

heap_end == HEAP_START + HEAP_SIZE
SIZE_T   == 4                         \* sizeof(size_t)

\* The heap is made of words, and lies in the lower half of the address space but
\* not at its very start.
ASSUME HeapAssumption ==
  /\ WORD \in Nat /\ WORD % SIZE_T = 0
  /\ HEAP_START \in Nat /\ HEAP_START % SIZE_T = 0 /\ HEAP_START > SIZE_T
  /\ HEAP_SIZE \in Nat /\ HEAP_SIZE % SIZE_T = 0
  /\ 2 * heap_end <= WORD
  /\ USED_START \in HEAP_START..heap_end

\* What a word of the heap holds: a size, or one of these.
ZERO == 0
OLD  == -3       \* the kernel image, or what was in memory at the start
DEAD == -1       \* 0xDEDEDEDE, what kfree leaves
DATA == -2       \* what the block's owner wrote

Words == {a \in HEAP_START..(heap_end - 1) : a % SIZE_T = 0}
Sizes == 0..(WORD - 1)

\* request is what the caller asked for, size what it got.
Blocks == [ptr : Nat, request : Sizes, size : Sizes]

Heaps == [current : HEAP_START..heap_end,
          mem     : [Words -> Sizes \cup {OLD, DEAD, DATA}],
          blocks  : SUBSET Blocks,      \* every block handed out
          freed   : SUBSET Blocks,
          wiped   : BOOLEAN,            \* memory outside the heap was overwritten
          lost    : BOOLEAN]            \* memory the running kernel needs was

\* memory_init: nothing is cleared.
memory_init ==
  [current |-> HEAP_START, mem |-> [a \in Words |-> OLD],
   blocks |-> {}, freed |-> {}, wiped |-> FALSE, lost |-> FALSE]

Within(b) == {a \in Words : b.ptr <= a /\ a < b.ptr + b.size}

-------------------------------------------------------------------------------
\* size = (size + 3) & ~3
Aligned(size) == LET s == (size + 3) % WORD IN s - (s % 4)

\* Mutant: the header is not counted.
TotalSize_without_header(size) == Aligned(size)

TotalSize(size) == (Aligned(size) + SIZE_T) % WORD

\* Mutant: the limit test forgets the header.
Fits_without_header(h, size) == (h.current + Aligned(size)) % WORD <= heap_end

\* The limit test, with the sum that may wrap around.
Fits(h, size) == (h.current + TotalSize(size)) % WORD <= heap_end

\* The block that a request which fits gets.
NewBlock(h, size) ==
  [ptr |-> h.current + SIZE_T, request |-> size, size |-> Aligned(size)]

\* Clearing the block runs past the end of the heap.
Overruns(h, size) == h.current + SIZE_T + Aligned(size) > heap_end

\* The header and the cleared block reach into what the kernel needs.
Hits(h, size) == h.current + SIZE_T + Aligned(size) > USED_START

\* kmalloc(size), for a request that fits.
kmalloc(h, size) ==
  IF Overruns(h, size)
    THEN [h EXCEPT !.wiped = TRUE, !.lost = TRUE,
                   !.blocks = @ \cup {NewBlock(h, size)}]
    ELSE [h EXCEPT
            !.current = (@ + TotalSize(size)) % WORD,
            !.mem     = [a \in Words |->
                           IF a = h.current THEN Aligned(size)
                           ELSE IF a \in Within(NewBlock(h, size)) THEN ZERO
                           ELSE h.mem[a]],
            !.blocks  = @ \cup {NewBlock(h, size)},
            !.lost    = @ \/ Hits(h, size)]

\* Mutant: the fill counts words.
Filled_words(h, ptr) ==
  {a \in Words : ptr <= a /\ a < ptr + 4 * h.mem[ptr - SIZE_T]}

\* What kfree(ptr) fills: as many bytes as the word before ptr says.
Filled(h, ptr) == {a \in Words : ptr <= a /\ a < ptr + h.mem[ptr - SIZE_T]}

\* kfree(ptr), for a block: filled with 0xDE and not reclaimed.
kfree(h, b) ==
  [h EXCEPT !.mem   = [a \in Words |-> IF a \in Filled(h, b.ptr) THEN DEAD ELSE h.mem[a]],
            !.freed = @ \cup {b}]

\* The owner of b writes to all of it (external).
Use(h, b) ==
  [h EXCEPT !.mem = [a \in Words |-> IF a \in Within(b) THEN DATA ELSE h.mem[a]]]

Live(h) == h.blocks \ h.freed

-------------------------------------------------------------------------------
\* b and c, with the headers before them, have no byte in common.
Apart(b, c) == c.ptr + c.size <= b.ptr - SIZE_T \/ b.ptr + b.size <= c.ptr - SIZE_T

\* The inductive invariant of a heap: while nothing was written outside it, every
\* block lies whole below heap_current, with its size in its header, apart from
\* every other; and while the kernel is whole, heap_current has not reached it.
HeapInv(h) ==
  /\ h \in Heaps
  /\ h.current % SIZE_T = 0
  /\ h.freed \subseteq h.blocks
  /\ ~h.lost => ~h.wiped /\ h.current <= USED_START
  /\ ~h.wiped =>
     \A b \in h.blocks :
       /\ HEAP_START + SIZE_T <= b.ptr /\ b.ptr + b.size <= h.current
       /\ b.ptr % SIZE_T = 0
       /\ b.request <= HEAP_SIZE => b.size >= b.request
       /\ h.mem[b.ptr - SIZE_T] = b.size
       /\ \A c \in h.blocks : c = b \/ Apart(b, c)
===============================================================================
