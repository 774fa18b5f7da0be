------------------------------ MODULE HeapProofs ------------------------------
(***************************************************************************)
(* What kmalloc and kfree do to a heap, for any heap size, width of size_t *)
(* and request.                                                            *)
(***************************************************************************)
EXTENDS Heap, TLAPS

\* Rounding up to whole words, with the sum that wraps around: what fits in size_t
\* when the header is added, or the largest multiple of a word.
LEMMA AlignedBounds ==
  ASSUME NEW size \in Sizes
  PROVE  /\ Aligned(size) \in 0..(WORD - SIZE_T) /\ Aligned(size) % SIZE_T = 0
         /\ size + 3 < WORD => size <= Aligned(size) /\ Aligned(size) <= size + 3
<1> USE HeapAssumption DEF SIZE_T
<1>1. size \in Nat /\ size < WORD /\ WORD >= 16
  BY DEF Sizes, heap_end
<1> DEFINE s == (size + 3) % WORD
<1>2. s \in 0..(WORD - 1) /\ (size + 3 < WORD => s = size + 3)
  BY <1>1
<1> HIDE DEF s
<1>3. s - (s % 4) \in 0..s /\ (s - (s % 4)) % 4 = 0 /\ s < s - (s % 4) + 4
  BY <1>2
<1>4. s - (s % 4) <= WORD - 4
  BY <1>1, <1>2, <1>3
<1>5. Aligned(size) = s - (s % 4)
  BY DEF Aligned, s
<1> QED BY <1>1, <1>2, <1>3, <1>4, <1>5

\* The size of a block with its header does not wrap around, unless it is a whole
\* address space.
LEMMA TotalSizeValue ==
  ASSUME NEW size \in Sizes
  PROVE  TotalSize(size) = IF Aligned(size) = WORD - SIZE_T THEN 0
                           ELSE Aligned(size) + SIZE_T
<1>1. Aligned(size) \in 0..(WORD - SIZE_T) /\ WORD \in Nat /\ WORD > 0
  BY AlignedBounds, HeapAssumption DEF Sizes
<1>2. CASE Aligned(size) = WORD - SIZE_T
  <2>1. TotalSize(size) = WORD % WORD
    BY <1>1, <1>2 DEF TotalSize, SIZE_T
  <2>2. WORD % WORD = 0
    BY <1>1
  <2> QED BY <1>2, <2>1, <2>2
<1>3. CASE Aligned(size) # WORD - SIZE_T
  BY <1>1, <1>3 DEF TotalSize, SIZE_T
<1> QED BY <1>2, <1>3

\* A request of at most the heap's size that passes the limit test gets a block
\* that ends in the heap: the sums of the test do not wrap around for it.
LEMMA SaneFits ==
  ASSUME NEW h, HeapInv(h), NEW size \in Sizes, size <= HEAP_SIZE, Fits(h, size)
  PROVE  ~Overruns(h, size)
<1> USE HeapAssumption
<1>1. h.current \in HEAP_START..heap_end /\ WORD \in Nat
  BY DEF HeapInv, Heaps
<1>2. /\ size + 3 < WORD /\ Aligned(size) \in Nat /\ Aligned(size) <= HEAP_SIZE + 3
      /\ Aligned(size) % 4 = 0
  <2>1. size + 3 < WORD /\ WORD - SIZE_T \in Nat
    BY DEF heap_end, SIZE_T, Sizes
  <2> QED BY <2>1, AlignedBounds DEF SIZE_T, Sizes
<1>3. Aligned(size) <= HEAP_SIZE
  BY <1>2 DEF SIZE_T
<1>4. h.current + Aligned(size) + SIZE_T < WORD
  BY <1>1, <1>2, <1>3 DEF heap_end, SIZE_T
<1>5. TotalSize(size) = Aligned(size) + SIZE_T
  BY <1>1, <1>2, <1>4, TotalSizeValue DEF SIZE_T, heap_end
<1>6. h.current + TotalSize(size) \in 0..(WORD - 1)
  BY <1>1, <1>2, <1>4, <1>5 DEF SIZE_T, heap_end
<1>7. (h.current + TotalSize(size)) % WORD = h.current + TotalSize(size)
  BY <1>1, <1>6
<1> QED BY <1>1, <1>2, <1>5, <1>7 DEF Fits, Overruns, SIZE_T, heap_end

\* The word that a block's header is, the words of the block, and the order of
\* the blocks: what HeapInv says of a block.
LEMMA BlockPlace ==
  ASSUME NEW h, HeapInv(h), ~h.wiped, NEW b \in h.blocks
  PROVE  /\ b.ptr \in Nat /\ b.size \in Nat
         /\ b.ptr - SIZE_T \in Words /\ b.ptr - SIZE_T < h.current
         /\ Within(b) = {a \in Words : b.ptr <= a /\ a < b.ptr + b.size}
         /\ Filled(h, b.ptr) = Within(b)
         /\ \A a \in Within(b) : a \in Words /\ a < h.current /\ a # b.ptr - SIZE_T
<1> USE HeapAssumption
<1>1. h \in Heaps /\ b \in Blocks
  BY DEF HeapInv, Heaps
<1>2. b.ptr \in Nat /\ b.size \in Nat /\ h.current \in HEAP_START..heap_end
  BY <1>1 DEF Blocks, Sizes, Heaps
<1>3. /\ HEAP_START + SIZE_T <= b.ptr /\ b.ptr + b.size <= h.current
      /\ b.ptr % SIZE_T = 0 /\ h.mem[b.ptr - SIZE_T] = b.size
  BY DEF HeapInv
<1>4. b.ptr - SIZE_T \in Words /\ b.ptr - SIZE_T < h.current
  BY <1>2, <1>3 DEF Words, SIZE_T, heap_end
<1>5. Filled(h, b.ptr) = Within(b)
  BY <1>3 DEF Filled, Within
<1>6. \A a \in Within(b) : a \in Words /\ a < h.current /\ a # b.ptr - SIZE_T
  BY <1>2, <1>3 DEF Within, Words, SIZE_T, heap_end
<1> QED BY <1>2, <1>4, <1>5, <1>6 DEF Within

\* The words of two blocks that are apart, and their headers.
LEMMA ApartWords ==
  ASSUME NEW h, HeapInv(h), ~h.wiped, NEW b \in h.blocks, NEW c \in h.blocks, b # c
  PROVE  /\ Within(b) \cap Within(c) = {}
         /\ c.ptr - SIZE_T \notin Within(b)
<1>1. Apart(b, c)
  BY DEF HeapInv
<1>2. b.ptr \in Nat /\ b.size \in Nat /\ c.ptr \in Nat /\ c.size \in Nat
  BY BlockPlace
<1> QED BY <1>1, <1>2, HeapAssumption DEF Apart, Within, Words, SIZE_T, heap_end

\* The words of s's blocks are the same in t.
Kept(s, t) ==
  /\ s.blocks \subseteq t.blocks /\ s.freed = t.freed
  /\ \A b \in s.blocks : \A a \in Within(b) : t.mem[a] = s.mem[a]

\* What kmalloc does with a request that fits in the heap: a new block, live, behind
\* all others; nothing else changes but the words of the new block and its header.
LEMMA KmallocKeeps ==
  ASSUME NEW h, HeapInv(h), ~h.wiped, NEW size \in Sizes, Fits(h, size),
         ~Overruns(h, size)
  PROVE  /\ HeapInv(kmalloc(h, size)) /\ ~kmalloc(h, size).wiped
         /\ Kept(h, kmalloc(h, size))
         /\ kmalloc(h, size).blocks = h.blocks \cup {NewBlock(h, size)}
         /\ NewBlock(h, size) \notin h.blocks
<1> USE HeapAssumption
<1> DEFINE b == NewBlock(h, size)
           n == Aligned(size)
           k == kmalloc(h, size)
<1>1. /\ h \in Heaps /\ h.current \in HEAP_START..heap_end /\ h.current % SIZE_T = 0
      /\ h.mem \in [Words -> Sizes \cup {OLD, DEAD, DATA}]
      /\ h.blocks \subseteq Blocks /\ h.freed \subseteq h.blocks
  BY DEF HeapInv, Heaps
<1>2. /\ n \in 0..(WORD - SIZE_T) /\ n % SIZE_T = 0 /\ h.current + SIZE_T + n <= heap_end
      /\ (size <= HEAP_SIZE => size <= n)
  <2>1. n \in 0..(WORD - SIZE_T) /\ n % SIZE_T = 0 /\ (size + 3 < WORD => size <= n)
    BY AlignedBounds
  <2>2. size <= HEAP_SIZE => size + 3 < WORD
    BY DEF Sizes, heap_end, SIZE_T
  <2>3. ~(h.current + SIZE_T + n > heap_end)
    BY DEF Overruns
  <2> QED BY <1>1, <2>1, <2>2, <2>3 DEF heap_end, SIZE_T, Sizes
<1>3. TotalSize(size) = n + SIZE_T
  BY <1>1, <1>2, TotalSizeValue DEF SIZE_T, heap_end
<1>4. /\ (h.current + TotalSize(size)) % WORD = h.current + SIZE_T + n
      /\ h.current + SIZE_T + n \in HEAP_START..heap_end
      /\ (h.current + SIZE_T + n) % SIZE_T = 0
  <2>1. h.current + SIZE_T + n \in 0..(WORD - 1)
    BY <1>1, <1>2 DEF SIZE_T, heap_end
  <2>2. h.current + SIZE_T + n = h.current + TotalSize(size)
    BY <1>1, <1>2, <1>3 DEF SIZE_T, heap_end
  <2>3. (h.current + SIZE_T + n) % WORD = h.current + SIZE_T + n
    BY <2>1
  <2> QED BY <1>1, <1>2, <2>2, <2>3 DEF SIZE_T, heap_end
<1>5. k = [h EXCEPT !.current = h.current + SIZE_T + n,
                    !.mem = [a \in Words |-> IF a = h.current THEN n
                                             ELSE IF a \in Within(b) THEN ZERO
                                             ELSE h.mem[a]],
                    !.blocks = h.blocks \cup {b},
                    !.lost = h.lost \/ Hits(h, size)]
  BY <1>4 DEF kmalloc
<1> HIDE DEF k
<1>6. /\ k.current = h.current + SIZE_T + n /\ k.freed = h.freed /\ k.wiped = FALSE
      /\ k.blocks = h.blocks \cup {b}
      /\ k.lost = (h.lost \/ Hits(h, size))
      /\ k.mem = [a \in Words |-> IF a = h.current THEN n
                                  ELSE IF a \in Within(b) THEN ZERO ELSE h.mem[a]]
  BY <1>1, <1>5 DEF Heaps
<1>7. b = [ptr |-> h.current + SIZE_T, request |-> size, size |-> n] /\ b \in Blocks
  BY <1>1, <1>2 DEF NewBlock, Blocks, Sizes, SIZE_T, heap_end
<1> HIDE DEF b, n
<1>8. k \in Heaps
  <2>1. n \in Sizes /\ ZERO \in Sizes
    BY <1>2 DEF Sizes, ZERO, heap_end, SIZE_T
  <2>2. k.mem \in [Words -> Sizes \cup {OLD, DEAD, DATA}]
    BY <1>1, <1>6, <2>1
  <2>3. k.blocks \subseteq Blocks /\ k.freed \subseteq Blocks
    BY <1>1, <1>6, <1>7
  <2>4. k.current \in HEAP_START..heap_end
    BY <1>4, <1>6
  <2>5. k = [current |-> k.current, mem |-> k.mem, blocks |-> k.blocks,
             freed |-> k.freed, wiped |-> k.wiped, lost |-> k.lost]
    BY <1>1, <1>5 DEF Heaps
  <2>6. k.lost \in BOOLEAN
    BY <1>1, <1>6 DEF Heaps, Hits
  <2> QED BY <2>2, <2>3, <2>4, <2>5, <2>6, <1>6 DEF Heaps
<1>9. h.current \notin Within(b) /\ b.ptr - SIZE_T = h.current /\ h.current \in Words
  BY <1>1, <1>2, <1>7 DEF Within, Words, SIZE_T, heap_end
<1>10. \A c \in h.blocks :
         /\ c.ptr \in Nat /\ c.size \in Nat /\ c.ptr + c.size <= h.current
         /\ HEAP_START + SIZE_T <= c.ptr
  BY BlockPlace DEF HeapInv
<1>11. b \notin h.blocks
  BY <1>1, <1>7, <1>10 DEF SIZE_T, heap_end
<1>12. \A a \in Words : a < h.current => k.mem[a] = h.mem[a]
  BY <1>1, <1>6, <1>7 DEF Within, Words, SIZE_T, heap_end
<1>13. Kept(h, k)
  <2>1. \A c \in h.blocks : \A a \in Within(c) : k.mem[a] = h.mem[a]
    BY BlockPlace, <1>12
  <2> QED BY <2>1, <1>6 DEF Kept
<1>14. ASSUME NEW c \in k.blocks
       PROVE  /\ HEAP_START + SIZE_T <= c.ptr /\ c.ptr + c.size <= k.current
              /\ c.ptr % SIZE_T = 0
              /\ c.request <= HEAP_SIZE => c.size >= c.request
              /\ k.mem[c.ptr - SIZE_T] = c.size
              /\ \A d \in k.blocks : d = c \/ Apart(c, d)
  <2>1. CASE c = b
    <3>1. c.ptr % SIZE_T = 0
      BY <1>1, <1>7, <2>1 DEF SIZE_T, heap_end
    <3>2. k.mem[c.ptr - SIZE_T] = c.size
      BY <1>6, <1>7, <1>9, <2>1
    <3>3. \A d \in h.blocks : Apart(c, d)
      BY <1>1, <1>7, <1>10, <2>1 DEF Apart, SIZE_T, heap_end
    <3> QED BY <1>1, <1>2, <1>6, <1>7, <2>1, <3>1, <3>2, <3>3
            DEF Sizes, SIZE_T, heap_end
  <2>2. CASE c \in h.blocks
    <3>1. /\ HEAP_START + SIZE_T <= c.ptr /\ c.ptr + c.size <= h.current
          /\ c.ptr % SIZE_T = 0
          /\ c.request <= HEAP_SIZE => c.size >= c.request
          /\ h.mem[c.ptr - SIZE_T] = c.size
          /\ \A d \in h.blocks : d = c \/ Apart(c, d)
      BY <2>2 DEF HeapInv
    <3>2. k.mem[c.ptr - SIZE_T] = c.size
      BY <2>2, <3>1, <1>12, BlockPlace
    <3>3. Apart(c, b)
      BY <2>2, <1>1, <1>2, <1>7, <1>10 DEF Apart, SIZE_T, heap_end
    <3>4. c.ptr + c.size <= k.current
      BY <2>2, <1>1, <1>2, <1>6, <1>10 DEF SIZE_T, heap_end
    <3> QED BY <3>1, <3>2, <3>3, <3>4, <1>6
  <2> QED BY <2>1, <2>2, <1>6
<1>15. k.current % SIZE_T = 0 /\ k.freed \subseteq k.blocks
  BY <1>1, <1>4, <1>6
<1>17. ~k.lost => k.current <= USED_START
  <2>1. h.current \in Int /\ n \in Int /\ SIZE_T \in Int /\ USED_START \in Int
    BY <1>1, <1>2 DEF heap_end, SIZE_T
  <2>2. ~k.lost => ~(h.current + SIZE_T + n > USED_START)
    BY <1>6 DEF Hits, n
  <2> QED BY <1>6, <2>1, <2>2
<1>16. HeapInv(k)
  BY <1>6, <1>8, <1>14, <1>15, <1>17 DEF HeapInv
<1> QED BY <1>6, <1>11, <1>13, <1>16 DEF k, b

\* Memory that is overwritten only inside blocks leaves the heap in order.
LEMMA OverwriteKeeps ==
  ASSUME NEW h, HeapInv(h), ~h.wiped, NEW t \in Heaps,
         t.current = h.current, t.blocks = h.blocks, t.freed \subseteq h.blocks,
         t.wiped = h.wiped, t.lost = h.lost, NEW b \in h.blocks,
         \A a \in Words \ Within(b) : t.mem[a] = h.mem[a]
  PROVE  HeapInv(t)
<1>1. ASSUME NEW c \in t.blocks
      PROVE  /\ HEAP_START + SIZE_T <= c.ptr /\ c.ptr + c.size <= t.current
             /\ c.ptr % SIZE_T = 0
             /\ c.request <= HEAP_SIZE => c.size >= c.request
             /\ t.mem[c.ptr - SIZE_T] = c.size
             /\ \A d \in t.blocks : d = c \/ Apart(c, d)
  <2>1. c \in h.blocks /\ c.ptr - SIZE_T \in Words
    BY BlockPlace
  <2>2. c.ptr - SIZE_T \notin Within(b)
    BY <2>1, BlockPlace, ApartWords
  <2>3. t.mem[c.ptr - SIZE_T] = h.mem[c.ptr - SIZE_T]
    BY <2>1, <2>2
  <2> QED BY <2>1, <2>3 DEF HeapInv
<1>2. /\ t.current % SIZE_T = 0 /\ t.freed \subseteq t.blocks
      /\ ~t.lost => ~t.wiped /\ t.current <= USED_START
  BY DEF HeapInv
<1> QED BY <1>1, <1>2 DEF HeapInv

\* kfree of a block fills that block, marks it as freed and changes nothing else.
LEMMA KfreeKeeps ==
  ASSUME NEW h, HeapInv(h), ~h.wiped, NEW b \in h.blocks
  PROVE  /\ HeapInv(kfree(h, b)) /\ ~kfree(h, b).wiped
         /\ kfree(h, b).blocks = h.blocks /\ kfree(h, b).freed = h.freed \cup {b}
         /\ \A c \in h.blocks \ {b} : \A a \in Within(c) : kfree(h, b).mem[a] = h.mem[a]
<1> DEFINE t == kfree(h, b)
<1>1. h \in Heaps /\ Filled(h, b.ptr) = Within(b) /\ b \in Blocks
  BY BlockPlace DEF HeapInv, Heaps
<1>2. /\ t.current = h.current /\ t.blocks = h.blocks /\ t.freed = h.freed \cup {b}
      /\ t.wiped = h.wiped /\ t.lost = h.lost
      /\ t.mem = [a \in Words |-> IF a \in Within(b) THEN DEAD ELSE h.mem[a]]
      /\ t = [current |-> t.current, mem |-> t.mem, blocks |-> t.blocks,
              freed |-> t.freed, wiped |-> t.wiped, lost |-> t.lost]
  <2>1. t = [h EXCEPT !.mem = [a \in Words |-> IF a \in Within(b) THEN DEAD ELSE h.mem[a]],
                      !.freed = h.freed \cup {b}]
    BY <1>1 DEF kfree
  <2> HIDE DEF t
  <2> QED BY <1>1, <2>1 DEF Heaps
<1> HIDE DEF t
<1>3. t \in Heaps
  <2>1. t.mem \in [Words -> Sizes \cup {OLD, DEAD, DATA}]
    BY <1>1, <1>2 DEF Heaps
  <2>2. t.current \in HEAP_START..heap_end /\ t.wiped \in BOOLEAN
        /\ t.lost \in BOOLEAN /\ t.blocks \subseteq Blocks /\ t.freed \subseteq Blocks
    BY <1>1, <1>2 DEF Heaps
  <2> QED BY <1>2, <2>1, <2>2 DEF Heaps
<1>4. t.freed \subseteq h.blocks
  BY <1>2 DEF HeapInv
<1>5. \A a \in Words \ Within(b) : t.mem[a] = h.mem[a]
  BY <1>2
<1>6. HeapInv(t)
  BY <1>2, <1>3, <1>4, <1>5, OverwriteKeeps
<1>7. \A c \in h.blocks \ {b} : \A a \in Within(c) : t.mem[a] = h.mem[a]
  BY <1>5, ApartWords, BlockPlace
<1> QED BY <1>2, <1>6, <1>7 DEF t

\* A write to a block changes that block only.
LEMMA UseKeeps ==
  ASSUME NEW h, HeapInv(h), ~h.wiped, NEW b \in h.blocks
  PROVE  /\ HeapInv(Use(h, b)) /\ ~Use(h, b).wiped
         /\ Use(h, b).blocks = h.blocks /\ Use(h, b).freed = h.freed
         /\ \A a \in Words : Use(h, b).mem[a] = IF a \in Within(b) THEN DATA ELSE h.mem[a]
<1> DEFINE t == Use(h, b)
<1>1. h \in Heaps
  BY DEF HeapInv
<1>2. /\ t.current = h.current /\ t.blocks = h.blocks /\ t.freed = h.freed
      /\ t.wiped = h.wiped /\ t.lost = h.lost
      /\ t.mem = [a \in Words |-> IF a \in Within(b) THEN DATA ELSE h.mem[a]]
      /\ t = [current |-> t.current, mem |-> t.mem, blocks |-> t.blocks,
              freed |-> t.freed, wiped |-> t.wiped, lost |-> t.lost]
  BY <1>1 DEF Use, Heaps
<1> HIDE DEF t
<1>3. t \in Heaps
  <2>1. t.mem \in [Words -> Sizes \cup {OLD, DEAD, DATA}]
    BY <1>1, <1>2 DEF Heaps
  <2> QED BY <1>1, <1>2, <2>1 DEF Heaps
<1>4. t.freed \subseteq h.blocks
  BY <1>2 DEF HeapInv
<1>5. \A a \in Words \ Within(b) : t.mem[a] = h.mem[a]
  BY <1>2
<1>6. HeapInv(t)
  BY <1>2, <1>3, <1>4, <1>5, OverwriteKeeps
<1> QED BY <1>2, <1>6 DEF t

\* A request that wraps around changes no word of the heap.
LEMMA WipeKeeps ==
  ASSUME NEW h, HeapInv(h), NEW size \in Sizes, Overruns(h, size)
  PROVE  /\ HeapInv(kmalloc(h, size)) /\ kmalloc(h, size).wiped
         /\ h.blocks \subseteq kmalloc(h, size).blocks
         /\ kmalloc(h, size).freed = h.freed /\ kmalloc(h, size).mem = h.mem
<1>1. h \in Heaps /\ h.current \in HEAP_START..heap_end /\ Aligned(size) \in Sizes
  BY AlignedBounds, HeapAssumption DEF HeapInv, Heaps, Sizes, SIZE_T
<1>2. NewBlock(h, size) \in Blocks
  BY <1>1, HeapAssumption DEF NewBlock, Blocks, SIZE_T, heap_end
<1>3. kmalloc(h, size) = [h EXCEPT !.wiped = TRUE, !.lost = TRUE,
                                    !.blocks = @ \cup {NewBlock(h, size)}]
  BY DEF kmalloc
<1>4. kmalloc(h, size) \in Heaps
  BY <1>1, <1>2, <1>3 DEF Heaps
<1> QED BY <1>1, <1>3, <1>4 DEF HeapInv, Heaps

\* memory_init leaves an empty heap in order.
LEMMA InitKeeps == HeapInv(memory_init) /\ ~memory_init.wiped
<1>1. memory_init \in Heaps
  BY HeapAssumption DEF memory_init, Heaps, Sizes, heap_end, SIZE_T
<1> QED BY <1>1, HeapAssumption DEF memory_init, HeapInv, SIZE_T
===============================================================================
