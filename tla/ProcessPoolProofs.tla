-------------------------- MODULE ProcessPoolProofs --------------------------
(***************************************************************************)
(* The safety properties of ProcessPool, for any number of processes, any  *)
(* table, any stack size that the heap can hold and any other requests.    *)
(***************************************************************************)
EXTENDS ProcessPool, HeapProofs, ReadyQueueProofs

\* The pid of a PCB of the pool is a place in the table, and no other PCB has it.
LEMMA PidRange ==
  ASSUME NEW p \in FIRST..STATIC_PROCESSES
  PROVE  /\ p \in Slots /\ p \in Ptr /\ PidOf(p) \in Pids
         /\ \A q \in FIRST..STATIC_PROCESSES : PidOf(p) = PidOf(q) => p = q
BY PoolAssumption, StaticProcessesAssumption DEF FIRST, POOL, PidOf, Pids, Slots, Ptr, NULL

\* What a step may do to the system: no live block of before loses a word that
\* its owner wrote, as long as it is live.
KeepsData(s, t) ==
  \A b \in Live(s) \cap Live(t), a \in Words :
    (a \in Within(b) /\ s.mem[a] = DATA) => t.mem[a] = DATA

\* process_create keeps the system in order, and every word of every block.
LEMMA CreateKeeps ==
  ASSUME NEW s, SystemInv(s), ~s.heap.wiped
  PROVE  /\ SystemInv(process_create(s)) /\ ~process_create(s).heap.wiped
         /\ Kept(s.heap, process_create(s).heap)
<1> USE PoolAssumption
<1>1. CASE s.count = POOL \/ ~Fits(s.heap, STACK_SIZE)
  <2>1. process_create(s) = s
    BY <1>1 DEF process_create
  <2> QED BY <2>1 DEF Kept
<1>2. CASE ~(s.count = POOL \/ ~Fits(s.heap, STACK_SIZE))
  <2> DEFINE p == NewPCB(s)
             b == NewBlock(s.heap, STACK_SIZE)
             t == process_create(s)
  <2>1. /\ s \in Systems /\ HeapInv(s.heap)
        /\ s.count \in 0..POOL /\ s.count # POOL /\ Fits(s.heap, STACK_SIZE)
        /\ STACK_SIZE \in Sizes /\ STACK_SIZE <= HEAP_SIZE
    BY <1>2, HeapAssumption DEF SystemInv, Systems, Sizes, heap_end
  <2>2. p \in FIRST..STATIC_PROCESSES
    BY <2>1, StaticProcessesAssumption DEF NewPCB, FIRST, POOL
  <2>3. ~Overruns(s.heap, STACK_SIZE)
    BY <2>1, SaneFits
  <2>4. /\ HeapInv(kmalloc(s.heap, STACK_SIZE)) /\ ~kmalloc(s.heap, STACK_SIZE).wiped
        /\ Kept(s.heap, kmalloc(s.heap, STACK_SIZE))
        /\ kmalloc(s.heap, STACK_SIZE).blocks = s.heap.blocks \cup {b}
        /\ b \notin s.heap.blocks
    BY <2>1, <2>3, KmallocKeeps
  <2>5. t = [s EXCEPT !.heap  = kmalloc(s.heap, STACK_SIZE),
                      !.table = [s.table EXCEPT ![PidOf(p)] = p],
                      !.stack = [s.stack EXCEPT ![p] = b],
                      !.count = s.count + 1]
    BY <1>2 DEF process_create
  <2> HIDE DEF t
  <2>6. /\ t.heap = kmalloc(s.heap, STACK_SIZE)
        /\ t.table = [s.table EXCEPT ![PidOf(p)] = p]
        /\ t.stack = [s.stack EXCEPT ![p] = b]
        /\ t.count = s.count + 1
        /\ t = [heap |-> t.heap, table |-> t.table, count |-> t.count, stack |-> t.stack]
    BY <2>1, <2>5 DEF Systems
  <2>7. /\ s.table \in [Pids -> Ptr]
        /\ s.stack \in [FIRST..STATIC_PROCESSES -> Blocks]
    BY <2>1 DEF Systems
  <2>8. t.heap \in Heaps /\ b \in Blocks
    BY <2>4, <2>6 DEF HeapInv, Heaps
  <2>9. t.table \in [Pids -> Ptr] /\ t.stack \in [FIRST..STATIC_PROCESSES -> Blocks]
    BY <2>2, <2>6, <2>7, <2>8, PidRange
  <2>10. t.count \in 0..POOL /\ NewPCB(t) = p + 1
    BY <2>1, <2>6, StaticProcessesAssumption DEF POOL, NewPCB, FIRST
  <2>11. t \in Systems
    BY <2>6, <2>8, <2>9, <2>10 DEF Systems
  <2>12. /\ \A q \in FIRST..STATIC_PROCESSES :
              q # p => t.stack[q] = s.stack[q]
         /\ t.stack[p] = b
         /\ t.heap.blocks = s.heap.blocks \cup {b}
    BY <2>2, <2>4, <2>6, <2>7
  <2>13. /\ \A q \in FIRST..STATIC_PROCESSES :
              s.stack[q] \in (IF q < p THEN s.heap.blocks ELSE {NoBlock})
         /\ \A q, r \in FIRST..(p - 1) : s.stack[q] = s.stack[r] => q = r
    BY DEF SystemInv
  <2>14. p \in Int /\ STATIC_PROCESSES \in Int
    BY <2>2, StaticProcessesAssumption DEF FIRST
  <2>15. \A q \in FIRST..STATIC_PROCESSES :
           t.stack[q] \in (IF q < p + 1 THEN t.heap.blocks ELSE {NoBlock})
    BY <2>2, <2>12, <2>13, <2>14
  <2>16. \A q, r \in FIRST..p : t.stack[q] = t.stack[r] => q = r
    <3> SUFFICES ASSUME NEW q \in FIRST..p, NEW r \in FIRST..p, t.stack[q] = t.stack[r]
                 PROVE  q = r
      OBVIOUS
    <3>1. /\ q # p => q \in FIRST..(p - 1) /\ t.stack[q] \in s.heap.blocks
          /\ r # p => r \in FIRST..(p - 1) /\ t.stack[r] \in s.heap.blocks
      BY <2>2, <2>12, <2>13, <2>14 DEF FIRST
    <3>2. q \in FIRST..STATIC_PROCESSES /\ r \in FIRST..STATIC_PROCESSES
      BY <2>2, <2>14 DEF FIRST
    <3> QED BY <2>4, <2>12, <2>13, <3>1, <3>2
  <2>17. t.heap.freed = s.heap.freed /\ s.heap.freed \subseteq s.heap.blocks
    BY <2>1, <2>4, <2>6 DEF Kept, HeapInv
  <2>18. Live(s.heap) \subseteq Live(t.heap) /\ b \in Live(t.heap)
    BY <2>4, <2>12, <2>17 DEF Live
  <2>19. ASSUME NEW i \in Pids, t.table[i] >= FIRST
         PROVE  /\ t.table[i] < p + 1 /\ PidOf(t.table[i]) = i
                /\ t.stack[t.table[i]] \in Live(t.heap)
    <3>1. CASE i = PidOf(p)
      BY <2>6, <2>7, <2>12, <2>14, <2>18, <3>1
    <3>2. CASE i # PidOf(p)
      <4>1. t.table[i] = s.table[i]
        BY <2>6, <2>7, <3>2
      <4>2. /\ s.table[i] < p /\ PidOf(s.table[i]) = i
            /\ s.stack[s.table[i]] \in Live(s.heap)
        BY <2>19, <4>1 DEF SystemInv
      <4>3. s.table[i] \in FIRST..STATIC_PROCESSES /\ s.table[i] # p
        BY <2>7, <2>14, <2>19, <4>1, <4>2 DEF Ptr, Slots, NULL, FIRST
      <4> QED BY <2>12, <2>14, <2>18, <4>1, <4>2, <4>3 DEF FIRST
    <3> QED BY <3>1, <3>2
  <2>20. SystemInv(t)
    <3>1. HeapInv(t.heap)
      BY <2>4, <2>6
    <3>2. NewPCB(t) - 1 = p
      BY <2>10, <2>14
    <3> HIDE DEF p
    <3> QED BY <2>10, <2>11, <2>15, <2>16, <2>19, <3>1, <3>2 DEF SystemInv
  <2> QED BY <2>4, <2>6, <2>20 DEF t
<1> QED BY <1>1, <1>2

\* A step that keeps every word of every block keeps what the owners wrote.
LEMMA KeptData ==
  ASSUME NEW s, NEW t, Kept(s, t)
  PROVE  KeepsData(s, t)
BY DEF Kept, KeepsData, Live

\* Two steps that keep every word make one that does.
LEMMA KeptTransitive ==
  ASSUME NEW s, NEW t, NEW u, Kept(s, t), Kept(t, u)
  PROVE  Kept(s, u)
BY DEF Kept

\* A system is in order if it has lost processes only, and its heap is in order
\* with all the blocks it had, and with the stacks of the processes left.
LEMMA OtherSystem ==
  ASSUME NEW s, SystemInv(s), NEW t \in Systems, HeapInv(t.heap),
         t.stack = s.stack, t.count = s.count, s.heap.blocks \subseteq t.heap.blocks,
         \A i \in Pids : t.table[i] >= FIRST =>
           t.table[i] = s.table[i] /\ s.stack[s.table[i]] \in Live(t.heap)
  PROVE  SystemInv(t)
<1>1. NewPCB(t) = NewPCB(s)
  BY DEF NewPCB
<1>2. \A p \in FIRST..STATIC_PROCESSES :
        t.stack[p] \in (IF p < NewPCB(t) THEN t.heap.blocks ELSE {NoBlock})
  <2>1. \A p \in FIRST..STATIC_PROCESSES :
          s.stack[p] \in (IF p < NewPCB(s) THEN s.heap.blocks ELSE {NoBlock})
    BY DEF SystemInv
  <2> QED BY <1>1, <2>1
<1>3. \A p, q \in FIRST..(NewPCB(t) - 1) : t.stack[p] = t.stack[q] => p = q
  BY <1>1 DEF SystemInv
<1>4. \A i \in Pids : t.table[i] >= FIRST =>
        /\ t.table[i] < NewPCB(t) /\ PidOf(t.table[i]) = i
        /\ t.stack[t.table[i]] \in Live(t.heap)
  BY <1>1 DEF SystemInv
<1> QED BY <1>2, <1>3, <1>4 DEF SystemInv

\* The fields of a system whose heap is another one.
LEMMA OtherHeap ==
  ASSUME NEW s \in Systems, NEW h \in Heaps, NEW t, t = [s EXCEPT !.heap = h]
  PROVE  /\ t \in Systems /\ t.heap = h /\ t.table = s.table /\ t.stack = s.stack
         /\ t.count = s.count
BY DEF Systems

\* The processes that the demo programs create.
LEMMA PoolStep ==
  ASSUME IInv, ~sys.heap.wiped, Create \/ create_demo_processes \/ process_stress_test
  PROVE  IInv' /\ ~sys'.heap.wiped /\ Kept(sys.heap, sys'.heap)
<1> DEFINE s == process_create(sys)
           t == process_create(s)
           u == process_create(t)
<1>1. SystemInv(s) /\ ~s.heap.wiped /\ Kept(sys.heap, s.heap)
  BY CreateKeeps DEF IInv
<1>2. SystemInv(t) /\ ~t.heap.wiped /\ Kept(s.heap, t.heap)
  BY <1>1, CreateKeeps
<1>3. SystemInv(u) /\ ~u.heap.wiped /\ Kept(t.heap, u.heap)
  BY <1>2, CreateKeeps
<1> HIDE DEF s, t, u
<1>4. sys' \in {sys, s, t, u} /\ UNCHANGED <<rq, next_pid>>
  BY DEF Create, create_demo_processes, process_stress_test, s, t, u
<1>5. Kept(sys.heap, t.heap) /\ Kept(sys.heap, u.heap) /\ Kept(sys.heap, sys.heap)
  <2>1. Kept(sys.heap, t.heap)
    BY <1>1, <1>2, KeptTransitive
  <2>2. Kept(sys.heap, u.heap)
    BY <2>1, <1>3, KeptTransitive
  <2> QED BY <2>1, <2>2 DEF Kept
<1> QED BY <1>1, <1>2, <1>3, <1>4, <1>5 DEF IInv

\* process_destroy frees the stack of a process that was in the table, and takes
\* it out of the table.
LEMMA DestroyStep ==
  ASSUME IInv, ~sys.heap.wiped, Destroy
  PROVE  IInv' /\ ~sys'.heap.wiped /\ KeepsData(sys.heap, sys'.heap)
<1>1. PICK i \in Pids : sys.table[i] >= FIRST /\ process_destroy(sys.table[i])
  BY DEF Destroy
<1> DEFINE p == sys.table[i]
           b == sys.stack[p]
           h == kfree(sys.heap, b)
<1>2. /\ SystemInv(sys) /\ HeapInv(sys.heap) /\ sys \in Systems
      /\ p < NewPCB(sys) /\ PidOf(p) = i /\ b \in Live(sys.heap)
      /\ sys.count \in 0..POOL /\ sys.table \in [Pids -> Ptr]
  BY <1>1 DEF IInv, SystemInv, Systems
<1>3. /\ sys' = [sys EXCEPT !.heap = h, !.table = [sys.table EXCEPT ![i] = NULL]]
      /\ rq' = remove_from_ready_queue(rq, p)
      /\ next_pid' = next_pid
  BY <1>1, <1>2 DEF process_destroy
<1>4. /\ HeapInv(h) /\ ~h.wiped /\ h.blocks = sys.heap.blocks
      /\ h.freed = sys.heap.freed \cup {b}
      /\ \A c \in sys.heap.blocks \ {b} : \A a \in Within(c) : h.mem[a] = sys.heap.mem[a]
  BY <1>2, KfreeKeeps DEF Live
<1> HIDE DEF h
<1>5. p \in FIRST..(NewPCB(sys) - 1) /\ p \in Slots
  BY <1>1, <1>2, StaticProcessesAssumption DEF Ptr, Slots, NULL, FIRST, NewPCB, POOL
<1>6. \A k \in Pids \ {i} : sys.table[k] >= FIRST => sys.stack[sys.table[k]] \in Live(h)
  <2> SUFFICES ASSUME NEW k \in Pids, k # i, sys.table[k] >= FIRST
               PROVE  sys.stack[sys.table[k]] \in Live(h)
    OBVIOUS
  <2>1. /\ sys.table[k] < NewPCB(sys) /\ PidOf(sys.table[k]) = k
        /\ sys.stack[sys.table[k]] \in Live(sys.heap)
    BY <1>2 DEF SystemInv
  <2>2. sys.table[k] # p
    BY <1>2, <2>1
  <2>3. sys.table[k] \in FIRST..(NewPCB(sys) - 1)
    BY <1>2, <2>1, StaticProcessesAssumption DEF Ptr, Slots, NULL, FIRST, NewPCB, POOL
  <2>4. sys.stack[sys.table[k]] # b
    BY <1>2, <1>5, <2>2, <2>3 DEF SystemInv
  <2> QED BY <1>4, <2>1, <2>4 DEF Live
<1>7. SystemInv(sys') /\ sys'.heap = h
  <2>1. /\ sys' \in Systems /\ sys'.heap = h /\ sys'.stack = sys.stack
        /\ sys'.count = sys.count /\ sys'.table = [sys.table EXCEPT ![i] = NULL]
    BY <1>2, <1>3, <1>4 DEF Systems, HeapInv, Ptr
  <2>2. \A k \in Pids : sys'.table[k] >= FIRST => k # i /\ sys'.table[k] = sys.table[k]
    BY <1>2, <2>1 DEF NULL, FIRST
  <2>3. \A k \in Pids : sys'.table[k] >= FIRST =>
          sys'.table[k] = sys.table[k] /\ sys.stack[sys.table[k]] \in Live(sys'.heap)
    BY <1>6, <2>1, <2>2
  <2>4. sys.heap.blocks \subseteq sys'.heap.blocks
    BY <1>4, <2>1
  <2> QED BY <1>2, <1>4, <2>1, <2>3, <2>4, OtherSystem
<1>8. rq' \in Queue
  BY <1>3, <1>5, RemoveType DEF IInv
<1>9. KeepsData(sys.heap, h)
  BY <1>4 DEF KeepsData, Live
<1> QED BY <1>3, <1>4, <1>7, <1>8, <1>9 DEF IInv

\* The other callers of kmalloc: only a request that is not sane writes outside
\* the heap.
LEMMA AllocateStep ==
  ASSUME IInv, ~sys.heap.wiped, NEW size \in Requests, Allocate(size)
  PROVE  /\ IInv' /\ KeepsData(sys.heap, sys'.heap)
         /\ Sane(size) => ~sys'.heap.wiped
<1>1. /\ SystemInv(sys) /\ HeapInv(sys.heap) /\ size \in Sizes
      /\ \A i \in Pids : sys.table[i] >= FIRST =>
           sys.stack[sys.table[i]] \in Live(sys.heap)
  BY PoolAssumption DEF IInv, SystemInv
<1>2. UNCHANGED <<rq, next_pid>>
  BY DEF Allocate
<1>3. CASE ~Fits(sys.heap, size)
  <2>1. sys' = sys
    BY <1>3 DEF Allocate
  <2> QED BY <1>2, <2>1 DEF IInv, KeepsData
<1>4. CASE Fits(sys.heap, size)
  <2> DEFINE h == kmalloc(sys.heap, size)
  <2>1. sys' = [sys EXCEPT !.heap = h]
    BY <1>4 DEF Allocate
  <2>2. CASE ~Overruns(sys.heap, size)
    <3>1. HeapInv(h) /\ ~h.wiped /\ Kept(sys.heap, h)
      BY <1>1, <1>4, <2>2, KmallocKeeps
    <3> HIDE DEF h
    <3>2. sys.heap.blocks \subseteq h.blocks /\ Live(sys.heap) \subseteq Live(h)
      BY <3>1 DEF Kept, Live
    <3>3. SystemInv(sys') /\ sys'.heap = h
      <4>1. /\ sys' \in Systems /\ sys'.heap = h /\ sys'.table = sys.table
            /\ sys'.stack = sys.stack /\ sys'.count = sys.count
        BY <1>1, <2>1, <3>1, OtherHeap DEF SystemInv, HeapInv
      <4> QED BY <1>1, <3>1, <3>2, <4>1, OtherSystem
    <3> QED BY <1>2, <3>1, <3>3, KeptData DEF IInv
  <2>3. CASE Overruns(sys.heap, size)
    <3>1. /\ HeapInv(h) /\ sys.heap.blocks \subseteq h.blocks /\ h.freed = sys.heap.freed
          /\ h.mem = sys.heap.mem
      BY <1>1, <2>3, WipeKeeps
    <3>2. ~Sane(size)
      BY <1>1, <1>4, <2>3, SaneFits DEF Sane
    <3> HIDE DEF h
    <3>3. Live(sys.heap) \subseteq Live(h) /\ KeepsData(sys.heap, h)
      BY <3>1 DEF Live, KeepsData
    <3>4. SystemInv(sys') /\ sys'.heap = h
      <4>1. /\ sys' \in Systems /\ sys'.heap = h /\ sys'.table = sys.table
            /\ sys'.stack = sys.stack /\ sys'.count = sys.count
        BY <1>1, <2>1, <3>1, OtherHeap DEF SystemInv, HeapInv
      <4> QED BY <1>1, <3>1, <3>3, <4>1, OtherSystem
    <3> QED BY <1>2, <3>2, <3>3, <3>4 DEF IInv
  <2> QED BY <2>2, <2>3
<1> QED BY <1>3, <1>4

\* Another block than a stack is freed.
LEMMA ReleaseStep ==
  ASSUME IInv, ~sys.heap.wiped, NEW b \in Others, Release(b)
  PROVE  IInv' /\ ~sys'.heap.wiped /\ KeepsData(sys.heap, sys'.heap)
<1> DEFINE h == kfree(sys.heap, b)
<1>1. SystemInv(sys) /\ HeapInv(sys.heap) /\ b \in Live(sys.heap) /\ b \notin Stacks
  BY DEF IInv, SystemInv, Others
<1>2. sys' = [sys EXCEPT !.heap = h] /\ UNCHANGED <<rq, next_pid>>
  BY DEF Release
<1>3. /\ HeapInv(h) /\ ~h.wiped /\ h.blocks = sys.heap.blocks
      /\ h.freed = sys.heap.freed \cup {b}
      /\ \A c \in sys.heap.blocks \ {b} : \A a \in Within(c) : h.mem[a] = sys.heap.mem[a]
  BY <1>1, KfreeKeeps DEF Live
<1> HIDE DEF h
<1>4. ASSUME NEW i \in Pids, sys.table[i] >= FIRST
      PROVE  sys.stack[sys.table[i]] \in Live(h)
  <2>1. /\ sys.stack[sys.table[i]] \in Live(sys.heap) /\ sys.table[i] < NewPCB(sys)
        /\ sys.table[i] \in Ptr /\ sys.count \in 0..POOL
    BY <1>1, <1>4 DEF SystemInv, Systems
  <2>2. sys.table[i] \in FIRST..STATIC_PROCESSES
    BY <1>4, <2>1, StaticProcessesAssumption DEF Ptr, Slots, NULL, FIRST
  <2>3. sys.stack[sys.table[i]] # b
    BY <1>1, <2>2 DEF Stacks
  <2> QED BY <1>3, <2>1, <2>3 DEF Live
<1>5. SystemInv(sys') /\ sys'.heap = h
  <2>1. /\ sys' \in Systems /\ sys'.heap = h /\ sys'.table = sys.table
        /\ sys'.stack = sys.stack /\ sys'.count = sys.count
    BY <1>1, <1>2, <1>3, OtherHeap DEF SystemInv, HeapInv
  <2> QED BY <1>1, <1>3, <1>4, <2>1, OtherSystem
<1>6. KeepsData(sys.heap, h)
  BY <1>3 DEF KeepsData, Live
<1> QED BY <1>2, <1>3, <1>5, <1>6 DEF IInv

\* The owner of a block writes to it.
LEMMA WriteStep ==
  ASSUME IInv, ~sys.heap.wiped, NEW b \in Live(sys.heap), Write(b)
  PROVE  IInv' /\ ~sys'.heap.wiped /\ KeepsData(sys.heap, sys'.heap)
<1> DEFINE h == Use(sys.heap, b)
<1>1. SystemInv(sys) /\ HeapInv(sys.heap) /\ b \in sys.heap.blocks
  BY DEF IInv, SystemInv, Live
<1>2. sys' = [sys EXCEPT !.heap = h] /\ UNCHANGED <<rq, next_pid>>
  BY DEF Write
<1>3. /\ HeapInv(h) /\ ~h.wiped /\ h.blocks = sys.heap.blocks /\ h.freed = sys.heap.freed
      /\ \A a \in Words : h.mem[a] = IF a \in Within(b) THEN DATA ELSE sys.heap.mem[a]
  BY <1>1, UseKeeps
<1> HIDE DEF h
<1>4. \A i \in Pids : sys.table[i] >= FIRST => sys.stack[sys.table[i]] \in Live(h)
  BY <1>1, <1>3 DEF SystemInv, Live
<1>5. SystemInv(sys') /\ sys'.heap = h
  <2>1. /\ sys' \in Systems /\ sys'.heap = h /\ sys'.table = sys.table
        /\ sys'.stack = sys.stack /\ sys'.count = sys.count
    BY <1>1, <1>2, <1>3, OtherHeap DEF SystemInv, HeapInv
  <2> QED BY <1>1, <1>3, <1>4, <2>1, OtherSystem
<1>6. KeepsData(sys.heap, h)
  BY <1>3 DEF KeepsData
<1> QED BY <1>2, <1>3, <1>5, <1>6 DEF IInv

\* The choice of a pid touches neither the heap nor the processes.
LEMMA PidStep ==
  ASSUME IInv, process_allocate_pid
  PROVE  IInv' /\ sys' = sys
<1>1. next_pid' \in 1..MAX_PROCESSES
  BY PoolAssumption DEF process_allocate_pid, IInv, NextIsFree, Free, Pids
<1> QED BY <1>1 DEF process_allocate_pid, IInv

\* The first state is in order.
LEMMA InitInv == Init => IInv /\ ~sys.heap.wiped
<1> SUFFICES ASSUME Init PROVE IInv /\ ~sys.heap.wiped
  OBVIOUS
<1>1. /\ sys.heap = memory_init /\ sys.count = 0
      /\ sys.table = [i \in Pids |-> IF i \in {1, 2} THEN i ELSE NULL]
      /\ sys.stack = [p \in FIRST..STATIC_PROCESSES |-> NoBlock]
      /\ sys = [heap |-> sys.heap, table |-> sys.table, count |-> sys.count,
                stack |-> sys.stack]
  BY DEF Init
<1>2. HeapInv(sys.heap) /\ ~sys.heap.wiped
  BY <1>1, InitKeeps
<1>3. NoBlock \in Blocks
  BY HeapAssumption DEF NoBlock, Blocks, Sizes, heap_end, SIZE_T
<1>4. 1 \in Ptr /\ 2 \in Ptr /\ NULL \in Ptr /\ 0 \in 0..POOL /\ 2 \in Slots
  BY StaticProcessesAssumption, PoolAssumption DEF Ptr, Slots, FIRST, POOL
<1>5. sys \in Systems
  BY <1>1, <1>2, <1>3, <1>4 DEF Systems, HeapInv
<1>6. NewPCB(sys) = FIRST
  BY <1>1 DEF NewPCB, FIRST
<1>7. \A i \in Pids : ~(sys.table[i] >= FIRST)
  BY <1>1 DEF NULL, FIRST
<1>8. \A p \in FIRST..STATIC_PROCESSES : sys.stack[p] = NoBlock /\ ~(p < FIRST)
  BY <1>1 DEF FIRST
<1>9. SystemInv(sys)
  BY <1>2, <1>5, <1>6, <1>7, <1>8 DEF SystemInv, FIRST
<1>10. EmptyQueue \in Queue
  BY DEF EmptyQueue, Queue, Ptr
<1>11. rq \in Queue
  BY <1>4, <1>10, AddType DEF Init
<1> QED BY <1>2, <1>9, <1>11, PoolAssumption DEF Init, IInv, Pids

\* One step: the invariant, what it does to the blocks, and what it takes to write
\* outside the heap.
LEMMA NextStep ==
  ASSUME IInv, Next
  PROVE  /\ IInv' /\ KeepsData(sys.heap, sys'.heap)
         /\ sys'.heap.wiped => \E size \in Requests : ~Sane(size) /\ Allocate(size)
<1>1. ~sys.heap.wiped
  BY DEF Next, IInv, SystemInv, HeapInv
<1>2. CASE Create \/ create_demo_processes \/ process_stress_test
  BY <1>1, <1>2, PoolStep, KeptData
<1>3. CASE Destroy
  BY <1>1, <1>3, DestroyStep
<1>4. CASE process_allocate_pid
  BY <1>1, <1>4, PidStep DEF KeepsData
<1>5. CASE \E size \in Requests : Allocate(size)
  BY <1>1, <1>5, AllocateStep
<1>6. CASE \E b \in Others : Release(b)
  BY <1>1, <1>6, ReleaseStep
<1>7. CASE \E b \in Live(sys.heap) : Write(b)
  BY <1>1, <1>7, WriteStep
<1> QED BY <1>2, <1>3, <1>4, <1>5, <1>6, <1>7 DEF Next

\* The invariant is inductive, hence holds in every reachable state.
THEOREM InductiveInvariant == Spec => []IInv
<1>1. IInv /\ UNCHANGED vars => IInv'
  BY DEF IInv, vars
<1>2. IInv /\ [Next]_vars => IInv'
  BY <1>1, NextStep
<1> QED BY InitInv, <1>2, PTL DEF Spec

\* Every variable keeps its type: in particular process_create never hands out an
\* eleventh PCB, and no step of demos and destructions in any order makes it.
THEOREM TypeCorrect == Spec => []TypeOK
<1>1. IInv => TypeOK
  BY DEF IInv, SystemInv, TypeOK
<1> QED BY <1>1, InductiveInvariant, PTL

\* While the kernel is whole, blocks share no byte with each other or with what it
\* runs on, and have the size that was asked for.
THEOREM BlocksDisjoint == Spec => []BlocksApart
<1>1. IInv => BlocksApart
  BY DEF IInv, SystemInv, HeapInv, BlocksApart, Sane
<1> QED BY <1>1, InductiveInvariant, PTL

\* While the kernel is whole, a process that can be looked up has a stack that was
\* not freed.
THEOREM FoundWithStack == Spec => []FoundHasStack
<1>1. IInv => FoundHasStack
  BY DEF IInv, SystemInv, FoundHasStack
<1> QED BY <1>1, InductiveInvariant, PTL

\* Only a request that wraps around makes kmalloc write outside the heap.
THEOREM SaneInside == Spec => SaneRequestsStayInside
<1>1. IInv /\ [Next]_vars =>
        [sys'.heap.wiped => \E size \in Requests : ~Sane(size) /\ Allocate(size)]_vars
  BY NextStep
<1> QED BY <1>1, InductiveInvariant, PTL DEF Spec, SaneRequestsStayInside

\* While the kernel is whole, what the owner of a block wrote stays until the block
\* is freed.
THEOREM OwnersDataKept == Spec => DataKept
<1>1. IInv /\ [Next]_vars =>
        [~sys'.heap.lost =>
           \A b \in Live(sys.heap) \cap Live(sys'.heap), a \in Words :
             (a \in Within(b) /\ sys.heap.mem[a] = DATA) => sys'.heap.mem[a] = DATA]_vars
  BY NextStep DEF KeepsData
<1> QED BY <1>1, InductiveInvariant, PTL DEF Spec, DataKept
===============================================================================
