------------------------------ MODULE ProcessPool ------------------------------
(***************************************************************************)
(* The heap and its client: the processes whose stacks are heap blocks     *)
(* (process_create and process_destroy, proc/process.c), the demo programs *)
(* that create them, and process_allocate_pid.  These routines are in the  *)
(* kernel image beside the ones ProcessManager models, and share its table *)
(* and ready queue, but not its PCBs: their pids start at 1 again.         *)
(*                                                                         *)
(* PCBs 1 and 2 are process_create_test's: the kernel process, and a child *)
(* that waits in the ready queue.  PCB FIRST - 1 + n is the n-th that      *)
(* process_create hands out.                                               *)
(***************************************************************************)
EXTENDS Heap, ReadyQueue, FiniteSets

CONSTANTS
  MAX_PROCESSES,    \* length of process_table
  STACK_SIZE,       \* what process_create asks kmalloc for
  Requests,         \* sizes that other callers ask for
  MAX_BLOCKS        \* bound on the blocks those hold

FIRST == 3
POOL  == STATIC_PROCESSES - 2      \* process_create's own ten PCBs

ASSUME PoolAssumption ==
  /\ STATIC_PROCESSES >= FIRST
  /\ MAX_PROCESSES \in Nat /\ POOL < MAX_PROCESSES /\ MAX_PROCESSES > 2
  /\ STACK_SIZE \in 1..HEAP_SIZE
  /\ Requests \subseteq Sizes /\ MAX_BLOCKS \in Nat

Pids == 0..(MAX_PROCESSES - 1)
NoBlock == [ptr |-> 0, request |-> 0, size |-> 0]

VARIABLES
  sys,         \* [heap, table, count, stack]: what process_create works on
  rq,          \* the ready queue
  next_pid     \* static uint32_t next_pid

vars == <<sys, rq, next_pid>>

Systems == [heap  : Heaps,
            table : [Pids -> Ptr],
            count : 0..POOL,
            stack : [FIRST..STATIC_PROCESSES -> Blocks]]

TypeOK ==
  /\ sys \in Systems
  /\ \A p \in FIRST..STATIC_PROCESSES : sys.stack[p] \in sys.heap.blocks \cup {NoBlock}
  /\ rq \in Queue
  /\ next_pid \in 1..MAX_PROCESSES

Init ==
  /\ sys = [heap  |-> memory_init,
            table |-> [i \in Pids |-> IF i \in {1, 2} THEN i ELSE NULL],
            count |-> 0,
            stack |-> [p \in FIRST..STATIC_PROCESSES |-> NoBlock]]
  /\ rq = add_to_ready_queue(EmptyQueue, 2)
  /\ next_pid = 1

-------------------------------------------------------------------------------
NewPCB(s) == FIRST + s.count
PidOf(p)  == p - FIRST + 1

\* Mutant: the limit is off by one.
process_create_one_more(s) ==
  IF s.count > POOL \/ ~Fits(s.heap, STACK_SIZE) THEN s
  ELSE [s EXCEPT !.heap  = kmalloc(@, STACK_SIZE),
                 !.table = [@ EXCEPT ![PidOf(NewPCB(s))] = NewPCB(s)],
                 !.stack = [@ EXCEPT ![NewPCB(s)] = NewBlock(s.heap, STACK_SIZE)],
                 !.count = @ + 1]

\* process_create: NULL, and nothing changed, if no PCB is left or the stack does
\* not fit; else a PCB in the table, over whatever had its pid before.
process_create(s) ==
  IF s.count = POOL \/ ~Fits(s.heap, STACK_SIZE) THEN s
  ELSE [s EXCEPT !.heap  = kmalloc(@, STACK_SIZE),
                 !.table = [@ EXCEPT ![PidOf(NewPCB(s))] = NewPCB(s)],
                 !.stack = [@ EXCEPT ![NewPCB(s)] = NewBlock(s.heap, STACK_SIZE)],
                 !.count = @ + 1]

Create == sys' = process_create(sys) /\ UNCHANGED <<rq, next_pid>>

\* create_demo_processes: three in a row.
create_demo_processes ==
  /\ sys' = process_create(process_create(process_create(sys)))
  /\ UNCHANGED <<rq, next_pid>>

\* process_stress_test: two, the second only if the first was created.
process_stress_test ==
  /\ sys' = LET s == process_create(sys)
            IN IF s = sys THEN sys ELSE process_create(s)
  /\ UNCHANGED <<rq, next_pid>>

\* Mutant: the table is left alone.
process_destroy_in_table(p) ==
  /\ sys' = [sys EXCEPT !.heap = kfree(@, sys.stack[p])]
  /\ rq' = remove_from_ready_queue(rq, p)
  /\ next_pid' = next_pid

\* process_destroy(p): out of the queue, whether or not it is in it, and out of
\* the table; the stack is freed.  The PCB is given to kfree, too, which takes the
\* word before it for a size: prev of the PCB before, which is NULL because a
\* process of this pool is never queued.  What lies before the first PCB is up to
\* the linker and assumed to be 0, so nothing is filled.
process_destroy(p) ==
  /\ sys' = [sys EXCEPT !.heap  = kfree(@, sys.stack[p]),
                        !.table = [@ EXCEPT ![PidOf(p)] = NULL]]
  /\ rq' = remove_from_ready_queue(rq, p)
  /\ next_pid' = next_pid

Destroy == \E i \in Pids : sys.table[i] >= FIRST /\ process_destroy(sys.table[i])

Free == {i \in Pids \ {0} : sys.table[i] = NULL}

NextIsFree == next_pid < MAX_PROCESSES /\ sys.table[next_pid] = NULL

\* process_allocate_pid: the next one, else the lowest free one, else none.
process_allocate_pid ==
  /\ \/ NextIsFree /\ next_pid' = next_pid + 1
     \/ /\ ~NextIsFree
        /\ \/ Free = {} /\ next_pid' = next_pid
           \/ \E p \in Free : (\A i \in Free : p <= i) /\ next_pid' = p + 1
  /\ UNCHANGED <<sys, rq>>

\* The other callers of kmalloc and kfree (external).
Stacks == {sys.stack[p] : p \in FIRST..STATIC_PROCESSES}
Others == Live(sys.heap) \ Stacks

Allocate(size) ==
  /\ Cardinality(sys.heap.blocks \ Stacks) < MAX_BLOCKS
  /\ sys' = IF Fits(sys.heap, size) THEN [sys EXCEPT !.heap = kmalloc(@, size)] ELSE sys
  /\ UNCHANGED <<rq, next_pid>>

Release(b) ==
  /\ sys' = [sys EXCEPT !.heap = kfree(@, b)]
  /\ UNCHANGED <<rq, next_pid>>

Write(b) ==
  /\ sys' = [sys EXCEPT !.heap = Use(@, b)]
  /\ UNCHANGED <<rq, next_pid>>

\* The module ends where an allocation overwrites what the kernel runs on: no
\* code, table or PCB is then sure to be what it was.
Next ==
  /\ ~sys.heap.lost
  /\ \/ Create \/ create_demo_processes \/ process_stress_test
     \/ Destroy \/ process_allocate_pid
     \/ \E size \in Requests : Allocate(size)
     \/ \E b \in Others : Release(b)
     \/ \E b \in Live(sys.heap) : Write(b)

Spec == Init /\ [][Next]_vars

-------------------------------------------------------------------------------
(* What must hold.                                                         *)

\* Requests that the rounding and the sum with the header do not wrap around.
Sane(size) == size <= HEAP_SIZE

\* As long as no request has reached the memory the kernel needs: the blocks of
\* sane requests are in the heap and below that memory, aligned, as large as asked
\* for, and apart from all other blocks and their headers, whatever was freed.
BlocksApart ==
  ~sys.heap.lost =>
  \A b \in sys.heap.blocks : Sane(b.request) =>
    /\ HEAP_START + SIZE_T <= b.ptr /\ b.ptr + b.size <= sys.heap.current
    /\ sys.heap.current <= USED_START
    /\ b.ptr % SIZE_T = 0 /\ b.size >= b.request
    /\ sys.heap.mem[b.ptr - SIZE_T] = b.size
    /\ \A c \in sys.heap.blocks : c = b \/ Apart(b, c)

\* Only a request that wraps around makes kmalloc write outside the heap.
SaneRequestsStayInside ==
  [][sys'.heap.wiped => \E size \in Requests : ~Sane(size) /\ Allocate(size)]_vars

\* As long as no request has reached the memory the kernel needs, what the owner of
\* a block wrote stays until that block is freed: no allocation, no other free, no
\* process that comes or goes touches it.
DataKept ==
  [][~sys'.heap.lost =>
       \A b \in Live(sys.heap) \cap Live(sys'.heap), a \in Words :
         (a \in Within(b) /\ sys.heap.mem[a] = DATA) => sys'.heap.mem[a] = DATA]_vars

\* A process that can be looked up has its stack, as long as the table is sure to
\* be what it was.
FoundHasStack ==
  ~sys.heap.lost =>
  \A i \in Pids : sys.table[i] >= FIRST => sys.stack[sys.table[i]] \in Live(sys.heap)

-------------------------------------------------------------------------------
(* Why it holds: the inductive invariant (ProcessPoolProofs).              *)

\* A process in the table is one that was handed out, at its pid, with a stack
\* that was not freed; every process handed out has a stack of its own.
SystemInv(s) ==
  /\ s \in Systems
  /\ HeapInv(s.heap)
  /\ \A p \in FIRST..STATIC_PROCESSES :
       s.stack[p] \in (IF p < NewPCB(s) THEN s.heap.blocks ELSE {NoBlock})
  /\ \A p, q \in FIRST..(NewPCB(s) - 1) : s.stack[p] = s.stack[q] => p = q
  /\ \A i \in Pids : s.table[i] >= FIRST =>
       /\ s.table[i] < NewPCB(s) /\ PidOf(s.table[i]) = i
       /\ s.stack[s.table[i]] \in Live(s.heap)

IInv ==
  /\ SystemInv(sys)
  /\ rq \in Queue /\ next_pid \in 1..MAX_PROCESSES

-------------------------------------------------------------------------------
(* What the repository says and the code does not do (see README).         *)

\* "Working kmalloc/kfree with 1MB heap" (BETA_RELEASE_SUMMARY.md:8): requests that
\* the heap has room for leave the kernel's own memory alone.
KernelSpared == ~sys.heap.lost
===============================================================================
