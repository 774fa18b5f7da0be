---------------------------- MODULE ProcessManager ----------------------------
(***************************************************************************)
(* The process manager of SimpleOS (proc/process.c), the system calls that *)
(* drive it (syscalls.c) and the shell commands that call both (kernel.c). *)
(*                                                                         *)
(* The kernel is one thread: interrupts stay disabled, the shell reads a   *)
(* command, runs it to its end and reads the next one.  An action is thus  *)
(* one shell command or one system call, with everything it calls.         *)
(*                                                                         *)
(* The module stops where C hands the processor to context_switch.asm.     *)
(* That code takes the new register state from offset 20 of the PCB, where *)
(* the name is, so no call of it ever comes back to C (NeverBackInC of     *)
(* module ContextSwitch): cpu says which routine was entered, and no       *)
(* action is enabled after that.                                           *)
(*                                                                         *)
(* Slot s stands for &static_processes[s - 1] and for its stack            *)
(* static_stacks[s - 1].  Names, priorities, exit codes and saved registers *)
(* decide nothing here and are left out.                                   *)
(***************************************************************************)
EXTENDS ReadyQueue

CONSTANTS
  MAX_PROCESSES,   \* length of process_table, 256 in the code
  WORD             \* number of values of a uint32_t, 2^32 in the code

\* Every slot's pid indexes the table, and some numbers of 32 bits do not.
ASSUME SizesAssumption ==
  /\ MAX_PROCESSES \in Nat /\ STATIC_PROCESSES < MAX_PROCESSES
  /\ WORD \in Nat /\ MAX_PROCESSES < WORD

VARIABLES
  process_table,    \* process_table[MAX_PROCESSES]
  process_count,    \* static int process_count of process_create_test
  current_process,
  kernel_process,
  pid,              \* the PCB fields, one function per field
  parent_pid,
  state,
  stack_base,       \* the slot whose stack it is, NULL once freed
  rq,               \* the ready queue, links included
  cpu               \* "kernel", or the assembly routine that was entered

pcb  == <<pid, parent_pid, stack_base>>
vars == <<process_table, process_count, current_process, kernel_process,
          pcb, state, rq, cpu>>

Uint32 == 0..(WORD - 1)
States == {"READY", "RUNNING", "BLOCKED", "TERMINATED"}
Cpu    == {"kernel", "context_switch", "switch_to_process"}

TypeOK ==
  /\ process_table \in [0..(MAX_PROCESSES - 1) -> Ptr]
  /\ process_count \in 0..STATIC_PROCESSES
  /\ current_process \in Ptr
  /\ kernel_process \in Ptr
  /\ pid \in [Slots -> 0..STATIC_PROCESSES]
  /\ parent_pid \in [Slots -> 0..STATIC_PROCESSES]
  /\ state \in [Slots -> States]
  /\ stack_base \in [Slots -> Ptr]
  /\ rq \in Queue
  /\ cpu \in Cpu

-------------------------------------------------------------------------------
(***************************************************************************)
(* Start-up: process_init, scheduler_init and enable_process_execution     *)
(* have run; slot 1 is the kernel process, current and RUNNING, unqueued.  *)
(***************************************************************************)
Init ==
  /\ process_table = [i \in 0..(MAX_PROCESSES - 1) |-> IF i = 1 THEN 1 ELSE NULL]
  /\ process_count = 1
  /\ current_process = 1
  /\ kernel_process = 1
  /\ pid = [s \in Slots |-> IF s = 1 THEN 1 ELSE 0]
  /\ parent_pid = [s \in Slots |-> 0]
  /\ state = [s \in Slots |-> IF s = 1 THEN "RUNNING" ELSE "READY"]
  /\ stack_base = [s \in Slots |-> IF s = 1 THEN 1 ELSE NULL]
  /\ rq = EmptyQueue
  /\ cpu = "kernel"

-------------------------------------------------------------------------------
(* Helpers of process.c.                                                   *)

process_find_by_pid(p) == IF p >= MAX_PROCESSES THEN NULL ELSE process_table[p]

\* Mutants: the limit is off by one; a slot that no table entry leads to is used
\* again.
SlotLeft_off_by_one == process_count <= STATIC_PROCESSES
NewSlot_unlisted ==
  IF \E s \in 1..process_count : process_find_by_pid(s) = NULL
    THEN CHOOSE s \in 1..process_count : process_find_by_pid(s) = NULL
    ELSE process_count + 1

\* The slots are handed out in order and never handed out again, not even the one
\* that process_cleanup has cleared and calls free.
SlotLeft == process_count < STATIC_PROCESSES
NewSlot  == process_count + 1

\* process_create_test, once a slot is left: fill the PCB of NewSlot, with the
\* parent pid its caller leaves in it, and enter it in the table.
process_create_test(parent) ==
  /\ SlotLeft
  /\ pid' = [pid EXCEPT ![NewSlot] = NewSlot]
  /\ parent_pid' = [parent_pid EXCEPT ![NewSlot] = parent]
  /\ state' = [state EXCEPT ![NewSlot] = "READY"]
  /\ stack_base' = [stack_base EXCEPT ![NewSlot] = NewSlot]
  /\ process_table' = IF NewSlot < MAX_PROCESSES
                        THEN [process_table EXCEPT ![NewSlot] = NewSlot]
                        ELSE process_table
  /\ process_count' = process_count + 1

ClearLinks(q, s) ==
  [q EXCEPT !.next = [q.next EXCEPT ![s] = NULL],
            !.prev = [q.prev EXCEPT ![s] = NULL]]

\* process_exit(code): the current process, unless it is the kernel's, is marked;
\* nothing else happens, whatever the exit code.
process_exit ==
  state' = IF current_process \notin {NULL, kernel_process}
             THEN [state EXCEPT ![current_process] = "TERMINATED"]
             ELSE state

\* Mutant: whatever is current counts as still running.
StillRunning_any_state(cur, st) == cur # NULL

\* schedule() preempts the current process if there is one and it is RUNNING.
StillRunning(cur, st) == cur # NULL /\ st[cur] = "RUNNING"

\* schedule(), called with current process cur and process states st.
schedule(cur, st) ==
  LET next == rq.head
      st1  == IF StillRunning(cur, st) THEN [st EXCEPT ![cur] = "READY"] ELSE st
      q1   == IF StillRunning(cur, st) /\ cur # rq.tail
                THEN add_to_ready_queue(remove_from_ready_queue(rq, cur), cur)
                ELSE rq
  IN \/ /\ next = NULL                \* nothing queued: stay, or go idle
        /\ state' = st
        /\ current_process' = cur
        /\ cpu' = IF cur = kernel_process THEN "kernel" ELSE "context_switch"
        /\ rq' = rq
     \/ /\ next # NULL
        /\ next = cur                 \* no switch needed
        /\ state' = st1
        /\ current_process' = cur
        /\ cpu' = "kernel"
        /\ rq' = q1
     \/ /\ next # NULL
        /\ next # cur                 \* dispatch next
        /\ state' = [st1 EXCEPT ![next] = "RUNNING"]
        /\ current_process' = next
        /\ cpu' = IF cur = NULL THEN "switch_to_process" ELSE "context_switch"
        /\ rq' = remove_from_ready_queue(q1, next)

-------------------------------------------------------------------------------
(* Shell commands and system calls.                                        *)

\* spawn <name>: a process that is in the table and in no queue.
Spawn ==
  /\ cpu = "kernel"
  /\ \/ /\ process_create_test(0)
        /\ rq' = ClearLinks(rq, NewSlot)
     \/ /\ ~SlotLeft
        /\ UNCHANGED <<process_table, process_count, pcb, state, rq>>
  /\ UNCHANGED <<current_process, kernel_process, cpu>>

\* process_create_copy(current_process), and the parent's pid that sys_fork enters.
process_create_copy == process_create_test(pid[current_process])

\* sys_fork(): the child is a new process and is queued.
sys_fork ==
  /\ cpu = "kernel"
  /\ current_process # NULL
  /\ \/ /\ process_create_copy
        /\ rq' = add_to_ready_queue(ClearLinks(rq, NewSlot), NewSlot)
     \/ /\ ~SlotLeft
        /\ UNCHANGED <<process_table, process_count, pcb, state, rq>>
  /\ UNCHANGED <<current_process, kernel_process, cpu>>

\* Mutant: any process in the table may be killed.
Killable_unprotected(p) == process_find_by_pid(p) # NULL

\* The checks at the top of process_kill_by_pid and of sys_kill.
Killable(p) == p # 1 /\ process_find_by_pid(p) \notin {NULL, kernel_process}

\* pkill <p>: process_kill_by_pid.  The victim leaves the table, not the queue.
process_kill_by_pid(p) ==
  LET target == process_find_by_pid(p)
  IN /\ cpu = "kernel"
     /\ \/ /\ ~Killable(p)
           /\ UNCHANGED <<process_table, stack_base, state>>
        \/ /\ Killable(p)
           /\ stack_base' = [stack_base EXCEPT ![target] = NULL]
           /\ state' = [state EXCEPT ![target] = "TERMINATED"]
           /\ process_table' = [process_table EXCEPT ![p] = NULL]
     /\ UNCHANGED <<process_count, current_process, kernel_process,
                    pid, parent_pid, rq, cpu>>

\* pstatus <p> READY|PAUSED|WAITING: process_set_status, no queue handling.
process_set_status(p, status) ==
  LET target == process_find_by_pid(p)
  IN /\ cpu = "kernel"
     /\ \/ target = NULL /\ state' = state
        \/ target # NULL /\ state' = [state EXCEPT ![target] = status]
     /\ UNCHANGED <<process_table, process_count, current_process, kernel_process,
                    pcb, rq, cpu>>

\* pch <p>: the shell goes on in the name of another process.  The old current
\* process keeps its state and the new one stays in the queue if it was in it.
change_current_process(p) ==
  LET target == process_find_by_pid(p)
  IN /\ cpu = "kernel"
     /\ \/ /\ p = 1 \/ target = NULL                        \* refused
           /\ UNCHANGED <<current_process, state>>
        \/ /\ p # 1 /\ target # NULL
           /\ current_process' = target
           /\ state' = [state EXCEPT ![target] = "RUNNING"]
     /\ UNCHANGED <<process_table, process_count, kernel_process, pcb, rq, cpu>>

\* sys_exec: reset the current process's registers, then run the program as a
\* function call; every program ends in process_exit.  An unknown program changes
\* nothing.
sys_exec(known) ==
  /\ cpu = "kernel"
  /\ current_process # NULL
  /\ \/ ~known /\ state' = state
     \/ known /\ process_exit
  /\ UNCHANGED <<process_table, process_count, current_process, kernel_process,
                 pcb, rq, cpu>>

\* schedule, and the timer tick's scheduler_tick, which is nothing else.
scheduler_tick ==
  /\ cpu = "kernel"
  /\ schedule(current_process, state)
  /\ UNCHANGED <<process_table, process_count, kernel_process, pcb>>

\* sys_exit: the state is TERMINATED when the code asks whether it is READY, so
\* the process stays wherever it is queued; the scheduler runs with no current
\* process.
sys_exit ==
  /\ cpu = "kernel"
  /\ current_process # NULL
  /\ schedule(NULL, [state EXCEPT ![current_process] = "TERMINATED"])
  /\ UNCHANGED <<process_table, process_count, kernel_process, pcb>>

\* The table indices of the current process's terminated children.
TerminatedChildren ==
  {i \in 0..(MAX_PROCESSES - 1) :
     /\ process_table[i] # NULL
     /\ parent_pid[process_table[i]] = pid[current_process]
     /\ state[process_table[i]] = "TERMINATED"}

\* Mutant: the process is cleared without being unlinked first.
process_cleanup_still_queued(c) ==
  /\ process_table' = [process_table EXCEPT ![pid[c]] = NULL]
  /\ rq' = ClearLinks(rq, c)
  /\ pid' = [pid EXCEPT ![c] = 0]
  /\ parent_pid' = [parent_pid EXCEPT ![c] = 0]
  /\ state' = [state EXCEPT ![c] = "READY"]
  /\ stack_base' = [stack_base EXCEPT ![c] = NULL]

\* process_cleanup(c): out of the table and the queue, then all zero; a zeroed
\* state is PROCESS_READY.
process_cleanup(c) ==
  /\ process_table' = IF pid[c] < MAX_PROCESSES
                        THEN [process_table EXCEPT ![pid[c]] = NULL]
                        ELSE process_table
  /\ rq' = ClearLinks(remove_from_ready_queue(rq, c), c)
  /\ pid' = [pid EXCEPT ![c] = 0]
  /\ parent_pid' = [parent_pid EXCEPT ![c] = 0]
  /\ state' = [state EXCEPT ![c] = "READY"]
  /\ stack_base' = [stack_base EXCEPT ![c] = NULL]

\* sys_wait: reap the terminated child with the lowest table index.
sys_wait ==
  /\ cpu = "kernel"
  /\ current_process # NULL
  /\ \/ /\ TerminatedChildren = {}
        /\ UNCHANGED <<process_table, pcb, state, rq>>
     \/ \E i \in TerminatedChildren :
          /\ \A j \in TerminatedChildren : i <= j
          /\ process_cleanup(process_table[i])
  /\ UNCHANGED <<process_count, current_process, kernel_process, cpu>>

\* sys_kill(p, signal): only signal 9 does anything, and it leaves the victim in
\* the table and in the queue.
sys_kill(p, signal) ==
  LET target == process_find_by_pid(p)
  IN /\ cpu = "kernel"
     /\ \/ /\ ~Killable(p) \/ signal # 9
           /\ state' = state
        \/ /\ Killable(p) /\ signal = 9
           /\ state' = [state EXCEPT ![target] = "TERMINATED"]
     /\ UNCHANGED <<process_table, process_count, current_process, kernel_process,
                    pcb, rq, cpu>>

\* The shell's commands: a pid is digits read modulo WORD, and pkill and pstatus
\* refuse the one that comes out as 0.  PAUSED and WAITING are both BLOCKED.
pkill   == \E p \in Uint32 \ {0} : process_kill_by_pid(p)
pstatus == \E p \in Uint32 \ {0}, status \in {"READY", "BLOCKED"} :
             process_set_status(p, status)
pch     == \E p \in Uint32 : change_current_process(p)
exec    == \E known \in BOOLEAN : sys_exec(known)

\* Commands that change the processes; "schedule" does what a timer tick does.
process_command ==
  \/ Spawn
  \/ pkill
  \/ pstatus
  \/ sys_fork
  \/ exec
  \/ scheduler_tick
  \/ pch

\* System calls that are no commands; of the signals only SIGKILL, 9, counts.
syscall_handler ==
  \/ sys_exit
  \/ sys_wait
  \/ \E p \in Uint32, signal \in {9, 15} : sys_kill(p, signal)

Next == process_command \/ syscall_handler

Spec == Init /\ [][Next]_vars

-------------------------------------------------------------------------------
(* What must hold.                                                         *)

Up == cpu = "kernel"

\* The children that were forked and not yet reaped.
Forked == {s \in Slots : parent_pid[s] # 0}

\* As long as schedule() has not switched, the ready queue is a well linked list
\* of exactly the forked children that sys_wait has not reaped: kills, status
\* changes, exec and changes of the current process never lose an entry, never
\* enter one twice, never leave a link to an entry that is gone.
ReadyQueueIntact == Up => HoldsExactly(rq, Forked)

Fifo == INSTANCE ReadyFifo WITH
          Proc    <- Slots,
          None    <- NULL,
          fifo    <- IF Up THEN Order(rq) ELSE <<>>,
          open    <- Up,
          running <- IF Up THEN NULL ELSE current_process

\* The linked list implements a first-in first-out queue: every command and
\* system call is an operation of ReadyFifo on the processes in list order, and
\* a dispatch chooses the one that has waited longest.
ImplementsFifo == Fifo!FifoSpec

\* A PCB that process_cleanup cleared is out of reach: it is not current, in no
\* table entry, and no queue pointer leads to it.
NoUseAfterCleanup ==
  Up => \A s \in Slots : pid[s] = 0 =>
          /\ current_process # s
          /\ \A i \in 0..(MAX_PROCESSES - 1) : process_table[i] # s
          /\ s \notin {rq.head, rq.tail}
          /\ \A t \in Slots : s \notin {rq.next[t], rq.prev[t]}

\* The kernel process stays in table entry 1 with its pid and its stack, and no
\* call after which the kernel is still up has terminated it.
KernelProtected ==
  /\ process_table[1] = kernel_process
  /\ pid[kernel_process] = 1
  /\ stack_base[kernel_process] = kernel_process
  /\ Up => state[kernel_process] # "TERMINATED"

\* A process that pkill took out of the table stays TERMINATED and without a
\* stack, even if it is current or queued: nothing brings it back to life before
\* the scheduler dispatches.
KilledStaysDead ==
  Up => \A s \in Slots :
          (pid[s] # 0 /\ process_table[pid[s]] # s) =>
             state[s] = "TERMINATED" /\ stack_base[s] = NULL

\* A PCB that becomes a process is one that nothing refers to any more: it is not
\* current, no queue pointer leads to it and no process counts it as its parent.
\* pkill leaves such references behind, and a parent that is reaped leaves its
\* children's; that no PCB is used twice is what keeps them harmless, at the price
\* of one of ten PCBs for every process ever created.
CreatedIsUnreferenced ==
  [][\A s \in Slots : (process_table[s] # s /\ process_table'[s] = s) =>
       /\ pid[s] = 0 /\ current_process # s
       /\ s \notin {rq.head, rq.tail}
       /\ \A t \in Slots : s \notin {rq.next[t], rq.prev[t], parent_pid[t]}]_vars

-------------------------------------------------------------------------------
(* Why it holds: the inductive invariant (ProcessManagerProofs).           *)

\* A pid is its slot's number, or 0 if the slot is unused or cleaned up; only
\* a live PCB has a parent, and a parent's pid is smaller than its child's.
PidInv ==
  \A s \in Slots :
    /\ pid[s] \in {0, s}
    /\ pid[s] # 0 => s <= process_count
    /\ parent_pid[s] # 0 => pid[s] = s /\ parent_pid[s] < s

\* A table entry is empty or holds the live PCB with the entry's index as pid.
TableInv ==
  \A i \in 0..(MAX_PROCESSES - 1) :
    process_table[i] # NULL => i \in Slots /\ process_table[i] = i /\ pid[i] = i

\* The kernel process is slot 1 and nobody's child.
KernelInv == kernel_process = 1 /\ parent_pid[1] = 0 /\ KernelProtected

\* There is a current process, and it was not reaped.
CurrentInv == Up => current_process \in Slots /\ pid[current_process] = current_process

IInv ==
  /\ TypeOK
  /\ PidInv
  /\ TableInv
  /\ KernelInv
  /\ CurrentInv
  /\ ReadyQueueIntact
  /\ KilledStaysDead

-------------------------------------------------------------------------------
(* What the repository says and the code does not do (see README).         *)

\* "If current process is still running and in ready queue, move to back"
\* (process.c:583): a dispatch leaves a well linked queue of the others that were
\* waiting, with or without the process it preempted.
DispatchKeepsQueue ==
  [][(scheduler_tick /\ current_process' # current_process) =>
       LET waiting == Forked \ {current_process'}
       IN \/ HoldsExactly(rq', waiting)
          \/ HoldsExactly(rq', waiting \cup {current_process})]_vars

\* "Get next process from ready queue" (process.c:580), where READY is "Ready to
\* run" (process.h:9): what schedule() dispatches from the queue is ready to run,
\* whether a tick called it or sys_exit.
DispatchedIsReady ==
  [][(Up /\ cpu' # "kernel" /\ rq.head # NULL) => state[rq.head] = "READY"]_vars

===============================================================================
