------------------------- MODULE ProcessManagerProofs -------------------------
(***************************************************************************)
(* The safety properties of ProcessManager, for every number of PCBs, size *)
(* of the table and word size.  IInv is inductive; the argument has one    *)
(* lemma per action.                                                       *)
(***************************************************************************)
EXTENDS ProcessManager, ReadyQueueProofs

USE StaticProcessesAssumption, SizesAssumption DEF NULL, Slots, Ptr

\* process_find_by_pid returns NULL or the live PCB with that pid.
LEMMA FindByPid ==
  ASSUME TypeOK, TableInv, NEW p \in Uint32, process_find_by_pid(p) # NULL
  PROVE  /\ p \in 0..(MAX_PROCESSES - 1)
         /\ process_table[p] = p
         /\ process_find_by_pid(p) = p
         /\ p \in Slots
         /\ pid[p] = p
BY DEF process_find_by_pid, TableInv, Uint32

\* The queue's part of the invariant is about rq, parent_pid and cpu only.
LEMMA QueueUnchanged ==
  ASSUME ReadyQueueIntact, UNCHANGED <<rq, parent_pid, cpu>>
  PROVE  ReadyQueueIntact'
BY DEF ReadyQueueIntact, Up, Forked

\* Clearing the links of a process that is not queued changes nothing.
LEMMA ClearLinksIdle ==
  ASSUME NEW q \in Queue, NEW S, HoldsExactly(q, S), NEW s \in Slots, s \notin S
  PROVE  ClearLinks(q, s) = q
<1>1. q.next[s] = NULL /\ q.prev[s] = NULL
  BY HoldsPointers
<1>2. q.next \in [Slots -> Ptr] /\ q.prev \in [Slots -> Ptr]
  BY DEF Queue
<1>3. [q.next EXCEPT ![s] = NULL] = q.next /\ [q.prev EXCEPT ![s] = NULL] = q.prev
  BY <1>1, <1>2
<1> QED BY <1>3 DEF ClearLinks, Queue

\* The state after enable_process_execution satisfies the invariant.
LEMMA InitInv == Init => IInv
<1> SUFFICES ASSUME Init PROVE IInv
  OBVIOUS
<1> USE DEF Init
<1>1. 1 \in Slots /\ 1 \in 0..(MAX_PROCESSES - 1)
  OBVIOUS
<1>2. EmptyQueue \in Queue
  BY DEF EmptyQueue, Queue
<1>3. TypeOK
  BY <1>2 DEF TypeOK, States, Cpu
<1>4. PidInv /\ TableInv /\ CurrentInv
  <2>1. PidInv
    BY <1>1 DEF PidInv
  <2>2. TableInv
    BY <1>1 DEF TableInv
  <2>3. CurrentInv
    BY <1>1 DEF CurrentInv
  <2> QED BY <2>1, <2>2, <2>3
<1>5. KernelInv
  BY <1>1 DEF KernelInv, KernelProtected, Up
<1>6. ReadyQueueIntact
  <2>1. Forked = {}
    BY DEF Forked
  <2> QED BY <2>1, EmptyHolds DEF ReadyQueueIntact
<1>7. KilledStaysDead
  BY <1>1 DEF KilledStaysDead
<1> QED BY <1>3, <1>4, <1>5, <1>6, <1>7 DEF IInv

\* Creating a process, with or without a parent.
LEMMA CreateStep ==
  ASSUME IInv, cpu = "kernel", NEW parent \in 0..STATIC_PROCESSES,
         parent # 0 => parent <= process_count,
         process_create_test(parent),
         UNCHANGED <<current_process, kernel_process, cpu>>
  PROVE  /\ NewSlot \in Slots /\ NewSlot \notin Forked
         /\ ClearLinks(rq, NewSlot) = rq
         /\ Forked' = IF parent = 0 THEN Forked ELSE Forked \cup {NewSlot}
         /\ rq' \in Queue => TypeOK'
         /\ PidInv' /\ TableInv' /\ KernelInv' /\ CurrentInv' /\ KilledStaysDead'
<1> USE DEF IInv
<1>1. NewSlot \in Slots /\ NewSlot \in 0..(MAX_PROCESSES - 1) /\ NewSlot # 1
      /\ process_count' = NewSlot /\ pid[NewSlot] = 0 /\ parent_pid[NewSlot] = 0
      /\ process_count \in Nat
  <2>1. NewSlot \in Slots /\ process_count' = NewSlot /\ process_count \in Nat
    BY DEF NewSlot, SlotLeft, process_create_test, TypeOK
  <2>2. process_count >= 1
    BY DEF KernelInv, KernelProtected, PidInv, TypeOK
  <2> QED BY <2>1, <2>2 DEF NewSlot, PidInv, TypeOK
<1>2. process_table' = [process_table EXCEPT ![NewSlot] = NewSlot]
  BY <1>1 DEF process_create_test
<1>3. NewSlot \notin Forked
  BY <1>1 DEF Forked
<1>4. ClearLinks(rq, NewSlot) = rq
  BY <1>1, <1>3, ClearLinksIdle DEF ReadyQueueIntact, Up, TypeOK
<1>5. Forked' = IF parent = 0 THEN Forked ELSE Forked \cup {NewSlot}
  BY <1>1 DEF Forked, process_create_test, TypeOK
<1>6. rq' \in Queue => TypeOK'
  BY <1>1, <1>2 DEF TypeOK, process_create_test, States
<1>7. PidInv'
  BY <1>1 DEF PidInv, process_create_test, TypeOK, NewSlot
<1>8. TableInv'
  BY <1>1, <1>2 DEF TableInv, process_create_test, TypeOK
<1>9. KernelInv'
  BY <1>1, <1>2 DEF KernelInv, KernelProtected, process_create_test, TypeOK, Up
<1>10. CurrentInv'
  BY <1>1 DEF CurrentInv, process_create_test, TypeOK, Up
<1>11. KilledStaysDead'
  BY <1>1, <1>2 DEF KilledStaysDead, PidInv, process_create_test, TypeOK, Up
<1> QED BY <1>1, <1>3, <1>4, <1>5, <1>6, <1>7, <1>8, <1>9, <1>10, <1>11

\* spawn preserves it: the new process is in the table and in no queue.
LEMMA SpawnStep == ASSUME IInv, Spawn PROVE IInv'
<1>1. CASE SlotLeft /\ process_create_test(0) /\ rq' = ClearLinks(rq, NewSlot)
  <2>1. UNCHANGED <<current_process, kernel_process, cpu>> /\ cpu = "kernel"
    BY DEF Spawn
  <2>2. /\ ClearLinks(rq, NewSlot) = rq
        /\ Forked' = Forked
        /\ rq' \in Queue => TypeOK'
        /\ PidInv' /\ TableInv' /\ KernelInv' /\ CurrentInv' /\ KilledStaysDead'
    BY <1>1, <2>1, CreateStep
  <2>3. rq' = rq /\ rq \in Queue
    BY <1>1, <2>2 DEF IInv, TypeOK
  <2>4. ReadyQueueIntact'
    BY <2>1, <2>2, <2>3 DEF IInv, ReadyQueueIntact, Up
  <2> QED BY <2>2, <2>3, <2>4 DEF IInv
<1>2. CASE UNCHANGED vars
  BY <1>2 DEF IInv, TypeOK, PidInv, TableInv, KernelInv, KernelProtected, CurrentInv,
              ReadyQueueIntact, KilledStaysDead, Up, Forked, vars, pcb
<1> QED BY <1>1, <1>2 DEF Spawn, process_create_test, vars, pcb

\* sys_fork preserves it: the new child is the last in the queue.
LEMMA ForkStep == ASSUME IInv, sys_fork PROVE IInv'
<1>1. CASE /\ process_create_copy
           /\ rq' = add_to_ready_queue(ClearLinks(rq, NewSlot), NewSlot)
  <2> DEFINE parent == pid[current_process]
  <2>1. UNCHANGED <<current_process, kernel_process, cpu>> /\ cpu = "kernel"
    BY DEF sys_fork
  <2>2. parent \in 0..STATIC_PROCESSES /\ parent # 0 /\ parent <= process_count
    BY <2>1 DEF IInv, CurrentInv, PidInv, TypeOK, Up
  <2> HIDE DEF parent
  <2>3. /\ NewSlot \in Slots /\ NewSlot \notin Forked
        /\ ClearLinks(rq, NewSlot) = rq
        /\ Forked' = Forked \cup {NewSlot}
        /\ rq' \in Queue => TypeOK'
        /\ PidInv' /\ TableInv' /\ KernelInv' /\ CurrentInv' /\ KilledStaysDead'
    <3>1. process_create_test(parent)
      BY <1>1 DEF parent, process_create_copy
    <3> QED BY <3>1, <2>1, <2>2, CreateStep
  <2>4. rq \in Queue /\ rq' = add_to_ready_queue(rq, NewSlot)
    BY <1>1, <2>3 DEF IInv, TypeOK
  <2>5. rq' \in Queue
    BY <2>3, <2>4, AddType
  <2>6. HoldsExactly(rq, Forked)
    BY <2>1 DEF IInv, ReadyQueueIntact, Up
  <2>7. HoldsExactly(rq', Forked')
    BY <2>3, <2>4, <2>6, AddHolds
  <2>8. ReadyQueueIntact'
    BY <2>7 DEF ReadyQueueIntact
  <2> QED BY <2>3, <2>5, <2>8 DEF IInv
<1>2. CASE UNCHANGED vars
  BY <1>2 DEF IInv, TypeOK, PidInv, TableInv, KernelInv, KernelProtected, CurrentInv,
              ReadyQueueIntact, KilledStaysDead, Up, Forked, vars, pcb
<1> QED BY <1>1, <1>2 DEF sys_fork, vars, pcb

\* pkill preserves it: the victim loses its stack and its table entry together
\* and keeps its place in the queue.
LEMMA KillByPidStep ==
  ASSUME IInv, NEW p \in Uint32, process_kill_by_pid(p) PROVE IInv'
<1> DEFINE target == process_find_by_pid(p)
<1>1. CASE ~Killable(p)
  BY <1>1 DEF process_kill_by_pid, IInv, TypeOK, PidInv, TableInv, KernelInv,
              KernelProtected, CurrentInv, ReadyQueueIntact, KilledStaysDead, Up, Forked
<1>2. CASE Killable(p)
  <2>1. /\ target = p /\ p # 1 /\ p \in Slots /\ pid[p] = p
        /\ p \in 0..(MAX_PROCESSES - 1)
    BY <1>2, FindByPid DEF IInv, Killable
  <2>2. /\ stack_base' = [stack_base EXCEPT ![p] = NULL]
        /\ state' = [state EXCEPT ![p] = "TERMINATED"]
        /\ process_table' = [process_table EXCEPT ![p] = NULL]
        /\ UNCHANGED <<process_count, current_process, kernel_process,
                       pid, parent_pid, rq, cpu>>
    BY <1>2, <2>1 DEF process_kill_by_pid
  <2> HIDE DEF target
  <2>3. TypeOK'
    BY <2>1, <2>2 DEF IInv, TypeOK, States
  <2>4. PidInv' /\ TableInv' /\ CurrentInv'
    BY <2>1, <2>2 DEF IInv, TypeOK, PidInv, TableInv, CurrentInv, Up
  <2>5. KernelInv'
    BY <2>1, <2>2 DEF IInv, TypeOK, KernelInv, KernelProtected, Up
  <2>6. ReadyQueueIntact'
    BY <2>2, QueueUnchanged DEF IInv
  <2>7. KilledStaysDead'
    BY <2>1, <2>2 DEF IInv, TypeOK, PidInv, KilledStaysDead, Up
  <2> QED BY <2>3, <2>4, <2>5, <2>6, <2>7 DEF IInv
<1> QED BY <1>1, <1>2

\* pstatus, pch, exec and sys_kill change nothing but states and which process
\* is current: of those, only what they set matters.
OnlyStates ==
  /\ cpu = "kernel"
  /\ UNCHANGED <<process_table, process_count, kernel_process, pcb, rq, cpu>>

\* Such a step preserves the invariant if the kernel process is not terminated
\* and no process that pkill removed gets another state.
LEMMA StateStep ==
  ASSUME IInv, OnlyStates, state' \in [Slots -> States],
         \/ current_process' = current_process
         \/ current_process' \in Slots /\ pid[current_process'] = current_process',
         state'[1] # "TERMINATED",
         \A s \in Slots : pid[s] # 0 /\ process_table[pid[s]] # s =>
                            state'[s] = state[s] \/ state'[s] = "TERMINATED"
  PROVE  IInv'
<1> USE DEF IInv, OnlyStates, pcb
<1>1. TypeOK'
  BY DEF TypeOK
<1>2. PidInv' /\ TableInv'
  BY DEF PidInv, TableInv
<1>3. KernelInv' /\ CurrentInv'
  BY DEF KernelInv, KernelProtected, CurrentInv, Up
<1>4. ReadyQueueIntact'
  BY QueueUnchanged
<1>5. KilledStaysDead'
  BY DEF KilledStaysDead, Up
<1> QED BY <1>1, <1>2, <1>3, <1>4, <1>5

\* pstatus preserves it: what it finds in the table was not killed.
LEMMA SetStatusStep ==
  ASSUME IInv, NEW p \in Uint32, NEW status \in {"READY", "BLOCKED"},
         process_set_status(p, status)
  PROVE  IInv'
<1>1. CASE process_find_by_pid(p) = NULL
  <2>1. OnlyStates /\ state' = state /\ current_process' = current_process
    BY <1>1 DEF process_set_status, OnlyStates
  <2>2. state' \in [Slots -> States] /\ state'[1] # "TERMINATED"
    BY <2>1 DEF OnlyStates, IInv, TypeOK, KernelInv, KernelProtected, Up
  <2> QED BY <2>1, <2>2, StateStep
<1>2. CASE process_find_by_pid(p) # NULL
  <2>1. process_find_by_pid(p) = p /\ p \in Slots /\ process_table[p] = p /\ pid[p] = p
    BY <1>2, FindByPid DEF IInv
  <2>2. /\ OnlyStates /\ current_process' = current_process
        /\ state' = [state EXCEPT ![p] = status]
    BY <1>2, <2>1 DEF process_set_status, OnlyStates
  <2>3. state' \in [Slots -> States] /\ state'[1] # "TERMINATED"
    BY <2>1, <2>2 DEF OnlyStates, IInv, TypeOK, States, KernelInv, KernelProtected, Up
  <2>4. \A s \in Slots : s # p => state'[s] = state[s]
    BY <2>2 DEF IInv, TypeOK
  <2>5. \A s \in Slots : pid[s] # 0 /\ process_table[pid[s]] # s => s # p
    BY <2>1
  <2> QED BY <2>2, <2>3, <2>4, <2>5, StateStep
<1> QED BY <1>1, <1>2

\* pch preserves it: what it makes current is in the table.
LEMMA ChangeCurrentStep ==
  ASSUME IInv, NEW p \in Uint32, change_current_process(p) PROVE IInv'
<1>1. CASE p = 1 \/ process_find_by_pid(p) = NULL
  <2>1. OnlyStates /\ state' = state /\ current_process' = current_process
    BY <1>1 DEF change_current_process, OnlyStates
  <2>2. state' \in [Slots -> States] /\ state'[1] # "TERMINATED"
    BY <2>1 DEF OnlyStates, IInv, TypeOK, KernelInv, KernelProtected, Up
  <2> QED BY <2>1, <2>2, StateStep
<1>2. CASE p # 1 /\ process_find_by_pid(p) # NULL
  <2>1. process_find_by_pid(p) = p /\ p \in Slots /\ process_table[p] = p /\ pid[p] = p
    BY <1>2, FindByPid DEF IInv
  <2>2. /\ OnlyStates /\ current_process' = p
        /\ state' = [state EXCEPT ![p] = "RUNNING"]
    BY <1>2, <2>1 DEF change_current_process, OnlyStates
  <2>3. state' \in [Slots -> States] /\ state'[1] # "TERMINATED"
    BY <2>1, <2>2 DEF OnlyStates, IInv, TypeOK, States, KernelInv, KernelProtected, Up
  <2>4. \A s \in Slots : s # p => state'[s] = state[s]
    BY <2>2 DEF IInv, TypeOK
  <2>5. \A s \in Slots : pid[s] # 0 /\ process_table[pid[s]] # s => s # p
    BY <2>1
  <2> QED BY <2>1, <2>2, <2>3, <2>4, <2>5, StateStep
<1> QED BY <1>1, <1>2

\* exec preserves it: the program ends in process_exit, which spares the kernel.
LEMMA ExecStep == ASSUME IInv, NEW known \in BOOLEAN, sys_exec(known) PROVE IInv'
<1>1. OnlyStates /\ current_process' = current_process
  BY DEF sys_exec, OnlyStates
<1>2. state' = state \/ (current_process # 1 /\ current_process \in Slots
                          /\ state' = [state EXCEPT ![current_process] = "TERMINATED"])
  BY <1>1 DEF sys_exec, process_exit, IInv, TypeOK, KernelInv
<1>3. state' \in [Slots -> States] /\ state'[1] # "TERMINATED"
  BY <1>1, <1>2 DEF OnlyStates, IInv, TypeOK, States, KernelInv, KernelProtected, Up
<1>4. \A s \in Slots : state'[s] = state[s] \/ state'[s] = "TERMINATED"
  BY <1>2 DEF IInv, TypeOK
<1> QED BY <1>1, <1>3, <1>4, StateStep

\* sys_kill preserves it: the kernel process is refused.
LEMMA SysKillStep ==
  ASSUME IInv, NEW p \in Uint32, NEW signal, sys_kill(p, signal) PROVE IInv'
<1>1. OnlyStates /\ current_process' = current_process
  BY DEF sys_kill, OnlyStates
<1>2. state' = state \/ (p # 1 /\ p \in Slots /\ state' = [state EXCEPT ![p] = "TERMINATED"])
  BY FindByPid DEF sys_kill, Killable, IInv
<1>3. state \in [Slots -> States] /\ state[1] # "TERMINATED" /\ 1 \in Slots
  BY <1>1 DEF OnlyStates, IInv, TypeOK, KernelInv, KernelProtected, Up
<1>4. CASE state' = state
  BY <1>3, <1>4, <1>1, StateStep
<1>5. CASE p # 1 /\ p \in Slots /\ state' = [state EXCEPT ![p] = "TERMINATED"]
  <2>1. state' \in [Slots -> States]
    BY <1>3, <1>5 DEF States
  <2>2. state'[1] # "TERMINATED" /\ \A s \in Slots : state'[s] = state[s] \/ state'[s] = "TERMINATED"
    BY <1>3, <1>5
  <2> QED BY <2>1, <2>2, <1>1, StateStep
<1> QED BY <1>2, <1>4, <1>5

\* schedule() either switches, after which only the types and the tables matter,
\* or leaves the queue with the same processes in it.
LEMMA ScheduleStep ==
  ASSUME IInv, cpu = "kernel", NEW cur \in Ptr, NEW st \in [Slots -> States],
         schedule(cur, st),
         UNCHANGED <<process_table, process_count, kernel_process, pcb>>,
         cur = NULL \/ (cur = current_process /\ st = state)
  PROVE  IInv'
<1> DEFINE still == StillRunning(cur, st)
           st1   == IF still THEN [st EXCEPT ![cur] = "READY"] ELSE st
           q1    == IF still /\ cur # rq.tail
                      THEN add_to_ready_queue(remove_from_ready_queue(rq, cur), cur)
                      ELSE rq
<1>1. rq \in Queue /\ rq.head \in Ptr /\ rq.tail \in Ptr /\ kernel_process = 1
  BY DEF IInv, TypeOK, Queue, KernelInv
<1>2. still => cur \in Slots /\ st[cur] = "RUNNING"
  BY DEF StillRunning
<1>3. st1 \in [Slots -> States]
  BY <1>2 DEF States
<1>4. q1 \in Queue
  <2>1. still => remove_from_ready_queue(rq, cur) \in Queue
    BY <1>1, <1>2, RemoveType
  <2>2. still => add_to_ready_queue(remove_from_ready_queue(rq, cur), cur) \in Queue
    BY <1>2, <2>1, AddType
  <2> QED BY <1>1, <2>2
<1>5. schedule(cur, st) <=>
        \/ /\ rq.head = NULL
           /\ state' = st
           /\ current_process' = cur
           /\ cpu' = IF cur = kernel_process THEN "kernel" ELSE "context_switch"
           /\ rq' = rq
        \/ /\ rq.head # NULL
           /\ rq.head = cur
           /\ state' = st1
           /\ current_process' = cur
           /\ cpu' = "kernel"
           /\ rq' = q1
        \/ /\ rq.head # NULL
           /\ rq.head # cur
           /\ state' = [st1 EXCEPT ![rq.head] = "RUNNING"]
           /\ current_process' = rq.head
           /\ cpu' = IF cur = NULL THEN "switch_to_process" ELSE "context_switch"
           /\ rq' = remove_from_ready_queue(q1, rq.head)
  BY DEF schedule
<1> HIDE DEF still, st1, q1
<1>6. TypeOK'
  <2>1. rq.head # NULL => remove_from_ready_queue(q1, rq.head) \in Queue
    BY <1>1, <1>4, RemoveType
  <2>2. rq' \in Queue /\ current_process' \in Ptr /\ cpu' \in Cpu
    BY <1>1, <1>4, <1>5, <2>1 DEF Cpu
  <2>3. state' \in [Slots -> States]
    BY <1>1, <1>3, <1>5 DEF States
  <2> QED BY <2>2, <2>3 DEF IInv, TypeOK, pcb
<1>7. PidInv' /\ TableInv'
  BY DEF IInv, PidInv, TableInv, pcb
<1>8. CASE Up'
  <2>1. cur = current_process /\ st = state /\ current_process' = cur /\ cur \in Slots
    BY <1>1, <1>5, <1>8 DEF Up
  <2>2. HoldsExactly(rq, Forked)
    BY DEF IInv, ReadyQueueIntact, Up
  <2>3. Forked' = Forked
    BY DEF Forked, pcb
  <2>4. CASE rq.head = NULL
    <3>1. state' = state /\ rq' = rq /\ UNCHANGED <<current_process, cpu>>
      BY <2>1, <2>4, <1>5, <1>8 DEF Up
    <3>2. KernelInv' /\ CurrentInv' /\ KilledStaysDead'
      BY <3>1 DEF IInv, KernelInv, KernelProtected, CurrentInv, KilledStaysDead, pcb, Up
    <3>3. ReadyQueueIntact'
      BY <3>1, <2>2, <2>3 DEF ReadyQueueIntact
    <3> QED BY <3>2, <3>3, <1>6, <1>7 DEF IInv
  <2>5. CASE rq.head # NULL
    <3>1. rq.head = cur /\ state' = st1 /\ rq' = q1 /\ UNCHANGED <<current_process, cpu>>
      BY <2>1, <2>5, <1>5, <1>8 DEF Up
    <3>2. cur \in Forked
      BY <3>1, <2>2, <2>5, <1>1, HoldsPointers
    <3>3. cur # 1
      BY <3>2 DEF IInv, KernelInv, Forked
    <3>4. \A s \in Slots : state'[s] = state[s] \/ (state[s] = "RUNNING" /\ state'[s] = "READY")
      BY <3>1, <2>1, <1>2 DEF st1, IInv, TypeOK
    <3>5. KernelInv' /\ CurrentInv'
      BY <3>1, <3>4 DEF IInv, KernelInv, KernelProtected, CurrentInv, pcb, Up
    <3>6. KilledStaysDead'
      BY <3>1, <3>4 DEF IInv, KilledStaysDead, pcb, Up
    <3>7. HoldsExactly(q1, Forked)
      <4>1. remove_from_ready_queue(rq, cur) \in Queue
        BY <1>1, <2>1, RemoveType
      <4>2. HoldsExactly(remove_from_ready_queue(rq, cur), Forked \ {cur})
        BY <1>1, <2>2, <3>2, RemoveHolds
      <4>3. cur \notin Forked \ {cur} /\ (Forked \ {cur}) \cup {cur} = Forked
        BY <3>2
      <4> DEFINE r == remove_from_ready_queue(rq, cur)
                 rest == Forked \ {cur}
      <4>4. HoldsExactly(add_to_ready_queue(r, cur), rest \cup {cur})
        <5>1. r \in Queue /\ HoldsExactly(r, rest) /\ cur \notin rest
          BY <4>1, <4>2, <4>3
        <5> HIDE DEF r, rest
        <5> QED BY <5>1, <2>1, AddHolds
      <4>5. HoldsExactly(add_to_ready_queue(r, cur), Forked)
        BY <4>3, <4>4
      <4> QED BY <4>5, <2>2 DEF q1
    <3>8. ReadyQueueIntact'
      BY <3>1, <3>7, <2>3 DEF ReadyQueueIntact
    <3> QED BY <3>5, <3>6, <3>8, <1>6, <1>7 DEF IInv
  <2> QED BY <2>4, <2>5
<1>9. CASE ~Up'
  <2>1. KernelInv' /\ CurrentInv' /\ KilledStaysDead' /\ ReadyQueueIntact'
    BY <1>9 DEF IInv, KernelInv, KernelProtected, CurrentInv, KilledStaysDead,
                ReadyQueueIntact, pcb
  <2> QED BY <2>1, <1>6, <1>7 DEF IInv
<1> QED BY <1>8, <1>9

\* The schedule command and the timer tick preserve it.
LEMMA TickStep == ASSUME IInv, scheduler_tick PROVE IInv'
<1>1. current_process \in Ptr /\ state \in [Slots -> States]
  BY DEF IInv, TypeOK
<1> QED BY <1>1, ScheduleStep DEF scheduler_tick

\* sys_exit preserves it, even when the kernel process calls it: then the
\* processor is handed over for good.
LEMMA ExitStep == ASSUME IInv, sys_exit PROVE IInv'
<1> DEFINE st == [state EXCEPT ![current_process] = "TERMINATED"]
<1>1. st \in [Slots -> States] /\ NULL \in Ptr
  BY DEF IInv, TypeOK, States
<1>2. /\ cpu = "kernel"
      /\ schedule(NULL, st)
      /\ UNCHANGED <<process_table, process_count, kernel_process, pcb>>
  BY DEF sys_exit
<1> HIDE DEF st
<1> QED BY <1>1, <1>2, ScheduleStep

\* The child that sys_wait reaps is live, queued, not the kernel's process and,
\* since a parent's pid is the smaller one, not the caller.
LEMMA ReapedChild ==
  ASSUME IInv, cpu = "kernel", NEW i \in TerminatedChildren
  PROVE  /\ process_table[i] = i /\ i \in Slots /\ pid[i] = i
         /\ i \in 0..(MAX_PROCESSES - 1)
         /\ i \in Forked /\ i # 1 /\ i # current_process
<1>1. i \in 0..(MAX_PROCESSES - 1) /\ process_table[i] # NULL
      /\ parent_pid[process_table[i]] = pid[current_process]
  BY DEF TerminatedChildren
<1>2. process_table[i] = i /\ i \in Slots /\ pid[i] = i
  BY <1>1 DEF IInv, TableInv
<1>3. current_process \in Slots /\ pid[current_process] = current_process
  BY DEF IInv, CurrentInv, Up
<1>4. parent_pid[i] = current_process /\ parent_pid[i] # 0
  BY <1>1, <1>2, <1>3
<1>5. parent_pid[i] < i
  BY <1>2, <1>4 DEF IInv, PidInv
<1> QED BY <1>1, <1>2, <1>3, <1>4, <1>5 DEF Forked, IInv, KernelInv

\* sys_wait preserves it: the reaped child leaves the table and the queue.
LEMMA WaitStep == ASSUME IInv, sys_wait PROVE IInv'
<1>1. cpu = "kernel" /\ UNCHANGED <<process_count, current_process, kernel_process, cpu>>
  BY DEF sys_wait
<1>2. CASE TerminatedChildren = {} /\ UNCHANGED <<process_table, pcb, state, rq>>
  <2>1. UNCHANGED vars
    BY <1>1, <1>2 DEF vars
  <2> QED BY <2>1 DEF IInv, TypeOK, PidInv, TableInv, KernelInv, KernelProtected,
                      CurrentInv, ReadyQueueIntact, KilledStaysDead, Up, Forked, vars, pcb
<1>3. ASSUME NEW i \in TerminatedChildren, process_cleanup(process_table[i])
      PROVE  IInv'
  <2>1. /\ process_table[i] = i /\ i \in Slots /\ pid[i] = i
        /\ i \in 0..(MAX_PROCESSES - 1)
        /\ i \in Forked /\ i # 1 /\ i # current_process
    BY <1>1, <1>3, ReapedChild
  <2>2. /\ process_table' = [process_table EXCEPT ![i] = NULL]
        /\ rq' = ClearLinks(remove_from_ready_queue(rq, i), i)
        /\ pid' = [pid EXCEPT ![i] = 0]
        /\ parent_pid' = [parent_pid EXCEPT ![i] = 0]
        /\ state' = [state EXCEPT ![i] = "READY"]
        /\ stack_base' = [stack_base EXCEPT ![i] = NULL]
    BY <1>3, <2>1 DEF process_cleanup
  <2>3. Forked' = Forked \ {i}
    BY <2>1, <2>2 DEF Forked, IInv, TypeOK
  <2>4. HoldsExactly(rq, Forked) /\ rq \in Queue
    BY <1>1 DEF IInv, TypeOK, ReadyQueueIntact, Up
  <2>5. rq' \in Queue /\ HoldsExactly(rq', Forked')
    <3> DEFINE r == remove_from_ready_queue(rq, i)
               rest == Forked \ {i}
    <3>1. r \in Queue
      BY <2>1, <2>4, RemoveType
    <3>2. HoldsExactly(r, rest)
      BY <2>1, <2>4, RemoveHolds
    <3>3. i \notin rest /\ rest = Forked' /\ rq' = ClearLinks(r, i)
      BY <2>2, <2>3
    <3> HIDE DEF r, rest
    <3>4. ClearLinks(r, i) = r
      BY <3>1, <3>2, <3>3, <2>1, ClearLinksIdle
    <3> QED BY <3>1, <3>2, <3>3, <3>4
  <2>6. TypeOK'
    BY <1>1, <2>1, <2>2, <2>5 DEF IInv, TypeOK, States
  <2>7. PidInv'
    BY <1>1, <2>1, <2>2 DEF IInv, TypeOK, PidInv
  <2>8. TableInv'
    BY <1>1, <2>1, <2>2 DEF IInv, TypeOK, TableInv
  <2>9. KernelInv'
    BY <1>1, <2>1, <2>2 DEF IInv, TypeOK, KernelInv, KernelProtected, Up
  <2>10. CurrentInv'
    BY <1>1, <2>1, <2>2 DEF IInv, TypeOK, CurrentInv, Up
  <2>11. ReadyQueueIntact'
    BY <2>5 DEF ReadyQueueIntact
  <2>12. KilledStaysDead'
    BY <1>1, <2>1, <2>2 DEF IInv, TypeOK, PidInv, KilledStaysDead, Up
  <2> QED BY <2>6, <2>7, <2>8, <2>9, <2>10, <2>11, <2>12 DEF IInv
<1> QED BY <1>2, <1>3 DEF sys_wait

\* The invariant is inductive: every command and every system call preserves it.
LEMMA NextInv == IInv /\ [Next]_vars => IInv'
<1> SUFFICES ASSUME IInv, [Next]_vars PROVE IInv'
  OBVIOUS
<1>1. CASE Spawn
  BY <1>1, SpawnStep
<1>2. CASE sys_fork
  BY <1>2, ForkStep
<1>3. CASE pkill
  BY <1>3, KillByPidStep DEF pkill
<1>4. CASE pstatus
  BY <1>4, SetStatusStep DEF pstatus
<1>5. CASE pch
  BY <1>5, ChangeCurrentStep DEF pch
<1>6. CASE exec
  BY <1>6, ExecStep DEF exec
<1>7. CASE scheduler_tick
  BY <1>7, TickStep
<1>8. CASE sys_exit
  BY <1>8, ExitStep
<1>9. CASE sys_wait
  BY <1>9, WaitStep
<1>10. CASE \E p \in Uint32, signal \in {9, 15} : sys_kill(p, signal)
  BY <1>10, SysKillStep
<1>11. CASE UNCHANGED vars
  BY <1>11 DEF IInv, TypeOK, PidInv, TableInv, KernelInv, KernelProtected, CurrentInv,
               ReadyQueueIntact, KilledStaysDead, Up, Forked, vars, pcb
<1> QED BY <1>1, <1>2, <1>3, <1>4, <1>5, <1>6, <1>7, <1>8, <1>9, <1>10, <1>11
        DEF Next, process_command, syscall_handler

\* The invariant holds in every state the kernel reaches.
THEOREM InductiveInvariant == Spec => []IInv
<1> QED BY InitInv, NextInv, PTL DEF Spec

\* Every PCB field, table entry and queue pointer keeps its type: no sequence of
\* commands and system calls indexes past static_processes[] or process_table[].
THEOREM TypeCorrect == Spec => []TypeOK
<1>1. IInv => TypeOK
  BY DEF IInv
<1> QED BY <1>1, InductiveInvariant, PTL

\* The ready queue stays a well linked list of exactly the forked children that
\* have not been reaped, as long as the scheduler has not switched.
THEOREM QueueIntact == Spec => []ReadyQueueIntact
<1>1. IInv => ReadyQueueIntact
  BY DEF IInv
<1> QED BY <1>1, InductiveInvariant, PTL

\* No pkill, sys_kill, sys_wait or exec takes pid 1 away or terminates it.
THEOREM KernelSafe == Spec => []KernelProtected
<1>1. IInv => KernelProtected
  BY DEF IInv, KernelInv
<1> QED BY <1>1, InductiveInvariant, PTL

\* What pkill removed from the table never comes back to life.
THEOREM DeadStayDead == Spec => []KilledStaysDead
<1>1. IInv => KilledStaysDead
  BY DEF IInv
<1> QED BY <1>1, InductiveInvariant, PTL

\* Nothing leads to a PCB that process_cleanup has cleared.
THEOREM CleanedIsUnreachable == Spec => []NoUseAfterCleanup
<1>1. ASSUME IInv PROVE NoUseAfterCleanup
  <2> SUFFICES ASSUME Up, NEW s \in Slots, pid[s] = 0
               PROVE  /\ current_process # s
                      /\ \A i \in 0..(MAX_PROCESSES - 1) : process_table[i] # s
                      /\ s \notin {rq.head, rq.tail}
                      /\ \A t \in Slots : s \notin {rq.next[t], rq.prev[t]}
    BY DEF NoUseAfterCleanup
  <2>1. current_process # s
    BY <1>1 DEF IInv, CurrentInv
  <2>2. \A i \in 0..(MAX_PROCESSES - 1) : process_table[i] # s
    BY <1>1 DEF IInv, TableInv
  <2>3. s \notin Forked
    BY <1>1 DEF IInv, PidInv, Forked
  <2>4. rq \in Queue /\ HoldsExactly(rq, Forked)
    BY <1>1 DEF IInv, TypeOK, ReadyQueueIntact
  <2>5. /\ rq.head \in Forked \cup {NULL} /\ rq.tail \in Forked \cup {NULL}
        /\ \A t \in Slots : /\ rq.next[t] \in Forked \cup {NULL}
                            /\ rq.prev[t] \in Forked \cup {NULL}
    BY <2>4, HoldsPointers
  <2> QED BY <2>1, <2>2, <2>3, <2>5
<1> QED BY <1>1, InductiveInvariant, PTL

\* Slots are taken in order, so the PCB that is taken was never a process: no
\* parent's number is that large, and the rest is NoUseAfterCleanup's.
THEOREM CreatedUnreferenced == Spec => CreatedIsUnreferenced
<1> DEFINE A == \A s \in Slots : (process_table[s] # s /\ process_table'[s] = s) =>
                  /\ pid[s] = 0 /\ current_process # s
                  /\ s \notin {rq.head, rq.tail}
                  /\ \A t \in Slots : s \notin {rq.next[t], rq.prev[t], parent_pid[t]}
<1>1. ASSUME IInv, NoUseAfterCleanup, Next PROVE A
  <2> SUFFICES ASSUME NEW s \in Slots, process_table[s] # s, process_table'[s] = s
               PROVE  /\ pid[s] = 0 /\ current_process # s
                      /\ s \notin {rq.head, rq.tail}
                      /\ \A t \in Slots : s \notin {rq.next[t], rq.prev[t], parent_pid[t]}
    OBVIOUS
  <2>1. s # NULL /\ s \in Nat
    BY DEF Slots, NULL
  <2>2. CASE cpu = "kernel" /\ s = process_count + 1
    <3>1. pid[s] = 0 /\ \A t \in Slots : parent_pid[t] # s
      <4>1. ASSUME NEW t \in Slots PROVE parent_pid[t] # s
        BY <1>1, <2>1, <2>2 DEF IInv, TypeOK, PidInv, Slots
      <4> QED BY <1>1, <2>1, <2>2, <4>1 DEF IInv, TypeOK, PidInv
    <3> QED BY <1>1, <2>2, <3>1 DEF NoUseAfterCleanup, Up
  <2>3. ASSUME UNCHANGED process_table PROVE FALSE
    BY <2>3
  <2>4. ASSUME NEW parent, cpu = "kernel", process_create_test(parent)
        PROVE  s = process_count + 1
    BY <1>1, <2>4 DEF process_create_test, NewSlot, IInv, TypeOK
  <2>5. CASE Spawn \/ sys_fork
    BY <2>2, <2>3, <2>4, <2>5 DEF Spawn, sys_fork, process_create_copy
  <2>6. ASSUME NEW c, process_cleanup(c) PROVE FALSE
    BY <1>1, <2>1, <2>6 DEF process_cleanup, IInv, TypeOK
  <2>7. CASE sys_wait
    BY <2>3, <2>6, <2>7 DEF sys_wait
  <2>8. CASE pkill
    BY <1>1, <2>1, <2>3, <2>8 DEF pkill, process_kill_by_pid, IInv, TypeOK
  <2>9. CASE pstatus
    BY <2>3, <2>9 DEF pstatus, process_set_status
  <2>10. CASE pch
    BY <2>3, <2>10 DEF pch, change_current_process
  <2>11. CASE exec
    BY <2>3, <2>11 DEF exec, sys_exec
  <2>12. CASE scheduler_tick \/ sys_exit
    BY <2>3, <2>12 DEF scheduler_tick, sys_exit
  <2>13. CASE \E p \in Uint32, signal \in {9, 15} : sys_kill(p, signal)
    BY <2>3, <2>13 DEF sys_kill
  <2> QED BY <1>1, <2>5, <2>7, <2>8, <2>9, <2>10, <2>11, <2>12, <2>13
          DEF Next, process_command, syscall_handler
<1>2. IInv /\ NoUseAfterCleanup /\ [Next]_vars => [A]_vars
  BY <1>1
<1> QED BY <1>2, InductiveInvariant, CleanedIsUnreachable, PTL
        DEF Spec, CreatedIsUnreferenced

-------------------------------------------------------------------------------
(* The linked list implements ReadyFifo.                                   *)

\* What leaves the queue and the processor alone is no step of the fifo.
LEMMA FifoStutters ==
  ASSUME UNCHANGED <<rq, cpu>>, UNCHANGED current_process \/ cpu = "kernel"
  PROVE  UNCHANGED Fifo!fifoVars
BY DEF Up, Fifo!fifoVars

\* sys_fork enqueues the child it has made.
LEMMA ForkImplements ==
  ASSUME IInv, sys_fork PROVE [Fifo!FifoNext]_(Fifo!fifoVars)
<1>1. CASE ~SlotLeft
  <2>1. UNCHANGED <<rq, cpu, current_process>>
    BY <1>1 DEF sys_fork, process_create_copy, process_create_test
  <2> QED BY <2>1, FifoStutters
<1>2. CASE SlotLeft
  <2>1. /\ process_create_copy /\ rq' = add_to_ready_queue(ClearLinks(rq, NewSlot), NewSlot)
        /\ UNCHANGED <<current_process, kernel_process, cpu>> /\ cpu = "kernel"
    BY <1>2 DEF sys_fork
  <2> DEFINE parent == pid[current_process]
  <2>2. parent \in 0..STATIC_PROCESSES /\ parent # 0 /\ parent <= process_count
    BY <2>1 DEF IInv, CurrentInv, PidInv, TypeOK, Up
  <2>3. process_create_test(parent)
    BY <2>1 DEF process_create_copy
  <2> HIDE DEF parent
  <2>4. NewSlot \in Slots /\ NewSlot \notin Forked /\ ClearLinks(rq, NewSlot) = rq
    BY <2>1, <2>2, <2>3, CreateStep
  <2>5. rq \in Queue /\ HoldsExactly(rq, Forked)
    BY <2>1 DEF IInv, TypeOK, ReadyQueueIntact, Up
  <2>6. Order(rq') = Append(Order(rq), NewSlot)
    BY <2>1, <2>4, <2>5, OrderAdd
  <2>7. \A k \in 1..Len(Order(rq)) : Order(rq)[k] # NewSlot
    BY <2>4, <2>5, OrderSequence
  <2>8. Up /\ Up'
    BY <2>1 DEF Up
  <2>9. Fifo!Enqueue(NewSlot)
    BY <2>6, <2>7, <2>8 DEF Fifo!Enqueue
  <2> QED BY <2>4, <2>9 DEF Fifo!FifoNext
<1> QED BY <1>1, <1>2

\* sys_wait withdraws the child that it reaps, wherever it waits.
LEMMA WaitImplements ==
  ASSUME IInv, sys_wait PROVE [Fifo!FifoNext]_(Fifo!fifoVars)
<1>1. cpu = "kernel" /\ UNCHANGED <<cpu, current_process>>
  BY DEF sys_wait
<1>2. CASE UNCHANGED rq
  BY <1>1, <1>2, FifoStutters
<1>3. ASSUME NEW i \in TerminatedChildren, process_cleanup(process_table[i])
      PROVE  Fifo!FifoNext
  <2>1. process_table[i] = i /\ i \in Slots /\ i \in Forked
    BY <1>1, <1>3, ReapedChild
  <2>2. rq' = ClearLinks(remove_from_ready_queue(rq, i), i)
    BY <1>3, <2>1 DEF process_cleanup
  <2>3. rq \in Queue /\ HoldsExactly(rq, Forked)
    BY <1>1 DEF IInv, TypeOK, ReadyQueueIntact, Up
  <2>4. rq' = remove_from_ready_queue(rq, i)
    <3> DEFINE r == remove_from_ready_queue(rq, i)
               rest == Forked \ {i}
    <3>1. r \in Queue /\ HoldsExactly(r, rest) /\ i \notin rest
      BY <2>1, <2>3, RemoveType, RemoveHolds
    <3> HIDE DEF r, rest
    <3>2. ClearLinks(r, i) = r
      BY <3>1, <2>1, ClearLinksIdle
    <3> QED BY <3>2, <2>2 DEF r
  <2>5. PICK k \in 1..Len(Order(rq)) : Order(rq)[k] = i
    BY <2>1, <2>3, OrderSequence
  <2>6. Order(rq') = [j \in 1..(Len(Order(rq)) - 1) |->
                        IF j < k THEN Order(rq)[j] ELSE Order(rq)[j + 1]]
    BY <2>3, <2>4, <2>5, OrderRemove
  <2>7. Up /\ Up'
    BY <1>1 DEF Up
  <2>8. Fifo!Withdraw(k)
    BY <2>6, <2>7, <1>1 DEF Fifo!Withdraw
  <2> QED BY <2>7, <2>8 DEF Fifo!FifoNext
<1> QED BY <1>2, <1>3 DEF sys_wait

\* A preempted process goes from the front of the queue to its back.
LEMMA YieldOrder ==
  ASSUME NEW q \in Queue, NEW S, HoldsExactly(q, S), q.head # NULL
  PROVE  Order(add_to_ready_queue(remove_from_ready_queue(q, q.head), q.head))
           = Append(Tail(Order(q)), Head(Order(q)))
<1> DEFINE o == Order(q)
           p == q.head
           r == remove_from_ready_queue(q, p)
           rest == S \ {p}
           t == [j \in 1..(Len(o) - 1) |-> IF j < 1 THEN o[j] ELSE o[j + 1]]
<1>1. o \in Seq(Slots) /\ o # <<>> /\ p = Head(o) /\ p = o[1] /\ 1 \in 1..Len(o)
      /\ S = {o[i] : i \in 1..Len(o)}
  BY OrderSequence
<1>2. p \in Slots /\ p \in S
  BY <1>1
<1>3. r \in Queue /\ HoldsExactly(r, rest) /\ p \notin rest
  BY <1>2, RemoveType, RemoveHolds
<1>4. Order(r) = t
  BY <1>1, OrderRemove
<1>5. t = Tail(o)
  <2> HIDE DEF o
  <2>1. Len(o) - 1 \in Nat /\ t \in [1..(Len(o) - 1) -> Slots]
    BY <1>1
  <2>2. Tail(o) \in Seq(Slots) /\ Len(Tail(o)) = Len(o) - 1
    BY <1>1
  <2>3. t \in Seq(Slots) /\ Len(t) = Len(o) - 1
    <3> HIDE DEF t
    <3> QED BY <2>1
  <2>4. \A j \in 1..(Len(o) - 1) : t[j] = Tail(o)[j]
    BY <1>1
  <2> HIDE DEF t
  <2> QED BY <2>1, <2>2, <2>3, <2>4, SameSequence
<1>6. Order(add_to_ready_queue(r, p)) = Append(Order(r), p)
  <2> HIDE DEF r, rest, p
  <2> QED BY <1>2, <1>3, OrderAdd
<1> QED BY <1>1, <1>4, <1>5, <1>6

\* schedule() hands the processor to the head of the queue, or the process that
\* is both current and head goes to the back, or nothing happens.
LEMMA ScheduleImplements ==
  ASSUME IInv, cpu = "kernel", NEW cur \in Ptr, NEW st, schedule(cur, st),
         cur \in {NULL, current_process}
  PROVE  [Fifo!FifoNext]_(Fifo!fifoVars)
<1>1. rq \in Queue /\ HoldsExactly(rq, Forked) /\ rq.head \in Ptr /\ kernel_process = 1
  BY DEF IInv, TypeOK, ReadyQueueIntact, Up, KernelInv, Queue
<1>2. /\ Order(rq) = <<>> <=> rq.head = NULL
      /\ rq.head # NULL => rq.head = Head(Order(rq))
  BY <1>1, OrderSequence
<1>3. Up
  BY DEF Up
<1>4. ASSUME ~Up', current_process' \in Ptr, rq.head # NULL => current_process' = rq.head
      PROVE  Fifo!FifoNext
  <2>1. Fifo!Dispatch(current_process')
    BY <1>2, <1>3, <1>4 DEF Fifo!Dispatch
  <2> QED BY <1>4, <2>1 DEF Fifo!FifoNext
<1>5. CASE rq.head = NULL
  <2>1. current_process' = cur /\ rq' = rq
        /\ cpu' = IF cur = kernel_process THEN "kernel" ELSE "context_switch"
    BY <1>5 DEF schedule
  <2>2. CASE cur = kernel_process
    <3>1. UNCHANGED <<rq, cpu>>
      BY <2>1, <2>2
    <3> QED BY <3>1, FifoStutters
  <2>3. CASE cur # kernel_process
    <3>1. ~Up'
      BY <2>1, <2>3 DEF Up
    <3> QED BY <3>1, <2>1, <1>4, <1>5
  <2> QED BY <2>2, <2>3
<1>6. CASE rq.head # NULL /\ rq.head # cur
  <2>1. current_process' = rq.head /\ cpu' \in {"context_switch", "switch_to_process"}
    BY <1>6 DEF schedule
  <2>2. ~Up'
    BY <2>1 DEF Up
  <2> QED BY <2>1, <2>2, <1>1, <1>4
<1>7. CASE rq.head # NULL /\ rq.head = cur
  <2>1. UNCHANGED cpu /\ Up'
    BY <1>7 DEF schedule, Up
  <2>2. \/ rq' = rq
        \/ rq' = add_to_ready_queue(remove_from_ready_queue(rq, rq.head), rq.head)
    BY <1>7 DEF schedule
  <2>3. CASE rq' = rq
    BY <2>1, <2>3, FifoStutters
  <2>4. CASE rq' = add_to_ready_queue(remove_from_ready_queue(rq, rq.head), rq.head)
    <3>1. Order(rq') = Append(Tail(Order(rq)), Head(Order(rq)))
      BY <2>4, <1>1, <1>7, YieldOrder
    <3>2. Fifo!Yield
      BY <3>1, <2>1, <1>2, <1>3, <1>7 DEF Fifo!Yield
    <3> QED BY <3>2 DEF Fifo!FifoNext
  <2> QED BY <2>2, <2>3, <2>4
<1> QED BY <1>5, <1>6, <1>7

\* Whatever the kernel does, the ready queue behaves as a first-in first-out
\* queue in which a dispatch takes the process that has waited longest.
THEOREM FifoImplemented == Spec => ImplementsFifo
<1>1. Init => Fifo!FifoInit
  <2> SUFFICES ASSUME Init PROVE Fifo!FifoInit
    OBVIOUS
  <2>1. Up /\ rq \in Queue /\ rq.head = NULL
    BY DEF Init, Up, EmptyQueue, Queue
  <2>2. HoldsExactly(rq, {})
    BY EmptyHolds DEF Init
  <2>3. Order(rq) = <<>>
    BY <2>1, <2>2, OrderSequence
  <2> QED BY <2>1, <2>3 DEF Fifo!FifoInit
<1>2. IInv /\ [Next]_vars => [Fifo!FifoNext]_(Fifo!fifoVars)
  <2> SUFFICES ASSUME IInv, [Next]_vars PROVE [Fifo!FifoNext]_(Fifo!fifoVars)
    OBVIOUS
  <2>1. ASSUME UNCHANGED <<rq, cpu>>, UNCHANGED current_process \/ cpu = "kernel"
        PROVE  [Fifo!FifoNext]_(Fifo!fifoVars)
    BY <2>1, FifoStutters
  <2>2. CASE Spawn
    <3>1. UNCHANGED <<cpu, current_process>> /\ cpu = "kernel"
      BY <2>2 DEF Spawn
    <3>2. rq' = rq
      <4>1. CASE process_create_test(0) /\ rq' = ClearLinks(rq, NewSlot)
        <5>1. ClearLinks(rq, NewSlot) = rq
          BY <4>1, <3>1, <2>2, CreateStep DEF Spawn
        <5> QED BY <4>1, <5>1
      <4> QED BY <2>2, <4>1 DEF Spawn
    <3> QED BY <3>1, <3>2, <2>1
  <2>3. CASE sys_fork
    BY <2>3, ForkImplements
  <2>4. CASE pkill \/ pstatus \/ pch \/ exec
    <3>1. UNCHANGED <<rq, cpu>> /\ cpu = "kernel"
      BY <2>4 DEF pkill, process_kill_by_pid, pstatus, process_set_status,
                  pch, change_current_process, exec, sys_exec
    <3> QED BY <3>1, <2>1
  <2>5. CASE \E p \in Uint32, signal \in {9, 15} : sys_kill(p, signal)
    <3>1. UNCHANGED <<rq, cpu>> /\ cpu = "kernel"
      BY <2>5 DEF sys_kill
    <3> QED BY <3>1, <2>1
  <2>6. CASE scheduler_tick
    <3>1. current_process \in Ptr
      BY DEF IInv, TypeOK
    <3> QED BY <2>6, <3>1, ScheduleImplements DEF scheduler_tick
  <2>7. CASE sys_exit
    <3> DEFINE st == [state EXCEPT ![current_process] = "TERMINATED"]
    <3>1. cpu = "kernel" /\ schedule(NULL, st) /\ NULL \in Ptr
      BY <2>7 DEF sys_exit
    <3> HIDE DEF st
    <3> QED BY <3>1, ScheduleImplements
  <2>8. CASE sys_wait
    BY <2>8, WaitImplements
  <2>9. CASE UNCHANGED vars
    BY <2>9, <2>1 DEF vars
  <2> QED BY <2>2, <2>3, <2>4, <2>5, <2>6, <2>7, <2>8, <2>9
          DEF Next, process_command, syscall_handler
<1> QED BY <1>1, <1>2, InductiveInvariant, PTL DEF Spec, ImplementsFifo, Fifo!FifoSpec
===============================================================================
