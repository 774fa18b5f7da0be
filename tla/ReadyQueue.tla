------------------------------ MODULE ReadyQueue ------------------------------
(***************************************************************************)
(* The scheduler's ready queue: a doubly linked list threaded through the  *)
(* process control blocks (process.c:6-7, process.h:70-72).  A queue is a  *)
(* record: the two static pointers ready_queue_head and ready_queue_tail,  *)
(* and the next and prev pointer of every PCB.  The two operations are     *)
(* total on every such record, well linked or not, exactly as the C code   *)
(* is: neither checks that the process it is given is (or is not) queued.  *)
(***************************************************************************)
EXTENDS Integers

CONSTANT STATIC_PROCESSES    \* length of static_processes[], 10 in the code

ASSUME StaticProcessesAssumption ==
  STATIC_PROCESSES \in Nat /\ STATIC_PROCESSES >= 1

NULL  == 0
Slots == 1..STATIC_PROCESSES     \* slot s is &static_processes[s - 1]
Ptr   == Slots \cup {NULL}

Queue == [head : Ptr, tail : Ptr, next : [Slots -> Ptr], prev : [Slots -> Ptr]]

EmptyQueue ==
  [head |-> NULL, tail |-> NULL,
   next |-> [s \in Slots |-> NULL], prev |-> [s \in Slots |-> NULL]]

\* Mutant: the process goes in at the front of the queue.
add_to_ready_queue_at_head(q, p) ==
  [head |-> p,
   tail |-> IF q.tail = NULL THEN p ELSE q.tail,
   next |-> [q.next EXCEPT ![p] = q.head],
   prev |-> IF q.head = NULL
              THEN [q.prev EXCEPT ![p] = NULL]
              ELSE [q.prev EXCEPT ![p] = NULL, ![q.head] = p]]

\* add_to_ready_queue(process), past its state check: append p at the tail.
add_to_ready_queue(q, p) ==
  [head |-> IF q.tail = NULL THEN p ELSE q.head,
   tail |-> p,
   next |-> IF q.tail = NULL
              THEN [q.next EXCEPT ![p] = NULL]
              ELSE [q.next EXCEPT ![p] = NULL, ![q.tail] = p],
   prev |-> [q.prev EXCEPT ![p] = q.tail]]

\* Mutant: the successor keeps its back link.
remove_from_ready_queue_one_way(q, p) ==
  [head |-> IF q.prev[p] = NULL THEN q.next[p] ELSE q.head,
   tail |-> IF q.next[p] = NULL THEN q.prev[p] ELSE q.tail,
   next |-> IF q.prev[p] = NULL
              THEN [q.next EXCEPT ![p] = NULL]
              ELSE [q.next EXCEPT ![q.prev[p]] = q.next[p], ![p] = NULL],
   prev |-> [q.prev EXCEPT ![p] = NULL]]

\* remove_from_ready_queue(process): unlink p.  A missing prev is taken to mean
\* that p is the head and a missing next that p is the tail, so a call on a
\* process that is not queued empties the queue.
remove_from_ready_queue(q, p) ==
  LET before == q.prev[p]
      after  == q.next[p]
  IN [head |-> IF before = NULL THEN after ELSE q.head,
      tail |-> IF after = NULL THEN before ELSE q.tail,
      next |-> IF before = NULL
                 THEN [q.next EXCEPT ![p] = NULL]
                 ELSE [q.next EXCEPT ![before] = after, ![p] = NULL],
      prev |-> IF after = NULL
                 THEN [q.prev EXCEPT ![p] = NULL]
                 ELSE [q.prev EXCEPT ![after] = before, ![p] = NULL]]

-------------------------------------------------------------------------------

\* q holds the n processes sq[1], ..., sq[n] in this order, linked both ways,
\* and a process that is not queued has no links.
Represents(q, n, sq) ==
  /\ sq \in [1..n -> Slots]
  /\ \A i, j \in 1..n : sq[i] = sq[j] => i = j
  /\ q.head = IF n = 0 THEN NULL ELSE sq[1]
  /\ q.tail = IF n = 0 THEN NULL ELSE sq[n]
  /\ \A i \in 1..n :
       /\ q.next[sq[i]] = IF i = n THEN NULL ELSE sq[i + 1]
       /\ q.prev[sq[i]] = IF i = 1 THEN NULL ELSE sq[i - 1]
  /\ \A s \in Slots :
       (\A i \in 1..n : sq[i] # s) => q.next[s] = NULL /\ q.prev[s] = NULL

\* q represents a sequence made of exactly the processes in S.
HoldsExactly(q, S) ==
  \E n \in 0..STATIC_PROCESSES : \E sq \in [1..n -> Slots] :
    /\ Represents(q, n, sq)
    /\ S = {sq[i] : i \in 1..n}

\* The i-th process met from the head along the next pointers, NULL past the last.
Walk(q) ==
  LET w[i \in 1..STATIC_PROCESSES] ==
        IF i = 1 THEN q.head ELSE IF w[i - 1] = NULL THEN NULL ELSE q.next[w[i - 1]]
  IN w

\* The processes of a well linked queue, in list order.
Order(q) == [i \in {j \in 1..STATIC_PROCESSES : Walk(q)[j] # NULL} |-> Walk(q)[i]]
===============================================================================
