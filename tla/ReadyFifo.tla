------------------------------ MODULE ReadyFifo -------------------------------
(***************************************************************************)
(* What the ready queue promises its users, as a sequence of processes and *)
(* nothing else: who comes first is dispatched first, a process is never   *)
(* in it twice, withdrawing one leaves the order of the others alone.      *)
(***************************************************************************)
EXTENDS Integers, Sequences

CONSTANTS Proc, None

VARIABLES
  fifo,       \* the waiting processes, oldest first
  open,       \* no process has been dispatched
  running     \* whom the dispatch chose, None before it

fifoVars == <<fifo, open, running>>

FifoInit == fifo = <<>> /\ open = TRUE /\ running = None

Enqueue(p) ==
  /\ open /\ \A k \in 1..Len(fifo) : fifo[k] # p
  /\ fifo' = Append(fifo, p)
  /\ UNCHANGED <<open, running>>

\* The k-th process leaves, whoever waited before and behind it.
Withdraw(k) ==
  /\ open
  /\ fifo' = [i \in 1..(Len(fifo) - 1) |-> IF i < k THEN fifo[i] ELSE fifo[i + 1]]
  /\ UNCHANGED <<open, running>>

\* The oldest process keeps the processor and goes to the back.
Yield ==
  /\ open /\ fifo # <<>>
  /\ fifo' = Append(Tail(fifo), Head(fifo))
  /\ UNCHANGED <<open, running>>

\* The processor is handed over: to the oldest process if there is one.
Dispatch(p) ==
  /\ open
  /\ fifo # <<>> => p = Head(fifo)
  /\ running' = p
  /\ open' = FALSE
  /\ fifo' = <<>>

FifoNext ==
  \/ \E p \in Proc : Enqueue(p)
  \/ \E k \in 1..Len(fifo) : Withdraw(k)
  \/ Yield
  \/ \E p \in Proc \cup {None} : Dispatch(p)

FifoSpec == FifoInit /\ [][FifoNext]_fifoVars
===============================================================================
