--------------------------- MODULE ReadyQueueProofs ---------------------------
(***************************************************************************)
(* What the two list operations do to a well linked queue of any length.   *)
(***************************************************************************)
EXTENDS ReadyQueue, Sequences, FiniteSetTheorems, WellFoundedInduction, TLAPS

\* Both operations write pointers only: whatever the links are, the result is
\* again a queue record.
LEMMA AddType ==
  ASSUME NEW q \in Queue, NEW p \in Slots
  PROVE  add_to_ready_queue(q, p) \in Queue
BY DEF Queue, add_to_ready_queue, Ptr

\* remove_from_ready_queue keeps every pointer a PCB or NULL.
LEMMA RemoveType ==
  ASSUME NEW q \in Queue, NEW p \in Slots
  PROVE  remove_from_ready_queue(q, p) \in Queue
BY DEF Queue, remove_from_ready_queue, Ptr

\* NULL points at no PCB.
LEMMA NullIsNoSlot == NULL \notin Slots
BY StaticProcessesAssumption DEF NULL, Slots

\* add_to_ready_queue(p) appends p, if p was not queued.
LEMMA AddAppends ==
  ASSUME NEW q \in Queue, NEW n \in Nat, NEW sq, Represents(q, n, sq),
         NEW p \in Slots, \A i \in 1..n : sq[i] # p
  PROVE  Represents(add_to_ready_queue(q, p), n + 1,
                    [i \in 1..(n + 1) |-> IF i = n + 1 THEN p ELSE sq[i]])
<1> DEFINE r == add_to_ready_queue(q, p)
           t == [i \in 1..(n + 1) |-> IF i = n + 1 THEN p ELSE sq[i]]
<1>1. /\ sq \in [1..n -> Slots]
      /\ \A i, j \in 1..n : sq[i] = sq[j] => i = j
      /\ q.head = IF n = 0 THEN NULL ELSE sq[1]
      /\ q.tail = IF n = 0 THEN NULL ELSE sq[n]
      /\ \A i \in 1..n :
           /\ q.next[sq[i]] = IF i = n THEN NULL ELSE sq[i + 1]
           /\ q.prev[sq[i]] = IF i = 1 THEN NULL ELSE sq[i - 1]
      /\ \A s \in Slots :
           (\A i \in 1..n : sq[i] # s) => q.next[s] = NULL /\ q.prev[s] = NULL
  BY DEF Represents
<1>2. q.next \in [Slots -> Ptr] /\ q.prev \in [Slots -> Ptr]
  BY DEF Queue
<1>3. n # 0 => n \in 1..n
  OBVIOUS
<1>4. q.tail = NULL <=> n = 0
  BY <1>1, <1>3, NullIsNoSlot
<1>5. t \in [1..(n + 1) -> Slots]
  BY <1>1
<1>6. \A i, j \in 1..(n + 1) : t[i] = t[j] => i = j
  BY <1>1
<1>7. r.head = t[1] /\ r.tail = t[n + 1]
  BY <1>1, <1>4 DEF add_to_ready_queue
<1>8. \A i \in 1..(n + 1) : r.next[t[i]] = IF i = n + 1 THEN NULL ELSE t[i + 1]
  <2> TAKE i \in 1..(n + 1)
  <2>1. CASE i = n + 1
    BY <2>1, <1>1, <1>2, <1>3, <1>4 DEF add_to_ready_queue
  <2>2. CASE i = n
    BY <2>2, <1>1, <1>2, <1>3, <1>4 DEF add_to_ready_queue
  <2>3. CASE i < n
    BY <2>3, <1>1, <1>2, <1>3, <1>4 DEF add_to_ready_queue
  <2> QED BY <2>1, <2>2, <2>3
<1>9. \A i \in 1..(n + 1) : r.prev[t[i]] = IF i = 1 THEN NULL ELSE t[i - 1]
  <2> TAKE i \in 1..(n + 1)
  <2>1. CASE i = n + 1
    BY <2>1, <1>1, <1>2, <1>3, <1>4 DEF add_to_ready_queue
  <2>2. CASE i < n + 1
    BY <2>2, <1>1, <1>2, <1>3, <1>4 DEF add_to_ready_queue
  <2> QED BY <2>1, <2>2
<1>10. \A s \in Slots :
         (\A i \in 1..(n + 1) : t[i] # s) => r.next[s] = NULL /\ r.prev[s] = NULL
  <2> SUFFICES ASSUME NEW s \in Slots, \A i \in 1..(n + 1) : t[i] # s
               PROVE  r.next[s] = NULL /\ r.prev[s] = NULL
    OBVIOUS
  <2>1. s # p /\ \A i \in 1..n : sq[i] # s
    OBVIOUS
  <2>2. n # 0 => q.tail # s
    BY <2>1, <1>1, <1>3
  <2> QED BY <2>1, <2>2, <1>1, <1>2, <1>4 DEF add_to_ready_queue
<1> QED BY <1>5, <1>6, <1>7, <1>8, <1>9, <1>10 DEF Represents

\* remove_from_ready_queue takes the k-th process out and keeps the others in
\* their order.
LEMMA RemoveDeletes ==
  ASSUME NEW q \in Queue, NEW n \in Nat, NEW sq, Represents(q, n, sq),
         NEW k \in 1..n
  PROVE  Represents(remove_from_ready_queue(q, sq[k]), n - 1,
                    [i \in 1..(n - 1) |-> IF i < k THEN sq[i] ELSE sq[i + 1]])
<1> DEFINE p == sq[k]
           r == remove_from_ready_queue(q, p)
           t == [i \in 1..(n - 1) |-> IF i < k THEN sq[i] ELSE sq[i + 1]]
<1>1. /\ sq \in [1..n -> Slots]
      /\ \A i, j \in 1..n : sq[i] = sq[j] => i = j
      /\ q.head = IF n = 0 THEN NULL ELSE sq[1]
      /\ q.tail = IF n = 0 THEN NULL ELSE sq[n]
      /\ \A i \in 1..n :
           /\ q.next[sq[i]] = IF i = n THEN NULL ELSE sq[i + 1]
           /\ q.prev[sq[i]] = IF i = 1 THEN NULL ELSE sq[i - 1]
      /\ \A s \in Slots :
           (\A i \in 1..n : sq[i] # s) => q.next[s] = NULL /\ q.prev[s] = NULL
  BY DEF Represents
<1>2. q.next \in [Slots -> Ptr] /\ q.prev \in [Slots -> Ptr]
  BY DEF Queue
<1>3. p \in Slots
  BY <1>1
<1>4. /\ k = 1 => q.prev[p] = NULL
      /\ k # 1 => q.prev[p] = sq[k - 1] /\ k - 1 \in 1..n /\ sq[k - 1] \in Slots
                  /\ sq[k - 1] # p /\ q.prev[p] # NULL
      /\ k = n => q.next[p] = NULL
      /\ k # n => q.next[p] = sq[k + 1] /\ k + 1 \in 1..n /\ sq[k + 1] \in Slots
                  /\ sq[k + 1] # p /\ q.next[p] # NULL
  BY <1>1, NullIsNoSlot
<1>5. r.next = IF k = 1 THEN [q.next EXCEPT ![p] = NULL]
               ELSE [q.next EXCEPT ![sq[k - 1]] = q.next[p], ![p] = NULL]
  BY <1>4 DEF remove_from_ready_queue
<1>6. r.prev = IF k = n THEN [q.prev EXCEPT ![p] = NULL]
               ELSE [q.prev EXCEPT ![sq[k + 1]] = q.prev[p], ![p] = NULL]
  BY <1>4 DEF remove_from_ready_queue
<1>7. t \in [1..(n - 1) -> Slots]
  BY <1>1
<1>8. \A i, j \in 1..(n - 1) : t[i] = t[j] => i = j
  BY <1>1
<1>9. /\ r.head = IF n - 1 = 0 THEN NULL ELSE t[1]
      /\ r.tail = IF n - 1 = 0 THEN NULL ELSE t[n - 1]
  BY <1>1, <1>4 DEF remove_from_ready_queue
<1>10. \A i \in 1..(n - 1) : r.next[t[i]] = IF i = n - 1 THEN NULL ELSE t[i + 1]
  <2> TAKE i \in 1..(n - 1)
  <2>1. CASE i = k - 1
    BY <2>1, <1>1, <1>2, <1>3, <1>4, <1>5
  <2>2. CASE i < k - 1
    BY <2>2, <1>1, <1>2, <1>3, <1>4, <1>5
  <2>3. CASE i > k - 1
    <3>1. i + 1 \in 1..n /\ t[i] = sq[i + 1] /\ sq[i + 1] # p
      BY <2>3, <1>1
    <3>2. k # 1 => sq[i + 1] # sq[k - 1]
      BY <2>3, <1>1, <1>4
    <3>3. r.next[t[i]] = q.next[sq[i + 1]]
      BY <3>1, <3>2, <1>1, <1>2, <1>4, <1>5
    <3> QED BY <2>3, <3>1, <3>3, <1>1
  <2> QED BY <2>1, <2>2, <2>3
<1>11. \A i \in 1..(n - 1) : r.prev[t[i]] = IF i = 1 THEN NULL ELSE t[i - 1]
  <2> TAKE i \in 1..(n - 1)
  <2>1. CASE i = k
    BY <2>1, <1>1, <1>2, <1>3, <1>4, <1>6
  <2>2. CASE i < k
    <3>1. i \in 1..n /\ t[i] = sq[i] /\ sq[i] # p
      BY <2>2, <1>1
    <3>2. k # n => sq[i] # sq[k + 1]
      BY <2>2, <1>1, <1>4
    <3>3. r.prev[t[i]] = q.prev[sq[i]]
      BY <3>1, <3>2, <1>1, <1>2, <1>4, <1>6
    <3> QED BY <2>2, <3>1, <3>3, <1>1
  <2>3. CASE i > k
    <3>1. i + 1 \in 1..n /\ t[i] = sq[i + 1] /\ sq[i + 1] # p
      BY <2>3, <1>1
    <3>2. k # n => sq[i + 1] # sq[k + 1]
      BY <2>3, <1>1, <1>4
    <3>3. r.prev[t[i]] = q.prev[sq[i + 1]]
      BY <3>1, <3>2, <1>1, <1>2, <1>4, <1>6
    <3> QED BY <2>3, <3>1, <3>3, <1>1
  <2> QED BY <2>1, <2>2, <2>3
<1>12. \A s \in Slots :
         (\A i \in 1..(n - 1) : t[i] # s) => r.next[s] = NULL /\ r.prev[s] = NULL
  <2> SUFFICES ASSUME NEW s \in Slots, \A i \in 1..(n - 1) : t[i] # s
               PROVE  r.next[s] = NULL /\ r.prev[s] = NULL
    OBVIOUS
  <2>1. CASE s = p
    BY <2>1, <1>2, <1>3, <1>4, <1>5, <1>6
  <2>2. CASE s # p
    <3>1. \A i \in 1..n : sq[i] # s
      <4> SUFFICES ASSUME NEW i \in 1..n, sq[i] = s PROVE FALSE
        OBVIOUS
      <4>1. CASE i < k
        BY <4>1, t[i] = sq[i], i \in 1..(n - 1)
      <4>2. CASE i > k
        BY <4>2, t[i - 1] = sq[i], i - 1 \in 1..(n - 1)
      <4> QED BY <4>1, <4>2, <2>2
    <3> QED BY <3>1, <2>2, <1>1, <1>2, <1>3, <1>4, <1>5, <1>6
  <2> QED BY <2>1, <2>2
<1> QED BY <1>7, <1>8, <1>9, <1>10, <1>11, <1>12 DEF Represents

\* A well linked queue has room: it is never longer than static_processes[].
LEMMA LengthBound ==
  ASSUME NEW q, NEW n \in Nat, NEW sq, Represents(q, n, sq)
  PROVE  n \in 0..STATIC_PROCESSES
<1>1. sq \in Injection(1..n, Slots)
  BY DEF Represents, Injection, IsInjective
<1>2. IsFiniteSet(Slots) /\ Cardinality(Slots) = STATIC_PROCESSES
  BY FS_Interval, StaticProcessesAssumption DEF Slots
<1>3. Cardinality(1..n) = n
  BY FS_Interval
<1>4. Cardinality(1..n) <= Cardinality(Slots)
  BY <1>1, <1>2, FS_Injection
<1> QED BY <1>2, <1>3, <1>4, StaticProcessesAssumption

\* The queue that scheduler_init leaves holds no process.
LEMMA EmptyHolds == HoldsExactly(EmptyQueue, {})
<1> DEFINE sq == [i \in 1..0 |-> NULL]
<1>1. sq \in [1..0 -> Slots]
  OBVIOUS
<1>2. Represents(EmptyQueue, 0, sq)
  BY <1>1 DEF Represents, EmptyQueue
<1>3. {} = {sq[i] : i \in 1..0}
  OBVIOUS
<1>4. 0 \in 0..STATIC_PROCESSES
  BY StaticProcessesAssumption
<1> HIDE DEF sq
<1>5. \E f \in [1..0 -> Slots] :
         Represents(EmptyQueue, 0, f) /\ {} = {f[i] : i \in 1..0}
  BY <1>1, <1>2, <1>3
<1> QED BY <1>4, <1>5, Zenon DEF HoldsExactly

\* Adding a process that is not queued.
LEMMA AddHolds ==
  ASSUME NEW q \in Queue, NEW S, HoldsExactly(q, S), NEW p \in Slots, p \notin S
  PROVE  HoldsExactly(add_to_ready_queue(q, p), S \cup {p})
<1>0. PICK n \in 0..STATIC_PROCESSES : \E sq \in [1..n -> Slots] :
         Represents(q, n, sq) /\ S = {sq[i] : i \in 1..n}
  BY DEF HoldsExactly
<1>1. PICK sq \in [1..n -> Slots] :
         Represents(q, n, sq) /\ S = {sq[i] : i \in 1..n}
  BY <1>0
<1> DEFINE t == [i \in 1..(n + 1) |-> IF i = n + 1 THEN p ELSE sq[i]]
<1>2. n \in Nat /\ n + 1 \in Nat
  BY StaticProcessesAssumption
<1>3. \A i \in 1..n : sq[i] # p
  BY <1>1
<1>4. Represents(add_to_ready_queue(q, p), n + 1, t)
  BY <1>1, <1>2, <1>3, AddAppends
<1>5. n + 1 \in 0..STATIC_PROCESSES
  BY <1>2, <1>4, LengthBound
<1>6. t \in [1..(n + 1) -> Slots]
  BY <1>2
<1>7. S \cup {p} = {t[i] : i \in 1..(n + 1)}
  <2>1. \A i \in 1..n : t[i] = sq[i] /\ i \in 1..(n + 1)
    BY <1>2
  <2>2. t[n + 1] = p /\ n + 1 \in 1..(n + 1)
    BY <1>2
  <2>3. \A i \in 1..(n + 1) : i # n + 1 => i \in 1..n /\ t[i] = sq[i]
    BY <1>2
  <2> QED BY <1>1, <2>1, <2>2, <2>3
<1> QED BY <1>4, <1>5, <1>6, <1>7 DEF HoldsExactly

\* Removing a process that is queued.
LEMMA RemoveHolds ==
  ASSUME NEW q \in Queue, NEW S, HoldsExactly(q, S), NEW p \in S
  PROVE  HoldsExactly(remove_from_ready_queue(q, p), S \ {p})
<1>0. PICK n \in 0..STATIC_PROCESSES : \E sq \in [1..n -> Slots] :
         Represents(q, n, sq) /\ S = {sq[i] : i \in 1..n}
  BY DEF HoldsExactly
<1>1. PICK sq \in [1..n -> Slots] :
         Represents(q, n, sq) /\ S = {sq[i] : i \in 1..n}
  BY <1>0
<1>2. PICK k \in 1..n : p = sq[k]
  BY <1>1
<1> DEFINE t == [i \in 1..(n - 1) |-> IF i < k THEN sq[i] ELSE sq[i + 1]]
<1>3. n \in Nat /\ n - 1 \in Nat /\ n - 1 \in 0..STATIC_PROCESSES
  BY <1>2, StaticProcessesAssumption
<1>4. Represents(remove_from_ready_queue(q, p), n - 1, t)
  BY <1>1, <1>2, <1>3, RemoveDeletes
<1>5. t \in [1..(n - 1) -> Slots]
  BY <1>3
<1>6. S \ {p} = {t[i] : i \in 1..(n - 1)}
  <2>1. \A i, j \in 1..n : sq[i] = sq[j] => i = j
    BY <1>1 DEF Represents
  <2>2. ASSUME NEW i \in 1..(n - 1) PROVE t[i] \in S \ {p}
    <3>1. CASE i < k
      BY <3>1, <1>1, <1>2, <1>3, <2>1, i \in 1..n
    <3>2. CASE ~(i < k)
      BY <3>2, <1>1, <1>2, <1>3, <2>1, i + 1 \in 1..n
    <3> QED BY <3>1, <3>2
  <2>3. ASSUME NEW s \in S \ {p} PROVE \E i \in 1..(n - 1) : t[i] = s
    <3>1. PICK i \in 1..n : s = sq[i]
      BY <1>1
    <3>2. CASE i < k
      BY <3>1, <3>2, <1>2, <1>3, i \in 1..(n - 1)
    <3>3. CASE i > k
      BY <3>1, <3>3, <1>2, <1>3, i - 1 \in 1..(n - 1), t[i - 1] = sq[i]
    <3> QED BY <3>1, <3>2, <3>3, <1>2
  <2> QED BY <2>2, <2>3
<1> QED BY <1>3, <1>4, <1>5, <1>6 DEF HoldsExactly

\* What the pointers of a well linked queue may point at.
LEMMA HoldsPointers ==
  ASSUME NEW q \in Queue, NEW S, HoldsExactly(q, S)
  PROVE  /\ S \subseteq Slots
         /\ q.head \in S \cup {NULL} /\ q.tail \in S \cup {NULL}
         /\ \A s \in Slots : /\ q.next[s] \in S \cup {NULL}
                             /\ q.prev[s] \in S \cup {NULL}
                             /\ s \notin S => q.next[s] = NULL /\ q.prev[s] = NULL
<1>0. PICK n \in 0..STATIC_PROCESSES : \E sq \in [1..n -> Slots] :
         Represents(q, n, sq) /\ S = {sq[i] : i \in 1..n}
  BY DEF HoldsExactly
<1>1. PICK sq \in [1..n -> Slots] :
         Represents(q, n, sq) /\ S = {sq[i] : i \in 1..n}
  BY <1>0
<1>2. n \in Nat
  BY StaticProcessesAssumption
<1>3. /\ q.head = IF n = 0 THEN NULL ELSE sq[1]
      /\ q.tail = IF n = 0 THEN NULL ELSE sq[n]
      /\ \A i \in 1..n :
           /\ q.next[sq[i]] = IF i = n THEN NULL ELSE sq[i + 1]
           /\ q.prev[sq[i]] = IF i = 1 THEN NULL ELSE sq[i - 1]
      /\ \A s \in Slots :
           (\A i \in 1..n : sq[i] # s) => q.next[s] = NULL /\ q.prev[s] = NULL
  BY <1>1 DEF Represents
<1>4. \A i \in 1..n : sq[i] \in S
  BY <1>1
<1>5. S \subseteq Slots
  BY <1>1
<1>6. q.head \in S \cup {NULL} /\ q.tail \in S \cup {NULL}
  BY <1>2, <1>3, <1>4
<1>7. ASSUME NEW s \in Slots
      PROVE  /\ q.next[s] \in S \cup {NULL}
             /\ q.prev[s] \in S \cup {NULL}
             /\ s \notin S => q.next[s] = NULL /\ q.prev[s] = NULL
  <2>1. CASE s \in S
    <3>1. PICK i \in 1..n : s = sq[i]
      BY <2>1, <1>1
    <3>2. (i # n => i + 1 \in 1..n) /\ (i # 1 => i - 1 \in 1..n)
      BY <1>2
    <3> QED BY <2>1, <3>1, <3>2, <1>3, <1>4
  <2>2. CASE s \notin S
    BY <2>2, <1>1, <1>3
  <2> QED BY <2>1, <2>2
<1> QED BY <1>5, <1>6, <1>7

-------------------------------------------------------------------------------
(* The order of the queue, as a sequence.                                  *)

\* The order of the natural numbers as the relation that WFMin is about.
LEMMA LessThanIn == \A x, y \in Nat : x < y => <<x, y>> \in OpToRel(<, Nat)
BY DEF OpToRel

\* A nonempty set of natural numbers has a least element.
LEMMA LeastNumber ==
  ASSUME NEW T \in SUBSET Nat, T # {}
  PROVE  \E x \in T : \A y \in T : x <= y
<1>1. PICK x \in T : \A y \in T : ~(<<y, x>> \in OpToRel(<, Nat))
  BY NatLessThanWellFounded, WFMin
<1>2. \A y \in T : ~(y < x)
  BY <1>1, LessThanIn
<1> QED BY <1>2

\* Following the next pointers from the head visits sq in order, then NULL.
LEMMA WalkFollows ==
  ASSUME NEW q \in Queue, NEW n \in Nat, NEW sq, Represents(q, n, sq)
  PROVE  Walk(q) = [i \in 1..STATIC_PROCESSES |-> IF i <= n THEN sq[i] ELSE NULL]
<1> DEFINE N == STATIC_PROCESSES
           Step(w) == [i \in 1..N |-> IF i = 1 THEN q.head
                                     ELSE IF w[i - 1] = NULL THEN NULL ELSE q.next[w[i - 1]]]
           g == [i \in 1..N |-> IF i <= n THEN sq[i] ELSE NULL]
           W == Walk(q)
<1>1. n \in 0..N /\ N \in Nat
  BY LengthBound, StaticProcessesAssumption
<1>2. /\ sq \in [1..n -> Slots]
      /\ q.head = IF n = 0 THEN NULL ELSE sq[1]
      /\ \A i \in 1..n : q.next[sq[i]] = IF i = n THEN NULL ELSE sq[i + 1]
  BY DEF Represents
<1>3. g = Step(g)
  <2>1. ASSUME NEW i \in 1..N PROVE g[i] = Step(g)[i]
    <3>1. CASE i = 1
      BY <3>1, <1>1, <1>2
    <3>2. CASE i # 1 /\ i - 1 < n
      <4>1. i - 1 \in 1..n /\ i - 1 \in 1..N /\ i - 1 # n /\ (i - 1) + 1 = i
        BY <3>2, <1>1
      <4>2. g[i - 1] = sq[i - 1] /\ sq[i - 1] # NULL
        BY <4>1, <1>2, NullIsNoSlot
      <4>3. q.next[sq[i - 1]] = sq[i]
        BY <4>1, <1>2
      <4> QED BY <3>2, <4>2, <4>3, <1>1
    <3>3. CASE i # 1 /\ i - 1 = n
      <4>1. i - 1 \in 1..n /\ i - 1 \in 1..N
        BY <3>3, <1>1
      <4>2. g[i - 1] = sq[i - 1] /\ q.next[sq[i - 1]] = NULL
        BY <4>1, <3>3, <1>2
      <4> QED BY <3>3, <4>2, <1>1
    <3>4. CASE i # 1 /\ i - 1 > n
      <4>1. i - 1 \in 1..N /\ ~(i - 1 <= n) /\ ~(i <= n)
        BY <3>4, <1>1
      <4>2. g[i - 1] = NULL
        BY <4>1
      <4> QED BY <3>4, <4>1, <4>2
    <3> QED BY <3>1, <3>2, <3>3, <3>4, <1>1
  <2> HIDE DEF N
  <2> QED BY <2>1
<1>4. W = CHOOSE w : w = Step(w)
  BY DEF Walk
<1> HIDE DEF g
<1>5. W = Step(W)
  <2> HIDE DEF Step, W
  <2> QED BY <1>3, <1>4
<1> HIDE DEF W
<1>6. \A i \in 1..N : W[i] = g[i]
  <2> DEFINE T == {i \in 1..N : W[i] # g[i]}
  <2> SUFFICES ASSUME T # {} PROVE FALSE
    OBVIOUS
  <2>1. T \in SUBSET Nat
    BY <1>1
  <2>2. PICK x \in T : \A y \in T : x <= y
    <3> HIDE DEF T
    <3> QED BY <2>1, LeastNumber
  <2>3. x \in 1..N /\ W[x] # g[x] /\ \A y \in 1..N : y < x => W[y] = g[y]
    BY <2>2, <1>1
  <2>4. W[x] = Step(W)[x] /\ g[x] = Step(g)[x]
    BY <1>3, <1>5
  <2>5. x # 1 => x - 1 \in 1..N /\ W[x - 1] = g[x - 1]
    BY <2>3, <1>1
  <2> QED BY <2>3, <2>4, <2>5
<1>7. W = [i \in 1..N |-> W[i]] /\ g = [i \in 1..N |-> g[i]]
  <2>1. W = [i \in 1..N |-> W[i]]
    BY <1>5
  <2> QED BY <2>1 DEF g
<1>8. W = g
  BY <1>6, <1>7
<1> QED BY <1>8 DEF W, g

\* So Order is the sequence that the queue represents.
LEMMA OrderIs ==
  ASSUME NEW q \in Queue, NEW n \in Nat, NEW sq, Represents(q, n, sq)
  PROVE  Order(q) = sq
<1> DEFINE W == Walk(q)
           D == {j \in 1..STATIC_PROCESSES : W[j] # NULL}
<1>1. n \in 0..STATIC_PROCESSES /\ STATIC_PROCESSES \in Nat
  BY LengthBound, StaticProcessesAssumption
<1>2. sq \in [1..n -> Slots]
  BY DEF Represents
<1>3. W = [i \in 1..STATIC_PROCESSES |-> IF i <= n THEN sq[i] ELSE NULL]
  BY WalkFollows
<1>4. Order(q) = [i \in D |-> W[i]]
  BY DEF Order
<1> HIDE DEF W
<1>5. \A i \in 1..STATIC_PROCESSES : W[i] # NULL <=> i <= n
  BY <1>1, <1>2, <1>3, NullIsNoSlot
<1>6. D = 1..n
  BY <1>1, <1>5
<1>7. \A i \in 1..n : W[i] = sq[i]
  BY <1>1, <1>3
<1> HIDE DEF D
<1> QED BY <1>2, <1>4, <1>6, <1>7

\* A queue of S, in order: a sequence of the processes of S, each once.
LEMMA OrderSequence ==
  ASSUME NEW q \in Queue, NEW S, HoldsExactly(q, S)
  PROVE  /\ Order(q) \in Seq(Slots)
         /\ Represents(q, Len(Order(q)), Order(q))
         /\ S = {Order(q)[i] : i \in 1..Len(Order(q))}
         /\ Order(q) = <<>> <=> q.head = NULL
         /\ q.head # NULL => q.head = Head(Order(q))
<1>0. PICK n \in 0..STATIC_PROCESSES : \E sq \in [1..n -> Slots] :
         Represents(q, n, sq) /\ S = {sq[i] : i \in 1..n}
  BY DEF HoldsExactly
<1>1. PICK sq \in [1..n -> Slots] :
         Represents(q, n, sq) /\ S = {sq[i] : i \in 1..n}
  BY <1>0
<1>2. n \in Nat
  BY StaticProcessesAssumption
<1>3. Order(q) = sq
  BY <1>1, <1>2, OrderIs
<1>4. sq \in Seq(Slots) /\ Len(sq) = n
  BY <1>1, <1>2
<1>5. q.head = IF n = 0 THEN NULL ELSE sq[1]
  BY <1>1 DEF Represents
<1>6. sq = <<>> <=> n = 0
  BY <1>4
<1>7. n # 0 => sq[1] \in Slots /\ Head(sq) = sq[1]
  BY <1>1, <1>2, <1>4, <1>6
<1>8. q.head = NULL <=> n = 0
  BY <1>5, <1>7, NullIsNoSlot
<1> QED BY <1>1, <1>3, <1>4, <1>5, <1>6, <1>7, <1>8

\* Two sequences of processes that agree everywhere are the same.
LEMMA SameSequence ==
  ASSUME NEW s \in Seq(Slots), NEW t \in Seq(Slots), NEW n \in Nat,
         Len(s) = n, Len(t) = n, \A i \in 1..n : s[i] = t[i]
  PROVE  s = t
OBVIOUS

\* add_to_ready_queue appends to the order.
LEMMA OrderAdd ==
  ASSUME NEW q \in Queue, NEW S, HoldsExactly(q, S), NEW p \in Slots, p \notin S
  PROVE  Order(add_to_ready_queue(q, p)) = Append(Order(q), p)
<1> DEFINE o == Order(q)
           n == Len(o)
           t == [i \in 1..(n + 1) |-> IF i = n + 1 THEN p ELSE o[i]]
<1>1. o \in Seq(Slots) /\ Represents(q, n, o) /\ S = {o[i] : i \in 1..n}
  BY OrderSequence
<1> HIDE DEF o
<1>2. n \in Nat /\ o \in [1..n -> Slots]
  BY <1>1
<1>3. \A i \in 1..n : o[i] # p
  BY <1>1
<1>4. Represents(add_to_ready_queue(q, p), n + 1, t)
  <2> HIDE DEF n
  <2> QED BY <1>1, <1>2, <1>3, AddAppends
<1>5. Order(add_to_ready_queue(q, p)) = t
  <2>1. add_to_ready_queue(q, p) \in Queue /\ n + 1 \in Nat
    BY <1>2, AddType
  <2> HIDE DEF n, t
  <2> QED BY <1>4, <2>1, OrderIs
<1>6. t = Append(o, p)
  <2>1. n + 1 \in Nat /\ t \in Seq(Slots) /\ Len(t) = n + 1
    <3>1. n + 1 \in Nat /\ t \in [1..(n + 1) -> Slots]
      BY <1>2
    <3> HIDE DEF t, n
    <3> QED BY <3>1
  <2>2. Append(o, p) \in Seq(Slots) /\ Len(Append(o, p)) = n + 1
    BY <1>1
  <2>3. \A i \in 1..(n + 1) : t[i] = Append(o, p)[i]
    BY <1>1, <1>2
  <2> HIDE DEF t, n
  <2> QED BY <1>2, <2>1, <2>2, <2>3, SameSequence
<1> QED BY <1>5, <1>6 DEF o

\* remove_from_ready_queue takes the k-th process out of the order.
LEMMA OrderRemove ==
  ASSUME NEW q \in Queue, NEW S, HoldsExactly(q, S), NEW k \in 1..Len(Order(q))
  PROVE  Order(remove_from_ready_queue(q, Order(q)[k]))
           = [i \in 1..(Len(Order(q)) - 1) |->
                IF i < k THEN Order(q)[i] ELSE Order(q)[i + 1]]
<1> DEFINE o == Order(q)
           n == Len(o)
           r == remove_from_ready_queue(q, o[k])
           t == [i \in 1..(n - 1) |-> IF i < k THEN o[i] ELSE o[i + 1]]
<1>1. o \in Seq(Slots) /\ Represents(q, n, o)
  BY OrderSequence
<1>2. k \in 1..n
  OBVIOUS
<1> HIDE DEF o
<1>3. n \in Nat /\ n - 1 \in Nat /\ o[k] \in Slots
  BY <1>1, <1>2
<1>4. Represents(r, n - 1, t)
  <2> HIDE DEF n
  <2> QED BY <1>1, <1>2, <1>3, RemoveDeletes
<1>5. r \in Queue
  BY <1>3, RemoveType
<1>6. Order(r) = t
  <2> HIDE DEF n, t, r
  <2> QED BY <1>3, <1>4, <1>5, OrderIs
<1> QED BY <1>6 DEF o
===============================================================================
