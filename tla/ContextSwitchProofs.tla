------------------------- MODULE ContextSwitchProofs -------------------------
(***************************************************************************)
(* The safety properties of ContextSwitch, for any number of processes and *)
(* any names.                                                              *)
(***************************************************************************)
EXTENDS ContextSwitch, TLAPS

\* The registers are sixteen different ones.
LEMMA CpuStateInjective ==
  ASSUME NEW j \in 1..16, NEW k \in 1..16, CpuState[j] = CpuState[k]
  PROVE  j = k
BY DEF CpuState

\* The offset of the k-th register in cpu_state.
LEMMA AtValue ==
  ASSUME NEW k \in 1..16
  PROVE  At(CpuState[k]) = 4 * (k - 1)
<1>1. (CHOOSE j \in 1..16 : CpuState[j] = CpuState[k]) = k
  BY CpuStateInjective
<1> QED BY <1>1 DEF At

\* Every register has a word of its own in a PCB, where the assembly looks for it.
LEMMA CpuStatePlace ==
  ASSUME NEW r \in Regs
  PROVE  /\ cpu_state(r) \in Offsets
         /\ \A s \in Regs : cpu_state(s) = cpu_state(r) => s = r
<1>1. PICK k \in 1..16 : r = CpuState[k]
  BY DEF Regs
<1>2. PICK n \in 0..6 : CPU_STATE_OFFSET = 4 * n
  BY ContextSwitchAssumption
<1>3. cpu_state(r) = 4 * (n + k - 1) /\ n + k - 1 \in 0..36
  BY <1>1, <1>2, AtValue DEF cpu_state
<1>4. ASSUME NEW s \in Regs, cpu_state(s) = cpu_state(r)
      PROVE  s = r
  <2>1. PICK j \in 1..16 : s = CpuState[j]
    BY DEF Regs
  <2>2. cpu_state(s) = 4 * (n + j - 1)
    BY <1>2, <2>1, AtValue DEF cpu_state
  <2>3. j = k
    BY <1>3, <1>4, <2>2
  <2> QED BY <1>1, <2>1, <2>3
<1> QED BY <1>3, <1>4 DEF Offsets

\* The registers that the proofs name.
LEMMA Named ==
  /\ {"esp", "ebp", "eax", "ebx"} \subseteq Regs \ {"eip"} /\ "eip" \in Regs
  /\ {"eax", "ebx", "ecx", "edx", "esi", "edi", "esp", "ebp", "eip", "eflags",
      "cs", "ds", "es", "fs", "gs", "ss"} = Regs
  /\ \A k \in 1..5 : Segments[k] \in Regs \ {"eip", "esp", "ebp", "eax", "ebx", "eflags", "cs"}
  /\ \A j, k \in 1..5 : Segments[j] = Segments[k] => j = k
<1>1. Regs = {CpuState[1], CpuState[2], CpuState[3], CpuState[4], CpuState[5], CpuState[6],
              CpuState[7], CpuState[8], CpuState[9], CpuState[10], CpuState[11],
              CpuState[12], CpuState[13], CpuState[14], CpuState[15], CpuState[16]}
  BY DEF Regs
<1>2. {"eax", "ebx", "ecx", "edx", "esi", "edi", "esp", "ebp", "eip", "eflags",
       "cs", "ds", "es", "fs", "gs", "ss"} = Regs
  BY <1>1 DEF CpuState
<1> HIDE DEF Regs
<1>3. \A k \in 1..5 : Segments[k] \in {"ds", "es", "fs", "gs", "ss"}
  BY DEF Segments
<1>4. \A j, k \in 1..5 : Segments[j] = Segments[k] => j = k
  BY DEF Segments
<1> QED BY <1>2, <1>3, <1>4

\* What the assembly takes for the ds of a PCB that was never saved.
LEMMA FreshDs ==
  ASSUME NEW p \in Procs, NEW end \in NameEnds
  PROVE  Fresh(p, end)[cpu_state("ds")] \in {0, LETTERS}
<1>1. At("ds") = 44
  <2>1. CpuState[12] = "ds"
    BY DEF CpuState
  <2> QED BY <2>1, AtValue
<1>2. cpu_state("ds") \in 44..68 /\ cpu_state("ds") \in Offsets
  <2>1. "ds" \in Regs
    BY Named
  <2> QED BY <1>1, <2>1, CpuStatePlace, ContextSwitchAssumption DEF cpu_state
<1> DEFINE o == cpu_state("ds")
<1>3. \A r \in Regs : o # CPU_STATE_AT + At(r)
  BY <1>2, AtValue DEF Regs, CPU_STATE_AT
<1>4. /\ o # 0 /\ o \in NAME_AT..(STATE_AT - 1) /\ o \in Offsets
      /\ o # STATE_AT /\ o # PRIORITY_AT
      /\ o # CPU_STATE_AT + At("eip") /\ o # CPU_STATE_AT + At("eflags")
      /\ o # CPU_STATE_AT + At("esp") /\ o # CPU_STATE_AT + At("cs")
      /\ ~\E k \in 1..5 : o = CPU_STATE_AT + At(Segments[k])
  BY <1>2, <1>3, Named DEF NAME_AT, STATE_AT, PRIORITY_AT
<1> HIDE DEF o
<1>5. Fresh(p, end)[o] = IF o < end THEN LETTERS ELSE 0
  BY <1>4 DEF Fresh
<1> QED BY <1>5 DEF o

\* A PCB holds numbers.
LEMMA FreshType ==
  ASSUME NEW p \in Procs, NEW end \in NameEnds
  PROVE  Fresh(p, end) \in [Offsets -> Nat]
BY ContextSwitchAssumption DEF Fresh, LETTERS, Entry, KERNEL_CS, KERNEL_DS

\* The loader's segments are selectors, and so neither null nor letters.
LEMMA SelectorFacts ==
  /\ Selectors \subseteq Nat /\ \A sel \in Selectors : ~Null(sel) /\ sel # LETTERS
  /\ LETTERS \in Nat /\ ~Null(LETTERS) /\ Null(0)
BY ContextSwitchAssumption DEF LETTERS, Null

\* The kernel before it calls the switch satisfies the invariant.
LEMMA InitInv == Init => IInv
<1> SUFFICES ASSUME Init PROVE IInv
  OBVIOUS
<1>1. PICK end \in [Procs -> NameEnds] : pcb = [p \in Procs |-> Fresh(p, end[p])]
  BY DEF Init
<1>2. \A r \in Regs : At(r) \in Nat
  BY AtValue DEF Regs
<1>3. /\ reg \in [Regs \ {"eip"} -> Nat] /\ reg["esp"] = 0 /\ reg["ebp"] = 0
      /\ KernelSegments
  <2> DEFINE f(r) == CASE r = "esp" -> 0 [] r = "ebp" -> 0
                       [] r \in {"ds", "es", "fs", "gs", "ss"} -> boot_seg[r]
                       [] r = "eflags" -> 2
                       [] OTHER -> 100 + At(r)
  <2>1. reg = [r \in Regs \ {"eip"} |-> f(r)]
    BY DEF Init
  <2>2. \A r \in Regs : f(r) \in Nat
    <3>1. \A r \in {"ds", "es", "fs", "gs", "ss"} : boot_seg[r] \in Nat
      <4>1. {"ds", "es", "fs", "gs", "ss"} \subseteq {Segments[k] : k \in 1..5}
        <5>1. /\ Segments[1] = "ds" /\ Segments[2] = "es" /\ Segments[3] = "fs"
              /\ Segments[4] = "gs" /\ Segments[5] = "ss"
          BY DEF Segments
        <5> QED BY <5>1
      <4> QED BY <4>1, SelectorFacts DEF Init
    <3> QED BY <1>2, <3>1
  <2>3. f("esp") = 0 /\ f("ebp") = 0
    OBVIOUS
  <2>4. \A r \in {"ds", "es", "fs", "gs", "ss"} : f(r) = boot_seg[r]
    OBVIOUS
  <2> HIDE DEF f
  <2>5. \A k \in 1..5 : Segments[k] \in {"ds", "es", "fs", "gs", "ss"}
    BY DEF Segments
  <2> QED BY <2>1, <2>2, <2>3, <2>4, <2>5, Named DEF KernelSegments
<1>4. pcb \in [Procs -> [Offsets -> Nat]]
  BY <1>1, FreshType
<1>5. TypeOK
  BY <1>3, <1>4 DEF Init, TypeOK, Labels, STACK
<1>6. ContextInv
  BY <1>1, FreshDs DEF Init, ContextInv
<1>7. FrameInv
  BY <1>3 DEF Init, FrameInv
<1> QED BY <1>5, <1>6, <1>7 DEF IInv

\* schedule()'s call of the switch sets up the frame of the first case of FrameInv.
LEMMA SwitchStep ==
  ASSUME IInv, pc = "C", NEW st \in [1..STACK -> Nat], NEW esp \in {0, 2},
         NEW old \in Procs \cup {NULL}, NEW new \in Procs, NEW ret \in Nat,
         context_switch(st, esp, old, new, ret), UNCHANGED <<gdt, boot_seg>>
  PROVE  IInv'
<1> USE DEF IInv
<1>1. TypeOK /\ ContextInv /\ reg["esp"] = 0 /\ reg["ebp"] = 0 /\ KernelSegments
  BY DEF FrameInv
<1>2. reg \in [Regs \ {"eip"} -> Nat] /\ Procs \subseteq Nat \ {0} /\ NULL = 0
  BY <1>1, ContextSwitchAssumption DEF TypeOK, NULL
<1>3. /\ stack' = Push(st, esp, IF old = NULL THEN <<new, old, ret, reg["ebp"]>>
                               ELSE <<new, old, ret, reg["ebp"], old, AFTER_SAVE>>)
      /\ reg' = [reg EXCEPT !["eax"] = old, !["ebp"] = esp + 4,
                            !["esp"] = IF old = NULL THEN esp + 4 ELSE esp + 6]
      /\ pc' = IF old = NULL THEN ".no_save" ELSE "save_context"
      /\ UNCHANGED <<pcb, loaded, saved>>
  BY DEF context_switch
<1>4. /\ reg' \in [Regs \ {"eip"} -> Nat]
      /\ reg'["ebp"] = esp + 4 /\ reg'["esp"] = IF old = NULL THEN esp + 4 ELSE esp + 6
      /\ \A k \in 1..5 : reg'[Segments[k]] = reg[Segments[k]]
  <2>1. old \in Nat /\ esp + 4 \in Nat /\ esp + 6 \in Nat
    BY <1>2
  <2>2. reg' \in [Regs \ {"eip"} -> Nat]
    BY <1>2, <1>3, <2>1, Named
  <2>3. reg'["ebp"] = esp + 4 /\ reg'["esp"] = IF old = NULL THEN esp + 4 ELSE esp + 6
    BY <1>2, <1>3, <2>1, Named
  <2>4. \A k \in 1..5 : reg'[Segments[k]] = reg[Segments[k]]
    BY <1>2, <1>3, <2>1, Named
  <2> QED BY <2>2, <2>3, <2>4
<1>5. KernelSegments'
  BY <1>1, <1>4 DEF KernelSegments
<1>6. /\ stack' \in [1..STACK -> Nat] /\ stack'[esp + 1] = new
      /\ old # NULL => stack'[esp + 5] = old /\ stack'[esp + 6] = AFTER_SAVE
  <2>1. new \in Nat /\ old \in Nat /\ reg["ebp"] \in Nat /\ AFTER_SAVE \in Nat
    BY <1>1, <1>2 DEF AFTER_SAVE
  <2>2. esp \in 0..(STACK - 6) /\ esp \in 0..(STACK - 4)
    BY DEF STACK
  <2>3. CASE old = NULL
    <3> DEFINE words == <<new, old, ret, reg["ebp"]>>
    <3>1. stack' = Push(st, esp, words)
      BY <1>3, <2>3
    <3>2. Len(words) = 4 /\ words[1] = new /\ \A i \in 1..4 : words[i] \in Nat
      BY <2>1
    <3> HIDE DEF words
    <3>3. stack' = [i \in 1..STACK |-> IF i \in (esp + 1)..(esp + 4) THEN words[i - esp]
                                      ELSE st[i]]
      BY <3>1, <3>2 DEF Push
    <3>4. \A i \in (esp + 1)..(esp + 4) : i - esp \in 1..4 /\ words[i - esp] \in Nat
      BY <3>2
    <3>5. stack' \in [1..STACK -> Nat]
      BY <3>3, <3>4
    <3>6. stack'[esp + 1] = words[1]
      BY <3>3 DEF STACK
    <3> QED BY <2>3, <3>2, <3>5, <3>6
  <2>4. CASE old # NULL
    <3> DEFINE words == <<new, old, ret, reg["ebp"], old, AFTER_SAVE>>
    <3>1. stack' = Push(st, esp, words)
      BY <1>3, <2>4
    <3>2. /\ Len(words) = 6 /\ words[1] = new /\ words[5] = old /\ words[6] = AFTER_SAVE
          /\ \A i \in 1..6 : words[i] \in Nat
      BY <2>1
    <3> HIDE DEF words
    <3>3. stack' = [i \in 1..STACK |-> IF i \in (esp + 1)..(esp + 6) THEN words[i - esp]
                                      ELSE st[i]]
      BY <3>1, <3>2 DEF Push
    <3>4. \A i \in (esp + 1)..(esp + 6) : i - esp \in 1..6 /\ words[i - esp] \in Nat
      BY <3>2
    <3>5. stack' \in [1..STACK -> Nat]
      BY <3>3, <3>4
    <3>6. stack'[esp + 1] = words[1] /\ stack'[esp + 5] = words[5] /\ stack'[esp + 6] = words[6]
      BY <3>3 DEF STACK
    <3> QED BY <3>2, <3>5, <3>6
  <2> QED BY <2>3, <2>4
<1>7. TypeOK'
  <2>1. reg'["esp"] \in 0..STACK /\ reg'["ebp"] \in 0..STACK
    BY <1>4 DEF STACK
  <2> QED BY <1>1, <1>3, <1>4, <1>6, <2>1 DEF TypeOK, Labels
<1>8. \A p \in Procs : saved[p] = <<>> /\ pcb[p][cpu_state("ds")] \in {0, LETTERS}
  BY <1>1 DEF ContextInv
<1>9. ContextInv'
  BY <1>3, <1>8 DEF ContextInv
<1>10. FrameInv'
  <2> DEFINE b == esp + 4
  <2>1. b \in {4, 6} /\ b - 3 = esp + 1 /\ b + 1 = esp + 5 /\ b + 2 = esp + 6
    OBVIOUS
  <2>2. reg'["ebp"] = b /\ stack'[b - 3] \in Procs
    BY <1>4, <1>6, <2>1
  <2>3. CASE old = NULL
    BY <1>3, <1>4, <1>5, <2>1, <2>2, <2>3 DEF FrameInv
  <2>4. CASE old # NULL
    <3>1. /\ reg'["esp"] = b + 2 /\ stack'[b + 1] \in Procs /\ stack'[b + 2] = AFTER_SAVE
          /\ pc' = "save_context"
      BY <1>3, <1>4, <1>6, <2>1, <2>4
    <3> HIDE DEF b
    <3> QED BY <1>5, <2>1, <2>2, <3>1 DEF FrameInv
  <2> QED BY <2>3, <2>4
<1> QED BY <1>7, <1>9, <1>10

\* schedule() calls the switch.
LEMMA ScheduleStep ==
  ASSUME IInv, schedule, UNCHANGED <<gdt, boot_seg>>
  PROVE  IInv'
<1>1. /\ pc = "C" /\ reg["esp"] = 0 /\ stack \in [1..STACK -> Nat]
      /\ Procs \subseteq Nat \ {0} /\ 1 \in Procs
  BY ContextSwitchAssumption DEF schedule, IInv, FrameInv, TypeOK
<1>2. SCHEDULE \in Nat /\ AFTER_SWITCH \in Nat
  BY DEF SCHEDULE, AFTER_SWITCH
<1>3. CASE \E old, new \in Procs :
             old # new /\ context_switch(stack, reg["esp"], old, new, SCHEDULE)
  BY <1>1, <1>2, <1>3, SwitchStep
<1>4. CASE context_switch(stack, reg["esp"], NULL, 1, SCHEDULE)
  BY <1>1, <1>2, <1>4, SwitchStep
<1>5. CASE \E new \in Procs : switch_to_process(new)
  <2>1. PICK new \in Procs : switch_to_process(new)
    BY <1>5
  <2> DEFINE st == Push(stack, reg["esp"], <<new, SCHEDULE>>)
  <2>2. st \in [1..STACK -> Nat]
    <3> DEFINE words == <<new, SCHEDULE>>
    <3>1. Len(words) = 2 /\ \A i \in 1..2 : words[i] \in Nat
      BY <1>1, <1>2
    <3> HIDE DEF words
    <3>2. Push(stack, 0, words) \in [1..STACK -> Nat]
      BY <1>1, <3>1 DEF Push
    <3> QED BY <1>1, <3>2 DEF words
  <2>3. context_switch(st, 2, new, new, AFTER_SWITCH)
    BY <1>1, <2>1 DEF switch_to_process
  <2> HIDE DEF st
  <2> QED BY <1>1, <1>2, <2>2, <2>3, SwitchStep
<1> QED BY <1>3, <1>4, <1>5 DEF schedule

\* save_context stores the registers, and only them, where restore_context reads.
LEMMA SaveStep ==
  ASSUME IInv, save_context, UNCHANGED <<gdt, boot_seg>>
  PROVE  IInv'
<1> USE DEF IInv
<1> DEFINE b == reg["ebp"]
           p == stack[reg["esp"] - 1]
<1>1. /\ TypeOK /\ ContextInv /\ pc = "save_context"
      /\ b \in {4, 6} /\ stack[b - 3] \in Procs /\ reg["esp"] = b + 2
      /\ stack[b + 1] \in Procs /\ stack[b + 2] = AFTER_SAVE /\ KernelSegments
  BY DEF save_context, FrameInv
<1>2. p = stack[b + 1] /\ p \in Procs
  <2>1. reg["esp"] - 1 = b + 1
    BY <1>1
  <2> QED BY <1>1, <2>1
<1>3. /\ pcb \in [Procs -> [Offsets -> Nat]] /\ reg \in [Regs \ {"eip"} -> Nat]
      /\ stack \in [1..STACK -> Nat] /\ loaded \in 0..5
      /\ saved \in [Procs -> {<<>>} \cup ((0..STACK) \X (0..STACK))]
  BY <1>1 DEF TypeOK
<1> DEFINE stored == [o \in Offsets |->
                        IF \E r \in Regs : o = cpu_state(r)
                          THEN SavedRegs[CHOOSE r \in Regs : o = cpu_state(r)]
                          ELSE pcb[p][o]]
<1>4. /\ pcb' = [pcb EXCEPT ![p] = stored]
      /\ reg' = [reg EXCEPT !["esp"] = b + 1]
      /\ saved' = [saved EXCEPT ![p] = <<b + 1, b>>]
      /\ pc' = "after_save" /\ UNCHANGED <<stack, loaded>>
  <2>1. reg["esp"] - 1 = b + 1
    BY <1>1
  <2> QED BY <2>1 DEF save_context
<1>5. \A r \in Regs : stored[cpu_state(r)] = SavedRegs[r]
  <2> TAKE r \in Regs
  <2>1. (CHOOSE s \in Regs : cpu_state(r) = cpu_state(s)) = r
    BY CpuStatePlace
  <2> QED BY <2>1, CpuStatePlace
<1>6. SavedRegs \in [Regs -> Nat]
  <2>1. SavedEsp \in Nat /\ stack[reg["esp"]] \in Nat /\ b \in Nat
    BY <1>1 DEF SavedEsp, AFTER_SAVE
  <2>2. \A r \in Regs \ {"eip"} : reg[r] \in Nat
    BY <1>3
  <2> QED BY <2>1, <2>2 DEF SavedRegs
<1>7. stored \in [Offsets -> Nat]
  BY <1>2, <1>3, <1>6
<1>8. /\ SavedRegs["esp"] = b + 1 /\ SavedRegs["ebp"] = b /\ SavedRegs["eip"] = AFTER_SAVE
      /\ \A k \in 1..5 : SavedRegs[Segments[k]] = boot_seg[Segments[k]]
  <2>1. SavedEsp = b + 1 /\ stack[reg["esp"]] = AFTER_SAVE
    BY <1>1 DEF SavedEsp
  <2>2. \A k \in 1..5 : SavedRegs[Segments[k]] = reg[Segments[k]]
    BY Named DEF SavedRegs
  <2> QED BY <1>1, <2>1, <2>2, Named DEF SavedRegs, KernelSegments
<1> HIDE DEF stored
<1>9. /\ reg' \in [Regs \ {"eip"} -> Nat] /\ reg'["esp"] = b + 1 /\ reg'["ebp"] = b
      /\ \A k \in 1..5 : reg'[Segments[k]] = reg[Segments[k]]
  <2>1. b + 1 \in Nat
    BY <1>1
  <2>2. reg' \in [Regs \ {"eip"} -> Nat]
    BY <1>3, <1>4, <2>1, Named
  <2>3. reg'["esp"] = b + 1 /\ reg'["ebp"] = b
    BY <1>3, <1>4, Named
  <2>4. \A k \in 1..5 : reg'[Segments[k]] = reg[Segments[k]]
    BY <1>3, <1>4, Named
  <2> QED BY <2>2, <2>3, <2>4
<1>10. /\ pcb'[p] = stored /\ \A q \in Procs \ {p} : pcb'[q] = pcb[q]
       /\ pcb' \in [Procs -> [Offsets -> Nat]]
  BY <1>2, <1>3, <1>4, <1>7
<1>11. ASSUME NEW q \in Procs
       PROVE  saved'[q] = IF q = p THEN <<b + 1, b>> ELSE saved[q]
  BY <1>3, <1>4
<1>12. TypeOK'
  <2>1. b \in 0..STACK /\ b + 1 \in 0..STACK
    BY <1>1 DEF STACK
  <2>2. saved' \in [Procs -> {<<>>} \cup ((0..STACK) \X (0..STACK))]
    BY <1>2, <1>3, <1>4, <2>1
  <2>3. reg'["esp"] \in 0..STACK /\ reg'["ebp"] \in 0..STACK
    BY <1>9, <2>1
  <2> QED BY <1>3, <1>4, <1>9, <1>10, <2>2, <2>3 DEF TypeOK, Labels
<1>13. ContextInv'
  <2>2. /\ pcb'[p][cpu_state("esp")] = b + 1 /\ pcb'[p][cpu_state("ebp")] = b
        /\ pcb'[p][cpu_state("eip")] = AFTER_SAVE
        /\ \A k \in 1..5 : pcb'[p][cpu_state(Segments[k])] = boot_seg[Segments[k]]
    BY <1>5, <1>8, <1>10, Named
  <2>3. pc' # "C" /\ reg'["ebp"] = b
    BY <1>4, <1>9
  <2> HIDE DEF p, b
  <2>4. SUFFICES ASSUME NEW q \in Procs
                 PROVE
    \/ saved'[q] = <<>> /\ pcb'[q][cpu_state("ds")] \in {0, LETTERS}
    \/ /\ saved'[q] = <<b + 1, b>>
       /\ pcb'[q][cpu_state("esp")] = b + 1
       /\ pcb'[q][cpu_state("ebp")] = b
       /\ pcb'[q][cpu_state("eip")] = AFTER_SAVE
       /\ \A k \in 1..5 : pcb'[q][cpu_state(Segments[k])] = boot_seg[Segments[k]]
    BY <2>3 DEF ContextInv
  <2>5. CASE q = p
    BY <1>11, <2>2, <2>5
  <2>6. CASE q # p
    <3>1. pcb'[q] = pcb[q] /\ saved'[q] = saved[q]
      BY <1>10, <1>11, <2>6
    <3> QED BY <1>1, <3>1 DEF ContextInv, b
  <2> QED BY <2>5, <2>6
<1>14. FrameInv'
  <2>1. saved'[p] # <<>>
    <3>1. saved'[p] = <<b + 1, b>>
      BY <1>2, <1>11
    <3> HIDE DEF p, b
    <3> QED BY <3>1
  <2> QED BY <1>1, <1>2, <1>4, <1>9, <2>1 DEF FrameInv, KernelSegments
<1> QED BY <1>12, <1>13, <1>14

\* ContextInv depends on pcb, saved and ebp only, once the switch was called.
LEMMA ContextKept ==
  ASSUME ContextInv, pc # "C", pc' # "C", UNCHANGED <<pcb, saved, boot_seg>>,
         reg'["ebp"] = reg["ebp"]
  PROVE  ContextInv'
BY DEF ContextInv

\* save_context has returned: its arguments are taken off.
LEMMA AfterSaveStep ==
  ASSUME IInv, after_save, UNCHANGED <<gdt, boot_seg>>
  PROVE  IInv'
<1> USE DEF IInv
<1> DEFINE b == reg["ebp"]
<1>1. /\ TypeOK /\ ContextInv /\ pc = "after_save" /\ pc' = ".no_save"
      /\ b \in {4, 6} /\ stack[b - 3] \in Procs /\ reg["esp"] = b + 1 /\ KernelSegments
      /\ UNCHANGED <<pcb, stack, loaded, saved>>
  BY DEF after_save, FrameInv
<1>2. reg' = [reg EXCEPT !["esp"] = b] /\ b \in Nat /\ b \in 0..STACK
  <2>1. reg["esp"] - 1 = b
    BY <1>1
  <2>2. b \in Nat /\ b \in 0..STACK
    BY <1>1 DEF STACK
  <2> QED BY <2>1, <2>2 DEF after_save
<1>3. /\ reg' \in [Regs \ {"eip"} -> Nat] /\ reg'["esp"] = b /\ reg'["ebp"] = b
      /\ \A k \in 1..5 : reg'[Segments[k]] = reg[Segments[k]]
  <2>1. reg \in [Regs \ {"eip"} -> Nat]
    BY <1>1 DEF TypeOK
  <2>2. reg' \in [Regs \ {"eip"} -> Nat]
    BY <1>2, <2>1, Named
  <2>3. reg'["esp"] = b /\ reg'["ebp"] = b
    BY <1>2, <2>1, Named
  <2>4. \A k \in 1..5 : reg'[Segments[k]] = reg[Segments[k]]
    BY <1>2, <2>1, Named
  <2> QED BY <2>2, <2>3, <2>4
<1>4. TypeOK'
  BY <1>1, <1>2, <1>3 DEF TypeOK, Labels
<1>5. ContextInv'
  BY <1>1, <1>3, ContextKept
<1>6. FrameInv'
  BY <1>1, <1>3 DEF FrameInv, KernelSegments
<1> QED BY <1>4, <1>5, <1>6

\* The call of restore_context.
LEMMA NoSaveStep ==
  ASSUME IInv, no_save, UNCHANGED <<gdt, boot_seg>>
  PROVE  IInv'
<1> USE DEF IInv
<1> DEFINE b == reg["ebp"]
           new == stack[b - 3]
           words == <<new, AFTER_RESTORE>>
<1>1. /\ TypeOK /\ ContextInv /\ pc = ".no_save" /\ pc' = "restore_context" /\ loaded' = 0
      /\ b \in {4, 6} /\ new \in Procs /\ reg["esp"] = b /\ KernelSegments
      /\ stack' = Push(stack, b, words) /\ UNCHANGED <<pcb, saved>>
  BY DEF no_save, FrameInv
<1>2. /\ reg' = [reg EXCEPT !["eax"] = new, !["esp"] = b + 2, !["ebx"] = new]
      /\ b \in 0..STACK /\ b + 2 \in 0..STACK /\ b + 2 \in Nat
  BY <1>1 DEF no_save, STACK
<1>3. new \in Nat
  BY <1>1, ContextSwitchAssumption
<1>4. Len(words) = 2 /\ words[1] = new /\ \A i \in 1..2 : words[i] \in Nat
  BY <1>3 DEF AFTER_RESTORE
<1> HIDE DEF words
<1>5. stack' = [i \in 1..STACK |-> IF i \in (b + 1)..(b + 2) THEN words[i - b] ELSE stack[i]]
  BY <1>1, <1>4 DEF Push
<1>6. stack' \in [1..STACK -> Nat] /\ stack'[b + 1] = new /\ stack'[b - 3] = new
  <2>1. \A i \in (b + 1)..(b + 2) : i - b \in 1..2 /\ words[i - b] \in Nat
    BY <1>1, <1>4
  <2>2. stack \in [1..STACK -> Nat]
    BY <1>1 DEF TypeOK
  <2>3. stack' \in [1..STACK -> Nat]
    BY <1>5, <2>1, <2>2
  <2>4. stack'[b + 1] = words[1]
    BY <1>1, <1>5 DEF STACK
  <2>5. stack'[b - 3] = stack[b - 3]
    BY <1>1, <1>5 DEF STACK
  <2> QED BY <1>4, <2>3, <2>4, <2>5
<1> HIDE DEF new
<1>7. /\ reg' \in [Regs \ {"eip"} -> Nat] /\ reg'["esp"] = b + 2 /\ reg'["ebp"] = b
      /\ \A k \in 1..5 : reg'[Segments[k]] = reg[Segments[k]]
  <2>1. reg \in [Regs \ {"eip"} -> Nat]
    BY <1>1 DEF TypeOK
  <2>2. reg' \in [Regs \ {"eip"} -> Nat]
    BY <1>2, <1>3, <2>1, Named
  <2>3. reg'["esp"] = b + 2 /\ reg'["ebp"] = b
    BY <1>2, <2>1, Named
  <2>4. \A k \in 1..5 : reg'[Segments[k]] = reg[Segments[k]]
    BY <1>2, <2>1, Named
  <2> QED BY <2>2, <2>3, <2>4
<1>8. TypeOK'
  <2>1. reg'["esp"] \in 0..STACK /\ reg'["ebp"] \in 0..STACK
    BY <1>2, <1>7
  <2>2. loaded' \in 0..5 /\ pc' \in Labels
    BY <1>1 DEF Labels
  <2> QED BY <1>1, <1>6, <1>7, <2>1, <2>2 DEF TypeOK
<1>9. ContextInv'
  BY <1>1, <1>7, ContextKept
<1>10. FrameInv'
  BY <1>1, <1>6, <1>7 DEF FrameInv, KernelSegments
<1> QED BY <1>8, <1>9, <1>10

\* A segment register is loaded, if its selector and the ds it is read through are
\* good.
LEMMA LoadStep ==
  ASSUME IInv, load_segment, UNCHANGED <<gdt, boot_seg>>
  PROVE  IInv'
<1> USE DEF IInv
<1> DEFINE b == reg["ebp"]
           p == stack[b + 1]
           k == loaded + 1
           s == Segments[k]
           sel == pcb[p][cpu_state(s)]
<1>1. /\ TypeOK /\ ContextInv /\ pc = "restore_context" /\ loaded < 5
      /\ b \in {4, 6} /\ stack[b - 3] \in Procs /\ reg["esp"] = b + 2 /\ p \in Procs
      /\ \/ (loaded = 0 \/ saved[p] # <<>>) /\ KernelSegments
         \/ loaded = 1 /\ saved[p] = <<>> /\ Null(reg["ds"])
      /\ UNCHANGED <<pcb, stack, saved>>
  BY DEF load_segment, FrameInv
<1>2. Restored = p
  <2>1. reg["esp"] - 1 = b + 1
    BY <1>1
  <2> QED BY <2>1 DEF Restored
<1>3. IF Readable /\ Loads(s, sel)
        THEN reg' = [reg EXCEPT ![s] = sel] /\ loaded' = k /\ pc' = pc
        ELSE pc' = "reset" /\ UNCHANGED <<reg, loaded>>
  BY <1>2 DEF load_segment
<1>4. /\ k \in 1..5 /\ s \in Regs \ {"eip", "esp", "ebp"} /\ Segments[1] = "ds"
      /\ reg \in [Regs \ {"eip"} -> Nat]
  <2>1. loaded \in 0..5 /\ reg \in [Regs \ {"eip"} -> Nat]
    BY <1>1 DEF TypeOK
  <2>2. Segments[1] = "ds"
    BY DEF Segments
  <2> QED BY <1>1, <2>1, <2>2, Named
<1>5. sel \in Nat /\ reg["ds"] \in Nat
  <2>1. cpu_state(s) \in Offsets /\ "ds" \in Regs \ {"eip"}
    BY <1>4, CpuStatePlace, Named
  <2> QED BY <1>1, <1>4, <2>1 DEF TypeOK
<1>6. KernelSegments => reg["ds"] = boot_seg[Segments[1]]
  BY <1>4 DEF KernelSegments
<1>7. saved[p] # <<>> => sel = boot_seg[Segments[k]]
  BY <1>1, <1>4 DEF ContextInv
<1>11. boot_seg[Segments[1]] \in Selectors /\ boot_seg[Segments[k]] \in Selectors
  BY <1>1, <1>4 DEF TypeOK
<1>8. saved[p] = <<>> /\ loaded = 0 => sel \in {0, LETTERS}
  <2>1. ASSUME saved[p] = <<>>
        PROVE  pcb[p][cpu_state("ds")] \in {0, LETTERS}
    <3>1. saved[p] # <<b + 1, b>>
      BY <2>1
    <3> HIDE DEF p
    <3> QED BY <1>1, <2>1, <3>1 DEF ContextInv
  <2> QED BY <1>4, <2>1
<1> HIDE DEF sel, s
<1>9. CASE ~(Readable /\ Loads(s, sel))
  <2>1. pc' = "reset" /\ UNCHANGED <<reg, loaded>>
    BY <1>3, <1>9
  <2>2. saved[p] = <<>> \/ ~TableHolds
    <3>1. ASSUME saved[p] # <<>>
          PROVE  boot_seg[Segments[k]] \notin gdt
      <4>1. Readable
        BY <1>1, <1>6, <1>11, <3>1, SelectorFacts DEF Readable
      <4>2. ~Null(sel)
        BY <1>7, <1>11, <3>1, SelectorFacts
      <4> QED BY <1>7, <1>9, <3>1, <4>1, <4>2 DEF Loads
    <3> QED BY <1>4, <3>1 DEF TableHolds
  <2>3. TypeOK'
    BY <1>1, <2>1 DEF TypeOK, Labels
  <2>4. ContextInv'
    BY <1>1, <2>1, ContextKept
  <2>5. FrameInv'
    BY <1>1, <2>1, <2>2 DEF FrameInv, TableHolds
  <2> QED BY <2>3, <2>4, <2>5
<1>10. CASE Readable /\ Loads(s, sel)
  <2>1. reg' = [reg EXCEPT ![s] = sel] /\ loaded' = k /\ pc' = "restore_context"
    BY <1>1, <1>3, <1>10
  <2>2. /\ reg' \in [Regs \ {"eip"} -> Nat] /\ reg'["esp"] = b + 2 /\ reg'["ebp"] = b
        /\ reg'[s] = sel
        /\ \A j \in 1..5 : j # k => reg'[Segments[j]] = reg[Segments[j]]
    <3>1. reg' \in [Regs \ {"eip"} -> Nat] /\ reg'[s] = sel
      BY <1>4, <1>5, <2>1
    <3>2. reg'["esp"] = b + 2 /\ reg'["ebp"] = b
      BY <1>1, <1>4, <2>1, Named
    <3>3. \A j \in 1..5 : j # k => Segments[j] # s /\ Segments[j] \in Regs \ {"eip"}
      BY <1>4, Named DEF s
    <3> QED BY <1>4, <2>1, <3>1, <3>2, <3>3
  <2>3. loaded' \in 0..5 /\ b + 2 \in 0..STACK /\ b \in 0..STACK
    BY <1>1, <1>4, <2>1 DEF STACK
  <2>4. TypeOK'
    BY <1>1, <2>1, <2>2, <2>3 DEF TypeOK, Labels
  <2>5. ContextInv'
    BY <1>1, <2>1, <2>2, ContextKept
  <2>6. FrameInv'
    <3>1. CASE saved[p] # <<>>
      <4>1. KernelSegments'
        BY <1>1, <1>7, <2>2, <3>1 DEF KernelSegments, s
      <4> QED BY <1>1, <2>1, <2>2, <3>1, <4>1 DEF FrameInv
    <3>2. CASE saved[p] = <<>>
      <4>1. loaded = 0
        BY <1>1, <1>10, <3>2 DEF Readable
      <4>2. sel = 0 /\ s = "ds" /\ loaded' = 1
        <5>1. s = "ds" /\ loaded' = 1
          BY <1>4, <2>1, <4>1 DEF s
        <5>2. LETTERS \notin gdt
          BY <1>1, SelectorFacts DEF TypeOK
        <5> QED BY <1>8, <1>10, <3>2, <4>1, <5>1, <5>2, SelectorFacts DEF Loads
      <4>3. Null(reg'["ds"])
        BY <2>2, <4>2, SelectorFacts
      <4> QED BY <1>1, <2>1, <2>2, <3>2, <4>2, <4>3 DEF FrameInv
    <3> QED BY <3>1, <3>2
  <2> QED BY <2>4, <2>5, <2>6
<1> QED BY <1>9, <1>10

\* The jump: only a PCB that was saved gets there, and it goes on behind the save.
LEMMA JmpStep ==
  ASSUME IInv, jmp, UNCHANGED <<gdt, boot_seg>>
  PROVE  IInv'
<1> USE DEF IInv
<1> DEFINE b == reg["ebp"]
           p == stack[b + 1]
<1>1. /\ TypeOK /\ ContextInv /\ pc = "restore_context" /\ loaded = 5
      /\ b \in {4, 6} /\ stack[b - 3] \in Procs /\ reg["esp"] = b + 2 /\ p \in Procs
      /\ saved[p] # <<>> /\ KernelSegments
      /\ UNCHANGED <<pcb, stack, loaded, saved>>
  BY DEF jmp, FrameInv
<1>2. Restored = p
  <2>1. reg["esp"] - 1 = b + 1
    BY <1>1
  <2> QED BY <2>1 DEF Restored
<1>3. Readable
  <2>1. Segments[1] = "ds"
    BY DEF Segments
  <2>2. boot_seg[Segments[1]] \in Selectors
    BY <1>1 DEF TypeOK
  <2>3. 1 \in 1..5
    OBVIOUS
  <2>4. reg[Segments[1]] = boot_seg[Segments[1]]
    BY <1>1, <2>3 DEF KernelSegments
  <2> QED BY <2>1, <2>2, <2>4, SelectorFacts DEF Readable
<1>4. /\ pcb[p][cpu_state("esp")] = b + 1 /\ pcb[p][cpu_state("ebp")] = b
      /\ pcb[p][cpu_state("eip")] = AFTER_SAVE
  BY <1>1 DEF ContextInv
<1>5. pc' = "after_save"
  <2>1. AFTER_SAVE # Entry(p)
    <3>1. p \in Nat
      BY <1>1, ContextSwitchAssumption
    <3> QED BY <3>1 DEF AFTER_SAVE, Entry
  <2> QED BY <1>2, <1>3, <1>4, <2>1 DEF jmp
<1>6. reg \in [Regs \ {"eip"} -> Nat] /\ pcb[p] \in [Offsets -> Nat]
  BY <1>1 DEF TypeOK
<1>7. reg' = [r \in Regs \ {"eip"} |->
                IF r \in Restorable THEN pcb[p][cpu_state(r)] ELSE reg[r]]
  BY <1>2, <1>3, <1>6 DEF jmp
<1>8. /\ reg' \in [Regs \ {"eip"} -> Nat] /\ reg'["esp"] = b + 1 /\ reg'["ebp"] = b
      /\ \A k \in 1..5 : reg'[Segments[k]] = reg[Segments[k]]
  <2>1. \A r \in Regs : cpu_state(r) \in Offsets
    BY CpuStatePlace
  <2>2. reg' \in [Regs \ {"eip"} -> Nat]
    BY <1>6, <1>7, <2>1
  <2>3. reg'["esp"] = b + 1 /\ reg'["ebp"] = b
    BY <1>4, <1>7, Named DEF Restorable
  <2>4. \A k \in 1..5 : Segments[k] \in Regs \ {"eip"} /\ Segments[k] \notin Restorable
    BY Named DEF Restorable, Segments
  <2> QED BY <1>7, <2>2, <2>3, <2>4
<1>9. TypeOK'
  <2>1. b \in 0..STACK /\ b + 1 \in 0..STACK
    BY <1>1 DEF STACK
  <2> QED BY <1>1, <1>5, <1>8, <2>1 DEF TypeOK, Labels
<1>10. ContextInv'
  BY <1>1, <1>5, <1>8, ContextKept
<1>11. FrameInv'
  BY <1>1, <1>5, <1>8 DEF FrameInv, KernelSegments
<1> QED BY <1>9, <1>10, <1>11

\* The invariant is inductive, hence holds in every reachable state.
THEOREM InductiveInvariant == Spec => []IInv
<1>1. IInv /\ UNCHANGED vars => IInv'
  BY DEF IInv, TypeOK, ContextInv, FrameInv, KernelSegments, TableHolds, vars
<1>2. IInv /\ [Next]_vars => IInv'
  BY <1>1, ScheduleStep, SaveStep, AfterSaveStep, NoSaveStep, LoadStep, JmpStep DEF Next
<1> QED BY InitInv, <1>2, PTL DEF Spec

\* Every variable keeps its type: the switch never pushes more than STACK words.
THEOREM TypeCorrect == Spec => []TypeOK
<1>1. IInv => TypeOK
  BY DEF IInv
<1> QED BY <1>1, InductiveInvariant, PTL

\* No C code runs again once the switch was called.
THEOREM NeverInC == Spec => []NeverBackInC
<1>1. IInv => NeverBackInC
  BY DEF IInv, FrameInv, NeverBackInC
<1> QED BY <1>1, InductiveInvariant, PTL

\* A context that save_context stored is one restore_context can take back, as long
\* as the loader's table describes the kernel's segments.
THEOREM SavedResumes == Spec => []SavedContextResumes
<1>1. ASSUME IInv PROVE SavedContextResumes
  <2> DEFINE b == reg["ebp"]
  <2>1. ASSUME pc = "reset"
        PROVE  \E p \in Procs : p = Restored /\ (saved[p] = <<>> \/ ~TableHolds)
    <3>1. /\ b \in {4, 6} /\ reg["esp"] = b + 2 /\ stack[b + 1] \in Procs
          /\ saved[stack[b + 1]] = <<>> \/ ~TableHolds
      BY <1>1, <2>1 DEF IInv, FrameInv
    <3>2. reg["esp"] - 1 = b + 1
      BY <3>1
    <3> QED BY <3>1, <3>2 DEF Restored
  <2>2. ASSUME pc = "after_save"
        PROVE  \E p \in Procs : p = stack[reg["esp"]] /\ saved[p] = <<reg["esp"], b>>
    BY <1>1, <2>2 DEF IInv, FrameInv, ContextInv
  <2> QED BY <2>1, <2>2 DEF SavedContextResumes
<1>2. IInv => SavedContextResumes
  BY <1>1
<1> QED BY <1>2, InductiveInvariant, PTL
===============================================================================
