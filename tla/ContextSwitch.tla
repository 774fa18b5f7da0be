----------------------------- MODULE ContextSwitch -----------------------------
(***************************************************************************)
(* The assembly that schedule() ends in (arch/context_switch.asm), run on  *)
(* process control blocks as process.h lays them out.                      *)
(*                                                                         *)
(* A PCB is a function from the byte offset of a word to the word; the     *)
(* words behind cpu_state play no part.  A selector is stored and loaded   *)
(* as 16 bits; the other half of its word is left out, as nothing reads    *)
(* it back.  A stack position counts the words pushed, so that [ebp + 8]   *)
(* is stack[ebp - 2].                                                      *)
(*                                                                         *)
(* pc is a label of the assembly, "C" before the call, "entry" when the    *)
(* restored process starts its own code, "wild" when another address was   *)
(* loaded, and "reset" after a fault: idt.c installs no gate for segment   *)
(* faults nor for the double fault, so the processor restarts.  Nothing    *)
(* returns to the caller: restore_context jumps and has no return.         *)
(*                                                                         *)
(* The kernel installs no segment table (kernel/boot.asm only sets esp) but *)
(* runs on what the multiboot loader leaves: segment registers that can be *)
(* used, and a table whose contents are the loader's affair.  It may not   *)
(* even describe the selectors in those registers any more.                *)
(***************************************************************************)
EXTENDS Integers, Sequences

CONSTANTS
  Procs,              \* processes, as positive numbers; 1 is the kernel's
  CPU_STATE_OFFSET,   \* what the assembly adds to reach cpu_state: 20
  NameEnds,           \* offsets up to which a process's name may reach
  Selectors           \* data selectors a loader may use (external)

LETTERS == 24929         \* "aa", a word of a long enough name
Null(sel) == sel \div 8 = 0

\* What the assembly takes for ds is a word of the name, and no loader's table
\* reaches as far as letters do.
ASSUME ContextSwitchAssumption ==
  /\ Procs \subseteq Nat \ {0} /\ 1 \in Procs
  /\ CPU_STATE_OFFSET \in {4 * k : k \in 0..6}
  /\ NameEnds \subseteq 9..72
  /\ Selectors \subseteq Nat \ {LETTERS} /\ \A sel \in Selectors : ~Null(sel)

NULL == 0

-------------------------------------------------------------------------------
(* The layout of process_t and cpu_state_t, in bytes (process.h).          *)

NAME_AT == 8               \* name[64]
STATE_AT == 72
PRIORITY_AT == 76
CPU_STATE_AT == 84
Offsets == {4 * k : k \in 0..36}

\* The registers in the order of cpu_state_t, which is that of the assembly.
CpuState == <<"eax", "ebx", "ecx", "edx", "esi", "edi", "esp", "ebp",
              "eip", "eflags", "cs", "ds", "es", "fs", "gs", "ss">>
Regs     == {CpuState[k] : k \in 1..16}
Segments == <<"ds", "es", "fs", "gs", "ss">>     \* the order restore_context loads

At(r) == 4 * ((CHOOSE k \in 1..16 : CpuState[k] = r) - 1)

\* Mutant: the offset that process.h gives.
cpu_state_of_layout(r) == CPU_STATE_AT + At(r)

\* Where the assembly finds a register in a PCB.
cpu_state(r) == CPU_STATE_OFFSET + At(r)

\* The selectors that process_create_test enters in a PCB.
KERNEL_CS == 8
KERNEL_DS == 16

\* Code addresses.
AFTER_SAVE == 4096       \* in context_switch, behind the call of save_context
AFTER_RESTORE == 4100    \* there, behind the call of restore_context
AFTER_SWITCH == 4104     \* in switch_to_process, behind its call
SCHEDULE == 4108         \* in schedule(), behind the call
Entry(p) == 8192 + p     \* the entry point the process was created with
STACK == 12              \* bound on the words pushed

VARIABLES
  pcb,       \* [Procs -> [Offsets -> word]]
  reg,       \* the processor's registers but eip
  stack,     \* the stack schedule() runs on
  pc,
  loaded,    \* how many segment registers restore_context has loaded
  saved,     \* history: process -> <<esp, ebp>> when save_context returned
  gdt,       \* the data selectors that the loader's table describes (external)
  boot_seg   \* what the loader left in the segment registers (external)

vars == <<pcb, reg, stack, pc, loaded, saved, gdt, boot_seg>>

-------------------------------------------------------------------------------
\* A PCB as process_create_test leaves it in a cleared static array, with a name
\* that reaches up to offset end.
Fresh(p, end) ==
  [o \in Offsets |->
     CASE o = 0                                  -> p
       [] o \in NAME_AT..(STATE_AT - 1)                -> IF o < end THEN LETTERS ELSE 0
       [] o = STATE_AT                              -> 1     \* RUNNING, or about to be
       [] o = PRIORITY_AT                           -> 1
       [] o = CPU_STATE_AT + At("eip")              -> Entry(p)
       [] o = CPU_STATE_AT + At("eflags")           -> 514
       [] o = CPU_STATE_AT + At("esp")              -> 1
       [] o = CPU_STATE_AT + At("cs")               -> KERNEL_CS
       [] \E k \in 1..5 : o = CPU_STATE_AT + At(Segments[k]) -> KERNEL_DS
       [] OTHER                                  -> 0]

\* The kernel runs schedule() in C, with the segments its loader left; the general
\* registers hold what they may.
Init ==
  /\ gdt \in SUBSET Selectors
  /\ boot_seg \in [{Segments[k] : k \in 1..5} -> Selectors]
  /\ \E end \in [Procs -> NameEnds] : pcb = [p \in Procs |-> Fresh(p, end[p])]
  /\ reg = [r \in Regs \ {"eip"} |->
              CASE r = "esp" -> 0 [] r = "ebp" -> 0
                [] r \in {"ds", "es", "fs", "gs", "ss"} -> boot_seg[r]
                [] r = "eflags" -> 2
                [] OTHER -> 100 + At(r)]
  /\ stack = [i \in 1..STACK |-> 0]
  /\ pc = "C" /\ loaded = 0
  /\ saved = [p \in Procs |-> <<>>]

Push(st, esp, words) ==
  [i \in 1..STACK |-> IF i \in (esp + 1)..(esp + Len(words)) THEN words[i - esp] ELSE st[i]]

-------------------------------------------------------------------------------
\* context_switch(old, new), called from ret on a stack st that is esp words deep:
\* the frame, and then save_context's arguments, or .no_save if there is no old
\* process.
context_switch(st, esp, old, new, ret) ==
  LET ebp == esp + 4
  IN /\ stack' = Push(st, esp,
                      IF old = NULL THEN <<new, old, ret, reg["ebp"]>>
                      ELSE <<new, old, ret, reg["ebp"], old, AFTER_SAVE>>)
     /\ reg' = [reg EXCEPT !["eax"] = old, !["ebp"] = ebp,
                           !["esp"] = IF old = NULL THEN ebp ELSE ebp + 2]
     /\ pc' = IF old = NULL THEN ".no_save" ELSE "save_context"
     /\ UNCHANGED <<pcb, loaded, saved>>

\* switch_to_process(new): new becomes the current process before that is read
\* back as the old one.
switch_to_process(new) ==
  context_switch(Push(stack, reg["esp"], <<new, SCHEDULE>>), reg["esp"] + 2,
                 new, new, AFTER_SWITCH)

\* schedule() switches between two processes, goes idle, or has no current process
\* (after sys_exit), and dispatches or goes idle.
schedule ==
  /\ pc = "C"
  /\ \/ \E old, new \in Procs :
          old # new /\ context_switch(stack, reg["esp"], old, new, SCHEDULE)
     \/ context_switch(stack, reg["esp"], NULL, 1, SCHEDULE)
     \/ \E new \in Procs : switch_to_process(new)

\* Mutants: one pushed register too few is taken off; they are put on again.
SavedEsp_short == reg["esp"] + 3 - 3
SavedEsp_added == reg["esp"] + 3 + 4

\* esp as it will be when save_context has returned: 3 words were pushed since it
\* was entered and 16 bytes are added, so the return address is off, too.
SavedEsp == reg["esp"] + 3 - 4

\* What save_context stores: the "original EBX" it reads is the EBP pushed before.
SavedRegs ==
  [r \in Regs |->
     CASE r = "ebx" -> reg["ebp"]
       [] r = "esp" -> SavedEsp
       [] r = "eip" -> stack[reg["esp"]]
       [] OTHER     -> reg[r]]

\* save_context(process), from its first instruction to its return.
save_context ==
  LET p == stack[reg["esp"] - 1]
  IN /\ pc = "save_context"
     /\ pcb' = [pcb EXCEPT ![p] =
                  [o \in Offsets |->
                     IF \E r \in Regs : o = cpu_state(r)
                       THEN SavedRegs[CHOOSE r \in Regs : o = cpu_state(r)]
                       ELSE @[o]]]
     /\ reg' = [reg EXCEPT !["esp"] = @ - 1]
     /\ saved' = [saved EXCEPT ![p] = <<reg["esp"] - 1, reg["ebp"]>>]
     /\ pc' = "after_save"
     /\ UNCHANGED <<stack, loaded>>

\* Behind the call of save_context: also where a saved process goes on.
after_save ==
  /\ pc = "after_save"
  /\ reg' = [reg EXCEPT !["esp"] = @ - 1]
  /\ pc' = ".no_save"
  /\ UNCHANGED <<pcb, stack, loaded, saved>>

\* .no_save: call restore_context for the new process of this frame.
no_save ==
  LET new == stack[reg["ebp"] - 3]
  IN /\ pc = ".no_save"
     /\ stack' = Push(stack, reg["esp"], <<new, AFTER_RESTORE>>)
     /\ reg' = [reg EXCEPT !["eax"] = new, !["esp"] = @ + 2, !["ebx"] = new]
     /\ pc' = "restore_context" /\ loaded' = 0
     /\ UNCHANGED <<pcb, saved>>

\* The process restore_context was called for.
Restored == stack[reg["esp"] - 1]

\* A null selector may be loaded, except into ss; any other must be in the table.
Loads(s, sel) == IF Null(sel) THEN s # "ss" ELSE sel \in gdt

\* Memory can be read through ds once more: the loader's descriptor stays usable
\* until it is replaced, and a null one never is.
Readable == ~Null(reg["ds"])

\* One segment register: the PCB is read through ds and the selector is loaded.
load_segment ==
  LET s == Segments[loaded + 1]
      sel == pcb[Restored][cpu_state(s)]
  IN /\ pc = "restore_context" /\ loaded < 5
     /\ IF Readable /\ Loads(s, sel)
          THEN reg' = [reg EXCEPT ![s] = sel] /\ loaded' = loaded + 1 /\ pc' = pc
          ELSE pc' = "reset" /\ UNCHANGED <<reg, loaded>>
     /\ UNCHANGED <<pcb, stack, saved>>

\* What restore_context loads once the segments are in place; not ebx.
Restorable == {"esp", "eflags", "eax", "ecx", "edx", "esi", "edi", "ebp"}

\* The other registers and the jump, all read through ds.
jmp ==
  LET p == Restored
      eip == pcb[p][cpu_state("eip")]
  IN /\ pc = "restore_context" /\ loaded = 5
     /\ IF Readable
          THEN /\ reg' = [r \in DOMAIN reg |->
                            IF r \in Restorable THEN pcb[p][cpu_state(r)] ELSE reg[r]]
               /\ pc' = CASE eip = AFTER_SAVE -> "after_save"
                          [] eip = Entry(p)   -> "entry"
                          [] OTHER            -> "wild"
          ELSE pc' = "reset" /\ reg' = reg
     /\ UNCHANGED <<pcb, stack, loaded, saved>>

Next ==
  /\ schedule \/ save_context \/ after_save \/ no_save \/ load_segment \/ jmp
  /\ UNCHANGED <<gdt, boot_seg>>

Spec == Init /\ [][Next]_vars

-------------------------------------------------------------------------------
(* What must hold.                                                         *)

Labels == {"C", "save_context", "after_save", ".no_save", "restore_context",
           "reset", "entry", "wild"}

TypeOK ==
  /\ pcb \in [Procs -> [Offsets -> Nat]]
  /\ reg \in [Regs \ {"eip"} -> Nat]
  /\ reg["esp"] \in 0..STACK /\ reg["ebp"] \in 0..STACK
  /\ stack \in [1..STACK -> Nat]
  /\ pc \in Labels /\ loaded \in 0..5
  /\ saved \in [Procs -> {<<>>} \cup ((0..STACK) \X (0..STACK))]
  /\ gdt \subseteq Selectors
  /\ boot_seg \in [{Segments[k] : k \in 1..5} -> Selectors]

\* Once schedule() has called the switch, no C code runs again: not the code of
\* the process switched to, nor the caller's, nor whatever a name's letters would
\* be as an address.  ProcessManager relies on this where it stops.
NeverBackInC == pc \notin {"entry", "wild"}

\* The loader's table still describes the segments the kernel runs on.
TableHolds == \A k \in 1..5 : boot_seg[Segments[k]] \in gdt

\* A context that save_context stored is one restore_context can take back: it goes
\* on behind the save with the stack it had there, and only a loader's table that
\* no longer holds the kernel's own segments makes it fault.
SavedContextResumes ==
  /\ pc = "reset" => \E p \in Procs : p = Restored /\ (saved[p] = <<>> \/ ~TableHolds)
  /\ pc = "after_save" =>
       \E p \in Procs : p = stack[reg["esp"]] /\ saved[p] = <<reg["esp"], reg["ebp"]>>

-------------------------------------------------------------------------------
(* Why it holds: the inductive invariant (ContextSwitchProofs).            *)

\* A PCB that was never saved has letters or nothing where the assembly looks for
\* ds; one that was saved has what save_context stored, for the frame that is
\* still on the stack.
ContextInv ==
  \A p \in Procs :
    \/ saved[p] = <<>> /\ pcb[p][cpu_state("ds")] \in {0, LETTERS}
    \/ /\ pc # "C" /\ saved[p] = <<reg["ebp"] + 1, reg["ebp"]>>
       /\ pcb[p][cpu_state("esp")] = reg["ebp"] + 1
       /\ pcb[p][cpu_state("ebp")] = reg["ebp"]
       /\ pcb[p][cpu_state("eip")] = AFTER_SAVE
       /\ \A k \in 1..5 : pcb[p][cpu_state(Segments[k])] = boot_seg[Segments[k]]

KernelSegments == \A k \in 1..5 : reg[Segments[k]] = boot_seg[Segments[k]]

\* The frame of context_switch and what each of its calls has pushed.  The
\* segments of a PCB that was never saved are not loaded past the first.
FrameInv ==
  \/ pc = "C" /\ reg["esp"] = 0 /\ reg["ebp"] = 0 /\ KernelSegments
  \/ /\ reg["ebp"] \in {4, 6} /\ stack[reg["ebp"] - 3] \in Procs
     /\ \/ /\ pc = "save_context" /\ reg["esp"] = reg["ebp"] + 2
           /\ stack[reg["ebp"] + 1] \in Procs /\ stack[reg["ebp"] + 2] = AFTER_SAVE
           /\ KernelSegments
        \/ /\ pc = "after_save" /\ reg["esp"] = reg["ebp"] + 1
           /\ stack[reg["ebp"] + 1] \in Procs /\ saved[stack[reg["ebp"] + 1]] # <<>>
           /\ KernelSegments
        \/ pc = ".no_save" /\ reg["esp"] = reg["ebp"] /\ KernelSegments
        \/ /\ pc = "restore_context" /\ reg["esp"] = reg["ebp"] + 2
           /\ stack[reg["ebp"] + 1] \in Procs
           /\ \/ (loaded = 0 \/ saved[stack[reg["ebp"] + 1]] # <<>>) /\ KernelSegments
              \/ loaded = 1 /\ saved[stack[reg["ebp"] + 1]] = <<>> /\ Null(reg["ds"])
        \/ /\ pc = "reset" /\ reg["esp"] = reg["ebp"] + 2
           /\ stack[reg["ebp"] + 1] \in Procs
           /\ saved[stack[reg["ebp"] + 1]] = <<>> \/ ~TableHolds

IInv == TypeOK /\ ContextInv /\ FrameInv

-------------------------------------------------------------------------------
(* What the repository says and the code does not do (see README).         *)

\* "Structure offsets for process_t (must match process.h)"
\* (context_switch.asm:18): save_context changes no field but cpu_state.
SaveChangesOnlyCpuState ==
  [][\A p \in Procs, o \in Offsets : o < CPU_STATE_AT => pcb'[p][o] = pcb[p][o]]_vars
===============================================================================
