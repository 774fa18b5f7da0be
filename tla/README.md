# SimpleOS: TLA+ models, checks and proofs

SimpleOS is a 32-bit x86 teaching kernel: a shell that reads lines from the
keyboard and runs commands that create, kill, fork and schedule processes. This
directory models the parts with state worth arguing about (process manager,
scheduler, context switch, heap, keyboard, console, command parsing), checks them
with TLC on small instances, and proves with TLAPS, for every size, all the safety
properties the passing runs check and that the ready queue implements a FIFO. Paths below
are relative to `src/`.

## 1. Inventory

| Part | Source | State | Operations |
|---|---|---|---|
| process manager | `kernel/proc/process.c` | `process_table[256]`, ten static PCBs with stacks, `process_count`, `current_process`, `kernel_process` | `process_create_test`, `process_create_copy`, `process_kill_by_pid`, `process_set_status`, `process_exit`, `process_cleanup`; a second set with PCBs of its own: `process_create`, `process_destroy`, `process_allocate_pid` |
| ready queue, scheduler | `process.c:514-669` | `ready_queue_head`, `ready_queue_tail`, `next`/`prev` of each PCB | `add_to_ready_queue`, `remove_from_ready_queue`, `schedule`, `scheduler_tick` |
| system calls | `kernel/syscalls.c` | none of its own | `sys_fork`, `sys_exec`, `sys_exit`, `sys_wait`, `sys_kill`, `sys_getpid` |
| shell | `kernel/kernel.c` | none beside the line | `parse_arguments`, `string_to_uint32`; `spawn`, `pkill`, `pstatus`, `pch`, `fork`, `exec`, `schedule`, `keytest`, `clear`, and commands that print |
| keyboard | `kernel/drivers/keyboard.c` | `kb_state` | `keyboard_get_input`, `keyboard_clear_buffer`, `keyboard_update_modifiers`, `scancode_to_ascii` |
| context switch | `kernel/arch/context_switch.asm` | registers, stack, `cpu_state` of each PCB | `context_switch`, `switch_to_process`, `save_context`, `restore_context` |
| heap | `kernel/mem/memory.c` | `heap_current`, a size word before each block | `kmalloc`, `kfree` |
| demo and stress processes | `kernel/proc/demo_processes.c` | none | `create_demo_processes`, `process_stress_test`, the programs of `exec` |
| timer | `kernel/drivers/timer.c` | `timer_ticks` | `timer_handler`, `timer_sleep` |
| interrupts | `kernel/arch/idt.c`, `interrupts.asm` | IDT, PIC masks | set-up, stubs |
| console | `kernel/drivers/vga.c` | cursor, colour, screen | `vga_putchar`, `vga_print`, `vga_scroll`, `vga_clear` |
| boot, libc | `bootloader/`, `kernel/boot.asm`, `libc/` | - | straight-line code |

**How the parts interact.** `kernel_main` initialises everything, creates the
kernel process and enters `interactive_shell`, which never returns: it asks the
keyboard driver for a line and runs the command. The commands call the process
manager directly or through `sys_fork` and `sys_exec`. Nothing executes `sti`,
so interrupts stay disabled: the keyboard is polled and the timer interrupt is
never delivered. The kernel is therefore one thread, and a command or system
call runs to its end. No gate is installed for `syscall_handler`; its calls are
an interface the modules exercise beside the shell's commands, because the
kernel exports it and its parts (`sys_exit`, `sys_wait`, `sys_kill`) must fit
the rest.

**Where control leaves C.** `schedule()` ends in `context_switch` or
`switch_to_process`. The assembly takes `cpu_state` to be at offset 20 of
`process_t` (`context_switch.asm:20`), but `process.h:37-47` puts it at 84,
behind the 64-byte name. `ContextSwitch` runs the assembly on that layout: a
process that was never saved has the end of its name, or zeros, where its segment
selectors should be, the load faults, and as `idt_init` installs no gate for the
fault the processor restarts; a process saved a moment before resumes inside
`context_switch` and restores itself again, for ever. In no case does C code run
again (`NeverBackInC`). `ProcessManager` therefore models every command up to
that call and has no action after it.

**Where the kernel's memory is.** `HEAP_START` is 0x100000 (`memory.c:5`), which is
also where `linker.ld:7` places the kernel image: the multiboot header, `.text`,
`.rodata`, `.data` and `.bss`, with the shell's code near the bottom and the tables,
PCBs and static stacks at the top. Nothing reserves the image's memory for it,
`memory_init` clears nothing ("this might be causing issues", `memory.c:18`), and the
first block begins at the image's first byte. `Heap` therefore cuts its blocks off
memory that holds the image. What the running kernel has no more use for may be
overwritten without harm (the multiboot header, start-up code); where the memory
that it needs begins is the constant `USED_START`. In the kernel as it is built that
is close behind the multiboot header, as the Makefile links `kernel.c`, the shell,
first: a block of the size of a stack reaches it, and what the code then does is
undefined. No command of the shell calls `kmalloc`:
`process_create_test` uses static stacks instead ("Creating process without
kmalloc...", `process.c:674`). Everything said of heap blocks below is said of the
time before `USED_START` is reached, for any `USED_START`; that it is reached is
shown by a run of its own.

**Where the segments come from.** The Makefile links `kernel/boot.asm`, entered by a
multiboot loader (GRUB). It sets `esp` and nothing else: the kernel runs on the
segment table and the segment registers the loader left. `bootloader/boot.asm` has a
table of its own but is not part of that image. `ContextSwitch` takes the loader's
table, and the selectors in use, as external and arbitrary.

**What is hard to test here.** Not threads, but long sequences of legal commands
that meet in shared pointers: a process that is current, queued, in the table
and somebody's child at once, and operations that take it out of some of these
and not of others. And, in the keyboard driver, a loop that sees bytes again and
again, loses some, and has to tell a press from a repeat by what it remembers.
And arithmetic at its edges: sums of sizes that wrap, a stack pointer that must be
right by the word, a cursor that crosses rows and scrolls.
`PROJECT.json` lists the hazards at their lines.

**What makes each part correct.**
- Process manager: the table, the pids and the PCBs agree; the kernel process
  cannot be removed; a cleared PCB is out of reach; a new process gets a PCB that
  nothing refers to.
- Queue and scheduler: the list is well linked and holds who should be in it, in
  order of arrival; what is dispatched was ready and had waited longest.
- Keyboard: every press is typed once; repetition ends with the key; an Enter read
  again ends no second line; the buffer is not overrun.
- Console: what is on the screen is the prompt and the line as the command will
  get it; nothing is left behind the cursor.
- Parsing: the words of the line, however they are spaced, and the same pid for
  every command.
- Heap: blocks are inside, apart, keep what their owner wrote, and leave the
  kernel's own memory alone.
- Context switch: what is restored is what was saved, and nothing else of the PCB
  is touched.

## 2. Modules

- `ReadyQueue` - the linked list as a record of head, tail, next and prev, and
  its two operations, total on every list as in C. `Represents` and
  `HoldsExactly` say what a well linked list is; `Order` is the sequence met walking
  its `next` pointers.
- `ReadyFifo` - the abstract specification: a sequence, with enqueue, withdraw,
  yield and dispatch.
- `ProcessManager` - process manager, system calls and shell commands; extends
  `ReadyQueue`. One function per PCB field; slot `s` is
  `&static_processes[s - 1]`. `cpu` is `"kernel"` until an assembly routine is
  entered. `schedule(cur, st)` takes the current process and the states its
  caller has just set (`sys_exit` sets `current_process` to NULL first). At its end
  stands the refinement mapping to `ReadyFifo`: `fifo` is `Order` of the queue, `open`
  says that no switch was entered, `running` is whom the dispatch chose.
- `MCProcessManager` - its instance for TLC.
- `Keyboard` - one step is one iteration of the polling loop, one read of
  `keyboard_clear_buffer`, or the shell's next call. The keyboard and the port
  are external: any key may go down or up, the last key pressed repeats, and a
  port without a new byte gives the last byte or 0. `toggled` is history: Caps Lock
  has toggled since it went down.
- `Vga` - the screen as a record of cursor and cells, and vga.c's operations as
  functions from screen to screen.
- `Console` - extends `Vga`: the line and its echo. One action per kind of key the
  polling loop handles, with the whole echo; which key comes next is left open, so
  `Console` allows every order of edits that `Keyboard` produces. Prompts and the
  output of commands are printed one character per step, as the loop of `vga_print`
  does, with what is left of them in `pending`. `MCConsole` is its instance for TLC.
- `Arguments` - `parse_arguments` one step per turn of its loops, then the pid loop
  of `pkill` and `pstatus`; `string_to_uint32` is a function of the buffer, with its
  loop's results as a recursive function, as the reference for what `pch` reads. The
  three copies of the word loop (`cmd`, `arg1`, `arg2`) are
  one, with `w` saying which copy is running. A write past a buffer ends in
  `"overrun"`: the C code's behaviour is undefined from there on.
- `ContextSwitch` - PCBs as words at byte offsets, registers, the stack
  `schedule()` runs on, and the assembly in steps that end at its labels, at each
  segment load (each can fault) and at the final jump. `gdt` is the set of data
  selectors that the loader's table describes and `boot_seg` what it left in the
  segment registers; both are any, and neither changes. The table need not describe
  the selectors in use, since a processor keeps a loaded descriptor.
- `Heap` - `kmalloc` and `kfree` as functions of a record of `heap_current` and the
  words of the memory it hands out, with the blocks as history. That memory holds the
  kernel image at first (`OLD`). `wiped` says that the clearing loop of a wrapped
  request has left the heap, `lost` that memory the running kernel needs (from
  `USED_START` on, or outside the heap) was overwritten.
- `ProcessPool` - extends `Heap` and `ReadyQueue`: `process_create` and
  `process_destroy` with their ten PCBs, the demo and stress creations,
  `process_allocate_pid`, and other callers of the heap (external). The model ends
  where `lost` becomes true: from there on neither code nor tables are sure to be what
  they were.
- `ReadyQueueProofs`, `ProcessManagerProofs`, `KeyboardProofs`, `ConsoleProofs` (with
  the lemmas about `Vga`), `HeapProofs`, `ProcessPoolProofs`, `ContextSwitchProofs`,
  `ArgumentsProofs` - lemmas and theorems, each about the module of its name.

Left out of `ProcessManager`: names, priorities, exit codes, time slices and
saved registers, which no branch of the modelled code reads. `kfree` of a static
stack is left out too: the word before a static stack is never written and is 0,
so it clears nothing. Left out of `Keyboard`: `key_hold_time` (the two repeat
rates it selects are equal), the Ctrl and Alt flags (nothing reads them), and
two-byte scancodes. Left out of `Vga`: colours. Left out of `ContextSwitch`: the
upper half of a selector's word, which nothing reads back. In `ProcessPool` the
word before the first static PCB, which `kfree` reads as a size, is taken to be 0;
it is up to the linker.

`MAX_PROCESSES`, `STATIC_PROCESSES` and the number of values of a `uint32_t`
(`WORD`) are constants. The named assumptions say that every slot's pid is a table
index (10 < 256 in the code) and that there are more 32-bit numbers than entries.
The other modules' assumptions state the sizes' signs and order, and
- `Console`: a prompt, a whole line and its marks fit above the last row (17 + 255 + 1
  of 1920 cells; the marks of modifier keys are bounded by `MAX_STRAYS`), and no
  control character fills a cell;
- `Keyboard`: the kinds of keys are disjoint, and the cooldown after Enter is at least
  two iterations (5000 in the code);
- `Heap`: the heap is made of whole words, starts above the first word of the address
  space and ends in its lower half (0x100000 to 0x200000), and `USED_START` is
  anywhere in it;
- `ContextSwitch`: the word that the assembly takes for `ds` lies in the name, which
  holds for every offset it could add up to 24 (it adds 20); a name ends inside its
  64 bytes; and no loader's table reaches as far as the selector that two letters of a
  name make (0x6161, entry 3116).

## 3. Runs

`process_manager` (4 PCBs, so three processes beside the kernel's; table of 5;
words 0..5; 89,631 states). Three processes are enough to unlink one from the
head, the tail and between, to have one current, one killed and one waiting, and
to run out of PCBs; pid 0, the pid past the table and the value of -1 are all
among the arguments. After a dispatch no action is left, so deadlock is not
checked. It checks
- `TypeOK`: arrays and pointers, in particular that creation stops at the limit;
- `ReadyQueueIntact`: until a switch, the list is well linked and holds exactly
  the forked children that were not reaped;
- `NoUseAfterCleanup`: nothing leads to a cleared PCB;
- `KernelProtected`: the kernel process keeps pid, entry and stack, and no call
  that returns terminates it;
- `KilledStaysDead`: what `pkill` removed from the table stays terminated and
  without a stack, though it may be current or queued;
- `CreatedIsUnreferenced` (action property): a step that makes a process makes it of
  a PCB that is not current, that no queue pointer leads to and that no process counts
  as its parent. `pkill` leaves such references behind, and so does `sys_wait` when it
  reaps a process with children. The code keeps the property by never using a PCB
  twice: its ten PCBs last for ten creations since start-up, and "Mark as free" in
  `process_cleanup` (`process.c:805`) frees nothing. That is a leak, and no property
  denies it; what this one shows is that the obvious repair, taking a PCB that the
  table no longer leads to, would give a new process another one's children or
  place in the queue (its mutant does just that);
- `ImplementsFifo` (refinement): every step is a step of `ReadyFifo` or leaves
  the order alone.

`keyboard` (one letter, one symbol, two Shift keys, Ctrl, one unknown key and the
four special keys; at most two keys down together; line of 8, tab limit 5, so
that a tab is stored whole, cut short and refused; cooldown 2; delays 1; 116,757
states). Two keys suffice for one key to be held while another comes and goes;
the delays matter only as zero or not. The line and tab limits keep the code's
order and distance of 3. It checks
- `TypeOK`: the position never passes the limit that leaves room for the NUL;
- `HeldKeyIsDown`: no repetition outlives its key, also across lines;
- `PressIsTyped`: every press the loop reads while the line has room is typed
  once and as its own key. In which case is not part of it: the loop's Shift flag is
  cleared by the release of one of two Shifts and kept by a release that
  `keyboard_clear_buffer` discards, and its Caps Lock flag is the subject of the run
  `caps_lock`;
- `RepeatedEnterEndsNoLine`: the same Enter byte read again ends no second line;
- `EnterWorks` (liveness): who presses Enter again and again ends line after
  line. Fairness is weak fairness of the loop's next step: the loop has no exit
  and nothing else runs, so it always takes one. Nothing is assumed of the
  person typing; the property's own hypothesis is that Enter keeps being pressed.

`console` (rows of 3, 4 rows, tab stops of 2, lines of up to 5, a tab limit of 2,
one stray mark; 717,662 states). The longest prompt, line and marks take nine
cells, so a line runs over two row ends and the bottom of the screen, with scrolls
while it is being typed and erased. Deadlock is checked: there is always a next
key. It checks
- `TypeOK`: the cursor is always on the screen;
- `EchoShowsLine`: before the cursor stand the prompt, the line and the mark, as
  long as no modifier key has left a mark of its own (`keyboard.c:340` draws one
  without taking the old one away);
- `PromptKept`: with such marks, too, no backspace takes a cell the line does not
  own;
- `BlankAhead`: from the cursor on, the screen is blank.

`arguments` (every line of up to 7 characters of one letter, two digits and the
space, so up to four words with spaces around; buffers of 4; words modulo 70, so
that three digits wrap; 245,155 states). It checks
- `TypeOK`: no character behind the NUL is read;
- `ParsesFirstWords`: the count and the buffers are the first three words of the
  line, stated by the positions at which its words start;
- `OverrunByLongWord`: a buffer is overrun only by a word that does not fit in it.
  That this happens is what the code does (63 characters fit, a line has 255);
- `PidParsersAgree`: `pkill` and `pstatus` accept the pids that `pch` accepts,
  except 0, and read the same number;
- `LoopsProgress` (action property): every turn of every loop makes what is left to
  do (`Left`, a natural number) smaller;
- `Terminates` (liveness): every line is done with. Fairness is weak fairness of
  the next step; the loops run in the only thread there is.

`context_switch` (three processes with names that end before, inside and at the
end of what the assembly reads; two data selectors, each in the loader's table or
not, and in any of the segment registers; 100,224 states). All three calls of `schedule()` are
possible, with every pair of processes. The model ends when the processor
restarts, so deadlock is not checked. It checks
- `TypeOK`: the stack's depth, in particular, so that resuming again and again
  does not creep;
- `NeverBackInC`: neither the new process's code nor the caller's runs;
- `SavedContextResumes`: what `save_context` stored is taken back, with the stack and
  frame pointers it had. It can fault only if the loader's table no longer describes
  the segments the kernel itself runs on.

`process_pool` (a heap of 20 words at 16 in a space of 256 bytes, of which the
running kernel needs the last 8; stacks of 2 words; three pool PCBs beside the
kernel's and a queued child; a table of 5; two blocks of other callers, of 0, 1, 5,
44, 76, 77, 240, 252 or 253 bytes; 100,317 states). The sizes are those that take
nothing, are rounded, just stay below what the kernel needs, just fit the heap, just
do not fit, and make each of the three sums wrap; PCBs, pids and the memory below
`USED_START` all run out. Three stacks of 3 words and a small block fit below it, so
the interesting orders of creation, destruction and writing happen there. Deadlock
is not checked, since the model ends where the kernel's memory is reached. It checks
- `TypeOK`: the counter and `heap_current` stay in bounds;
- `BlocksApart`: while no request has reached the memory the kernel needs, blocks of
  requests up to the heap's size are inside and below that memory, aligned, large
  enough, with an intact header, and apart from all others;
- `SaneRequestsStayInside`: only a request that wraps writes outside the heap;
- `DataKept`: for as long, what an owner wrote stays until it frees that block;
- `FoundHasStack`: for as long, a process in the table has a stack that was not freed.
No property is stated of what `process_allocate_pid` returns: it has no caller, and
which pid it picks is its own definition.

Six runs show where the code does not do what a comment beside it, or the
repository's summary, says; each checks one property that states the words, and TLC
finds a behaviour of the code that violates it.

| Run | The words | What the code does |
|---|---|---|
| `dispatch_queue` | "If current process is still running and in ready queue, move to back" (`process.c:583`) | the process need not be queued; unlinking it tears the list |
| `dispatch_ready` | "Get next process from ready queue" (`process.c:580`), "Ready to run" (`process.h:9`) | dispatches terminated and blocked processes; also the one that exits, which `sys_exit` means to take out of the queue ("Remove from ready queue if present", `syscalls.c:83`) but tests for READY after it has set TERMINATED |
| `caps_lock` | "Toggle caps lock on key press only" (`keyboard.c:218`) | the release of another key clears `last_scancode` (`keyboard.c:273`), so the next repeat of a Caps Lock that is still down toggles again |
| `heap_over_kernel` | "Working kmalloc/kfree with 1MB heap" (`BETA_RELEASE_SUMMARY.md:8`) | the heap starts at the image's load address; creations that fit the heap overwrite what the kernel runs on |
| `switch_layout` | "Structure offsets for process_t (must match process.h)" (`context_switch.asm:18`) | `save_context` writes over name, state, priority and exit code |
| `enter_types` | "Enter is in cooldown, ignore" (`keyboard.c:370`) | a held Enter types the previous key's character |

`heap_over_kernel` uses the pool of `process_pool` without other callers and lets the
kernel need all memory behind the first three words, as the built kernel does behind
its multiboot header; the first stack still fits in front of it and the second
does not.

## 4. Proofs

`ReadyQueueProofs` shows that the list operations are right for any number of
PCBs: on a list that represents a sequence, `add_to_ready_queue` of a process
that is not in it represents the sequence with it appended (`AddAppends`), and
`remove_from_ready_queue` of one that is in it represents the sequence without
it (`RemoveDeletes`); `AddHolds` and `RemoveHolds` say the same of sets, and
`HoldsPointers` that no link leads outside.

`ProcessManagerProofs` proves `Spec => []P` for the five invariants of the
`process_manager` run and for `CreatedIsUnreferenced`, assuming only the two named
assumptions on the constants. None of the invariants but the type invariant is
inductive alone. `IInv` adds
- `PidInv`: a pid is its slot's number or 0, and a parent's pid is smaller than
  its child's. Without the order a process could be its own child and
  `sys_wait` could clear the current process;
- `TableInv`: an entry holds the live PCB with that pid, so that what
  `process_find_by_pid` returns was neither killed nor cleared;
- `KernelInv`: the kernel process is slot 1 and nobody's child, so it is never
  reaped;
- `CurrentInv`: there is a current process and it is live. This is what breaks
  when a switch is entered, and why the properties stop there.

`CreatedUnreferenced` follows from it step by step: only `Spawn` and `sys_fork` enter a
PCB in the table, they take the one after `process_count`, and by `PidInv` and the
well linked queue nothing leads to that one.

There is one lemma per action; `StateStep` serves the four actions that only
change states, `CreateStep` both ways to create a process, `ScheduleStep` both
callers of `schedule()`.

*The refinement.* `FifoImplemented` proves `Spec => ImplementsFifo`. `Order` walks
the list, so it has to be known what a walk yields: `WalkFollows` shows, by the least
index at which it would differ (`LeastNumber`, from the well-foundedness of `<` on
the numbers), that walking a list that represents a sequence meets that sequence;
`OrderIs` turns this into `Order(q) = sq`, and `OrderAdd` and `OrderRemove` give the
order after the two operations. Then each action maps to one abstract step:
`ForkImplements` to `Enqueue`, `WaitImplements` to `Withdraw`, `ScheduleImplements`
to `Yield` or `Dispatch`, and `FifoStutters` shows that all others leave the order alone.

`KeyboardProofs`. `IInv` adds to the type invariant that the device repeats only keys
that are down (`DeviceInv`), that the loop remembers only such keys, and none between
two lines (`MemoryInv`), and that an Enter byte which was read is remembered or its
cooldown lasts (`EnterInv`): without the last, the byte that ended a line could end
the next one. The position's bound, which keeps the NUL inside the buffer, needs the
tab's own limit to be no larger than the line's. `PressTyped` and `RepeatedEnter`
prove the two action properties from it.

`ConsoleProofs`. The lemmas about `Vga` say where a character goes when it is put, when
the cursor crosses a row and when the screen scrolls, counted from the cursor
backwards (`PutPlace`, `ErasePlace`, `NextLinePlace`): scrolling moves the cursor and the
cells by the same row, so what stands k cells before the cursor stays there.
`ShowsPut` and `ShowsErase` lift that to texts and `Holds` to the prompt and the line.
`IInv` adds `PromptPrinted`: what was printed of a prompt stands before the
cursor and the rest is pending. The assumption that a line fits is used exactly where
a scroll would take the row in which the prompt begins.

`HeapProofs` and `ProcessPoolProofs`. `HeapInv` holds blocks below `heap_current`, each
with its size in its header and apart from the others, as long as nothing was
written outside the heap, and `heap_current` below `USED_START` as long as the kernel
is whole. The theorems hold for every `USED_START`; their conclusions, but for the types
and `SaneInside`, are about the states before it is reached. `KmallocKeeps`, `KfreeKeeps`, `UseKeeps` and `WipeKeeps` prove
it of the operations, with the arithmetic of the sums that wrap in `AlignedBounds`,
`TotalSizeValue` and `SaneFits`. `SystemInv` adds who owns which block: every
process handed out has a stack of its own, and one in the table a stack that
was not freed. `DataKept` and `SaneRequestsStayInside` are action properties:
`NextStep` proves them of each action together with the invariant.

`ContextSwitchProofs`. `IInv` describes the stack frame at each label (`FrameInv`) and the
two kinds of PCB (`ContextInv`): never saved, with letters or nothing where the assembly
looks for `ds`; or saved by the call whose frame is still on the stack, with the
selectors the loader left. From the first
kind the load of `ds`, or the next load through it, faults; from the second the jump
lands behind the save again. So no number of processes, no other names and no
other loader bring the kernel back into C, and the depth of the stack is bounded.

`ArgumentsProofs`. `SkipInv` and `CopyInv` are the loop invariants of `parse_arguments`, stated
by the positions at which the words found so far start; `PidInv` is that of the pid
loop: the number read is the result of `string_to_uint32`'s loop after as many
characters. They hold for lines, buffers and words of any length. `LoopsShrink`
proves the decreasing measure on which termination rests.

**Only model-checked.** The liveness properties `EnterWorks` and `Terminates`: liveness under
fairness and the ENABLED it rests on are out of the prover's reach (of `Terminates`,
the decreasing measure is proved; that a loop not done can take a step is checked by
TLC). The six properties that the code violates are shown by TLC's
counterexamples and have nothing to prove.

## 5. Not modelled, and the plan

Not modelled:
- timer and interrupts: nothing executes `sti`, so no handler runs, `timer_ticks`
  stays 0 and `timer_sleep` has no caller; the handler's only effect on processes,
  `scheduler_tick`, is an action of `ProcessManager`. The missing gates of
  `idt_init` are used by `ContextSwitch`;
- several processes running in turn: there is no switch in this code that comes
  back, so what follows `context_switch` in `schedule()` (`process.c:575`) and the
  stack of a forked child (`process.c:774`) have no behaviour to check;
- boot and libc: straight-line code without state to interleave; the empty files;
- commands that only print, with their formatting: `fork` announcing a child
  although none was created (`kernel.c:577`) and `memory` printing 1024 with three
  digits are of this kind;
- what a kernel does whose code, tables or stacks `kmalloc` has overwritten: it has no
  defined behaviour, so `ProcessPool` ends there.

Next: an abstract allocator (a set of blocks that appear and are freed) that
`ProcessPool` implements, with the mapping from the heap's words; an abstract line editor
that both `Keyboard` and `Console` implement, which would tie the two modules' lines
together.
