# MASS-OS: a TLA+ verification project

MASS-OS is a small 64-bit kernel (Pure64 boot, one core, one address space) with
a preemptive priority scheduler, blocking pipes, named semaphores, a keyboard
driver with a line discipline, two interchangeable heap managers and a shell with
its commands and tests. This directory models its logic in TLA+, checks the
models with TLC on small instances and proves some of the results with TLAPS.

## The system

One core runs everything. The three gates that change kernel state, `int 0x80`,
IRQ0 (timer) and IRQ1 (keyboard), are interrupt gates: a handler runs with
interrupts disabled until `iretq`. A handler is therefore atomic; two handlers
interleave in any order, and user code is interrupted between any two
instructions. A handler that must give up the CPU sets `force_switch`, and the
tail of the handler calls `scheduler_yield_impl` before `iretq`.

| Component | Source | State | Operations | Interacts with |
|---|---|---|---|---|
| Process table | `Kernel/c/process/process.c` | `process_table`, `next_pid` | create, exit, kill, kill_foreground, block, unblock, nice, waitpid, ps | scheduler (add, remove), semaphores and fds (clean-up on death), keyboard (stale waiter), heap (stack, argv) |
| Scheduler | `Kernel/c/scheduler/scheduler.c` | `run_queue`, `queue_idx`, `current_process`, `idle_pcb`, `force_switch` | add, remove, next_ready, tick, yield_impl | process table |
| Semaphores | `Kernel/c/semaphore/semaphore.c` | `sem_table`, `held_sems`/`opened_sems` of each PCB | open, wait, post, close, cleanup_for_process | process_block, process_unblock |
| Pipes and fds | `Kernel/c/pipe/pipe.c`, `fd.c` | `pipe_table`, `fd_table`, `fd[]` of each PCB | open, read, write, close, incref/decref, dup2 | process_block, process_unblock, keyboard |
| Keyboard and terminal | `Kernel/c/drivers/keyboardDriver.c` | ring buffer, `kbd_waiting_process`, mode, `tty_line` with its ready and end-of-input flags, modifiers | handlePressedKey, readKeyBuff, tty_set_mode, kbd_set_waiting, kbd_clear_waiting | process_kill_foreground, fd_read, the shell (mode) |
| Heap | `Kernel/c/memoryManager/*.c` | block list (first fit) or free lists by order (buddy) | mm_init, malloc, free, status | process_create, fds, pipes, sys_malloc |
| Syscall dispatch, interrupts | `Kernel/c/syscall/*.c`, `Kernel/asm/*.asm`, `Kernel/c/interrupts/*.c` | - | one entry per syscall | everything |
| MVar | `Userland/c/commands/mvar.c` | `umvar_table` | create, put, take, destroy | semaphores |
| Shell | `Userland/c/shell/*.c` | command line, descriptors of the pipe | parse, create, pipe, redirect, wait, change the terminal's mode | process, pipe, tty syscalls |
| Commands | `Userland/c/commands/*.c` | their buffers | cat, wc, filter; block, kill, nice, mem | pipes, terminal; process syscalls |
| Tests | `Userland/c/tests/*.c` | `global` of test_sync | test_sync, test_processes, test_prio, test_mm | the syscalls |
| Boot, video, sound, console, clock, packer | `Bootloader/`, `Kernel/c/drivers/videoDriver.c`, `Kernel/c/sound`, `Kernel/c/lib`, `Toolchain/` | devices | - | not modelled |

### What is hard in it, and what makes each part correct

- **Process table and scheduler.** Syscalls, ticks and keys come in any order and
  shift `run_queue` under `queue_idx`; a ZOMBIE is taken out of the queue after the
  index has moved to its successor; a process may kill itself on the stack it runs
  on; the keyboard driver keeps a pointer to a PCB across handlers; aging is capped.
  Correct means: the queue lists the live processes once each in descending
  priority, the process that has the CPU is RUNNING on a stack that is still
  allocated, a waiter's child is alive and will wake it, every READY process runs.
- **Semaphores.** A process may die while it waits, holds, both or neither, and each
  case undoes another part of `sem_wait`; the last close frees a slot that others
  may open again under another name. Correct means: the value and the queue agree,
  no unit is lost or granted twice, waiters are served in order of arrival.
- **MVar and test_sync.** User code over semaphores, interrupted anywhere, with
  participants that are killed and tables that fill up.
- **Heaps.** Long sequences of requests and releases; a byte lost in a split or a
  fusion shows much later. Correct means: regions are disjoint and big enough, and
  NULL is returned only when no hole is big enough.
- **Pipes and fds.** Blocking reads and writes with one wake-up per operation, counts
  of ends kept twice (descriptor and pipe) across create, setup, dup2, close and
  death, a table that is freed with the last end. Correct means: the counts are those
  of the references that exist, the wait queues hold the sleepers and nobody else, the
  last close wakes whoever waits for the other side.
- **Shell.** It runs a line in up to eleven syscalls, some of which may fail, while the
  children may be killed and the user types on. Correct means: the line ends, leaves
  nothing open, and the right command reads what the user typed for the left one.
- **Keyboard and terminal.** A key goes to the ring buffer or to the line, depending on
  the mode and on whether somebody waits at that very moment; there is one pointer for
  whoever waits; a change of mode throws the line away; the newline is stored without a
  test of the length. Correct means: no buffer overflows, keys keep their order, a
  sleeping reader has nothing to read, and a key wakes the one who sleeps.
- **Tests.** `test_processes` keeps its own book of its processes over random rounds;
  `test_prio` waits for processes of the lowest priority whose deaths may come before
  the wait.

## The modules

| Module | Models | Notes |
|---|---|---|
| `Process` | `process.c`, `scheduler.c`, the process syscalls, IRQ0, IRQ1 and the handlers' tails | The C functions are operators on a record of the kernel's globals (`Kernel`); an action applies those its handler calls, in its order, then `Return` takes the switch that `force_switch` asks for. |
| `MCProcess` | - | The two passes of `scheduler_next_ready` visit by visit, to compare with the closed form. |
| `ProcessProofs` | - | The proofs about `Process` and about `test_processes` of `TestProcs`. |
| `WaitQueue` | `queue_remove_pid` of `semaphore.c` and `pipe.c` | A wait queue is a sequence of pids; the place of a pid in the new queue is the number of copies that the loop has made. |
| `WaitQueueProofs` | - | Lemmas about wait queues, for the proofs of both users. |
| `Semaphores` | `semaphore.c` and its four syscalls, `sem_cleanup_for_process` | Scheduling is left open: any process that is not blocked may run. `Truncate` is `sem_str_copy`'s cut at 31 characters. |
| `CountingSemaphore` | what a semaphore promises | Abstract: available units, holders, waiters in order. |
| `NamedSemaphore` | - | The refinement mapping of a name to `CountingSemaphore`. |
| `MCSemaphores` | - | The constants for TLC. |
| `SemaphoresProofs` | - | The proofs about `Semaphores`, and that a name implements `CountingSemaphore`. |
| `TestSync`, `MCTestSync` | `test_sync.c` with semaphores | Extends `Semaphores`: each syscall is the kernel's action, `slowInc` reads and writes in two steps. |
| `TestSyncProofs` | - | `test_sync` loses no update. |
| `MVar`, `MCMVar` | `mvar.c` | Extends `Semaphores`: the command, its writers and readers, `umvar_table`. |
| `MVarProofs` | - | The proofs about `MVar`. |
| `Allocator` | what `memoryManager.h` promises | Abstract: a set of disjoint regions. |
| `FirstFit` | `memoryManagerFF.c` | Headers by address. The list's loops are the least or greatest address that passes the loop's test; `Tiling` checks that list order is address order. |
| `FirstFitProofs` | - | The proofs about `FirstFit`, and that it implements `Allocator`. |
| `Buddy` | `memoryManagerBuddy.c` | Headers by offset and the free lists. A header fused away is not in `hdr`. |
| `Pipes`, `MCPipes` | `pipe.c`, `fd.c`, the fd syscalls, `process_release_fds` | As in `Process`, operators on a record of the tables (`Kernel`) and one action per syscall. The ring buffer is kept; the wait queues are sequences. |
| `PipesProofs` | - | The proofs about `Pipes`. |
| `Stream` | what a pipe promises | Abstract: a bounded queue of bytes with two ends. |
| `Keyboard` | `keyboardDriver.c`, the terminal branch of `fd_read`, `sys_tty_mode` | Operators on a record of the driver's globals, from scancodes to bytes. By itself: any process reads, changes the mode or dies at any time. |
| `Shell` | `processLine` and `handle_pipe` of `userlib.c`, the read loop of the prompt, `cat`/`filter` and `wc`, the user | Composes `Pipes` and `Keyboard`: `left` or `left \| right`, with or without `&`, one step per syscall or key, with every failure that the shell handles. Holds the refinement mapping of the pipe to `Stream`. |
| `MCShell` | - | The keys that are typed. |
| `ShellProofs` | - | The proofs about `Keyboard`; `Shell` implements `Keyboard`'s specification, keeps the rules that the proofs about `Pipes` rest on, and its own properties; its pipe implements `Stream`. |
| `TestProcs`, `MCTestProcs` | `test_processes.c`, `test_prio.c`, the `my_*` wrappers | Extends `Process`: the programs and the shell that started them, each syscall the kernel's operators. |

State that the code does not have: `initial` (the value `sem_open` stored) and
`waits` in `Semaphores`, `killed` in `TestSync`, `full` and `cast` (who takes part and
who may be killed) in `MVar`, `own` (the descriptors that `sys_pipe` gave a process) and
`at` (the queue it sleeps in) in `Pipes`, `typed`, `accepted`, `received`, `short` and
`killed` in `Shell`. They serve the properties; `own` also says which descriptors a
program uses, `typed` what the user does. Definitions whose name ends as in `forget_no_undo`, under a comment
"Mutant", are plausible slips of the definition below them; each property is shown
to notice one.

Abstractions. Register frames, argv copies, names of processes and text are left
out. `wait_ticks` stops where the aging bonus does. What a dying process releases
in semaphores and fds is, in `Process`, a set of blocked processes that wake up
(`Releasable`); `Semaphores` says which ones. A syscall that returns an error and
changes nothing is no step.

`Pipes` takes programs as they are: a process uses its stdin and stdout and what
`sys_pipe` gave it, redirects input to read ends and output to write ends (`Fit`), and
sets up only children that have not started. Nobody unblocks a process that sleeps at a
pipe. Names are shorter than `PIPE_NAME_LEN`. A dead process's descriptors from
`sys_pipe` stay in its `own`: the kernel does not release them. A call that slept
returns -1 when it is woken, and the program makes it again or not.

`Keyboard` keeps scancodes, modifiers, both buffers and the mode; the echo, the screen
and F1's register dump are left out. `Shell` begins when the shell has read its line:
which of the four kinds it is, and whether its names are those of commands, is open.
What the shell reads afterwards at its prompt is no command but `kill`.
`TestProcs` lets the random choices be any choice and a counting loop take any time;
`create` has a slot or fails, as the table of `Process` says.

`Misuse` in `Process` says what programs do to processes that are not theirs:
`idle` (kill, block or nice pid 1), `unblock_internal` (unblock a process that the
kernel blocked), `wait_stranger` (waitpid of a process that is not a child). The
code guards none of these. `Discipline` in `Semaphores` says which rules programs
obey; `TestSync` and `MVar` run with no rule, as real programs over the same actions.

## The runs

| Run | Instance | Shows |
|---|---|---|
| `process` | 4 slots, 4 pids, 2 priorities, all syscalls with arguments inside and outside the range | types, `Structure`, `CurrentRuns`, `PidsAndStacks`, `WaiterHasChild`, `KbdWaiterBlocked`, `ChoiceIsFirstInTurn`, `WaitEndsWithDeath` |
| `process_fair` | 4 slots, the code's 5 priorities, aging interval 3 and bonus 4, no nice | `NoStarvation` |
| `starvation` (violation) | with nice | `AgingPreventsStarvation` fails: see Findings |
| `semaphores` | 3 processes, 2 names, 2 slots, locks, deaths anywhere | value and queue, units, references, waiters, and the refinement of `CountingSemaphore` |
| `test_sync` | 2 + 2 children, one iteration, kills anywhere | `NoUpdateLost` (one at a time between wait and post, and the value at the end), `TestEnds` |
| `mvar` | 2 writers and 2 readers of one MVar; or 2 MVars for one slot and 2 semaphore slots for 4 names, where a writer may be killed | `BufferOfOneUndisturbed`, `NoSemaphoreLeft`, `EveryoneGetsATurn` |
| `mvar_kill` (violation) | one writer killed | `BufferOfOne` fails: see Findings |
| `first_fit` | 192 bytes, 8 sizes around the boundaries, user and kernel | `Tiling` (the status counters included), `RefusalIsHonest`, `ImplementsAllocator` |
| `buddy` | orders 4 to 6, heaps of 64 and 112 bytes | `HeapIsWhole` (lists, headers, status), `HeadersWhereRead`, `RefusalIsHonest`, `ImplementsAllocator` |
| `pipes` | 2 processes, 2 pipes, 5 descriptors, a buffer of one byte, one name | `EndsCounted` (types included), `QueuesHoldSleepers`, `SleepersHaveHope`, `LastEndFrees` |
| `shell` | the four kinds of line, a pipe of 3 bytes, reads of 2, a ring buffer of 2, a terminal line of 3, 11 scancodes typed at any time, then Ctrl+C, Ctrl+D and kills | `LineFits`, `KeysInOrder`, `NobodyForgotten`, `SleeperNeedsInput`, `NothingLeftOpen`, `OutputArrives`, `PipelineEnds`, `ImplementsStream` |
| `test_procs` | 6 slots, 12 pids, `test_processes` with 2 and 4, `test_prio`, Ctrl+C at any time | `BookAgrees`, `TestPrioEnds` |

Bounds and why they are enough. Four slots hold idle, the shell, a child and a
grandchild or a second child: every branch of `process_kill` and of the waiting and
reaping code, and queues of three with two priorities, so that insertions and
removals happen before, at and after `queue_idx`. `MaxPid` only ends the creation of
processes. Three processes on a semaphore give a holder and two in line; the kernel
treats semaphores independently, two names in two slots show reuse. Four children
of `test_sync` close and reopen the semaphore while others run; a second iteration
gives 30 times the states and nothing new to the semaphore. A heap of 192 bytes
holds six minimal blocks, and the sizes hit the exact fit, the split with the
smallest rest and the fit that leaves too little for a split. The buddy heaps are a
power of two, as the kernel's, and one of three chunks, where the last buddy is
outside. Two processes and two pipes with five descriptors give a reader and a writer
that both sleep, die or close last, a second pipe whose two ends do not fit in
`fd_table` any more, and slots that are used again; one name and at most two opens of
it (`MaxOpens`) give the rules of named pipes with and without a partner. A buffer of
one byte is empty or full; the ring that wraps around with partial reads and writes is
in `shell`. The keys typed there
hit the full line, an erase in it, a line longer than the read, a second line, Shift and
Caps Lock together, and the ring buffer that overflows when they come before the read.
Arguments 2 and 4 of `test_processes` in 6 slots are one that fits beside idle, the shell
and the test and one that does not; 12 pids are two rounds and the nine processes of
`test_prio`. The undisturbed MVar never asks for a second slot; the crowded one has half
of the semaphores it needs, so that `sem_open` fails at each place where it can. An aging interval of 1 in `process`
makes every value of the bonus occur within the bound; `process_fair` has a longer one.
`Word` stands for 2^64; requests that wrap around it are excluded by the
assumptions of both heaps.

Fairness. `WF(Tick)`: IRQ0 is never masked for ever, as every handler ends in
`iretq`. `WF(Step(p))` for each process of `TestSync` and `MVar`: a READY process
gets the CPU, which is what `NoStarvation` shows of the scheduler for processes of
the default priority. `Shell` assumes the same of the shell and of both commands, and of
the user that he types to the end of his input and presses Ctrl+D when the left command
waits for more: `cat` ends in no other way. `TestProcs` runs over the scheduler itself, so
it assumes only the timer (`WF(Timer)`) and, as strong fairness, that a program that gets
the CPU again and again is not preempted each time before its next syscall or exit: even
one tick is thousands of instructions, and a program keeps the progress it made. No fairness is assumed of kills, of
other keys or of creations.

Deadlock is checked where the system cannot stop (`process`, `test_procs`, the heaps);
not in `semaphores`, where all processes may be dead, in `test_sync` and `shell`, which
end, in `pipes`, where everybody may sleep or be dead, and in `mvar`, where everybody may
sleep for ever in a table that was reclaimed.

## What is proved

`ProcessProofs` proves, for every number of slots, every priority range, every
aging interval and whatever programs do (`Misuse` included):

- `TypeCorrect`: `Spec => []TypeOK`;
- `StructureHolds`: `Spec => []Structure`: the queue lists exactly the live processes
  but idle, once each, in descending priority; `queue_idx` stays in it; nobody but
  the current process is RUNNING and no ZOMBIE outlives its handler; quanta are in
  range;
- `NextIsFirstInTurn`: `Spec => []ChoiceIsFirstInTurn`: the closed form that the model
  has for `scheduler_next_ready` is what its two loops over the queue return. Position `i`
  is visited at `turn(k, i)` and at no other visit, as the index wraps around once.

Assumptions: `ConstantsAssumption` of `Process` (at least two slots, a default
priority inside the range, a positive aging interval).

None is inductive by itself. A handler goes through states that violate
`Structure` (a ZOMBIE in the queue, nobody RUNNING), so the argument is about the
record that the C functions transform. `Consistent(k)` is what every function
preserves, in the middle of a handler too: types, queue and index; `Returnable(k)`
adds what `scheduler_yield_impl` needs when the handler's tail calls it; `Settled(k)`
is what holds after it. One lemma per C function shows that it preserves `Consistent`
and ends in `Returnable`; `ReturnSettles` and `TickSettles` lead to `Settled`, which
is `Inv` of the stored variables. Three facts need more than unfolding: the queue
always has room (`QueueHasRoom`, a pigeonhole argument: the full-queue test of
`scheduler_add` never drops a process), insertion keeps order and index
(`AddKeepsQueue`), and the reaping of a ZOMBIE after `scheduler_next_ready` leaves
the index inside (`ReapKeepsQueue`).

The other properties of `Process` depend on what programs do, and each theorem excludes
part of `Misuse`. TLC finds the property violated for each part in the table, on the
instance of `process`, but for `idle` in the last two rows: there the exclusion comes from
the invariant that the proofs share.

| theorem | property | excluded from `Misuse` |
|---|---|---|
| `PidsAreUnique` | `PidsAndStacks` | `idle` |
| `CurrentAlwaysRuns` | `CurrentRuns` | `idle`, `unblock_internal` |
| `KeyWakesSleeper` | `KbdWaiterBlocked` | `idle`, `unblock_internal` |
| `WaitsEndWithDeath` | `WaitEndsWithDeath` | `idle`, `unblock_internal` |
| `WaitersHaveChildren` | `WaiterHasChild` | all |

They share one inductive invariant, `LifeInv`, proved relative to `Inv`. It says of the
record of globals (`Life(k, n)`, n the last pid given) that idle can run and is not a
reader (otherwise a switch with nothing READY would wake a sleeper), that FREE slots
own nothing and pids are unique (so `process_get` finds the process meant), that whoever
is inside waitpid or a terminal read is BLOCKED and not inside both, and that whoever
waits has a live child whose `parent_pid` is its own (so that `wake_parent`, which goes
by the dying process's `parent_pid`, finds everybody who waits for it). The parts are
guarded by the rules they need. `Runnable(k)` is the link to the tail of the handler:
whoever takes RUNNING from the current process sets `force_switch`. `Since(k, r, d)`
follows the waits through a handler, d being the pid of the process that dies in it; it
gives `WaitEndsWithDeath`. One lemma per C function again, then one step per action
(`NextLife`).

Of `test_processes` over this kernel it proves, for every number of slots and every argument
that the test accepts:

- `TestKnowsItsProcesses`: `TSpec => []BookAgrees`: what the test believes of its processes is
  what the table has, and a creation fails only when the argument leaves no slot for idle, the
  shell and the test.

The assumption beside `ConstantsAssumption` is `TestProcsAssumption`: the program refuses 0
and what exceeds `MAX_PROCESSES`. `BookInvariance` is the invariant, `AtWork`. `Scene(k, n)`
says that pids are unique, that the shell alone may be inside waitpid, so a death wakes nobody
but the shell, that the shell and the test alone are in the foreground, so Ctrl+C kills the
test and none of its processes, and that idle can run. `Listed` says that the requests that
are not killed and the live pids after the test's correspond one to one, each process in a
state that the test believes; without the direction from the table to the book a process could
be left over and take a slot. `Course` ties the book to the place in the program: in the loop
that creates, the requests before `rq` are there, and `alive` counts them, and between the kill
and the wait the killed one too, so that a round ends only with nobody left. When no slot is
FREE, idle, the shell, the test and the requests before `rq` are all there is (`TableFull`, a
pigeonhole argument). `Held` is what a handler keeps of a process that it is not about: pid,
rank, sleep, and its state up to who has the CPU; one lemma per call shows that it holds of
everybody but its target, through the switch at its end.

`ShellProofs` proves of the driver, for every size of the ring buffer and the line, every table of
characters and any number of processes that use the terminal or die at any time
(assumption: `KeyboardAssumption` of `Keyboard`, sizes of at least 1):

- `KeyboardTypes`: `KSpec => []KTypeOK`: no index leaves the ring buffer;
- `LineAlwaysFits`: `KSpec => []LineFits`: `tty_line` never overflows;
- `SleeperHasNoLine`: whoever waits at the terminal waits for a line that is not complete
  and for an end of input that has not come;
- `KeysStayInOrder`: `KSpec => KeysInOrder`, an action property: a step takes keys from the
  front of the ring buffer or adds one at its end, and a full buffer loses its oldest key
  and no other. It needs that the end index is the start index plus the size, modulo the
  length: the code keeps all three.

`LineFits` is not inductive: the newline is stored without a test of the length. The
invariant `LineOK` says why there is room. A line that is not complete has left room for
one character, and only such a line takes keys, as nobody waits while there is a complete
line. This must hold in both modes: `kbd_waiting_process` survives a change of mode, so
the last conjunct speaks of the raw mode, too, where both flags are down.

`ShellProofs` then proves of the composition, for every input, every size and every table
(assumption: `ShellAssumption`; three different processes, and what the keyboard delivers
can be written to a pipe):

- `ShellUsesKeyboard`: `LSpec => KSpec`, the shell, its commands and the user implement the
  driver's specification; so what is proved of the driver holds here (`ShellLineFits`,
  `ShellKeysInOrder`);
- `ShellPipesSound`: the invariant of `Pipes` holds although the shell's programs are other
  callers than those of `Pipes`' own `Next` (`EndsCounted`);
- `ShellForgetsNobody` (`NobodyForgotten`), `ShellSleepersNeedInput` (`SleeperNeedsInput`),
  `ShellLeavesNothing` (`NothingLeftOpen`).

None of the three is inductive: whether a second process can come to the terminal depends on
where the shell is in its line. `ShellInvariance` proves the invariant. Its parts: the
place of the shell says whether the children exist, have started or are gone, and which ends
of the pipe the shell still holds itself (`WhereOK`, `ShellOK`); a command holds nothing but
its stdin and stdout (`ChildOK`); `wc` never reads the terminal (`RightOK`); the driver's
pointer is to a process that sleeps there, and its only one unless two read the terminal
(`TtyOK`); and the tables are right and no pipe is in use without an end (`KernelOK`). With
the counts, the last two give that nothing is open when the shell is back at its prompt.

- `ShellPipeIsStream`: `LSpec => ImplementsStream`, the refinement of `Stream`: a read takes
  the oldest bytes, a write adds what fits behind the newest while somebody can read it, and
  the bytes stay until the last end is gone, whoever closes it.

The mapping believes no counter: the bytes are what a read of the whole buffer would return
(`Tape`), and an end is there when a process holds it. Beside `ShellInvariance` the proof
needs one invariant, `Wound`: in every slot the write index is the read index plus the count,
modulo the size. It says where the next byte goes, and it outlives the last close because
`pipe_reset` clears all three. `PipesProofs` shows of every call what it does to the bytes:
all but `pipe_read` and `pipe_write` keep them or reset the slot (`Kept*`), a read
that takes bytes leaves the rest of the tape (`OutTape`), and a write puts them behind it,
around the end of the buffer, too (`IntoTape`). What is left is the ends. Free slots are held
by nobody, as the count of each end is the number of holders, and a slot that is in use is
held by somebody (`AllClean`); so the bytes are gone exactly when both ends are. A write to a
full pipe or to one whose reader is gone stutters.

`SemaphoresProofs` proves, for any number of processes, names and slots (assumption:
`SemaphoresAssumption`; it matters that a wait queue has room for every process, as
`queue_push` drops without a word who finds it full and `sem_wait` blocks it all the same):

| Theorem | Rules that programs obey | Shows |
|---|---|---|
| `SemaphoresTypeCorrect` | none | `TypeOK` |
| `ValueCountsTheLine` | `no_resume` | `QueueMatchesValue` |
| `ReferencesCounted` | `opened`, `once` | `OpenersCounted` |
| `LinesHoldWaiters` | `opened`, `once`, `no_resume` | `QueuesHoldWaiters` |
| `NoUnitLost` | all four (`Disciplined`) | `UnitsConserved` |

The rules are hypotheses because the code enforces none of them; each theorem names those
it uses, and the findings say what happens without. Each C function first gets a lemma
that says what it changes, field by field; the invariants are then proved from those
lemmas. `Books` is the inductive invariant of the last theorem. `Lines`: the length of a
queue is what the value says and its members are blocked. `Counted`: `open_count` is the
number of openers. `Waiters`: the queue of `i` holds exactly those that wait for `i`, and
a waiter has its semaphore open, which is why the slot cannot be freed and taken for
another name under it. `Holding`: who holds has it open and does not wait for it. `Units`:
the sum. A death is the hard case: it changes all slots at once, and a process in line may
inherit a unit; `cleanup_slot` treats the slots one by one, and a process waits for at
most one of them.

It also proves `NamedIsCounting`: under the four rules `Spec =>
ImplementsCounting`, for every name that is not stored cut and whose openers agree on the
initial value (`NamedAssumption`). A wait is `Acquire` or `Enter`, a post is `Release`, a
death is `Release` of a holder, `Leave` of a waiter and otherwise a stutter; `sem_open` and
`sem_close` are stutters, as a free slot counts as one with its initial value and the last
closer leaves it so (`Units`, with nobody holding or waiting). It needs one more invariant,
`OneSlot`: no two open slots have the name, and each was opened with `Stock`.

`TestSyncProofs` proves `SemaphoreGuardsGlobal`: `TSpec => []NoUpdateLost`, for any number of
children, iterations and slots, children killed anywhere and the slot closed and opened again
at any time (assumption: `TestSyncAssumption`; the name "sem" is not stored cut). Here the
four rules are no hypothesis: the program keeps them, and the proof shows it. The invariant
`TInv` has two parts. `Test`: the books of the semaphore balance (`Books`), at most one slot
is open and it is the lock with initial value 1, and the place of each child says whether it
has it open, waits or holds; at the read it may still sleep. `Tally`: what the child between
its read and its write has read is what `global` is, and `global` is the sum. The units give
that one child at a time is there. The sum is a fold; that one iteration moves it by one
summand is proved by the smallest set of children that would be a counterexample.

`MVarProofs` proves `SemaphoresGoWithMVar`: `MSpec => []NoSemaphoreLeft`, for any number of
MVars, participants and slots of both tables, whoever is killed and whatever is reclaimed
(assumption: `MVarAssumption`; the names are not stored cut, as `UMVAR_NAME_LEN` leaves room
for the suffix). The rules of the semaphores do not hold here: a command that reclaims a slot
closes semaphores of others, so `open_count` may fall below the number of openers, a slot may
be freed under them and go to another name while their bits are still set. The invariant
(`MVarCounts`) is what is left: an inequality. No two open slots have one name, and
`open_count` is at most the number of participants that have the slot open, whose MVar its
name still is, and whose place in the program says that they will close it (`Kept`);
participants and commands stay at the places of their own program (`Roles`).

It also proves `MVarIsBufferOfOne`: `MSpec => []BufferOfOneUndisturbed`. A writer posts what a
reader waits for, so no unit belongs to whoever waited for it and the books of `NoUnitLost` do
not balance here. The invariant `BInv` (`TokenInvariance`) follows one token instead. For every
MVar that is alone (all of the cast is of it, nobody has been killed) it says:

- `Team`: queues, counts and waiters of the semaphores are right, only the MVar's two are open,
  and the place of each process says which of them it has open and where it may sleep
  (`Player`; the undo of the first open is only reached when `sem_table` has one slot);
- `Token`: there is exactly one. It is a unit of the first semaphore and the buffer is empty,
  or a unit of the second and the buffer is full, or it is with the one participant between
  its wait and its post, whose role and place say which. A semaphore that is not open is worth
  the value that `sem_open` will give it;
- `Board`: no slot of `umvar_table` is in use before the command claims one and only that one
  afterwards, everybody at the buffer has found it, and a full buffer holds a value.

`WaitQueueProofs` shows that `queue_remove_pid` removes just its argument, once, keeps the
others distinct and in order, and what this does to lengths; the arguments count elements
and take the least element of a set of numbers where one would like an induction.

`PipesProofs` proves, for any number of processes, pipes, descriptors and names, any size
of the buffer and whatever is written (assumption: `PipesAssumption`):

- `PipesInvariant`: types and the inductive invariant `Inv`;
- `CountsAreRight` (`EndsCounted`), `QueuesAreRight` (`QueuesHoldSleepers`),
  `NobodyWaitsInVain` (`SleepersHaveHope`);
- `LastReferenceFrees` (`LastEndFrees`), an action property.

In the middle of a syscall the tables do not agree: a descriptor is counted before its
process has it, a process has lost a descriptor that is still counted, a dying process
has left the queues and its state does not say so. `Fine(k, R, S, D)` is therefore about a set `R` of references that is
given, descriptors `S` that are made but not yet referred to, and processes `D` that are
dying; each C function has a lemma that says how it moves these sets, and `Inv` is `Fine`
with the references that exist and nobody in between. Its parts beside the three
properties: `Live` (a descriptor of a pipe has a reference), `Anchored` (who sleeps at an
end has a reference to it), `Terminals` (descriptors 0 and 1 stay the terminal) and
`Unopened` (a process that is not there has no stdin and no stdout). `Anchored` is what makes the rest inductive: while somebody sleeps at a
pipe its slot is not free, so nobody else gets it with the sleeper in its queue. Two facts
came out of the proof: `process_pipe_setup` with the descriptor that is already there drops
it before it takes it again, and is safe because the parent's own reference remains; and
the queues never overflow, as a process is in one queue at most and `MAX_PROCESSES` bounds
them. `LastEndFrees` is about the step: a pipe in use with an end keeps one or is freed
(`StaysClean`), although some steps (an open that fails half-way) leave a pipe in use that
never had an end.

`FirstFitProofs` proves, for every size of the heap and any sequence of requests and
releases, by the kernel or by programs (assumption: `FirstFitAssumption`; no request within 8
bytes of 2^64):

- `HeapIsTiled` (`Tiling`): the blocks tile the heap, the list links each to its neighbour,
  and the counters of `mm_status` add up;
- `RefusalsAreHonest` (`RefusalIsHonest`): NULL means that no hole is big enough;
- `FirstFitIsAllocator` (`ImplementsAllocator`): the refinement of `Allocator`.

`HeapInvariance` is the invariant: the tiling and that no two free blocks are neighbours
(`FusedBut(heap, {})`). The second part is not in `Tiling`, but it is what makes the loop of
`mm_free` a fusion with at most one block on each side, and the refusal honest. The sums of
the counters are folds over the blocks; a split or a fusion moves them by the blocks it
touches, again by a smallest counterexample.

Only model-checked:

- liveness (`NoStarvation`, `TestEnds`, `EveryoneGetsATurn`, `PipelineEnds`,
  `TestPrioEnds`): fairness is out of the prover's reach;
- `Buddy` (`HeapIsWhole`, `HeadersWhereRead`, `RefusalIsHonest`, `ImplementsAllocator`): its
  arithmetic is that of powers of two, of which the provers know nothing;
- `OutputArrives` of `Shell`, which needs the place of every participant in its program and
  the history of its data.

## Findings

- `starvation`: the aging bonus is capped at 4, so a background process of priority 1
  never competes with a busy foreground process of priority 5; the comment of
  `scheduler_next_ready` promises that it eventually does.
- `mvar_kill`: a writer of an MVar waits on one semaphore and posts the other; its
  `held_sems` bit for the first stays set. Killed after its put, its clean-up posts the
  empty semaphore and the next writer overwrites a value nobody has read.

Observations without a run:

- `sys_block(1)` blocks the idle process, of which `kernel.c:27` says that it never is.
- A full `umvar_table` gives up a slot whose participants are alive, contrary to
  `mvar.c:132`; and two `mvar` commands that start together may find the same unused slot.
  The MVar that was there loses its buffer, a value may be overwritten before it is read and
  a participant may sleep for ever. `Undisturbed` therefore speaks of one `mvar`.
- `left | right &` makes both commands foreground processes (fg = 3), so the left one and
  the shell both read the terminal. The driver has one pointer: the second to sleep
  replaces the first, which no key wakes any more. `NobodyForgotten`, `SleeperNeedsInput`,
  `PipelineEnds` and `OutputArrives` exclude this line (`OneReader`).
- What is typed in cooked mode before the command sleeps in its read goes to the ring
  buffer and from there to the shell, after the command; a Ctrl+D that comes so early is
  no end of input for the command. A raw read that begins with a Ctrl+D drops what it took
  after it.
- The bound of `readKeyBuff`'s loop shrinks as it counts: a long read gets half.
- When the creation of a foreground command fails the terminal stays in cooked mode.
- Neither Ctrl+D nor `exit` leaves a nested `sh`, though the repository's README says so.
- `test_processes` with 62 to 64 processes always fails, and the endless loops created up
  to then fill the table; Ctrl+C of a test leaves its children alive.
- `sys_block` of a process that sleeps inside `sem_wait` or at a pipe makes it READY, and
  so does `sys_unblock`: it goes on without the unit and stays in the queue.
- When `fd_table` has no room for the first end, `pipe_create_fds` leaves the pipe in use
  without ends, for ever. Descriptors from `sys_pipe` are not released when their owner
  dies before it closes them.
- A write wakes one reader. When that one dies before it reads, or reads only part, a
  second reader sleeps on with bytes in the pipe.
- `cat` and `filter` ignore what `sys_write` returns, so a reader that falls behind by a
  whole buffer costs bytes in `cat | wc`.
- `process_pipe_setup` with the descriptor that is already there lets go of it before it
  takes it again; `dup2` checks for that.
- A pipe name of `PIPE_NAME_LEN` characters or more is stored cut and searched whole, so
  two processes with one such name never meet.
- `process_unblock` leaves `waiting_for` set when somebody unblocks a process inside
  waitpid.
- Two `sem_open` of one process and one close or death leave a reference that nobody
  returns (`open_count` counts opens, `opened_sems` is a bit). A semaphore name of 32
  characters or more is stored cut and searched whole, so each open makes another one.
- Requests within 8 bytes of 2^64 wrap to tiny ones in both heaps.
- `README.md` calls MVars native to the kernel; `mvar.c` is user code over semaphores.

## Plan

Done so far: `Process`, `Semaphores`, `TestSync`, `MVar`, the two heaps, `Pipes`,
`Keyboard`, `Shell` (which composes the last two), `TestProcs`, and the proofs about
`Process`, `TestProcs`, `Keyboard`, `Shell`, `Semaphores` with its refinement, `TestSync`,
`MVar`, `Pipes` and `FirstFit`. Next:

1. **Proofs**: `OutputArrives` of `Shell`; `Wound` and the tapes are its ground.
2. **Composition** of `Process` with `Semaphores` and `Pipes`: the sets that `Releasable`
   leaves open are those of `sem_cleanup_for_process` and `process_release_fds`. `Process`
   shall implement what the others assume of scheduling.

Runs are one per question. A new property takes the place of a weaker one.

## What is not modelled

The shell's parser, `help`, the history and the built-ins that print: text. `test_mm` is a
sequential caller of the heap, whose models take any sequence of calls; `block`, `kill` and
`nice` pass their arguments to syscalls that `Process` models with any argument. Nor the
boot loader (Pure64, BMFS), the module packer, video, console, sound, clock and exception dumps (device output, no state that a property
speaks of), register frames and the assembly that saves them, and text formatting.
