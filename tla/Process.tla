------------------------------ MODULE Process ------------------------------
(***************************************************************************)
(* The process table and the scheduler of the kernel:                      *)
(* Kernel/c/process/process.c, Kernel/c/scheduler/scheduler.c, the process *)
(* syscalls of syscallDispatcher.c and the tails of the interrupt handlers *)
(* of Kernel/asm/interrupts.asm.                                           *)
(*                                                                         *)
(* The machine has one core, and int 0x80, the timer (IRQ0) and the        *)
(* keyboard (IRQ1) enter through interrupt gates: a handler runs with      *)
(* interrupts off from its first instruction to iretq.  One handler is     *)
(* therefore one step, and the steps interleave in any order.              *)
(*                                                                         *)
(* The C functions are operators on a record of the kernel's globals; an   *)
(* action applies the functions its handler calls, in the handler's order, *)
(* and stores the resulting record.                                        *)
(***************************************************************************)
EXTENDS Integers, Sequences, FiniteSets

CONSTANTS
    MAX_PROCESSES,                  \* slots of process_table
    MAX_PRIORITY, DEFAULT_PRIORITY,
    AGING_INTERVAL,                 \* ticks of waiting per bonus point
    MAX_AGING_BONUS,
    MaxPid,                         \* bound: no process beyond this pid
    Calls,                          \* the process syscalls programs make
    NiceArguments,                  \* what programs pass to sys_nice
    Misuse                          \* what programs do to processes that are
                                    \* not theirs to touch

ASSUME ConstantsAssumption ==
    /\ MAX_PROCESSES \in Nat /\ MAX_PROCESSES >= 2
    /\ MAX_PRIORITY \in Nat
    /\ DEFAULT_PRIORITY \in 1..MAX_PRIORITY
    /\ AGING_INTERVAL \in Nat \ {0}
    /\ MAX_AGING_BONUS \in Nat
    /\ MaxPid \in Nat
    /\ NiceArguments \subseteq Nat
    /\ Calls \subseteq {"create_process", "exit", "kill", "nice", "block",
                        "unblock", "yield", "waitpid", "read"}
    /\ Misuse \subseteq {"idle", "unblock_internal", "wait_stranger"}

Slots == 0..(MAX_PROCESSES - 1)
NULL == -1
MIN_PRIORITY == 1

\* The first two processes that initializeKernelBinary creates; the idle
\* process keeps slot 0 and idle_pcb is never set again.
IDLE_PID == 1
SHELL_PID == 2
idle_pcb == 0

States == {"FREE", "READY", "RUNNING", "BLOCKED", "ZOMBIE"}

\* wait_ticks is read only through aging_bonus, which is constant from here.
MAX_WAIT == AGING_INTERVAL * MAX_AGING_BONUS

Priorities == MIN_PRIORITY..MAX_PRIORITY

PCB == [pid : Nat, priority : Priorities, remaining_quanta : 0..MAX_PRIORITY,
        wait_ticks : 0..MAX_WAIT, state : States, foreground : BOOLEAN,
        parent_pid : Nat, waiting_for : Nat, stack : BOOLEAN]

VARIABLES
    process_table,          \* [Slots -> PCB]
    run_queue,              \* the slots of run_queue[0..queue_size-1]
    queue_idx,              \* index into run_queue, from 0 as in the code
    current_process,        \* the slot that runs
    next_pid,
    kbd_waiting_process     \* slot the keyboard driver wakes, or NULL

vars == <<process_table, run_queue, queue_idx, current_process, next_pid,
          kbd_waiting_process>>

-----------------------------------------------------------------------------
(***************************************************************************)
(* The kernel's globals as one record.  force_switch is FALSE between two  *)
(* handlers: every handler that may set it clears it before iretq.         *)
(***************************************************************************)

Kernel == [table |-> process_table, queue |-> run_queue, idx |-> queue_idx,
           current |-> current_process, kbd |-> kbd_waiting_process,
           force_switch |-> FALSE]

Set(k, s, p) == [k EXCEPT !.table = [@ EXCEPT ![s] = p]]

\* A released slot.  process_create writes every field before any is read,
\* so what the C code leaves in the others is not told apart.
FreePCB == [pid |-> 0, priority |-> MIN_PRIORITY,
            remaining_quanta |-> MIN_PRIORITY, wait_ticks |-> 0,
            state |-> "FREE", foreground |-> FALSE, parent_pid |-> 0,
            waiting_for |-> 0, stack |-> FALSE]

\* The slot of a live process, NULL when there is none.
process_get(k, pid) ==
    LET found == {s \in Slots : /\ k.table[s].pid = pid
                                /\ k.table[s].state # "FREE"}
    IN  IF pid = 0 \/ found = {} THEN NULL
        ELSE CHOOSE s \in found : \A t \in found : s <= t

-----------------------------------------------------------------------------
(***************************************************************************)
(* The run queue: sorted by descending priority, first come first served   *)
(* within a priority.                                                      *)
(***************************************************************************)

\* Where scheduler_add puts p, from 1: before the first lower priority.
insert_pos(k, p) ==
    LET lower == {i \in 1..Len(k.queue) :
                    k.table[k.queue[i]].priority < k.table[p].priority}
    IN  IF lower = {} THEN Len(k.queue) + 1
        ELSE CHOOSE i \in lower : \A j \in lower : i <= j

scheduler_add(k, p) ==
    IF Len(k.queue) >= MAX_PROCESSES \/ p = idle_pcb
      THEN k
      ELSE LET n   == Len(k.queue)
               pos == insert_pos(k, p)
           IN  [k EXCEPT
                  !.queue = [i \in 1..(n + 1) |->
                               IF i < pos THEN k.queue[i]
                               ELSE IF i = pos THEN p
                               ELSE k.queue[i - 1]],
                  !.idx = IF pos - 1 <= @ /\ n + 1 > 1 THEN @ + 1 ELSE @]

\* Mutant: the index is moved only when the hole is before it.
scheduler_remove_no_clamp(k, p) ==
    LET others(s) == s # p
        pos == CHOOSE i \in 1..Len(k.queue) : k.queue[i] = p
    IN  IF \A i \in 1..Len(k.queue) : k.queue[i] # p THEN k
        ELSE [k EXCEPT !.queue = SelectSeq(@, others),
                       !.idx = IF pos - 1 < @ THEN @ - 1 ELSE @]

scheduler_remove(k, p) ==
    LET n     == Len(k.queue)
        found == {i \in 1..n : k.queue[i] = p}
    IN  IF found = {}
          THEN k
          ELSE LET pos == CHOOSE i \in found : \A j \in found : i <= j
               IN  [k EXCEPT
                      !.queue = [i \in 1..(n - 1) |->
                                   IF i < pos THEN k.queue[i]
                                   ELSE k.queue[i + 1]],
                      !.idx = IF @ >= n - 1 /\ n - 1 > 0 THEN n - 2
                              ELSE IF pos - 1 < @ THEN @ - 1
                              ELSE @]

\* Mutant: no aging.
aging_bonus_none(p) == 0

aging_bonus(p) ==
    LET b == p.wait_ticks \div AGING_INTERVAL
    IN  IF b > MAX_AGING_BONUS THEN MAX_AGING_BONUS ELSE b

\* Effective priority.
eff(p) == p.priority + (IF p.foreground THEN 1 ELSE 0) + aging_bonus(p)

(***************************************************************************)
(* scheduler_next_ready returns a process and moves queue_idx to it.  Both *)
(* passes start after queue_idx, and a pass that finds nothing leaves it   *)
(* where it was, after a full turn.                                        *)
(***************************************************************************)
ReadyPositions(k) ==
    {i \in 1..Len(k.queue) : k.table[k.queue[i]].state = "READY"}

HighestReady(k) ==
    {i \in ReadyPositions(k) : \A j \in ReadyPositions(k) :
        eff(k.table[k.queue[j]]) <= eff(k.table[k.queue[i]])}

Candidates(k) ==
    LET front == {i \in HighestReady(k) : k.table[k.queue[i]].foreground}
    IN  IF front # {} THEN front ELSE HighestReady(k)

\* Mutant: the search begins at queue_idx and not after it.
turn_from_idx(k, i) ==
    IF i - 1 >= k.idx THEN i - 1 - k.idx ELSE i - 1 - k.idx + Len(k.queue)

\* How many positions after queue_idx the loop meets position i.
turn(k, i) ==
    IF i - 1 > k.idx THEN i - 1 - k.idx ELSE i - 1 - k.idx + Len(k.queue)

next_position(k) ==
    CHOOSE i \in Candidates(k) : \A j \in Candidates(k) : turn(k, i) <= turn(k, j)

scheduler_next_ready(k) ==
    IF ReadyPositions(k) = {}
      THEN [next |-> idle_pcb, idx |-> k.idx]
      ELSE [next |-> k.queue[next_position(k)], idx |-> next_position(k) - 1]

-----------------------------------------------------------------------------
(***************************************************************************)
(* The context switch shared by scheduler_tick and scheduler_yield_impl:   *)
(* reap the process that leaves when it is a ZOMBIE and dispatch the       *)
(* choice.  idle_pcb is set at boot, so the choice is never NULL.          *)
(***************************************************************************)

reap(k) ==
    IF k.table[k.current].state = "ZOMBIE"
      THEN Set(scheduler_remove(k, k.current), k.current, FreePCB)
      ELSE k

dispatch(k, choice) ==
    LET after == reap([k EXCEPT !.idx = choice.idx])
    IN  [Set(after, choice.next,
             [after.table[choice.next] EXCEPT !.wait_ticks = 0,
                                              !.state = "RUNNING"])
           EXCEPT !.current = choice.next, !.force_switch = FALSE]

\* The process that leaves the CPU, its quantum restored; BLOCKED or ZOMBIE
\* when the syscall has made it so.
demote(k) ==
    LET cur == k.table[k.current]
    IN  Set(k, k.current,
            [cur EXCEPT !.state = IF @ = "RUNNING" THEN "READY" ELSE @,
                        !.remaining_quanta = cur.priority])

\* Aging of every READY process of the queue but the one that runs.
age(k) ==
    [k EXCEPT !.table = [s \in Slots |->
        IF /\ \E i \in 1..Len(k.queue) : k.queue[i] = s
           /\ s # k.current
           /\ k.table[s].state = "READY"
           /\ k.table[s].wait_ticks < MAX_WAIT
          THEN [k.table[s] EXCEPT !.wait_ticks = @ + 1]
          ELSE k.table[s]]]

\* A tick of the process that runs.
spend(k) ==
    Set(k, k.current, [k.table[k.current] EXCEPT
        !.remaining_quanta = IF @ > 0 THEN @ - 1 ELSE @])

-----------------------------------------------------------------------------
(***************************************************************************)
(* process.c                                                               *)
(***************************************************************************)

process_create(k, slot, pid, fg) ==
    LET p == [pid |-> pid, priority |-> DEFAULT_PRIORITY,
              remaining_quanta |-> DEFAULT_PRIORITY, wait_ticks |-> 0,
              state |-> IF fg \in {2, 3} THEN "BLOCKED" ELSE "READY",
              foreground |-> fg # 0,
              parent_pid |-> k.table[k.current].pid,
              waiting_for |-> 0, stack |-> TRUE]
    IN  scheduler_add(Set(k, slot, p), slot)

process_block(k, pid) ==
    LET s == process_get(k, pid)
    IN  IF s = NULL \/ k.table[s].state \in {"ZOMBIE", "BLOCKED"}
          THEN k
          ELSE [Set(k, s, [k.table[s] EXCEPT !.state = "BLOCKED"])
                  EXCEPT !.force_switch = @ \/ s = k.current]

process_unblock(k, pid) ==
    LET s == process_get(k, pid)
    IN  IF s = NULL \/ k.table[s].state # "BLOCKED"
          THEN k
          ELSE [Set(k, s, [k.table[s] EXCEPT !.state = "READY",
                                             !.wait_ticks = 0])
                  EXCEPT !.force_switch =
                    @ \/ k.table[s].priority > k.table[k.current].priority]

\* Mutant: no upper limit.
clamp_min(new_priority) ==
    IF new_priority < MIN_PRIORITY THEN MIN_PRIORITY ELSE new_priority

clamp(new_priority) ==
    IF new_priority < MIN_PRIORITY THEN MIN_PRIORITY
    ELSE IF new_priority > MAX_PRIORITY THEN MAX_PRIORITY
    ELSE new_priority

process_nice(k, pid, new_priority) ==
    LET s == process_get(k, pid)
        p == clamp(new_priority)
        niced == Set(k, s, [k.table[s] EXCEPT !.priority = p, !.wait_ticks = 0,
                                              !.remaining_quanta = p])
    IN  IF s = NULL THEN k
        ELSE IF k.table[s].state = "ZOMBIE" THEN niced
        ELSE scheduler_add(scheduler_remove(niced, s), s)

\* The ZOMBIE branch frees the slot and leaves it in the run queue.
process_waitpid(k, pid) ==
    LET child == process_get(k, pid)
    IN  IF child = NULL THEN k
        ELSE IF k.table[child].state = "ZOMBIE" THEN Set(k, child, FreePCB)
        ELSE [Set(k, k.current, [k.table[k.current] EXCEPT
                                   !.state = "BLOCKED", !.waiting_for = pid])
                EXCEPT !.force_switch = TRUE]

(***************************************************************************)
(* What the death of a process does to the others.  woken is the set of    *)
(* BLOCKED processes that sem_cleanup_for_process and the closing of pipe  *)
(* ends pass to process_unblock; which ones is decided by those components.*)
(***************************************************************************)
unblock_all(k, woken) ==
    LET blocked == {s \in woken : k.table[s].state = "BLOCKED"}
    IN  [k EXCEPT
           !.table = [s \in Slots |->
                        IF s \in blocked
                          THEN [k.table[s] EXCEPT !.state = "READY", !.wait_ticks = 0]
                          ELSE k.table[s]],
           !.force_switch = @ \/ \E s \in blocked :
                              k.table[s].priority > k.table[k.current].priority]

\* Mutant: the keyboard driver keeps the pointer to the dead process.
kbd_keep_waiting(k, s) == k

kbd_clear_waiting(k, s) == [k EXCEPT !.kbd = IF @ = s THEN NULL ELSE @]

\* Mutants: the parent sleeps on; the death of any child wakes it.
wake_nobody(k, s) == k
wake_any_parent(k, s) ==
    LET parent == process_get(k, k.table[s].parent_pid)
    IN  IF parent # NULL /\ k.table[parent].state = "BLOCKED"
          THEN Set(k, parent, [k.table[parent] EXCEPT !.waiting_for = 0,
                                 !.state = "READY", !.wait_ticks = 0])
          ELSE k

\* The parent of slot s, when it is blocked in waitpid for it, runs again.
wake_parent(k, s) ==
    LET parent == process_get(k, k.table[s].parent_pid)
    IN  IF /\ parent # NULL
           /\ k.table[parent].state = "BLOCKED"
           /\ k.table[parent].waiting_for = k.table[s].pid
          THEN Set(k, parent, [k.table[parent] EXCEPT !.waiting_for = 0,
                                 !.state = "READY", !.wait_ticks = 0])
          ELSE k

mark_zombie(k) ==
    [Set(k, k.current, [k.table[k.current] EXCEPT !.state = "ZOMBIE"])
       EXCEPT !.force_switch = TRUE]

process_exit(k, woken) ==
    mark_zombie(wake_parent(kbd_clear_waiting(unblock_all(k, woken), k.current),
                            k.current))

\* Mutant: a process that kills itself releases its own stack at once.
process_kill_at_once(k, s, sem_woken, fd_woken) ==
    Set(scheduler_remove(wake_parent(unblock_all(k, sem_woken \cup fd_woken), s), s),
        s, FreePCB)

process_kill(k, s, sem_woken, fd_woken) ==
    LET orphaned == wake_parent(kbd_clear_waiting(unblock_all(k, sem_woken), s), s)
    IN  IF s = k.current
          THEN unblock_all(mark_zombie(orphaned), fd_woken)
          ELSE Set(unblock_all(scheduler_remove(orphaned, s), fd_woken),
                   s, FreePCB)

\* The most recent foreground process, when it is not the only one.
Foreground(k) == {s \in Slots : k.table[s].state # "FREE" /\ k.table[s].foreground}

KillTarget(k) ==
    {s \in Foreground(k) : /\ Foreground(k) # {s}
                           /\ \A t \in Foreground(k) : k.table[t].pid <= k.table[s].pid}

-----------------------------------------------------------------------------
(***************************************************************************)
(* The handlers.  After int 0x80 and IRQ1 a set force_switch yields.       *)
(***************************************************************************)
Store(k) ==
    /\ process_table' = k.table
    /\ run_queue' = k.queue
    /\ queue_idx' = k.idx
    /\ current_process' = k.current
    /\ kbd_waiting_process' = k.kbd

\* scheduler_next_ready looks at the table before the reaping changes it.
Switch(k) == \E choice \in {scheduler_next_ready(k)} : Store(dispatch(k, choice))

scheduler_yield_impl(k) == \E left \in {demote(k)} : Switch(left)

\* The process that runs keeps the CPU while it has quanta.
scheduler_tick(k) ==
    \E aged \in {age(k)} :
        \/ /\ aged.table[aged.current].state # "RUNNING"
           /\ Switch(aged)
        \/ /\ aged.table[aged.current].state = "RUNNING"
           /\ \E spent \in {spend(aged)} :
                IF spent.table[spent.current].remaining_quanta > 0
                  THEN Store(spent)
                  ELSE scheduler_yield_impl(spent)

Return(result) ==
    \E k \in {result} : IF k.force_switch THEN scheduler_yield_impl(k) ELSE Store(k)

\* A program makes a syscall: idle_entry makes none, and neither does what is
\* left of a dead idle process.
Syscall(name) == name \in Calls /\ process_table[current_process].pid > IDLE_PID

\* The pids that a program passes to another process's syscalls.
Targets == IF "idle" \in Misuse THEN 1..next_pid ELSE (1..next_pid) \ {IDLE_PID}

\* Processes blocked inside waitpid or a terminal read.
Internal(s) == process_table[s].waiting_for # 0 \/ s = kbd_waiting_process

MayUnblock(s) == "unblock_internal" \in Misuse \/ ~Internal(s)

\* The sets of processes that a dying process may release.
Releasable(s) == SUBSET {t \in Slots \ {s} :
                           process_table[t].state = "BLOCKED" /\ MayUnblock(t)}

\* Mutant: next_pid is not advanced.
sys_create_same_pid(fg) ==
    /\ Syscall("create_process")
    /\ next_pid < MaxPid
    /\ \E slot \in Slots :
         /\ process_table[slot].state = "FREE"
         /\ Return(process_create(Kernel, slot, next_pid, fg))
    /\ UNCHANGED next_pid

\* A create that finds no slot or no memory returns -1 and changes nothing.
sys_create_process(fg) ==
    /\ Syscall("create_process")
    /\ next_pid < MaxPid
    /\ \E slot \in Slots :
         /\ process_table[slot].state = "FREE"
         /\ \A s \in Slots : s < slot => process_table[s].state # "FREE"
         /\ Return(process_create(Kernel, slot, next_pid + 1, fg))
    /\ next_pid' = next_pid + 1

sys_exit ==
    /\ Syscall("exit")
    /\ \E woken \in Releasable(current_process) : Return(process_exit(Kernel, woken))
    /\ UNCHANGED next_pid

\* process_kill of a live process, from a syscall or from the keyboard.
Kill(s) ==
    /\ process_table[s].state # "ZOMBIE"
    /\ \E sem_woken, fd_woken \in Releasable(s) :
         /\ sem_woken \cap fd_woken = {}
         /\ Return(process_kill(Kernel, s, sem_woken, fd_woken))
    /\ UNCHANGED next_pid

sys_kill(pid) ==
    /\ Syscall("kill")
    /\ process_get(Kernel, pid) # NULL
    /\ Kill(process_get(Kernel, pid))

sys_nice(pid, new_priority) ==
    /\ Syscall("nice")
    /\ Return(process_nice(Kernel, pid, new_priority))
    /\ UNCHANGED next_pid

sys_block(pid) ==
    LET s == process_get(Kernel, pid)
    IN  /\ Syscall("block")
        /\ s # NULL
        /\ \/ /\ process_table[s].state = "BLOCKED"
              /\ process_table[s].waiting_for = 0
              /\ MayUnblock(s)
              /\ Return(process_unblock(Kernel, pid))
           \/ /\ process_table[s].state # "BLOCKED"
              /\ Return(process_block(Kernel, pid))
        /\ UNCHANGED next_pid

sys_unblock(pid) ==
    /\ Syscall("unblock")
    /\ process_get(Kernel, pid) # NULL
    /\ MayUnblock(process_get(Kernel, pid))
    /\ Return(process_unblock(Kernel, pid))
    /\ UNCHANGED next_pid

sys_yield ==
    /\ Syscall("yield")
    /\ Return([Set(Kernel, current_process,
                  [process_table[current_process] EXCEPT !.state = "READY"])
                 EXCEPT !.force_switch = TRUE])
    /\ UNCHANGED next_pid

sys_waitpid(pid) ==
    LET s == process_get(Kernel, pid)
    IN  /\ Syscall("waitpid")
        /\ s # NULL
        /\ \/ "wait_stranger" \in Misuse
           \/ process_table[s].parent_pid = process_table[current_process].pid
        /\ Return(process_waitpid(Kernel, pid))
        /\ UNCHANGED next_pid

\* fd_read of the terminal by a foreground process that finds no input.
sys_read ==
    /\ Syscall("read")
    /\ process_table[current_process].foreground
    /\ Return([Set(Kernel, current_process,
                  [process_table[current_process] EXCEPT !.state = "BLOCKED"])
                 EXCEPT !.kbd = current_process, !.force_switch = TRUE])
    /\ UNCHANGED next_pid

\* handlePressedKey: a key that completes the input of the waiting process.
KeyPress ==
    /\ kbd_waiting_process # NULL
    /\ Return([Set(Kernel, kbd_waiting_process,
                  [process_table[kbd_waiting_process] EXCEPT !.state = "READY"])
                 EXCEPT !.kbd = NULL])
    /\ UNCHANGED next_pid

CtrlC == \E s \in KillTarget(Kernel) : Kill(s)

Tick ==
    /\ scheduler_tick(Kernel)
    /\ UNCHANGED next_pid

-----------------------------------------------------------------------------
\* After initializeKernelBinary and scheduler_start: idle in slot 0 outside the
\* queue, the shell in slot 1, dispatched.
Init ==
    /\ process_table = [s \in Slots |->
          IF s = 0 THEN [FreePCB EXCEPT !.pid = IDLE_PID, !.state = "READY",
                                        !.remaining_quanta = 1, !.stack = TRUE]
          ELSE IF s = 1
            THEN [FreePCB EXCEPT !.pid = SHELL_PID, !.state = "RUNNING",
                    !.priority = DEFAULT_PRIORITY,
                    !.remaining_quanta = DEFAULT_PRIORITY,
                    !.foreground = TRUE, !.stack = TRUE]
          ELSE FreePCB]
    /\ run_queue = <<1>>
    /\ queue_idx = 0
    /\ current_process = 1
    /\ next_pid = SHELL_PID
    /\ kbd_waiting_process = NULL

Next ==
    \/ \E fg \in 0..3 : sys_create_process(fg)
    \/ sys_exit
    \/ \E pid \in Targets : sys_kill(pid)
    \/ \E pid \in Targets, new_priority \in NiceArguments : sys_nice(pid, new_priority)
    \/ \E pid \in Targets : sys_block(pid)
    \/ \E pid \in Targets : sys_unblock(pid)
    \/ sys_yield
    \/ \E pid \in Targets : sys_waitpid(pid)
    \/ sys_read
    \/ KeyPress
    \/ CtrlC
    \/ Tick

Spec == Init /\ [][Next]_vars

\* The timer interrupt keeps coming: nothing masks IRQ0 for ever.
FairSpec == Spec /\ WF_vars(Tick)

-----------------------------------------------------------------------------
(***************************************************************************)
(* Properties.                                                             *)
(***************************************************************************)

\* Every global of process.c and scheduler.c has its type.
TypeOK ==
    /\ process_table \in [Slots -> PCB]
    /\ run_queue \in Seq(Slots)
    /\ queue_idx \in Nat
    /\ current_process \in Slots
    /\ next_pid \in Nat
    /\ kbd_waiting_process \in Slots \cup {NULL}

Live(s) == process_table[s].state # "FREE"

Queued == {run_queue[i] : i \in 1..Len(run_queue)}

\* run_queue holds every live process but idle, each once: a process that
\* scheduler_add lost never runs again, one that scheduler_remove left behind
\* is a pointer to a released slot, one held twice gets two turns.
QueueHoldsLive ==
    /\ Queued = {s \in Slots \ {idle_pcb} : Live(s)}
    /\ \A i, j \in 1..Len(run_queue) : run_queue[i] = run_queue[j] => i = j

\* scheduler_add and process_nice keep run_queue in descending priority.
QueueSorted ==
    \A i, j \in 1..Len(run_queue) : i <= j =>
        process_table[run_queue[j]].priority <= process_table[run_queue[i]].priority

\* queue_idx stays inside the queue through every insertion and removal, the
\* reaping after scheduler_next_ready has moved it included.
IdxInRange == queue_idx = 0 \/ queue_idx < Len(run_queue)

\* Between two handlers only the process that has the CPU is RUNNING, and no
\* ZOMBIE is left: the ZOMBIE branch of process_waitpid is never taken.
OneRunning ==
    \A s \in Slots : /\ process_table[s].state = "RUNNING" => s = current_process
                     /\ process_table[s].state # "ZOMBIE"

\* The process that has the CPU is RUNNING, on a stack that is still allocated:
\* no release of a stack (process_kill, the reaping of a ZOMBIE) hits the stack
\* that the CPU returns to.
CurrentRuns == /\ process_table[current_process].state = "RUNNING"
               /\ process_table[current_process].stack

\* A live process owns a stack and its pid is its own; a slot that is FREE owns
\* nothing.
PidsAndStacks ==
    /\ \A s \in Slots : Live(s) <=> process_table[s].stack
    /\ \A s \in Slots : Live(s) => process_table[s].pid \in 1..next_pid
    /\ \A s, t \in Slots : (Live(s) /\ process_table[s].pid = process_table[t].pid)
                            => s = t

\* A process gets at least one and at most `priority' ticks per turn.
QuantumInRange ==
    \A s \in Slots : Live(s) =>
        process_table[s].remaining_quanta \in 1..process_table[s].priority

\* What holds of the scheduler's data whatever programs do, to idle too.
Structure == QueueHoldsLive /\ QueueSorted /\ IdxInRange /\ OneRunning /\ QuantumInRange

\* A process blocked in waitpid for a child has something to wait for: the
\* child is alive and will find its parent waiting when it dies.
WaiterHasChild ==
    \A s \in Slots : process_table[s].waiting_for # 0 =>
        /\ process_table[s].state = "BLOCKED"
        /\ \E c \in Slots : /\ Live(c)
                            /\ process_table[c].pid = process_table[s].waiting_for
                            /\ process_table[c].parent_pid = process_table[s].pid

\* The keyboard driver's pointer is to a live foreground process that is blocked:
\* the wake-up, which stores READY whatever the state, never hits another one.
KbdWaiterBlocked ==
    kbd_waiting_process # NULL =>
        /\ process_table[kbd_waiting_process].state = "BLOCKED"
        /\ process_table[kbd_waiting_process].foreground

\* waitpid goes on until the process waited for is gone.
WaitEndsWithDeath ==
    [][\A s \in Slots :
         LET c == process_table[s].waiting_for
         IN  (c # 0 /\ process_table[s].pid = process_table'[s].pid
                /\ process_table'[s].waiting_for # c)
               => \A t \in Slots : process_table'[t].pid # c]_vars

\* A process that is READY does not wait for the CPU for ever.
NoStarvation ==
    \A s \in Slots \ {idle_pcb} :
        process_table[s].state = "READY" ~> process_table[s].state # "READY"

\* What scheduler_next_ready promises of aging: once nobody calls nice any
\* more, a process that waits long enough competes with higher priorities.
AgingPreventsStarvation ==
    <>[][~ \E pid \in Targets, new_priority \in NiceArguments :
              sys_nice(pid, new_priority)]_vars
      => NoStarvation

=============================================================================
