----------------------------- MODULE TestProcs -----------------------------
(***************************************************************************)
(* The programs test_processes and test_prio, run in the foreground by the *)
(* shell, over the process table and the scheduler of module Process:      *)
(* Userland/c/tests/test_processes.c, Userland/c/tests/test_prio.c and the *)
(* my_* wrappers of Userland/c/shell/syscall.c.                            *)
(*                                                                         *)
(* A step is a syscall of the process that has the CPU, a choice its       *)
(* program makes without one, or a timer tick.  These programs use neither *)
(* semaphores nor pipes, so nobody else is woken by a death.               *)
(***************************************************************************)
EXTENDS Process

CONSTANT Arguments          \* what the user gives test_processes

ASSUME TestProcsAssumption ==
    Arguments \subseteq 1..MAX_PROCESSES    \* it refuses the others

VARIABLES
    test,       \* "processes" or "prio"
    max_processes,
    pc,         \* of the shell and of the test
    rq,         \* the loop variable of test_processes
    p_rqs, alive,
    pids        \* of test_prio; p_rqs[rq].pid of test_processes is pids[rq]

book == <<rq, p_rqs, alive, pids>>
whole == <<test, max_processes>>
testVars == <<vars, whole, pc, book>>

TEST_PID == SHELL_PID + 1

Runs(pid) == process_table[current_process].pid = pid

\* Program pid, which has the CPU, goes from one place to another.
Goto(pid, from, to) == Runs(pid) /\ pc[pid] = from /\ pc' = [pc EXCEPT ![pid] = to]

\* The calls, as the wrappers make them.
create(fg) ==
    IF \A s \in Slots : process_table[s].state # "FREE"
      THEN UNCHANGED vars
      ELSE sys_create_process(fg)

\* What my_create_process returns.
created == IF next_pid' = next_pid THEN -1 ELSE next_pid'

kill(pid) ==
    /\ IF process_get(Kernel, pid) = NULL THEN Store(Kernel)
       ELSE Return(process_kill(Kernel, process_get(Kernel, pid), {}, {}))
    /\ UNCHANGED next_pid

\* sys_block toggles.
block(pid) ==
    LET s == process_get(Kernel, pid)
    IN  /\ CASE s = NULL -> Store(Kernel)
             [] s # NULL /\ process_table[s].state = "BLOCKED" ->
                  IF process_table[s].waiting_for # 0 THEN Store(Kernel)
                  ELSE Return(process_unblock(Kernel, pid))
             [] OTHER -> Return(process_block(Kernel, pid))
        /\ UNCHANGED next_pid

unblock(pid) == Return(process_unblock(Kernel, pid)) /\ UNCHANGED next_pid

nice(pid, prio) == Return(process_nice(Kernel, pid, prio)) /\ UNCHANGED next_pid

wait(pid) == Return(process_waitpid(Kernel, pid)) /\ UNCHANGED next_pid

exit == Return(process_exit(Kernel, {})) /\ UNCHANGED next_pid

-----------------------------------------------------------------------------
(***************************************************************************)
(* The shell: processLine of a foreground command, then the prompt.        *)
(***************************************************************************)
shell ==
    /\ \/ Goto(SHELL_PID, "create", "wait") /\ create(1)
       \/ Goto(SHELL_PID, "wait", "read") /\ wait(TEST_PID)
       \/ /\ Goto(SHELL_PID, "read", "read")
          /\ Return([Set(Kernel, current_process,
                        [process_table[current_process] EXCEPT !.state = "BLOCKED"])
                       EXCEPT !.kbd = current_process, !.force_switch = TRUE])
          /\ UNCHANGED next_pid
    /\ UNCHANGED <<whole, book>>

-----------------------------------------------------------------------------
(***************************************************************************)
(* test_processes: rounds of creating, and of killing, blocking and        *)
(* unblocking at random until all are killed.                              *)
(***************************************************************************)
\* The next iteration of a loop over the requests, or what follows the loop.
Loop(from, after) ==
    /\ Goto(TEST_PID, from, IF rq < max_processes THEN from ELSE after)
    /\ rq' = IF rq < max_processes THEN rq + 1 ELSE 1

tp_create ==
    /\ Runs(TEST_PID) /\ pc[TEST_PID] = "create"
    /\ create(0)
    /\ IF created = -1
         THEN /\ pc' = [pc EXCEPT ![TEST_PID] = "failed"]
              /\ UNCHANGED book
         ELSE /\ Loop("create", "act")
              /\ pids' = [pids EXCEPT ![rq] = created]
              /\ p_rqs' = [p_rqs EXCEPT ![rq] = "RUNNING"]
              /\ alive' = alive + 1

tp_failed ==
    /\ Goto(TEST_PID, "failed", "done")
    /\ exit
    /\ UNCHANGED book

tp_kill ==
    /\ p_rqs[rq] \in {"RUNNING", "BLOCKED"}
    /\ Goto(TEST_PID, "act", "wait")
    /\ kill(pids[rq])
    /\ p_rqs' = [p_rqs EXCEPT ![rq] = "KILLED"]
    /\ UNCHANGED <<rq, alive, pids>>

\* The pid is gone: the wait returns -1 at once.
tp_wait ==
    /\ Runs(TEST_PID) /\ pc[TEST_PID] = "wait"
    /\ pc' = [pc EXCEPT ![TEST_PID] = IF rq < max_processes THEN "act" ELSE "unblock"]
    /\ rq' = IF rq < max_processes THEN rq + 1 ELSE 1
    /\ wait(pids[rq])
    /\ alive' = alive - 1
    /\ UNCHANGED <<p_rqs, pids>>

\* Mutant: a process that is blocked already is blocked again.
tp_block_any ==
    /\ p_rqs[rq] \in {"RUNNING", "BLOCKED"}
    /\ Loop("act", "unblock")
    /\ block(pids[rq])
    /\ p_rqs' = [p_rqs EXCEPT ![rq] = "BLOCKED"]
    /\ UNCHANGED <<alive, pids>>

tp_block ==
    /\ p_rqs[rq] = "RUNNING"
    /\ Loop("act", "unblock")
    /\ block(pids[rq])
    /\ p_rqs' = [p_rqs EXCEPT ![rq] = "BLOCKED"]
    /\ UNCHANGED <<alive, pids>>

\* The action drawn does not fit the state.
tp_skip ==
    /\ p_rqs[rq] # "RUNNING"
    /\ Loop("act", "unblock")
    /\ UNCHANGED <<vars, p_rqs, alive, pids>>

tp_unblock ==
    /\ \/ /\ p_rqs[rq] = "BLOCKED"
          /\ unblock(pids[rq])
          /\ p_rqs' = [p_rqs EXCEPT ![rq] = "RUNNING"]
       \/ UNCHANGED <<vars, p_rqs>>
    /\ Loop("unblock", IF alive > 0 THEN "act" ELSE "create")
    /\ UNCHANGED <<alive, pids>>

test_processes ==
    /\ test = "processes"
    /\ \/ tp_create \/ tp_failed \/ tp_kill \/ tp_wait \/ tp_block \/ tp_skip \/ tp_unblock
    /\ UNCHANGED whole

-----------------------------------------------------------------------------
(***************************************************************************)
(* test_prio: the calls it makes, in order.  What my_create_process        *)
(* returns is not looked at.                                               *)
(***************************************************************************)
TOTAL_PROCESSES == 3
prio == <<1, 3, 5>>         \* LOWEST, MEDIUM, HIGHEST

Each(calls) == [i \in 1..(TOTAL_PROCESSES * Len(calls)) |->
                  <<calls[((i - 1) % Len(calls)) + 1], ((i - 1) \div Len(calls)) + 1>>]

test_prio_calls ==
    Each(<<"create">>) \o Each(<<"wait">>)
    \o Each(<<"create", "nice">>) \o Each(<<"wait">>)
    \o Each(<<"create", "block", "nice">>) \o Each(<<"unblock">>) \o Each(<<"wait">>)
    \o << <<"exit", 1>> >>

Call(name, i) ==
    \/ name = "create" /\ create(0) /\ pids' = [pids EXCEPT ![i] = created]
    \/ /\ \/ name = "wait" /\ wait(pids[i])
          \/ name = "nice" /\ nice(pids[i], prio[i])
          \/ name = "block" /\ block(pids[i])
          \/ name = "unblock" /\ unblock(pids[i])
          \/ name = "exit" /\ exit
       /\ UNCHANGED pids

\* rq counts the calls made.
test_prio ==
    /\ test = "prio"
    /\ Runs(TEST_PID)
    /\ rq \in 1..Len(test_prio_calls)
    /\ Call(test_prio_calls[rq][1], test_prio_calls[rq][2])
    /\ rq' = rq + 1
    /\ UNCHANGED <<whole, pc, p_rqs, alive>>

\* zero_to_max has counted far enough; endless_loop never has.
zero_to_max ==
    /\ test = "prio"
    /\ process_table[current_process].pid > TEST_PID
    /\ exit
    /\ UNCHANGED <<whole, pc, book>>

-----------------------------------------------------------------------------
TInit ==
    /\ Init
    /\ \/ test = "processes" /\ max_processes \in Arguments
       \/ test = "prio" /\ max_processes = 0
    /\ pc = [pid \in {SHELL_PID, TEST_PID} |-> "create"]
    /\ rq = 1 /\ alive = 0
    /\ p_rqs = [i \in 1..MAX_PROCESSES |-> "KILLED"]
    /\ pids = [i \in 1..MAX_PROCESSES |-> 0]

\* The user ends the test.  Its processes live on.
Interrupt ==
    /\ \E s \in KillTarget(Kernel) : Return(process_kill(Kernel, s, {}, {}))
    /\ UNCHANGED <<next_pid, whole, pc, book>>

Timer == Tick /\ UNCHANGED <<whole, pc, book>>

TNext == shell \/ test_processes \/ test_prio \/ zero_to_max \/ Interrupt \/ Timer

\* test_prio makes its next call.
test_prio_step == test = "prio" /\ Runs(TEST_PID) /\ rq <= Len(test_prio_calls) /\ rq' = rq + 1

\* The timer interrupt keeps coming, and it does not preempt a program, each
\* time it gets the CPU, before its next call or its exit.
TSpec == /\ TInit /\ [][TNext]_testVars
         /\ WF_testVars(Timer)
         /\ SF_testVars(shell) /\ SF_rq(test_prio_step) /\ SF_testVars(zero_to_max)

-----------------------------------------------------------------------------
InKernel(pid) == IF process_get(Kernel, pid) = NULL THEN "gone"
                 ELSE process_table[process_get(Kernel, pid)].state

\* What test_processes believes of its processes is what the kernel has, round
\* after round: nobody runs that it has blocked or has died that it has not
\* killed.  No slot of a killed process is lost, so a creation fails only when
\* the argument leaves no slot for idle, the shell and the test.
BookAgrees ==
    test = "processes" =>
        /\ \A i \in 1..MAX_PROCESSES :
             CASE p_rqs[i] = "RUNNING" -> InKernel(pids[i]) \in {"READY", "RUNNING"}
               [] p_rqs[i] = "BLOCKED" -> InKernel(pids[i]) = "BLOCKED"
               [] p_rqs[i] = "KILLED"  -> InKernel(pids[i]) = "gone"
        /\ max_processes <= MAX_PROCESSES - 3 => pc[TEST_PID] # "failed"

\* test_prio ends: the processes of the lowest priority finish too, whenever the
\* priorities change, none that was blocked is left so, and nobody is waited for
\* after its death; then the shell goes on.
TestPrioEnds ==
    test = "prio" => <>(InKernel(TEST_PID) = "gone" /\ pc[SHELL_PID] = "read"
                          /\ kbd_waiting_process # NULL)
=============================================================================
