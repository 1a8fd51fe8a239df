----------------------------- MODULE TestSync -----------------------------
(***************************************************************************)
(* Userland/c/tests/test_sync.c with use_sem = 1: the children that        *)
(* test_sync_internal creates run my_process_inc, half of them adding 1 to *)
(* `global' and half taking 1 away, n times each, under the semaphore      *)
(* "sem".  A child opens the semaphore by itself, so the slot may be closed*)
(* and created again in the middle of the test.                            *)
(*                                                                         *)
(* User code is interrupted anywhere: slowInc reads and writes in two      *)
(* steps.                                                                  *)
(***************************************************************************)
EXTENDS Semaphores, FiniteSetsExt

CONSTANTS Up,           \* the children that increment; the others decrement
          Iterations,   \* n of the test
          Kills         \* TRUE when somebody kills children

SEM_ID == "sem"

\* The name is not stored cut: sem_str_copy keeps 31 characters.
ASSUME TestSyncAssumption ==
    /\ Up \subseteq Pids /\ Iterations \in Nat \ {0} /\ Kills \in BOOLEAN
    /\ SEM_ID \in Names /\ Truncate[SEM_ID] = SEM_ID /\ 1 \in InitialValues

VARIABLES pc, aux, i, global,
          killed        \* a child was killed: its work is not complete

allVars == <<vars, pc, aux, i, global, killed>>

inc(p) == IF p \in Up THEN 1 ELSE -1

\* p moves on and, when the step is not a syscall, has the CPU.
Goto(p, from, to) == pc[p] = from /\ pc' = [pc EXCEPT ![p] = to]

open(p) ==
    /\ Goto(p, "open", "wait")
    /\ sys_sem_open(p, SEM_ID, 1)
    /\ UNCHANGED <<aux, i, global, killed>>

\* Mutant: the semaphore is not taken.
wait_not(p) ==
    /\ Goto(p, "wait", "read")
    /\ Runs(p)
    /\ UNCHANGED <<vars, aux, i, global, killed>>

wait(p) ==
    /\ Goto(p, "wait", "read")
    /\ sys_sem_wait(p, SEM_ID)
    /\ UNCHANGED <<aux, i, global, killed>>

slowInc_read(p) ==
    /\ Goto(p, "read", "write")
    /\ Runs(p)
    /\ aux' = [aux EXCEPT ![p] = global]
    /\ UNCHANGED <<vars, i, global, killed>>

slowInc_write(p) ==
    /\ Goto(p, "write", "post")
    /\ Runs(p)
    /\ global' = aux[p] + inc(p)
    /\ i' = [i EXCEPT ![p] = @ + 1]
    /\ UNCHANGED <<vars, aux, killed>>

post(p) ==
    /\ Goto(p, "post", IF i[p] < Iterations THEN "wait" ELSE "close")
    /\ sys_sem_post(p, SEM_ID)
    /\ UNCHANGED <<aux, i, global, killed>>

close(p) ==
    /\ Goto(p, "close", "exit")
    /\ sys_sem_close(p, SEM_ID)
    /\ UNCHANGED <<aux, i, global, killed>>

exit(p) ==
    /\ Goto(p, "exit", "done")
    /\ Runs(p)
    /\ Die(p)
    /\ UNCHANGED <<aux, i, global, killed>>

\* kill <pid> from another terminal program, or Ctrl+C, at any moment.
kill(p) ==
    /\ Kills
    /\ Die(p)
    /\ pc' = [pc EXCEPT ![p] = "done"]
    /\ killed' = TRUE
    /\ UNCHANGED <<aux, i, global>>

Step(p) == \/ open(p) \/ wait(p) \/ slowInc_read(p) \/ slowInc_write(p)
           \/ post(p) \/ close(p) \/ exit(p)

TInit ==
    /\ Init
    /\ pc = [p \in Pids |-> "open"]
    /\ aux = [p \in Pids |-> 0]
    /\ i = [p \in Pids |-> 0]
    /\ global = 0
    /\ killed = FALSE

TNext == \E p \in Pids : Step(p) \/ kill(p)

\* Every READY child gets the CPU (Process's NoStarvation).
TSpec == TInit /\ [][TNext]_allVars /\ \A p \in Pids : WF_allVars(Step(p))

-----------------------------------------------------------------------------
\* No update is lost: global is what the increments and decrements made so far
\* add up to, whoever is killed, even inside the critical section, and whenever
\* the semaphore is closed and created anew.  Hence the zero at the end: "Con
\* semaforos el valor final debe ser 0".
NoUpdateLost == global = FoldSet(LAMBDA p, sum : sum + inc(p) * i[p], 0, Pids)

\* The test ends: test_sync_internal's waits return, whoever is killed, and
\* unless somebody was, global is zero.
TestEnds == <>((\A p \in Pids : pc[p] = "done") /\ (killed \/ global = 0))
=============================================================================
