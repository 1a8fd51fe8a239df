---------------------------- MODULE Semaphores ----------------------------
(***************************************************************************)
(* The named semaphores of Kernel/c/semaphore/semaphore.c.                 *)
(*                                                                         *)
(* A syscall is one step (module Process says why), so the spinlock of a   *)
(* semaphore is never contended and is left out.  Who runs next is left to *)
(* the scheduler: here any process that is not blocked may make the next   *)
(* call.  Of process.c this module keeps what semaphores touch: whether a  *)
(* process is blocked, and the held_sems and opened_sems bitmaps.          *)
(***************************************************************************)
EXTENDS Integers, Sequences, FiniteSets, WaitQueue

CONSTANTS
    Pids,               \* the processes; pids are never used twice
    MAX_PROCESSES,      \* the length of a wait queue
    MAX_SEMS,           \* slots of sem_table
    Names,              \* what programs pass as names
    Truncate,           \* [Names -> Names]: what sem_str_copy stores
    InitialValues,      \* what programs pass to sem_open
    MaxValue,           \* bound: no post beyond this value
    MaxOpens,           \* bound: no open beyond this open_count
    Discipline          \* the rules that programs obey

ASSUME SemaphoresAssumption ==
    /\ MAX_PROCESSES \in Nat \ {0}
    /\ IsFiniteSet(Pids) /\ Cardinality(Pids) <= MAX_PROCESSES
    /\ MAX_SEMS \in Nat \ {0}
    /\ Names # {} /\ Truncate \in [Names -> Names]
    /\ \A n \in Names : Truncate[Truncate[n]] = Truncate[n]
    /\ InitialValues \subseteq Nat
    /\ MaxValue \in Nat /\ MaxOpens \in Nat
    /\ Discipline \subseteq {"opened", "once", "paired", "no_resume"}

Sems == 0..(MAX_SEMS - 1)
NULL == -1

\* value is an int64_t, far from its limits.  initial is what the slot's
\* sem_open stored: the code does not keep it, the properties need it.
Semaphore == [name : Names, value : Int, initial : Nat, queue : Seq(Pids),
              open_count : Nat]

\* waits: the semaphore inside whose sem_wait the process sleeps, or NULL.
PCB == [state : {"READY", "BLOCKED", "FREE"}, held : SUBSET Sems,
        opened : SUBSET Sems, waits : Sems \cup {NULL}]

VARIABLES sem_table, process

vars == <<sem_table, process>>

Kernel == [sems |-> sem_table, procs |-> process]

\* A slot that is not open.  sem_open writes every field before any is read.
FreeSem == [name |-> CHOOSE n \in Names : TRUE, value |-> 0, initial |-> 0,
            queue |-> <<>>, open_count |-> 0]

Settle(s) == IF s.open_count = 0 THEN FreeSem ELSE s

Open(k) == {i \in Sems : k.sems[i].open_count > 0}

First(S) == CHOOSE i \in S : \A j \in S : i <= j

\* The open slot with this name, NULL when there is none.
find_sem(k, name) ==
    LET found == {i \in Open(k) : k.sems[i].name = name}
    IN  IF found = {} THEN NULL ELSE First(found)

-----------------------------------------------------------------------------
(***************************************************************************)
(* The operations, on a record of both tables.                             *)
(***************************************************************************)

process_unblock(p) ==
    IF p.state = "BLOCKED" THEN [p EXCEPT !.state = "READY", !.waits = NULL] ELSE p

\* The slot that a new semaphore gets.
FreeSlots(k) == Sems \ Open(k)

sem_open(k, p, name, v) ==
    LET i == IF find_sem(k, name) # NULL THEN find_sem(k, name)
             ELSE First(FreeSlots(k))
        s == IF find_sem(k, name) # NULL
               THEN [k.sems[i] EXCEPT !.open_count = @ + 1]
               ELSE [name |-> Truncate[name], value |-> v, initial |-> v,
                     queue |-> <<>>, open_count |-> 1]
    IN  [sems |-> [k.sems EXCEPT ![i] = s],
         procs |-> [k.procs EXCEPT ![p].opened = @ \cup {i}]]

sem_wait(k, p, i) ==
    LET s == k.sems[i]
    IN  IF s.value - 1 < 0
          THEN [sems |-> [k.sems EXCEPT
                            ![i].value = @ - 1,
                            ![i].queue = IF Len(@) >= MAX_PROCESSES THEN @
                                         ELSE Append(@, p)],
                procs |-> [k.procs EXCEPT ![p].state = "BLOCKED", ![p].waits = i]]
          ELSE [sems |-> [k.sems EXCEPT ![i].value = @ - 1],
                procs |-> [k.procs EXCEPT ![p].held = @ \cup {i}]]

\* Mutant: the process popped is not unblocked.
give_asleep(k, i) ==
    IF k.sems[i].value + 1 <= 0
      THEN [k EXCEPT !.sems[i].value = @ + 1, !.sems[i].queue = Tail(@)]
      ELSE [k EXCEPT !.sems[i].value = @ + 1]

\* One unit back to semaphore i, handed to the first in line when there is one.
give(k, i) ==
    LET s == k.sems[i]
    IN  IF s.value + 1 <= 0 /\ s.queue # <<>>
          THEN [sems |-> [k.sems EXCEPT ![i].value = @ + 1, ![i].queue = Tail(@)],
                procs |-> [q \in Pids |->
                             IF q = Head(s.queue) /\ k.procs[q].state # "FREE"
                               THEN [process_unblock(k.procs[q]) EXCEPT !.held = @ \cup {i}]
                               ELSE k.procs[q]]]
          ELSE [k EXCEPT !.sems[i].value = @ + 1]

\* Mutant: the one woken is the last in line.
sem_post_last(k, p, i) ==
    LET s == k.sems[i]
        n == Len(s.queue)
    IN  give([sems |-> [k.sems EXCEPT ![i].queue =
                          IF n = 0 THEN @ ELSE <<@[n]>> \o SubSeq(@, 1, n - 1)],
              procs |-> [k.procs EXCEPT ![p].held = @ \ {i}]], i)

sem_post(k, p, i) == give([k EXCEPT !.procs[p].held = @ \ {i}], i)

\* Mutant: the reference is not returned.
sem_close_leaks(k, p, i) ==
    [k EXCEPT !.procs[p].held = @ \ {i}, !.procs[p].opened = @ \ {i}]

sem_close(k, p, i) ==
    [sems |-> [k.sems EXCEPT ![i] = Settle([k.sems[i] EXCEPT !.open_count = @ - 1])],
     procs |-> [k.procs EXCEPT ![p].held = @ \ {i}, ![p].opened = @ \ {i}]]

Queued(s, p) == p \in Elements(s.queue)

\* Mutants: a waiter's decrement is not undone; a waiter stays in line; what a
\* holder had is lost.
forget_no_undo(k, p, i) ==
    LET s == k.sems[i]
    IN  [s EXCEPT !.queue = queue_remove_pid(@, p),
                  !.open_count = IF i \in k.procs[p].opened THEN @ - 1 ELSE @]
forget_in_line(k, p, i) ==
    [k.sems[i] EXCEPT !.open_count = IF i \in k.procs[p].opened THEN @ - 1 ELSE @]
Holds_nothing(k, p, i) == FALSE

\* The units that p's death gives back to semaphore i: the one it waits for
\* does not count as held.
Holds(k, p, i) == i \in k.procs[p].held /\ ~Queued(k.sems[i], p)

\* Semaphore i without p: its place in the line, and its reference.
forget(k, p, i) ==
    LET s == k.sems[i]
    IN  [s EXCEPT !.queue = queue_remove_pid(@, p),
                  !.value = IF Queued(s, p) THEN @ + 1 ELSE @,
                  !.open_count = IF i \in k.procs[p].opened THEN @ - 1 ELSE @]

\* Each slot is treated by itself: what happens to one touches no other, and
\* of a process only its bit for that slot.
cleanup_slot(k, p, i) ==
    LET left == [k EXCEPT !.sems[i] = forget(k, p, i)]
    IN  IF i \notin Open(k) THEN k
        ELSE IF Holds(k, p, i) THEN give(left, i)
        ELSE left

\* The slots whose unit goes from p to q.
Inherited(k, p, q) == {i \in Sems : cleanup_slot(k, p, i).procs[q] # k.procs[q]}

sem_cleanup_for_process(k, p) ==
    [sems |-> [i \in Sems |-> Settle(cleanup_slot(k, p, i).sems[i])],
     procs |-> [q \in Pids |->
        IF q = p
          THEN [state |-> "FREE", held |-> {}, opened |-> {}, waits |-> NULL]
        ELSE IF Inherited(k, p, q) = {} THEN k.procs[q]
        ELSE [process_unblock(k.procs[q]) EXCEPT !.held = @ \cup Inherited(k, p, q)]]]

-----------------------------------------------------------------------------
(***************************************************************************)
(* The syscalls.  Discipline says which rules programs obey:               *)
(*   opened    wait, post and close only what they have open;              *)
(*   once      open only what they do not have open;                       *)
(*   paired    post what they have waited for, and nothing else, and close *)
(*             nothing in between;                                         *)
(*   no_resume nobody unblocks a process that is inside sem_wait.          *)
(***************************************************************************)
Obeyed(rule, condition) == rule \in Discipline => condition

Store(k) == sem_table' = k.sems /\ process' = k.procs

Runs(p) == process[p].state = "READY"

\* A full table returns 0 and changes nothing.
sys_sem_open(p, name, v) ==
    LET i == find_sem(Kernel, name)
    IN  /\ Runs(p)
        /\ \/ i = NULL /\ FreeSlots(Kernel) # {}
           \/ i # NULL /\ sem_table[i].open_count < MaxOpens
        /\ Obeyed("once", i \notin process[p].opened)
        /\ Store(sem_open(Kernel, p, name, v))

\* The other calls return -1 when there is no such semaphore.
MayUse(p, i) == i # NULL /\ Obeyed("opened", i \in process[p].opened)

sys_sem_wait(p, name) ==
    LET i == find_sem(Kernel, name)
    IN  /\ Runs(p)
        /\ MayUse(p, i)
        /\ Obeyed("paired", i \notin process[p].held)
        /\ Store(sem_wait(Kernel, p, i))

sys_sem_post(p, name) ==
    LET i == find_sem(Kernel, name)
    IN  /\ Runs(p)
        /\ MayUse(p, i)
        /\ sem_table[i].value < MaxValue
        /\ Obeyed("paired", i \in process[p].held)
        /\ Store(sem_post(Kernel, p, i))

sys_sem_close(p, name) ==
    LET i == find_sem(Kernel, name)
    IN  /\ Runs(p)
        /\ MayUse(p, i)
        /\ Obeyed("paired", i \notin process[p].held)
        /\ Store(sem_close(Kernel, p, i))

\* process_exit of the process that runs, or process_kill of any other.
Die(p) ==
    /\ process[p].state # "FREE"
    /\ Store(sem_cleanup_for_process(Kernel, p))

\* The process blocks outside this component: waitpid, a pipe, sys_block.
Suspend(p) ==
    /\ Runs(p)
    /\ process' = [process EXCEPT ![p].state = "BLOCKED"]
    /\ UNCHANGED sem_table

\* ... and is unblocked from there.  sys_unblock and sys_block do not ask where
\* a process is blocked.
Resume(p) ==
    /\ process[p].state = "BLOCKED"
    /\ Obeyed("no_resume", process[p].waits = NULL)
    /\ process' = [process EXCEPT ![p] = process_unblock(@)]
    /\ UNCHANGED sem_table

Init ==
    /\ sem_table = [i \in Sems |-> FreeSem]
    /\ process = [p \in Pids |-> [state |-> "READY", held |-> {}, opened |-> {},
                                  waits |-> NULL]]

Next ==
    \E p \in Pids :
        \/ \E name \in Names, v \in InitialValues : sys_sem_open(p, name, v)
        \/ \E name \in Names : sys_sem_wait(p, name)
        \/ \E name \in Names : sys_sem_post(p, name)
        \/ \E name \in Names : sys_sem_close(p, name)
        \/ Die(p)
        \/ Suspend(p)
        \/ Resume(p)

Spec == Init /\ [][Next]_vars

-----------------------------------------------------------------------------
(***************************************************************************)
(* Properties.                                                             *)
(***************************************************************************)

\* Both tables have their types.
TypeOK == /\ sem_table \in [Sems -> Semaphore]
          /\ process \in [Pids -> PCB]

Live(p) == process[p].state # "FREE"

\* value and the wait queue tell the same story: a negative value counts the
\* processes in line.  Every path keeps it, those of a dying process included:
\* one compensation too many or too few (the comment of sem_cleanup_for_process
\* tells of one) shows here.
QueueMatchesValue ==
    \A i \in Open(Kernel) :
        Len(sem_table[i].queue) =
            IF sem_table[i].value < 0 THEN -sem_table[i].value ELSE 0

\* The lines hold those that sleep inside sem_wait, all of them, once each:
\* sem_post never wakes a process that is gone or blocked elsewhere, and no
\* waiter is lost, however the other users close the semaphore or die.
QueuesHoldWaiters ==
    /\ \A i \in Open(Kernel) :
          /\ Elements(sem_table[i].queue) = {p \in Pids : process[p].waits = i}
          /\ Distinct(sem_table[i].queue)
    /\ \A p \in Pids : process[p].waits # NULL =>
          process[p].state = "BLOCKED" /\ process[p].waits \in Open(Kernel)

\* No unit is lost or made up: what is available and what processes hold is
\* what sem_open put in, through waits, hand-overs and deaths in any order.
UnitsConserved ==
    \A i \in Open(Kernel) :
        sem_table[i].value + Len(sem_table[i].queue)
          + Cardinality({p \in Pids : i \in process[p].held}) = sem_table[i].initial

\* open_count is the number of live processes that have the semaphore open:
\* the slot lives as long as one does, and no longer, and no count leaves its
\* type.
OpenersCounted ==
    /\ TypeOK
    /\ \A i \in Sems :
          sem_table[i].open_count = Cardinality({p \in Pids : i \in process[p].opened})

=============================================================================
