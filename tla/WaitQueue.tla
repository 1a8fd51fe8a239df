----------------------------- MODULE WaitQueue -----------------------------
(***************************************************************************)
(* The wait queues of Kernel/c/semaphore/semaphore.c and                   *)
(* Kernel/c/pipe/pipe.c, as sequences of pids: who is in one, and what     *)
(* queue_remove_pid, which both files have, leaves of it.                  *)
(***************************************************************************)
EXTENDS Integers, Sequences, FiniteSets

Elements(queue) == {queue[j] : j \in 1..Len(queue)}

\* Nobody is in it twice.
Distinct(queue) == \A j, l \in 1..Len(queue) : queue[j] = queue[l] => j = l

\* The places that the loop of queue_remove_pid copies, and how many it has
\* copied after place j.
Others(queue, pid) == {j \in 1..Len(queue) : queue[j] # pid}
Copied(queue, pid, j) == Cardinality({h \in Others(queue, pid) : h <= j})

\* The others move up and keep their order.
queue_remove_pid(queue, pid) ==
    [n \in 1..Cardinality(Others(queue, pid)) |->
        queue[CHOOSE j \in Others(queue, pid) : Copied(queue, pid, j) = n]]
=============================================================================
