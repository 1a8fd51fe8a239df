--------------------------- MODULE NamedSemaphore ---------------------------
(***************************************************************************)
(* What the users of one name see of the semaphores: a counting semaphore  *)
(* (module CountingSemaphore), whatever happens to the other names.        *)
(***************************************************************************)
EXTENDS Semaphores

CONSTANTS Name,     \* the name
          Stock     \* what programs pass to sem_open

\* No other name is stored as this one: sem_str_copy truncates.
ASSUME NamedAssumption ==
    /\ Name \in Names
    /\ \A n \in Names : Truncate[n] = Name <=> n = Name
    /\ InitialValues = {Stock}

(***************************************************************************)
(* When nobody has the name open it is as sem_open will make it: closing,  *)
(* and opening again, are invisible.                                       *)
(***************************************************************************)
slot(k) == find_sem(k, Name)

Available(k) == IF slot(k) = NULL THEN Stock
                ELSE IF k.sems[slot(k)].value < 0 THEN 0
                ELSE k.sems[slot(k)].value
Holders(k) == {p \in Pids : slot(k) # NULL /\ slot(k) \in k.procs[p].held}
Line(k) == IF slot(k) = NULL THEN <<>> ELSE k.sems[slot(k)].queue

A == INSTANCE CountingSemaphore WITH
        Users <- Pids, initial <- Stock, available <- Available(Kernel),
        holders <- Holders(Kernel), waiting <- Line(Kernel)

\* A name that is used as a lock by programs that may die at any moment is a
\* counting semaphore: first come first served, and no unit is lost or granted
\* twice, however often the slot is closed, used for another name, and opened
\* again.
ImplementsCounting == A!CSpec
=============================================================================
