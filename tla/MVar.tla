------------------------------- MODULE MVar -------------------------------
(***************************************************************************)
(* Userland/c/commands/mvar.c: a buffer of one value on two semaphores,    *)
(* "e" (empty, initially 1) and "f" (full, initially 0), and the command   *)
(* `mvar' that registers an MVar and starts its writers and readers.       *)
(*                                                                         *)
(* umvar_table is a global of the one address space.  User code is         *)
(* interrupted anywhere, so that the search of a slot and its use are two  *)
(* steps.  The busy waits are left out: any process may pause anywhere.    *)
(***************************************************************************)
EXTENDS Semaphores

CONSTANTS
    Instances,          \* the runs of `mvar'; an MVar is named after its pid
    Participants,       \* subset of Instances \X {"writer", "reader"} \X Nat
    MAX_USER_MVARS,
    Casts               \* the choices of who is started and who may be killed

Command(m) == <<m, "mvar", 0>>

\* Names are not stored cut: UMVAR_NAME_LEN leaves room for the suffix.
ASSUME MVarAssumption ==
    /\ Participants \subseteq (Instances \X {"writer", "reader"} \X Nat)
    /\ Pids = Participants \cup {Command(m) : m \in Instances}
    /\ Names = Instances \X {"e", "f"} /\ \A n \in Names : Truncate[n] = n
    /\ {0, 1} \subseteq InitialValues
    /\ MAX_USER_MVARS \in Nat \ {0}
    /\ Casts \subseteq [who : SUBSET Participants, killed : SUBSET Participants]

MVars == 0..(MAX_USER_MVARS - 1)
NONE == "none"         \* no name
EMPTY == <<>>          \* no value: the 0 that user_mvar_create stores

VARIABLES
    cast,               \* a member of Casts
    umvar_table,        \* [MVars -> [name, in_use, value]]
    reclaim,            \* the slot that a full table gives up next
    pc,
    mv,                 \* the slot that the process has found
    full                \* [Instances -> BOOLEAN]: a value put and not taken yet

userVars == <<cast, umvar_table, reclaim, pc, mv, full>>
allVars == <<vars, userVars>>

Mine(p) == p[1]
empty(m) == <<m, "e">>
fullsem(m) == <<m, "f">>

\* The first slot in use with this name, NULL when there is none.
find_umvar(m) ==
    LET found == {i \in MVars : umvar_table[i].in_use /\ umvar_table[i].name = m}
    IN  IF found = {} THEN NULL ELSE First(found)

Goto(p, from, to) == pc[p] = from /\ pc' = [pc EXCEPT ![p] = to]

\* The results of wait, post and close are ignored: a call on a semaphore that
\* does not exist returns -1 and the program goes on.
Missing(p, name) == Runs(p) /\ find_sem(Kernel, name) = NULL /\ UNCHANGED vars
my_sem_wait(p, name) == sys_sem_wait(p, name) \/ Missing(p, name)
my_sem_post(p, name) == sys_sem_post(p, name) \/ Missing(p, name)
my_sem_close(p, name) == sys_sem_close(p, name) \/ Missing(p, name)

-----------------------------------------------------------------------------
(***************************************************************************)
(* mvar: user_mvar_create and the creation of the participants.            *)
(***************************************************************************)

\* user_mvar_create looks for a slot; a full table gives up a slot by turns.
create(p) ==
    LET unused == {i \in MVars : ~umvar_table[i].in_use}
    IN  /\ Runs(p)
        /\ find_umvar(Mine(p)) = NULL
        /\ \/ /\ unused # {}
              /\ Goto(p, "create", "claim")
              /\ mv' = [mv EXCEPT ![p] = First(unused)]
              /\ UNCHANGED reclaim
           \/ /\ unused = {}
              /\ Goto(p, "create", "reclaim_e")
              /\ mv' = [mv EXCEPT ![p] = reclaim]
              /\ reclaim' = (reclaim + 1) % MAX_USER_MVARS
        /\ UNCHANGED <<vars, cast, umvar_table, full>>

reclaim_e(p) ==
    /\ Goto(p, "reclaim_e", "reclaim_f")
    /\ my_sem_close(p, empty(umvar_table[mv[p]].name))
    /\ UNCHANGED <<cast, umvar_table, reclaim, mv, full>>

reclaim_f(p) ==
    /\ Goto(p, "reclaim_f", "claim")
    /\ my_sem_close(p, fullsem(umvar_table[mv[p]].name))
    /\ UNCHANGED <<cast, umvar_table, reclaim, mv, full>>

claim(p) ==
    /\ Goto(p, "claim", "spawn")
    /\ Runs(p)
    /\ umvar_table' = [umvar_table EXCEPT ![mv[p]] =
                         [name |-> Mine(p), in_use |-> TRUE, value |-> EMPTY]]
    /\ UNCHANGED <<vars, cast, reclaim, mv, full>>

\* The order in which the loops create the participants is not told apart.
spawn(p) ==
    /\ pc[p] = "spawn"
    /\ Runs(p)
    /\ \E c \in cast.who :
         /\ Mine(c) = Mine(p)
         /\ pc[c] = "unborn"
         /\ pc' = [pc EXCEPT ![c] = "open_e"]
    /\ UNCHANGED <<vars, cast, umvar_table, reclaim, mv, full>>

command_exit(p) ==
    /\ \A c \in cast.who : Mine(c) = Mine(p) => pc[c] # "unborn"
    /\ Goto(p, "spawn", "done")
    /\ Runs(p)
    /\ Die(p)
    /\ UNCHANGED <<cast, umvar_table, reclaim, mv, full>>

-----------------------------------------------------------------------------
(***************************************************************************)
(* mvar_writer and mvar_reader.                                            *)
(***************************************************************************)

\* Mutant: both semaphores start with one unit.
open_f_one(p) ==
    /\ Goto(p, "open_f", "find")
    /\ sys_sem_open(p, fullsem(Mine(p)), 1)
    /\ UNCHANGED <<cast, umvar_table, reclaim, mv, full>>

\* my_sem_open returns 0 when the table of semaphores is full.
TableFull(p, name) ==
    /\ Runs(p)
    /\ find_sem(Kernel, name) = NULL /\ FreeSlots(Kernel) = {}
    /\ UNCHANGED vars

\* user_mvar_open_sems; a participant that cannot open both exits.
open_e(p) ==
    /\ \/ Goto(p, "open_e", "open_f") /\ sys_sem_open(p, empty(Mine(p)), 1)
       \/ Goto(p, "open_e", "exit") /\ TableFull(p, empty(Mine(p)))
    /\ UNCHANGED <<cast, umvar_table, reclaim, mv, full>>

open_f(p) ==
    /\ \/ Goto(p, "open_f", "find") /\ sys_sem_open(p, fullsem(Mine(p)), 0)
       \/ Goto(p, "open_f", "undo_e") /\ TableFull(p, fullsem(Mine(p)))
    /\ UNCHANGED <<cast, umvar_table, reclaim, mv, full>>

undo_e(p) ==
    /\ Goto(p, "undo_e", "exit")
    /\ my_sem_close(p, empty(Mine(p)))
    /\ UNCHANGED <<cast, umvar_table, reclaim, mv, full>>

\* user_mvar_put and user_mvar_take: a name that is gone ends the loop.
find(p) ==
    /\ Goto(p, "find", IF find_umvar(Mine(p)) = NULL THEN "close_e" ELSE "wait")
    /\ Runs(p)
    /\ mv' = [mv EXCEPT ![p] = find_umvar(Mine(p))]
    /\ UNCHANGED <<vars, cast, umvar_table, reclaim, full>>

wait(p) ==
    /\ Goto(p, "wait", "access")
    /\ my_sem_wait(p, IF p[2] = "writer" THEN empty(Mine(p)) ELSE fullsem(Mine(p)))
    /\ UNCHANGED <<cast, umvar_table, reclaim, mv, full>>

put(p) ==
    /\ p[2] = "writer"
    /\ Goto(p, "access", "post")
    /\ Runs(p)
    /\ umvar_table' = [umvar_table EXCEPT ![mv[p]].value = p]
    /\ full' = [full EXCEPT ![Mine(p)] = TRUE]
    /\ UNCHANGED <<vars, cast, reclaim, mv>>

take(p) ==
    /\ p[2] = "reader"
    /\ Goto(p, "access", "post")
    /\ Runs(p)
    /\ full' = [full EXCEPT ![Mine(p)] = FALSE]
    /\ UNCHANGED <<vars, cast, umvar_table, reclaim, mv>>

post(p) ==
    /\ Goto(p, "post", "find")
    /\ my_sem_post(p, IF p[2] = "writer" THEN fullsem(Mine(p)) ELSE empty(Mine(p)))
    /\ UNCHANGED <<cast, umvar_table, reclaim, mv, full>>

close_e(p) ==
    /\ Goto(p, "close_e", "close_f")
    /\ my_sem_close(p, empty(Mine(p)))
    /\ UNCHANGED <<cast, umvar_table, reclaim, mv, full>>

close_f(p) ==
    /\ Goto(p, "close_f", "exit")
    /\ my_sem_close(p, fullsem(Mine(p)))
    /\ UNCHANGED <<cast, umvar_table, reclaim, mv, full>>

exit(p) ==
    /\ Goto(p, "exit", "done")
    /\ Runs(p)
    /\ Die(p)
    /\ UNCHANGED <<cast, umvar_table, reclaim, mv, full>>

kill(p) ==
    /\ p \in cast.killed
    /\ pc[p] # "unborn"
    /\ Die(p)
    /\ pc' = [pc EXCEPT ![p] = "killed"]
    /\ UNCHANGED <<cast, umvar_table, reclaim, mv, full>>

Step(p) ==
    \/ create(p) \/ reclaim_e(p) \/ reclaim_f(p) \/ claim(p) \/ spawn(p)
    \/ command_exit(p)
    \/ open_e(p) \/ open_f(p) \/ undo_e(p)
    \/ find(p) \/ wait(p) \/ put(p) \/ take(p) \/ post(p)
    \/ close_e(p) \/ close_f(p) \/ exit(p)

MInit ==
    /\ Init
    /\ cast \in Casts
    /\ umvar_table = [i \in MVars |-> [name |-> NONE, in_use |-> FALSE, value |-> EMPTY]]
    /\ reclaim = 0
    /\ pc = [p \in Pids |-> IF \E c \in cast.who : p = Command(Mine(c))
                            THEN "create" ELSE "unborn"]
    /\ mv = [p \in Pids |-> NULL]
    /\ full = [m \in Instances |-> FALSE]

MNext == \E p \in Pids : Step(p) \/ kill(p)

\* Every READY process gets the CPU (Process's NoStarvation).
MSpec == MInit /\ [][MNext]_allVars /\ \A p \in Pids : WF_allVars(Step(p))

-----------------------------------------------------------------------------
\* "Una MVar es un buffer de tamano 1": no value is overwritten before a reader
\* has taken it, none is taken twice, and one participant at a time is at it.
BufferOfOne ==
    \A p \in Participants : (pc[p] = "access" /\ Runs(p)) =>
        /\ full[Mine(p)] = (p[2] = "reader")
        /\ p[2] = "reader" => umvar_table[mv[p]].value # EMPTY
        /\ \A q \in Participants \ {p} :
              ~(Mine(q) = Mine(p) /\ pc[q] = "access" /\ Runs(q))

\* Nobody is killed and one `mvar' runs: two that start together may find the
\* same unused slot, and a full table gives up one that is in use.
Undisturbed == /\ \A p \in Participants : pc[p] # "killed"
               /\ \A c, d \in cast.who : Mine(c) = Mine(d)

\* ... as long as no participant is killed and no other MVar takes the slot.
BufferOfOneUndisturbed == Undisturbed => BufferOfOne

\* The semaphores of an MVar go with its participants, however those end, and
\* also when reclaiming has closed what was not its own: no slot of sem_table is
\* lost to an MVar that nobody uses.
NoSemaphoreLeft ==
    \A m \in Instances :
        (\A p \in Participants : Mine(p) = m => pc[p] \in {"unborn", "done", "killed"})
        => \A s \in {empty(m), fullsem(m)} : find_sem(Kernel, s) = NULL

\* What was put is taken, again and again: no writer and no reader waits for
\* ever while there are participants of both kinds and no other MVar.
EveryoneGetsATurn ==
    \A p \in Participants :
        (/\ Undisturbed /\ cast.killed = {}
         /\ {c[2] : c \in {d \in cast.who : Mine(d) = Mine(p)}} = {"writer", "reader"}
         /\ pc[p] = "wait")
        ~> (pc[p] = "access" /\ Runs(p))
=============================================================================
