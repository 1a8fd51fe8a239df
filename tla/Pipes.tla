------------------------------- MODULE Pipes -------------------------------
(***************************************************************************)
(* Pipes and file descriptors: Kernel/c/pipe/pipe.c, Kernel/c/pipe/fd.c,   *)
(* the fd[] of a process and the syscalls that work on them.               *)
(*                                                                         *)
(* Each syscall is one step (module Process says why) and any process that *)
(* is not blocked may make the next one.  A descriptor is an index into    *)
(* fd_table, which all processes share: the kernel does not record who got *)
(* one from sys_pipe, the ghost field `own' does.                          *)
(***************************************************************************)
EXTENDS Integers, Sequences, FiniteSets, WaitQueue

CONSTANTS
    Pids,               \* the processes; pids are never used twice
    Started,            \* the processes that run at the beginning
    MAX_PROCESSES,      \* the length of a wait queue
    MAX_PIPES,
    MAX_FDS,
    PIPE_BUFFER_SIZE,
    Names,              \* names that programs pass to sys_pipe_open
    Bytes,
    Buffers,            \* what programs pass to sys_write
    Counts,             \* what programs pass to sys_read
    MaxOpens            \* bound: no sys_pipe_open beyond this `opens'

ASSUME PipesAssumption ==
    /\ MAX_PROCESSES \in Nat /\ IsFiniteSet(Pids)
    /\ Cardinality(Pids) <= MAX_PROCESSES
    /\ Started \subseteq Pids /\ Bytes # {}
    /\ MAX_PIPES \in Nat \ {0} /\ MAX_FDS \in Nat /\ MAX_FDS >= 2
    /\ PIPE_BUFFER_SIZE \in Nat \ {0}
    /\ Buffers \subseteq Seq(Bytes) \ {<<>>}
    /\ Counts \subseteq Nat \ {0}
    /\ MaxOpens \in Nat

NULL == -1
PipeIds == 0..(MAX_PIPES - 1)
Fds == 0..(MAX_FDS - 1)
Cells == 0..(PIPE_BUFFER_SIZE - 1)
FD_STDIN == 0
FD_STDOUT == 1

Anonymous == "no name"

Pipe == [buffer : [Cells -> Bytes], read_idx : Cells, write_idx : Cells,
         count : 0..PIPE_BUFFER_SIZE, open_read : Nat, open_write : Nat,
         wait_readers : Seq(Pids), wait_writers : Seq(Pids), in_use : BOOLEAN,
         name : Names \cup {Anonymous}, eof : BOOLEAN, opens : Nat]

FD == [type : {"NONE", "TERMINAL", "READ", "WRITE"}, refcount : Nat,
       data : PipeIds \cup {NULL}]

\* own: the descriptors that sys_pipe gave the process and it has not closed.
\* at: the queue it sleeps in; New until its parent lets it start.
Nowhere == <<NULL, "nowhere">>
New == <<NULL, "new">>
Places == {Nowhere, New} \cup (PipeIds \X {"readers", "writers"})
PCB == [state : {"READY", "BLOCKED", "FREE"}, fd : [0..1 -> Fds \cup {NULL}],
        own : SUBSET Fds, at : Places]

VARIABLES pipe_table, fd_table, process

vars == <<pipe_table, fd_table, process>>

Kernel == [pipes |-> pipe_table, fds |-> fd_table, procs |-> process]

First(S) == CHOOSE i \in S : \A j \in S : i <= j

-----------------------------------------------------------------------------
(***************************************************************************)
(* The wait queues of a pipe.                                              *)
(***************************************************************************)

queue_push(queue, pid) ==
    IF Len(queue) >= MAX_PROCESSES \/ pid \in Elements(queue) THEN queue
    ELSE Append(queue, pid)

process_unblock(k, pids) ==
    [k EXCEPT !.procs = [q \in Pids |->
        IF q \in pids /\ k.procs[q].state = "BLOCKED"
          THEN [k.procs[q] EXCEPT !.state = "READY", !.at = Nowhere]
          ELSE k.procs[q]]]

pipe_wake_reader(k, i) ==
    IF k.pipes[i].wait_readers = <<>> THEN k
    ELSE process_unblock([k EXCEPT !.pipes[i].wait_readers = Tail(@)],
                         {Head(k.pipes[i].wait_readers)})

pipe_wake_writer(k, i) ==
    IF k.pipes[i].wait_writers = <<>> THEN k
    ELSE process_unblock([k EXCEPT !.pipes[i].wait_writers = Tail(@)],
                         {Head(k.pipes[i].wait_writers)})

pipe_wake_all_readers(k, i) ==
    process_unblock([k EXCEPT !.pipes[i].wait_readers = <<>>],
                    Elements(k.pipes[i].wait_readers))

pipe_wake_all_writers(k, i) ==
    process_unblock([k EXCEPT !.pipes[i].wait_writers = <<>>],
                    Elements(k.pipes[i].wait_writers))

\* The process that makes the call goes to sleep in a queue.
sleep_reading(k, p, i) ==
    [k EXCEPT !.pipes[i].wait_readers = queue_push(@, p),
              !.procs[p].state = "BLOCKED", !.procs[p].at = <<i, "readers">>]

sleep_writing(k, p, i) ==
    [k EXCEPT !.pipes[i].wait_writers = queue_push(@, p),
              !.procs[p].state = "BLOCKED", !.procs[p].at = <<i, "writers">>]

-----------------------------------------------------------------------------
(***************************************************************************)
(* Opening and closing.                                                    *)
(***************************************************************************)

is_named(k, i) == k.pipes[i].name # Anonymous

\* A slot that is not in use; the bytes left in the buffer are never read.
pipe_reset == [buffer |-> [c \in Cells |-> CHOOSE b \in Bytes : TRUE],
               read_idx |-> 0, write_idx |-> 0, count |-> 0, open_read |-> 0,
               open_write |-> 0, wait_readers |-> <<>>, wait_writers |-> <<>>,
               in_use |-> FALSE, name |-> Anonymous, eof |-> FALSE, opens |-> 0]

\* Mutant: a pipe with bytes in it is kept.
pipe_maybe_free_empty(k, i) ==
    IF k.pipes[i].open_read = 0 /\ k.pipes[i].open_write = 0 /\ k.pipes[i].count = 0
      THEN [k EXCEPT !.pipes[i] = pipe_reset]
      ELSE k

pipe_maybe_free(k, i) ==
    IF k.pipes[i].open_read = 0 /\ k.pipes[i].open_write = 0
      THEN [k EXCEPT !.pipes[i] = pipe_reset]
      ELSE k

FreePipes(k) == {i \in PipeIds : ~k.pipes[i].in_use}
Found(k, name) ==
    {i \in PipeIds : k.pipes[i].in_use /\ k.pipes[i].name = name /\ name # Anonymous}

\* The slot that pipe_open returns, NULL when the table is full.
pipe_slot(k, name) ==
    IF Found(k, name) # {} THEN First(Found(k, name))
    ELSE IF FreePipes(k) # {} THEN First(FreePipes(k))
    ELSE NULL

pipe_open(k, name) ==
    LET i == pipe_slot(k, name)
    IN  IF Found(k, name) # {} THEN [k EXCEPT !.pipes[i].opens = @ + 1]
        ELSE [k EXCEPT !.pipes[i] =
                [pipe_reset EXCEPT !.in_use = TRUE, !.name = name,
                                   !.opens = IF name = Anonymous THEN 0 ELSE 1]]

pipe_open_read(k, i) ==
    LET opened == [k EXCEPT !.pipes[i].open_read = @ + 1]
    IN  IF is_named(k, i) THEN pipe_wake_all_writers(opened, i) ELSE opened

pipe_open_write(k, i) ==
    LET opened == [k EXCEPT !.pipes[i].open_write = @ + 1]
    IN  IF is_named(k, i)
          THEN pipe_wake_all_readers([opened EXCEPT !.pipes[i].eof = FALSE], i)
          ELSE opened

dec(n) == IF n > 0 THEN n - 1 ELSE n

pipe_close_read(k, i) ==
    LET closed == [k EXCEPT !.pipes[i].open_read = dec(@)]
    IN  pipe_maybe_free(IF closed.pipes[i].open_read = 0
                          THEN pipe_wake_all_writers(closed, i) ELSE closed, i)

\* Mutant: the readers are not told.
pipe_close_write_quiet(k, i) ==
    LET closed == [k EXCEPT !.pipes[i].open_write = dec(@)]
        last   == closed.pipes[i].open_write = 0
    IN  pipe_maybe_free([closed EXCEPT !.pipes[i].eof =
                            @ \/ (last /\ is_named(k, i) /\ k.pipes[i].opens >= 2)], i)

pipe_close_write(k, i) ==
    LET closed == [k EXCEPT !.pipes[i].open_write = dec(@)]
        last   == closed.pipes[i].open_write = 0
        marked == [closed EXCEPT !.pipes[i].eof =
                      @ \/ (last /\ is_named(k, i) /\ k.pipes[i].opens >= 2)]
    IN  pipe_maybe_free(IF last THEN pipe_wake_all_readers(marked, i) ELSE marked, i)

\* Mutant: a dying process stays in the queues.
pipe_cleanup_nothing(k, p) == k

pipe_cleanup_for_process(k, p) ==
    [k EXCEPT !.pipes = [i \in PipeIds |->
        [k.pipes[i] EXCEPT !.wait_readers = queue_remove_pid(@, p),
                           !.wait_writers = queue_remove_pid(@, p)]]]

-----------------------------------------------------------------------------
(***************************************************************************)
(* Reading and writing.  A blocked call returns -1 when it is woken: the   *)
(* program has to make it again.                                           *)
(***************************************************************************)

Least(a, b) == IF a < b THEN a ELSE b

\* Nothing to read and nothing to wait for.
AtEnd(k, i) == IF is_named(k, i) THEN k.pipes[i].eof ELSE k.pipes[i].open_write = 0

\* The bytes that a read of n returns.
bytes_read(k, i, n) ==
    [j \in 1..Least(n, k.pipes[i].count) |->
        k.pipes[i].buffer[(k.pipes[i].read_idx + j - 1) % PIPE_BUFFER_SIZE]]

pipe_read(k, p, i, n) ==
    LET pipe == k.pipes[i]
        m    == Least(n, pipe.count)
        read == [k EXCEPT !.pipes[i].read_idx = (@ + m) % PIPE_BUFFER_SIZE,
                          !.pipes[i].count = @ - m]
    IN  IF pipe.count > 0 THEN pipe_wake_writer(read, i)
        ELSE IF AtEnd(k, i) THEN k
        ELSE sleep_reading(k, p, i)

NoReader(k, i) == k.pipes[i].open_read = 0

\* The call returns 0: nobody will read, and nobody is waited for.
Refused(k, i) == NoReader(k, i) /\ (is_named(k, i) => k.pipes[i].eof)

WriteSleeps(k, i) ==
    \/ NoReader(k, i) /\ ~Refused(k, i)
    \/ ~NoReader(k, i) /\ k.pipes[i].count >= PIPE_BUFFER_SIZE

\* How many bytes of buf a write stores.
bytes_written(k, i, buf) ==
    IF Refused(k, i) \/ WriteSleeps(k, i) THEN 0
    ELSE Least(Len(buf), PIPE_BUFFER_SIZE - k.pipes[i].count)

\* The buffer after m bytes of buf.
stored(pipe, buf, m) ==
    [c \in Cells |->
        LET nth == (c - pipe.write_idx + PIPE_BUFFER_SIZE) % PIPE_BUFFER_SIZE
        IN  IF nth < m THEN buf[nth + 1] ELSE pipe.buffer[c]]

\* Mutant: the space left is not looked at.
pipe_write_unbounded(k, p, i, buf) ==
    IF Refused(k, i) THEN k
    ELSE IF WriteSleeps(k, i) THEN sleep_writing(k, p, i)
    ELSE pipe_wake_reader(
           [k EXCEPT !.pipes[i].buffer = stored(k.pipes[i], buf, Len(buf)),
                     !.pipes[i].write_idx = (@ + Len(buf)) % PIPE_BUFFER_SIZE,
                     !.pipes[i].count = @ + Len(buf)], i)

pipe_write(k, p, i, buf) ==
    LET m == bytes_written(k, i, buf)
        written == [k EXCEPT !.pipes[i].buffer = stored(k.pipes[i], buf, m),
                             !.pipes[i].write_idx = (@ + m) % PIPE_BUFFER_SIZE,
                             !.pipes[i].count = @ + m]
    IN  IF Refused(k, i) THEN k
        ELSE IF WriteSleeps(k, i) THEN sleep_writing(k, p, i)
        ELSE pipe_wake_reader(written, i)

-----------------------------------------------------------------------------
(***************************************************************************)
(* Descriptors.                                                            *)
(***************************************************************************)

FreeFds(k) == {f \in Fds : k.fds[f].type = "NONE"}

fd_incref(k, f) ==
    LET d == k.fds[f]
        counted == [k EXCEPT !.fds[f].refcount = @ + 1]
    IN  CASE d.type = "NONE"     -> k
          [] d.type = "TERMINAL" -> counted
          [] d.type = "READ"     -> pipe_open_read(counted, d.data)
          [] d.type = "WRITE"    -> pipe_open_write(counted, d.data)

\* The slot of f can be allocated again.
fd_released(k, f) == [k EXCEPT !.fds[f] = [@ EXCEPT !.type = "NONE", !.data = NULL]]

\* Mutant: the pipe is told when the last reference goes, not each time.
fd_decref_last(k, f) ==
    LET d == k.fds[f]
        left == [k EXCEPT !.fds[f].refcount = dec(@)]
        told == CASE d.refcount <= 1 /\ d.type = "READ"  -> pipe_close_read(left, d.data)
                  [] d.refcount <= 1 /\ d.type = "WRITE" -> pipe_close_write(left, d.data)
                  [] OTHER -> left
    IN  IF d.type \in {"READ", "WRITE"} /\ left.fds[f].refcount = 0
          THEN fd_released(told, f) ELSE told

fd_decref(k, f) ==
    LET d == k.fds[f]
        left == [k EXCEPT !.fds[f].refcount = dec(@)]
        told == CASE d.refcount > 0 /\ d.type = "READ"  -> pipe_close_read(left, d.data)
                  [] d.refcount > 0 /\ d.type = "WRITE" -> pipe_close_write(left, d.data)
                  [] OTHER -> left
    IN  IF d.type = "NONE" THEN k
        ELSE IF d.type # "TERMINAL" /\ left.fds[f].refcount = 0
          THEN fd_released(told, f) ELSE told

\* fd_alloc in the first free slot, and the reference of its creator.
fd_create_pipe(k, i, type) ==
    LET f == First(FreeFds(k))
    IN  fd_incref([k EXCEPT !.fds[f] = [type |-> type, refcount |-> 0, data |-> i]], f)

\* Both ends for p.  When there is no descriptor for the first, the pipe stays
\* as pipe_open left it; when there is none for the second, the first is closed.
pipe_create_fds(k, p, i) ==
    LET read_fd  == First(FreeFds(k))
        one      == fd_create_pipe(k, i, "READ")
        write_fd == First(FreeFds(one))
        both     == fd_create_pipe(one, i, "WRITE")
    IN  IF FreeFds(k) = {} THEN k
        ELSE IF FreeFds(one) = {} THEN fd_decref(one, read_fd)
        ELSE [both EXCEPT !.procs[p].own = @ \cup {read_fd, write_fd}]

\* fd[n] of process p goes from what it was to f.
redirect(k, p, f, n) ==
    LET old == k.procs[p].fd[n]
        released == IF old = NULL THEN k ELSE fd_decref(k, old)
    IN  fd_incref([released EXCEPT !.procs[p].fd[n] = f], f)

process_release_fds(k, p) ==
    LET out == IF k.procs[p].fd[0] = NULL THEN k ELSE fd_decref(k, k.procs[p].fd[0])
        both == IF k.procs[p].fd[1] = NULL THEN out ELSE fd_decref(out, k.procs[p].fd[1])
    IN  [both EXCEPT !.procs[p].fd = [n \in 0..1 |-> NULL]]

-----------------------------------------------------------------------------
(***************************************************************************)
(* The syscalls.  The kernel lets any process use any descriptor; programs *)
(* use their own stdin and stdout and what sys_pipe gave them, and redirect*)
(* only processes that have not started.                                   *)
(***************************************************************************)
Store(k) == pipe_table' = k.pipes /\ fd_table' = k.fds /\ process' = k.procs

Runs(p) == process[p].state = "READY"

\* Input is redirected to what can be read, output to what can be written.
Fit(f, n) == fd_table[f].type = (IF n = 0 THEN "READ" ELSE "WRITE")

\* The call of sys_pipe when name is Anonymous; -1 when the table is full.
sys_pipe_open(p, name) ==
    LET i == pipe_slot(Kernel, name)
    IN  /\ Runs(p)
        /\ i # NULL
        /\ pipe_table[i].opens < MaxOpens
        /\ Store(pipe_create_fds(pipe_open(Kernel, name), p, i))

sys_dup2(p, old_fd, new_fd) ==
    /\ Runs(p)
    /\ Fit(old_fd, new_fd)
    /\ process[p].fd[new_fd] # old_fd
    /\ Store(redirect(Kernel, p, old_fd, new_fd))

sys_close(p, f) ==
    /\ Runs(p)
    /\ f \in process[p].own
    /\ Store([fd_decref(Kernel, f) EXCEPT !.procs[p].own = @ \ {f}])

\* process_pipe_setup
sys_pipe_setup(p, child, f, target) ==
    /\ Runs(p)
    /\ f \in process[p].own /\ Fit(f, target)
    /\ process[child].at = New /\ process[child].state # "FREE"
    /\ Store(redirect(Kernel, child, f, target))

sys_read(p, f, n) ==
    /\ Runs(p)
    /\ fd_table[f].type = "READ"
    /\ Store(pipe_read(Kernel, p, fd_table[f].data, n))

sys_write(p, f, buf) ==
    /\ Runs(p)
    /\ fd_table[f].type = "WRITE"
    /\ Store(pipe_write(Kernel, p, fd_table[f].data, buf))

\* process_exit of the process that runs, or process_kill of any other.  What
\* sys_pipe gave the process and it has not closed is not released.
Die(p) ==
    /\ process[p].state # "FREE"
    /\ \E k \in {process_release_fds(pipe_cleanup_for_process(Kernel, p), p)} :
          Store([k EXCEPT !.procs[p].state = "FREE", !.procs[p].at = Nowhere])

\* process_create: stdin and stdout are the terminal.  A process created with
\* fg & 2 is blocked until its parent has redirected it.
process_create(k, p) ==
    fd_incref(fd_incref([k EXCEPT !.procs[p].state = "BLOCKED",
                                  !.procs[p].fd = [n \in 0..1 |-> n]],
                        FD_STDIN), FD_STDOUT)

Unborn(p) == process[p].state = "FREE" /\ process[p].at = New

sys_create_process(p, child) ==
    /\ Runs(p)
    /\ Unborn(child)
    /\ Store(process_create(Kernel, child))

\* sys_unblock by the parent that created the process blocked.
Start(p) ==
    /\ process[p].state = "BLOCKED" /\ process[p].at = New
    /\ process' = [process EXCEPT ![p].state = "READY", ![p].at = Nowhere]
    /\ UNCHANGED <<pipe_table, fd_table>>

\* The descriptors a program may name.
Mine(p) == process[p].own \cup ({process[p].fd[0], process[p].fd[1]} \ {NULL})

\* After fd_init and pipe_init, with some processes created and started.
Init ==
    /\ pipe_table = [i \in PipeIds |-> pipe_reset]
    /\ fd_table = [f \in Fds |->
          [type |-> IF f \in {FD_STDIN, FD_STDOUT} THEN "TERMINAL" ELSE "NONE",
           refcount |-> IF f \in {FD_STDIN, FD_STDOUT} THEN Cardinality(Started) ELSE 0,
           data |-> NULL]]
    /\ process = [p \in Pids |->
          IF p \in Started
            THEN [state |-> "READY", fd |-> [n \in 0..1 |-> n], own |-> {}, at |-> Nowhere]
            ELSE [state |-> "FREE", fd |-> [n \in 0..1 |-> NULL], own |-> {}, at |-> New]]

Next ==
    \E p \in Pids :
        \/ \E name \in Names \cup {Anonymous} : sys_pipe_open(p, name)
        \/ \E f \in Mine(p), n \in 0..1 : sys_dup2(p, f, n)
        \/ \E f \in Fds : sys_close(p, f)
        \/ \E child \in Pids, f \in Fds, target \in 0..1 :
              sys_pipe_setup(p, child, f, target)
        \/ \E f \in Mine(p), n \in Counts : sys_read(p, f, n)
        \/ \E f \in Mine(p), buf \in Buffers : sys_write(p, f, buf)
        \/ Die(p)
        \/ \E child \in Pids : sys_create_process(p, child)
        \/ Start(p)

Spec == Init /\ [][Next]_vars

-----------------------------------------------------------------------------
(***************************************************************************)
(* Properties.                                                             *)
(***************************************************************************)

\* The three tables have their types; no count leaves the buffer.
TypeOK == /\ pipe_table \in [PipeIds -> Pipe]
          /\ fd_table \in [Fds -> FD]
          /\ process \in [Pids -> PCB]

\* Who refers to which descriptor: as stdin or stdout, or because it got an end
\* from sys_pipe and never closed it, dead or alive (2).
Refs(k) ==
    {x \in Fds \X Pids \X (0..2) : IF x[3] = 2 THEN x[1] \in k.procs[x[2]].own
                                   ELSE k.procs[x[2]].fd[x[3]] = x[1]}

RefsTo(refs, f) == {x \in refs : x[1] = f}

\* The references among them to an end of pipe i.
EndRefs(k, refs, i, type) ==
    {x \in refs : k.fds[x[1]].type = type /\ k.fds[x[1]].data = i}

Counted(k, refs) ==
    /\ \A f \in Fds :
          /\ k.fds[f].refcount = Cardinality(RefsTo(refs, f))
          /\ k.fds[f].type = "NONE" => RefsTo(refs, f) = {}
          /\ k.fds[f].type \in {"READ", "WRITE"} =>
                k.fds[f].data \in PipeIds /\ k.pipes[k.fds[f].data].in_use
    /\ \A i \in PipeIds :
          /\ k.pipes[i].open_read = Cardinality(EndRefs(k, refs, i, "READ"))
          /\ k.pipes[i].open_write = Cardinality(EndRefs(k, refs, i, "WRITE"))

\* The counts are right: a descriptor counts its references, a pipe those of
\* its descriptors, and a reference is to a descriptor of a pipe that is in
\* use, through redirections, closes, deaths and failed opens in any order.
EndsCounted == TypeOK /\ Counted(Kernel, Refs(Kernel))

Queue(k, i, side) ==
    IF side = "readers" THEN k.pipes[i].wait_readers ELSE k.pipes[i].wait_writers

Asleep(k, q, i, side) == k.procs[q].state = "BLOCKED" /\ k.procs[q].at = <<i, side>>

\* The queues of the pipes hold those that sleep at them, all of them, once
\* each: no pid of a dead process is left ("evita un PID colgante") and nobody
\* is forgotten when a pipe is reset.
QueuesHoldSleepers ==
    \A i \in PipeIds, side \in {"readers", "writers"} :
        /\ Elements(Queue(Kernel, i, side)) = {p \in Pids : Asleep(Kernel, p, i, side)}
        /\ Distinct(Queue(Kernel, i, side))

\* Nobody sleeps at an anonymous pipe whose other end is gone, or reads at a
\* named one that is at its end: whoever closes last wakes everybody.
SleepersHaveHope ==
    \A i \in PipeIds :
        /\ Queue(Kernel, i, "readers") # <<>> =>
              IF is_named(Kernel, i) THEN ~pipe_table[i].eof
              ELSE EndRefs(Kernel, Refs(Kernel), i, "WRITE") # {}
        /\ (Queue(Kernel, i, "writers") # <<>> /\ ~is_named(Kernel, i)) =>
              EndRefs(Kernel, Refs(Kernel), i, "READ") # {}

Held(i) == \E p \in Pids : \E f \in Mine(p) :
              fd_table[f].data = i /\ fd_table[f].type \in {"READ", "WRITE"}

\* The step that takes the last reference to a pipe frees its slot.
LastEndFrees ==
    [][\A i \in PipeIds :
          Held(i) => (Held(i)' \/ ~pipe_table'[i].in_use)]_vars
=============================================================================
