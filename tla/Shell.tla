------------------------------- MODULE Shell -------------------------------
(***************************************************************************)
(* One line at the prompt, from the moment the shell has read it:          *)
(* processLine and handle_pipe of Userland/c/shell/userlib.c, the commands *)
(* filter (or cat, which drops nothing) and wc, the read loop of the       *)
(* prompt, and the user at the keyboard, over the kernel's pipes and       *)
(* terminal.  The line is `filter' or `filter | wc', perhaps with an &.    *)
(*                                                                         *)
(* A step is a syscall of one of the processes or a keyboard interrupt.    *)
(* The parsing of the line and what is printed are left out.               *)
(***************************************************************************)
EXTENDS Pipes, Keyboard

CONSTANTS Shell, Left, Right,
          Input,        \* the scancodes that the user sends; then only Ctrl+C
                        \* and Ctrl+D
          Vowels,       \* what filter drops; {} for cat
          BUF_SIZE      \* of a read of cat, filter and wc

ASSUME ShellAssumption ==
    /\ Pids = {Shell, Left, Right} /\ Started = {Shell} /\ Readers = Pids
    /\ Shell # Left /\ Shell # Right /\ Left # Right
    /\ Input \in Seq(Scancodes) /\ {C_KEY, D_KEY} \subseteq Scancodes
    /\ Chars \subseteq Bytes /\ Vowels \subseteq Bytes /\ {1, BUF_SIZE} \subseteq ReadSizes

VARIABLES pc,
          line,         \* what the shell has read: a pipe? an & at the end?
          fds,          \* fds[2] of handle_pipe
          typed,        \* what the user has still to type
          buf,          \* of Left
          received,     \* the bytes that Right, or the screen, has got
          accepted,     \* the characters that the lines of Left were made of
          short,        \* a write has stored less than it was given
          killed        \* somebody was killed

user == <<typed, accepted>>
program == <<line, fds, buf, received, short, killed>>
allVars == <<vars, kbdVars, pc, user, program>>

Goto(p, from, to) == pc[p] = from /\ pc' = [pc EXCEPT ![p] = to]

Alive(p) == process[p].state # "FREE"

\* handle_pipe makes both foreground (fg = 3), with an & too.
InForeground(p) == p = Shell \/ line.pipe \/ ~line.bg

\* The end of p: Die, with the kbd_clear_waiting that process_exit and
\* process_kill call.
Dies(p) == Die(p) /\ tty' = tty_clear_waiting(tty, p) /\ UNCHANGED mods

-----------------------------------------------------------------------------
(***************************************************************************)
(* processLine.                                                            *)
(***************************************************************************)

\* A built-in, or an unknown name, is over before the next syscall on a table.
dispatch ==
    /\ \/ line.pipe /\ Goto(Shell, "line", "pipe")
       \/ ~line.pipe /\ Goto(Shell, "line", IF line.bg THEN "create" ELSE "cooked")
       \/ ~line.pipe /\ Goto(Shell, "line", "prompt")
    /\ UNCHANGED <<vars, kbdVars, user, program>>

\* sys_tty_mode, before the processes start and after they are gone.
cooked ==
    /\ Goto(Shell, "cooked", IF line.pipe THEN "unblock left" ELSE "create")
    /\ SetMode(TTY_COOKED)
    /\ UNCHANGED <<vars, user, program>>

raw ==
    /\ Goto(Shell, "raw", "prompt")
    /\ SetMode(TTY_RAW)
    /\ UNCHANGED <<vars, user, program>>

\* A create fails when process_table or the heap is full; the mode stays.
create ==
    /\ \/ /\ Goto(Shell, "create", IF line.bg THEN "prompt" ELSE "wait left")
          /\ \E k \in {process_create(Kernel, Left)} :
               Store([k EXCEPT !.procs[Left].state = "READY", !.procs[Left].at = Nowhere])
       \/ Goto(Shell, "create", "prompt") /\ UNCHANGED vars
    /\ UNCHANGED <<kbdVars, user, program>>

\* my_wait returns when the child is dead.
wait ==
    /\ \/ /\ Goto(Shell, "wait left", IF line.pipe THEN "wait right" ELSE "raw")
          /\ ~Alive(Left)
       \/ Goto(Shell, "wait right", "raw") /\ ~Alive(Right)
    /\ UNCHANGED <<vars, kbdVars, user, program>>

\* sys_pipe: the lower descriptor is the read end.  It fails when other programs
\* have all the pipes.
pipe ==
    /\ \/ /\ Goto(Shell, "pipe", "check")
          /\ sys_pipe_open(Shell, Anonymous)
          /\ \E r, w \in process'[Shell].own : r < w /\ fds' = <<r, w>>
       \/ Goto(Shell, "pipe", "prompt") /\ UNCHANGED <<vars, fds>>
    /\ UNCHANGED <<kbdVars, user, line, buf, received, short, killed>>

\* is_child_command of both: "Pipe solo soporta comandos externos".
check ==
    /\ Goto(Shell, "check", "create left") \/ Goto(Shell, "check", "undo read")
    /\ UNCHANGED <<vars, kbdVars, user, program>>

create_both ==
    /\ \/ Goto(Shell, "create left", "create right") /\ sys_create_process(Shell, Left)
       \/ Goto(Shell, "create left", "undo read") /\ UNCHANGED vars
       \/ Goto(Shell, "create right", "setup left") /\ sys_create_process(Shell, Right)
       \/ Goto(Shell, "create right", "kill left") /\ UNCHANGED vars
    /\ UNCHANGED <<kbdVars, user, program>>

\* A call for a process that has been killed meanwhile does nothing.
IfAlive(p, call) == IF Alive(p) THEN call ELSE UNCHANGED vars

kill_left ==
    /\ Goto(Shell, "kill left", "undo read")
    /\ IF Alive(Left) THEN Dies(Left) ELSE UNCHANGED <<vars, kbdVars>>
    /\ UNCHANGED <<user, program>>

\* Mutant: only the read end is closed.
undo_read_only ==
    /\ \/ Goto(Shell, "undo read", "undo write") /\ sys_close(Shell, fds[1])
       \/ Goto(Shell, "undo write", "prompt") /\ UNCHANGED vars
    /\ UNCHANGED <<kbdVars, user, program>>

undo ==
    /\ \/ Goto(Shell, "undo read", "undo write") /\ sys_close(Shell, fds[1])
       \/ Goto(Shell, "undo write", "prompt") /\ sys_close(Shell, fds[2])
    /\ UNCHANGED <<kbdVars, user, program>>

setup ==
    /\ \/ /\ Goto(Shell, "setup left", "setup right")
          /\ IfAlive(Left, sys_pipe_setup(Shell, Left, fds[2], 1))
       \/ /\ Goto(Shell, "setup right", "close read")
          /\ IfAlive(Right, sys_pipe_setup(Shell, Right, fds[1], 0))
    /\ UNCHANGED <<kbdVars, user, program>>

\* Mutant: the shell keeps its write end.
close_read_only ==
    /\ \/ Goto(Shell, "close read", "close write") /\ sys_close(Shell, fds[1])
       \/ /\ Goto(Shell, "close write", IF line.bg THEN "unblock left" ELSE "cooked")
          /\ UNCHANGED vars
    /\ UNCHANGED <<kbdVars, user, program>>

close ==
    /\ \/ Goto(Shell, "close read", "close write") /\ sys_close(Shell, fds[1])
       \/ /\ Goto(Shell, "close write", IF line.bg THEN "unblock left" ELSE "cooked")
          /\ sys_close(Shell, fds[2])
    /\ UNCHANGED <<kbdVars, user, program>>

unblock ==
    /\ \/ Goto(Shell, "unblock left", "unblock right") /\ IfAlive(Left, Start(Left))
       \/ /\ Goto(Shell, "unblock right", IF line.bg THEN "prompt" ELSE "wait left")
          /\ IfAlive(Right, Start(Right))
    /\ UNCHANGED <<kbdVars, user, program>>

handle_pipe == pipe \/ check \/ create_both \/ kill_left \/ undo \/ setup \/ close \/ unblock

processLine == dispatch \/ cooked \/ create \/ wait \/ raw \/ handle_pipe

-----------------------------------------------------------------------------
(***************************************************************************)
(* Reading the terminal, and the commands.                                 *)
(***************************************************************************)

\* The effect of an answer of fd_read_terminal on the kernel.
Answered(p, answer) ==
    /\ tty' = answer.tty
    /\ process' = [process EXCEPT ![p].state = IF answer.sleeps THEN "BLOCKED" ELSE @]
    /\ UNCHANGED <<pipe_table, fd_table, mods>>

\* shellReadLine: what it reads is not the name of a command.
shellReadLine ==
    /\ pc[Shell] = "prompt"
    /\ Runs(Shell)
    /\ Answered(Shell, fd_read_terminal(tty, Shell, 1, TRUE))
    /\ UNCHANGED <<pc, user, program>>

\* The loop of filter: what it has copied after n bytes.
kept(bytes) ==
    LET out[n \in 0..Len(bytes)] ==
          IF n = 0 THEN <<>>
          ELSE IF bytes[n] \in Vowels THEN out[n - 1]
          ELSE Append(out[n - 1], bytes[n])
    IN  out[Len(bytes)]

\* 0 ends the loop; after -1 it reads again.
filter_read ==
    \E answer \in {fd_read_terminal(tty, Left, BUF_SIZE, InForeground(Left))} :
        /\ Runs(Left)
        /\ Goto(Left, "read", IF answer.sleeps THEN "read"
                              ELSE IF answer.bytes = <<>> THEN "exit"
                              ELSE IF kept(answer.bytes) = <<>> THEN "read" ELSE "write")
        /\ Answered(Left, answer)
        /\ buf' = kept(answer.bytes)
        /\ UNCHANGED <<user, line, fds, received, short, killed>>

\* What sys_write returns is not looked at, and neither is a -1.
filter_write ==
    LET f == process[Left].fd[1]
    IN  /\ Runs(Left)
        /\ Goto(Left, "write", "read")
        /\ buf' = <<>>
        /\ \/ /\ fd_table[f].type = "TERMINAL"
              /\ received' = received \o buf
              /\ UNCHANGED <<vars, short>>
           \/ /\ sys_write(Left, f, buf)
              /\ short' = (short \/ bytes_written(Kernel, fd_table[f].data, buf) < Len(buf))
              /\ UNCHANGED received
        /\ UNCHANGED <<kbdVars, user, line, fds, killed>>

wc_read ==
    LET f == process[Right].fd[0]
        i == fd_table[f].data
    IN  /\ Runs(Right)
        /\ Goto(Right, "read", IF pipe_table[i].count = 0 /\ AtEnd(Kernel, i)
                                 THEN "exit" ELSE "read")
        /\ sys_read(Right, f, BUF_SIZE)
        /\ received' = received \o bytes_read(Kernel, i, BUF_SIZE)
        /\ UNCHANGED <<kbdVars, user, line, fds, buf, short, killed>>

exit(p) ==
    /\ Goto(p, "exit", "done")
    /\ Runs(p)
    /\ Dies(p)
    /\ UNCHANGED <<user, program>>

LeftStep == filter_read \/ filter_write \/ exit(Left)
RightStep == wc_read \/ exit(Right)

-----------------------------------------------------------------------------
(***************************************************************************)
(* The user.                                                               *)
(***************************************************************************)

Killed(p) ==
    /\ Dies(p)
    /\ pc' = [pc EXCEPT ![p] = "done"]
    /\ killed' = TRUE
    /\ UNCHANGED <<line, fds, buf, received, short>>

\* process_kill_foreground: the highest pid; the shell is the lowest.
KillTargets == IF Alive(Right) THEN {Right}
               ELSE IF Alive(Left) /\ InForeground(Left) THEN {Left}
               ELSE {}

\* Ctrl+C
Interrupt ==
    /\ Interrupts(mods, C_KEY)
    /\ \E p \in KillTargets : Killed(p)

\* Any other key; whoever waited and waits no more is made READY.
Key(s) ==
    /\ ~Interrupts(mods, s)
    /\ Press(s)
    /\ process' = [p \in Pids |-> IF p = tty.waiting /\ p # tty'.waiting
                                    THEN [process[p] EXCEPT !.state = "READY"]
                                    ELSE process[p]]
    /\ accepted' = IF Edits(tty) /\ tty.waiting = Left /\ Len(tty.line) # Len(tty'.line)
                     THEN IF Len(tty'.line) < Len(tty.line)
                            THEN SubSeq(accepted, 1, Len(accepted) - 1)
                            ELSE Append(accepted, char_of(mods, s))
                     ELSE accepted
    /\ UNCHANGED <<pipe_table, fd_table, pc, program>>

type ==
    /\ typed # <<>>
    /\ typed' = Tail(typed)
    /\ Key(Head(typed))

\* Input ends with Ctrl held down.
CtrlD == typed = <<>> /\ Key(D_KEY) /\ UNCHANGED typed
CtrlC == typed = <<>> /\ Interrupt /\ UNCHANGED user

\* A later line: kill <pid>, when the line went to the background.
kill(p) ==
    /\ pc[Shell] = "prompt" /\ Runs(Shell)
    /\ Alive(p)
    /\ Killed(p)
    /\ UNCHANGED user

LInit ==
    /\ Init /\ KInit
    /\ pc = [p \in Pids |-> IF p = Shell THEN "line" ELSE "read"]
    /\ line \in [pipe : BOOLEAN, bg : BOOLEAN]
    /\ fds = <<NULL, NULL>>
    /\ typed = Input /\ accepted = <<>>
    /\ buf = <<>> /\ received = <<>>
    /\ short = FALSE /\ killed = FALSE

LNext == \/ processLine \/ shellReadLine \/ LeftStep \/ RightStep
         \/ type \/ CtrlD \/ CtrlC \/ \E p \in {Left, Right} : kill(p)

\* A READY process gets the CPU (Process's NoStarvation); the user types to the
\* end, and presses Ctrl+D when the command waits for more.
LSpec == /\ LInit /\ [][LNext]_allVars
         /\ WF_allVars(processLine) /\ WF_allVars(LeftStep) /\ WF_allVars(RightStep)
         /\ WF_allVars(type) /\ WF_allVars(tty.waiting = Left /\ CtrlD)

-----------------------------------------------------------------------------
(***************************************************************************)
(* Properties.                                                             *)
(***************************************************************************)

\* `left | right &': both the shell and Left read the terminal, and the driver
\* has one pointer.  What is said of the terminal excludes this line.
OneReader == ~(line.pipe /\ line.bg)

\* The driver's pointer is to the process that sleeps in a read of the terminal,
\* and nobody else sleeps there: a key wakes whoever needs it, and nobody that
\* sleeps elsewhere or is dead.
NobodyForgotten ==
    OneReader =>
        {p \in Pids : process[p].state = "BLOCKED" /\ process[p].at = Nowhere}
            = {tty.waiting} \ {Nobody}

\* Whoever sleeps at the terminal has nothing to read: no change of mode and no
\* key leaves a reader asleep with its line, its end of input or its characters
\* in the driver.
SleeperNeedsInput ==
    (OneReader /\ tty.waiting # Nobody) =>
        IF tty.mode = TTY_COOKED THEN ~tty.line_ready /\ ~tty.eof
        ELSE tty.buff_size = 0

\* Left and Right are gone, and the shell is back at its prompt.
Over == pc[Shell] = "prompt" /\ ~Alive(Left) /\ ~Alive(Right)

\* The line comes to an end, whatever fails and whoever is killed: nobody waits
\* for ever for the other side or for a key that somebody else has got, and the
\* shell for neither.
PipelineEnds == OneReader => <>[]Over

\* ... and leaves nothing behind in the kernel's tables, on the error paths too.
NothingLeftOpen ==
    Over => /\ \A i \in PipeIds : ~pipe_table[i].in_use
            /\ \A f \in Fds \ {FD_STDIN, FD_STDOUT} : fd_table[f].type = "NONE"

\* What the user typed and did not erase is, in order and once, in what came
\* out, in the pipe, in filter's buffer and in the line, without the vowels;
\* unless somebody was killed or a write found the pipe too full.
OutputArrives ==
    (OneReader /\ ~killed /\ ~short /\ pc[Shell] \in {"unblock right", "wait left", "wait right", "raw"})
      => kept(accepted) = received \o bytes_read(Kernel, 0, PIPE_BUFFER_SIZE)
                            \o buf \o kept(tty.line)

\* The bytes in the ring buffer, and the ends as processes hold them: the
\* mapping does not believe the counters.
AsStream == INSTANCE Stream WITH
        capacity <- PIPE_BUFFER_SIZE,
        contents <- bytes_read(Kernel, 0, PIPE_BUFFER_SIZE),
        readable <- EndRefs(Kernel, Refs(Kernel), 0, "READ") # {},
        writable <- EndRefs(Kernel, Refs(Kernel), 0, "WRITE") # {}

\* The pipe is a stream: the ring buffer neither loses, repeats nor reorders
\* bytes, and keeps them until the last end is gone.
ImplementsStream == AsStream!SSpec
=============================================================================
