------------------------------ MODULE Keyboard ------------------------------
(***************************************************************************)
(* The keyboard driver and the terminal: Kernel/c/drivers/keyboardDriver.c,*)
(* the FD_TERMINAL branch of fd_read and sys_tty_mode.                     *)
(*                                                                         *)
(* IRQ1 runs handlePressedKey with interrupts off, and so does int 0x80    *)
(* with a read: each is one step (module Process says why).  A character   *)
(* goes to one of two places.  In cooked mode, while somebody waits, it    *)
(* edits tty_line, which the reader gets when the line is complete; at any *)
(* other time it goes into the ring buffer, which only a raw read empties. *)
(*                                                                         *)
(* The screen (echo, F1's register dump) is left out.                      *)
(***************************************************************************)
EXTENDS Integers, Sequences

CONSTANTS
    Readers,            \* the processes
    Nobody,             \* the NULL of kbd_waiting_process
    BUFF_LENGTH,        \* of the ring buffer
    LINE_LENGTH,        \* sizeof(tty_line)
    Scancodes,          \* what the keyboard sends
    kbd_min, kbd_mayus, \* the characters of the keys
    ReadSizes           \* what programs pass to sys_read

NEWLINE == 10
BACKSPACE == 8
EOT == 4                \* what Ctrl+D puts into the ring buffer

L_SHIFT == 42
R_SHIFT == 54
L_CONTROL == 29
CAPS_LOCK == 58
C_KEY == 46
D_KEY == 32
F1_KEY == 59
Arrows == {72, 75, 77, 80}
BREAK_CODE == 128

\* The keys with a character: what is left for the last branch.
Letters == {s \in Scancodes : s \in 1..(BREAK_CODE - 1)} \
              ({L_SHIFT, R_SHIFT, L_CONTROL, CAPS_LOCK, F1_KEY} \cup Arrows)

Chars == {kbd_min[s] : s \in Letters} \cup {kbd_mayus[s] : s \in Letters} \cup {0, EOT}

ASSUME KeyboardAssumption ==
    /\ Nobody \notin Readers
    /\ BUFF_LENGTH \in Nat \ {0} /\ LINE_LENGTH \in Nat \ {0}
    /\ Scancodes \subseteq 0..255
    /\ Letters \subseteq DOMAIN kbd_min /\ Letters \subseteq DOMAIN kbd_mayus
    /\ ReadSizes \subseteq Nat \ {0}

TTY_RAW == "raw"
TTY_COOKED == "cooked"

\* The driver's globals.
Terminal == [buff : [0..(BUFF_LENGTH - 1) -> Chars], buff_size : 0..BUFF_LENGTH,
             start_index : 0..(BUFF_LENGTH - 1), end_index : 0..(BUFF_LENGTH - 1),
             mode : {TTY_RAW, TTY_COOKED}, line : Seq(Chars), line_ready : BOOLEAN,
             eof : BOOLEAN, waiting : Readers \cup {Nobody}]

Modifiers == [shift : 0..1, caps : 0..1, ctrl : BOOLEAN]

VARIABLES tty, mods

kbdVars == <<tty, mods>>

Smaller(a, b) == IF a < b THEN a ELSE b

-----------------------------------------------------------------------------
(***************************************************************************)
(* The ring buffer.                                                        *)
(***************************************************************************)

\* What it holds, oldest first.
Ring(t) == [j \in 1..t.buff_size |-> t.buff[(t.start_index + j - 1) % BUFF_LENGTH]]

\* Mutant: a full buffer keeps its start.
writeBuff_keep_start(t, c) ==
    [t EXCEPT !.buff[t.end_index] = c,
              !.end_index = (@ + 1) % BUFF_LENGTH,
              !.buff_size = IF @ < BUFF_LENGTH THEN @ + 1 ELSE @]

\* A full buffer loses its oldest character.
writeBuff(t, c) ==
    [t EXCEPT !.buff[t.end_index] = c,
              !.end_index = (@ + 1) % BUFF_LENGTH,
              !.buff_size = IF @ < BUFF_LENGTH THEN @ + 1 ELSE @,
              !.start_index = IF t.buff_size < BUFF_LENGTH THEN @
                              ELSE (@ + 1) % BUFF_LENGTH]

\* How many characters readKeyBuff takes: the bound of its loop, buff_size,
\* shrinks with every one, so a long read gets half of them.
taken(t, count) == Smaller(count, (t.buff_size + 1) \div 2)

readKeyBuff(t, count) ==
    [t EXCEPT !.buff_size = @ - taken(t, count),
              !.start_index = (@ + taken(t, count)) % BUFF_LENGTH]

-----------------------------------------------------------------------------
(***************************************************************************)
(* handlePressedKey.  Whoever waits in t and no longer waits in the result *)
(* has been made READY.                                                    *)
(***************************************************************************)

wake(t) == [t EXCEPT !.waiting = Nobody]

Edits(t) == t.mode = TTY_COOKED /\ t.waiting # Nobody

\* Mutant: the room of the newline is given away.
edit_line_full(t, c) ==
    CASE c = NEWLINE   -> wake([t EXCEPT !.line = Append(@, c), !.line_ready = TRUE])
      [] c = BACKSPACE -> [t EXCEPT !.line = SubSeq(@, 1, Len(@) - 1)]
      [] OTHER         -> IF Len(t.line) < LINE_LENGTH
                            THEN [t EXCEPT !.line = Append(@, c)] ELSE t

\* The newline is stored without a test of the length.
edit_line(t, c) ==
    CASE c = NEWLINE   -> wake([t EXCEPT !.line = Append(@, c), !.line_ready = TRUE])
      [] c = BACKSPACE -> [t EXCEPT !.line = SubSeq(@, 1, Len(@) - 1)]
      [] OTHER         -> IF Len(t.line) < LINE_LENGTH - 1
                            THEN [t EXCEPT !.line = Append(@, c)] ELSE t

\* Mutant: the character is buffered and nobody is told.
press_char_quiet(t, c) == IF Edits(t) THEN edit_line(t, c) ELSE writeBuff(t, c)

press_char(t, c) == IF Edits(t) THEN edit_line(t, c) ELSE wake(writeBuff(t, c))

\* Ctrl+D
press_eof(t) ==
    IF ~Edits(t) THEN wake(writeBuff(t, EOT))
    ELSE IF t.line # <<>> THEN wake([t EXCEPT !.line_ready = TRUE])
    ELSE wake([t EXCEPT !.eof = TRUE])

\* The character of a key: shift and caps lock cancel each other.
char_of(m, s) == IF (m.shift + m.caps) % 2 = 0 THEN kbd_min[s] ELSE kbd_mayus[s]

\* What a scancode does to the modifiers ...
press_modifier(m, s) ==
    CASE s \in {L_SHIFT, R_SHIFT} -> [m EXCEPT !.shift = 1]
      [] s \in {L_SHIFT + BREAK_CODE, R_SHIFT + BREAK_CODE} -> [m EXCEPT !.shift = 0]
      [] s = L_CONTROL -> [m EXCEPT !.ctrl = TRUE]
      [] s = L_CONTROL + BREAK_CODE -> [m EXCEPT !.ctrl = FALSE]
      [] s = CAPS_LOCK -> [m EXCEPT !.caps = 1 - @]
      [] OTHER -> m

\* ... whether it calls process_kill_foreground ...
Interrupts(m, s) == m.ctrl /\ s = C_KEY

\* ... and what it does to the terminal.
handlePressedKey(t, m, s) ==
    IF s \notin Letters \/ Interrupts(m, s) THEN t
    ELSE IF m.ctrl /\ s = D_KEY THEN press_eof(t)
    ELSE press_char(t, char_of(m, s))

-----------------------------------------------------------------------------
(***************************************************************************)
(* fd_read of the terminal by process p: the driver afterwards, whether p  *)
(* sleeps (the call returns -1 once it is woken) and the bytes it gets,    *)
(* none at the end of the input.                                           *)
(***************************************************************************)
Answer(t, bytes) == [tty |-> t, sleeps |-> FALSE, bytes |-> bytes]

\* kbd_set_waiting replaces whoever waited before.
Sleep(t, p) == [tty |-> [t EXCEPT !.waiting = p], sleeps |-> TRUE, bytes |-> <<>>]

\* Mutant: the rest of a line that is longer than the read is dropped.
read_line_once(t, p, count) ==
    IF t.eof /\ t.line = <<>> THEN Answer([t EXCEPT !.eof = FALSE], <<>>)
    ELSE IF ~t.line_ready /\ ~t.eof THEN Sleep(t, p)
    ELSE Answer([t EXCEPT !.line = <<>>, !.line_ready = FALSE, !.eof = FALSE],
                SubSeq(t.line, 1, Smaller(count, Len(t.line))))

\* Cooked mode; what does not fit the read stays for the next one.
read_line(t, p, count) ==
    LET n == Smaller(count, Len(t.line))
    IN  IF t.eof /\ t.line = <<>> THEN Answer([t EXCEPT !.eof = FALSE], <<>>)
        ELSE IF ~t.line_ready /\ ~t.eof THEN Sleep(t, p)
        ELSE IF n < Len(t.line)
          THEN Answer([t EXCEPT !.line = SubSeq(@, n + 1, Len(@))], SubSeq(t.line, 1, n))
        ELSE Answer([t EXCEPT !.line = <<>>, !.line_ready = FALSE, !.eof = FALSE], t.line)

\* Raw mode; a leading Ctrl+D is the end, and what was taken with it is lost.
read_raw(t, p, count) ==
    LET bytes == SubSeq(Ring(t), 1, taken(t, count))
    IN  IF bytes = <<>> THEN Sleep(t, p)
        ELSE Answer(readKeyBuff(t, count), IF Head(bytes) = EOT THEN <<>> ELSE bytes)

\* Mutant: a background process may sleep at the terminal.
fd_read_terminal_any(t, p, count, foreground) ==
    IF t.mode = TTY_COOKED THEN read_line(t, p, count) ELSE read_raw(t, p, count)

\* A background process gets 0 at once.
fd_read_terminal(t, p, count, foreground) ==
    IF ~foreground THEN Answer(t, <<>>)
    ELSE IF t.mode = TTY_COOKED THEN read_line(t, p, count)
    ELSE read_raw(t, p, count)

tty_set_mode(t, mode) ==
    [t EXCEPT !.mode = mode, !.line = <<>>, !.line_ready = FALSE, !.eof = FALSE]

\* kbd_clear_waiting, when p dies.
tty_clear_waiting(t, p) == IF t.waiting = p THEN wake(t) ELSE t

-----------------------------------------------------------------------------
(***************************************************************************)
(* The driver alone: keys come at any time, and any process uses the       *)
(* terminal or dies.                                                       *)
(***************************************************************************)
Press(s) ==
    /\ tty' = handlePressedKey(tty, mods, s)
    /\ mods' = press_modifier(mods, s)

Read(p, count, foreground) ==
    /\ tty' = fd_read_terminal(tty, p, count, foreground).tty
    /\ UNCHANGED mods

SetMode(mode) == tty' = tty_set_mode(tty, mode) /\ UNCHANGED mods

ClearWaiting(p) == tty' = tty_clear_waiting(tty, p) /\ UNCHANGED mods

KInit ==
    /\ tty = [buff |-> [i \in 0..(BUFF_LENGTH - 1) |-> 0], buff_size |-> 0,
              start_index |-> 0, end_index |-> 0, mode |-> TTY_RAW, line |-> <<>>,
              line_ready |-> FALSE, eof |-> FALSE, waiting |-> Nobody]
    /\ mods = [shift |-> 0, caps |-> 0, ctrl |-> FALSE]

KNext ==
    \/ \E s \in Scancodes : Press(s)
    \/ \E p \in Readers, count \in ReadSizes, fg \in BOOLEAN : Read(p, count, fg)
    \/ \E mode \in {TTY_RAW, TTY_COOKED} : SetMode(mode)
    \/ \E p \in Readers : ClearWaiting(p)

KSpec == KInit /\ [][KNext]_kbdVars

-----------------------------------------------------------------------------
(***************************************************************************)
(* Properties.                                                             *)
(***************************************************************************)

\* The driver's globals keep their types: no index leaves the ring buffer.
KTypeOK == tty \in Terminal /\ mods \in Modifiers

\* tty_line never holds more than it has room for, though the newline is
\* stored without a test: a line takes no key once it is complete, and one that
\* is not complete has left room for it.
LineFits == Len(tty.line) <= LINE_LENGTH

\* The ring buffer is a queue: a key adds a character behind the others, or in
\* the place of the oldest when there is no room, and a read takes the first
\* ones.
KeysInOrder ==
    [][LET old == Ring(tty) new == Ring(tty')
           n == Len(old) m == Len(new)
       IN  \/ m <= n /\ new = SubSeq(old, n - m + 1, n)
           \/ /\ m = Smaller(n + 1, BUFF_LENGTH)
              /\ SubSeq(new, 1, m - 1) = SubSeq(old, n - m + 2, n)]_kbdVars
=============================================================================
