---------------------------- MODULE ShellProofs ----------------------------
(***************************************************************************)
(* Proofs about the keyboard driver (module Keyboard), for every size of   *)
(* its buffers, every table of characters and any number of processes; and *)
(* about the session of module Shell.  Its processes and its user use the  *)
(* terminal only as module Keyboard lets any process use it, so what is    *)
(* proved of the driver holds of the whole; and what PipesProofs proves of *)
(* each call on pipes and descriptors, together with where the shell is in *)
(* its line, gives the invariants of the whole.                            *)
(***************************************************************************)
EXTENDS Shell, PipesProofs

-----------------------------------------------------------------------------
(***************************************************************************)
(* Facts about the operators.                                              *)
(***************************************************************************)

\* An index taken modulo the length of the ring buffer stays in it.
LEMMA ModRange ==
    ASSUME NEW a \in Nat
    PROVE  a % BUFF_LENGTH \in 0..(BUFF_LENGTH - 1)
  BY KeyboardAssumption

\* A character of a key is a character.
LEMMA CharOf ==
    ASSUME NEW m \in Modifiers, NEW s \in Letters
    PROVE  char_of(m, s) \in Chars
  BY DEF char_of, Chars

\* The smaller of two lengths is one of them.
LEMMA SmallerIs ==
    ASSUME NEW a \in Nat, NEW b \in Nat
    PROVE  /\ Smaller(a, b) \in Nat
           /\ Smaller(a, b) <= a /\ Smaller(a, b) <= b
  BY DEF Smaller

\* readKeyBuff takes no more than there is.
LEMMA TakenFits ==
    ASSUME NEW t \in Terminal, NEW count \in Nat
    PROVE  taken(t, count) \in 0..t.buff_size
  <1> DEFINE half == (t.buff_size + 1) \div 2
  <1>1. t.buff_size \in 0..BUFF_LENGTH /\ BUFF_LENGTH \in Nat
    BY KeyboardAssumption DEF Terminal
  <1>2. half \in 0..t.buff_size
    BY <1>1
  <1>3. taken(t, count) = Smaller(count, half)
    BY DEF taken
  <1> HIDE DEF half
  <1>4. half \in Nat /\ half <= t.buff_size
    BY <1>1, <1>2
  <1>5. Smaller(count, half) \in Nat /\ Smaller(count, half) <= half
    BY <1>4, SmallerIs
  <1> QED
    BY <1>1, <1>3, <1>4, <1>5

\* Everything that the driver does to its globals keeps their types.
LEMMA WriteBuffType ==
    ASSUME NEW t \in Terminal, NEW c \in Chars
    PROVE  writeBuff(t, c) \in Terminal
  <1>1. /\ t.end_index \in Nat /\ t.start_index \in Nat /\ t.buff_size \in 0..BUFF_LENGTH
        /\ BUFF_LENGTH \in Nat
    BY KeyboardAssumption DEF Terminal
  <1>2. /\ (t.end_index + 1) % BUFF_LENGTH \in 0..(BUFF_LENGTH - 1)
        /\ (t.start_index + 1) % BUFF_LENGTH \in 0..(BUFF_LENGTH - 1)
    BY <1>1, ModRange
  <1> DEFINE b == [t.buff EXCEPT ![t.end_index] = c]
             n == IF t.buff_size < BUFF_LENGTH THEN t.buff_size + 1 ELSE t.buff_size
             a == IF t.buff_size < BUFF_LENGTH THEN t.start_index
                  ELSE (t.start_index + 1) % BUFF_LENGTH
             z == (t.end_index + 1) % BUFF_LENGTH
  <1>3. b \in [0..(BUFF_LENGTH - 1) -> Chars]
    BY DEF Terminal
  <1>4. n \in 0..BUFF_LENGTH /\ a \in 0..(BUFF_LENGTH - 1) /\ z \in 0..(BUFF_LENGTH - 1)
    BY <1>1, <1>2 DEF Terminal
  <1>5. writeBuff(t, c) = [t EXCEPT !.buff = b, !.end_index = z, !.buff_size = n,
                                    !.start_index = a]
    BY DEF writeBuff, Terminal
  <1> HIDE DEF b, n, a, z
  <1> QED
    BY <1>3, <1>4, <1>5 DEF Terminal

\* Waking the sleepers leaves a terminal record.
LEMMA WakeType ==
    ASSUME NEW t \in Terminal
    PROVE  wake(t) \in Terminal
  BY DEF wake, Terminal

\* A character taken from the ring leaves a terminal record.
LEMMA ReadKeyBuffType ==
    ASSUME NEW t \in Terminal, NEW count \in Nat
    PROVE  readKeyBuff(t, count) \in Terminal
  <1> DEFINE k == taken(t, count)
             a == (t.start_index + k) % BUFF_LENGTH
  <1>1. k \in 0..t.buff_size
    BY TakenFits
  <1>2. /\ t.buff_size \in 0..BUFF_LENGTH /\ BUFF_LENGTH \in Nat /\ t.start_index \in Nat
    BY KeyboardAssumption DEF Terminal
  <1> HIDE DEF k
  <1>3. a \in 0..(BUFF_LENGTH - 1)
    BY <1>1, <1>2, ModRange
  <1>4. t.buff_size - k \in 0..BUFF_LENGTH
    BY <1>1, <1>2
  <1>5. readKeyBuff(t, count) = [t EXCEPT !.buff_size = t.buff_size - k, !.start_index = a]
    BY DEF readKeyBuff, Terminal, k
  <1> HIDE DEF a
  <1> QED
    BY <1>3, <1>4, <1>5 DEF Terminal

\* So does a key of the line editor.
LEMMA EditLineType ==
    ASSUME NEW t \in Terminal, NEW c \in Chars
    PROVE  edit_line(t, c) \in Terminal
  <1>1. t.line \in Seq(Chars) /\ BOOLEAN = {TRUE, FALSE}
    BY DEF Terminal
  <1>2. Append(t.line, c) \in Seq(Chars) /\ SubSeq(t.line, 1, Len(t.line) - 1) \in Seq(Chars)
    BY <1>1
  <1>3. CASE c = NEWLINE
    BY <1>1, <1>2, <1>3 DEF edit_line, wake, Terminal
  <1>4. CASE c # NEWLINE /\ c = BACKSPACE
    BY <1>1, <1>2, <1>4 DEF edit_line, Terminal
  <1>5. CASE c # NEWLINE /\ c # BACKSPACE
    BY <1>1, <1>2, <1>5 DEF edit_line, Terminal
  <1> QED
    BY <1>3, <1>4, <1>5

-----------------------------------------------------------------------------
(***************************************************************************)
(* The line.  That it fits is not inductive: the newline is stored without *)
(* a test, so there must be room for it whenever somebody waits, which is  *)
(* whenever the line takes keys; a complete line may be full, hence nobody *)
(* may wait while there is one, in either mode.                            *)
(***************************************************************************)
LineOK(t) ==
    /\ t \in Terminal
    /\ Len(t.line) <= LINE_LENGTH
    /\ ~t.line_ready => Len(t.line) < LINE_LENGTH
    /\ t.waiting # Nobody \/ t.mode = TTY_RAW => ~t.line_ready /\ ~t.eof

\* writeBuff leaves the line under edit alone.
LEMMA WriteBuffLine ==
    ASSUME NEW t, LineOK(t), NEW c \in Chars
    PROVE  LineOK(writeBuff(t, c))
  <1>1. t \in Terminal /\ writeBuff(t, c) \in Terminal
    BY WriteBuffType DEF LineOK
  <1>2. /\ writeBuff(t, c).line = t.line /\ writeBuff(t, c).mode = t.mode
        /\ writeBuff(t, c).line_ready = t.line_ready /\ writeBuff(t, c).eof = t.eof
        /\ writeBuff(t, c).waiting = t.waiting
    BY <1>1 DEF writeBuff, Terminal
  <1> QED
    BY <1>1, <1>2 DEF LineOK

\* So does waking the sleepers.
LEMMA WakeLine ==
    ASSUME NEW t, LineOK(t)
    PROVE  LineOK(wake(t))
  <1>1. t \in Terminal /\ wake(t) \in Terminal
    BY WakeType DEF LineOK
  <1>2. /\ wake(t).line = t.line /\ wake(t).mode = t.mode
        /\ wake(t).line_ready = t.line_ready /\ wake(t).eof = t.eof
        /\ wake(t).waiting = Nobody
    BY <1>1 DEF wake, Terminal
  <1> QED
    BY <1>1, <1>2 DEF LineOK

\* A key of the line editor never makes the line longer than it may be.
LEMMA EditLineLine ==
    ASSUME NEW t, LineOK(t), Edits(t), NEW c \in Chars
    PROVE  LineOK(edit_line(t, c))
  <1>0. t \in Terminal
    BY DEF LineOK
  <1>1. /\ t \in Terminal /\ edit_line(t, c) \in Terminal
        /\ t.line \in Seq(Chars) /\ Len(t.line) \in Nat /\ LINE_LENGTH \in Nat
    <2>1. edit_line(t, c) \in Terminal
      BY <1>0, EditLineType
    <2> QED
      BY <1>0, <2>1, KeyboardAssumption DEF Terminal
  <1>2. ~t.line_ready /\ ~t.eof /\ t.mode = TTY_COOKED /\ Len(t.line) < LINE_LENGTH
    BY DEF LineOK, Edits
  <1>3. TTY_COOKED # TTY_RAW
    BY DEF TTY_COOKED, TTY_RAW
  <1>4. CASE c = NEWLINE
    <2> DEFINE u == [t EXCEPT !.line = Append(t.line, c), !.line_ready = TRUE]
    <2>3. edit_line(t, c) = wake(u)
      BY <1>4 DEF edit_line, NEWLINE, BACKSPACE
    <2>1. /\ edit_line(t, c).line = Append(t.line, c) /\ edit_line(t, c).mode = t.mode
          /\ edit_line(t, c).waiting = Nobody /\ edit_line(t, c).line_ready = TRUE
      BY <1>1, <2>3 DEF wake, Terminal
    <2>2. Len(Append(t.line, c)) = Len(t.line) + 1
      BY <1>1
    <2> QED
      BY <1>1, <1>2, <1>3, <2>1, <2>2 DEF LineOK
  <1>5. CASE c # NEWLINE /\ c = BACKSPACE
    <2>1. /\ edit_line(t, c).line = SubSeq(t.line, 1, Len(t.line) - 1)
          /\ edit_line(t, c).mode = t.mode /\ edit_line(t, c).waiting = t.waiting
          /\ edit_line(t, c).line_ready = t.line_ready /\ edit_line(t, c).eof = t.eof
      BY <1>1, <1>5 DEF edit_line, Terminal
    <2>2. Len(SubSeq(t.line, 1, Len(t.line) - 1)) \in Nat
          /\ Len(SubSeq(t.line, 1, Len(t.line) - 1)) <= Len(t.line)
      BY <1>1
    <2> QED
      BY <1>1, <1>2, <1>3, <2>1, <2>2 DEF LineOK
  <1>6. CASE c # NEWLINE /\ c # BACKSPACE /\ Len(t.line) < LINE_LENGTH - 1
    <2>1. /\ edit_line(t, c).line = Append(t.line, c)
          /\ edit_line(t, c).mode = t.mode /\ edit_line(t, c).waiting = t.waiting
          /\ edit_line(t, c).line_ready = t.line_ready /\ edit_line(t, c).eof = t.eof
      BY <1>1, <1>6 DEF edit_line, Terminal
    <2>2. Len(Append(t.line, c)) = Len(t.line) + 1
      BY <1>1
    <2> QED
      BY <1>1, <1>2, <1>3, <1>6, <2>1, <2>2 DEF LineOK
  <1>7. CASE c # NEWLINE /\ c # BACKSPACE /\ ~(Len(t.line) < LINE_LENGTH - 1)
    BY <1>7 DEF edit_line
  <1> QED
    BY <1>4, <1>5, <1>6, <1>7

\* A key leaves a line that fits.
LEMMA PressLine ==
    ASSUME NEW t, LineOK(t), NEW m \in Modifiers, NEW s \in Scancodes
    PROVE  LineOK(handlePressedKey(t, m, s))
  <1>1. CASE s \notin Letters \/ Interrupts(m, s)
    BY <1>1 DEF handlePressedKey
  <1>2. CASE s \in Letters /\ ~Interrupts(m, s) /\ m.ctrl /\ s = D_KEY
    <2>1. handlePressedKey(t, m, s) = press_eof(t)
      BY <1>2 DEF handlePressedKey
    <2>2. CASE ~Edits(t)
      <3>1. EOT \in Chars
        BY DEF Chars
      <3> QED
        BY <2>1, <2>2, <3>1, WriteBuffLine, WakeLine DEF press_eof
    <2>3. CASE Edits(t)
      <3>1. /\ t \in Terminal /\ ~t.line_ready /\ ~t.eof /\ t.mode = TTY_COOKED
            /\ Len(t.line) < LINE_LENGTH /\ TTY_COOKED # TTY_RAW
        BY <2>3 DEF LineOK, Edits, TTY_COOKED, TTY_RAW
      <3>2. /\ press_eof(t) \in Terminal
            /\ press_eof(t).line = t.line /\ press_eof(t).mode = t.mode
            /\ press_eof(t).waiting = Nobody
        BY <2>3, <3>1 DEF press_eof, wake, Terminal
      <3> QED
        BY <2>1, <3>1, <3>2 DEF LineOK
    <2> QED
      BY <2>2, <2>3
  <1>3. CASE s \in Letters /\ ~Interrupts(m, s) /\ ~(m.ctrl /\ s = D_KEY)
    <2>1. handlePressedKey(t, m, s) = press_char(t, char_of(m, s))
      BY <1>3 DEF handlePressedKey
    <2>2. char_of(m, s) \in Chars
      BY <1>3, CharOf
    <2> QED
      BY <2>1, <2>2, EditLineLine, WriteBuffLine, WakeLine DEF press_char
  <1> QED
    BY <1>1, <1>2, <1>3

\* A read leaves a line that fits.
LEMMA ReadLine ==
    ASSUME NEW t, LineOK(t), t.mode = TTY_COOKED, NEW p \in Readers, NEW count \in Nat \ {0}
    PROVE  LineOK(read_line(t, p, count).tty)
  <1> DEFINE n == Smaller(count, Len(t.line))
  <1>1. /\ t \in Terminal /\ t.line \in Seq(Chars) /\ Len(t.line) \in Nat
        /\ LINE_LENGTH \in Nat \ {0} /\ TTY_COOKED # TTY_RAW
    BY KeyboardAssumption DEF LineOK, Terminal, TTY_COOKED, TTY_RAW
  <1>2. n \in Nat /\ n <= Len(t.line) /\ n <= count
    BY <1>1, SmallerIs
  <1>3. CASE t.eof /\ t.line = <<>>
    <2>1. read_line(t, p, count).tty = [t EXCEPT !.eof = FALSE]
      BY <1>3 DEF read_line, Answer
    <2> QED
      BY <1>1, <2>1 DEF LineOK, Terminal
  <1>4. CASE ~(t.eof /\ t.line = <<>>) /\ ~t.line_ready /\ ~t.eof
    <2>1. read_line(t, p, count).tty = [t EXCEPT !.waiting = p]
      BY <1>4 DEF read_line, Sleep
    <2> QED
      BY <1>1, <1>4, <2>1 DEF LineOK, Terminal
  <1>5. CASE /\ ~(t.eof /\ t.line = <<>>) /\ ~(~t.line_ready /\ ~t.eof)
             /\ n < Len(t.line)
    <2> DEFINE rest == SubSeq(t.line, n + 1, Len(t.line))
    <2>1. read_line(t, p, count).tty = [t EXCEPT !.line = rest]
      BY <1>5 DEF read_line, Answer
    <2> HIDE DEF n
    <2>2. rest \in Seq(Chars) /\ Len(rest) \in Nat /\ Len(rest) <= Len(t.line)
      BY <1>1, <1>2, <1>5
    <2> HIDE DEF rest
    <2> DEFINE u == [t EXCEPT !.line = rest]
    <2>3. /\ u \in Terminal /\ u.line = rest /\ u.line_ready = t.line_ready
          /\ u.eof = t.eof /\ u.mode = t.mode /\ u.waiting = t.waiting
      BY ONLY <1>1, <2>2 DEF Terminal
    <2>4. Len(t.line) <= LINE_LENGTH /\ (~t.line_ready => Len(t.line) < LINE_LENGTH)
      BY DEF LineOK
    <2>5. LineOK(u)
      <3> HIDE DEF u
      <3>1. Len(u.line) <= LINE_LENGTH /\ (~u.line_ready => Len(u.line) < LINE_LENGTH)
        BY ONLY <1>1, <2>2, <2>3, <2>4
      <3> QED
        BY <2>3, <3>1 DEF LineOK
    <2> QED
      BY ONLY <2>1, <2>5 DEF u
  <1>6. CASE /\ ~(t.eof /\ t.line = <<>>) /\ ~(~t.line_ready /\ ~t.eof)
             /\ ~(n < Len(t.line))
    <2>1. read_line(t, p, count).tty
            = [t EXCEPT !.line = <<>>, !.line_ready = FALSE, !.eof = FALSE]
      BY <1>6 DEF read_line, Answer
    <2>2. <<>> \in Seq(Chars) /\ Len(<<>>) = 0
      OBVIOUS
    <2> DEFINE u == [t EXCEPT !.line = <<>>, !.line_ready = FALSE, !.eof = FALSE]
    <2>3. /\ u \in Terminal /\ u.line = <<>> /\ u.line_ready = FALSE /\ u.eof = FALSE
      BY <1>1, <2>2 DEF Terminal
    <2> HIDE DEF u
    <2>4. LineOK(u)
      BY <1>1, <2>2, <2>3 DEF LineOK
    <2> QED
      BY <2>1, <2>4 DEF u
  <1> QED
    BY <1>3, <1>4, <1>5, <1>6

\* A raw read keeps the invariant.
LEMMA ReadRaw ==
    ASSUME NEW t, LineOK(t), t.mode # TTY_COOKED, NEW p \in Readers, NEW count \in Nat \ {0}
    PROVE  LineOK(read_raw(t, p, count).tty)
  <1>1. t \in Terminal
    BY DEF LineOK
  <1>2. t.mode = TTY_RAW /\ readKeyBuff(t, count) \in Terminal
    BY <1>1, ReadKeyBuffType DEF Terminal
  <1>3. LineOK([t EXCEPT !.waiting = p])
    BY <1>1, <1>2 DEF LineOK, Terminal
  <1>4. /\ readKeyBuff(t, count).line = t.line /\ readKeyBuff(t, count).mode = t.mode
        /\ readKeyBuff(t, count).line_ready = t.line_ready
        /\ readKeyBuff(t, count).eof = t.eof /\ readKeyBuff(t, count).waiting = t.waiting
    BY <1>1 DEF readKeyBuff, Terminal
  <1>5. LineOK(readKeyBuff(t, count))
    BY <1>2, <1>4 DEF LineOK
  <1>6. read_raw(t, p, count).tty \in {[t EXCEPT !.waiting = p], readKeyBuff(t, count)}
    BY DEF read_raw, Answer, Sleep
  <1> QED
    BY <1>3, <1>5, <1>6

\* So does fd_read_terminal in either mode.
LEMMA ReadTerminal ==
    ASSUME NEW t, LineOK(t), NEW p \in Readers, NEW count \in ReadSizes, NEW fg \in BOOLEAN
    PROVE  LineOK(fd_read_terminal(t, p, count, fg).tty)
  <1>1. count \in Nat \ {0}
    BY KeyboardAssumption
  <1>2. CASE ~fg
    BY <1>2 DEF fd_read_terminal, Answer
  <1>3. CASE fg /\ t.mode = TTY_COOKED
    BY <1>1, <1>3, ReadLine DEF fd_read_terminal
  <1>4. CASE fg /\ t.mode # TTY_COOKED
    BY <1>1, <1>4, ReadRaw DEF fd_read_terminal
  <1> QED
    BY <1>2, <1>3, <1>4

\* So does a change of the mode, which drops the line.
LEMMA SetModeLine ==
    ASSUME NEW t, LineOK(t), NEW mode \in {TTY_RAW, TTY_COOKED}
    PROVE  LineOK(tty_set_mode(t, mode))
  <1>1. <<>> \in Seq(Chars) /\ Len(<<>>) = 0 /\ LINE_LENGTH \in Nat \ {0}
    BY KeyboardAssumption
  <1>2. t \in Terminal
    BY DEF LineOK
  <1>3. /\ tty_set_mode(t, mode) \in Terminal /\ tty_set_mode(t, mode).line = <<>>
        /\ tty_set_mode(t, mode).line_ready = FALSE /\ tty_set_mode(t, mode).eof = FALSE
    BY <1>1, <1>2 DEF tty_set_mode, Terminal
  <1> QED
    BY <1>1, <1>3 DEF LineOK

\* So does kbd_clear_waiting.
LEMMA ClearWaitingLine ==
    ASSUME NEW t, LineOK(t), NEW p \in Readers
    PROVE  LineOK(tty_clear_waiting(t, p))
  BY WakeLine DEF tty_clear_waiting

\* A modifier key leaves a terminal record.
LEMMA PressModifierType ==
    ASSUME NEW m \in Modifiers, NEW s \in Scancodes
    PROVE  press_modifier(m, s) \in Modifiers
  <1>1. m.caps \in 0..1
    BY DEF Modifiers
  <1>2. 1 - m.caps \in 0..1
    BY <1>1
  <1>3. /\ [m EXCEPT !.shift = 1] \in Modifiers /\ [m EXCEPT !.shift = 0] \in Modifiers
    <2>1. 0 \in 0..1 /\ 1 \in 0..1
      OBVIOUS
    <2> QED
      BY <2>1 DEF Modifiers
  <1>5. /\ [m EXCEPT !.ctrl = TRUE] \in Modifiers /\ [m EXCEPT !.ctrl = FALSE] \in Modifiers
    BY DEF Modifiers
  <1>4. [m EXCEPT !.caps = 1 - m.caps] \in Modifiers
    BY <1>2 DEF Modifiers
  <1> QED
    BY <1>3, <1>4, <1>5 DEF press_modifier

-----------------------------------------------------------------------------
(***************************************************************************)
(* The theorems.                                                           *)
(***************************************************************************)
IInv == LineOK(tty) /\ mods \in Modifiers

\* The first of the three facts: the invariant holds initially,
LEMMA InitIInv == KInit => IInv
  <1> SUFFICES ASSUME KInit PROVE IInv
    OBVIOUS
  <1> DEFINE b == [i \in 0..(BUFF_LENGTH - 1) |-> 0]
  <1>1. /\ BUFF_LENGTH \in Nat \ {0} /\ LINE_LENGTH \in Nat \ {0}
        /\ 0 \in 0..(BUFF_LENGTH - 1) /\ 0 \in 0..BUFF_LENGTH
    BY KeyboardAssumption
  <1>2. b \in [0..(BUFF_LENGTH - 1) -> Chars]
    BY DEF Chars
  <1>3. <<>> \in Seq(Chars) /\ Len(<<>>) = 0
    OBVIOUS
  <1>4. /\ tty = [buff |-> b, buff_size |-> 0, start_index |-> 0, end_index |-> 0,
                  mode |-> TTY_RAW, line |-> <<>>, line_ready |-> FALSE, eof |-> FALSE,
                  waiting |-> Nobody]
        /\ mods = [shift |-> 0, caps |-> 0, ctrl |-> FALSE]
    BY DEF KInit
  <1> HIDE DEF b
  <1>5. tty \in Terminal
    BY <1>1, <1>2, <1>3, <1>4 DEF Terminal
  <1>6. mods \in Modifiers
    BY <1>4 DEF Modifiers
  <1> QED
    BY <1>1, <1>3, <1>4, <1>5, <1>6 DEF IInv, LineOK

\* every step keeps it,
LEMMA NextIInv == IInv /\ [KNext]_kbdVars => IInv'
  <1> SUFFICES ASSUME IInv, [KNext]_kbdVars PROVE IInv'
    OBVIOUS
  <1> USE DEF IInv
  <1>1. CASE \E s \in Scancodes : Press(s)
    BY <1>1, PressLine, PressModifierType DEF Press
  <1>2. CASE \E p \in Readers, count \in ReadSizes, fg \in BOOLEAN : Read(p, count, fg)
    BY <1>2, ReadTerminal DEF Read
  <1>3. CASE \E mode \in {TTY_RAW, TTY_COOKED} : SetMode(mode)
    BY <1>3, SetModeLine DEF SetMode
  <1>4. CASE \E p \in Readers : ClearWaiting(p)
    BY <1>4, ClearWaitingLine DEF ClearWaiting
  <1>5. CASE UNCHANGED kbdVars
    BY <1>5 DEF kbdVars
  <1> QED
    BY <1>1, <1>2, <1>3, <1>4, <1>5 DEF KNext

\* and so it always holds.
LEMMA IInvHolds == KSpec => []IInv
  BY InitIInv, NextIInv, PTL DEF KSpec

\* The globals of the driver keep their types, whatever the keyboard sends and
\* whoever reads, sets the mode or dies.
THEOREM KeyboardTypes == KSpec => []KTypeOK
  <1>1. IInv => KTypeOK
    BY DEF IInv, LineOK, KTypeOK
  <1> QED
    BY <1>1, IInvHolds, PTL

\* tty_line never overflows, for every size of the line, every key and every
\* order of reads, changes of mode and deaths.
THEOREM LineAlwaysFits == KSpec => []LineFits
  <1>1. IInv => LineFits
    BY DEF IInv, LineOK, LineFits
  <1> QED
    BY <1>1, IInvHolds, PTL

\* Whoever sleeps at the terminal has neither a line nor the end of the input
\* to read.
NoLineForSleeper == tty.waiting # Nobody => ~tty.line_ready /\ ~tty.eof

\* Nobody sleeps while a line, or the end of the input, is there for whoever
\* reads: even when several processes read, each replacing the one before in
\* kbd_waiting_process, and the mode changes while they sleep.
THEOREM SleeperHasNoLine == KSpec => []NoLineForSleeper
  <1>1. IInv => NoLineForSleeper
    BY DEF IInv, LineOK, NoLineForSleeper
  <1> QED
    BY <1>1, IInvHolds, PTL

-----------------------------------------------------------------------------
(***************************************************************************)
(* The ring buffer is a queue.                                             *)
(***************************************************************************)

\* The three counters of the ring buffer agree: writeBuff stores at end_index,
\* which is where the characters from start_index on end.
RingOK(t) == t \in Terminal /\ t.end_index = (t.start_index + t.buff_size) % BUFF_LENGTH

\* What KeysInOrder says of a step.
QueueStep(old, new) ==
    LET n == Len(old) m == Len(new)
    IN  \/ m <= n /\ new = SubSeq(old, n - m + 1, n)
        \/ /\ m = Smaller(n + 1, BUFF_LENGTH)
           /\ SubSeq(new, 1, m - 1) = SubSeq(old, n - m + 2, n)

\* An index past the end of the ring wraps once.
LEMMA WrapsOnce ==
    ASSUME NEW x \in Nat, x < 2 * BUFF_LENGTH
    PROVE  Once(x, BUFF_LENGTH)
  <1> SUFFICES x % BUFF_LENGTH = IF x < BUFF_LENGTH THEN x ELSE x - BUFF_LENGTH
    BY DEF Once
  <1> DEFINE B == BUFF_LENGTH
  <1>1. B \in Nat /\ B > 0
    BY KeyboardAssumption
  <1>2. CASE x < B
    BY <1>1, <1>2
  <1>3. CASE ~(x < B)
    <2>1. x - B \in 0..(B - 1)
      BY <1>1, <1>3
    <2> HIDE DEF B
    <2>2. x % B = (x - B) % B
      BY <1>1, <2>1
    <2>3. (x - B) % B = x - B
      BY <1>1, <2>1
    <2> QED
      BY <2>2, <2>3, <1>3 DEF B
  <1> QED
    BY <1>2, <1>3

\* What the ring buffer holds is a sequence of characters.
LEMMA RingIs ==
    ASSUME NEW t \in Terminal
    PROVE  /\ Ring(t) \in Seq(Chars) /\ Len(Ring(t)) = t.buff_size /\ t.buff_size \in Nat
           /\ \A j \in 1..t.buff_size :
                 Ring(t)[j] = t.buff[(t.start_index + j - 1) % BUFF_LENGTH]
  <1>1. /\ t.buff \in [0..(BUFF_LENGTH - 1) -> Chars] /\ t.buff_size \in 0..BUFF_LENGTH
        /\ t.start_index \in 0..(BUFF_LENGTH - 1) /\ BUFF_LENGTH \in Nat
    BY KeyboardAssumption DEF Terminal
  <1>2. \A j \in 1..t.buff_size : (t.start_index + j - 1) % BUFF_LENGTH \in 0..(BUFF_LENGTH - 1)
    <2> TAKE j \in 1..t.buff_size
    <2>1. t.start_index + j - 1 \in Nat
      BY <1>1
    <2> QED
      BY <2>1, ModRange
  <1>3. \A j \in 1..t.buff_size : t.buff[(t.start_index + j - 1) % BUFF_LENGTH] \in Chars
    BY <1>1, <1>2
  <1>4. Ring(t) \in [1..t.buff_size -> Chars] /\ t.buff_size \in Nat
    BY <1>1, <1>3 DEF Ring
  <1>5. Ring(t) \in Seq(Chars) /\ Len(Ring(t)) = t.buff_size
    BY <1>4
  <1> QED
    BY <1>4, <1>5 DEF Ring

\* A read moves the start.
LEMMA DropsFirst ==
    ASSUME NEW old \in Seq(Chars), NEW new \in Seq(Chars), NEW k \in Nat,
           Len(new) = Len(old) - k, \A j \in 1..Len(new) : new[j] = old[k + j]
    PROVE  QueueStep(old, new)
  <1>1. Len(old) \in Nat /\ Len(new) \in Nat /\ Len(new) <= Len(old)
    OBVIOUS
  <1>2. Len(old) - Len(new) + 1 = k + 1
    BY <1>1
  <1>3. new = SubSeq(old, k + 1, Len(old))
    BY <1>1
  <1> QED
    BY <1>1, <1>2, <1>3 DEF QueueStep

\* A write puts a character behind the others, d of which have to leave.
LEMMA AddsLast ==
    ASSUME NEW old \in Seq(Chars), NEW new \in Seq(Chars), NEW d \in 0..1,
           Len(new) = Len(old) + 1 - d, Len(new) = Smaller(Len(old) + 1, BUFF_LENGTH),
           Len(new) > 0,
           \A j \in 1..(Len(new) - 1) : new[j] = old[j + d]
    PROVE  QueueStep(old, new)
  <1>1. Len(old) \in Nat /\ Len(new) \in Nat
    OBVIOUS
  <1>2. Len(old) - Len(new) + 2 = 1 + d
    BY <1>1
  <1>3. SubSeq(new, 1, Len(new) - 1) = SubSeq(old, 1 + d, Len(old))
    BY <1>1
  <1> QED
    BY <1>1, <1>2, <1>3 DEF QueueStep

\* What writeBuff does, field by field.
LEMMA WriteBuffFields ==
    ASSUME NEW t \in Terminal, NEW c \in Chars
    PROVE  LET u == writeBuff(t, c)
           IN  /\ u \in Terminal
               /\ u.buff = [t.buff EXCEPT ![t.end_index] = c]
               /\ u.end_index = (t.end_index + 1) % BUFF_LENGTH
               /\ u.buff_size = IF t.buff_size < BUFF_LENGTH THEN t.buff_size + 1 ELSE t.buff_size
               /\ u.start_index = IF t.buff_size < BUFF_LENGTH THEN t.start_index
                                  ELSE (t.start_index + 1) % BUFF_LENGTH
  BY WriteBuffType, Zenon DEF writeBuff, Terminal

\* A ring that starts one place later holds its j-th character where the old
\* one held the next; none of them is where the old one starts.
LEMMA RingShifts ==
    ASSUME NEW B \in Nat, B > 0, NEW s \in 0..(B - 1), NEW a \in 0..(B - 1),
           a = IF s + 1 < B THEN s + 1 ELSE s + 1 - B, NEW j \in 1..(B - 1)
    PROVE  /\ (s + (j + 1) - 1) % B \in 0..(B - 1) /\ (s + (j + 1) - 1) % B # s
           /\ (a + j - 1) % B = (s + (j + 1) - 1) % B
  <1>1. s + (j + 1) - 1 = s + j
    OBVIOUS
  <1>2. s + j \in Nat /\ s + j < 2 * B /\ a + j - 1 \in Nat /\ a + j - 1 < 2 * B
    OBVIOUS
  <1>3. Once(s + j, B) /\ Once(a + j - 1, B)
    BY <1>2, WrapsOnce DEF Once
  <1> DEFINE x == (s + j) % B
             y == (a + j - 1) % B
  <1>4. x = IF s + j < B THEN s + j ELSE s + j - B
    BY <1>3 DEF Once
  <1>5. y = IF a + j - 1 < B THEN a + j - 1 ELSE a + j - 1 - B
    BY <1>3 DEF Once
  <1> HIDE DEF x, y
  <1>6. x \in 0..(B - 1) /\ x # s
    BY <1>4
  <1>7. y = x
    <2>1. CASE s + 1 < B
      <3>1. a + j - 1 = s + j
        BY <2>1
      <3> QED
        BY ONLY <3>1, <1>4, <1>5
    <2>2. CASE ~(s + 1 < B)
      <3>1. a = 0 /\ s = B - 1
        BY <2>2
      <3>2. x = j - 1
        BY <1>4, <3>1
      <3>3. y = j - 1
        BY <1>5, <3>1
      <3> QED
        BY ONLY <3>2, <3>3
    <2> QED
      BY <2>1, <2>2
  <1> QED
    BY <1>1, <1>6, <1>7 DEF x, y

\* A write adds at the end, in the place of the oldest when there is no room.
LEMMA WriteIsQueue ==
    ASSUME NEW t, RingOK(t), NEW c \in Chars
    PROVE  RingOK(writeBuff(t, c)) /\ QueueStep(Ring(t), Ring(writeBuff(t, c)))
  <1> DEFINE u == writeBuff(t, c)
             B == BUFF_LENGTH
             s == t.start_index
             n == t.buff_size
             e == t.end_index
  <1>1. /\ u \in Terminal /\ t \in Terminal
        /\ u.buff = [t.buff EXCEPT ![e] = c]
        /\ u.end_index = (e + 1) % B
        /\ u.buff_size = IF n < B THEN n + 1 ELSE n
        /\ u.start_index = IF n < B THEN s ELSE (s + 1) % B
        /\ e = (s + n) % B
    BY WriteBuffFields DEF RingOK
  <1>2. /\ B \in Nat /\ B > 0 /\ s \in 0..(B - 1) /\ n \in 0..B /\ e \in 0..(B - 1)
        /\ t.buff \in [0..(B - 1) -> Chars]
    BY <1>1, KeyboardAssumption DEF Terminal
  <1>3. \A x \in Nat : x < 2 * B => Once(x, B)
    BY WrapsOnce
  <1>4. /\ Ring(t) \in Seq(Chars) /\ Len(Ring(t)) = n
        /\ \A j \in 1..n : Ring(t)[j] = t.buff[(s + j - 1) % B]
    BY <1>1, RingIs
  <1>5. /\ Ring(u) \in Seq(Chars) /\ Len(Ring(u)) = u.buff_size
        /\ \A j \in 1..u.buff_size : Ring(u)[j] = u.buff[(u.start_index + j - 1) % B]
    BY <1>1, RingIs
  <1>6. \A i \in 0..(B - 1) : i # e => u.buff[i] = t.buff[i]
    BY <1>1, <1>2
  <1> HIDE DEF u, B, s, n, e
  <1>7. CASE n < B
    <2>1. u.buff_size = n + 1 /\ u.start_index = s
      BY <1>1, <1>7
    <2>2. u.end_index = (u.start_index + u.buff_size) % B
      <3>1. s + n \in Nat /\ s + n < 2 * B /\ s + n + 1 \in Nat /\ s + n + 1 < 2 * B /\ e + 1 \in Nat /\ e + 1 < 2 * B
        BY <1>2, <1>7
      <3>2. Once(s + n, B)
        BY ONLY <3>1, <1>3, Zenon
      <3>3. Once(e + 1, B)
        BY ONLY <3>1, <1>3, Zenon
      <3>4. Once(s + n + 1, B)
        BY ONLY <3>1, <1>3, Zenon
      <3>5. u.end_index = (s + n + 1) % B
        BY ONLY <3>2, <3>3, <3>4, <1>1, <1>2, <1>7 DEF Once
      <3> QED
        BY <3>5, <2>1, <1>2
    <2>3. \A j \in 1..(Len(Ring(u)) - 1) : Ring(u)[j] = Ring(t)[j + 0]
      <3> TAKE j \in 1..(Len(Ring(u)) - 1)
      <3>1. j \in 1..n /\ j \in 1..u.buff_size
        BY <1>2, <1>5, <2>1
      <3> DEFINE i == (s + j - 1) % B
      <3>2. i \in 0..(B - 1) /\ i # e
        <4>1. s + j - 1 \in Nat /\ s + j - 1 < 2 * B /\ s + n \in Nat /\ s + n < 2 * B
          BY <3>1, <1>2, <1>7
        <4>2. Once(s + n, B)
          BY ONLY <4>1, <1>3, Zenon
        <4>3. Once(s + j - 1, B)
          BY ONLY <4>1, <1>3, Zenon
        <4> QED
          BY ONLY <4>2, <4>3, <3>1, <1>1, <1>2, <1>7 DEF Once
      <3>3. Ring(u)[j] = u.buff[i] /\ Ring(t)[j] = t.buff[i]
        BY <3>1, <1>4, <1>5, <2>1
      <3>4. j + 0 = j
        BY <3>1, <1>2
      <3> QED
        BY <3>2, <3>3, <3>4, <1>6
    <2>4. Len(Ring(u)) = n + 1 /\ n + 1 = Smaller(n + 1, B) /\ n \in Nat
      BY <1>2, <1>5, <1>7, <2>1 DEF Smaller
    <2>5. QueueStep(Ring(t), Ring(u))
      <3>1. 0 \in 0..1 /\ Len(Ring(u)) = Len(Ring(t)) + 1 - 0 /\ Len(Ring(u)) > 0
        BY <2>4, <1>4
      <3>2. Len(Ring(u)) = Smaller(Len(Ring(t)) + 1, BUFF_LENGTH)
        BY <2>4, <1>4 DEF B
      <3> QED
        BY <3>1, <3>2, <2>3, <1>4, <1>5, AddsLast
    <2> QED
      BY <2>2, <2>5, <1>1 DEF RingOK, u, B
  <1>8. CASE ~(n < B)
    <2>1. u.buff_size = B /\ n = B /\ u.start_index = (s + 1) % B
      BY <1>1, <1>2, <1>8
    <2>2. e = s
      <3>1. s + B \in Nat /\ s + B < 2 * B
        BY <1>2
      <3>2. Once(s + B, B)
        BY ONLY <3>1, <1>3, Zenon
      <3>3. e = (s + B) % B
        BY ONLY <1>1, <2>1
      <3>4. s \in Int /\ B \in Int /\ ~(s + B < B) /\ s + B - B = s
        BY ONLY <1>2
      <3>5. (s + B) % B = s + B - B
        BY ONLY <3>2, <3>4 DEF Once
      <3> QED
        BY ONLY <3>3, <3>4, <3>5
    <2>3. u.start_index = IF s + 1 < B THEN s + 1 ELSE s + 1 - B
      <3>1. s + 1 \in Nat /\ s + 1 < 2 * B
        BY <1>2
      <3>2. Once(s + 1, B)
        BY ONLY <3>1, <1>3, Zenon
      <3> QED
        BY ONLY <3>2, <2>1, <1>2 DEF Once
    <2>4. u.end_index = (u.start_index + u.buff_size) % B
      <3>1. u.start_index \in 0..(B - 1)
        BY <2>3, <1>2
      <3>2. u.start_index + B \in Nat /\ u.start_index + B < 2 * B
        BY <3>1, <1>2
      <3>3. Once(u.start_index + B, B)
        BY ONLY <3>2, <1>3, Zenon
      <3>4. (u.start_index + B) % B = u.start_index
        BY ONLY <3>1, <3>3, <1>2 DEF Once
      <3> QED
        BY <3>4, <2>1, <2>2, <1>1
    <2>5. \A j \in 1..(Len(Ring(u)) - 1) : Ring(u)[j] = Ring(t)[j + 1]
      <3> TAKE j \in 1..(Len(Ring(u)) - 1)
      <3>1. j \in 1..(B - 1) /\ j + 1 \in 1..n /\ j \in 1..u.buff_size
        BY <1>2, <1>5, <2>1
      <3> DEFINE i == (s + (j + 1) - 1) % B
                 k == (u.start_index + j - 1) % B
      <3>2. i \in 0..(B - 1) /\ i # e /\ k = i
        <4>1. u.start_index \in 0..(B - 1)
          BY ONLY <1>2, <2>3
        <4>2. B \in Nat /\ B > 0 /\ s \in 0..(B - 1) /\ j \in 1..(B - 1) /\ e = s
          BY ONLY <1>2, <2>2, <3>1
        <4> QED
          BY ONLY <4>1, <4>2, <2>3, RingShifts
      <3>3. Ring(u)[j] = u.buff[k] /\ Ring(t)[j + 1] = t.buff[i]
        BY <3>1, <1>4, <1>5
      <3> QED
        BY <3>2, <3>3, <1>6
    <2>6. Len(Ring(u)) = n /\ n = Smaller(n + 1, B) /\ n \in Nat /\ n > 0
      BY <1>2, <1>5, <2>1 DEF Smaller
    <2>7. QueueStep(Ring(t), Ring(u))
      <3>1. 1 \in 0..1 /\ Len(Ring(u)) = Len(Ring(t)) + 1 - 1 /\ Len(Ring(u)) > 0
        BY <2>6, <1>4
      <3>2. Len(Ring(u)) = Smaller(Len(Ring(t)) + 1, BUFF_LENGTH)
        BY <2>6, <1>4 DEF B
      <3> QED
        BY <3>1, <3>2, <2>5, <1>4, <1>5, AddsLast
    <2> QED
      BY <2>4, <2>7, <1>1 DEF RingOK, u, B
  <1> QED
    BY <1>7, <1>8

\* A read takes the first characters.
LEMMA ReadIsQueue ==
    ASSUME NEW t, RingOK(t), NEW count \in Nat
    PROVE  RingOK(readKeyBuff(t, count)) /\ QueueStep(Ring(t), Ring(readKeyBuff(t, count)))
  <1> DEFINE u == readKeyBuff(t, count)
             B == BUFF_LENGTH
             s == t.start_index
             n == t.buff_size
             k == taken(t, count)
  <1>1. t \in Terminal /\ u \in Terminal /\ k \in 0..n /\ t.end_index = (s + n) % B
    BY ReadKeyBuffType, TakenFits DEF RingOK
  <1>2. /\ u.buff = t.buff /\ u.end_index = t.end_index
        /\ u.buff_size = n - k /\ u.start_index = (s + k) % B
    BY <1>1 DEF readKeyBuff, Terminal
  <1>3. /\ B \in Nat /\ B > 0 /\ s \in 0..(B - 1) /\ n \in 0..B
    BY <1>1, KeyboardAssumption DEF Terminal
  <1>4. \A x \in Nat : x < 2 * B => Once(x, B)
    BY WrapsOnce
  <1>5. /\ Ring(t) \in Seq(Chars) /\ Len(Ring(t)) = n
        /\ \A j \in 1..n : Ring(t)[j] = t.buff[(s + j - 1) % B]
    BY <1>1, RingIs
  <1>6. /\ Ring(u) \in Seq(Chars) /\ Len(Ring(u)) = u.buff_size
        /\ \A j \in 1..u.buff_size : Ring(u)[j] = u.buff[(u.start_index + j - 1) % B]
    BY <1>1, RingIs
  <1> HIDE DEF u, B, s, n, k
  <1>7. u.start_index = IF s + k < B THEN s + k ELSE s + k - B
    <2>1. s + k \in Nat /\ s + k < 2 * B
      BY <1>1, <1>3
    <2>2. Once(s + k, B)
      BY ONLY <2>1, <1>4, Zenon
    <2> QED
      BY ONLY <2>2, <1>1, <1>2, <1>3 DEF Once
  <1>8. u.end_index = (u.start_index + u.buff_size) % B
    <2>1. /\ s + n \in Nat /\ s + n < 2 * B
          /\ u.start_index + (n - k) \in Nat /\ u.start_index + (n - k) < 2 * B
      BY <1>1, <1>3, <1>7
    <2>2. Once(s + n, B)
      BY ONLY <2>1, <1>4, Zenon
    <2>3. Once(u.start_index + (n - k), B)
      BY ONLY <2>1, <1>4, Zenon
    <2>4. (s + n) % B = (u.start_index + (n - k)) % B
      BY ONLY <2>2, <2>3, <1>1, <1>3, <1>7 DEF Once
    <2> QED
      BY <2>4, <1>1, <1>2
  <1>9. \A j \in 1..Len(Ring(u)) : Ring(u)[j] = Ring(t)[k + j]
    <2> TAKE j \in 1..Len(Ring(u))
    <2>1. j \in 1..u.buff_size /\ j \in 1..(n - k) /\ k + j \in 1..n
      BY <1>1, <1>2, <1>3, <1>6
    <2> DEFINE i == (s + (k + j) - 1) % B
               l == (u.start_index + j - 1) % B
    <2>2. i = l
      <3>1. /\ s + (k + j) - 1 \in Nat /\ s + (k + j) - 1 < 2 * B
            /\ u.start_index + j - 1 \in Nat /\ u.start_index + j - 1 < 2 * B
        BY <2>1, <1>1, <1>3, <1>7
      <3>2. Once(s + (k + j) - 1, B)
        BY ONLY <3>1, <1>4, Zenon
      <3>3. Once(u.start_index + j - 1, B)
        BY ONLY <3>1, <1>4, Zenon
      <3> QED
        BY ONLY <3>2, <3>3, <2>1, <1>1, <1>3, <1>7 DEF Once
    <2>3. Ring(u)[j] = u.buff[l] /\ Ring(t)[k + j] = t.buff[i]
      BY <2>1, <1>5, <1>6
    <2> QED
      BY <2>2, <2>3, <1>2
  <1>10. QueueStep(Ring(t), Ring(u))
    <2>1. k \in Nat /\ Len(Ring(u)) = Len(Ring(t)) - k
      BY <1>1, <1>2, <1>3, <1>5, <1>6
    <2> QED
      BY <2>1, <1>5, <1>6, <1>9, DropsFirst
  <1> QED
    BY <1>1, <1>8, <1>10 DEF RingOK, u, B

\* What does not touch the ring buffer leaves the queue alone.
SameRing(t, u) ==
    /\ u \in Terminal
    /\ u.buff = t.buff /\ u.buff_size = t.buff_size
    /\ u.start_index = t.start_index /\ u.end_index = t.end_index

\* A step that leaves the ring alone is a queue step.
LEMMA SameIsQueue ==
    ASSUME NEW t, RingOK(t), NEW u, SameRing(t, u)
    PROVE  RingOK(u) /\ Ring(u) = Ring(t) /\ QueueStep(Ring(t), Ring(u))
  <1>1. RingOK(u) /\ Ring(u) = Ring(t)
    BY DEF SameRing, RingOK, Ring
  <1>2. Ring(t) \in Seq(Chars) /\ Len(Ring(t)) \in Nat
    BY RingIs DEF RingOK
  <1>3. QueueStep(Ring(t), Ring(u))
    <2>1. \A j \in 1..Len(Ring(u)) : Ring(u)[j] = Ring(t)[0 + j]
      BY <1>1, <1>2
    <2>2. Len(Ring(u)) = Len(Ring(t)) - 0
      BY <1>1, <1>2
    <2> QED
      BY <2>1, <2>2, <1>1, <1>2, DropsFirst
  <1> QED
    BY <1>1, <1>3

\* What a wake-up, an edit of the line, or a change of mode leaves alone.
LEMMA WakeSame ==
    ASSUME NEW t \in Terminal
    PROVE  SameRing(t, wake(t))
  <1>1. wake(t) \in Terminal
    BY WakeType
  <1> QED
    BY <1>1 DEF SameRing, wake, Terminal

\* The line editor writes to the line, not to the ring.
LEMMA EditSame ==
    ASSUME NEW t \in Terminal, NEW c \in Chars
    PROVE  SameRing(t, edit_line(t, c))
  <1>1. edit_line(t, c) \in Terminal
    BY EditLineType
  <1> QED
    BY <1>1 DEF SameRing, edit_line, wake, Terminal

\* Waking the sleepers leaves alone a ring that the step before left alone.
LEMMA SameTwice ==
    ASSUME NEW t, NEW u, SameRing(t, u)
    PROVE  SameRing(t, wake(u))
  <1>1. SameRing(u, wake(u))
    BY WakeSame DEF SameRing
  <1> QED
    BY <1>1 DEF SameRing

\* A key writes one character or none.
LEMMA PressIsQueue ==
    ASSUME NEW t, RingOK(t), NEW m \in Modifiers, NEW s \in Scancodes
    PROVE  LET u == handlePressedKey(t, m, s)
           IN  RingOK(u) /\ QueueStep(Ring(t), Ring(u))
  <1> DEFINE u == handlePressedKey(t, m, s)
  <1>0. t \in Terminal
    BY DEF RingOK
  <1>1. CASE u = t
    <2>1. SameRing(t, t)
      BY <1>0 DEF SameRing
    <2> QED
      BY <1>1, <2>1, SameIsQueue
  <1>2. CASE \E c \in Chars : u = wake(writeBuff(t, c))
    <2>1. PICK c \in Chars : u = wake(writeBuff(t, c))
      BY <1>2
    <2> DEFINE v == writeBuff(t, c)
    <2>2. RingOK(v) /\ QueueStep(Ring(t), Ring(v))
      BY WriteIsQueue
    <2> HIDE DEF v
    <2>3. SameRing(v, wake(v))
      BY <2>2, WakeSame DEF RingOK
    <2>4. RingOK(wake(v)) /\ Ring(wake(v)) = Ring(v)
      BY <2>2, <2>3, SameIsQueue
    <2> QED
      BY <2>1, <2>2, <2>4 DEF v
  <1>3. CASE SameRing(t, u)
    BY <1>3, SameIsQueue
  <1>4. u = t \/ (\E c \in Chars : u = wake(writeBuff(t, c))) \/ SameRing(t, u)
    <2>1. CASE s \notin Letters \/ Interrupts(m, s)
      BY <2>1 DEF handlePressedKey
    <2>2. CASE s \in Letters /\ ~Interrupts(m, s) /\ m.ctrl /\ s = D_KEY
      <3>1. u = press_eof(t)
        BY <2>2 DEF handlePressedKey
      <3>2. EOT \in Chars
        BY DEF Chars
      <3>3. CASE ~Edits(t)
        BY <3>1, <3>2, <3>3 DEF press_eof
      <3>4. CASE Edits(t)
        <4>1. SameRing(t, [t EXCEPT !.line_ready = TRUE]) /\ SameRing(t, [t EXCEPT !.eof = TRUE])
          BY <1>0 DEF SameRing, Terminal
        <4>2. u = wake([t EXCEPT !.line_ready = TRUE]) \/ u = wake([t EXCEPT !.eof = TRUE])
          BY <3>1, <3>4 DEF press_eof
        <4> QED
          BY <4>1, <4>2, SameTwice
      <3> QED
        BY <3>3, <3>4
    <2>3. CASE s \in Letters /\ ~Interrupts(m, s) /\ ~(m.ctrl /\ s = D_KEY)
      <3>1. u = press_char(t, char_of(m, s))
        BY <2>3 DEF handlePressedKey
      <3>2. char_of(m, s) \in Chars
        BY <2>3, CharOf
      <3> QED
        BY <3>1, <3>2, <1>0, EditSame DEF press_char
    <2> QED
      BY <2>1, <2>2, <2>3
  <1> QED
    BY <1>1, <1>2, <1>3, <1>4

\* A read takes from the ring buffer in raw mode only.
LEMMA TerminalReadIsQueue ==
    ASSUME NEW t, RingOK(t), NEW p \in Readers, NEW count \in ReadSizes, NEW fg \in BOOLEAN,
           NEW u, u = fd_read_terminal(t, p, count, fg).tty, u \in Terminal
    PROVE  RingOK(u) /\ QueueStep(Ring(t), Ring(u))
  <1>1. count \in Nat /\ t \in Terminal
    BY KeyboardAssumption DEF RingOK
  <1>2. u = readKeyBuff(t, count) \/ SameRing(t, u)
    <2>1. CASE ~fg
      BY <2>1, <1>1 DEF fd_read_terminal, Answer, SameRing
    <2>2. CASE fg /\ t.mode = TTY_COOKED
      <3>1. u = read_line(t, p, count).tty
        BY <2>2 DEF fd_read_terminal
      <3> DEFINE n == Smaller(count, Len(t.line))
      <3>2. \/ u = [t EXCEPT !.eof = FALSE] \/ u = [t EXCEPT !.waiting = p]
            \/ u = [t EXCEPT !.line = SubSeq(t.line, n + 1, Len(t.line))]
            \/ u = [t EXCEPT !.line = <<>>, !.line_ready = FALSE, !.eof = FALSE]
        BY <3>1 DEF read_line, Answer, Sleep
      <3> HIDE DEF n
      <3>3. u.buff = t.buff /\ u.buff_size = t.buff_size
            /\ u.start_index = t.start_index /\ u.end_index = t.end_index
        BY <3>2, <1>1 DEF Terminal
      <3> QED
        BY <3>3 DEF SameRing
    <2>3. CASE fg /\ t.mode # TTY_COOKED
      <3>1. u = read_raw(t, p, count).tty
        BY <2>3 DEF fd_read_terminal
      <3>2. u = [t EXCEPT !.waiting = p] \/ u = readKeyBuff(t, count)
        BY <3>1 DEF read_raw, Answer, Sleep
      <3>3. u = [t EXCEPT !.waiting = p] => SameRing(t, u)
        BY <1>1 DEF SameRing, Terminal
      <3> QED
        BY <3>2, <3>3
    <2> QED
      BY <2>1, <2>2, <2>3
  <1> QED
    BY <1>1, <1>2, ReadIsQueue, SameIsQueue

\* The invariant the order of the characters needs.
RingInv == IInv /\ RingOK(tty)

\* Every step keeps it and treats the ring as a queue.
LEMMA RingStep ==
    ASSUME RingInv, [KNext]_kbdVars
    PROVE  RingInv' /\ QueueStep(Ring(tty), Ring(tty'))
  <1>0. IInv' /\ tty \in Terminal /\ tty' \in Terminal /\ RingOK(tty) /\ mods \in Modifiers
    BY NextIInv DEF RingInv, IInv, LineOK
  <1>1. CASE \E s \in Scancodes : Press(s)
    BY <1>0, <1>1, PressIsQueue DEF Press, RingInv
  <1>2. CASE \E p \in Readers, count \in ReadSizes, fg \in BOOLEAN : Read(p, count, fg)
    BY <1>0, <1>2, TerminalReadIsQueue DEF Read, RingInv
  <1>3. CASE \E mode \in {TTY_RAW, TTY_COOKED} : SetMode(mode)
    <2>1. SameRing(tty, tty')
      BY <1>0, <1>3 DEF SetMode, tty_set_mode, SameRing, Terminal
    <2> QED
      BY <1>0, <2>1, SameIsQueue DEF RingInv
  <1>4. CASE \E p \in Readers : ClearWaiting(p)
    <2>1. SameRing(tty, tty')
      BY <1>0, <1>4, WakeSame DEF ClearWaiting, tty_clear_waiting, SameRing
    <2> QED
      BY <1>0, <2>1, SameIsQueue DEF RingInv
  <1>5. CASE UNCHANGED kbdVars
    <2>1. SameRing(tty, tty')
      BY <1>0, <1>5 DEF kbdVars, SameRing
    <2> QED
      BY <1>0, <2>1, SameIsQueue DEF RingInv
  <1> QED
    BY <1>1, <1>2, <1>3, <1>4, <1>5 DEF KNext

\* The ring buffer is a queue for every length, whatever is pressed and read:
\* writeBuff and readKeyBuff neither repeat nor reorder a character, also when
\* the indices wrap around and when a full buffer loses its oldest one.
THEOREM KeysStayInOrder == KSpec => KeysInOrder
  <1>1. KInit => RingInv
    <2> SUFFICES ASSUME KInit PROVE RingInv
      OBVIOUS
    <2>1. IInv
      BY InitIInv
    <2>2. tty.start_index = 0 /\ tty.end_index = 0 /\ tty.buff_size = 0
      BY DEF KInit
    <2>3. 0 % BUFF_LENGTH = 0
      BY KeyboardAssumption
    <2> QED
      BY <2>1, <2>2, <2>3 DEF RingInv, IInv, LineOK, RingOK
  <1>2. RingInv /\ [KNext]_kbdVars => RingInv'
    BY RingStep
  <1>3. RingInv /\ [KNext]_kbdVars =>
          [LET old == Ring(tty) new == Ring(tty')
               n == Len(old) m == Len(new)
           IN  \/ m <= n /\ new = SubSeq(old, n - m + 1, n)
               \/ /\ m = Smaller(n + 1, BUFF_LENGTH)
                  /\ SubSeq(new, 1, m - 1) = SubSeq(old, n - m + 2, n)]_kbdVars
    BY RingStep DEF QueueStep
  <1> QED
    BY <1>1, <1>2, <1>3, PTL DEF KSpec, KeysInOrder

-----------------------------------------------------------------------------
(***************************************************************************)
(* The session.                                                            *)
(***************************************************************************)


\* What the user has still to type are scancodes.
TypedOK == typed \in Seq(Scancodes)

\* The end of a process is a kbd_clear_waiting for the driver.
LEMMA DiesClears ==
    ASSUME NEW p \in Readers, Dies(p)
    PROVE  KNext
  BY DEF Dies, KNext, ClearWaiting

\* An answer of fd_read_terminal is a read.
LEMMA AnsweredReads ==
    ASSUME NEW p \in Readers, NEW count \in ReadSizes, NEW fg \in BOOLEAN,
           Answered(p, fd_read_terminal(tty, p, count, fg))
    PROVE  KNext
  BY DEF Answered, KNext, Read

\* A key is a key.
LEMMA KeyPresses ==
    ASSUME NEW s \in Scancodes, Key(s)
    PROVE  KNext
  BY DEF Key, KNext

\* The processes of the line may read the terminal, as much as they do.
LEMMA PidsAreReaders ==
    {Shell, Left, Right} \subseteq Readers /\ 1 \in ReadSizes /\ BUF_SIZE \in ReadSizes
    /\ D_KEY \in Scancodes
  BY ShellAssumption

\* What the shell does to the driver: a change of mode, or kill_left.
LEMMA ProcessLineStep ==
    ASSUME processLine
    PROVE  /\ KNext \/ UNCHANGED kbdVars
           /\ UNCHANGED typed
  <1>1. CASE cooked \/ raw
    BY <1>1, Zenon DEF cooked, raw, user, KNext
  <1>2. CASE kill_left
    BY <1>2, DiesClears, PidsAreReaders, Zenon DEF kill_left, user, kbdVars
  <1>3. CASE dispatch \/ create \/ wait
    BY <1>3, Zenon DEF dispatch, create, wait, user
  <1>4. CASE pipe \/ check \/ create_both \/ undo
    BY <1>4, Zenon DEF pipe, check, create_both, undo, user
  <1>5. CASE setup \/ close \/ unblock
    BY <1>5, Zenon DEF setup, close, unblock, user
  <1> QED
    BY <1>1, <1>2, <1>3, <1>4, <1>5 DEF processLine, handle_pipe

\* What filter does to the driver: a read, or its end.
LEMMA LeftStepStep ==
    ASSUME LeftStep
    PROVE  /\ KNext \/ UNCHANGED kbdVars
           /\ UNCHANGED typed
  <1>1. CASE filter_read
    <2> DEFINE answer(fg) == fd_read_terminal(tty, Left, BUF_SIZE, fg)
    <2>1. Answered(Left, answer(InForeground(Left))) /\ UNCHANGED typed
      BY <1>1 DEF filter_read, user
    <2>2. CASE InForeground(Left)
      <3>1. answer(InForeground(Left)) = answer(TRUE)
        BY <2>2 DEF fd_read_terminal
      <3> QED
        BY <2>1, <3>1, AnsweredReads, PidsAreReaders
    <2>3. CASE ~InForeground(Left)
      <3>1. answer(InForeground(Left)) = answer(FALSE)
        BY <2>3 DEF fd_read_terminal
      <3> QED
        BY <2>1, <3>1, AnsweredReads, PidsAreReaders
    <2> QED
      BY <2>2, <2>3
  <1>2. CASE filter_write
    BY <1>2 DEF filter_write, user
  <1>3. CASE exit(Left)
    BY <1>3, DiesClears, PidsAreReaders DEF exit, user
  <1> QED
    BY <1>1, <1>2, <1>3 DEF LeftStep

\* wc never reads the terminal; its end is told to the driver.
LEMMA RightStepStep ==
    ASSUME RightStep
    PROVE  /\ KNext \/ UNCHANGED kbdVars
           /\ UNCHANGED typed
  <1>1. CASE wc_read
    BY <1>1, Zenon DEF wc_read, user
  <1>2. CASE exit(Right)
    BY <1>2, DiesClears, PidsAreReaders DEF exit, user
  <1> QED
    BY <1>1, <1>2 DEF RightStep

\* Every step of the whole is a step of the driver, or none.
LEMMA EveryStep ==
    ASSUME TypedOK, [LNext]_allVars
    PROVE  [KNext]_kbdVars /\ TypedOK'
  <1>1. CASE processLine
    BY <1>1, ProcessLineStep DEF TypedOK
  <1>2. CASE shellReadLine
    <2>1. Answered(Shell, fd_read_terminal(tty, Shell, 1, TRUE)) /\ UNCHANGED typed
      BY <1>2 DEF shellReadLine, user
    <2> QED
      BY <2>1, AnsweredReads, PidsAreReaders DEF TypedOK
  <1>3. CASE LeftStep
    BY <1>3, LeftStepStep DEF TypedOK
  <1>4. CASE RightStep
    BY <1>4, RightStepStep DEF TypedOK
  <1>5. CASE type
    <2>1. Head(typed) \in Scancodes /\ Tail(typed) \in Seq(Scancodes)
      BY <1>5 DEF type, TypedOK
    <2> QED
      BY <1>5, <2>1, KeyPresses DEF type, TypedOK
  <1>6. CASE CtrlD
    BY <1>6, KeyPresses, PidsAreReaders DEF CtrlD, TypedOK
  <1>7. CASE CtrlC
    BY <1>7, DiesClears, PidsAreReaders
    DEF CtrlC, Interrupt, KillTargets, Killed, user, TypedOK
  <1>8. CASE \E p \in {Left, Right} : kill(p)
    BY <1>8, DiesClears, PidsAreReaders DEF kill, Killed, user, TypedOK
  <1>9. CASE UNCHANGED allVars
    BY <1>9 DEF allVars, kbdVars, user, TypedOK
  <1> QED
    BY <1>1, <1>2, <1>3, <1>4, <1>5, <1>6, <1>7, <1>8, <1>9 DEF LNext

\* The shell, its commands and the user implement the driver's specification:
\* no system call sequence of theirs is outside what Keyboard allows.
THEOREM ShellUsesKeyboard == LSpec => KSpec
  <1>1. LInit => KInit /\ TypedOK
    BY ShellAssumption DEF LInit, TypedOK
  <1>2. TypedOK /\ [LNext]_allVars => [KNext]_kbdVars /\ TypedOK'
    BY EveryStep
  <1> QED
    BY <1>1, <1>2, PTL DEF LSpec, KSpec

\* The line never overflows while the shell, its commands and the user are at
\* work.
THEOREM ShellLineFits == LSpec => []LineFits
  BY ShellUsesKeyboard, LineAlwaysFits, PTL

-----------------------------------------------------------------------------
(*****************************************************************************)
(* What filter keeps.                                                        *)
(*****************************************************************************)

\* One round of the loop of filter, and the loop up to byte n.
Round(out, b) == IF b \in Vowels THEN out ELSE Append(out, b)

\* g is the function that kept defines, up to byte n ...
IsLoop(g, s, n) ==
    g = [j \in 0..n |-> IF j = 0 THEN <<>> ELSE IF s[j] \in Vowels THEN g[j - 1]
                        ELSE Append(g[j - 1], s[j])]

\* ... and what it says, round by round.
Looped(g, s, n) ==
    /\ IsLoop(g, s, n) /\ DOMAIN g = 0..n /\ g[0] = <<>>
    /\ \A j \in 1..n : g[j] = Round(g[j - 1], s[j])
    /\ \A j \in 0..n : g[j] \in Seq(Bytes)

\* One round more.
LEMMA LoopFrom ==
    ASSUME NEW s \in Seq(Bytes), NEW n \in 1..Len(s), NEW g, Looped(g, s, n - 1)
    PROVE  \E h : Looped(h, s, n)
  <1> DEFINE h == [j \in 0..n |-> IF j < n THEN g[j] ELSE Round(g[n - 1], s[n])]
  <1>1. n \in Nat /\ n - 1 \in 0..(n - 1) /\ s[n] \in Bytes /\ 0 \in 0..(n - 1)
    OBVIOUS
  <1>2. g[n - 1] \in Seq(Bytes) /\ g[0] = <<>>
    BY <1>1 DEF Looped
  <1>3. Round(g[n - 1], s[n]) \in Seq(Bytes)
    BY <1>1, <1>2 DEF Round
  <1>4. \A j \in 0..(n - 1) : h[j] = g[j]
    BY <1>1
  <1>5. h[n] = Round(g[n - 1], s[n]) /\ h[0] = <<>> /\ DOMAIN h = 0..n
    BY <1>1, <1>2
  <1>6. ASSUME NEW j \in 1..n
        PROVE  h[j] = Round(h[j - 1], s[j])
    <2>1. h[j - 1] = g[j - 1]
      BY <1>1, <1>4
    <2>2. CASE j = n
      BY <1>5, <2>1, <2>2
    <2>3. CASE j # n
      <3>1. j \in 1..(n - 1) /\ j \in 0..(n - 1)
        BY <1>1, <2>3
      <3>2. g[j] = Round(g[j - 1], s[j])
        BY <3>1 DEF Looped
      <3> QED
        BY <1>4, <2>1, <3>1, <3>2
    <2> QED
      BY <2>2, <2>3
  <1>7. ASSUME NEW j \in 0..n
        PROVE  h[j] \in Seq(Bytes)
    <2>1. CASE j = n
      BY <1>3, <1>5, <2>1
    <2>2. CASE j # n
      <3>1. j \in 0..(n - 1)
        BY <1>1, <2>2
      <3> QED
        BY <1>4, <3>1 DEF Looped
    <2> QED
      BY <2>1, <2>2
  <1>8. h = [j \in 0..n |-> h[j]]
    OBVIOUS
  <1> HIDE DEF h
  <1>9. IsLoop(h, s, n)
    <2>1. \A j \in 0..n : h[j] = IF j = 0 THEN <<>> ELSE IF s[j] \in Vowels THEN h[j - 1]
                                 ELSE Append(h[j - 1], s[j])
      <3> SUFFICES ASSUME NEW j \in 0..n, j # 0
                   PROVE  h[j] = IF s[j] \in Vowels THEN h[j - 1] ELSE Append(h[j - 1], s[j])
        BY <1>5
      <3>1. j \in 1..n
        BY <1>1
      <3> QED
        BY <1>6, <3>1 DEF Round
    <2> QED
      BY <1>8, <2>1 DEF IsLoop
  <1> QED
    BY <1>5, <1>6, <1>7, <1>9 DEF Looped

\* The loop can be run over any bytes ...
LEMMA LoopExists ==
    ASSUME NEW s \in Seq(Bytes), NEW n \in 0..Len(s)
    PROVE  \E g : Looped(g, s, n)
  <1> DEFINE Bad == {m \in Nat : m <= Len(s) /\ ~\E g : Looped(g, s, m)}
  <1> SUFFICES ASSUME Bad # {}
               PROVE  FALSE
    OBVIOUS
  <1>1. PICK m \in Bad : \A l \in Bad : m <= l
    <2>1. Bad \in SUBSET Nat
      OBVIOUS
    <2> HIDE DEF Bad
    <2> QED
      BY <2>1, LeastNat
  <1>2. CASE m = 0
    <2> DEFINE g == [j \in 0..0 |-> <<>>]
    <2>1. 0..0 = {0} /\ 1..0 = {} /\ <<>> \in Seq(Bytes)
      OBVIOUS
    <2>2. g[0] = <<>> /\ DOMAIN g = 0..0 /\ \A j \in 0..0 : j = 0 /\ g[j] = <<>>
      BY <2>1
    <2>3. IsLoop(g, s, 0)
      BY <2>2 DEF IsLoop
    <2> HIDE DEF g
    <2>4. Looped(g, s, 0)
      BY <2>1, <2>2, <2>3 DEF Looped
    <2> QED
      BY <1>2, <2>4
  <1>3. CASE m # 0
    <2>1. m - 1 \in Nat /\ m - 1 <= Len(s) /\ ~(m <= m - 1) /\ m \in 1..Len(s)
      BY <1>3
    <2>2. PICK g : Looped(g, s, m - 1)
      BY <1>1, <2>1
    <2> QED
      BY <2>1, <2>2, LoopFrom
  <1> QED
    BY <1>2, <1>3

\* ... and has one result.
LEMMA LoopUnique ==
    ASSUME NEW s \in Seq(Bytes), NEW n \in 0..Len(s), NEW g, Looped(g, s, n),
           NEW h, IsLoop(h, s, n)
    PROVE  h = g
  <1>0. n \in Nat /\ 0 \in 0..n
    OBVIOUS
  <1>1. \A j \in 0..n : h[j] = IF j = 0 THEN <<>> ELSE IF s[j] \in Vowels THEN h[j - 1]
                               ELSE Append(h[j - 1], s[j])
    BY DEF IsLoop
  <1>2. h[0] = <<>> /\ \A j \in 1..n : h[j] = Round(h[j - 1], s[j])
    <2>1. h[0] = <<>>
      BY <1>0, <1>1
    <2>2. \A j \in 1..n : j \in 0..n /\ j # 0
      BY <1>0
    <2> QED
      BY <1>1, <2>1, <2>2 DEF Round
  <1> DEFINE Bad == {j \in 0..n : h[j] # g[j]}
  <1>3. Bad = {}
    <2> SUFFICES ASSUME Bad # {}
                 PROVE  FALSE
      OBVIOUS
    <2>1. PICK j \in Bad : \A l \in Bad : j <= l
      <3>1. Bad \in SUBSET Nat
        BY <1>0
      <3> HIDE DEF Bad
      <3> QED
        BY <3>1, LeastNat
    <2>2. j # 0
      BY <1>2 DEF Looped
    <2>3. j \in 1..n /\ j - 1 \in 0..n /\ ~(j <= j - 1)
      BY <1>0, <2>2
    <2>4. h[j - 1] = g[j - 1]
      BY <2>1, <2>3
    <2>5. h[j] = g[j]
      BY <1>2, <2>3, <2>4 DEF Looped
    <2> QED
      BY <2>5
  <1>4. g = [j \in 0..n |-> g[j]]
    BY DEF Looped, IsLoop
  <1>5. h = [j \in 0..n |-> h[j]]
    BY DEF IsLoop
  <1>6. \A j \in 0..n : h[j] = g[j]
    BY <1>3
  <1> QED
    BY <1>4, <1>5, <1>6

\* What filter keeps is what its loop has copied at the end.
LEMMA KeptIs ==
    ASSUME NEW s \in Seq(Bytes), NEW g, Looped(g, s, Len(s))
    PROVE  kept(s) = g[Len(s)]
  <1> DEFINE N == Len(s)
             out == CHOOSE h : h = [j \in 0..N |-> IF j = 0 THEN <<>>
                                        ELSE IF s[j] \in Vowels THEN h[j - 1]
                                        ELSE Append(h[j - 1], s[j])]
  <1>1. kept(s) = out[N]
    BY DEF kept
  <1>2. out = CHOOSE h : IsLoop(h, s, N)
    BY DEF IsLoop
  <1>3. IsLoop(g, s, N)
    BY DEF Looped
  <1> HIDE DEF out
  <1>4. IsLoop(out, s, N)
    BY <1>2, <1>3
  <1>5. out = g
    BY <1>4, LoopUnique
  <1> QED
    BY <1>1, <1>5

\* What it keeps are bytes.
LEMMA KeptType ==
    ASSUME NEW s \in Seq(Bytes)
    PROVE  kept(s) \in Seq(Bytes)
  <1>0. Len(s) \in 0..Len(s)
    OBVIOUS
  <1>1. PICK g : Looped(g, s, Len(s))
    BY <1>0, LoopExists
  <1> QED
    BY <1>0, <1>1, KeptIs DEF Looped

\* One byte more.
LEMMA KeptAppend ==
    ASSUME NEW s \in Seq(Bytes), NEW b \in Bytes
    PROVE  kept(Append(s, b)) = Round(kept(s), b)
  <1> DEFINE t == Append(s, b)
             n == Len(s)
  <1>1. t \in Seq(Bytes) /\ Len(t) = n + 1 /\ n \in Nat /\ t[n + 1] = b
        /\ \A j \in 1..n : t[j] = s[j]
    OBVIOUS
  <1> HIDE DEF t
  <1>2. PICK g : Looped(g, t, n + 1)
    <2>1. n + 1 \in 0..Len(t)
      BY <1>1
    <2> QED
      BY <1>1, <2>1, LoopExists
  <1>3. kept(t) = g[n + 1] /\ g[n + 1] = Round(g[n], b)
    <2>1. n + 1 \in 1..(n + 1) /\ (n + 1) - 1 = n
      BY <1>1
    <2>2. g[n + 1] = Round(g[(n + 1) - 1], t[n + 1])
      BY <1>2, <2>1 DEF Looped
    <2> QED
      BY <1>1, <1>2, <2>1, <2>2, KeptIs
  <1>4. PICK h : Looped(h, s, n)
    BY LoopExists
  <1> DEFINE Bad == {j \in 0..n : g[j] # h[j]}
  <1>5. Bad = {}
    <2> SUFFICES ASSUME Bad # {}
                 PROVE  FALSE
      OBVIOUS
    <2>1. PICK j \in Bad : \A l \in Bad : j <= l
      <3>1. Bad \in SUBSET Nat
        BY <1>1
      <3> HIDE DEF Bad
      <3> QED
        BY <3>1, LeastNat
    <2>2. j # 0
      BY <1>2, <1>4 DEF Looped
    <2>3. j \in 1..n /\ j \in 1..(n + 1) /\ j - 1 \in 0..n /\ ~(j <= j - 1)
      BY <1>1, <2>2
    <2>4. g[j - 1] = h[j - 1]
      BY <2>1, <2>3
    <2>5. g[j] = Round(g[j - 1], t[j]) /\ h[j] = Round(h[j - 1], s[j])
      BY <1>2, <1>4, <2>3 DEF Looped
    <2>6. g[j] = h[j]
      BY <1>1, <2>3, <2>4, <2>5
    <2> QED
      BY <2>6
  <1>6. g[n] = h[n] /\ kept(s) = h[n]
    <2>1. n \in 0..n
      BY <1>1
    <2> QED
      BY <1>4, <1>5, <2>1, KeptIs
  <1> QED
    BY <1>3, <1>6 DEF t

-----------------------------------------------------------------------------
(*****************************************************************************)
(* The calls, as the processes of a line see them.                           *)
(*****************************************************************************)

\* What a call does to the entry c of somebody else: nothing, or it is woken at
\* the pipe where it sleeps.
Woke(c, d) ==
    \/ d = c
    \/ /\ c.state = "BLOCKED" /\ c.at \in PipeIds \X Sides
       /\ d.state = "READY" /\ d.at = Nowhere /\ d.fd = c.fd /\ d.own = c.own

\* The same of everybody but p.
RestWoke(p) == \A q \in Pids \ {p} : Woke(process[q], process'[q])

\* In terms of what PipesProofs says.
LEMMA RoseWoke ==
    ASSUME NEW k \in Tables, Inv(k), NEW r, NEW q \in Pids, Rose(k, r, q)
    PROVE  Woke(k.procs[q], r.procs[q])
  <1>1. CASE r.procs[q] = k.procs[q]
    BY <1>1 DEF Woke
  <1>2. CASE /\ Sleeps(k, q) /\ r.procs[q].state = "READY" /\ r.procs[q].at = Nowhere
    <2>1. PICK i \in PipeIds, s \in Sides : q \in Elements(Line(k.pipes[i], s))
      BY <1>2 DEF Sleeps
    <2>2. Agree(k, {})
      BY DEF Inv, Fine
    <2>3. Asleep(k, q, i, s)
      BY <2>1, <2>2 DEF Agree
    <2> QED
      BY <1>2, <2>3 DEF Woke, Asleep, Rose
  <1> QED
    BY <1>1, <1>2 DEF Rose

\* Every pipe in use has an end that somebody holds.
AllClean(k) == \A i \in PipeIds : Clean(k.pipes[i])

\* What PipesProofs proves of the tables; and no slot is in use for nothing.
KernelOK == TypeOK /\ Inv(Kernel) /\ AllClean(Kernel)

\* The tables as one record, which PipesProofs is about.
LEMMA KernelIs ==
    ASSUME KernelOK
    PROVE  /\ Kernel \in Tables /\ Inv(Kernel) /\ AllClean(Kernel)
           /\ Kernel.procs = process /\ Kernel.fds = fd_table /\ Kernel.pipes = pipe_table
           /\ process \in [Pids -> PCB]
  BY KernelTyped DEF KernelOK, Kernel, TypeOK

\* Good tables are stored.
LEMMA StoreOK ==
    ASSUME NEW r \in Tables, Inv(r), AllClean(r), Store(r)
    PROVE  KernelOK' /\ process' = r.procs
  <1>1. r = [pipes |-> r.pipes, fds |-> r.fds, procs |-> r.procs]
    BY TableTypes
  <1>2. Kernel' = r
    BY <1>1 DEF Store, Kernel
  <1>3. TypeOK'
    BY DEF TypeOK, Store, Tables
  <1> QED
    BY <1>2, <1>3 DEF KernelOK, Store

\* A call that leaves the tables good.
LEMMA GoodStore ==
    ASSUME KernelOK, NEW r, Good(Kernel, r), Cleaner(Kernel, r), Store(r)
    PROVE  KernelOK' /\ process' = r.procs
  <1>1. r \in Tables /\ Inv(r)
    BY DEF Good
  <1>2. AllClean(r)
    BY KernelIs DEF AllClean, Cleaner
  <1> QED
    BY <1>1, <1>2, StoreOK

\* What a call does to p, and to the others.
LEMMA MovesRest ==
    ASSUME KernelOK, NEW r, process' = r.procs, NEW p \in Pids, NEW st, NEW own, NEW at,
           Moves(Kernel, r, p, st, own, at)
    PROVE  /\ RestWoke(p)
           /\ process'[p].state = st /\ process'[p].own = own /\ process'[p].at = at
  <1>1. Kernel \in Tables /\ Inv(Kernel) /\ Kernel.procs = process
    BY KernelIs
  <1>2. ASSUME NEW q \in Pids \ {p}
        PROVE  Woke(process[q], process'[q])
    <2>1. Rose(Kernel, r, q)
      BY DEF Moves
    <2>2. Woke(Kernel.procs[q], r.procs[q])
      BY <1>1, <2>1, RoseWoke
    <2> QED
      BY <1>1, <2>2
  <1> QED
    BY <1>2 DEF RestWoke, Moves

\* sys_close
LEMMA Closes ==
    ASSUME KernelOK, NEW p \in Pids, NEW f, sys_close(p, f)
    PROVE  /\ KernelOK' /\ RestWoke(p)
           /\ process'[p].state = process[p].state /\ process'[p].at = process[p].at
           /\ process'[p].own = process[p].own \ {f} /\ process'[p].fd = process[p].fd
  <1> DEFINE r == [fd_decref(Kernel, f) EXCEPT !.procs[p].own = @ \ {f}]
  <1>1. Kernel \in Tables /\ Inv(Kernel) /\ Kernel.procs = process
    BY KernelIs
  <1>2. Store(r) /\ f \in process[p].own /\ process[p].state = "READY"
    BY DEF sys_close, Runs
  <1>3. /\ Good(Kernel, r) /\ Cleaner(Kernel, r)
        /\ Moves(Kernel, r, p, process[p].state, process[p].own \ {f}, process[p].at)
        /\ r.procs[p].fd = process[p].fd
    BY <1>1, <1>2, CloseGood
  <1> HIDE DEF r
  <1>4. KernelOK' /\ process' = r.procs
    BY <1>2, <1>3, GoodStore
  <1> QED
    BY <1>3, <1>4, MovesRest

\* sys_pipe, when it has found both descriptors.
LEMMA Opens ==
    ASSUME KernelOK, NEW p \in Pids, sys_pipe_open(p, Anonymous), process[p].own = {},
           NEW a \in process'[p].own, NEW b \in process'[p].own, a # b
    PROVE  /\ KernelOK' /\ RestWoke(p)
           /\ process'[p].state = process[p].state /\ process'[p].at = process[p].at
           /\ process'[p].own = {a, b} /\ process'[p].fd = process[p].fd
  <1> DEFINE i == pipe_slot(Kernel, Anonymous)
             r == pipe_create_fds(pipe_open(Kernel, Anonymous), p, i)
  <1>1. Kernel \in Tables /\ Inv(Kernel) /\ Kernel.procs = process /\ AllClean(Kernel)
    BY KernelIs
  <1>2. Store(r) /\ process[p].state = "READY" /\ i # NULL
    BY DEF sys_pipe_open, Runs
  <1>3. Anonymous \in Names \cup {Anonymous}
    OBVIOUS
  <1>4. /\ Good(Kernel, r)
        /\ Moves(Kernel, r, p, process[p].state, r.procs[p].own, process[p].at)
        /\ r.procs[p].fd = process[p].fd
        /\ \E f, g : r.procs[p].own \subseteq process[p].own \cup {f, g}
        /\ r.procs[p].own # process[p].own =>
              \A j \in PipeIds : Clean(Kernel.pipes[j]) => Clean(r.pipes[j])
    BY <1>1, <1>2, <1>3, OpenGood
  <1> HIDE DEF r
  <1>5. process' = r.procs
    BY <1>2 DEF Store
  <1>6. r.procs[p].own = {a, b}
    <2>1. PICK f, g : r.procs[p].own \subseteq process[p].own \cup {f, g}
      BY <1>4
    <2>2. r.procs[p].own \subseteq {f, g} /\ a \in r.procs[p].own /\ b \in r.procs[p].own
      BY <1>5, <2>1
    <2> QED
      BY <2>2
  <1>7. AllClean(r)
    BY <1>1, <1>4, <1>6 DEF AllClean
  <1>8. KernelOK'
    BY <1>2, <1>4, <1>7, StoreOK DEF Good
  <1> QED
    BY <1>4, <1>5, <1>6, <1>8, MovesRest

\* sys_pipe_setup
LEMMA SetsUp ==
    ASSUME KernelOK, NEW p \in Pids, NEW child \in Pids, NEW f, NEW n \in 0..1,
           sys_pipe_setup(p, child, f, n)
    PROVE  /\ KernelOK' /\ RestWoke(child)
           /\ process'[child].state = process[child].state
           /\ process'[child].at = process[child].at
           /\ process'[child].own = process[child].own
           /\ process'[child].fd = [process[child].fd EXCEPT ![n] = f]
           /\ f \in Fds
  <1> DEFINE r == redirect(Kernel, child, f, n)
             z == <<f, p, 2>>
  <1>1. /\ Kernel \in Tables /\ Inv(Kernel) /\ Kernel.procs = process
        /\ Kernel.fds = fd_table
    BY KernelIs
  <1>2. /\ f \in process[p].own /\ fd_table[f].type \in Types
        /\ process[child].at = New /\ process[child].state # "FREE" /\ Store(r)
    BY DEF sys_pipe_setup, Fit, Types
  <1>3. f \in Fds
    BY <1>1, <1>2, TableTypes, PCBFields
  <1>4. z \in Refs(Kernel) /\ z[1] = f /\ z[3] = 2
    BY <1>1, <1>2, <1>3, InRefs
  <1> HIDE DEF z
  <1>5. z # <<process[child].fd[n], child, n>>
    BY <1>4
  <1>6. /\ Good(Kernel, r) /\ Cleaner(Kernel, r)
        /\ Moves(Kernel, r, child, process[child].state, process[child].own, process[child].at)
        /\ r.procs[child].fd = [process[child].fd EXCEPT ![n] = f]
    BY <1>1, <1>2, <1>3, <1>4, <1>5, RedirectGood
  <1> HIDE DEF r
  <1>7. KernelOK' /\ process' = r.procs
    BY <1>2, <1>6, GoodStore
  <1> QED
    BY <1>3, <1>6, <1>7, MovesRest

\* process_exit and process_kill.
LEMMA Buries ==
    ASSUME KernelOK, NEW p \in Pids, Die(p)
    PROVE  /\ KernelOK' /\ RestWoke(p)
           /\ process'[p].state = "FREE" /\ process'[p].at = Nowhere
           /\ process'[p].own = process[p].own
  <1> DEFINE r == [process_release_fds(pipe_cleanup_for_process(Kernel, p), p) EXCEPT
                      !.procs[p].state = "FREE", !.procs[p].at = Nowhere]
  <1>1. Kernel \in Tables /\ Inv(Kernel) /\ Kernel.procs = process
    BY KernelIs
  <1>2. Store(r)
    BY DEF Die
  <1>3. /\ Good(Kernel, r) /\ Cleaner(Kernel, r)
        /\ Moves(Kernel, r, p, "FREE", process[p].own, Nowhere)
    BY <1>1, DieGood, Zenon
  <1> HIDE DEF r
  <1>4. KernelOK' /\ process' = r.procs
    BY <1>2, <1>3, GoodStore
  <1> QED
    BY <1>3, <1>4, MovesRest

\* process_create of a blocked child.
LEMMA Creates ==
    ASSUME KernelOK, NEW p \in Pids, NEW child \in Pids, sys_create_process(p, child)
    PROVE  /\ KernelOK' /\ RestWoke(child)
           /\ process'[child].state = "BLOCKED" /\ process'[child].at = New
           /\ process'[child].own = process[child].own
           /\ process'[child].fd[0] = FD_STDIN /\ process'[child].fd[1] = FD_STDOUT
  <1> DEFINE r == process_create(Kernel, child)
  <1>1. Kernel \in Tables /\ Inv(Kernel) /\ Kernel.procs = process
    BY KernelIs
  <1>2. Store(r) /\ process[child].state = "FREE" /\ process[child].at = New
    BY DEF sys_create_process, Unborn
  <1>3. /\ Good(Kernel, r) /\ Cleaner(Kernel, r)
        /\ Moves(Kernel, r, child, "BLOCKED", process[child].own, New)
        /\ r.procs[child].fd[0] = FD_STDIN /\ r.procs[child].fd[1] = FD_STDOUT
    BY <1>1, <1>2, CreateGood
  <1> HIDE DEF r
  <1>4. KernelOK' /\ process' = r.procs
    BY <1>2, <1>3, GoodStore
  <1> QED
    BY <1>3, <1>4, MovesRest

\* A step that leaves the pipes and the descriptors alone, and changes only the
\* state of processes that sleep at no pipe.
LEMMA StatesOnly ==
    ASSUME KernelOK, UNCHANGED <<pipe_table, fd_table>>, process' \in [Pids -> PCB],
           \A q \in Pids : /\ process'[q].fd = process[q].fd /\ process'[q].own = process[q].own
                           /\ \/ process'[q] = process[q]
                              \/ /\ process[q].at \in {Nowhere, New} /\ process'[q].at = Nowhere
                                 /\ process'[q].state # "FREE"
    PROVE  KernelOK'
  <1> DEFINE r == [pipes |-> pipe_table', fds |-> fd_table', procs |-> process']
  <1>1. /\ Kernel \in Tables /\ Inv(Kernel) /\ AllClean(Kernel) /\ Kernel.procs = process
        /\ Kernel.fds = fd_table /\ Kernel.pipes = pipe_table
    BY KernelIs
  <1>2. /\ r \in Tables /\ r.pipes = Kernel.pipes /\ r.fds = Kernel.fds /\ r.procs = process'
        /\ Store(r)
    BY <1>1 DEF Tables, KernelOK, TypeOK, Store
  <1> HIDE DEF r
  <1>3. SameSleepers(Kernel, r)
    <2> SUFFICES ASSUME NEW q \in Pids, NEW i \in PipeIds, NEW s \in Sides
                 PROVE  Asleep(r, q, i, s) <=> Asleep(Kernel, q, i, s)
      BY DEF SameSleepers
    <2>1. \/ process'[q] = process[q]
          \/ process[q].at \in {Nowhere, New} /\ process'[q].at = Nowhere
      OBVIOUS
    <2>2. <<i, s>> # Nowhere /\ <<i, s>> # New
      BY ONLY i \in PipeIds, s \in Sides, PlacesIn
    <2> QED
      BY ONLY <1>1, <1>2, <2>1, <2>2 DEF Asleep
  <1>4. Refs(Kernel) \in SUBSET Marks /\ Fine(Kernel, Refs(Kernel), {}, {}) /\ Unopened(Kernel)
    BY <1>1, RefsIn DEF Inv
  <1>5. Fine(r, Refs(Kernel), {}, {}) /\ Cleaner(Kernel, r)
    BY <1>1, <1>2, <1>3, <1>4, ProcsFine
  <1>6. SameHolds(Kernel, r)
    BY <1>1, <1>2 DEF SameHolds
  <1>7. Refs(r) = Refs(Kernel)
    BY <1>6, SameRefs
  <1>8. Unopened(r)
    BY <1>1, <1>2, <1>4 DEF Unopened
  <1>9. Inv(r) /\ AllClean(r)
    BY <1>1, <1>5, <1>7, <1>8 DEF Inv, AllClean, Cleaner
  <1> QED
    BY <1>2, <1>9, StoreOK

\* sys_unblock of a child that has not started.
LEMMA Starts ==
    ASSUME KernelOK, NEW p \in Pids, Start(p)
    PROVE  /\ KernelOK' /\ RestWoke(p)
           /\ process'[p].state = "READY" /\ process'[p].at = Nowhere
           /\ process'[p].own = process[p].own /\ process'[p].fd = process[p].fd
  <1> DEFINE c == [process[p] EXCEPT !.state = "READY", !.at = Nowhere]
  <1>1. process \in [Pids -> PCB]
    BY KernelIs
  <1>2. /\ process[p].at = New /\ process' = [process EXCEPT ![p] = c]
        /\ UNCHANGED <<pipe_table, fd_table>>
    BY DEF Start
  <1>3. /\ c \in PCB /\ c.state = "READY" /\ c.at = Nowhere /\ c.own = process[p].own
        /\ c.fd = process[p].fd
    <2>1. process[p] \in PCB
      BY <1>1
    <2> QED
      BY <2>1, PlacesIn DEF PCB
  <1> HIDE DEF c
  <1>4. /\ process' \in [Pids -> PCB] /\ process'[p] = c
        /\ \A q \in Pids \ {p} : process'[q] = process[q]
    BY <1>1, <1>2, <1>3
  <1>5. KernelOK'
    BY <1>2, <1>3, <1>4, StatesOnly
  <1> QED
    BY <1>3, <1>4, <1>5 DEF RestWoke, Woke

\* process_create of a child that runs at once.
LEMMA CreatesReady ==
    ASSUME KernelOK, NEW p \in Pids, process[p].state = "FREE", process[p].at = New,
           \E k \in {process_create(Kernel, p)} :
               Store([k EXCEPT !.procs[p].state = "READY", !.procs[p].at = Nowhere])
    PROVE  /\ KernelOK' /\ RestWoke(p)
           /\ process'[p].state = "READY" /\ process'[p].at = Nowhere
           /\ process'[p].own = process[p].own
           /\ process'[p].fd[0] = FD_STDIN /\ process'[p].fd[1] = FD_STDOUT
  <1> DEFINE k == process_create(Kernel, p)
             c == [k.procs[p] EXCEPT !.state = "READY", !.at = Nowhere]
             r == [k EXCEPT !.procs[p] = c]
  <1>1. Kernel \in Tables /\ Inv(Kernel) /\ Kernel.procs = process /\ AllClean(Kernel)
    BY KernelIs
  <1>2. /\ Good(Kernel, k) /\ Cleaner(Kernel, k)
        /\ Moves(Kernel, k, p, "BLOCKED", process[p].own, New)
        /\ k.procs[p].fd[0] = FD_STDIN /\ k.procs[p].fd[1] = FD_STDOUT
    BY <1>1, CreateGood
  <1>3. Store([k EXCEPT !.procs[p].state = "READY", !.procs[p].at = Nowhere])
    OBVIOUS
  <1> HIDE DEF k
  <1>4. k \in Tables /\ Inv(k) /\ k.procs[p].state = "BLOCKED" /\ k.procs[p].at = New
        /\ k.procs[p].own = process[p].own /\ k.procs[p] \in PCB
    BY <1>2, TableTypes DEF Good, Moves
  <1>5. Store(r)
    BY <1>3, <1>4 DEF Tables
  <1>6. Good(k, r)
    BY <1>4, StartGood, Zenon
  <1>7. /\ c \in PCB /\ c.state = "READY" /\ c.at = Nowhere /\ c.own = process[p].own
        /\ c.fd = k.procs[p].fd
    BY <1>4, PlacesIn DEF PCB
  <1> HIDE DEF c
  <1>8. Becomes(k, r, p, c)
    BY <1>4, <1>7, SetProc
  <1> HIDE DEF r
  <1>9. /\ r \in Tables /\ r.pipes = k.pipes /\ r.procs[p] = c
        /\ \A q \in Pids \ {p} : r.procs[q] = k.procs[q]
    BY <1>8 DEF Becomes
  <1>10. AllClean(r)
    BY <1>1, <1>2, <1>9 DEF AllClean, Cleaner
  <1>11. KernelOK' /\ process' = r.procs
    BY <1>5, <1>6, <1>9, <1>10, StoreOK DEF Good
  <1>12. ASSUME NEW q \in Pids \ {p}
         PROVE  Woke(process[q], process'[q])
    <2>1. Rose(Kernel, k, q)
      BY <1>2 DEF Moves
    <2>2. Woke(Kernel.procs[q], k.procs[q])
      BY <1>1, <2>1, RoseWoke
    <2> QED
      BY <1>1, <1>9, <1>11, <2>2
  <1> QED
    BY <1>2, <1>7, <1>9, <1>11, <1>12 DEF RestWoke

\* What a read or a write does to process p, which runs.
Passes(p) ==
    /\ KernelOK' /\ RestWoke(p)
    /\ process'[p].fd = process[p].fd /\ process'[p].own = process[p].own
    /\ \/ process'[p] = process[p]
       \/ process'[p].state = "BLOCKED" /\ process'[p].at \in PipeIds \X Sides

\* In terms of what PipesProofs says.
LEMMA TransfersPasses ==
    ASSUME KernelOK, NEW p \in Pids, NEW r, Good(Kernel, r), Transfers(Kernel, r, p), Store(r)
    PROVE  Passes(p)
  <1>1. Kernel \in Tables /\ Inv(Kernel) /\ Kernel.procs = process
    BY KernelIs
  <1>2. KernelOK' /\ process' = r.procs
    BY GoodStore DEF Transfers
  <1>3. ASSUME NEW q \in Pids \ {p}
        PROVE  Woke(process[q], process'[q])
    <2>1. Rose(Kernel, r, q)
      BY DEF Transfers
    <2>2. Woke(Kernel.procs[q], r.procs[q])
      BY <1>1, <2>1, RoseWoke
    <2> QED
      BY <1>1, <1>2, <2>2
  <1> QED
    BY <1>1, <1>2, <1>3 DEF Transfers, Passes, RestWoke

\* A read of stdin, or a write to stdout, that is a pipe.
LEMMA ReadPasses ==
    ASSUME KernelOK, NEW p \in Pids, process[p].fd[0] # NULL, NEW n \in Nat,
           sys_read(p, process[p].fd[0], n)
    PROVE  Passes(p)
  <1> DEFINE f == process[p].fd[0]
             x == <<f, p, 0>>
             r == pipe_read(Kernel, p, Kernel.fds[f].data, n)
  <1>1. /\ Kernel \in Tables /\ Inv(Kernel) /\ Kernel.procs = process /\ Kernel.fds = fd_table
        /\ process \in [Pids -> PCB]
    BY KernelIs
  <1>2. process[p].state = "READY" /\ fd_table[f].type = "READ" /\ Store(r)
    BY <1>1 DEF sys_read, Runs
  <1>3. f \in Fds
    BY <1>1, PCBFields
  <1>4. x \in Refs(Kernel) /\ x[1] = f /\ x[2] = p
    BY <1>1, <1>3, InRefs
  <1> HIDE DEF x
  <1>5. Good(Kernel, r) /\ Transfers(Kernel, r, p)
    <2> HIDE DEF f
    <2> QED
      BY <1>1, <1>2, <1>3, <1>4, ReadGood
  <1> HIDE DEF r
  <1> QED
    BY <1>2, <1>5, TransfersPasses

\* The same of a write to stdout.
LEMMA WritePasses ==
    ASSUME KernelOK, NEW p \in Pids, process[p].fd[1] # NULL, NEW b \in Seq(Bytes),
           sys_write(p, process[p].fd[1], b)
    PROVE  Passes(p)
  <1> DEFINE f == process[p].fd[1]
             x == <<f, p, 1>>
             r == pipe_write(Kernel, p, Kernel.fds[f].data, b)
  <1>1. /\ Kernel \in Tables /\ Inv(Kernel) /\ Kernel.procs = process /\ Kernel.fds = fd_table
        /\ process \in [Pids -> PCB]
    BY KernelIs
  <1>2. process[p].state = "READY" /\ fd_table[f].type = "WRITE" /\ Store(r)
    BY <1>1 DEF sys_write, Runs
  <1>3. f \in Fds
    BY <1>1, PCBFields
  <1>4. x \in Refs(Kernel) /\ x[1] = f /\ x[2] = p
    BY <1>1, <1>3, InRefs
  <1> HIDE DEF x
  <1>5. Good(Kernel, r) /\ Transfers(Kernel, r, p)
    <2> HIDE DEF f
    <2> QED
      BY <1>1, <1>2, <1>3, <1>4, WriteGood
  <1> HIDE DEF r
  <1> QED
    BY <1>2, <1>5, TransfersPasses

-----------------------------------------------------------------------------
(*****************************************************************************)
(* The invariant.  NobodyForgotten is not inductive: that a key wakes the right *)
(* process follows from where the shell is in its line, which says whether its *)
(* children exist, have started and are gone, and so who can read the terminal. *)
(* That nothing is left open follows from which ends the shell still holds at *)
(* each place, and from the counts of PipesProofs.                           *)
(*****************************************************************************)

\* A child before process_create, before the shell lets it start, and after its
\* end; and whoever sleeps in a read of the terminal.
NotBorn(c) == c.state = "FREE" /\ c.at = New
NotStarted(c) == c.state = "FREE" \/ (c.state = "BLOCKED" /\ c.at = New)
Gone(c) == c.state = "FREE"
AtTerminal(c) == c.state = "BLOCKED" /\ c.at = Nowhere

\* The places of the shell in any line, and in one with a pipe.
ShellPcs == {"line", "cooked", "create", "wait left", "raw", "prompt"}

PipePcs == {"pipe", "check", "create left", "create right", "kill left", "undo read",
            "undo write", "setup left", "setup right", "close read", "close write",
            "unblock left", "unblock right", "wait right"}

\* Before the first child ...
Early == {"line", "create", "pipe", "check", "create left"}

\* ... and between the creation of a pipe's children and their start.
Between == {"setup left", "setup right", "close read", "close write", "cooked", "unblock left"}

\* What the place of the shell in line l says of its children cl and cr.
WhereOK(s, l, cl, cr) ==
    /\ s \in ShellPcs \cup PipePcs
    /\ s \in PipePcs => l.pipe
    /\ s = "create" => ~l.pipe
    /\ s \in {"cooked", "wait left", "wait right", "raw"} => ~l.bg
    /\ s \in Early \/ (s = "cooked" /\ ~l.pipe) => NotBorn(cl)
    /\ s \in Early \cup {"create right", "kill left"} \/ ~l.pipe => NotBorn(cr)
    /\ s \in {"undo read", "undo write", "wait right", "raw"} => Gone(cl)
    /\ s \in {"undo read", "undo write", "raw"} => Gone(cr)
    /\ s \in Between \cup {"create right", "kill left"} => NotStarted(cl)
    /\ s \in Between \cup {"unblock right"} => NotStarted(cr)
    /\ (s = "prompt" /\ ~(l.pipe /\ l.bg)) => Gone(cr) /\ (Gone(cl) \/ ~(l.pipe \/ ~l.bg))
    /\ (~l.pipe /\ l.bg) => ~AtTerminal(cl)

\* The ends of the pipe that the shell has not closed yet.
Both == {"check", "create left", "create right", "kill left", "undo read", "setup left",
         "setup right", "close read"}
One == {"undo write", "close write"}

\* The shell: it sleeps only at its prompt, uses the terminal, and holds the ends
\* that its place says.
ShellOK(s, c, f) ==
    /\ c.at = Nowhere /\ c.state \in {"READY", "BLOCKED"}
    /\ c.state = "BLOCKED" => s = "prompt"
    /\ c.fd[0] = FD_STDIN /\ c.fd[1] = FD_STDOUT
    /\ s \in Both => c.own = {f[1], f[2]} /\ f[1] # f[2]
    /\ s \in One => c.own = {f[2]}
    /\ s \notin Both \cup One => c.own = {}

\* A command holds nothing but its stdin and stdout.
ChildOK(c) ==
    /\ c.own = {}
    /\ c.state = "READY" => c.at = Nowhere
    /\ c.state # "FREE" => c.fd[0] # NULL /\ c.fd[1] # NULL

\* wc never reads the terminal.
RightOK(c) == ChildOK(c) /\ ~AtTerminal(c)

\* Nothing in the driver for its reader.
NeedsInput(t) ==
    IF t.mode = TTY_COOKED THEN ~t.line_ready /\ ~t.eof ELSE t.buff_size = 0

\* The driver's pointer is to a sleeper, and, unless two read the terminal, to
\* the only one.
TtyOK(t, l, procs) ==
    /\ \A p \in Pids : t.waiting = p => AtTerminal(procs[p])
    /\ ~(l.pipe /\ l.bg) =>
          /\ \A p \in Pids : AtTerminal(procs[p]) => t.waiting = p
          /\ t.waiting # Nobody => NeedsInput(t)

\* What of the processes and the terminal a step of the line must keep.
PipelineOK ==
    /\ DOMAIN pc = Pids /\ buf \in Seq(Bytes)
    /\ WhereOK(pc[Shell], line, process[Left], process[Right])
    /\ ShellOK(pc[Shell], process[Shell], fds)
    /\ ChildOK(process[Left]) /\ RightOK(process[Right])
    /\ TtyOK(tty, line, process)

\* The shell and its two children are the processes.
LEMMA ThreePids ==
    /\ Shell \in Pids /\ Left \in Pids /\ Right \in Pids
    /\ Shell # Left /\ Shell # Right /\ Left # Right
    /\ \A p \in Pids : p = Shell \/ p = Left \/ p = Right
    /\ Readers = Pids /\ Nobody \notin Pids
  BY ShellAssumption, KeyboardAssumption

\* Whoever is woken slept at a pipe.
LEMMA WokeIs ==
    ASSUME NEW c, NEW d, Woke(c, d)
    PROVE  /\ c.at \in {Nowhere, New} \/ c.state # "BLOCKED" => d = c
           /\ AtTerminal(d) <=> AtTerminal(c)
           /\ ChildOK(c) => ChildOK(d)
           /\ RightOK(c) => RightOK(d)
  <1>1. CASE d = c
    BY <1>1
  <1>2. CASE d # c
    <2>1. /\ c.state = "BLOCKED" /\ c.at \in PipeIds \X Sides
          /\ d.state = "READY" /\ d.at = Nowhere /\ d.fd = c.fd /\ d.own = c.own
      BY <1>2 DEF Woke
    <2>2. c.at # Nowhere /\ c.at # New
      BY <2>1, PlacesIn
    <2> QED
      BY <2>1, <2>2 DEF AtTerminal, ChildOK, RightOK
  <1> QED
    BY <1>1, <1>2

\* Who is woken at a pipe has started.
LEMMA WokeWhere ==
    ASSUME NEW s, NEW l, NEW cl, NEW cr, NEW dl, NEW dr, WhereOK(s, l, cl, cr),
           Woke(cl, dl), Woke(cr, dr)
    PROVE  WhereOK(s, l, dl, dr)
  <1>1. /\ NotBorn(cl) \/ NotStarted(cl) \/ Gone(cl) => dl = cl
        /\ NotBorn(cr) \/ NotStarted(cr) \/ Gone(cr) => dr = cr
        /\ AtTerminal(dl) <=> AtTerminal(cl)
    BY WokeIs DEF NotBorn, NotStarted, Gone
  <1> QED
    BY <1>1, Zenon DEF WhereOK

\* Nothing happens to most processes.
LEMMA SelfWoke ==
    ASSUME NEW c
    PROVE  Woke(c, c)
  BY DEF Woke

\* The terminal sees the same sleepers.
LEMMA TtySame ==
    ASSUME NEW t, NEW l, NEW A, NEW B, TtyOK(t, l, A),
           \A p \in Pids : AtTerminal(B[p]) <=> AtTerminal(A[p])
    PROVE  TtyOK(t, l, B)
  BY DEF TtyOK

-----------------------------------------------------------------------------
(*****************************************************************************)
(* The terminal.                                                             *)
(*****************************************************************************)

\* A read of the terminal by p, from t: it sleeps when there is nothing for it,
\* and never in the background; otherwise the pointer stays.
Reads(t, p, fg, a) ==
    /\ a.sleeps \in BOOLEAN
    /\ a.sleeps => fg /\ a.tty.waiting = p /\ NeedsInput(a.tty)
    /\ ~a.sleeps => a.tty.waiting = t.waiting
    /\ ~fg => a.tty = t
    /\ a.bytes \in Seq(Chars)

\* It sleeps ...
LEMMA SleepReads ==
    ASSUME NEW t \in Terminal, NEW p, NeedsInput(t), NEW a, a = Sleep(t, p)
    PROVE  Reads(t, p, TRUE, a)
  <1>1. /\ a.sleeps = TRUE /\ a.tty = [t EXCEPT !.waiting = p] /\ a.bytes = <<>>
    BY DEF Sleep
  <1>2. /\ a.tty.waiting = p /\ a.tty.mode = t.mode /\ a.tty.line_ready = t.line_ready
        /\ a.tty.eof = t.eof /\ a.tty.buff_size = t.buff_size
    BY <1>1 DEF Terminal
  <1>3. NeedsInput(a.tty)
    BY <1>2 DEF NeedsInput
  <1>4. <<>> \in Seq(Chars)
    OBVIOUS
  <1> QED
    BY <1>1, <1>2, <1>3, <1>4 DEF Reads

\* ... or it returns.
LEMMA AnswerReads ==
    ASSUME NEW t, NEW p, NEW u, u.waiting = t.waiting, NEW bytes \in Seq(Chars),
           NEW a, a = Answer(u, bytes), NEW fg, fg \/ u = t
    PROVE  Reads(t, p, fg, a)
  <1>1. a.sleeps = FALSE /\ a.tty = u /\ a.bytes = bytes
    BY DEF Answer
  <1> QED
    BY <1>1 DEF Reads

\* Cooked mode.
LEMMA LineReads ==
    ASSUME NEW t \in Terminal, t.mode = TTY_COOKED, NEW p, NEW count \in Nat
    PROVE  Reads(t, p, TRUE, read_line(t, p, count))
  <1> DEFINE n == Smaller(count, Len(t.line))
             a == read_line(t, p, count)
             u == [t EXCEPT !.eof = FALSE]
             v == [t EXCEPT !.line = SubSeq(t.line, n + 1, Len(t.line))]
             w == [t EXCEPT !.line = <<>>, !.line_ready = FALSE, !.eof = FALSE]
  <1>1. t.line \in Seq(Chars) /\ Len(t.line) \in Nat /\ <<>> \in Seq(Chars)
    BY DEF Terminal
  <1>2. n \in Nat /\ n <= Len(t.line)
    BY <1>1, SmallerIs
  <1>3. u.waiting = t.waiting /\ v.waiting = t.waiting /\ w.waiting = t.waiting
    BY DEF Terminal
  <1>4. \/ a = Answer(u, <<>>)
        \/ NeedsInput(t) /\ a = Sleep(t, p)
        \/ a = Answer(v, SubSeq(t.line, 1, n))
        \/ a = Answer(w, t.line)
    BY DEF read_line, NeedsInput
  <1> SUFFICES Reads(t, p, TRUE, a)
    OBVIOUS
  <1> HIDE DEF a, n, u, v, w
  <1>5. SubSeq(t.line, 1, n) \in Seq(Chars)
    BY <1>1, <1>2
  <1> DEFINE sub == SubSeq(t.line, 1, n)
  <1> HIDE DEF sub
  <1>6. CASE a = Answer(u, <<>>)
    BY <1>1, <1>3, <1>6, AnswerReads
  <1>7. CASE NeedsInput(t) /\ a = Sleep(t, p)
    BY <1>7, SleepReads
  <1>8. CASE a = Answer(v, SubSeq(t.line, 1, n))
    <2>1. a = Answer(v, sub) /\ sub \in Seq(Chars)
      BY <1>5, <1>8 DEF sub
    <2> QED
      BY <1>3, <2>1, AnswerReads
  <1>9. CASE a = Answer(w, t.line)
    BY <1>1, <1>3, <1>9, AnswerReads
  <1> QED
    BY <1>4, <1>6, <1>7, <1>8, <1>9

\* Raw mode: readKeyBuff takes nothing only when there is nothing.
LEMMA RawReads ==
    ASSUME NEW t \in Terminal, t.mode # TTY_COOKED, NEW p, NEW count \in Nat \ {0}
    PROVE  Reads(t, p, TRUE, read_raw(t, p, count))
  <1> DEFINE m == taken(t, count)
             bytes == SubSeq(Ring(t), 1, m)
             u == readKeyBuff(t, count)
             a == read_raw(t, p, count)
  <1>1. Ring(t) \in Seq(Chars) /\ Len(Ring(t)) = t.buff_size /\ t.buff_size \in Nat
    BY RingIs
  <1>2. m \in 0..t.buff_size
    BY TakenFits
  <1>3. t.buff_size # 0 => m # 0
    <2> SUFFICES ASSUME t.buff_size # 0
                 PROVE  m # 0
      OBVIOUS
    <2>1. (t.buff_size + 1) \div 2 >= 1 /\ (t.buff_size + 1) \div 2 \in Nat
      BY <1>1
    <2> QED
      BY <2>1 DEF taken, Smaller
  <1>4. u.waiting = t.waiting
    BY DEF readKeyBuff, Terminal
  <1>5. a = IF bytes = <<>> THEN Sleep(t, p)
            ELSE Answer(u, IF Head(bytes) = EOT THEN <<>> ELSE bytes)
    BY DEF read_raw
  <1> HIDE DEF m, u, a
  <1>6. bytes \in Seq(Chars) /\ Len(bytes) = m
    BY <1>1, <1>2
  <1> HIDE DEF bytes
  <1>7. CASE bytes = <<>>
    <2>1. m = 0
      BY <1>6, <1>7
    <2>2. NeedsInput(t)
      BY <1>3, <2>1 DEF NeedsInput
    <2> QED
      BY <1>5, <1>7, <2>2, SleepReads DEF a
  <1>8. CASE bytes # <<>>
    <2> DEFINE b == IF Head(bytes) = EOT THEN <<>> ELSE bytes
    <2>1. b \in Seq(Chars) /\ a = Answer(u, b)
      BY <1>5, <1>6, <1>8
    <2> HIDE DEF b
    <2> QED
      BY <1>4, <2>1, AnswerReads DEF a
  <1> QED
    BY <1>7, <1>8

\* Either mode, foreground or background.
LEMMA TerminalReads ==
    ASSUME NEW t \in Terminal, NEW p, NEW count \in ReadSizes, NEW fg \in BOOLEAN
    PROVE  Reads(t, p, fg, fd_read_terminal(t, p, count, fg))
  <1>1. count \in Nat \ {0} /\ count \in Nat
    BY KeyboardAssumption
  <1>2. CASE ~fg
    <2>1. fd_read_terminal(t, p, count, fg) = Answer(t, <<>>) /\ <<>> \in Seq(Chars)
      BY <1>2 DEF fd_read_terminal
    <2> QED
      BY <2>1, AnswerReads
  <1>3. CASE fg
    <2>1. fg = TRUE
      BY <1>3
    <2>2. fd_read_terminal(t, p, count, fg) =
            IF t.mode = TTY_COOKED THEN read_line(t, p, count) ELSE read_raw(t, p, count)
      BY <1>3 DEF fd_read_terminal
    <2> QED
      BY <1>1, <2>1, <2>2, LineReads, RawReads
  <1> QED
    BY <1>2, <1>3

\* A key keeps the reader asleep, which needs input as before, or wakes it.
KeyTold(t, u) ==
    \/ u.waiting = Nobody
    \/ u.waiting = t.waiting /\ (NeedsInput(t) => NeedsInput(u))

\* Whoever waited is woken.
LEMMA WakeTold ==
    ASSUME NEW t, NEW u \in Terminal
    PROVE  KeyTold(t, wake(u))
  BY DEF KeyTold, wake, Terminal

\* The line editor wakes with a newline; another key leaves the line incomplete.
LEMMA EditTold ==
    ASSUME NEW t \in Terminal, NEW c \in Chars
    PROVE  KeyTold(t, edit_line(t, c))
  <1> DEFINE u == edit_line(t, c)
  <1>1. CASE c = NEWLINE
    <2> DEFINE v == [t EXCEPT !.line = Append(t.line, c), !.line_ready = TRUE]
    <2>0. v \in Terminal
      <3>1. t.line \in Seq(Chars) /\ TRUE \in BOOLEAN
        BY DEF Terminal
      <3>2. Append(t.line, c) \in Seq(Chars)
        BY <3>1
      <3> QED
        BY <3>1, <3>2 DEF Terminal
    <2>1. u = wake(v)
      BY <1>1 DEF edit_line, NEWLINE, BACKSPACE
    <2> QED
      BY <2>0, <2>1, WakeTold
  <1>2. CASE c # NEWLINE
    <2>1. /\ u.waiting = t.waiting /\ u.mode = t.mode /\ u.line_ready = t.line_ready
          /\ u.eof = t.eof /\ u.buff_size = t.buff_size
      BY <1>2 DEF edit_line, Terminal
    <2> HIDE DEF u
    <2>2. KeyTold(t, u)
      BY <2>1 DEF KeyTold, NeedsInput
    <2> QED
      BY <2>2 DEF u
  <1> QED
    BY <1>1, <1>2

\* Any key.
LEMMA PressTold ==
    ASSUME NEW t \in Terminal, NEW m \in Modifiers, NEW s
    PROVE  KeyTold(t, handlePressedKey(t, m, s))
  <1> DEFINE u == handlePressedKey(t, m, s)
  <1>1. CASE s \notin Letters \/ Interrupts(m, s)
    BY <1>1 DEF handlePressedKey, KeyTold
  <1>2. CASE /\ ~(s \notin Letters \/ Interrupts(m, s)) /\ m.ctrl /\ s = D_KEY
    <2>1. u = press_eof(t)
      BY <1>2 DEF handlePressedKey
    <2>2. writeBuff(t, EOT) \in Terminal
      <3>1. EOT \in Chars
        BY DEF Chars
      <3> QED
        BY <3>1, WriteBuffType
    <2>3. [t EXCEPT !.line_ready = TRUE] \in Terminal /\ [t EXCEPT !.eof = TRUE] \in Terminal
      BY DEF Terminal
    <2>4. \E v \in Terminal : u = wake(v)
      BY <2>1, <2>2, <2>3 DEF press_eof
    <2> QED
      BY <2>4, WakeTold
  <1>3. CASE /\ ~(s \notin Letters \/ Interrupts(m, s)) /\ ~(m.ctrl /\ s = D_KEY)
    <2>1. u = press_char(t, char_of(m, s)) /\ char_of(m, s) \in Chars
      BY <1>3, CharOf DEF handlePressedKey
    <2>2. writeBuff(t, char_of(m, s)) \in Terminal
      BY <2>1, WriteBuffType
    <2> QED
      BY <2>1, <2>2, WakeTold, EditTold DEF press_char
  <1> QED
    BY <1>1, <1>2, <1>3

-----------------------------------------------------------------------------
(*****************************************************************************)
(* How the parts of the invariant survive a step.                            *)
(*****************************************************************************)

\* A step that leaves the tables alone.
LEMMA KernelSame ==
    ASSUME KernelOK, UNCHANGED vars
    PROVE  KernelOK' /\ UNCHANGED process
  BY DEF vars, KernelOK, TypeOK, Kernel, AllClean

\* A step of the shell in which no process changes.
LEMMA ByNobody ==
    ASSUME PipelineOK, UNCHANGED <<process, line, fds, buf>>, DOMAIN pc' = Pids,
           WhereOK(pc'[Shell], line, process[Left], process[Right]),
           ShellOK(pc'[Shell], process[Shell], fds),
           TtyOK(tty', line, process)
    PROVE  PipelineOK'
  BY DEF PipelineOK

\* A call of the shell about itself.
LEMMA ByShell ==
    ASSUME PipelineOK, RestWoke(Shell), UNCHANGED <<tty, line, buf>>, DOMAIN pc' = Pids,
           WhereOK(pc'[Shell], line, process[Left], process[Right]),
           ShellOK(pc'[Shell], process'[Shell], fds'),
           AtTerminal(process'[Shell]) <=> AtTerminal(process[Shell])
    PROVE  PipelineOK'
  <1>1. Woke(process[Left], process'[Left]) /\ Woke(process[Right], process'[Right])
    BY ThreePids DEF RestWoke
  <1>2. WhereOK(pc'[Shell], line, process'[Left], process'[Right])
    BY <1>1, WokeWhere
  <1>3. ChildOK(process'[Left]) /\ RightOK(process'[Right])
    BY <1>1, WokeIs DEF PipelineOK
  <1>4. \A p \in Pids : AtTerminal(process'[p]) <=> AtTerminal(process[p])
    BY <1>1, WokeIs, ThreePids
  <1>5. TtyOK(tty, line, process')
    BY <1>4, TtySame DEF PipelineOK
  <1> QED
    BY <1>2, <1>3, <1>5 DEF PipelineOK

\* A step of a child, or a call about it.
LEMMA ByLeft ==
    ASSUME PipelineOK, RestWoke(Left), UNCHANGED <<line, fds>>, DOMAIN pc' = Pids,
           buf' \in Seq(Bytes),
           WhereOK(pc'[Shell], line, process'[Left], process[Right]),
           ShellOK(pc'[Shell], process[Shell], fds), ChildOK(process'[Left]),
           TtyOK(tty', line, process')
    PROVE  PipelineOK'
  <1>1. Woke(process[Shell], process'[Shell]) /\ Woke(process[Right], process'[Right])
    BY ThreePids DEF RestWoke
  <1>2. process'[Shell] = process[Shell]
    BY <1>1, WokeIs DEF PipelineOK, ShellOK
  <1>3. WhereOK(pc'[Shell], line, process'[Left], process'[Right])
    BY <1>1, WokeWhere, SelfWoke
  <1>4. RightOK(process'[Right])
    BY <1>1, WokeIs DEF PipelineOK
  <1> QED
    BY <1>2, <1>3, <1>4 DEF PipelineOK

\* The same of Right.
LEMMA ByRight ==
    ASSUME PipelineOK, RestWoke(Right), UNCHANGED <<line, fds, buf>>, DOMAIN pc' = Pids,
           WhereOK(pc'[Shell], line, process[Left], process'[Right]),
           ShellOK(pc'[Shell], process[Shell], fds), RightOK(process'[Right]),
           TtyOK(tty', line, process')
    PROVE  PipelineOK'
  <1>1. Woke(process[Shell], process'[Shell]) /\ Woke(process[Left], process'[Left])
    BY ThreePids DEF RestWoke
  <1>2. process'[Shell] = process[Shell]
    BY <1>1, WokeIs DEF PipelineOK, ShellOK
  <1>3. WhereOK(pc'[Shell], line, process'[Left], process'[Right])
    BY <1>1, WokeWhere, SelfWoke
  <1>4. ChildOK(process'[Left])
    BY <1>1, WokeIs DEF PipelineOK
  <1> QED
    BY <1>2, <1>3, <1>4 DEF PipelineOK

\* The sleepers at the terminal are the same when p did not sleep there and does
\* not now.
LEMMA SameReaders ==
    ASSUME PipelineOK, NEW p \in Pids, RestWoke(p),
           AtTerminal(process'[p]) <=> AtTerminal(process[p])
    PROVE  TtyOK(tty, line, process')
  <1>1. \A q \in Pids : AtTerminal(process'[q]) <=> AtTerminal(process[q])
    <2> TAKE q \in Pids
    <2>1. CASE q = p
      BY <2>1
    <2>2. CASE q # p
      <3>1. Woke(process[q], process'[q])
        BY <2>2 DEF RestWoke
      <3> QED
        BY <3>1, WokeIs
    <2> QED
      BY <2>1, <2>2
  <1> QED
    BY <1>1, TtySame DEF PipelineOK

\* Nobody reads the terminal.
LEMMA QuietTty ==
    ASSUME PipelineOK, tty \in Terminal, \A p \in Pids : ~AtTerminal(process[p]),
           NEW t, t.waiting = tty.waiting
    PROVE  TtyOK(t, line, process)
  <1>1. tty.waiting = Nobody
    <2>1. tty.waiting \in Readers \cup {Nobody}
      BY DEF Terminal
    <2> QED
      BY <2>1, ThreePids DEF PipelineOK, TtyOK
  <1> QED
    BY <1>1, ThreePids DEF TtyOK

\* The end of p: its sleep at the terminal ends with it.
LEMMA DeadTty ==
    ASSUME PipelineOK, tty \in Terminal, NEW p \in Pids, RestWoke(p),
           process'[p].state = "FREE", tty' = tty_clear_waiting(tty, p)
    PROVE  TtyOK(tty', line, process')
  <1>1. ASSUME NEW q \in Pids, q # p
        PROVE  AtTerminal(process'[q]) <=> AtTerminal(process[q])
    <2>1. Woke(process[q], process'[q])
      BY <1>1 DEF RestWoke
    <2> QED
      BY <2>1, WokeIs
  <1>2. ~AtTerminal(process'[p])
    BY DEF AtTerminal
  <1>3. CASE tty.waiting = p
    <2>1. tty'.waiting = Nobody
      BY <1>3 DEF tty_clear_waiting, wake, Terminal
    <2>2. \A q \in Pids : AtTerminal(process[q]) /\ ~(line.pipe /\ line.bg) => q = p
      BY <1>3 DEF PipelineOK, TtyOK
    <2> QED
      BY <1>1, <1>2, <2>1, <2>2, ThreePids DEF TtyOK
  <1>4. CASE tty.waiting # p
    <2>1. tty' = tty
      BY <1>4 DEF tty_clear_waiting
    <2> QED
      BY <1>1, <1>2, <1>4, <2>1 DEF PipelineOK, TtyOK
  <1> QED
    BY <1>3, <1>4

-----------------------------------------------------------------------------
(*****************************************************************************)
(* The steps of the shell.                                                   *)
(*****************************************************************************)

\* Who has not started does not read the terminal.
LEMMA NewIsNot == New # Nowhere
  BY DEF New, Nowhere

\* What every step keeps.
Safe == KernelOK /\ PipelineOK

\* Steps of the shell in which nothing happens to a process or to the terminal.
LEMMA DispatchSafe ==
    ASSUME Safe, dispatch
    PROVE  Safe'
  <1>1. KernelOK' /\ UNCHANGED <<process, tty, line, fds, buf>>
    BY KernelSame DEF dispatch, program, kbdVars, Safe
  <1>2. /\ pc[Shell] = "line" /\ DOMAIN pc' = Pids
        /\ \/ line.pipe /\ pc'[Shell] = "pipe"
           \/ ~line.pipe /\ line.bg /\ pc'[Shell] = "create"
           \/ ~line.pipe /\ ~line.bg /\ pc'[Shell] = "cooked"
           \/ ~line.pipe /\ pc'[Shell] = "prompt"
    BY ThreePids DEF dispatch, Goto, Safe, PipelineOK
  <1>3. WhereOK(pc'[Shell], line, process[Left], process[Right])
    <2>1. WhereOK("line", line, process[Left], process[Right])
      BY <1>2 DEF Safe, PipelineOK
    <2> QED
      BY <1>2, <2>1, Zenon DEF WhereOK, ShellPcs, PipePcs, Early, Between, NotBorn, Gone, NotStarted,
                        AtTerminal
  <1>4. ShellOK(pc'[Shell], process[Shell], fds)
    <2>1. ShellOK("line", process[Shell], fds)
      BY <1>2 DEF Safe, PipelineOK
    <2> QED
      BY <1>2, <2>1, Zenon DEF ShellOK, Both, One
  <1> QED
    BY <1>1, <1>2, <1>3, <1>4, ByNobody DEF Safe, PipelineOK

\* my_wait returns when the child is dead, so the mode may change.
LEMMA WaitSafe ==
    ASSUME Safe, wait
    PROVE  Safe'
  <1>1. KernelOK' /\ UNCHANGED <<process, tty, line, fds, buf>>
    BY KernelSame, Zenon DEF wait, program, kbdVars, Safe
  <1>2. /\ pc[Shell] \in {"wait left", "wait right"} /\ DOMAIN pc' = Pids
        /\ \/ pc[Shell] = "wait left" /\ line.pipe /\ pc'[Shell] = "wait right" /\ ~Alive(Left)
           \/ pc[Shell] = "wait left" /\ ~line.pipe /\ pc'[Shell] = "raw" /\ ~Alive(Left)
           \/ pc[Shell] = "wait right" /\ pc'[Shell] = "raw" /\ ~Alive(Right)
    BY ThreePids, Zenon DEF wait, Goto, Safe, PipelineOK
  <1>3. WhereOK(pc'[Shell], line, process[Left], process[Right])
    <2>1. WhereOK(pc[Shell], line, process[Left], process[Right])
      BY DEF Safe, PipelineOK
    <2> QED
      BY <1>2, <2>1, Zenon DEF WhereOK, ShellPcs, PipePcs, Early, Between, NotBorn, Gone, NotStarted,
                        AtTerminal, Alive
  <1>4. ShellOK(pc'[Shell], process[Shell], fds)
    <2>1. ShellOK(pc[Shell], process[Shell], fds)
      BY DEF Safe, PipelineOK
    <2> QED
      BY <1>2, <2>1, Zenon DEF ShellOK, Both, One
  <1> QED
    BY <1>1, <1>2, <1>3, <1>4, ByNobody, Zenon DEF Safe, PipelineOK

\* is_child_command
LEMMA CheckSafe ==
    ASSUME Safe, check
    PROVE  Safe'
  <1>1. KernelOK' /\ UNCHANGED <<process, tty, line, fds, buf>>
    BY KernelSame, Zenon DEF check, program, kbdVars, Safe
  <1>2. /\ pc[Shell] = "check" /\ DOMAIN pc' = Pids /\ pc'[Shell] \in {"create left", "undo read"}
    BY ThreePids, Zenon DEF check, Goto, Safe, PipelineOK
  <1>3. WhereOK(pc'[Shell], line, process[Left], process[Right])
    <2>1. WhereOK("check", line, process[Left], process[Right])
      BY <1>2, Zenon DEF Safe, PipelineOK
    <2> QED
      BY <1>2, <2>1, Zenon DEF WhereOK, ShellPcs, PipePcs, Early, Between, NotBorn, Gone, NotStarted
  <1>4. ShellOK(pc'[Shell], process[Shell], fds)
    <2>1. ShellOK("check", process[Shell], fds)
      BY <1>2, Zenon DEF Safe, PipelineOK
    <2> QED
      BY <1>2, <2>1, Zenon DEF ShellOK, Both, One
  <1> QED
    BY <1>1, <1>2, <1>3, <1>4, ByNobody, Zenon DEF Safe, PipelineOK

\* The mode changes when nobody reads the terminal.
LEMMA ModeSafe ==
    ASSUME Safe, tty \in Terminal, cooked \/ raw
    PROVE  Safe'
  <1>1. KernelOK' /\ UNCHANGED <<process, line, fds, buf>>
    BY KernelSame, Zenon DEF cooked, raw, program, Safe
  <1>2. /\ DOMAIN pc' = Pids
        /\ \/ pc[Shell] = "cooked" /\ line.pipe /\ pc'[Shell] = "unblock left"
           \/ pc[Shell] = "cooked" /\ ~line.pipe /\ pc'[Shell] = "create"
           \/ pc[Shell] = "raw" /\ pc'[Shell] = "prompt"
    BY ThreePids, Zenon DEF cooked, raw, Goto, Safe, PipelineOK
  <1>3. tty'.waiting = tty.waiting
    BY Zenon DEF cooked, raw, SetMode, tty_set_mode, Terminal
  <1>4. /\ WhereOK(pc[Shell], line, process[Left], process[Right])
        /\ ShellOK(pc[Shell], process[Shell], fds) /\ RightOK(process[Right])
    BY DEF Safe, PipelineOK
  <1>5. \A p \in Pids : ~AtTerminal(process[p])
    <2>1. ~AtTerminal(process[Left])
      BY <1>2, <1>4, NewIsNot, Zenon DEF WhereOK, AtTerminal, NotStarted, NotBorn, Gone, Between
    <2>2. ~AtTerminal(process[Shell]) /\ ~AtTerminal(process[Right])
      BY <1>2, <1>4, Zenon DEF ShellOK, RightOK, AtTerminal
    <2> QED
      BY <2>1, <2>2, ThreePids
  <1>6. TtyOK(tty', line, process)
    BY <1>3, <1>5, QuietTty DEF Safe
  <1>7. WhereOK(pc'[Shell], line, process[Left], process[Right])
    BY <1>2, <1>4, <1>5, ThreePids, Zenon
    DEF WhereOK, ShellPcs, PipePcs, Early, Between, NotBorn, Gone, NotStarted
  <1>8. ShellOK(pc'[Shell], process[Shell], fds)
    BY <1>2, <1>4, Zenon DEF ShellOK, Both, One
  <1> QED
    BY <1>1, <1>2, <1>6, <1>7, <1>8, ByNobody, Zenon DEF Safe

\* The shell closes an end.
LEMMA CloseSafe ==
    ASSUME Safe, undo \/ close
    PROVE  Safe'
  <1>1. UNCHANGED <<tty, line, fds, buf>>
    BY Zenon DEF undo, close, program, kbdVars
  <1>2. /\ DOMAIN pc' = Pids
        /\ \/ /\ pc[Shell] = "undo read" /\ pc'[Shell] = "undo write" /\ sys_close(Shell, fds[1])
           \/ /\ pc[Shell] = "undo write" /\ pc'[Shell] = "prompt" /\ sys_close(Shell, fds[2])
           \/ /\ pc[Shell] = "close read" /\ pc'[Shell] = "close write"
              /\ sys_close(Shell, fds[1])
           \/ /\ pc[Shell] = "close write" /\ sys_close(Shell, fds[2])
              /\ \/ line.bg /\ pc'[Shell] = "unblock left"
                 \/ ~line.bg /\ pc'[Shell] = "cooked"
    BY ThreePids, Zenon DEF undo, close, Goto, Safe, PipelineOK
  <1>3. PICK f : /\ sys_close(Shell, f)
                 /\ pc[Shell] \in {"undo read", "close read"} => f = fds[1]
                 /\ pc[Shell] \in {"undo write", "close write"} => f = fds[2]
    BY <1>2, Zenon
  <1>4. /\ KernelOK' /\ RestWoke(Shell)
        /\ process'[Shell].state = process[Shell].state
        /\ process'[Shell].at = process[Shell].at
        /\ process'[Shell].own = process[Shell].own \ {f}
        /\ process'[Shell].fd = process[Shell].fd
    BY <1>3, Closes, ThreePids, Zenon DEF Safe
  <1>5. /\ WhereOK(pc[Shell], line, process[Left], process[Right])
        /\ ShellOK(pc[Shell], process[Shell], fds)
    BY DEF Safe, PipelineOK
  <1>6. WhereOK(pc'[Shell], line, process[Left], process[Right])
    BY <1>2, <1>5, Zenon DEF WhereOK, ShellPcs, PipePcs, Early, Between, NotBorn, Gone, NotStarted
  <1>7. process'[Shell].own = IF pc[Shell] \in {"undo read", "close read"} THEN {fds[2]} ELSE {}
    BY <1>2, <1>3, <1>4, <1>5, Zenon DEF ShellOK, Both, One
  <1>8. ShellOK(pc'[Shell], process'[Shell], fds')
    BY <1>1, <1>2, <1>4, <1>5, <1>7, Zenon DEF ShellOK, Both, One
  <1>9. AtTerminal(process'[Shell]) <=> AtTerminal(process[Shell])
    BY <1>4 DEF AtTerminal
  <1> QED
    BY <1>1, <1>2, <1>4, <1>6, <1>8, <1>9, ByShell, Zenon DEF Safe

\* A process that gets two descriptors gets numbers.
LEMMA OpensInts ==
    ASSUME KernelOK, NEW p \in Pids, sys_pipe_open(p, Anonymous), NEW a \in process'[p].own
    PROVE  a \in Fds /\ a \in Int
  <1> DEFINE i == pipe_slot(Kernel, Anonymous)
             r == pipe_create_fds(pipe_open(Kernel, Anonymous), p, i)
  <1>1. Kernel \in Tables /\ Inv(Kernel) /\ Kernel.procs = process
    BY KernelIs
  <1>2. Store(r) /\ process[p].state = "READY" /\ i # NULL
    BY DEF sys_pipe_open, Runs
  <1>3. Anonymous \in Names \cup {Anonymous}
    OBVIOUS
  <1>4. Good(Kernel, r)
    BY <1>1, <1>2, <1>3, OpenGood
  <1> HIDE DEF r
  <1>5. r.procs[p].own \in SUBSET Fds /\ process' = r.procs
    BY <1>2, <1>4, TableTypes, PCBFields DEF Good, Store
  <1>6. a \in Fds
    BY <1>5
  <1> QED
    BY <1>6, IdsAreNat

\* sys_pipe, which may fail.
LEMMA PipeSafe ==
    ASSUME Safe, pipe
    PROVE  Safe'
  <1>1. UNCHANGED <<tty, line, buf>>
    BY DEF pipe, kbdVars
  <1>2. /\ pc[Shell] = "pipe" /\ DOMAIN pc' = Pids
        /\ \/ /\ pc'[Shell] = "check" /\ sys_pipe_open(Shell, Anonymous)
              /\ \E r, w \in process'[Shell].own : r < w /\ fds' = <<r, w>>
           \/ pc'[Shell] = "prompt" /\ UNCHANGED <<vars, fds>>
    BY ThreePids DEF pipe, Goto, Safe, PipelineOK
  <1>3. /\ WhereOK("pipe", line, process[Left], process[Right])
        /\ ShellOK("pipe", process[Shell], fds)
    BY <1>2 DEF Safe, PipelineOK
  <1>4. CASE pc'[Shell] = "prompt"
    <2>1. KernelOK' /\ UNCHANGED <<process, fds>>
      BY <1>2, <1>4, KernelSame DEF Safe
    <2>2. WhereOK(pc'[Shell], line, process[Left], process[Right])
      BY <1>3, <1>4 DEF WhereOK, ShellPcs, PipePcs, Early, Between, NotBorn, Gone, NotStarted
    <2>3. ShellOK(pc'[Shell], process[Shell], fds)
      BY <1>3, <1>4 DEF ShellOK, Both, One
    <2> QED
      BY <1>1, <1>2, <2>1, <2>2, <2>3, ByNobody DEF Safe, PipelineOK
  <1>5. CASE pc'[Shell] = "check"
    <2>1. PICK r, w \in process'[Shell].own : r < w /\ fds' = <<r, w>>
      BY <1>2, <1>5
    <2>2. process[Shell].own = {} /\ r # w
      <3>1. process[Shell].own = {}
        BY <1>3 DEF ShellOK, Both, One
      <3>2. Shell \in Pids /\ sys_pipe_open(Shell, Anonymous)
        BY <1>2, <1>5, ThreePids
      <3> QED
        BY <3>1, <3>2, <2>1, OpensInts DEF Safe
    <2>3. /\ KernelOK' /\ RestWoke(Shell)
          /\ process'[Shell].state = process[Shell].state
          /\ process'[Shell].at = process[Shell].at
          /\ process'[Shell].own = {r, w} /\ process'[Shell].fd = process[Shell].fd
      BY <1>2, <1>5, <2>1, <2>2, Opens, ThreePids DEF Safe
    <2>4. WhereOK(pc'[Shell], line, process[Left], process[Right])
      BY <1>3, <1>5 DEF WhereOK, ShellPcs, PipePcs, Early, Between, NotBorn, Gone, NotStarted
    <2>5. fds'[1] = r /\ fds'[2] = w
      BY <2>1
    <2>6. ShellOK(pc'[Shell], process'[Shell], fds')
      BY <1>3, <1>5, <2>2, <2>3, <2>5 DEF ShellOK, Both, One
    <2>7. AtTerminal(process'[Shell]) <=> AtTerminal(process[Shell])
      BY <2>3 DEF AtTerminal
    <2> QED
      BY <1>1, <1>2, <2>3, <2>4, <2>6, <2>7, ByShell DEF Safe
  <1> QED
    BY <1>2, <1>4, <1>5

\* A step of the shell in which a call fails, or finds its process dead.
LEMMA FailSafe ==
    ASSUME Safe, UNCHANGED vars, UNCHANGED <<tty, line, fds, buf>>, DOMAIN pc' = Pids,
           WhereOK(pc'[Shell], line, process[Left], process[Right]),
           ShellOK(pc'[Shell], process[Shell], fds)
    PROVE  Safe'
  <1>1. KernelOK' /\ UNCHANGED process
    BY KernelSame DEF Safe
  <1> QED
    BY <1>1, ByNobody DEF Safe, PipelineOK

\* A call of the shell about a child that neither wakes nor sleeps at the
\* terminal.
LEMMA LeftSafe ==
    ASSUME Safe, KernelOK', RestWoke(Left), UNCHANGED <<tty, line, fds, buf>>,
           DOMAIN pc' = Pids,
           WhereOK(pc'[Shell], line, process'[Left], process[Right]),
           ShellOK(pc'[Shell], process[Shell], fds), ChildOK(process'[Left]),
           AtTerminal(process'[Left]) <=> AtTerminal(process[Left])
    PROVE  Safe'
  <1>1. TtyOK(tty', line, process')
    BY SameReaders, ThreePids DEF Safe
  <1>2. buf' \in Seq(Bytes)
    BY DEF Safe, PipelineOK
  <1> QED
    BY <1>1, <1>2, ByLeft DEF Safe

\* The same of Right.
LEMMA RightSafe ==
    ASSUME Safe, KernelOK', RestWoke(Right), UNCHANGED <<tty, line, fds, buf>>,
           DOMAIN pc' = Pids,
           WhereOK(pc'[Shell], line, process[Left], process'[Right]),
           ShellOK(pc'[Shell], process[Shell], fds), RightOK(process'[Right])
    PROVE  Safe'
  <1>1. ~AtTerminal(process[Right]) /\ ~AtTerminal(process'[Right])
    BY DEF Safe, PipelineOK, RightOK
  <1>2. TtyOK(tty', line, process')
    BY <1>1, SameReaders, ThreePids DEF Safe
  <1> QED
    BY <1>2, ByRight DEF Safe

\* A command without a pipe.
LEMMA CreateSafe ==
    ASSUME Safe, create
    PROVE  Safe'
  <1>1. UNCHANGED <<tty, line, fds, buf>>
    BY Zenon DEF create, program, kbdVars
  <1>2. /\ pc[Shell] = "create" /\ DOMAIN pc' = Pids
        /\ \/ /\ \/ line.bg /\ pc'[Shell] = "prompt"
                 \/ ~line.bg /\ pc'[Shell] = "wait left"
              /\ \E k \in {process_create(Kernel, Left)} :
                    Store([k EXCEPT !.procs[Left].state = "READY", !.procs[Left].at = Nowhere])
           \/ pc'[Shell] = "prompt" /\ UNCHANGED vars
    BY ThreePids, Zenon DEF create, Goto, Safe, PipelineOK
  <1>3. /\ WhereOK("create", line, process[Left], process[Right])
        /\ ShellOK("create", process[Shell], fds) /\ ChildOK(process[Left])
    BY <1>2, Zenon DEF Safe, PipelineOK
  <1>4. ~line.pipe /\ NotBorn(process[Left]) /\ NotBorn(process[Right])
    BY <1>3 DEF WhereOK, Early
  <1>5. ShellOK(pc'[Shell], process[Shell], fds)
    BY <1>2, <1>3, Zenon DEF ShellOK, Both, One
  <1>6. CASE pc'[Shell] = "prompt" /\ UNCHANGED vars
    <2>1. WhereOK(pc'[Shell], line, process[Left], process[Right])
      BY <1>3, <1>4, <1>6
      DEF WhereOK, ShellPcs, PipePcs, Early, Between, NotBorn, Gone, NotStarted, AtTerminal
    <2> QED
      BY <1>1, <1>2, <1>5, <1>6, <2>1, FailSafe
  <1>7. CASE /\ \/ line.bg /\ pc'[Shell] = "prompt"
                \/ ~line.bg /\ pc'[Shell] = "wait left"
             /\ \E k \in {process_create(Kernel, Left)} :
                   Store([k EXCEPT !.procs[Left].state = "READY", !.procs[Left].at = Nowhere])
    <2>1. /\ KernelOK' /\ RestWoke(Left)
          /\ process'[Left].state = "READY" /\ process'[Left].at = Nowhere
          /\ process'[Left].own = process[Left].own
          /\ process'[Left].fd[0] = FD_STDIN /\ process'[Left].fd[1] = FD_STDOUT
      BY <1>4, <1>7, CreatesReady, ThreePids, Zenon DEF NotBorn, Safe
    <2>2. ChildOK(process'[Left])
      BY <1>3, <2>1, IdsAreNat DEF ChildOK
    <2>3. ~AtTerminal(process'[Left]) /\ ~AtTerminal(process[Left])
      BY <1>4, <2>1 DEF AtTerminal, NotBorn
    <2>4. WhereOK(pc'[Shell], line, process'[Left], process[Right])
      BY <1>3, <1>4, <1>7, <2>3, Zenon
      DEF WhereOK, ShellPcs, PipePcs, Early, Between, NotBorn, Gone, NotStarted
    <2> QED
      BY <1>1, <1>2, <1>5, <2>1, <2>2, <2>3, <2>4, LeftSafe, Zenon
  <1> QED
    BY <1>2, <1>6, <1>7, Zenon

\* The children of a pipe.
LEMMA CreateBothSafe ==
    ASSUME Safe, create_both
    PROVE  Safe'
  <1>1. UNCHANGED <<tty, line, fds, buf>>
    BY Zenon DEF create_both, program, kbdVars
  <1>2. /\ DOMAIN pc' = Pids
        /\ \/ /\ pc[Shell] = "create left" /\ pc'[Shell] = "create right"
              /\ sys_create_process(Shell, Left)
           \/ pc[Shell] = "create left" /\ pc'[Shell] = "undo read" /\ UNCHANGED vars
           \/ /\ pc[Shell] = "create right" /\ pc'[Shell] = "setup left"
              /\ sys_create_process(Shell, Right)
           \/ pc[Shell] = "create right" /\ pc'[Shell] = "kill left" /\ UNCHANGED vars
    BY ThreePids, Zenon DEF create_both, Goto, Safe, PipelineOK
  <1>3. /\ WhereOK(pc[Shell], line, process[Left], process[Right])
        /\ ShellOK(pc[Shell], process[Shell], fds)
        /\ ChildOK(process[Left]) /\ RightOK(process[Right])
    BY DEF Safe, PipelineOK
  <1>4. ShellOK(pc'[Shell], process[Shell], fds)
    BY <1>2, <1>3, Zenon DEF ShellOK, Both, One
  <1>5. CASE UNCHANGED vars /\ pc'[Shell] \in {"undo read", "kill left"}
    <2>1. WhereOK(pc'[Shell], line, process[Left], process[Right])
      BY <1>2, <1>3, <1>5, Zenon
      DEF WhereOK, ShellPcs, PipePcs, Early, Between, NotBorn, Gone, NotStarted
    <2> QED
      BY <1>1, <1>2, <1>4, <1>5, <2>1, FailSafe, Zenon
  <1>6. CASE pc[Shell] = "create left" /\ pc'[Shell] = "create right"
             /\ sys_create_process(Shell, Left)
    <2>1. /\ KernelOK' /\ RestWoke(Left)
          /\ process'[Left].state = "BLOCKED" /\ process'[Left].at = New
          /\ process'[Left].own = process[Left].own
          /\ process'[Left].fd[0] = FD_STDIN /\ process'[Left].fd[1] = FD_STDOUT
      BY <1>6, Creates, ThreePids, Zenon DEF Safe
    <2>2. ChildOK(process'[Left])
      BY <1>3, <2>1, IdsAreNat DEF ChildOK
    <2>3. ~AtTerminal(process'[Left]) /\ ~AtTerminal(process[Left])
      BY <1>3, <1>6, <2>1, NewIsNot, Zenon DEF AtTerminal, NotBorn, WhereOK, Early
    <2>4. WhereOK(pc'[Shell], line, process'[Left], process[Right])
      BY <1>3, <1>6, <2>1, <2>3, Zenon
      DEF WhereOK, ShellPcs, PipePcs, Early, Between, NotBorn, Gone, NotStarted
    <2> QED
      BY <1>1, <1>2, <1>4, <2>1, <2>2, <2>3, <2>4, LeftSafe, Zenon
  <1>7. CASE pc[Shell] = "create right" /\ pc'[Shell] = "setup left"
             /\ sys_create_process(Shell, Right)
    <2>1. /\ KernelOK' /\ RestWoke(Right)
          /\ process'[Right].state = "BLOCKED" /\ process'[Right].at = New
          /\ process'[Right].own = process[Right].own
          /\ process'[Right].fd[0] = FD_STDIN /\ process'[Right].fd[1] = FD_STDOUT
      BY <1>7, Creates, ThreePids, Zenon DEF Safe
    <2>2. RightOK(process'[Right])
      BY <1>3, <2>1, IdsAreNat, NewIsNot DEF ChildOK, RightOK, AtTerminal
    <2>4. WhereOK(pc'[Shell], line, process[Left], process'[Right])
      BY <1>3, <1>7, <2>1, Zenon
      DEF WhereOK, ShellPcs, PipePcs, Early, Between, NotBorn, Gone, NotStarted
    <2> QED
      BY <1>1, <1>2, <1>4, <2>1, <2>2, <2>4, RightSafe, Zenon
  <1> QED
    BY <1>2, <1>5, <1>6, <1>7, Zenon

\* The children are redirected.
LEMMA SetupSafe ==
    ASSUME Safe, setup
    PROVE  Safe'
  <1>1. UNCHANGED <<tty, line, fds, buf>>
    BY Zenon DEF setup, program, kbdVars
  <1>2. /\ DOMAIN pc' = Pids
        /\ \/ pc[Shell] = "setup left" /\ pc'[Shell] = "setup right"
           \/ pc[Shell] = "setup right" /\ pc'[Shell] = "close read"
        /\ \/ UNCHANGED vars
           \/ pc[Shell] = "setup left" /\ sys_pipe_setup(Shell, Left, fds[2], 1)
           \/ pc[Shell] = "setup right" /\ sys_pipe_setup(Shell, Right, fds[1], 0)
    BY ThreePids, Zenon DEF setup, IfAlive, Goto, Safe, PipelineOK
  <1>3. /\ WhereOK(pc[Shell], line, process[Left], process[Right])
        /\ ShellOK(pc[Shell], process[Shell], fds)
        /\ ChildOK(process[Left]) /\ RightOK(process[Right])
    BY DEF Safe, PipelineOK
  <1>4. ShellOK(pc'[Shell], process[Shell], fds)
    BY <1>2, <1>3, Zenon DEF ShellOK, Both, One
  <1>5. WhereOK(pc'[Shell], line, process[Left], process[Right])
    BY <1>2, <1>3, Zenon DEF WhereOK, ShellPcs, PipePcs, Early, Between, NotBorn, Gone, NotStarted
  <1>6. CASE UNCHANGED vars
    BY <1>1, <1>2, <1>4, <1>5, <1>6, FailSafe, Zenon
  <1>7. CASE pc[Shell] = "setup left" /\ sys_pipe_setup(Shell, Left, fds[2], 1)
    <2>1. /\ KernelOK' /\ RestWoke(Left)
          /\ process'[Left].state = process[Left].state
          /\ process'[Left].at = process[Left].at
          /\ process'[Left].own = process[Left].own
          /\ process'[Left].fd = [process[Left].fd EXCEPT ![1] = fds[2]]
          /\ fds[2] \in Fds
      <3>1. 1 \in 0..1
        OBVIOUS
      <3> QED
        BY <1>7, <3>1, SetsUp, ThreePids, Zenon DEF Safe
    <2>2. process[Left].fd \in [0..1 -> Fds \cup {NULL}]
      BY KernelIs, PCBFields, ThreePids DEF Safe
    <2>3. /\ process'[Left].fd[0] = process[Left].fd[0]
          /\ process'[Left].fd[1] = fds[2]
      BY <2>1, <2>2, IdsAreNat
    <2>4. ChildOK(process'[Left])
      BY <1>3, <2>1, <2>3, IdsAreNat DEF ChildOK
    <2>5. AtTerminal(process'[Left]) <=> AtTerminal(process[Left])
      BY <2>1 DEF AtTerminal
    <2>6. WhereOK(pc'[Shell], line, process'[Left], process[Right])
      BY <1>5, <2>1, <2>5, Zenon DEF WhereOK, NotBorn, Gone, NotStarted
    <2> QED
      BY <1>1, <1>2, <1>4, <2>1, <2>4, <2>5, <2>6, LeftSafe, Zenon
  <1>8. CASE pc[Shell] = "setup right" /\ sys_pipe_setup(Shell, Right, fds[1], 0)
    <2>1. /\ KernelOK' /\ RestWoke(Right)
          /\ process'[Right].state = process[Right].state
          /\ process'[Right].at = process[Right].at
          /\ process'[Right].own = process[Right].own
          /\ process'[Right].fd = [process[Right].fd EXCEPT ![0] = fds[1]]
          /\ fds[1] \in Fds
      <3>1. 0 \in 0..1
        OBVIOUS
      <3> QED
        BY <1>8, <3>1, SetsUp, ThreePids, Zenon DEF Safe
    <2>2. process[Right].fd \in [0..1 -> Fds \cup {NULL}]
      BY KernelIs, PCBFields, ThreePids DEF Safe
    <2>3. /\ process'[Right].fd[0] = fds[1]
          /\ process'[Right].fd[1] = process[Right].fd[1]
      BY <2>1, <2>2, IdsAreNat
    <2>4. RightOK(process'[Right])
      BY <1>3, <2>1, <2>3, IdsAreNat DEF ChildOK, RightOK, AtTerminal
    <2>6. WhereOK(pc'[Shell], line, process[Left], process'[Right])
      BY <1>5, <2>1, Zenon DEF WhereOK, NotBorn, Gone, NotStarted
    <2> QED
      BY <1>1, <1>2, <1>4, <2>1, <2>4, <2>6, RightSafe, Zenon
  <1> QED
    BY <1>2, <1>6, <1>7, <1>8, Zenon

\* The children start.
LEMMA UnblockSafe ==
    ASSUME Safe, unblock
    PROVE  Safe'
  <1>1. UNCHANGED <<tty, line, fds, buf>>
    BY Zenon DEF unblock, program, kbdVars
  <1>2. /\ DOMAIN pc' = Pids
        /\ \/ /\ pc[Shell] = "unblock left" /\ pc'[Shell] = "unblock right"
              /\ IfAlive(Left, Start(Left))
           \/ /\ pc[Shell] = "unblock right" /\ IfAlive(Right, Start(Right))
              /\ \/ line.bg /\ pc'[Shell] = "prompt"
                 \/ ~line.bg /\ pc'[Shell] = "wait left"
    BY ThreePids, Zenon DEF unblock, Goto, Safe, PipelineOK
  <1>3. /\ WhereOK(pc[Shell], line, process[Left], process[Right])
        /\ ShellOK(pc[Shell], process[Shell], fds)
        /\ ChildOK(process[Left]) /\ RightOK(process[Right])
    BY DEF Safe, PipelineOK
  <1>4. ShellOK(pc'[Shell], process[Shell], fds)
    BY <1>2, <1>3, Zenon DEF ShellOK, Both, One
  <1>5. WhereOK(pc'[Shell], line, process[Left], process[Right])
    BY <1>2, <1>3, Zenon DEF WhereOK, ShellPcs, PipePcs, Early, Between, NotBorn, Gone, NotStarted
  <1>6. CASE UNCHANGED vars
    BY <1>1, <1>2, <1>4, <1>5, <1>6, FailSafe, Zenon
  <1>7. CASE pc[Shell] = "unblock left" /\ Start(Left)
    <2>1. /\ KernelOK' /\ RestWoke(Left)
          /\ process'[Left].state = "READY" /\ process'[Left].at = Nowhere
          /\ process'[Left].own = process[Left].own /\ process'[Left].fd = process[Left].fd
          /\ process[Left].state = "BLOCKED" /\ process[Left].at = New
      BY <1>7, Starts, ThreePids, Zenon DEF Safe, Start
    <2>2. ChildOK(process'[Left])
      BY <1>3, <2>1 DEF ChildOK
    <2>3. ~AtTerminal(process'[Left]) /\ ~AtTerminal(process[Left])
      BY <2>1, NewIsNot DEF AtTerminal
    <2>4. WhereOK(pc'[Shell], line, process'[Left], process[Right])
      BY <1>2, <1>3, <1>7, <2>3, Zenon
      DEF WhereOK, ShellPcs, PipePcs, Early, Between, NotBorn, Gone, NotStarted
    <2> QED
      BY <1>1, <1>2, <1>4, <2>1, <2>2, <2>3, <2>4, LeftSafe, Zenon
  <1>8. CASE pc[Shell] = "unblock right" /\ Start(Right)
    <2>1. /\ KernelOK' /\ RestWoke(Right)
          /\ process'[Right].state = "READY" /\ process'[Right].at = Nowhere
          /\ process'[Right].own = process[Right].own /\ process'[Right].fd = process[Right].fd
          /\ process[Right].state = "BLOCKED" /\ process[Right].at = New
      BY <1>8, Starts, ThreePids, Zenon DEF Safe, Start
    <2>2. RightOK(process'[Right])
      BY <1>3, <2>1 DEF ChildOK, RightOK, AtTerminal
    <2>4. WhereOK(pc'[Shell], line, process[Left], process'[Right])
      BY <1>2, <1>3, <1>8, Zenon
      DEF WhereOK, ShellPcs, PipePcs, Early, Between, NotBorn, Gone, NotStarted
    <2> QED
      BY <1>1, <1>2, <1>4, <2>1, <2>2, <2>4, RightSafe, Zenon
  <1> QED
    BY <1>2, <1>6, <1>7, <1>8, Zenon DEF IfAlive

-----------------------------------------------------------------------------
(*****************************************************************************)
(* The end of a command, its reads and writes, and the keys.                 *)
(*****************************************************************************)

\* The end of a command, at any moment.
LEMMA LeftDies ==
    ASSUME Safe, tty \in Terminal, Dies(Left), UNCHANGED <<line, fds, buf>>,
           DOMAIN pc' = Pids,
           \/ pc'[Shell] = pc[Shell]
           \/ pc[Shell] = "kill left" /\ pc'[Shell] = "undo read"
    PROVE  Safe'
  <1>1. /\ KernelOK' /\ RestWoke(Left)
        /\ process'[Left].state = "FREE" /\ process'[Left].at = Nowhere
        /\ process'[Left].own = process[Left].own
    BY Buries, ThreePids, Zenon DEF Dies, Safe
  <1>2. process[Left].state # "FREE" /\ tty' = tty_clear_waiting(tty, Left)
    BY Zenon DEF Dies, Die
  <1>3. /\ WhereOK(pc[Shell], line, process[Left], process[Right])
        /\ ShellOK(pc[Shell], process[Shell], fds) /\ ChildOK(process[Left])
        /\ buf \in Seq(Bytes)
    BY Zenon DEF Safe, PipelineOK
  <1>4. TtyOK(tty', line, process')
    BY <1>1, <1>2, DeadTty, ThreePids, Zenon DEF Safe
  <1>5. ChildOK(process'[Left])
    BY <1>1, <1>3, Zenon DEF ChildOK
  <1>6. ShellOK(pc'[Shell], process[Shell], fds)
    BY <1>3, Zenon DEF ShellOK, Both, One
  <1>7. WhereOK(pc'[Shell], line, process'[Left], process[Right])
    BY <1>1, <1>2, <1>3, Zenon
    DEF WhereOK, ShellPcs, PipePcs, Early, Between, NotBorn, Gone, NotStarted, AtTerminal
  <1> QED
    BY <1>1, <1>3, <1>4, <1>5, <1>6, <1>7, ByLeft, Zenon DEF Safe

\* The same of Right.
LEMMA RightDies ==
    ASSUME Safe, tty \in Terminal, Dies(Right), UNCHANGED <<line, fds, buf>>,
           DOMAIN pc' = Pids, pc'[Shell] = pc[Shell]
    PROVE  Safe'
  <1>1. /\ KernelOK' /\ RestWoke(Right)
        /\ process'[Right].state = "FREE" /\ process'[Right].at = Nowhere
        /\ process'[Right].own = process[Right].own
    BY Buries, ThreePids DEF Dies, Safe
  <1>2. process[Right].state # "FREE" /\ tty' = tty_clear_waiting(tty, Right)
    BY DEF Dies, Die
  <1>3. /\ WhereOK(pc[Shell], line, process[Left], process[Right])
        /\ ShellOK(pc[Shell], process[Shell], fds) /\ RightOK(process[Right])
    BY DEF Safe, PipelineOK
  <1>4. TtyOK(tty', line, process')
    BY <1>1, <1>2, DeadTty, ThreePids DEF Safe
  <1>5. RightOK(process'[Right])
    BY <1>1, <1>3 DEF ChildOK, RightOK, AtTerminal
  <1>7. WhereOK(pc[Shell], line, process[Left], process'[Right])
    BY <1>1, <1>2, <1>3, Zenon
    DEF WhereOK, ShellPcs, PipePcs, Early, Between, NotBorn, Gone, NotStarted
  <1> QED
    BY <1>1, <1>3, <1>4, <1>5, <1>7, ByRight DEF Safe

\* The kill of Left when Right could not be created.
LEMMA KillLeftSafe ==
    ASSUME Safe, tty \in Terminal, kill_left
    PROVE  Safe'
  <1>1. UNCHANGED <<line, fds, buf>>
    BY Zenon DEF kill_left, program
  <1>2. /\ DOMAIN pc' = Pids /\ pc[Shell] = "kill left" /\ pc'[Shell] = "undo read"
        /\ \/ Alive(Left) /\ Dies(Left)
           \/ ~Alive(Left) /\ UNCHANGED vars /\ UNCHANGED tty
    BY ThreePids, Zenon DEF kill_left, Goto, Safe, PipelineOK, kbdVars
  <1>3. CASE Dies(Left)
    BY <1>1, <1>2, <1>3, LeftDies, Zenon
  <1>4. CASE ~Alive(Left) /\ UNCHANGED vars /\ UNCHANGED tty
    <2>1. /\ WhereOK(pc[Shell], line, process[Left], process[Right])
          /\ ShellOK(pc[Shell], process[Shell], fds)
      BY DEF Safe, PipelineOK
    <2>2. WhereOK(pc'[Shell], line, process[Left], process[Right])
      BY <1>2, <1>4, <2>1, Zenon
      DEF WhereOK, ShellPcs, PipePcs, Early, Between, NotBorn, Gone, NotStarted, Alive
    <2>3. ShellOK(pc'[Shell], process[Shell], fds)
      BY <1>2, <2>1, Zenon DEF ShellOK, Both, One
    <2> QED
      BY <1>1, <1>2, <1>4, <2>2, <2>3, FailSafe, Zenon
  <1> QED
    BY <1>2, <1>3, <1>4, Zenon

\* process_exit
LEMMA ExitSafe ==
    ASSUME Safe, tty \in Terminal, exit(Left) \/ exit(Right)
    PROVE  Safe'
  <1>1. /\ UNCHANGED <<line, fds, buf>> /\ DOMAIN pc' = Pids /\ pc'[Shell] = pc[Shell]
        /\ Dies(Left) \/ Dies(Right)
    BY ThreePids DEF exit, Goto, program, Safe, PipelineOK
  <1> QED
    BY <1>1, LeftDies, RightDies

\* process_kill, from Ctrl+C or a later line.
LEMMA KilledSafe ==
    ASSUME Safe, tty \in Terminal, Killed(Left) \/ Killed(Right)
    PROVE  Safe'
  <1>1. /\ UNCHANGED <<line, fds, buf>> /\ DOMAIN pc' = Pids /\ pc'[Shell] = pc[Shell]
        /\ Dies(Left) \/ Dies(Right)
    BY ThreePids DEF Killed, Safe, PipelineOK
  <1> QED
    BY <1>1, LeftDies, RightDies

\* The process changes its state at most.
LEMMA StateSet ==
    ASSUME NEW c \in PCB, NEW st \in {"READY", "BLOCKED", "FREE"}
    PROVE  /\ [c EXCEPT !.state = st] \in PCB
           /\ PCBIs([c EXCEPT !.state = st], st, c.fd, c.own, c.at)
           /\ c.state = st => [c EXCEPT !.state = st] = c
  BY DEF PCB, PCBIs

\* A read of the terminal by p, which runs.
LEMMA AnswerKernel ==
    ASSUME KernelOK, NEW p \in Pids, Runs(p), process[p].at = Nowhere,
           NEW a, a.sleeps \in BOOLEAN, Answered(p, a)
    PROVE  /\ KernelOK' /\ tty' = a.tty
           /\ \A q \in Pids \ {p} : process'[q] = process[q]
           /\ PCBIs(process'[p], IF a.sleeps THEN "BLOCKED" ELSE "READY",
                    process[p].fd, process[p].own, Nowhere)
           /\ ~a.sleeps => process'[p] = process[p]
  <1> DEFINE st == IF a.sleeps THEN "BLOCKED" ELSE process[p].state
             c == [process[p] EXCEPT !.state = st]
  <1>1. process \in [Pids -> PCB] /\ process[p] \in PCB
    BY KernelIs
  <1>2. /\ process' = [process EXCEPT ![p] = c] /\ UNCHANGED <<pipe_table, fd_table>>
        /\ tty' = a.tty /\ process[p].state = "READY"
    BY DEF Answered, Runs
  <1>3. st \in {"READY", "BLOCKED", "FREE"} /\ (~a.sleeps => st = process[p].state)
        /\ st = IF a.sleeps THEN "BLOCKED" ELSE "READY"
    BY <1>2
  <1> HIDE DEF st
  <1>4. c \in PCB /\ PCBIs(c, st, process[p].fd, process[p].own, Nowhere)
        /\ (~a.sleeps => c = process[p])
    <2>1. /\ c \in PCB /\ PCBIs(c, st, process[p].fd, process[p].own, process[p].at)
          /\ process[p].state = st => c = process[p]
      BY <1>1, <1>3, StateSet
    <2> HIDE DEF c
    <2> QED
      BY <1>3, <2>1
  <1> HIDE DEF c
  <1>5. /\ process' \in [Pids -> PCB] /\ process'[p] = c
        /\ \A q \in Pids \ {p} : process'[q] = process[q]
    BY <1>1, <1>2, <1>4
  <1>6. KernelOK'
    <2>1. c.fd = process[p].fd /\ c.own = process[p].own /\ c.at = Nowhere /\ c.state # "FREE"
      BY <1>3, <1>4 DEF PCBIs
    <2> QED
      BY <1>2, <1>5, <2>1, StatesOnly
  <1> QED
    BY <1>2, <1>3, <1>4, <1>5, <1>6

\* shellReadLine
LEMMA PromptSafe ==
    ASSUME Safe, tty \in Terminal, shellReadLine
    PROVE  Safe'
  <1> DEFINE a == fd_read_terminal(tty, Shell, 1, TRUE)
  <1>1. /\ UNCHANGED <<line, fds, buf, pc>> /\ pc[Shell] = "prompt" /\ Runs(Shell)
        /\ Answered(Shell, a)
    BY DEF shellReadLine, program
  <1>2. Reads(tty, Shell, TRUE, a)
    BY TerminalReads, PidsAreReaders
  <1> HIDE DEF a
  <1>3. /\ WhereOK("prompt", line, process[Left], process[Right])
        /\ ShellOK("prompt", process[Shell], fds)
        /\ ChildOK(process[Left]) /\ RightOK(process[Right]) /\ TtyOK(tty, line, process)
    BY <1>1 DEF Safe, PipelineOK
  <1>4. /\ KernelOK' /\ tty' = a.tty
        /\ \A q \in Pids \ {Shell} : process'[q] = process[q]
        /\ PCBIs(process'[Shell], IF a.sleeps THEN "BLOCKED" ELSE "READY",
                 process[Shell].fd, process[Shell].own, Nowhere)
        /\ ~a.sleeps => process'[Shell] = process[Shell]
    <2>1. process[Shell].at = Nowhere /\ a.sleeps \in BOOLEAN
      BY <1>2, <1>3 DEF ShellOK, Reads
    <2> QED
      BY <1>1, <2>1, AnswerKernel, ThreePids DEF Safe
  <1>5. process'[Left] = process[Left] /\ process'[Right] = process[Right]
    BY <1>4, ThreePids
  <1>6. ~(line.pipe /\ line.bg) => ~AtTerminal(process[Left])
    BY <1>3 DEF WhereOK, AtTerminal, Gone
  <1>7. ~AtTerminal(process[Right]) /\ ~AtTerminal(process[Shell])
    BY <1>1, <1>3 DEF RightOK, AtTerminal, Runs
  <1>8. ShellOK("prompt", process'[Shell], fds)
    BY <1>3, <1>4 DEF ShellOK, PCBIs, Both, One
  <1>9. TtyOK(tty', line, process')
    <2>1. CASE a.sleeps
      <3>1. tty'.waiting = Shell /\ NeedsInput(tty')
        BY <1>2, <1>4, <2>1 DEF Reads
      <3>2. AtTerminal(process'[Shell])
        BY <1>4, <2>1 DEF AtTerminal, PCBIs
      <3> QED
        BY <1>5, <1>6, <1>7, <3>1, <3>2, ThreePids DEF TtyOK
    <2>2. CASE ~a.sleeps
      <3>1. tty'.waiting = tty.waiting /\ process'[Shell] = process[Shell]
        BY <1>2, <1>4, <2>2 DEF Reads
      <3>2. \A p \in Pids : process'[p] = process[p]
        BY <1>4, <3>1
      <3>3. ~(line.pipe /\ line.bg) => \A p \in Pids : ~AtTerminal(process[p])
        BY <1>6, <1>7, ThreePids
      <3>4. ~(line.pipe /\ line.bg) => tty.waiting = Nobody
        <4>1. tty.waiting \in Readers \cup {Nobody}
          BY DEF Terminal
        <4> QED
          BY <1>3, <3>3, <4>1, ThreePids DEF TtyOK
      <3> QED
        BY <1>3, <3>1, <3>2, <3>3, <3>4 DEF TtyOK
    <2> QED
      BY <2>1, <2>2
  <1> QED
    BY <1>1, <1>3, <1>4, <1>5, <1>8, <1>9 DEF Safe, PipelineOK

\* What filter keeps of a read are bytes.
LEMMA KeptBytes ==
    ASSUME NEW s \in Seq(Chars)
    PROVE  kept(s) \in Seq(Bytes)
  <1>1. s \in Seq(Bytes)
    <2>1. Chars \subseteq Bytes
      BY ShellAssumption
    <2> QED
      BY <2>1
  <1> QED
    BY <1>1, KeptType

\* filter_read: Left is in the foreground only while the shell is not at its
\* prompt, unless the line has a pipe and an &.
LEMMA FilterReadSafe ==
    ASSUME Safe, tty \in Terminal, filter_read
    PROVE  Safe'
  <1>1. PICK a : /\ a = fd_read_terminal(tty, Left, BUF_SIZE, InForeground(Left))
                 /\ Runs(Left) /\ Answered(Left, a) /\ buf' = kept(a.bytes)
                 /\ \E b : Goto(Left, "read", b)
                 /\ UNCHANGED <<line, fds>>
    BY DEF filter_read
  <1>2. DOMAIN pc' = Pids /\ pc'[Shell] = pc[Shell]
    BY <1>1, ThreePids DEF Goto, Safe, PipelineOK
  <1>3. PICK fg \in BOOLEAN : fg <=> InForeground(Left)
    OBVIOUS
  <1>4. Reads(tty, Left, fg, a)
    <2>1. a = fd_read_terminal(tty, Left, BUF_SIZE, fg)
      BY <1>1, <1>3 DEF fd_read_terminal
    <2> QED
      BY <2>1, TerminalReads, PidsAreReaders
  <1>5. fg <=> line.pipe \/ ~line.bg
    BY <1>3, ThreePids DEF InForeground
  <1>6. /\ WhereOK(pc[Shell], line, process[Left], process[Right])
        /\ ShellOK(pc[Shell], process[Shell], fds)
        /\ ChildOK(process[Left]) /\ RightOK(process[Right]) /\ TtyOK(tty, line, process)
    BY DEF Safe, PipelineOK
  <1>7. /\ KernelOK' /\ tty' = a.tty
        /\ \A q \in Pids \ {Left} : process'[q] = process[q]
        /\ PCBIs(process'[Left], IF a.sleeps THEN "BLOCKED" ELSE "READY",
                 process[Left].fd, process[Left].own, Nowhere)
        /\ ~a.sleeps => process'[Left] = process[Left]
    <2>1. process[Left].at = Nowhere /\ a.sleeps \in BOOLEAN
      BY <1>1, <1>4, <1>6 DEF ChildOK, Reads, Runs
    <2> QED
      BY <1>1, <2>1, AnswerKernel, ThreePids DEF Safe
  <1>8. process'[Shell] = process[Shell] /\ process'[Right] = process[Right] /\ RestWoke(Left)
    BY <1>7, ThreePids, SelfWoke DEF RestWoke
  <1>9. process[Left].state = "READY" /\ process'[Left].state # "FREE"
    BY <1>1, <1>7 DEF Runs, PCBIs
  <1>10. buf' \in Seq(Bytes)
    BY <1>1, <1>4, KeptBytes DEF Reads
  <1>11. ChildOK(process'[Left])
    BY <1>6, <1>7, <1>9 DEF ChildOK, PCBIs
  <1>12. AtTerminal(process'[Left]) <=> a.sleeps
    BY <1>4, <1>7 DEF AtTerminal, PCBIs, Reads
  <1>13. WhereOK(pc[Shell], line, process'[Left], process[Right])
    <2>1. a.sleeps => fg
      BY <1>4 DEF Reads
    <2> QED
      BY <1>5, <1>6, <1>9, <1>12, <2>1, Zenon
      DEF WhereOK, ShellPcs, PipePcs, Early, Between, NotBorn, Gone, NotStarted
  <1>14. fg /\ ~(line.pipe /\ line.bg) => \A p \in Pids : ~AtTerminal(process[p])
    <2>1. ~AtTerminal(process[Left]) /\ ~AtTerminal(process[Right])
      BY <1>6, <1>9 DEF AtTerminal, RightOK
    <2>2. fg /\ ~(line.pipe /\ line.bg) => pc[Shell] # "prompt"
      BY <1>5, <1>6, <1>9, Zenon DEF WhereOK, Gone
    <2>3. AtTerminal(process[Shell]) => pc[Shell] = "prompt"
      BY <1>6 DEF ShellOK, AtTerminal
    <2> QED
      BY <2>1, <2>2, <2>3, ThreePids
  <1>15. TtyOK(tty', line, process')
    <2>1. CASE a.sleeps
      <3>1. fg /\ tty'.waiting = Left /\ NeedsInput(tty')
        BY <1>4, <1>7, <2>1 DEF Reads
      <3> QED
        BY <1>7, <1>8, <1>12, <1>14, <2>1, <3>1, ThreePids DEF TtyOK
    <2>2. CASE ~a.sleeps /\ fg
      <3>1. tty'.waiting = tty.waiting
        BY <1>4, <1>7, <2>2 DEF Reads
      <3>2. \A p \in Pids : process'[p] = process[p]
        BY <1>7, <2>2
      <3>3. ~(line.pipe /\ line.bg) => tty.waiting = Nobody
        <4>1. tty.waiting \in Readers \cup {Nobody}
          BY DEF Terminal
        <4> QED
          BY <1>6, <1>14, <2>2, <4>1, ThreePids DEF TtyOK
      <3> QED
        BY <1>6, <1>14, <2>2, <3>1, <3>2, <3>3 DEF TtyOK
    <2>3. CASE ~fg
      <3>1. tty' = tty /\ ~a.sleeps
        BY <1>4, <1>7, <2>3 DEF Reads
      <3>2. \A p \in Pids : process'[p] = process[p]
        BY <1>7, <3>1
      <3> QED
        BY <1>6, <3>1, <3>2 DEF TtyOK
    <2> QED
      BY <2>1, <2>2, <2>3
  <1> QED
    BY <1>1, <1>2, <1>6, <1>7, <1>8, <1>10, <1>11, <1>13, <1>15, ByLeft DEF Safe

\* A read or a write at a pipe.
LEMMA PassTerminal ==
    ASSUME NEW p \in Pids, Passes(p), process[p].state = "READY", ChildOK(process[p])
    PROVE  /\ ~AtTerminal(process'[p]) /\ ~AtTerminal(process[p])
           /\ ChildOK(process'[p]) /\ process'[p].state # "FREE"
  <1>1. CASE process'[p] = process[p]
    BY <1>1 DEF AtTerminal
  <1>2. CASE process'[p].state = "BLOCKED" /\ process'[p].at \in PipeIds \X Sides
    <2>1. process'[p].at # Nowhere
      BY <1>2, PlacesIn
    <2> QED
      BY <1>2, <2>1 DEF AtTerminal, ChildOK, Passes
  <1> QED
    BY <1>1, <1>2 DEF Passes

\* filter_write: to the screen or into the pipe.
LEMMA FilterWriteSafe ==
    ASSUME Safe, filter_write
    PROVE  Safe'
  <1>1. /\ UNCHANGED <<tty, line, fds>> /\ buf' = <<>> /\ Runs(Left)
        /\ Goto(Left, "write", "read")
        /\ UNCHANGED vars \/ sys_write(Left, process[Left].fd[1], buf)
    BY DEF filter_write, kbdVars
  <1>2. DOMAIN pc' = Pids /\ pc'[Shell] = pc[Shell] /\ buf' \in Seq(Bytes)
    BY <1>1, ThreePids DEF Goto, Safe, PipelineOK
  <1>3. /\ WhereOK(pc[Shell], line, process[Left], process[Right])
        /\ ShellOK(pc[Shell], process[Shell], fds)
        /\ ChildOK(process[Left]) /\ buf \in Seq(Bytes)
    BY DEF Safe, PipelineOK
  <1>4. Passes(Left)
    <2>1. CASE UNCHANGED vars
      BY <2>1, KernelSame, SelfWoke DEF Passes, Safe, RestWoke
    <2>2. CASE sys_write(Left, process[Left].fd[1], buf)
      BY <1>1, <1>3, <2>2, WritePasses, ThreePids DEF Safe, ChildOK, Runs
    <2> QED
      BY <1>1, <2>1, <2>2
  <1>5. /\ ~AtTerminal(process'[Left]) /\ ~AtTerminal(process[Left])
        /\ ChildOK(process'[Left]) /\ process'[Left].state # "FREE"
    BY <1>1, <1>3, <1>4, PassTerminal, ThreePids DEF Runs
  <1>6. WhereOK(pc[Shell], line, process'[Left], process[Right])
    BY <1>1, <1>3, <1>5, Zenon
    DEF WhereOK, ShellPcs, PipePcs, Early, Between, NotBorn, Gone, NotStarted, Runs
  <1>7. TtyOK(tty', line, process')
    BY <1>1, <1>4, <1>5, SameReaders, ThreePids DEF Safe, Passes
  <1> QED
    BY <1>1, <1>2, <1>3, <1>4, <1>5, <1>6, <1>7, ByLeft DEF Safe, Passes

\* wc_read
LEMMA WcReadSafe ==
    ASSUME Safe, wc_read
    PROVE  Safe'
  <1>1. /\ UNCHANGED <<tty, line, fds, buf>> /\ Runs(Right)
        /\ \E b : Goto(Right, "read", b)
        /\ sys_read(Right, process[Right].fd[0], BUF_SIZE)
    BY Zenon DEF wc_read, kbdVars
  <1>2. DOMAIN pc' = Pids /\ pc'[Shell] = pc[Shell]
    BY <1>1, ThreePids DEF Goto, Safe, PipelineOK
  <1>3. /\ WhereOK(pc[Shell], line, process[Left], process[Right])
        /\ ShellOK(pc[Shell], process[Shell], fds)
        /\ RightOK(process[Right]) /\ ChildOK(process[Right]) /\ BUF_SIZE \in Nat
    BY PidsAreReaders, KeyboardAssumption DEF Safe, PipelineOK, RightOK
  <1>4. Passes(Right)
    BY <1>1, <1>3, ReadPasses, ThreePids DEF Safe, ChildOK, Runs
  <1>5. /\ ~AtTerminal(process'[Right]) /\ ~AtTerminal(process[Right])
        /\ ChildOK(process'[Right]) /\ process'[Right].state # "FREE"
    BY <1>1, <1>3, <1>4, PassTerminal, ThreePids DEF Runs
  <1>6. WhereOK(pc[Shell], line, process[Left], process'[Right])
    BY <1>1, <1>3, <1>5, Zenon
    DEF WhereOK, ShellPcs, PipePcs, Early, Between, NotBorn, Gone, NotStarted, Runs
  <1>7. TtyOK(tty', line, process')
    BY <1>1, <1>4, <1>5, SameReaders, ThreePids DEF Safe, Passes
  <1> QED
    BY <1>1, <1>2, <1>3, <1>4, <1>5, <1>6, <1>7, ByRight DEF Safe, Passes, RightOK

\* A key that is no interrupt wakes whoever the driver points to, or nobody.
LEMMA KeySafe ==
    ASSUME Safe, tty \in Terminal, mods \in Modifiers, NEW s, Key(s)
    PROVE  Safe'
  <1> DEFINE w == tty.waiting
  <1>1. /\ UNCHANGED <<pipe_table, fd_table, pc, line, fds, buf>>
        /\ tty' = handlePressedKey(tty, mods, s)
        /\ process' = [p \in Pids |-> IF p = w /\ p # tty'.waiting
                                        THEN [process[p] EXCEPT !.state = "READY"]
                                        ELSE process[p]]
    BY DEF Key, Press, program
  <1>2. KeyTold(tty, tty')
    BY <1>1, PressTold
  <1>3. process \in [Pids -> PCB]
    BY KernelIs DEF Safe
  <1>4. TtyOK(tty, line, process) /\ w \in Pids \cup {Nobody}
    BY ThreePids DEF Safe, PipelineOK, Terminal
  <1> HIDE DEF w
  <1>5. ASSUME NEW p \in Pids
        PROVE  /\ process'[p] \in PCB /\ process'[p].fd = process[p].fd
               /\ process'[p].own = process[p].own
               /\ \/ process'[p] = process[p] /\ ~(p = w /\ p # tty'.waiting)
                  \/ /\ p = w /\ p # tty'.waiting /\ AtTerminal(process[p])
                     /\ process'[p].at = Nowhere /\ process'[p].state = "READY"
    <2>1. CASE p = w /\ p # tty'.waiting
      <3>1. process'[p] = [process[p] EXCEPT !.state = "READY"] /\ AtTerminal(process[p])
        BY <1>1, <1>4, <2>1 DEF TtyOK, w
      <3>2. process[p] \in PCB
        BY <1>3
      <3>3. /\ process'[p] \in PCB
            /\ PCBIs(process'[p], "READY", process[p].fd, process[p].own, process[p].at)
        <4>1. "READY" \in {"READY", "BLOCKED", "FREE"}
          OBVIOUS
        <4> QED
          BY <3>1, <3>2, <4>1, StateSet
      <3> QED
        BY <2>1, <3>1, <3>3 DEF PCBIs, AtTerminal
    <2>2. CASE ~(p = w /\ p # tty'.waiting)
      BY <1>1, <1>3, <2>2
    <2> QED
      BY <2>1, <2>2
  <1>6. process' \in [Pids -> PCB]
    <2>1. process' = [p \in Pids |-> process'[p]]
      BY <1>1
    <2> QED
      BY <1>5, <2>1
  <1>7. KernelOK'
    BY <1>1, <1>5, <1>6, StatesOnly DEF Safe, AtTerminal
  <1>8. /\ WhereOK(pc[Shell], line, process[Left], process[Right])
        /\ ShellOK(pc[Shell], process[Shell], fds)
        /\ ChildOK(process[Left]) /\ RightOK(process[Right])
    BY DEF Safe, PipelineOK
  <1>9. ShellOK(pc[Shell], process'[Shell], fds)
    BY <1>5, <1>8, ThreePids DEF ShellOK, AtTerminal
  <1>10. ChildOK(process'[Left]) /\ RightOK(process'[Right])
    BY <1>5, <1>8, ThreePids DEF ChildOK, RightOK, AtTerminal
  <1>11. WhereOK(pc[Shell], line, process'[Left], process'[Right])
    <2>1. process'[Right] = process[Right]
      BY <1>5, <1>8, ThreePids DEF RightOK
    <2>2. CASE process'[Left] = process[Left]
      BY <1>8, <2>1, <2>2
    <2>3. CASE AtTerminal(process[Left]) /\ process'[Left].state = "READY"
      BY <1>8, <2>1, <2>3, NewIsNot, Zenon
      DEF WhereOK, ShellPcs, PipePcs, Early, Between, NotBorn, Gone, NotStarted, AtTerminal
    <2> QED
      BY <1>5, <2>2, <2>3, ThreePids
  <1>12. TtyOK(tty', line, process')
    <2>1. ASSUME NEW p \in Pids
          PROVE  AtTerminal(process'[p]) <=> AtTerminal(process[p]) /\ ~(p = w /\ p # tty'.waiting)
      BY <1>5 DEF AtTerminal
    <2>2. CASE tty'.waiting = Nobody
      BY <1>4, <2>1, <2>2, ThreePids DEF TtyOK, w
    <2>3. CASE tty'.waiting = w /\ (NeedsInput(tty) => NeedsInput(tty'))
      BY <1>4, <2>1, <2>3, ThreePids DEF TtyOK, w
    <2> QED
      BY <1>2, <2>2, <2>3 DEF KeyTold, w
  <1> QED
    BY <1>1, <1>7, <1>9, <1>10, <1>11, <1>12 DEF Safe, PipelineOK

-----------------------------------------------------------------------------
(*****************************************************************************)
(* The theorems.                                                             *)
(*****************************************************************************)

\* The prompt, with a line just read.
LEMMA SafeInit == LInit => Safe
  <1> SUFFICES ASSUME LInit
               PROVE  Safe
    OBVIOUS
  <1>1. KernelOK
    <2>1. Fresh(Kernel)
      BY InitFresh DEF LInit
    <2>2. AllClean(Kernel)
      <3>1. \A i \in PipeIds : Kernel.pipes[i].in_use = FALSE
        BY <2>1, ResetIs DEF Fresh, PipeIs
      <3> QED
        BY <3>1 DEF AllClean, Clean
    <2> QED
      BY <2>1, <2>2, FreshInv, KernelTyped DEF KernelOK, Fresh
  <1>2. /\ PCBIs(process[Shell], "READY", [n \in 0..1 |-> n], {}, Nowhere)
        /\ PCBIs(process[Left], "FREE", [n \in 0..1 |-> NULL], {}, New)
        /\ PCBIs(process[Right], "FREE", [n \in 0..1 |-> NULL], {}, New)
    <2>1. Shell \in Started /\ Left \notin Started /\ Right \notin Started
      BY ShellAssumption
    <2> QED
      BY <2>1, ThreePids DEF LInit, Init, PCBIs
  <1>3. DOMAIN pc = Pids /\ pc[Shell] = "line" /\ buf = <<>> /\ tty.waiting = Nobody
    BY ThreePids DEF LInit, KInit
  <1>4. WhereOK("line", line, process[Left], process[Right])
    BY <1>2
    DEF WhereOK, PCBIs, ShellPcs, PipePcs, Early, Between, NotBorn, Gone, NotStarted, AtTerminal
  <1>5. ShellOK("line", process[Shell], fds)
    <2>1. process[Shell].fd[0] = 0 /\ process[Shell].fd[1] = 1
      BY <1>2 DEF PCBIs
    <2> QED
      BY <1>2, <2>1 DEF ShellOK, PCBIs, Both, One, FD_STDIN, FD_STDOUT
  <1>6. ChildOK(process[Left]) /\ RightOK(process[Right])
    BY <1>2 DEF ChildOK, RightOK, PCBIs, AtTerminal
  <1>7. \A p \in Pids : ~AtTerminal(process[p])
    BY <1>2, ThreePids DEF AtTerminal, PCBIs
  <1>8. TtyOK(tty, line, process)
    BY <1>3, <1>7, ThreePids DEF TtyOK
  <1> QED
    BY <1>1, <1>3, <1>4, <1>5, <1>6, <1>8 DEF Safe, PipelineOK

\* Every step of the shell keeps the invariant ...
LEMMA ProcessLineSafe ==
    ASSUME Safe, tty \in Terminal, processLine
    PROVE  Safe'
  BY DispatchSafe, ModeSafe, CreateSafe, WaitSafe, PipeSafe, CheckSafe, CreateBothSafe,
     KillLeftSafe, CloseSafe, SetupSafe, UnblockSafe
  DEF processLine, handle_pipe

\* ... and every step of anybody.
LEMMA SafeStep ==
    ASSUME Safe, IInv, [LNext]_allVars
    PROVE  Safe'
  <1>0. tty \in Terminal /\ mods \in Modifiers
    BY DEF IInv, LineOK
  <1>1. CASE processLine
    BY <1>0, <1>1, ProcessLineSafe
  <1>2. CASE shellReadLine
    BY <1>0, <1>2, PromptSafe
  <1>3. CASE LeftStep
    BY <1>0, <1>3, FilterReadSafe, FilterWriteSafe, ExitSafe DEF LeftStep
  <1>4. CASE RightStep
    BY <1>0, <1>4, WcReadSafe, ExitSafe DEF RightStep
  <1>5. CASE type \/ CtrlD
    BY <1>0, <1>5, KeySafe DEF type, CtrlD
  <1>6. CASE CtrlC
    <2>1. Killed(Left) \/ Killed(Right)
      BY <1>6 DEF CtrlC, Interrupt, KillTargets
    <2> QED
      BY <1>0, <2>1, KilledSafe
  <1>7. CASE \E p \in {Left, Right} : kill(p)
    <2>1. Killed(Left) \/ Killed(Right)
      BY <1>7 DEF kill
    <2> QED
      BY <1>0, <2>1, KilledSafe
  <1>8. CASE UNCHANGED allVars
    <2>1. KernelOK' /\ UNCHANGED <<process, tty, line, fds, buf, pc>>
      BY <1>8, KernelSame DEF allVars, kbdVars, program, Safe
    <2> QED
      BY <2>1 DEF Safe, PipelineOK
  <1> QED
    BY <1>1, <1>2, <1>3, <1>4, <1>5, <1>6, <1>7, <1>8 DEF LNext

\* The tables of the kernel, the driver and the three processes fit together in
\* every state of a line, whatever fails and whoever is killed.
THEOREM ShellInvariance == LSpec => [](Safe /\ IInv)
  <1>1. LInit => Safe /\ IInv /\ TypedOK
    <2>1. LInit => KInit /\ TypedOK
      BY ShellAssumption DEF LInit, TypedOK
    <2> QED
      BY <2>1, SafeInit, InitIInv
  <1>2. Safe /\ IInv /\ TypedOK /\ [LNext]_allVars => Safe' /\ IInv' /\ TypedOK'
    <2> SUFFICES ASSUME Safe, IInv, TypedOK, [LNext]_allVars
                 PROVE  Safe' /\ IInv' /\ TypedOK'
      OBVIOUS
    <2>1. Safe'
      BY SafeStep
    <2>2. [KNext]_kbdVars /\ TypedOK'
      BY EveryStep
    <2> QED
      BY <2>1, <2>2, NextIInv
  <1> QED
    BY <1>1, <1>2, PTL DEF LSpec

\* The driver's pointer is to the one process that sleeps in a read of the
\* terminal: a key wakes whoever needs it and nobody else.
THEOREM ShellForgetsNobody == LSpec => []NobodyForgotten
  <1>1. Safe /\ IInv => NobodyForgotten
    <2> SUFFICES ASSUME Safe, IInv, ~(line.pipe /\ line.bg)
                 PROVE  {p \in Pids : process[p].state = "BLOCKED" /\ process[p].at = Nowhere}
                            = {tty.waiting} \ {Nobody}
      BY DEF NobodyForgotten, OneReader
    <2>1. tty.waiting \in Pids \cup {Nobody}
      BY ThreePids DEF IInv, LineOK, Terminal
    <2>2. \A p \in Pids : AtTerminal(process[p]) <=> tty.waiting = p
      BY DEF Safe, PipelineOK, TtyOK
    <2> QED
      BY <2>1, <2>2, ThreePids DEF AtTerminal
  <1> QED
    BY <1>1, ShellInvariance, PTL

\* Whoever sleeps at the terminal has nothing to read there: neither a change of
\* mode nor a key leaves it asleep with its line or its characters.
THEOREM ShellSleepersNeedInput == LSpec => []SleeperNeedsInput
  <1>1. Safe => SleeperNeedsInput
    BY DEF Safe, PipelineOK, TtyOK, SleeperNeedsInput, OneReader, NeedsInput
  <1> QED
    BY <1>1, ShellInvariance, PTL

\* When everybody is gone the references that are left are the shell's, to the
\* terminal.
LEMMA NobodyHolds ==
    ASSUME Safe, Over, NEW f \in Fds, fd_table[f].type \in Types
    PROVE  FALSE
  <1>1. /\ Kernel \in Tables /\ Inv(Kernel) /\ Kernel.procs = process
        /\ Kernel.fds = fd_table
    BY KernelIs DEF Safe
  <1>2. Live(Kernel, Refs(Kernel), {}) /\ Terminals(Kernel) /\ Unopened(Kernel)
    BY <1>1 DEF Inv, Fine
  <1>3. PICK x \in Refs(Kernel) : x[1] = f
    BY <1>1, <1>2 DEF Live, RefsTo
  <1>4. /\ x \in Fds \X Pids \X (0..2)
        /\ IF x[3] = 2 THEN x[1] \in process[x[2]].own ELSE process[x[2]].fd[x[3]] = x[1]
    BY <1>1, <1>3 DEF Refs
  <1>5. x[2] \in Pids /\ x[3] \in {0, 1, 2} /\ f # NULL
    BY <1>4, IdsAreNat
  <1>6. /\ ShellOK("prompt", process[Shell], fds) /\ process[Left].own = {}
        /\ process[Right].own = {} /\ process[Left].state = "FREE"
        /\ process[Right].state = "FREE"
    BY DEF Safe, PipelineOK, Over, Alive, ChildOK, RightOK
  <1>7. CASE x[2] = Shell
    <2>1. /\ process[Shell].own = {} /\ process[Shell].fd[0] = FD_STDIN
          /\ process[Shell].fd[1] = FD_STDOUT
      BY <1>6 DEF ShellOK, Both, One
    <2>2. f = FD_STDIN \/ f = FD_STDOUT
      BY <1>3, <1>4, <1>5, <1>7, <2>1
    <2> QED
      BY <1>1, <1>2, <2>2 DEF Terminals, Types
  <1>8. CASE x[2] = Left \/ x[2] = Right
    <2>1. /\ process[x[2]].own = {} /\ process[x[2]].fd[0] = NULL
          /\ process[x[2]].fd[1] = NULL
      BY <1>1, <1>2, <1>5, <1>6, <1>8 DEF Unopened
    <2> QED
      BY <1>3, <1>4, <1>5, <2>1
  <1> QED
    BY <1>5, <1>7, <1>8, ThreePids

\* When the line is over no pipe is in use and no descriptor but stdin and
\* stdout is taken, on the error paths of handle_pipe too.
THEOREM ShellLeavesNothing == LSpec => []NothingLeftOpen
  <1>1. Safe => NothingLeftOpen
    <2> SUFFICES ASSUME Safe, Over
                 PROVE  /\ \A i \in PipeIds : ~pipe_table[i].in_use
                        /\ \A f \in Fds \ {FD_STDIN, FD_STDOUT} : fd_table[f].type = "NONE"
      BY DEF NothingLeftOpen
    <2>1. /\ Kernel \in Tables /\ Inv(Kernel) /\ AllClean(Kernel) /\ Kernel.procs = process
          /\ Kernel.fds = fd_table /\ Kernel.pipes = pipe_table
      BY KernelIs DEF Safe
    <2>2. ASSUME NEW i \in PipeIds, pipe_table[i].in_use
          PROVE  FALSE
      <3>1. HeldIn(Kernel, i)
        BY <2>1, <2>2, HeldIsOpen DEF AllClean
      <3>2. PICK p \in Pids :
               \E f \in process[p].own \cup ({process[p].fd[0], process[p].fd[1]} \ {NULL}) :
                   fd_table[f].type \in Types
        BY <2>1, <3>1 DEF HeldIn, Types
      <3>3. process[p] \in PCB
        BY KernelIs DEF Safe
      <3>4. PICK f \in Fds : fd_table[f].type \in Types
        BY <3>2, <3>3, PCBFields
      <3> QED
        BY <3>4, NobodyHolds
    <2>3. ASSUME NEW f \in Fds \ {FD_STDIN, FD_STDOUT}
          PROVE  fd_table[f].type = "NONE"
      <3>1. fd_table[f].type \notin Types
        BY NobodyHolds
      <3>2. fd_table[f].type # "TERMINAL"
        BY <2>1 DEF Inv, Fine, Terminals
      <3>3. fd_table[f] \in FD
        BY <2>1, TableTypes
      <3>4. fd_table[f].type \in {"NONE", "TERMINAL", "READ", "WRITE"}
        BY <3>3 DEF FD
      <3> QED
        BY <3>1, <3>2, <3>4 DEF Types
    <2> QED
      BY <2>2, <2>3
  <1> QED
    BY <1>1, ShellInvariance, PTL

\* The counts, the queues and the hopes of the pipes are right while a line runs,
\* though its read and its write sizes are none that Pipes' own run knows.
THEOREM ShellPipesSound == LSpec => [](EndsCounted /\ QueuesHoldSleepers /\ SleepersHaveHope)
  <1>1. Safe => EndsCounted /\ QueuesHoldSleepers /\ SleepersHaveHope
    BY InvSays DEF Safe, KernelOK
  <1> QED
    BY <1>1, ShellInvariance, PTL

\* The ring buffer is a queue while the shell, its commands and the user are at
\* work.
THEOREM ShellKeysInOrder == LSpec => KeysInOrder
  BY ShellUsesKeyboard, KeysStayInOrder, PTL

(***************************************************************************)
(* The pipe is a stream.  Every call but read and write keeps the bytes of *)
(* a pipe or resets a pipe that nobody holds (Quiet); a read takes a       *)
(* prefix of its tape and a write adds to the end.                         *)
(***************************************************************************)

\* The bytes of every pipe are where its indices say.
Wound(k) == \A i \in PipeIds : Spooled(k.pipes[i])

LEMMA SpooledStays ==
    ASSUME NEW c, NEW d, Spooled(c), Stays(c, d)
    PROVE  Spooled(d)
  <1>1. CASE SameBytes(c, d) /\ d.in_use = c.in_use
    BY <1>1 DEF SameBytes, Spooled
  <1>2. CASE SameBytes(pipe_reset, d)
    BY <1>2, ResetTape DEF SameBytes, Spooled
  <1> QED
    BY <1>1, <1>2 DEF Stays, Keeps, Reuses

\* A pipe that is not in use has no ends.
LEMMA UnusedUnheld ==
    ASSUME NEW k, Inv(k), NEW i \in PipeIds, ~k.pipes[i].in_use
    PROVE  EndRefs(k, Refs(k), i, "READ") = {} /\ EndRefs(k, Refs(k), i, "WRITE") = {}
  <1>1. \A f \in Fds : k.fds[f].type \in {"READ", "WRITE"} => k.pipes[k.fds[f].data].in_use
    BY DEF Inv, Fine, Counted
  <1>2. \A x \in Refs(k) : x[1] \in Fds
    BY DEF Refs
  <1> QED
    BY <1>1, <1>2 DEF EndRefs

\* A pipe that is in use has one.
LEMMA UsedHeld ==
    ASSUME NEW k \in Tables, Inv(k), NEW i \in PipeIds, Clean(k.pipes[i]), k.pipes[i].in_use
    PROVE  EndRefs(k, Refs(k), i, "READ") # {} \/ EndRefs(k, Refs(k), i, "WRITE") # {}
  BY OpenIsHeld DEF Inv, Fine, Clean

\* What the mapping makes of a step that leaves the bytes where they are.
LEMMA StaysEnds ==
    ASSUME NEW k \in Tables, NEW r \in Tables, Inv(r), AllClean(r), NEW i \in PipeIds,
           Spooled(k.pipes[i]), Stays(k.pipes[i], r.pipes[i])
    PROVE  /\ Spooled(r.pipes[i])
           /\ bytes_read(r, i, PIPE_BUFFER_SIZE) =
                IF EndRefs(r, Refs(r), i, "READ") # {} \/ EndRefs(r, Refs(r), i, "WRITE") # {}
                  THEN bytes_read(k, i, PIPE_BUFFER_SIZE) ELSE <<>>
  <1> DEFINE c == k.pipes[i]
             d == r.pipes[i]
  <1>1. c \in Pipe /\ d \in Pipe /\ Spooled(d)
    BY TableTypes, SpooledStays
  <1>2. bytes_read(r, i, PIPE_BUFFER_SIZE) = Tape(d) /\ bytes_read(k, i, PIPE_BUFFER_SIZE) = Tape(c)
    BY TapeRead
  <1>3. CASE ~d.in_use
    <2>1. d.count = 0
      BY <1>1, <1>3 DEF Spooled
    <2>2. Tape(d) = <<>>
      BY <1>1, <2>1, TapeIs
    <2> QED
      BY <1>1, <1>2, <1>3, <2>2, UnusedUnheld
  <1>4. CASE d.in_use
    <2>1. EndRefs(r, Refs(r), i, "READ") # {} \/ EndRefs(r, Refs(r), i, "WRITE") # {}
      BY <1>4, UsedHeld DEF AllClean
    <2>2. Tape(d) = Tape(c)
      <3>1. CASE SameBytes(c, d)
        BY <3>1, TapeSame
      <3>2. CASE Reuses(c, d)
        <4>1. Tape(d) = <<>>
          BY <3>2, TapeSame, ResetTape DEF Reuses
        <4>2. c.count = 0
          BY <3>2 DEF Reuses, Spooled
        <4>3. Tape(c) = <<>>
          BY <1>1, <4>2, TapeIs
        <4> QED
          BY <4>1, <4>3
      <3> QED
        BY <1>4, <3>1, <3>2 DEF Stays, Keeps
    <2> QED
      BY <1>1, <1>2, <2>1, <2>2
  <1> QED
    BY <1>3, <1>4

\* No byte moves.
Quiet == \A i \in PipeIds : Stays(pipe_table[i], pipe_table'[i])

LEMMA KernelWired ==
    ASSUME KernelOK
    PROVE  Wired(Kernel)
  BY KernelIs DEF Inv, Fine, Counted, Wired, Types

LEMMA StillQuiet == UNCHANGED pipe_table => Quiet
  BY DEF Quiet, Stays, Keeps, SameBytes

LEMMA KeptQuiet ==
    ASSUME NEW r, AllKept(Kernel, r), Store(r)
    PROVE  Quiet
  BY DEF AllKept, Store, Quiet, Stays, Kernel

LEMMA CloseQuiet ==
    ASSUME KernelOK, NEW p \in Pids, NEW f, sys_close(p, f)
    PROVE  Quiet
  <1>1. Kernel \in Tables /\ Wired(Kernel) /\ Kernel.procs = process /\ process \in [Pids -> PCB]
    BY KernelIs, KernelWired
  <1>2. f \in process[p].own /\ Store([fd_decref(Kernel, f) EXCEPT !.procs[p].own = @ \ {f}])
    BY DEF sys_close
  <1>3. f \in Fds
    BY <1>1, <1>2, PCBFields
  <1>4. AllKept(Kernel, [fd_decref(Kernel, f) EXCEPT !.procs[p].own = @ \ {f}])
    BY <1>1, <1>3, KeptClosed
  <1> QED
    BY <1>2, <1>4, KeptQuiet

LEMMA SetupQuiet ==
    ASSUME KernelOK, NEW p \in Pids, NEW child \in Pids, NEW f, NEW n \in 0..1,
           sys_pipe_setup(p, child, f, n)
    PROVE  Quiet
  <1>1. Kernel \in Tables /\ Wired(Kernel) /\ Kernel.procs = process /\ process \in [Pids -> PCB]
    BY KernelIs, KernelWired
  <1>2. f \in process[p].own /\ Store(redirect(Kernel, child, f, n))
    BY DEF sys_pipe_setup
  <1>3. f \in Fds
    BY <1>1, <1>2, PCBFields
  <1>4. AllKept(Kernel, redirect(Kernel, child, f, n))
    BY <1>1, <1>3, KeptRedirect
  <1> QED
    BY <1>2, <1>4, KeptQuiet

LEMMA DieQuiet ==
    ASSUME KernelOK, NEW p \in Pids, Die(p)
    PROVE  Quiet
  <1> DEFINE r == [process_release_fds(pipe_cleanup_for_process(Kernel, p), p) EXCEPT
                      !.procs[p].state = "FREE", !.procs[p].at = Nowhere]
  <1>1. Kernel \in Tables /\ Wired(Kernel)
    BY KernelIs, KernelWired
  <1>2. Store(r)
    BY DEF Die
  <1>3. AllKept(Kernel, r)
    BY <1>1, KeptDie, Zenon
  <1> HIDE DEF r
  <1> QED
    BY <1>2, <1>3, KeptQuiet

LEMMA CreateQuiet ==
    ASSUME KernelOK, NEW p \in Pids, NEW child \in Pids, sys_create_process(p, child)
    PROVE  Quiet
  <1>1. AllKept(Kernel, process_create(Kernel, child))
    BY KernelIs, KernelWired, KeptCreate
  <1>2. Store(process_create(Kernel, child))
    BY DEF sys_create_process
  <1> QED
    BY <1>1, <1>2, KeptQuiet

\* The processes of the line are made ready at once.
LEMMA CreateReadyQuiet ==
    ASSUME KernelOK, NEW p \in Pids,
           \E k \in {process_create(Kernel, p)} :
               Store([k EXCEPT !.procs[p].state = "READY", !.procs[p].at = Nowhere])
    PROVE  Quiet
  <1> DEFINE k == process_create(Kernel, p)
  <1>1. AllKept(Kernel, k)
    BY KernelIs, KernelWired, KeptCreate
  <1>2. Store([k EXCEPT !.procs[p].state = "READY", !.procs[p].at = Nowhere])
    OBVIOUS
  <1> HIDE DEF k
  <1>3. [k EXCEPT !.procs[p].state = "READY", !.procs[p].at = Nowhere].pipes = k.pipes
    BY <1>1 DEF AllKept, Tables
  <1>4. pipe_table' = k.pipes
    BY <1>2, <1>3 DEF Store
  <1> QED
    BY <1>1, <1>4 DEF AllKept, Quiet, Stays, Kernel

LEMMA OpenQuiet ==
    ASSUME KernelOK, NEW p \in Pids, NEW name \in Names \cup {Anonymous}, sys_pipe_open(p, name)
    PROVE  Quiet
  <1> DEFINE i == pipe_slot(Kernel, name)
             m == pipe_open(Kernel, name)
             r == pipe_create_fds(m, p, i)
  <1>1. i # NULL /\ Store(r)
    BY DEF sys_pipe_open
  <1>2. Kernel \in Tables /\ Wired(Kernel)
    BY KernelIs, KernelWired
  <1>3. /\ m \in Tables /\ Wired(m) /\ i \in PipeIds
        /\ \A j \in PipeIds : Stays(Kernel.pipes[j], m.pipes[j])
    BY <1>1, <1>2, StaysOpen
  <1> HIDE DEF m, i
  <1>4. AllKept(m, r)
    BY <1>3, KeptBothEnds
  <1> HIDE DEF r
  <1>5. \A j \in PipeIds : Stays(Kernel.pipes[j], r.pipes[j])
    BY <1>3, <1>4, StaysKept DEF AllKept
  <1> QED
    BY <1>1, <1>5 DEF Store, Quiet, Kernel

LEMMA ProcessLineQuiet ==
    ASSUME KernelOK, processLine
    PROVE  Quiet
  <1>1. Shell \in Pids /\ Left \in Pids /\ Right \in Pids /\ 0 \in 0..1 /\ 1 \in 0..1
    BY ThreePids
  <1>2. CASE dispatch \/ wait \/ check \/ cooked \/ raw
    <2>1. UNCHANGED pipe_table
      BY <1>2, Zenon DEF dispatch, wait, check, cooked, raw, vars
    <2> QED
      BY <2>1, StillQuiet
  <1>3. CASE create
    <2>1. CASE UNCHANGED vars
      BY <2>1, StillQuiet DEF vars
    <2>2. CASE \E k \in {process_create(Kernel, Left)} :
                  Store([k EXCEPT !.procs[Left].state = "READY", !.procs[Left].at = Nowhere])
      BY <1>1, <2>2, CreateReadyQuiet, Zenon
    <2> QED
      BY <1>3, <2>1, <2>2, Zenon DEF create
  <1>4. CASE pipe
    <2>1. sys_pipe_open(Shell, Anonymous) \/ UNCHANGED vars
      BY <1>4 DEF pipe
    <2> QED
      BY <1>1, <2>1, OpenQuiet, StillQuiet DEF vars
  <1>5. CASE create_both
    <2>1. sys_create_process(Shell, Left) \/ sys_create_process(Shell, Right) \/ UNCHANGED vars
      BY <1>5, Zenon DEF create_both
    <2> QED
      BY <1>1, <2>1, CreateQuiet, StillQuiet DEF vars
  <1>6. CASE kill_left
    <2>1. Die(Left) \/ UNCHANGED vars
      BY <1>6, Zenon DEF kill_left, Dies
    <2> QED
      BY <1>1, <2>1, DieQuiet, StillQuiet DEF vars
  <1>7. CASE undo \/ close
    <2>1. \E f : sys_close(Shell, f)
      BY <1>7, Zenon DEF undo, close
    <2> QED
      BY <1>1, <2>1, CloseQuiet
  <1>8. CASE setup
    <2>1. \/ sys_pipe_setup(Shell, Left, fds[2], 1)
          \/ sys_pipe_setup(Shell, Right, fds[1], 0)
          \/ UNCHANGED vars
      BY <1>8, Zenon DEF setup, IfAlive
    <2> QED
      BY <1>1, <2>1, SetupQuiet, StillQuiet DEF vars
  <1>9. CASE unblock
    <2>1. UNCHANGED pipe_table
      BY <1>9, Zenon DEF unblock, IfAlive, Start, vars
    <2> QED
      BY <2>1, StillQuiet
  <1> QED
    BY <1>2, <1>3, <1>4, <1>5, <1>6, <1>7, <1>8, <1>9 DEF processLine, handle_pipe

\* Every other step, but a write of filter and a read of wc.
LEMMA OthersQuiet ==
    ASSUME KernelOK, [LNext]_allVars, ~filter_write, ~wc_read
    PROVE  Quiet
  <1>1. Left \in Pids /\ Right \in Pids
    BY ThreePids
  <1>2. CASE UNCHANGED allVars
    BY <1>2, StillQuiet DEF allVars, vars
  <1>3. CASE processLine
    BY <1>3, ProcessLineQuiet
  <1>4. CASE shellReadLine \/ filter_read
    <2>1. UNCHANGED pipe_table
      BY <1>4 DEF shellReadLine, filter_read, Answered
    <2> QED
      BY <2>1, StillQuiet
  <1>5. CASE exit(Left) \/ exit(Right)
    BY <1>1, <1>5, DieQuiet DEF exit, Dies
  <1>6. CASE type \/ CtrlD
    <2>1. UNCHANGED pipe_table
      BY <1>6 DEF type, CtrlD, Key
    <2> QED
      BY <2>1, StillQuiet
  <1>7. CASE CtrlC
    <2>1. \E p \in {Left, Right} : Die(p)
      BY <1>7 DEF CtrlC, Interrupt, KillTargets, Killed, Dies
    <2> QED
      BY <1>1, <2>1, DieQuiet
  <1>8. CASE \E p \in {Left, Right} : kill(p)
    BY <1>1, <1>8, DieQuiet DEF kill, Killed, Dies
  <1> QED
    BY <1>2, <1>3, <1>4, <1>5, <1>6, <1>7, <1>8 DEF LNext, LeftStep, RightStep

\* The stream as the mapping sees it.
Bytes0 == bytes_read(Kernel, 0, PIPE_BUFFER_SIZE)
CanRead == EndRefs(Kernel, Refs(Kernel), 0, "READ") # {}
CanWrite == EndRefs(Kernel, Refs(Kernel), 0, "WRITE") # {}

StreamStep == \/ AsStream!Write \/ AsStream!Read \/ AsStream!Ends
              \/ UNCHANGED <<Bytes0, CanRead, CanWrite>>

LEMMA EndsIs ==
    ASSUME Bytes0' = IF CanRead' \/ CanWrite' THEN Bytes0 ELSE <<>>
    PROVE  AsStream!Ends
  BY DEF AsStream!Ends, Bytes0, CanRead, CanWrite

LEMMA QuietEnds ==
    ASSUME KernelOK, KernelOK', Wound(Kernel), Quiet
    PROVE  StreamStep /\ Wound(Kernel)'
  <1> DEFINE k == Kernel
             r == Kernel'
  <1>1. k \in Tables /\ k.pipes = pipe_table
    BY KernelIs
  <1>2. r \in Tables /\ Inv(r) /\ AllClean(r) /\ r.pipes = pipe_table'
    BY DEF KernelOK, Kernel, Tables, TypeOK
  <1>3. 0 \in PipeIds
    BY PipesAssumption DEF PipeIds
  <1> HIDE DEF k, r
  <1>4. \A i \in PipeIds :
          /\ Spooled(r.pipes[i])
          /\ bytes_read(r, i, PIPE_BUFFER_SIZE) =
               IF EndRefs(r, Refs(r), i, "READ") # {} \/ EndRefs(r, Refs(r), i, "WRITE") # {}
                 THEN bytes_read(k, i, PIPE_BUFFER_SIZE) ELSE <<>>
    <2> TAKE i \in PipeIds
    <2>1. Spooled(k.pipes[i]) /\ Stays(k.pipes[i], r.pipes[i])
      BY <1>1, <1>2 DEF Wound, Quiet, k
    <2> QED
      BY <1>1, <1>2, <2>1, StaysEnds
  <1>5. Bytes0' = IF CanRead' \/ CanWrite' THEN Bytes0 ELSE <<>>
    BY <1>3, <1>4 DEF Bytes0, CanRead, CanWrite, k, r
  <1> QED
    BY <1>4, <1>5, EndsIs DEF StreamStep, Wound, r

\* Only the queues, the bytes and the processes change.
LEMMA FdsStay ==
    ASSUME NEW k \in Tables, NEW i, NEW p
    PROVE  /\ \A n : pipe_read(k, p, i, n).fds = k.fds
           /\ \A b : pipe_write(k, p, i, b).fds = k.fds
  <1> DEFINE fixed(r) == r.fds = k.fds /\ DOMAIN r = DOMAIN k
  <1>1. DOMAIN k = {"pipes", "fds", "procs"}
    BY DEF Tables
  <1>2. ASSUME NEW r, fixed(r), NEW v, NEW W
        PROVE  fixed([r EXCEPT !.pipes = v]) /\ fixed(process_unblock(r, W))
    BY <1>1, <1>2 DEF process_unblock
  <1>3. ASSUME NEW r, fixed(r)
        PROVE  fixed(pipe_wake_reader(r, i)) /\ fixed(pipe_wake_writer(r, i))
    <2> DEFINE a == [r EXCEPT !.pipes[i].wait_readers = Tail(@)]
               e == [r EXCEPT !.pipes[i].wait_writers = Tail(@)]
    <2>1. fixed(a) /\ fixed(e)
      BY <1>1, <1>3
    <2> HIDE DEF a, e
    <2>2. fixed(process_unblock(a, {Head(r.pipes[i].wait_readers)}))
          /\ fixed(process_unblock(e, {Head(r.pipes[i].wait_writers)}))
      BY <1>2, <2>1
    <2> QED
      BY <1>3, <2>2 DEF pipe_wake_reader, pipe_wake_writer, a, e
  <1>4. fixed(k) /\ fixed(sleep_reading(k, p, i)) /\ fixed(sleep_writing(k, p, i))
    BY <1>1 DEF sleep_reading, sleep_writing
  <1>5. ASSUME NEW n
        PROVE  fixed(pipe_read(k, p, i, n))
    <2> DEFINE m == Least(n, k.pipes[i].count)
               r == [k EXCEPT !.pipes[i].read_idx = (@ + m) % PIPE_BUFFER_SIZE,
                              !.pipes[i].count = @ - m]
               q == pipe_read(k, p, i, n)
    <2>1. fixed(r)
      BY <1>1
    <2>2. q = pipe_wake_writer(r, i) \/ q = k \/ q = sleep_reading(k, p, i)
      BY DEF pipe_read
    <2> HIDE DEF r, q
    <2>3. fixed(pipe_wake_writer(r, i))
      BY <1>3, <2>1
    <2>4. fixed(q)
      <3> HIDE DEF fixed
      <3> QED
        BY <1>4, <2>2, <2>3
    <2> QED
      BY <2>4 DEF q
  <1>6. ASSUME NEW b
        PROVE  fixed(pipe_write(k, p, i, b))
    <2> DEFINE m == bytes_written(k, i, b)
               r == [k EXCEPT !.pipes[i].buffer = stored(k.pipes[i], b, m),
                              !.pipes[i].write_idx = (@ + m) % PIPE_BUFFER_SIZE,
                              !.pipes[i].count = @ + m]
               q == pipe_write(k, p, i, b)
    <2>1. fixed(r)
      <3> HIDE DEF m
      <3> QED
        BY <1>1
    <2>2. q = pipe_wake_reader(r, i) \/ q = k \/ q = sleep_writing(k, p, i)
      BY DEF pipe_write
    <2> HIDE DEF r, q
    <2>3. fixed(pipe_wake_reader(r, i))
      BY <1>3, <2>1
    <2>4. fixed(q)
      <3> HIDE DEF fixed
      <3> QED
        BY <1>4, <2>2, <2>3
    <2> QED
      BY <2>4 DEF q
  <1> QED
    BY <1>5, <1>6

\* Pipe i has become d, and the others stay.
Passed(k, r, i, d) ==
    /\ Spooled(r.pipes[i]) /\ Tape(r.pipes[i]) = Tape(d)
    /\ \A j \in PipeIds \ {i} : Stays(k.pipes[j], r.pipes[j])

LEMMA PassedPipe ==
    ASSUME NEW k, NEW r, NEW i \in PipeIds, NEW d, Passing(k, r, i, d), r.pipes[i].in_use, Spooled(d)
    PROVE  Passed(k, r, i, d)
  <1>1. PICK l \in Tables : /\ l.pipes[i] = d /\ d \in Pipe
                            /\ \A j \in PipeIds \ {i} : l.pipes[j] = k.pipes[j]
                            /\ AllKept(l, r)
    BY DEF Passing
  <1>2. \A j \in PipeIds : Keeps(l.pipes[j], r.pipes[j])
    BY <1>1 DEF AllKept
  <1>3. SameBytes(d, r.pipes[i])
    BY <1>1, <1>2 DEF Keeps
  <1>4. Spooled(r.pipes[i])
    BY <1>3 DEF SameBytes, Spooled
  <1>5. Tape(r.pipes[i]) = Tape(d)
    BY <1>3, TapeSame
  <1> QED
    BY <1>1, <1>2, <1>4, <1>5 DEF Stays, Passed

\* The state after a step, as a record of tables.
LEMMA KernelNext ==
    ASSUME KernelOK'
    PROVE  /\ Kernel' \in Tables /\ Inv(Kernel') /\ AllClean(Kernel')
           /\ Kernel'.procs = process' /\ Kernel'.fds = fd_table' /\ Kernel'.pipes = pipe_table'
  BY DEF KernelOK, Kernel, Tables, TypeOK

\* A call of p on a pipe leaves the ends to those who have them.
LEMMA SameHolders ==
    ASSUME KernelOK, NEW p \in Pids, Passes(p), fd_table' = fd_table, NEW i, NEW t
    PROVE  EndRefs(Kernel', Refs(Kernel'), i, t) = EndRefs(Kernel, Refs(Kernel), i, t)
  <1>1. /\ Kernel.procs = process /\ Kernel.fds = fd_table
        /\ Kernel'.procs = process' /\ Kernel'.fds = fd_table'
    BY KernelIs, KernelNext DEF Passes
  <1>2. \A q \in Pids : process'[q].fd = process[q].fd /\ process'[q].own = process[q].own
    BY DEF Passes, RestWoke, Woke
  <1>3. SameHolds(Kernel, Kernel')
    BY <1>1, <1>2 DEF SameHolds
  <1>4. Refs(Kernel') = Refs(Kernel)
    BY <1>3, SameRefs
  <1> QED
    BY <1>1, <1>4 DEF EndRefs

\* The pipe that a process reads or writes, before and after.
LEMMA UsedPipe ==
    ASSUME KernelOK, NEW p \in Pids, Passes(p), fd_table' = fd_table, NEW n \in 0..1,
           NEW t \in Types, NEW f, f = process[p].fd[n], f # NULL, fd_table[f].type = t,
           NEW i, i = fd_table[f].data
    PROVE  /\ f \in Fds /\ i \in PipeIds /\ pipe_table[i].in_use /\ pipe_table'[i].in_use
           /\ EndRefs(Kernel, Refs(Kernel), i, t) # {}
  <1>1. /\ Kernel \in Tables /\ Inv(Kernel) /\ process \in [Pids -> PCB]
        /\ Kernel.procs = process /\ Kernel.fds = fd_table /\ Kernel.pipes = pipe_table
        /\ Inv(Kernel') /\ Kernel'.fds = fd_table' /\ Kernel'.pipes = pipe_table'
    BY KernelIs, KernelNext DEF Passes
  <1>2. f \in Fds
    BY <1>1, PCBFields
  <1>3. i \in PipeIds /\ pipe_table[i].in_use
    BY <1>1, <1>2 DEF Inv, Fine, Counted, Types
  <1>4. pipe_table'[i].in_use
    BY <1>1, <1>2 DEF Inv, Fine, Counted, Types
  <1> DEFINE x == <<f, p, n>>
  <1>5. x \in Refs(Kernel)
    <2>1. n = 0 \/ n = 1
      BY IdsAreNat
    <2>2. CASE n = 0
      BY <1>1, <1>2, <2>2, InRefs
    <2>3. CASE n = 1
      BY <1>1, <1>2, <2>3, InRefs
    <2> QED
      BY <2>1, <2>2, <2>3
  <1>6. x \in EndRefs(Kernel, Refs(Kernel), i, t)
    BY <1>1, <1>5 DEF EndRefs
  <1> QED
    BY <1>2, <1>3, <1>4, <1>6

\* What a read of stdin takes from the pipe.
Took(p, f, i, m) ==
    /\ Passes(p) /\ fd_table' = fd_table /\ fd_table[f].type = "READ" /\ i \in PipeIds
    /\ Wound(Kernel')
    /\ \A j \in PipeIds \ {i} : Stays(pipe_table[j], pipe_table'[j])
    /\ pipe_table[i].count = 0 => Stays(pipe_table[i], pipe_table'[i])
    /\ pipe_table[i].count # 0 =>
          /\ m \in 1..pipe_table[i].count
          /\ Tape(pipe_table'[i]) =
               SubSeq(Tape(pipe_table[i]), m + 1, Len(Tape(pipe_table[i])))

\* What pipe_read takes from pipe i of the tables.
Taken(k, r, i, m) ==
    /\ Wound(r)
    /\ \A j \in PipeIds \ {i} : Stays(k.pipes[j], r.pipes[j])
    /\ k.pipes[i].count = 0 => Stays(k.pipes[i], r.pipes[i])
    /\ k.pipes[i].count # 0 =>
          /\ m \in 1..k.pipes[i].count
          /\ Tape(r.pipes[i]) = SubSeq(Tape(k.pipes[i]), m + 1, Len(Tape(k.pipes[i])))

LEMMA ReadTakes ==
    ASSUME NEW k \in Tables, Wired(k), Wound(k), NEW p \in Pids, NEW i \in PipeIds,
           NEW n \in Nat \ {0}, NEW r, r = pipe_read(k, p, i, n), r.pipes[i].in_use
    PROVE  r \in Tables /\ Taken(k, r, i, Least(n, k.pipes[i].count))
  <1> DEFINE c == k.pipes[i]
             m == Least(n, c.count)
  <1>1. Drains(k, r, i, n)
    BY ReadDrains
  <1>2. c \in Pipe /\ c.count \in Nat /\ Spooled(c)
    BY TableTypes, Sizes DEF Wound
  <1>3. \A j \in PipeIds : Spooled(k.pipes[j])
    BY DEF Wound
  <1>4. CASE c.count = 0
    <2>1. AllKept(k, r)
      BY ONLY <1>1, <1>2, <1>4 DEF Drains
    <2>2. r \in Tables /\ \A j \in PipeIds : Stays(k.pipes[j], r.pipes[j])
      BY ONLY <2>1 DEF AllKept, Stays
    <2>3. Wound(r)
      BY ONLY <1>3, <2>2, SpooledStays DEF Wound
    <2> QED
      BY <1>4, <2>2, <2>3 DEF Taken
  <1>5. CASE c.count # 0
    <2>1. PICK d : Out(c, d, m) /\ Passing(k, r, i, d)
      BY <1>1, <1>5, Zenon DEF Drains
    <2>2. m \in 1..c.count /\ m \in 0..c.count
      <3> HIDE DEF c
      <3> QED
        BY ONLY <1>2, <1>5, n \in Nat \ {0} DEF Least, m
    <2>3. d \in Pipe /\ r \in Tables
      BY ONLY <2>1, Zenon DEF Passing, AllKept
    <2> HIDE DEF m
    <2>4. Spooled(d) /\ Tape(d) = SubSeq(Tape(c), m + 1, Len(Tape(c)))
      BY ONLY <1>2, <2>1, <2>2, <2>3, OutTape
    <2>5. /\ Spooled(r.pipes[i]) /\ Tape(r.pipes[i]) = Tape(d)
          /\ \A j \in PipeIds \ {i} : Stays(k.pipes[j], r.pipes[j])
      <3>1. Passed(k, r, i, d)
        BY ONLY r.pipes[i].in_use, i \in PipeIds, <2>1, <2>4, PassedPipe
      <3> QED
        BY ONLY <3>1 DEF Passed
    <2>6. Wound(r)
      BY ONLY <1>3, <2>5, SpooledStays DEF Wound
    <2>7. Taken(k, r, i, m)
      BY ONLY <1>5, <2>2, <2>4, <2>5, <2>6 DEF Taken
    <2> QED
      BY ONLY <2>3, <2>7 DEF m
  <1> QED
    BY <1>4, <1>5

LEMMA ReadBytes ==
    ASSUME KernelOK, Wound(Kernel), NEW p \in Pids, NEW f, f = process[p].fd[0], f # NULL,
           NEW n \in Nat \ {0}, sys_read(p, f, n),
           NEW i, i = fd_table[f].data, NEW m, m = Least(n, pipe_table[i].count)
    PROVE  Took(p, f, i, m)
  <1> DEFINE k == Kernel
             q == pipe_read(k, p, i, n)
  <1>1. Passes(p)
    BY ReadPasses, Zenon
  <1>2. /\ k \in Tables /\ Wired(k) /\ k.fds = fd_table /\ k.pipes = pipe_table
        /\ Kernel' \in Tables /\ Kernel'.fds = fd_table' /\ Kernel'.pipes = pipe_table'
        /\ Kernel'.procs = process'
    BY ONLY KernelOK, <1>1, KernelIs, KernelNext, KernelWired DEF Passes
  <1>3. fd_table[f].type = "READ" /\ Store(q)
    BY ONLY sys_read(p, f, n), i = fd_table[f].data DEF sys_read
  <1> HIDE DEF k
  <1>4. fd_table' = fd_table
    <2>1. q.fds = k.fds
      BY ONLY <1>2, FdsStay
    <2> QED
      BY ONLY <1>2, <1>3, <2>1 DEF Store
  <1>5. f \in Fds /\ i \in PipeIds /\ pipe_table'[i].in_use
    <2>1. 0 \in 0..1 /\ "READ" \in Types
      BY ONLY DEF Types
    <2>2. /\ KernelOK /\ p \in Pids /\ f = process[p].fd[0] /\ f # NULL
          /\ fd_table[f].type = "READ" /\ i = fd_table[f].data
      BY <1>3
    <2> QED
      BY ONLY <1>1, <1>4, <2>1, <2>2, UsedPipe
  <1>6. q.pipes = pipe_table' /\ q.fds = fd_table' /\ q.procs = process'
    BY ONLY <1>3 DEF Store
  <1>7. Wound(k) /\ p \in Pids /\ n \in Nat \ {0} /\ m = Least(n, k.pipes[i].count)
    BY <1>2 DEF k
  <1> HIDE DEF q
  <1>8. q \in Tables /\ Taken(k, q, i, m)
    BY ONLY <1>2, <1>5, <1>6, <1>7, ReadTakes DEF q
  <1>9. Kernel' = q
    BY ONLY <1>2, <1>6, <1>8, TableTypes
  <1> QED
    BY ONLY <1>1, <1>2, <1>3, <1>4, <1>5, <1>6, <1>8, <1>9 DEF Took, Taken

\* What a write to stdout adds to it.
Put(p, f, b, i, m) ==
    /\ Passes(p) /\ fd_table' = fd_table /\ fd_table[f].type = "WRITE" /\ i \in PipeIds
    /\ Wound(Kernel')
    /\ \A j \in PipeIds \ {i} : Stays(pipe_table[j], pipe_table'[j])
    /\ m \in Nat /\ m <= Len(b) /\ m <= PIPE_BUFFER_SIZE - pipe_table[i].count
    /\ \/ Stays(pipe_table[i], pipe_table'[i]) /\ m = 0
       \/ /\ EndRefs(Kernel, Refs(Kernel), i, "READ") # {}
          /\ Tape(pipe_table'[i]) = Tape(pipe_table[i]) \o SubSeq(b, 1, m)

\* What pipe_write adds to pipe i of the tables.
Added(k, r, b, i, m) ==
    /\ Wound(r)
    /\ \A j \in PipeIds \ {i} : Stays(k.pipes[j], r.pipes[j])
    /\ m \in Nat /\ m <= Len(b) /\ m <= PIPE_BUFFER_SIZE - k.pipes[i].count
    /\ \/ Stays(k.pipes[i], r.pipes[i]) /\ m = 0
       \/ /\ EndRefs(k, Refs(k), i, "READ") # {}
          /\ Tape(r.pipes[i]) = Tape(k.pipes[i]) \o SubSeq(b, 1, m)

LEMMA WriteAdds ==
    ASSUME NEW k \in Tables, Inv(k), Wired(k), Wound(k), NEW p \in Pids, NEW i \in PipeIds,
           NEW b \in Seq(Bytes), NEW r, r = pipe_write(k, p, i, b),
           k.pipes[i].in_use, r.pipes[i].in_use
    PROVE  r \in Tables /\ Added(k, r, b, i, bytes_written(k, i, b))
  <1> DEFINE c == k.pipes[i]
             m == bytes_written(k, i, b)
  <1>1. Fills(k, r, i, b)
    BY WriteFills
  <1>2. c \in Pipe /\ c.in_use /\ Spooled(c)
    BY TableTypes DEF Wound
  <1>3. \A j \in PipeIds : Spooled(k.pipes[j])
    BY DEF Wound
  <1> HIDE DEF m
  <1>4. m \in Nat /\ m <= Len(b) /\ m <= PIPE_BUFFER_SIZE - c.count
    BY ONLY <1>1, Zenon DEF Fills, m
  <1>5. CASE AllKept(k, r) /\ m = 0
    <2>1. r \in Tables /\ \A j \in PipeIds : Stays(k.pipes[j], r.pipes[j])
      BY ONLY <1>5 DEF AllKept, Stays
    <2>2. Wound(r)
      BY ONLY <1>3, <2>1, SpooledStays DEF Wound
    <2>3. Added(k, r, b, i, m)
      BY ONLY <1>4, <1>5, <2>1, <2>2, i \in PipeIds DEF Added
    <2> QED
      BY ONLY <2>1, <2>3 DEF m
  <1>6. CASE c.open_read # 0 /\ \E d : Into(c, d, b, m) /\ Passing(k, r, i, d)
    <2>1. PICK d : Into(c, d, b, m) /\ Passing(k, r, i, d)
      BY ONLY <1>6, Zenon
    <2>2. d \in Pipe /\ r \in Tables
      BY ONLY <2>1, Zenon DEF Passing, AllKept
    <2>3. Spooled(d) /\ Tape(d) = Tape(c) \o SubSeq(b, 1, m)
      BY ONLY b \in Seq(Bytes), <1>2, <1>4, <2>1, <2>2, IntoTape
    <2>4. /\ Spooled(r.pipes[i]) /\ Tape(r.pipes[i]) = Tape(d)
          /\ \A j \in PipeIds \ {i} : Stays(k.pipes[j], r.pipes[j])
      <3>1. Passed(k, r, i, d)
        BY ONLY r.pipes[i].in_use, i \in PipeIds, <2>1, <2>3, PassedPipe
      <3> QED
        BY ONLY <3>1 DEF Passed
    <2>5. Wound(r)
      BY ONLY <1>3, <2>4, SpooledStays DEF Wound
    <2>6. EndRefs(k, Refs(k), i, "READ") # {}
      BY <1>2, <1>6, OpenIsHeld, Zenon DEF Inv, Fine
    <2>7. Added(k, r, b, i, m)
      BY ONLY <1>4, <2>3, <2>4, <2>5, <2>6 DEF Added
    <2> QED
      BY ONLY <2>2, <2>7 DEF m
  <1> QED
    BY ONLY <1>1, <1>5, <1>6, Zenon DEF Fills, m

LEMMA WriteBytes ==
    ASSUME KernelOK, Wound(Kernel), NEW p \in Pids, NEW f, f = process[p].fd[1], f # NULL,
           NEW b \in Seq(Bytes), sys_write(p, f, b),
           NEW i, i = fd_table[f].data, NEW m, m = bytes_written(Kernel, i, b)
    PROVE  Put(p, f, b, i, m)
  <1> DEFINE k == Kernel
             q == pipe_write(k, p, i, b)
  <1>1. Passes(p)
    BY WritePasses, Zenon
  <1>2. /\ k \in Tables /\ Inv(k) /\ Wired(k) /\ k.fds = fd_table /\ k.pipes = pipe_table
        /\ Kernel' \in Tables /\ Kernel'.fds = fd_table' /\ Kernel'.pipes = pipe_table'
        /\ Kernel'.procs = process'
    BY ONLY KernelOK, <1>1, KernelIs, KernelNext, KernelWired DEF Passes
  <1>3. fd_table[f].type = "WRITE" /\ Store(q)
    BY ONLY sys_write(p, f, b), i = fd_table[f].data DEF sys_write
  <1> HIDE DEF k
  <1>4. fd_table' = fd_table
    <2>1. q.fds = k.fds
      BY ONLY <1>2, FdsStay
    <2> QED
      BY ONLY <1>2, <1>3, <2>1 DEF Store
  <1>5. f \in Fds /\ i \in PipeIds /\ pipe_table[i].in_use /\ pipe_table'[i].in_use
    <2>1. 1 \in 0..1 /\ "WRITE" \in Types
      BY ONLY DEF Types
    <2>2. /\ KernelOK /\ p \in Pids /\ f = process[p].fd[1] /\ f # NULL
          /\ fd_table[f].type = "WRITE" /\ i = fd_table[f].data
      BY <1>3
    <2> QED
      BY ONLY <1>1, <1>4, <2>1, <2>2, UsedPipe
  <1>6. q.pipes = pipe_table' /\ q.fds = fd_table' /\ q.procs = process'
    BY ONLY <1>3 DEF Store
  <1>7. Wound(k) /\ p \in Pids /\ b \in Seq(Bytes) /\ m = bytes_written(k, i, b)
    BY DEF k
  <1> HIDE DEF q
  <1>8. q \in Tables /\ Added(k, q, b, i, m)
    BY ONLY <1>2, <1>5, <1>6, <1>7, WriteAdds DEF q
  <1>9. Kernel' = q
    BY ONLY <1>2, <1>6, <1>8, TableTypes
  <1>10. /\ EndRefs(k, Refs(k), i, "READ") # {} => EndRefs(Kernel, Refs(Kernel), i, "READ") # {}
         /\ k.pipes = pipe_table
    BY <1>2, Zenon DEF k
  <1> QED
    BY ONLY <1>1, <1>2, <1>3, <1>4, <1>5, <1>6, <1>8, <1>9, <1>10 DEF Put, Added

LEMMA ZeroIsPipe == 0 \in PipeIds
  BY PipesAssumption DEF PipeIds

\* The stream's bytes are the tape of the pipe.
LEMMA Bytes0Is ==
    ASSUME KernelOK
    PROVE  /\ Bytes0 = Tape(pipe_table[0]) /\ Bytes0 \in Seq(Bytes)
           /\ Len(Bytes0) = pipe_table[0].count /\ pipe_table[0].count \in Nat
           /\ PIPE_BUFFER_SIZE \in Nat
  <1>1. Kernel \in Tables /\ Kernel.pipes = pipe_table
    BY KernelIs
  <1>2. pipe_table[0] \in Pipe /\ Bytes0 = Tape(pipe_table[0])
    BY <1>1, ZeroIsPipe, TableTypes, TapeRead DEF Bytes0
  <1> QED
    BY <1>2, TapeIs, Sizes

LEMMA NextBytes0 ==
    ASSUME KernelOK'
    PROVE  Bytes0' = Tape(pipe_table'[0])
  <1> DEFINE k == Kernel'
  <1>1. k \in Tables /\ k.pipes = pipe_table'
    BY KernelNext
  <1> HIDE DEF k
  <1>2. bytes_read(k, 0, PIPE_BUFFER_SIZE) = Tape(pipe_table'[0])
    BY <1>1, ZeroIsPipe, TapeRead
  <1> QED
    BY <1>2 DEF Bytes0, k

\* The first pipe kept or reused: ends came and went.
LEMMA ZeroStays ==
    ASSUME KernelOK, KernelOK', Wound(Kernel), Stays(pipe_table[0], pipe_table'[0])
    PROVE  AsStream!Ends
  <1> DEFINE k == Kernel
             r == Kernel'
  <1>1. Spooled(k.pipes[0]) /\ k.pipes = pipe_table /\ r.pipes = pipe_table'
    BY ZeroIsPipe, KernelIs, KernelNext DEF Wound
  <1>2. k \in Tables /\ r \in Tables /\ Inv(r) /\ AllClean(r) /\ Stays(k.pipes[0], r.pipes[0])
    BY <1>1, KernelIs, KernelNext
  <1> HIDE DEF k, r
  <1>3. bytes_read(r, 0, PIPE_BUFFER_SIZE) =
           IF EndRefs(r, Refs(r), 0, "READ") # {} \/ EndRefs(r, Refs(r), 0, "WRITE") # {}
             THEN bytes_read(k, 0, PIPE_BUFFER_SIZE) ELSE <<>>
    BY <1>1, <1>2, ZeroIsPipe, StaysEnds
  <1> QED
    BY <1>3, EndsIs DEF Bytes0, CanRead, CanWrite, k, r

\* A read of wc is a read of the stream.
LEMMA WcReadStream ==
    ASSUME Safe, Safe', Wound(Kernel), wc_read
    PROVE  StreamStep /\ Wound(Kernel)'
  <1> DEFINE f == process[Right].fd[0]
             i == fd_table[f].data
             m == Least(BUF_SIZE, pipe_table[i].count)
             n == pipe_table[i].count
  <1>1. KernelOK /\ KernelOK' /\ Right \in Pids /\ RightOK(process[Right])
    BY ThreePids DEF Safe, PipelineOK
  <1>2. Runs(Right) /\ sys_read(Right, f, BUF_SIZE)
    BY Zenon DEF wc_read
  <1>3. f # NULL /\ BUF_SIZE \in Nat \ {0}
    BY <1>1, <1>2, PidsAreReaders, KeyboardAssumption DEF RightOK, ChildOK, Runs
  <1>4. Took(Right, f, i, m)
    <2>1. /\ f = process[Right].fd[0] /\ m = Least(BUF_SIZE, pipe_table[i].count)
          /\ i = fd_table[f].data
      OBVIOUS
    <2> HIDE DEF f, m, i, n
    <2> QED
      BY <1>1, <1>2, <1>3, <2>1, ReadBytes
  <1> HIDE DEF i
  <1>5. CASE n = 0 \/ i # 0
    <2>1. Stays(pipe_table[0], pipe_table'[0])
      BY <1>4, <1>5, ZeroIsPipe DEF Took
    <2> QED
      BY <1>1, <1>4, <2>1, ZeroStays DEF StreamStep, Took
  <1>6. CASE n # 0 /\ i = 0
    <2>1. /\ Bytes0 = Tape(pipe_table[0]) /\ Len(Bytes0) = n
          /\ Bytes0' = SubSeq(Bytes0, m + 1, Len(Bytes0)) /\ m \in 1..Len(Bytes0)
      BY <1>1, <1>4, <1>6, Bytes0Is, NextBytes0 DEF Took
    <2>2. CanRead' = CanRead /\ CanWrite' = CanWrite
      BY <1>1, <1>4, SameHolders DEF Took, CanRead, CanWrite
    <2>3. CanRead
      <3>1. EndRefs(Kernel, Refs(Kernel), i, "READ") # {}
        <4>1. f = process[Right].fd[0] /\ i = fd_table[f].data /\ "READ" \in Types /\ 0 \in 0..1
          BY DEF i, Types
        <4> HIDE DEF f
        <4> QED
          BY <1>1, <1>3, <1>4, <4>1, UsedPipe, Zenon DEF Took
      <3> QED
        BY <1>6, <3>1 DEF CanRead
    <2> HIDE DEF m
    <2>4. \E l \in 1..Len(Bytes0) : Bytes0' = SubSeq(Bytes0, l + 1, Len(Bytes0))
      BY <2>1
    <2>5. AsStream!Read
      BY <2>2, <2>3, <2>4 DEF AsStream!Read, Bytes0, CanRead, CanWrite
    <2> QED
      BY <1>4, <2>5 DEF StreamStep, Took
  <1> QED
    BY <1>5, <1>6

\* A write of filter is a write to the stream, or says nothing to it: the pipe is
\* full, or its reader is gone.
LEMMA FilterWriteStream ==
    ASSUME Safe, Safe', Wound(Kernel), filter_write
    PROVE  StreamStep /\ Wound(Kernel)'
  <1> DEFINE f == process[Left].fd[1]
             i == fd_table[f].data
             m == bytes_written(Kernel, i, buf)
  <1>1. /\ KernelOK /\ KernelOK' /\ Left \in Pids /\ ChildOK(process[Left])
        /\ buf \in Seq(Bytes)
    BY ThreePids DEF Safe, PipelineOK
  <1>2. Runs(Left) /\ (UNCHANGED vars \/ sys_write(Left, f, buf))
    BY DEF filter_write
  <1>3. f # NULL
    BY <1>1, <1>2 DEF ChildOK, Runs
  <1>4. CASE UNCHANGED vars
    BY <1>1, <1>4, StillQuiet, QuietEnds DEF vars
  <1>5. CASE sys_write(Left, f, buf)
    <2>1. Put(Left, f, buf, i, m)
      <3>1. f = process[Left].fd[1] /\ i = fd_table[f].data /\ m = bytes_written(Kernel, i, buf)
        OBVIOUS
      <3> HIDE DEF f, i, m
      <3> QED
        BY <1>1, <1>3, <1>5, <3>1, WriteBytes
    <2>2. CASE i # 0 \/ Stays(pipe_table[i], pipe_table'[i])
      <3> HIDE DEF i, m
      <3>1. Stays(pipe_table[0], pipe_table'[0])
        BY <2>1, <2>2, ZeroIsPipe DEF Put
      <3> QED
        BY <1>1, <2>1, <3>1, ZeroStays DEF StreamStep, Put
    <2>3. CASE i = 0 /\ ~Stays(pipe_table[i], pipe_table'[i])
      <3>1. EndRefs(Kernel, Refs(Kernel), i, "WRITE") # {}
        <4>1. f = process[Left].fd[1] /\ i = fd_table[f].data /\ "WRITE" \in Types /\ 1 \in 0..1
          BY DEF Types
        <4> HIDE DEF f, i, m
        <4> QED
          BY <1>1, <1>3, <2>1, <4>1, UsedPipe, Zenon DEF Put
      <3> HIDE DEF i, m
      <3>2. CanRead /\ CanWrite
        BY <2>1, <2>3, <3>1 DEF Put, CanRead, CanWrite
      <3>3. CanRead' = CanRead /\ CanWrite' = CanWrite
        BY <1>1, <2>1, SameHolders DEF Put, CanRead, CanWrite
      <3>4. Tape(pipe_table'[0]) = Tape(pipe_table[0]) \o SubSeq(buf, 1, m)
        BY <2>1, <2>3 DEF Put
      <3>5. /\ Bytes0' = Bytes0 \o SubSeq(buf, 1, m)
            /\ Len(Bytes0) = pipe_table[0].count
            /\ Len(Bytes0) \in Nat /\ Bytes0 \in Seq(Bytes)
        BY <1>1, <3>4, Bytes0Is, NextBytes0
      <3>6. /\ m \in Nat /\ m <= Len(buf) /\ m <= PIPE_BUFFER_SIZE - Len(Bytes0)
            /\ PIPE_BUFFER_SIZE \in Nat
        BY <1>1, <2>1, <2>3, <3>5, Bytes0Is DEF Put
      <3>7. CASE m = 0
        <4>1. SubSeq(buf, 1, m) = <<>>
          BY <1>1, <3>7
        <4>2. Bytes0' = Bytes0
          <5> DEFINE s == Bytes0
                     t == Bytes0'
          <5>1. s \in Seq(Bytes) /\ t = s \o <<>>
            BY <3>5, <4>1
          <5> HIDE DEF s, t
          <5>2. t = s
            BY ONLY <5>1
          <5> QED
            BY <5>2 DEF s, t
        <4> QED
          BY <2>1, <3>3, <4>2 DEF StreamStep, Put
      <3>8. CASE m # 0
        <4> DEFINE w == SubSeq(buf, 1, m)
        <4>1. m \in 1..(PIPE_BUFFER_SIZE - Len(Bytes0))
          BY <3>5, <3>6, <3>8
        <4>2. w \in [1..m -> Bytes]
          <5>1. w \in Seq(Bytes) /\ Len(w) = m
            BY ONLY <1>1, <3>6
          <5> HIDE DEF w
          <5> QED
            BY ONLY <3>6, <5>1
        <4>3. Bytes0' = Bytes0 \o w
          BY <3>5
        <4> HIDE DEF w
        <4>4. \E n \in 1..(PIPE_BUFFER_SIZE - Len(Bytes0)) :
                 \E bytes \in [1..n -> Bytes] : Bytes0' = Bytes0 \o bytes
          BY <4>1, <4>2, <4>3
        <4>5. AsStream!Write
          BY <3>2, <3>3, <4>4 DEF AsStream!Write, Bytes0, CanRead, CanWrite
        <4> QED
          BY <2>1, <4>5 DEF StreamStep, Put
      <3> QED
        BY <3>7, <3>8
    <2> QED
      BY <2>2, <2>3
  <1> QED
    BY <1>2, <1>4, <1>5

LEMMA StreamSteps ==
    ASSUME Safe, Safe', Wound(Kernel), [LNext]_allVars
    PROVE  StreamStep /\ Wound(Kernel)'
  <1>1. CASE wc_read
    BY <1>1, WcReadStream
  <1>2. CASE filter_write
    BY <1>2, FilterWriteStream
  <1>3. CASE ~wc_read /\ ~filter_write
    BY <1>3, OthersQuiet, QuietEnds DEF Safe
  <1> QED
    BY <1>1, <1>2, <1>3

\* At the beginning every pipe is empty and nobody has an end of one.
LEMMA StreamInit == LInit => AsStream!SInit /\ Wound(Kernel)
  <1> SUFFICES ASSUME LInit
               PROVE  AsStream!SInit /\ Wound(Kernel)
    OBVIOUS
  <1>1. Fresh(Kernel)
    BY InitFresh DEF LInit
  <1>2. KernelOK
    BY SafeInit DEF Safe
  <1>3. Inv(Kernel) /\ \A i \in PipeIds : Kernel.pipes[i] = pipe_reset
    BY <1>1, <1>2, KernelIs DEF Fresh
  <1>4. Wound(Kernel)
    BY <1>3, ResetTape DEF Wound
  <1>5. Bytes0 = <<>>
    BY <1>1, <1>3, ZeroIsPipe, ResetTape, TapeRead DEF Bytes0, Fresh
  <1>6. ~pipe_reset.in_use
    BY DEF pipe_reset
  <1>7. ~CanRead /\ ~CanWrite
    BY <1>3, <1>6, ZeroIsPipe, UnusedUnheld DEF CanRead, CanWrite
  <1> QED
    BY <1>4, <1>5, <1>7 DEF AsStream!SInit, Bytes0, CanRead, CanWrite

\* The pipe of a line is a stream: through every interleaving of the two
\* commands with the shell that hands out and closes its ends, the keys and the
\* kills, pipe_read takes the oldest bytes, pipe_write adds what fits behind the
\* newest while somebody can read it, and nothing else touches the bytes until
\* the last end is gone.
THEOREM ShellPipeIsStream == LSpec => ImplementsStream
  <1>1. LInit => AsStream!SInit /\ Wound(Kernel)
    BY StreamInit
  <1>2. /\ Safe /\ Safe' /\ Wound(Kernel) /\ [LNext]_allVars
        => /\ [AsStream!Write \/ AsStream!Read \/ AsStream!Ends]_<<
                 bytes_read(Kernel, 0, PIPE_BUFFER_SIZE),
                 EndRefs(Kernel, Refs(Kernel), 0, "READ") # {},
                 EndRefs(Kernel, Refs(Kernel), 0, "WRITE") # {}>>
           /\ Wound(Kernel)'
    BY StreamSteps DEF StreamStep, Bytes0, CanRead, CanWrite
  <1> QED
    BY <1>1, <1>2, ShellInvariance, PTL DEF LSpec, ImplementsStream, AsStream!SSpec
=============================================================================
