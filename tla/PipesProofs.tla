---------------------------- MODULE PipesProofs ----------------------------
(***************************************************************************)
(* Proofs about pipes and file descriptors (module Pipes), for any number  *)
(* of processes, pipes and descriptors and any size of the buffers.        *)
(***************************************************************************)
EXTENDS Pipes, WaitQueueProofs

\* The three tables.
Tables == [pipes : [PipeIds -> Pipe], fds : [Fds -> FD], procs : [Pids -> PCB]]

Sides == {"readers", "writers"}

\* The queue of a pipe on one side.
Line(c, side) == IF side = "readers" THEN c.wait_readers ELSE c.wait_writers

LEMMA IdsAreNat ==
    /\ PipeIds \subseteq Nat /\ Fds \subseteq Nat /\ NULL \notin PipeIds /\ NULL \notin Fds
    /\ FD_STDIN \in Fds /\ FD_STDOUT \in Fds /\ 0..1 = {0, 1} /\ 0..2 = {0, 1, 2}
  BY PipesAssumption DEF PipeIds, Fds, NULL, FD_STDIN, FD_STDOUT

LEMMA FirstIn ==
    ASSUME NEW S \in SUBSET Nat, S # {}
    PROVE  First(S) \in S
  <1>1. \E x \in S : \A y \in S : x <= y
    BY LeastNat
  <1> QED
    BY <1>1 DEF First

-----------------------------------------------------------------------------
(***************************************************************************)
(* What the operations do, field by field, and that they keep the types.   *)
(***************************************************************************)

\* From k to r those of W that are blocked wake up.
Woken(k, r, W) ==
    \A q \in Pids :
        /\ r.procs[q].fd = k.procs[q].fd /\ r.procs[q].own = k.procs[q].own
        /\ (q \in W /\ k.procs[q].state = "BLOCKED") =>
              r.procs[q].state = "READY" /\ r.procs[q].at = Nowhere
        /\ ~(q \in W /\ k.procs[q].state = "BLOCKED") => r.procs[q] = k.procs[q]

\* From k to r pipe i becomes c, and those of W wake up.
Effect(k, r, i, c, W) ==
    /\ r \in Tables
    /\ r.pipes[i] = c /\ \A j \in PipeIds \ {i} : r.pipes[j] = k.pipes[j]
    /\ r.fds = k.fds
    /\ Woken(k, r, W)

LEMMA TableTypes ==
    ASSUME NEW k \in Tables
    PROVE  /\ k = [pipes |-> k.pipes, fds |-> k.fds, procs |-> k.procs]
           /\ k.pipes \in [PipeIds -> Pipe] /\ k.fds \in [Fds -> FD] /\ k.procs \in [Pids -> PCB]
           /\ \A i \in PipeIds : k.pipes[i] \in Pipe
           /\ \A f \in Fds : k.fds[f] \in FD
           /\ \A p \in Pids : k.procs[p] \in PCB
  BY DEF Tables

LEMMA PlacesIn == /\ Nowhere \in Places /\ New \in Places
                  /\ \A i \in PipeIds, s \in Sides : <<i, s>> \in Places
                                                     /\ <<i, s>> # Nowhere /\ <<i, s>> # New
  BY IdsAreNat DEF Places, Nowhere, New, Sides

\* A pipe is replaced.
LEMMA SetPipe ==
    ASSUME NEW k \in Tables, NEW i \in PipeIds, NEW c \in Pipe
    PROVE  Effect(k, [k EXCEPT !.pipes[i] = c], i, c, {})
  BY DEF Effect, Woken, Tables

LEMMA NothingDone ==
    ASSUME NEW k \in Tables, NEW i \in PipeIds
    PROVE  Effect(k, k, i, k.pipes[i], {})
  BY DEF Effect, Woken, Tables

LEMMA Wakes ==
    ASSUME NEW k \in Tables, NEW i \in PipeIds, NEW W
    PROVE  Effect(k, process_unblock(k, W), i, k.pipes[i], W)
  <1> DEFINE r == process_unblock(k, W)
             w(q) == [k.procs[q] EXCEPT !.state = "READY", !.at = Nowhere]
             up(q) == q \in W /\ k.procs[q].state = "BLOCKED"
             procs == [q \in Pids |-> IF up(q) THEN w(q) ELSE k.procs[q]]
  <1>1. r = [pipes |-> k.pipes, fds |-> k.fds, procs |-> procs]
    <2> HIDE DEF procs
    <2>1. r = [k EXCEPT !.procs = procs]
      BY DEF process_unblock, procs
    <2> QED
      BY <2>1 DEF Tables
  <1>2. ASSUME NEW q \in Pids
        PROVE  /\ w(q) \in PCB /\ w(q).state = "READY" /\ w(q).at = Nowhere
               /\ w(q).fd = k.procs[q].fd /\ w(q).own = k.procs[q].own
    <2>1. k.procs[q] \in PCB
      BY TableTypes
    <2> QED
      BY <2>1, PlacesIn DEF PCB
  <1> HIDE DEF w
  <1>3. procs \in [Pids -> PCB]
    BY <1>2, TableTypes
  <1>4. r \in Tables
    BY <1>1, <1>3, TableTypes DEF Tables
  <1>5. Woken(k, r, W)
    BY <1>1, <1>2 DEF Woken
  <1> QED
    BY <1>1, <1>4, <1>5 DEF Effect

\* Two effects on one pipe make one.
LEMMA Then ==
    ASSUME NEW k \in Tables, NEW m, NEW r, NEW i \in PipeIds, NEW c, NEW d, NEW W, NEW V,
           Effect(k, m, i, c, W), Effect(m, r, i, d, V)
    PROVE  Effect(k, r, i, d, W \cup V)
  <1>1. Woken(k, r, W \cup V)
    BY DEF Effect, Woken
  <1> QED
    BY <1>1 DEF Effect

PipeIs(c, read, write, used, name, eof, readers, writers) ==
    /\ c.open_read = read /\ c.open_write = write /\ c.in_use = used /\ c.name = name
    /\ c.eof = eof /\ c.wait_readers = readers /\ c.wait_writers = writers

LEMMA PipeFields ==
    ASSUME NEW c \in Pipe
    PROVE  /\ PipeIs(c, c.open_read, c.open_write, c.in_use, c.name, c.eof,
                     c.wait_readers, c.wait_writers)
           /\ c.open_read \in Nat /\ c.open_write \in Nat /\ c.in_use \in BOOLEAN
           /\ c.eof \in BOOLEAN /\ c.wait_readers \in Seq(Pids) /\ c.wait_writers \in Seq(Pids)
           /\ c.name \in Names \cup {Anonymous}
  BY DEF PipeIs, Pipe

\* A pipe with one field changed.
LEMMA NumberSet ==
    ASSUME NEW c \in Pipe, NEW n \in Nat
    PROVE  /\ [c EXCEPT !.open_read = n] \in Pipe
           /\ PipeIs([c EXCEPT !.open_read = n], n, c.open_write, c.in_use, c.name, c.eof,
                     c.wait_readers, c.wait_writers)
           /\ [c EXCEPT !.open_write = n] \in Pipe
           /\ PipeIs([c EXCEPT !.open_write = n], c.open_read, n, c.in_use, c.name, c.eof,
                     c.wait_readers, c.wait_writers)
           /\ [c EXCEPT !.opens = n] \in Pipe
           /\ PipeIs([c EXCEPT !.opens = n], c.open_read, c.open_write, c.in_use, c.name,
                     c.eof, c.wait_readers, c.wait_writers)
  BY DEF Pipe, PipeIs

LEMMA LineSet ==
    ASSUME NEW c \in Pipe, NEW q \in Seq(Pids)
    PROVE  /\ [c EXCEPT !.wait_readers = q] \in Pipe
           /\ PipeIs([c EXCEPT !.wait_readers = q], c.open_read, c.open_write, c.in_use,
                     c.name, c.eof, q, c.wait_writers)
           /\ [c EXCEPT !.wait_writers = q] \in Pipe
           /\ PipeIs([c EXCEPT !.wait_writers = q], c.open_read, c.open_write, c.in_use,
                     c.name, c.eof, c.wait_readers, q)
  BY DEF Pipe, PipeIs

LEMMA FlagSet ==
    ASSUME NEW c \in Pipe, NEW b \in BOOLEAN
    PROVE  /\ [c EXCEPT !.eof = b] \in Pipe
           /\ PipeIs([c EXCEPT !.eof = b], c.open_read, c.open_write, c.in_use, c.name, b,
                     c.wait_readers, c.wait_writers)
  BY DEF Pipe, PipeIs

LEMMA EmptyLine == <<>> \in Seq(Pids) /\ Elements(<<>>) = {} /\ Distinct(<<>>)
  <1>1. <<>> \in Seq(Pids) /\ Len(<<>>) = 0
    OBVIOUS
  <1> QED
    BY <1>1 DEF Elements, Distinct

LEMMA ResetIs ==
    /\ pipe_reset \in Pipe
    /\ PipeIs(pipe_reset, 0, 0, FALSE, Anonymous, FALSE, <<>>, <<>>)
  <1>1. (CHOOSE b \in Bytes : TRUE) \in Bytes
    BY PipesAssumption
  <1>2. 0 \in Cells /\ 0 \in 0..PIPE_BUFFER_SIZE /\ <<>> \in Seq(Pids)
    BY PipesAssumption DEF Cells
  <1> QED
    BY <1>1, <1>2 DEF pipe_reset, Pipe, PipeIs

\* Everybody in a queue wakes up.
LEMMA WakeAllReaders ==
    ASSUME NEW k \in Tables, NEW i \in PipeIds
    PROVE  LET c == k.pipes[i]
               r == pipe_wake_all_readers(k, i)
           IN  /\ Effect(k, r, i, r.pipes[i], Elements(c.wait_readers))
               /\ r.pipes[i] \in Pipe
               /\ PipeIs(r.pipes[i], c.open_read, c.open_write, c.in_use, c.name, c.eof,
                         <<>>, c.wait_writers)
  <1> DEFINE c == k.pipes[i]
             d == [c EXCEPT !.wait_readers = <<>>]
             m == [k EXCEPT !.pipes[i] = d]
             r == pipe_wake_all_readers(k, i)
             W == Elements(c.wait_readers)
  <1>1. c \in Pipe
    BY TableTypes
  <1>2. /\ d \in Pipe
        /\ PipeIs(d, c.open_read, c.open_write, c.in_use, c.name, c.eof, <<>>, c.wait_writers)
    BY <1>1, LineSet, EmptyLine
  <1>3. r = process_unblock(m, W)
    BY DEF pipe_wake_all_readers
  <1> HIDE DEF c, d, m, W, r
  <1>4. Effect(k, m, i, d, {})
    BY <1>2, SetPipe DEF m
  <1>5. m \in Tables /\ m.pipes[i] = d
    BY <1>4 DEF Effect
  <1>6. Effect(m, r, i, d, W)
    BY <1>3, <1>5, Wakes
  <1>7. Effect(k, r, i, d, {} \cup W)
    BY <1>4, <1>6, Then
  <1>8. Effect(k, r, i, d, W) /\ r.pipes[i] = d
    BY <1>7 DEF Effect
  <1> QED
    BY <1>2, <1>8 DEF c, W, r

LEMMA WakeAllWriters ==
    ASSUME NEW k \in Tables, NEW i \in PipeIds
    PROVE  LET c == k.pipes[i]
               r == pipe_wake_all_writers(k, i)
           IN  /\ Effect(k, r, i, r.pipes[i], Elements(c.wait_writers))
               /\ r.pipes[i] \in Pipe
               /\ PipeIs(r.pipes[i], c.open_read, c.open_write, c.in_use, c.name, c.eof,
                         c.wait_readers, <<>>)
  <1> DEFINE c == k.pipes[i]
             d == [c EXCEPT !.wait_writers = <<>>]
             m == [k EXCEPT !.pipes[i] = d]
             r == pipe_wake_all_writers(k, i)
             W == Elements(c.wait_writers)
  <1>1. c \in Pipe
    BY TableTypes
  <1>2. /\ d \in Pipe
        /\ PipeIs(d, c.open_read, c.open_write, c.in_use, c.name, c.eof, c.wait_readers, <<>>)
    BY <1>1, LineSet, EmptyLine
  <1>3. r = process_unblock(m, W)
    BY DEF pipe_wake_all_writers
  <1> HIDE DEF c, d, m, W, r
  <1>4. Effect(k, m, i, d, {})
    BY <1>2, SetPipe DEF m
  <1>5. m \in Tables /\ m.pipes[i] = d
    BY <1>4 DEF Effect
  <1>6. Effect(m, r, i, d, W)
    BY <1>3, <1>5, Wakes
  <1>7. Effect(k, r, i, d, {} \cup W)
    BY <1>4, <1>6, Then
  <1>8. Effect(k, r, i, d, W) /\ r.pipes[i] = d
    BY <1>7 DEF Effect
  <1> QED
    BY <1>2, <1>8 DEF c, W, r

LEMMA MaybeFree ==
    ASSUME NEW k \in Tables, NEW i \in PipeIds
    PROVE  LET c == k.pipes[i]
               r == pipe_maybe_free(k, i)
           IN  /\ Effect(k, r, i, r.pipes[i], {})
               /\ (c.open_read = 0 /\ c.open_write = 0) => r.pipes[i] = pipe_reset
               /\ ~(c.open_read = 0 /\ c.open_write = 0) => r.pipes[i] = c
  <1> DEFINE c == k.pipes[i]
             r == pipe_maybe_free(k, i)
  <1>1. CASE c.open_read = 0 /\ c.open_write = 0
    <2>1. r = [k EXCEPT !.pipes[i] = pipe_reset]
      BY <1>1 DEF pipe_maybe_free
    <2> HIDE DEF r
    <2>2. Effect(k, r, i, pipe_reset, {})
      BY <2>1, ResetIs, SetPipe
    <2>3. r.pipes[i] = pipe_reset
      BY <2>2 DEF Effect
    <2> QED
      BY <1>1, <2>2, <2>3 DEF r
  <1>2. CASE ~(c.open_read = 0 /\ c.open_write = 0)
    BY <1>2, NothingDone DEF pipe_maybe_free
  <1> QED
    BY <1>1, <1>2

-----------------------------------------------------------------------------
(***************************************************************************)
(* Opening and closing an end of a pipe, of either type.                   *)
(***************************************************************************)
Types == {"READ", "WRITE"}

Ends(c, type) == IF type = "READ" THEN c.open_read ELSE c.open_write

\* The lines of c are those of d, or emptied: exactly those in them are in W.
Quieted(c, d, W) ==
    /\ \A s \in Sides : \/ Line(d, s) = Line(c, s)
                        \/ Line(d, s) = <<>> /\ Elements(Line(c, s)) \subseteq W
    /\ \A q \in W : \E s \in Sides : q \in Elements(Line(c, s)) /\ Line(d, s) = <<>>

\* Pipe c with sleepers becomes pipe d: those left have hope as they had.
HopeKept(c, d) ==
    /\ d.name = c.name /\ d.in_use = c.in_use
    /\ (d.eof /\ ~c.eof) => d.wait_readers = <<>>
    /\ (d.open_write = 0 /\ c.open_write # 0) => d.wait_readers = <<>>
    /\ (d.open_read = 0 /\ c.open_read # 0) => d.wait_writers = <<>>

OpenStep(k, r, i, type) ==
    LET c == k.pipes[i]
        d == r.pipes[i]
    IN  /\ \E W \in SUBSET Pids : Effect(k, r, i, d, W) /\ Quieted(c, d, W)
        /\ HopeKept(c, d)
        /\ \A t \in Types : Ends(d, t) = IF t = type THEN Ends(c, t) + 1 ELSE Ends(c, t)

CloseStep(k, r, i, type) ==
    LET c == k.pipes[i]
        d == r.pipes[i]
        left(t) == IF t = type THEN Ends(c, t) - 1 ELSE Ends(c, t)
    IN  /\ (\E t \in Types : left(t) > 0) =>
              /\ \E W \in SUBSET Pids : Effect(k, r, i, d, W) /\ Quieted(c, d, W)
              /\ HopeKept(c, d)
              /\ \A t \in Types : Ends(d, t) = left(t)
        /\ (\A t \in Types : left(t) = 0) =>
              \E W \in SUBSET Pids :
                 /\ Effect(k, r, i, pipe_reset, W)
                 /\ \A q \in W : \E s \in Sides : q \in Elements(Line(c, s))

LEMMA LineIn ==
    ASSUME NEW c \in Pipe
    PROVE  /\ \A s \in Sides : Line(c, s) \in Seq(Pids) /\ Elements(Line(c, s)) \in SUBSET Pids
           /\ Elements(c.wait_readers) \in SUBSET Pids
           /\ Elements(c.wait_writers) \in SUBSET Pids
           /\ \A t \in Types : Ends(c, t) \in Nat
  BY PipeFields DEF Line, Elements, Ends

LEMMA OpenReadIs ==
    ASSUME NEW k \in Tables, NEW i \in PipeIds
    PROVE  OpenStep(k, pipe_open_read(k, i), i, "READ")
  <1> DEFINE c == k.pipes[i]
             d == [c EXCEPT !.open_read = c.open_read + 1]
             m == [k EXCEPT !.pipes[i] = d]
             r == pipe_open_read(k, i)
             W == Elements(c.wait_writers)
  <1>1. c \in Pipe /\ c.open_read + 1 \in Nat
    BY TableTypes, PipeFields
  <1>2. /\ d \in Pipe
        /\ PipeIs(d, c.open_read + 1, c.open_write, c.in_use, c.name, c.eof,
                  c.wait_readers, c.wait_writers)
    BY <1>1, NumberSet
  <1>3. r = IF c.name # Anonymous THEN pipe_wake_all_writers(m, i) ELSE m
    BY DEF pipe_open_read, is_named
  <1>4. W \in SUBSET Pids
    BY <1>1, LineIn
  <1>5. c.open_read \in Nat
    BY <1>1, PipeFields
  <1> HIDE DEF c, d, m, W, r
  <1>6. Effect(k, m, i, d, {})
    BY <1>2, SetPipe DEF m
  <1>7. m \in Tables /\ m.pipes[i] = d
    BY <1>6 DEF Effect
  <1>8. CASE c.name # Anonymous
    <2>1. /\ Effect(m, r, i, r.pipes[i], W)
          /\ PipeIs(r.pipes[i], c.open_read + 1, c.open_write, c.in_use, c.name, c.eof,
                    c.wait_readers, <<>>)
      BY <1>2, <1>3, <1>7, <1>8, WakeAllWriters DEF PipeIs, W
    <2>2. Effect(k, r, i, r.pipes[i], {} \cup W)
      BY <1>6, <2>1, Then
    <2>3. Effect(k, r, i, r.pipes[i], W)
      BY <2>2
    <2>4. Quieted(c, r.pipes[i], W)
      BY <2>1 DEF Quieted, PipeIs, Line, Sides, W
    <2> QED
      BY <1>4, <1>5, <2>1, <2>3, <2>4 DEF OpenStep, HopeKept, PipeIs, Ends, Types, r, c
  <1>9. CASE c.name = Anonymous
    <2>1. r = m
      BY <1>3, <1>9
    <2>2. Quieted(c, d, {})
      BY <1>2 DEF Quieted, PipeIs, Line
    <2> QED
      BY <1>2, <1>5, <1>6, <1>7, <2>1, <2>2 DEF OpenStep, HopeKept, PipeIs, Ends, Types, r, c
  <1> QED
    BY <1>8, <1>9

LEMMA OpenWriteIs ==
    ASSUME NEW k \in Tables, NEW i \in PipeIds
    PROVE  OpenStep(k, pipe_open_write(k, i), i, "WRITE")
  <1> DEFINE c == k.pipes[i]
             d == [c EXCEPT !.open_write = c.open_write + 1]
             e == [d EXCEPT !.eof = FALSE]
             m == [k EXCEPT !.pipes[i] = d]
             n == [m EXCEPT !.pipes[i] = e]
             r == pipe_open_write(k, i)
             W == Elements(c.wait_readers)
  <1>1. c \in Pipe /\ c.open_write + 1 \in Nat
    BY TableTypes, PipeFields
  <1>2. /\ d \in Pipe
        /\ PipeIs(d, c.open_read, c.open_write + 1, c.in_use, c.name, c.eof,
                  c.wait_readers, c.wait_writers)
    BY <1>1, NumberSet
  <1>3. r = IF c.name # Anonymous
              THEN pipe_wake_all_readers([m EXCEPT !.pipes[i].eof = FALSE], i) ELSE m
    BY DEF pipe_open_write, is_named
  <1>4. W \in SUBSET Pids /\ c.open_write \in Nat
    BY <1>1, LineIn, PipeFields
  <1>5. /\ e \in Pipe
        /\ PipeIs(e, c.open_read, c.open_write + 1, c.in_use, c.name, FALSE,
                  c.wait_readers, c.wait_writers)
    <2> HIDE DEF c, d
    <2> QED
      BY <1>2, FlagSet DEF PipeIs
  <1> HIDE DEF c, d, m, W, r
  <1>6. Effect(k, m, i, d, {})
    BY <1>2, SetPipe DEF m
  <1>7. m \in Tables /\ m.pipes[i] = d
    BY <1>6 DEF Effect
  <1>8. CASE c.name # Anonymous
    <2>1. [m EXCEPT !.pipes[i].eof = FALSE] = n
      BY <1>7
    <2> HIDE DEF e, n
    <2>2. Effect(m, n, i, e, {})
      BY <1>5, <1>7, SetPipe DEF n
    <2>3. n \in Tables /\ n.pipes[i] = e
      BY <2>2 DEF Effect
    <2>4. r = pipe_wake_all_readers(n, i)
      BY <1>3, <1>8, <2>1
    <2>5. /\ Effect(n, r, i, r.pipes[i], W)
          /\ PipeIs(r.pipes[i], c.open_read, c.open_write + 1, c.in_use, c.name, FALSE,
                    <<>>, c.wait_writers)
      BY <1>5, <2>3, <2>4, WakeAllReaders DEF PipeIs, W
    <2>6. Effect(k, n, i, e, {} \cup {})
      BY <1>6, <2>2, Then
    <2>7. Effect(k, r, i, r.pipes[i], ({} \cup {}) \cup W)
      BY <2>5, <2>6, Then
    <2>8. Effect(k, r, i, r.pipes[i], W)
      BY <2>7
    <2>9. Quieted(c, r.pipes[i], W)
      BY <2>5 DEF Quieted, PipeIs, Line, Sides, W
    <2> QED
      BY <1>4, <2>5, <2>8, <2>9 DEF OpenStep, HopeKept, PipeIs, Ends, Types, r, c
  <1>9. CASE c.name = Anonymous
    <2>1. r = m
      BY <1>3, <1>9
    <2>2. Quieted(c, d, {})
      BY <1>2 DEF Quieted, PipeIs, Line
    <2> QED
      BY <1>2, <1>4, <1>6, <1>7, <2>1, <2>2 DEF OpenStep, HopeKept, PipeIs, Ends, Types, r, c
  <1> QED
    BY <1>8, <1>9

\* The end of a close, after the counter and the wake-up: the slot is freed when
\* nothing is left.
LEMMA CloseEnds ==
    ASSUME NEW k \in Tables, NEW i \in PipeIds, NEW type \in Types, NEW m, NEW W \in SUBSET Pids,
           NEW r, r = pipe_maybe_free(m, i), Ends(k.pipes[i], type) > 0,
           Effect(k, m, i, m.pipes[i], W), Quieted(k.pipes[i], m.pipes[i], W),
           HopeKept(k.pipes[i], m.pipes[i]),
           \A t \in Types : Ends(m.pipes[i], t) =
                IF t = type THEN Ends(k.pipes[i], t) - 1 ELSE Ends(k.pipes[i], t)
    PROVE  CloseStep(k, r, i, type)
  <1> DEFINE c == k.pipes[i]
             e == m.pipes[i]
  <1>1. m \in Tables /\ c \in Pipe /\ \A t \in Types : Ends(c, t) \in Nat
    BY TableTypes, LineIn DEF Effect
  <1>2. /\ Effect(m, r, i, r.pipes[i], {})
        /\ (e.open_read = 0 /\ e.open_write = 0) => r.pipes[i] = pipe_reset
        /\ ~(e.open_read = 0 /\ e.open_write = 0) => r.pipes[i] = e
    BY <1>1, MaybeFree
  <1>3. Effect(k, r, i, r.pipes[i], W \cup {})
    BY <1>2, Then
  <1>4. Effect(k, r, i, r.pipes[i], W)
    BY <1>3
  <1>5. (e.open_read = 0 /\ e.open_write = 0) <=> \A t \in Types : Ends(e, t) = 0
    BY DEF Types, Ends
  <1> HIDE DEF c, e
  <1>6. CASE \A t \in Types : Ends(e, t) = 0
    BY <1>1, <1>2, <1>4, <1>5, <1>6 DEF CloseStep, Quieted, c, e
  <1>7. CASE ~\A t \in Types : Ends(e, t) = 0
    BY <1>1, <1>2, <1>4, <1>5, <1>7 DEF CloseStep, c, e
  <1> QED
    BY <1>6, <1>7

LEMMA CloseReadIs ==
    ASSUME NEW k \in Tables, NEW i \in PipeIds, k.pipes[i].open_read > 0
    PROVE  CloseStep(k, pipe_close_read(k, i), i, "READ")
  <1> DEFINE c == k.pipes[i]
             d == [c EXCEPT !.open_read = c.open_read - 1]
             m == [k EXCEPT !.pipes[i] = d]
             n == IF c.open_read - 1 = 0 THEN pipe_wake_all_writers(m, i) ELSE m
             r == pipe_close_read(k, i)
             W == Elements(c.wait_writers)
  <1>1. c \in Pipe /\ c.open_read \in Nat /\ c.open_read - 1 \in Nat /\ c.open_write \in Nat
    BY TableTypes, PipeFields
  <1>2. /\ d \in Pipe
        /\ PipeIs(d, c.open_read - 1, c.open_write, c.in_use, c.name, c.eof,
                  c.wait_readers, c.wait_writers)
    BY <1>1, NumberSet
  <1>3. W \in SUBSET Pids
    BY <1>1, LineIn
  <1>4. dec(c.open_read) = c.open_read - 1
    BY DEF dec
  <1>5. [k EXCEPT !.pipes[i].open_read = dec(@)] = m
    BY <1>4
  <1> HIDE DEF c, d, W
  <1>6. Effect(k, m, i, d, {})
    BY <1>2, SetPipe
  <1>7. m \in Tables /\ m.pipes[i] = d
    BY <1>6 DEF Effect
  <1>8. r = pipe_maybe_free(n, i)
    <2>1. m.pipes[i].open_read = c.open_read - 1
      BY <1>2, <1>7 DEF PipeIs
    <2> HIDE DEF m
    <2> QED
      BY <1>5, <2>1 DEF pipe_close_read
  <1> HIDE DEF m, r
  <1>9. CASE c.open_read - 1 = 0
    <2>1. /\ Effect(m, n, i, n.pipes[i], W)
          /\ PipeIs(n.pipes[i], c.open_read - 1, c.open_write, c.in_use, c.name, c.eof,
                    c.wait_readers, <<>>)
      BY <1>2, <1>7, <1>9, WakeAllWriters DEF PipeIs, W
    <2> HIDE DEF n
    <2>2. Effect(k, n, i, n.pipes[i], {} \cup W)
      BY <1>6, <2>1, Then
    <2>3. Effect(k, n, i, n.pipes[i], W)
      BY <2>2
    <2>4. Quieted(c, n.pipes[i], W)
      BY <2>1 DEF Quieted, PipeIs, Line, Sides, W
    <2>5. HopeKept(c, n.pipes[i])
      BY <2>1 DEF HopeKept, PipeIs
    <2>6. \A t \in Types : Ends(n.pipes[i], t) = IF t = "READ" THEN Ends(c, t) - 1 ELSE Ends(c, t)
      BY <2>1 DEF PipeIs, Ends, Types
    <2>7. Ends(c, "READ") > 0 /\ "READ" \in Types
      BY DEF Ends, Types, c
    <2> QED
      BY <1>3, <1>8, <2>3, <2>4, <2>5, <2>6, <2>7, CloseEnds DEF r, c
  <1>10. CASE c.open_read - 1 # 0
    <2>1. n = m
      BY <1>10
    <2> HIDE DEF n
    <2>2. Effect(k, n, i, n.pipes[i], {}) /\ n.pipes[i] = d
      BY <1>6, <1>7, <2>1
    <2>3. Quieted(c, d, {})
      BY <1>2 DEF Quieted, PipeIs, Line
    <2>4. HopeKept(c, d)
      BY <1>1, <1>2, <1>10 DEF HopeKept, PipeIs
    <2>5. \A t \in Types : Ends(d, t) = IF t = "READ" THEN Ends(c, t) - 1 ELSE Ends(c, t)
      BY <1>2 DEF PipeIs, Ends, Types
    <2>6. Ends(c, "READ") > 0 /\ "READ" \in Types
      BY DEF Ends, Types, c
    <2>7. {} \in SUBSET Pids
      OBVIOUS
    <2> QED
      BY <1>8, <2>2, <2>3, <2>4, <2>5, <2>6, <2>7, CloseEnds DEF r, c
  <1> QED
    BY <1>9, <1>10

LEMMA CloseWriteIs ==
    ASSUME NEW k \in Tables, NEW i \in PipeIds, k.pipes[i].open_write > 0
    PROVE  CloseStep(k, pipe_close_write(k, i), i, "WRITE")
  <1> DEFINE c == k.pipes[i]
             last == c.open_write - 1 = 0
             d == [c EXCEPT !.open_write = c.open_write - 1]
             eof == c.eof \/ (last /\ is_named(k, i) /\ c.opens >= 2)
             e == [d EXCEPT !.eof = eof]
             m == [k EXCEPT !.pipes[i] = d]
             l == [m EXCEPT !.pipes[i] = e]
             n == IF last THEN pipe_wake_all_readers(l, i) ELSE l
             r == pipe_close_write(k, i)
             W == Elements(c.wait_readers)
  <1>1. c \in Pipe /\ c.open_read \in Nat /\ c.open_write - 1 \in Nat /\ c.open_write \in Nat
    BY TableTypes, PipeFields
  <1>2. /\ d \in Pipe
        /\ PipeIs(d, c.open_read, c.open_write - 1, c.in_use, c.name, c.eof,
                  c.wait_readers, c.wait_writers)
    BY <1>1, NumberSet
  <1>3. W \in SUBSET Pids
    BY <1>1, LineIn
  <1>4. dec(c.open_write) = c.open_write - 1
    BY DEF dec
  <1>5. [k EXCEPT !.pipes[i].open_write = dec(@)] = m
    BY <1>4
  <1>6. eof \in BOOLEAN /\ (eof => c.eof \/ last) /\ (c.eof => eof)
    BY <1>1, PipeFields
  <1>7. /\ e \in Pipe
        /\ PipeIs(e, c.open_read, c.open_write - 1, c.in_use, c.name, eof,
                  c.wait_readers, c.wait_writers)
    <2> HIDE DEF c, d, eof, last
    <2> QED
      BY <1>2, <1>6, FlagSet DEF PipeIs
  <1> HIDE DEF d
  <1>8. Effect(k, m, i, d, {})
    BY <1>2, SetPipe
  <1>9. m \in Tables /\ m.pipes[i] = d
    BY <1>8 DEF Effect
  <1>10. r = pipe_maybe_free(n, i)
    <2>1. m.pipes[i].open_write = c.open_write - 1 /\ d.eof = c.eof
      BY <1>2, <1>9 DEF PipeIs
    <2>2. [m EXCEPT !.pipes[i].eof = @ \/ (last /\ is_named(k, i) /\ c.opens >= 2)] = l
      BY <1>9, <2>1
    <2> DEFINE closed == [k EXCEPT !.pipes[i].open_write = dec(@)]
               last_end == closed.pipes[i].open_write = 0
               marked == [closed EXCEPT !.pipes[i].eof =
                             @ \/ (last_end /\ is_named(k, i) /\ k.pipes[i].opens >= 2)]
    <2>3. r = pipe_maybe_free(IF last_end THEN pipe_wake_all_readers(marked, i) ELSE marked, i)
      BY DEF pipe_close_write
    <2>4. closed = m
      BY <1>5
    <2> HIDE DEF closed, m
    <2>5. last_end = last
      BY <2>1, <2>4
    <2>6. marked = l
      BY <2>2, <2>4, <2>5
    <2> HIDE DEF marked, last_end, l, r
    <2> QED
      BY <2>3, <2>5, <2>6
  <1> HIDE DEF c, m, r, e, eof, W
  <1>11. Effect(m, l, i, e, {})
    BY <1>7, <1>9, SetPipe
  <1>12. Effect(k, l, i, e, {} \cup {})
    BY <1>8, <1>11, Then
  <1>13. Effect(k, l, i, e, {}) /\ l \in Tables /\ l.pipes[i] = e
    BY <1>12 DEF Effect
  <1>14. Ends(c, "WRITE") > 0 /\ "WRITE" \in Types
    BY DEF Ends, Types, c
  <1> HIDE DEF l
  <1>15. CASE last
    <2>1. /\ Effect(l, n, i, n.pipes[i], W)
          /\ PipeIs(n.pipes[i], c.open_read, c.open_write - 1, c.in_use, c.name, eof,
                    <<>>, c.wait_writers)
      BY <1>7, <1>13, <1>15, WakeAllReaders DEF PipeIs, W
    <2> HIDE DEF n
    <2>2. Effect(k, n, i, n.pipes[i], {} \cup W)
      BY <1>13, <2>1, Then
    <2>3. Effect(k, n, i, n.pipes[i], W)
      BY <2>2
    <2>4. Quieted(c, n.pipes[i], W)
      BY <2>1 DEF Quieted, PipeIs, Line, Sides, W
    <2>5. HopeKept(c, n.pipes[i])
      BY <2>1 DEF HopeKept, PipeIs
    <2>6. \A t \in Types : Ends(n.pipes[i], t) = IF t = "WRITE" THEN Ends(c, t) - 1 ELSE Ends(c, t)
      BY <2>1 DEF PipeIs, Ends, Types
    <2> QED
      BY <1>3, <1>10, <1>14, <2>3, <2>4, <2>5, <2>6, CloseEnds DEF r, c
  <1>16. CASE ~last
    <2>1. n = l
      BY <1>16
    <2> HIDE DEF n
    <2>2. Effect(k, n, i, n.pipes[i], {}) /\ n.pipes[i] = e
      BY <1>13, <2>1
    <2>3. Quieted(c, e, {})
      BY <1>7 DEF Quieted, PipeIs, Line
    <2>4. HopeKept(c, e)
      BY <1>1, <1>6, <1>7, <1>16 DEF HopeKept, PipeIs
    <2>5. \A t \in Types : Ends(e, t) = IF t = "WRITE" THEN Ends(c, t) - 1 ELSE Ends(c, t)
      BY <1>7 DEF PipeIs, Ends, Types
    <2>6. {} \in SUBSET Pids
      OBVIOUS
    <2> QED
      BY <1>10, <1>14, <2>2, <2>3, <2>4, <2>5, <2>6, CloseEnds DEF r, c
  <1> QED
    BY <1>15, <1>16

-----------------------------------------------------------------------------
(***************************************************************************)
(* The invariant.  It is stated for a set R of references that the counts  *)
(* stand for: in the middle of a call the reference that is taken or       *)
(* dropped is not yet, or still, in the tables.  Likewise a descriptor of S*)
(* has no reference yet, and a process of D is dying: it has left the      *)
(* queues and its state does not say so.                                   *)
(***************************************************************************)
Marks == Fds \X Pids \X (0..2)

\* A descriptor of a pipe has a reference.
Live(k, R, S) == \A f \in Fds \ S : k.fds[f].type \in Types => RefsTo(R, f) # {}

\* The queues hold those that sleep at them.
Agree(k, D) ==
    \A i \in PipeIds, s \in Sides :
        /\ Distinct(Line(k.pipes[i], s))
        /\ Elements(Line(k.pipes[i], s)) = {q \in Pids \ D : Asleep(k, q, i, s)}

\* Whoever sleeps at a pipe has a reference to the end it uses, so that the
\* slot is not given away meanwhile.
EndOf(s) == IF s = "readers" THEN "READ" ELSE "WRITE"

Anchored(k, R) ==
    \A i \in PipeIds, s \in Sides : \A q \in Elements(Line(k.pipes[i], s)) :
        \E x \in EndRefs(k, R, i, EndOf(s)) : x[2] = q

\* Who sleeps at pipe c may still be woken by the other end.
Hope(c) ==
    /\ c.wait_readers # <<>> => IF c.name # Anonymous THEN ~c.eof ELSE c.open_write # 0
    /\ (c.wait_writers # <<>> /\ c.name = Anonymous) => c.open_read # 0

Hopes(k) == \A i \in PipeIds : Hope(k.pipes[i])

\* stdin and stdout, and no other, are the terminal.
Terminals(k) ==
    /\ k.fds[FD_STDIN].type = "TERMINAL" /\ k.fds[FD_STDOUT].type = "TERMINAL"
    /\ \A f \in Fds \ {FD_STDIN, FD_STDOUT} : k.fds[f].type # "TERMINAL"

Fine(k, R, S, D) ==
    /\ Counted(k, R)
    /\ Live(k, R, S)
    /\ Agree(k, D)
    /\ Anchored(k, R)
    /\ Hopes(k)
    /\ Terminals(k)

\* A pipe in use has an end that somebody holds.
Clean(c) == c.in_use => c.open_read # 0 \/ c.open_write # 0

Cleaner(k, r) == \A i \in PipeIds : Clean(k.pipes[i]) => Clean(r.pipes[i])

Sleeps(k, q) == \E i \in PipeIds, s \in Sides : q \in Elements(Line(k.pipes[i], s))

\* From k to r nobody goes to sleep, and who is in no queue is left alone.
Unmoved(k, r) ==
    \A q \in Pids :
        /\ r.procs[q].fd = k.procs[q].fd /\ r.procs[q].own = k.procs[q].own
        /\ r.procs[q].state = "FREE" => k.procs[q].state = "FREE"
        /\ ~Sleeps(k, q) => r.procs[q] = k.procs[q] /\ ~Sleeps(r, q)
        /\ r.procs[q] = k.procs[q] \/ (r.procs[q].state = "READY" /\ r.procs[q].at = Nowhere)

\* From k to r process q is left alone, or woken at the pipe where it sleeps.
Rose(k, r, q) ==
    /\ r.procs[q].fd = k.procs[q].fd /\ r.procs[q].own = k.procs[q].own
    /\ \/ r.procs[q] = k.procs[q]
       \/ Sleeps(k, q) /\ r.procs[q].state = "READY" /\ r.procs[q].at = Nowhere

\* A call of process p, or on it: what it becomes, and nobody else but those it
\* wakes changes.
Moves(k, r, p, state, own, at) ==
    /\ r.procs[p].state = state /\ r.procs[p].own = own /\ r.procs[p].at = at
    /\ \A q \in Pids \ {p} : Rose(k, r, q)

\* Somebody who is left alone or woken has risen.
LEMMA UnmovedRose ==
    ASSUME NEW k, NEW r, Unmoved(k, r), NEW q \in Pids
    PROVE  Rose(k, r, q)
  BY DEF Unmoved, Rose

LEMMA MarksFinite == IsFiniteSet(Marks)
  <1> DEFINE N == Fds \X (Pids \X (0..2))
             pair(x) == <<x[1], <<x[2], x[3]>>>>
             m == [x \in Marks |-> pair(x)]
  <1>1. IsFiniteSet(Fds) /\ IsFiniteSet(Pids) /\ IsFiniteSet(0..2)
    <2>1. MAX_FDS - 1 \in Int /\ 0 \in Int /\ 2 \in Int
      BY PipesAssumption
    <2> QED
      BY <2>1, FS_Interval, PipesAssumption DEF Fds
  <1>2. IsFiniteSet(Pids \X (0..2))
    BY <1>1, FS_Product
  <1>3. IsFiniteSet(N)
    BY <1>1, <1>2, FS_Product
  <1>4. \A x \in Marks : pair(x) \in N
    BY DEF Marks
  <1>5. \A x, y \in Marks : pair(x) = pair(y) => x = y
    BY DEF Marks
  <1>6. m \in Injection(Marks, N)
    <2> HIDE DEF N, pair
    <2> QED
      BY <1>4, <1>5 DEF Injection, IsInjective
  <1> QED
    BY <1>3, <1>6, FS_Injection

LEMMA RefsFinite ==
    ASSUME NEW R \in SUBSET Marks
    PROVE  /\ IsFiniteSet(R)
           /\ \A f : RefsTo(R, f) \in SUBSET Marks /\ IsFiniteSet(RefsTo(R, f))
           /\ \A k, i, t : EndRefs(k, R, i, t) \in SUBSET Marks
                           /\ IsFiniteSet(EndRefs(k, R, i, t))
  <1>1. \A T \in SUBSET Marks : IsFiniteSet(T)
    BY MarksFinite, FS_Subset
  <1>2. \A f : RefsTo(R, f) \in SUBSET Marks
    BY DEF RefsTo
  <1>3. \A k, i, t : EndRefs(k, R, i, t) \in SUBSET Marks
    BY DEF EndRefs
  <1> QED
    BY <1>1, <1>2, <1>3

\* Nobody is in two queues.
LEMMA OnePlace ==
    ASSUME NEW k \in Tables, NEW D, Agree(k, D), NEW q,
           NEW i \in PipeIds, NEW j \in PipeIds, NEW s \in Sides, NEW t \in Sides,
           q \in Elements(Line(k.pipes[i], s)), q \in Elements(Line(k.pipes[j], t))
    PROVE  i = j /\ s = t
  BY DEF Agree, Asleep

\* Some of those in queues wake up and leave them.
Shrunk(k, r) ==
    \E W \in SUBSET Pids :
        /\ Woken(k, r, W)
        /\ \A q \in W : Sleeps(k, q)
        /\ \A i \in PipeIds, s \in Sides :
              /\ Distinct(Line(r.pipes[i], s))
              /\ Elements(Line(r.pipes[i], s)) = Elements(Line(k.pipes[i], s)) \ W

LEMMA ShrunkAgree ==
    ASSUME NEW k \in Tables, NEW r \in Tables, NEW D, Agree(k, D), Shrunk(k, r)
    PROVE  Agree(r, D) /\ Unmoved(k, r)
  <1>1. PICK W \in SUBSET Pids :
            /\ Woken(k, r, W)
            /\ \A q \in W : Sleeps(k, q)
            /\ \A i \in PipeIds, s \in Sides :
                  /\ Distinct(Line(r.pipes[i], s))
                  /\ Elements(Line(r.pipes[i], s)) = Elements(Line(k.pipes[i], s)) \ W
    BY DEF Shrunk
  <1>2. ASSUME NEW i \in PipeIds, NEW s \in Sides, NEW q \in Pids \ D
        PROVE  Asleep(r, q, i, s) <=> (Asleep(k, q, i, s) /\ q \notin W)
    <2>1. <<i, s>> # Nowhere
      BY PlacesIn
    <2> QED
      BY <1>1, <2>1 DEF Woken, Asleep
  <1>3. Agree(r, D)
    BY <1>1, <1>2 DEF Agree
  <1>4. Unmoved(k, r)
    BY <1>1 DEF Unmoved, Woken, Sleeps
  <1> QED
    BY <1>3, <1>4

LEMMA QuietShrunk ==
    ASSUME NEW k \in Tables, NEW r, NEW D, Agree(k, D), NEW i \in PipeIds, NEW W \in SUBSET Pids,
           Effect(k, r, i, r.pipes[i], W), Quieted(k.pipes[i], r.pipes[i], W)
    PROVE  Shrunk(k, r)
  <1>1. \A q \in W : Sleeps(k, q)
    BY DEF Sleeps, Quieted
  <1>2. ASSUME NEW s \in Sides
        PROVE  /\ Distinct(Line(r.pipes[i], s))
               /\ Elements(Line(r.pipes[i], s)) = Elements(Line(k.pipes[i], s)) \ W
    <2>1. CASE Line(r.pipes[i], s) = <<>> /\ Elements(Line(k.pipes[i], s)) \subseteq W
      BY <2>1, EmptyLine
    <2>2. CASE Line(r.pipes[i], s) = Line(k.pipes[i], s)
      <3>1. ASSUME NEW q \in W, q \in Elements(Line(k.pipes[i], s))
            PROVE  FALSE
        <4>1. PICK t \in Sides : q \in Elements(Line(k.pipes[i], t)) /\ Line(r.pipes[i], t) = <<>>
          BY DEF Quieted
        <4>2. t = s
          BY <3>1, <4>1, OnePlace
        <4> QED
          BY <2>2, <3>1, <4>1, <4>2, EmptyLine
      <3> QED
        BY <2>2, <3>1 DEF Agree
    <2> QED
      BY <2>1, <2>2 DEF Quieted
  <1>3. ASSUME NEW j \in PipeIds \ {i}, NEW s \in Sides
        PROVE  /\ Distinct(Line(r.pipes[j], s))
               /\ Elements(Line(r.pipes[j], s)) = Elements(Line(k.pipes[j], s)) \ W
    <2>1. r.pipes[j] = k.pipes[j]
      BY DEF Effect
    <2>2. ASSUME NEW q \in W, q \in Elements(Line(k.pipes[j], s))
          PROVE  FALSE
      <3>1. PICK t \in Sides : q \in Elements(Line(k.pipes[i], t))
        BY DEF Quieted
      <3> QED
        BY <2>2, <3>1, OnePlace
    <2> QED
      BY <2>1, <2>2 DEF Agree
  <1> QED
    BY <1>1, <1>2, <1>3 DEF Shrunk, Effect

\* Hope survives.
LEMMA HopeStays ==
    ASSUME NEW c, NEW d, NEW W, Hope(c), HopeKept(c, d), Quieted(c, d, W)
    PROVE  Hope(d)
  <1>1. /\ d.wait_readers = c.wait_readers \/ d.wait_readers = <<>>
        /\ d.wait_writers = c.wait_writers \/ d.wait_writers = <<>>
    BY DEF Quieted, Line, Sides
  <1> QED
    BY <1>1 DEF Hope, HopeKept

-----------------------------------------------------------------------------
(***************************************************************************)
(* One reference more, one reference less: what happens to the pipes.      *)
(***************************************************************************)
Shorter(k, r) == \A i \in PipeIds, s \in Sides :
                    Elements(Line(r.pipes[i], s)) \subseteq Elements(Line(k.pipes[i], s))

\* From k to r nothing but pipe i changes, and nobody falls asleep.
Calmer(k, r, D, i) ==
    /\ r \in Tables
    /\ Agree(r, D) /\ Unmoved(k, r) /\ Shorter(k, r) /\ Hopes(r)
    /\ \A j \in PipeIds \ {i} : r.pipes[j] = k.pipes[j]

\* From k to r the number of ends of one type of pipe i becomes n.
PipesMove(k, r, D, i, type, n) ==
    /\ Calmer(k, r, D, i) /\ Cleaner(k, r)
    /\ \A j \in PipeIds, t \in Types :
          Ends(r.pipes[j], t) = IF j = i /\ t = type THEN n ELSE Ends(k.pipes[j], t)
    /\ \A j \in PipeIds :
          (\E t \in Types : Ends(r.pipes[j], t) > 0) => r.pipes[j].in_use = k.pipes[j].in_use

\* The part that both have in common.
LEMMA QuietMoves ==
    ASSUME NEW k \in Tables, NEW m \in Tables, m.pipes = k.pipes, m.procs = k.procs,
           NEW D, Agree(k, D), Hopes(k),
           NEW i \in PipeIds, NEW r, NEW W \in SUBSET Pids, Hope(r.pipes[i]),
           Effect(m, r, i, r.pipes[i], W), Quieted(k.pipes[i], r.pipes[i], W)
    PROVE  Calmer(k, r, D, i)
  <1>1. r \in Tables /\ \A j \in PipeIds \ {i} : r.pipes[j] = k.pipes[j]
    BY DEF Effect
  <1>2. Agree(m, D)
    BY DEF Agree, Asleep
  <1>3. Shrunk(m, r)
    BY <1>2, QuietShrunk
  <1>4. Agree(r, D) /\ Unmoved(m, r)
    BY <1>1, <1>2, <1>3, ShrunkAgree
  <1>5. Unmoved(k, r)
    BY <1>4 DEF Unmoved, Sleeps
  <1>6. Shorter(k, r)
    BY <1>3 DEF Shrunk, Shorter
  <1>7. Hopes(r)
    BY <1>1 DEF Hopes
  <1> QED
    BY <1>1, <1>4, <1>5, <1>6, <1>7 DEF Calmer

LEMMA OpenMoves ==
    ASSUME NEW k \in Tables, NEW m \in Tables, m.pipes = k.pipes, m.procs = k.procs,
           NEW D, Agree(k, D), Hopes(k),
           NEW i \in PipeIds, NEW type \in Types, NEW r, OpenStep(m, r, i, type)
    PROVE  PipesMove(k, r, D, i, type, Ends(k.pipes[i], type) + 1)
  <1> DEFINE c == k.pipes[i]
             d == r.pipes[i]
  <1>1. PICK W \in SUBSET Pids : Effect(m, r, i, d, W) /\ Quieted(c, d, W)
    BY DEF OpenStep
  <1>2. /\ HopeKept(c, d)
        /\ \A t \in Types : Ends(d, t) = IF t = type THEN Ends(c, t) + 1 ELSE Ends(c, t)
    BY DEF OpenStep
  <1>3. Hope(c) /\ c \in Pipe
    BY TableTypes DEF Hopes
  <1>4. Hope(d)
    BY <1>1, <1>2, <1>3, HopeStays
  <1>5. Calmer(k, r, D, i)
    BY <1>1, <1>4, QuietMoves
  <1>6. \A j \in PipeIds : r.pipes[j].in_use = k.pipes[j].in_use
    BY <1>2, <1>5 DEF HopeKept, Calmer
  <1>7. \A t \in Types : Ends(c, t) \in Nat
    BY <1>3, LineIn
  <1>8. Clean(d)
    BY <1>2, <1>7 DEF Clean, Ends, Types
  <1>9. Cleaner(k, r)
    BY <1>5, <1>8 DEF Cleaner, Calmer
  <1>10. \A j \in PipeIds, t \in Types :
            Ends(r.pipes[j], t) = IF j = i /\ t = type THEN Ends(c, type) + 1
                                  ELSE Ends(k.pipes[j], t)
    BY <1>2, <1>5 DEF Calmer
  <1> QED
    BY <1>5, <1>6, <1>9, <1>10 DEF PipesMove

\* An end of pipe i is left when one of this type is closed.
EndLeft(k, i, type) ==
    \E t \in Types : (IF t = type THEN Ends(k.pipes[i], t) - 1 ELSE Ends(k.pipes[i], t)) > 0

LEMMA CloseMoves ==
    ASSUME NEW k \in Tables, NEW m \in Tables, m.pipes = k.pipes, m.procs = k.procs,
           NEW D, Agree(k, D), Hopes(k),
           NEW i \in PipeIds, NEW type \in Types, NEW r, CloseStep(m, r, i, type),
           Ends(k.pipes[i], type) > 0,
           \* a line without an end to come from is empty
           \A s \in Sides : Elements(Line(k.pipes[i], s)) # {} => EndLeft(k, i, type)
    PROVE  /\ PipesMove(k, r, D, i, type, Ends(k.pipes[i], type) - 1)
           /\ Clean(r.pipes[i])
  <1> DEFINE c == k.pipes[i]
             d == r.pipes[i]
             left(t) == IF t = type THEN Ends(c, t) - 1 ELSE Ends(c, t)
  <1>1. c \in Pipe /\ Hope(c) /\ \A t \in Types : Ends(c, t) \in Nat /\ left(t) \in Nat
    BY TableTypes, LineIn DEF Hopes
  <1>2. CASE \E t \in Types : left(t) > 0
    <2>1. /\ \E W \in SUBSET Pids : Effect(m, r, i, d, W) /\ Quieted(c, d, W)
          /\ HopeKept(c, d)
          /\ \A t \in Types : Ends(d, t) = left(t)
      BY <1>2 DEF CloseStep
    <2>2. PICK W \in SUBSET Pids : Effect(m, r, i, d, W) /\ Quieted(c, d, W)
      BY <2>1
    <2>3. Hope(d)
      BY <1>1, <2>1, <2>2, HopeStays
    <2>4. Calmer(k, r, D, i)
      BY <2>2, <2>3, QuietMoves
    <2>5. \A j \in PipeIds : r.pipes[j].in_use = k.pipes[j].in_use
      BY <2>1, <2>4 DEF HopeKept, Calmer
    <2>6. Clean(d)
      BY <1>1, <1>2, <2>1 DEF Clean, Ends, Types
    <2>7. Cleaner(k, r)
      BY <2>4, <2>6 DEF Cleaner, Calmer
    <2>8. \A j \in PipeIds, t \in Types :
              Ends(r.pipes[j], t) = IF j = i /\ t = type THEN Ends(c, type) - 1
                                    ELSE Ends(k.pipes[j], t)
      BY <2>1, <2>4 DEF Calmer
    <2> QED
      BY <2>4, <2>5, <2>6, <2>7, <2>8 DEF PipesMove
  <1>3. CASE \A t \in Types : left(t) = 0
    <2>1. PICK W \in SUBSET Pids :
             /\ Effect(m, r, i, pipe_reset, W)
             /\ \A q \in W : \E s \in Sides : q \in Elements(Line(c, s))
      BY <1>3 DEF CloseStep
    <2>2. \A s \in Sides : Elements(Line(c, s)) = {}
      <3>1. ~EndLeft(k, i, type)
        BY <1>3 DEF EndLeft
      <3> QED
        BY <3>1
    <2>3. W = {} /\ d = pipe_reset
      BY <2>1, <2>2 DEF Effect
    <2>4. /\ Hope(d) /\ Clean(d) /\ \A t \in Types : Ends(d, t) = 0
          /\ \A s \in Sides : Line(d, s) = <<>>
      BY <2>3, ResetIs DEF PipeIs, Hope, Clean, Ends, Line
    <2>5. Quieted(c, d, W)
      BY <2>2, <2>3, <2>4 DEF Quieted
    <2>6. Calmer(k, r, D, i)
      BY <2>1, <2>3, <2>4, <2>5, QuietMoves
    <2>7. Cleaner(k, r)
      BY <2>4, <2>6 DEF Cleaner, Calmer
    <2>8. \A j \in PipeIds, t \in Types :
              Ends(r.pipes[j], t) = IF j = i /\ t = type THEN Ends(c, type) - 1
                                    ELSE Ends(k.pipes[j], t)
      BY <1>3, <2>4, <2>6 DEF Calmer
    <2>9. \A j \in PipeIds :
            (\E t \in Types : Ends(r.pipes[j], t) > 0) => r.pipes[j].in_use = k.pipes[j].in_use
      BY <2>4, <2>6 DEF Calmer
    <2> QED
      BY <2>4, <2>6, <2>7, <2>8, <2>9 DEF PipesMove
  <1> QED
    BY <1>1, <1>2, <1>3

-----------------------------------------------------------------------------
(***************************************************************************)
(* Descriptors: fd_incref and fd_decref.                                   *)
(***************************************************************************)

\* Descriptor f of k with another count.
Recounted(k, m, f, n) ==
    /\ m \in Tables /\ m.pipes = k.pipes /\ m.procs = k.procs
    /\ \A g \in Fds \ {f} : m.fds[g] = k.fds[g]
    /\ m.fds[f].type = k.fds[f].type /\ m.fds[f].data = k.fds[f].data
    /\ m.fds[f].refcount = n

LEMMA SetFd ==
    ASSUME NEW k \in Tables, NEW f \in Fds, NEW d \in FD
    PROVE  LET m == [k EXCEPT !.fds[f] = d]
           IN  /\ m \in Tables /\ m.pipes = k.pipes /\ m.procs = k.procs
               /\ \A g \in Fds \ {f} : m.fds[g] = k.fds[g]
               /\ m.fds[f] = d
  BY DEF Tables

LEMMA Recount ==
    ASSUME NEW k \in Tables, NEW f \in Fds, NEW n \in Nat
    PROVE  Recounted(k, [k EXCEPT !.fds[f].refcount = n], f, n)
  <1> DEFINE d == [k.fds[f] EXCEPT !.refcount = n]
             m == [k EXCEPT !.fds[f] = d]
  <1>1. k.fds[f] \in FD
    BY TableTypes
  <1>2. /\ d \in FD /\ d.type = k.fds[f].type /\ d.data = k.fds[f].data /\ d.refcount = n
    BY <1>1 DEF FD
  <1>3. [k EXCEPT !.fds[f].refcount = n] = m
    OBVIOUS
  <1> HIDE DEF d
  <1>4. Recounted(k, m, f, n)
    BY <1>2, SetFd DEF Recounted
  <1> QED
    BY <1>3, <1>4

FDFields(d) == d.type \in {"NONE", "TERMINAL", "READ", "WRITE"} /\ d.refcount \in Nat

\* One reference more: the descriptor counts it, and so does its pipe.
IncStep(k, r, f) ==
    \E m \in Tables :
        /\ Recounted(k, m, f, k.fds[f].refcount + 1)
        /\ k.fds[f].type = "TERMINAL" => r = m
        /\ k.fds[f].type \in Types => OpenStep(m, r, k.fds[f].data, k.fds[f].type)

LEMMA IncIs ==
    ASSUME NEW k \in Tables, NEW f \in Fds, k.fds[f].type # "NONE",
           k.fds[f].type \in Types => k.fds[f].data \in PipeIds
    PROVE  IncStep(k, fd_incref(k, f), f)
  <1> DEFINE d == k.fds[f]
             m == [k EXCEPT !.fds[f].refcount = d.refcount + 1]
             r == fd_incref(k, f)
  <1>1. FDFields(d)
    BY TableTypes DEF FD, FDFields
  <1>2. Recounted(k, m, f, d.refcount + 1)
    <2> HIDE DEF d
    <2>1. d.refcount + 1 \in Nat
      BY <1>1 DEF FDFields
    <2> QED
      BY <2>1, Recount
  <1>3. m \in Tables
    BY <1>2 DEF Recounted
  <1>4. r = CASE d.type = "NONE"     -> k
              [] d.type = "TERMINAL" -> m
              [] d.type = "READ"     -> pipe_open_read(m, d.data)
              [] d.type = "WRITE"    -> pipe_open_write(m, d.data)
    BY DEF fd_incref
  <1> HIDE DEF m, r, d
  <1>5. CASE d.type = "TERMINAL"
    <2>1. r = m
      BY <1>4, <1>5
    <2> QED
      BY <1>2, <1>3, <1>5, <2>1 DEF IncStep, Types, d, r
  <1>6. CASE d.type = "READ"
    <2>1. r = pipe_open_read(m, d.data)
      BY <1>4, <1>6
    <2>2. d.data \in PipeIds
      BY <1>6 DEF d, Types
    <2>3. OpenStep(m, r, d.data, d.type)
      BY <1>3, <1>6, <2>1, <2>2, OpenReadIs
    <2> QED
      BY <1>2, <1>3, <1>6, <2>3 DEF IncStep, d, r
  <1>7. CASE d.type = "WRITE"
    <2>1. r = pipe_open_write(m, d.data)
      BY <1>4, <1>7
    <2>2. d.data \in PipeIds
      BY <1>7 DEF d, Types
    <2>3. OpenStep(m, r, d.data, d.type)
      BY <1>3, <1>7, <2>1, <2>2, OpenWriteIs
    <2> QED
      BY <1>2, <1>3, <1>7, <2>3 DEF IncStep, d, r
  <1> QED
    BY <1>1, <1>5, <1>6, <1>7 DEF FDFields, d

\* One reference less: descriptor and pipe are told, and the descriptor is free
\* when it was the last.
DecStep(k, r, f) ==
    \E m \in Tables, l \in Tables :
        /\ Recounted(k, m, f, k.fds[f].refcount - 1)
        /\ k.fds[f].type = "TERMINAL" => r = m
        /\ k.fds[f].type \in Types =>
              /\ CloseStep(m, l, k.fds[f].data, k.fds[f].type)
              /\ l.fds = m.fds
              /\ k.fds[f].refcount - 1 # 0 => r = l
              /\ k.fds[f].refcount - 1 = 0 =>
                    /\ r \in Tables /\ r.pipes = l.pipes /\ r.procs = l.procs
                    /\ \A g \in Fds \ {f} : r.fds[g] = l.fds[g]
                    /\ r.fds[f].type = "NONE" /\ r.fds[f].refcount = 0

LEMMA CloseKeepsFds ==
    ASSUME NEW k \in Tables, NEW i \in PipeIds, NEW type \in Types, NEW r,
           Ends(k.pipes[i], type) > 0, CloseStep(k, r, i, type)
    PROVE  r \in Tables /\ r.fds = k.fds
  <1> DEFINE left(t) == IF t = type THEN Ends(k.pipes[i], t) - 1 ELSE Ends(k.pipes[i], t)
  <1>1. \A t \in Types : left(t) \in Nat
    BY TableTypes, LineIn
  <1>2. CASE \E t \in Types : left(t) > 0
    BY <1>2 DEF CloseStep, Effect
  <1>3. CASE \A t \in Types : left(t) = 0
    BY <1>3 DEF CloseStep, Effect
  <1> HIDE DEF left
  <1>4. \A t \in Types : left(t) > 0 \/ left(t) = 0
    BY <1>1
  <1> QED
    BY <1>2, <1>3, <1>4

LEMMA DecIs ==
    ASSUME NEW k \in Tables, NEW f \in Fds, k.fds[f].type # "NONE", k.fds[f].refcount > 0,
           k.fds[f].type \in Types => /\ k.fds[f].data \in PipeIds
                                      /\ Ends(k.pipes[k.fds[f].data], k.fds[f].type) > 0
    PROVE  DecStep(k, fd_decref(k, f), f)
  <1> DEFINE d == k.fds[f]
             m == [k EXCEPT !.fds[f].refcount = d.refcount - 1]
             told == CASE d.refcount > 0 /\ d.type = "READ"  -> pipe_close_read(m, d.data)
                       [] d.refcount > 0 /\ d.type = "WRITE" -> pipe_close_write(m, d.data)
                       [] OTHER -> m
             r == fd_decref(k, f)
  <1>1. FDFields(d) /\ d.refcount > 0
    BY TableTypes DEF FD, FDFields
  <1>2. Recounted(k, m, f, d.refcount - 1)
    <2> DEFINE n == d.refcount - 1
    <2>1. n \in Nat
      BY <1>1 DEF FDFields
    <2> HIDE DEF n, d
    <2>2. Recounted(k, [k EXCEPT !.fds[f].refcount = n], f, n)
      BY <2>1, Recount
    <2> QED
      BY <2>2 DEF n
  <1>3. m \in Tables /\ m.fds[f].refcount = d.refcount - 1 /\ m.pipes = k.pipes
    BY <1>2 DEF Recounted
  <1>4. r = IF d.type = "NONE" THEN k
            ELSE IF d.type # "TERMINAL" /\ m.fds[f].refcount = 0
              THEN fd_released(told, f) ELSE told
    <2>1. dec(d.refcount) = d.refcount - 1
      BY <1>1 DEF dec
    <2> QED
      BY <2>1 DEF fd_decref
  <1> HIDE DEF m, r, d
  <1>5. CASE d.type = "TERMINAL"
    <2>1. r = m
      BY <1>4, <1>5
    <2> QED
      BY <1>2, <1>3, <1>5, <2>1 DEF DecStep, Types, d, r
  <1>6. CASE d.type \in Types
    <2>1. d.data \in PipeIds /\ Ends(m.pipes[d.data], d.type) > 0
      BY <1>3, <1>6 DEF d
    <2>2. CloseStep(m, told, d.data, d.type)
      <3>1. CASE d.type = "READ"
        <4>1. told = pipe_close_read(m, d.data)
          BY <1>1, <3>1
        <4>2. m.pipes[d.data].open_read > 0
          BY <2>1, <3>1 DEF Ends
        <4> HIDE DEF told
        <4> QED
          BY <1>3, <2>1, <3>1, <4>1, <4>2, CloseReadIs
      <3>2. CASE d.type = "WRITE"
        <4>1. told = pipe_close_write(m, d.data)
          BY <1>1, <3>2
        <4>2. m.pipes[d.data].open_write > 0
          BY <2>1, <3>2 DEF Ends
        <4> HIDE DEF told
        <4> QED
          BY <1>3, <2>1, <3>2, <4>1, <4>2, CloseWriteIs
      <3> QED
        BY <1>6, <3>1, <3>2 DEF Types
    <2> HIDE DEF told
    <2>3. told \in Tables /\ told.fds = m.fds
      BY <1>3, <1>6, <2>1, <2>2, CloseKeepsFds
    <2>4. CASE d.refcount - 1 # 0
      <3>1. r = told
        BY <1>3, <1>4, <1>6, <2>4 DEF Types
      <3> QED
        BY <1>2, <1>3, <1>6, <2>2, <2>3, <2>4, <3>1 DEF DecStep, d, r, Types
    <2>5. CASE d.refcount - 1 = 0
      <3> DEFINE e == [told.fds[f] EXCEPT !.type = "NONE", !.data = NULL]
      <3>1. r = [told EXCEPT !.fds[f] = e]
        <4>1. r = fd_released(told, f)
          BY <1>3, <1>4, <1>6, <2>5 DEF Types
        <4> QED
          BY ONLY <4>1 DEF fd_released
      <3>2. told.fds[f] \in FD
        BY <2>3, TableTypes
      <3>3. e \in FD /\ e.type = "NONE" /\ e.refcount = 0
        BY <1>3, <2>3, <2>5, <3>2 DEF FD
      <3> HIDE DEF e
      <3>4. /\ r \in Tables /\ r.pipes = told.pipes /\ r.procs = told.procs
            /\ \A g \in Fds \ {f} : r.fds[g] = told.fds[g]
            /\ r.fds[f] = e
        BY <2>3, <3>1, <3>3, SetFd
      <3> QED
        BY <1>2, <1>3, <1>6, <2>2, <2>3, <2>5, <3>3, <3>4 DEF DecStep, d, r, Types
    <2> QED
      BY <2>4, <2>5
  <1> QED
    BY <1>1, <1>5, <1>6 DEF FDFields, d, Types

\* The rest of k and r, when only the count of a descriptor and the pipes move.
Around(k, r) == r \in Tables /\ Unmoved(k, r) /\ Cleaner(k, r)

LEMMA OneMore ==
    ASSUME NEW S, IsFiniteSet(S), NEW x, x \notin S
    PROVE  Cardinality(S \cup {x}) = Cardinality(S) + 1
  BY FS_AddElement

LEMMA OneLess ==
    ASSUME NEW S, IsFiniteSet(S), NEW x, x \in S
    PROVE  Cardinality(S \ {x}) = Cardinality(S) - 1 /\ Cardinality(S) > 0
           /\ Cardinality(S) \in Nat
  BY FS_RemoveElement, FS_EmptySet, FS_CardinalityType

LEMMA Alike ==
    ASSUME NEW k \in Tables, NEW m \in Tables, m.pipes = k.pipes, m.procs = k.procs,
           NEW D, Agree(k, D), Hopes(k)
    PROVE  Agree(m, D) /\ Hopes(m) /\ Unmoved(k, m) /\ Shorter(k, m) /\ Cleaner(k, m)
  BY DEF Agree, Asleep, Hopes, Unmoved, Sleeps, Shorter, Cleaner

\* The descriptors refer to what they referred to.
SameKinds(k, r) ==
    \A g \in Fds : r.fds[g].type = k.fds[g].type /\ r.fds[g].data = k.fds[g].data

\* The ends that are counted, with one reference more.
LEMMA EndsWithOneMore ==
    ASSUME NEW k, NEW r, NEW R \in SUBSET Marks, NEW x \in Marks, x \notin R,
           SameKinds(k, r), NEW f, f = x[1], NEW j, NEW t
    PROVE  /\ (k.fds[f].type = t /\ k.fds[f].data = j) =>
                 Cardinality(EndRefs(r, R \cup {x}, j, t)) = Cardinality(EndRefs(k, R, j, t)) + 1
           /\ ~(k.fds[f].type = t /\ k.fds[f].data = j) =>
                 EndRefs(r, R \cup {x}, j, t) = EndRefs(k, R, j, t)
  <1>1. \A y \in R \cup {x} : y[1] \in Fds
    BY DEF Marks
  <1>2. x \notin EndRefs(k, R, j, t) /\ IsFiniteSet(EndRefs(k, R, j, t))
    BY RefsFinite DEF EndRefs
  <1>3. CASE k.fds[x[1]].type = t /\ k.fds[x[1]].data = j
    <2>1. \A y \in R \cup {x} : y \in EndRefs(r, R \cup {x}, j, t)
                                  <=> y \in EndRefs(k, R, j, t) \/ y = x
      BY <1>1, <1>3 DEF EndRefs, SameKinds
    <2>2. EndRefs(r, R \cup {x}, j, t) \subseteq R \cup {x} /\ EndRefs(k, R, j, t) \subseteq R
      BY DEF EndRefs
    <2>3. EndRefs(r, R \cup {x}, j, t) = EndRefs(k, R, j, t) \cup {x}
      BY <2>1, <2>2
    <2> DEFINE E == EndRefs(k, R, j, t)
    <2>4. x \notin E /\ IsFiniteSet(E)
      BY <1>2
    <2> HIDE DEF E
    <2>5. Cardinality(E \cup {x}) = Cardinality(E) + 1
      BY <2>4, OneMore
    <2> QED
      BY <1>3, <2>3, <2>5 DEF E
  <1>4. CASE ~(k.fds[x[1]].type = t /\ k.fds[x[1]].data = j)
    <2>1. EndRefs(r, R \cup {x}, j, t) = EndRefs(k, R, j, t)
      BY <1>1, <1>4 DEF EndRefs, SameKinds
    <2> QED
      BY <1>4, <2>1
  <1> QED
    BY <1>3, <1>4

LEMMA IncFine ==
    ASSUME NEW k \in Tables, NEW R \in SUBSET Marks, NEW D, NEW f \in Fds,
           NEW x \in Marks, x \notin R, x[1] = f, k.fds[f].type # "NONE",
           Fine(k, R, {f}, D)
    PROVE  LET r == fd_incref(k, f)
           IN  /\ Fine(r, R \cup {x}, {}, D) /\ Around(k, r)
               /\ SameKinds(k, r)
  <1> DEFINE r == fd_incref(k, f)
             d == k.fds[f]
             Q == R \cup {x}
  <1>1. /\ Counted(k, R) /\ Live(k, R, {f}) /\ Agree(k, D) /\ Anchored(k, R) /\ Hopes(k)
        /\ Terminals(k)
    BY DEF Fine
  <1>2. d.type \in Types => d.data \in PipeIds /\ k.pipes[d.data].in_use
    BY <1>1 DEF Counted, Types
  <1>3. IncStep(k, r, f)
    BY <1>2, IncIs
  <1>4. FDFields(d)
    BY TableTypes DEF FD, FDFields
  <1>5. PICK m \in Tables :
           /\ Recounted(k, m, f, d.refcount + 1)
           /\ d.type = "TERMINAL" => r = m
           /\ d.type \in Types => OpenStep(m, r, d.data, d.type)
    BY <1>3 DEF IncStep
  <1> HIDE DEF r, d
  <1>6. m.pipes = k.pipes /\ m.procs = k.procs
    BY <1>5 DEF Recounted
  <1>7. /\ Around(k, r) /\ Agree(r, D) /\ Hopes(r) /\ Shorter(k, r) /\ r.fds = m.fds
        /\ \A j \in PipeIds : r.pipes[j].in_use = k.pipes[j].in_use
        /\ \A j \in PipeIds, t \in Types :
              Ends(r.pipes[j], t) = IF d.type = t /\ d.data = j THEN Ends(k.pipes[j], t) + 1
                                    ELSE Ends(k.pipes[j], t)
    <2>1. CASE d.type \in Types
      <3>1. OpenStep(m, r, d.data, d.type)
        BY <1>5, <2>1
      <3>2. d.data \in PipeIds
        BY <1>2, <2>1
      <3>3. PipesMove(k, r, D, d.data, d.type, Ends(k.pipes[d.data], d.type) + 1)
        BY <1>1, <1>6, <2>1, <3>1, <3>2, OpenMoves
      <3>4. r.fds = m.fds /\ \A j \in PipeIds : r.pipes[j].in_use = k.pipes[j].in_use
        BY <1>6, <3>1, <3>2 DEF OpenStep, Effect, HopeKept
      <3>5. \A j \in PipeIds, t \in Types :
               Ends(r.pipes[j], t) = IF d.type = t /\ d.data = j THEN Ends(k.pipes[j], t) + 1
                                     ELSE Ends(k.pipes[j], t)
        BY <3>3 DEF PipesMove
      <3> QED
        BY <3>3, <3>4, <3>5 DEF PipesMove, Calmer, Around
    <2>2. CASE d.type = "TERMINAL"
      <3>1. r = m
        BY <1>5, <2>2
      <3>2. Agree(m, D) /\ Hopes(m) /\ Unmoved(k, m) /\ Shorter(k, m) /\ Cleaner(k, m)
        BY <1>1, <1>6, Alike
      <3>3. "TERMINAL" \notin Types
        BY DEF Types
      <3> QED
        BY <1>6, <2>2, <3>1, <3>2, <3>3 DEF Around
    <2> QED
      BY <1>4, <2>1, <2>2 DEF FDFields, Types, d
  <1>8. /\ \A g \in Fds \ {f} : r.fds[g] = k.fds[g]
        /\ r.fds[f].refcount = d.refcount + 1
        /\ SameKinds(k, r)
    BY <1>5, <1>7 DEF Recounted, SameKinds
  <1>9. /\ RefsTo(Q, f) = RefsTo(R, f) \cup {x} /\ x \notin RefsTo(R, f)
        /\ \A g \in Fds \ {f} : RefsTo(Q, g) = RefsTo(R, g)
    BY DEF RefsTo
  <1>10. Cardinality(RefsTo(Q, f)) = Cardinality(RefsTo(R, f)) + 1
    BY <1>9, OneMore, RefsFinite
  <1> HIDE DEF Q
  <1>11. ASSUME NEW j \in PipeIds, NEW t \in Types
         PROVE  Ends(r.pipes[j], t) = Cardinality(EndRefs(r, Q, j, t))
    <2>1. Ends(k.pipes[j], t) = Cardinality(EndRefs(k, R, j, t))
      BY <1>1 DEF Counted, Ends, Types
    <2>2. CASE d.type = t /\ d.data = j
      <3>1. Cardinality(EndRefs(r, Q, j, t)) = Cardinality(EndRefs(k, R, j, t)) + 1
        BY <1>8, <2>2, EndsWithOneMore DEF Q, d
      <3> QED
        BY <1>7, <2>1, <2>2, <3>1
    <2>3. CASE ~(d.type = t /\ d.data = j)
      <3>1. EndRefs(r, Q, j, t) = EndRefs(k, R, j, t)
        BY <1>8, <2>3, EndsWithOneMore DEF Q, d
      <3> QED
        BY <1>7, <2>1, <2>3, <3>1
    <2> QED
      BY <2>2, <2>3
  <1>12. Counted(r, Q)
    <2>1. ASSUME NEW g \in Fds
          PROVE  /\ r.fds[g].refcount = Cardinality(RefsTo(Q, g))
                 /\ r.fds[g].type = "NONE" => RefsTo(Q, g) = {}
                 /\ r.fds[g].type \in {"READ", "WRITE"} =>
                       r.fds[g].data \in PipeIds /\ r.pipes[r.fds[g].data].in_use
      <3>1. r.fds[g].refcount = Cardinality(RefsTo(Q, g))
        BY <1>1, <1>8, <1>9, <1>10 DEF Counted, d
      <3>2. r.fds[g].type = "NONE" => RefsTo(Q, g) = {}
        BY <1>1, <1>8, <1>9 DEF Counted, SameKinds
      <3>3. r.fds[g].type \in {"READ", "WRITE"} =>
               r.fds[g].data \in PipeIds /\ r.pipes[r.fds[g].data].in_use
        BY <1>1, <1>7, <1>8 DEF Counted, SameKinds
      <3> QED
        BY <3>1, <3>2, <3>3
    <2>2. ASSUME NEW j \in PipeIds
          PROVE  /\ r.pipes[j].open_read = Cardinality(EndRefs(r, Q, j, "READ"))
                 /\ r.pipes[j].open_write = Cardinality(EndRefs(r, Q, j, "WRITE"))
      BY <1>11 DEF Ends, Types
    <2> QED
      BY <2>1, <2>2 DEF Counted
  <1>13. Live(r, Q, {})
    BY <1>1, <1>8, <1>9 DEF Live, SameKinds
  <1>14. Anchored(r, Q)
    <2> SUFFICES ASSUME NEW j \in PipeIds, NEW s \in Sides, NEW q \in Elements(Line(r.pipes[j], s))
                 PROVE  \E y \in EndRefs(r, Q, j, EndOf(s)) : y[2] = q
      BY DEF Anchored
    <2>1. q \in Elements(Line(k.pipes[j], s))
      BY <1>7 DEF Shorter
    <2>2. PICK y \in EndRefs(k, R, j, EndOf(s)) : y[2] = q
      BY <1>1, <2>1 DEF Anchored
    <2>3. y \in Q /\ y[1] \in Fds
      BY DEF EndRefs, Q, Marks
    <2>4. y \in EndRefs(r, Q, j, EndOf(s))
      BY <1>8, <2>3 DEF EndRefs, SameKinds
    <2> QED
      BY <2>2, <2>4
  <1>15. Terminals(r)
    BY <1>1, <1>8, IdsAreNat DEF Terminals, SameKinds
  <1> QED
    BY <1>7, <1>8, <1>12, <1>13, <1>14, <1>15 DEF Fine, Q, r

\* The descriptors that are still referred to are what they were.
KindsHeld(k, r, Q) ==
    \A g \in Fds : RefsTo(Q, g) # {} =>
        r.fds[g].type = k.fds[g].type /\ r.fds[g].data = k.fds[g].data

LEMMA NotEmpty ==
    ASSUME NEW S, IsFiniteSet(S), NEW x, x \in S
    PROVE  Cardinality(S) \in Nat /\ Cardinality(S) > 0
  BY FS_EmptySet, FS_CardinalityType

\* The ends that are counted, with one reference less.
LEMMA EndsWithOneLess ==
    ASSUME NEW k, NEW r, NEW R \in SUBSET Marks, NEW x \in R, KindsHeld(k, r, R \ {x}),
           NEW f, f = x[1], NEW j, NEW t
    PROVE  /\ (k.fds[f].type = t /\ k.fds[f].data = j) =>
                 Cardinality(EndRefs(r, R \ {x}, j, t)) = Cardinality(EndRefs(k, R, j, t)) - 1
           /\ ~(k.fds[f].type = t /\ k.fds[f].data = j) =>
                 EndRefs(r, R \ {x}, j, t) = EndRefs(k, R, j, t)
  <1>1. ASSUME NEW y \in R \ {x}
        PROVE  r.fds[y[1]].type = k.fds[y[1]].type /\ r.fds[y[1]].data = k.fds[y[1]].data
    <2>1. y[1] \in Fds /\ y \in RefsTo(R \ {x}, y[1])
      BY DEF Marks, RefsTo
    <2> QED
      BY <2>1 DEF KindsHeld
  <1>2. IsFiniteSet(EndRefs(k, R, j, t))
    BY RefsFinite
  <1>3. EndRefs(r, R \ {x}, j, t) = EndRefs(k, R, j, t) \ {x}
    BY <1>1 DEF EndRefs
  <1>4. x \in EndRefs(k, R, j, t) <=> (k.fds[f].type = t /\ k.fds[f].data = j)
    BY DEF EndRefs
  <1>5. CASE x \in EndRefs(k, R, j, t)
    BY <1>2, <1>3, <1>4, <1>5, OneLess
  <1>6. CASE x \notin EndRefs(k, R, j, t)
    <2>1. EndRefs(k, R, j, t) \ {x} = EndRefs(k, R, j, t)
      BY <1>6
    <2> QED
      BY <1>3, <1>4, <1>6, <2>1
  <1> QED
    BY <1>5, <1>6

\* While somebody sleeps at a pipe, and it is not the one who lets go of
\* reference x, an end is left.
LEMMA SleeperHoldsEnd ==
    ASSUME NEW k \in Tables, NEW R \in SUBSET Marks, Counted(k, R), Anchored(k, R),
           NEW x \in R, ~Sleeps(k, x[2]), NEW f, f = x[1], NEW i \in PipeIds, NEW s \in Sides,
           k.fds[f].data = i, NEW type \in Types, k.fds[f].type = type,
           Elements(Line(k.pipes[i], s)) # {}
    PROVE  EndLeft(k, i, type)
  <1> DEFINE t == EndOf(s)
             E == EndRefs(k, R, i, t)
  <1>1. PICK q : q \in Elements(Line(k.pipes[i], s))
    OBVIOUS
  <1>2. PICK y \in E : y[2] = q
    BY <1>1 DEF Anchored
  <1>3. y # x
    BY <1>1, <1>2 DEF Sleeps
  <1>4. t \in Types /\ Ends(k.pipes[i], t) = Cardinality(E) /\ IsFiniteSet(E)
    BY RefsFinite DEF EndOf, Types, Counted, Ends
  <1>5. t = type => x \in E
    BY DEF EndRefs
  <1> HIDE DEF t, E
  <1>6. CASE t = type
    <2>1. IsFiniteSet(E \ {x}) /\ Cardinality(E \ {x}) = Cardinality(E) - 1
      BY <1>4, <1>5, <1>6, FS_RemoveElement
    <2>2. Cardinality(E \ {x}) > 0
      BY <1>2, <1>3, <2>1, NotEmpty
    <2> QED
      BY <1>4, <1>6, <2>1, <2>2 DEF EndLeft
  <1>7. CASE t # type
    <2>1. Cardinality(E) > 0
      BY <1>2, <1>4, NotEmpty
    <2> QED
      BY <1>4, <1>7, <2>1 DEF EndLeft
  <1> QED
    BY <1>6, <1>7

LEMMA DecFine ==
    ASSUME NEW k \in Tables, NEW R \in SUBSET Marks, NEW D, NEW f \in Fds,
           NEW x \in R, x[1] = f, ~Sleeps(k, x[2]), Fine(k, R, {}, D)
    PROVE  LET r == fd_decref(k, f)
           IN  Fine(r, R \ {x}, {}, D) /\ Around(k, r) /\ KindsHeld(k, r, R \ {x})
  <1> DEFINE r == fd_decref(k, f)
             d == k.fds[f]
             Q == R \ {x}
             n == d.refcount - 1
  <1>1. /\ Counted(k, R) /\ Live(k, R, {}) /\ Agree(k, D) /\ Anchored(k, R) /\ Hopes(k)
        /\ Terminals(k)
    BY DEF Fine
  <1>2. x \in RefsTo(R, f) /\ IsFiniteSet(RefsTo(R, f)) /\ d.refcount = Cardinality(RefsTo(R, f))
        /\ d.type # "NONE"
    BY <1>1, RefsFinite DEF RefsTo, Counted
  <1>3. /\ RefsTo(Q, f) = RefsTo(R, f) \ {x}
        /\ \A g \in Fds \ {f} : RefsTo(Q, g) = RefsTo(R, g)
    BY DEF RefsTo
  <1>4. /\ n = Cardinality(RefsTo(Q, f)) /\ d.refcount > 0
        /\ n = 0 <=> RefsTo(Q, f) = {}
    <2>1. /\ Cardinality(RefsTo(Q, f)) = n /\ d.refcount > 0
      BY <1>2, <1>3, OneLess
    <2>2. IsFiniteSet(RefsTo(Q, f))
      BY RefsFinite
    <2> QED
      BY <2>1, <2>2, FS_EmptySet
  <1>5. d.type \in Types => /\ d.data \in PipeIds
                            /\ Ends(k.pipes[d.data], d.type) > 0
    <2> SUFFICES ASSUME d.type \in Types
                 PROVE  d.data \in PipeIds /\ Ends(k.pipes[d.data], d.type) > 0
      OBVIOUS
    <2>1. d.data \in PipeIds
      BY <1>1 DEF Counted, Types
    <2>2. x \in EndRefs(k, R, d.data, d.type)
      BY DEF EndRefs
    <2>3. Ends(k.pipes[d.data], d.type) = Cardinality(EndRefs(k, R, d.data, d.type))
      BY <1>1, <2>1 DEF Counted, Types, Ends
    <2> QED
      BY <2>1, <2>2, <2>3, NotEmpty, RefsFinite
  <1>6. DecStep(k, r, f)
    BY <1>2, <1>4, <1>5, DecIs
  <1>7. FDFields(d)
    BY TableTypes DEF FD, FDFields
  <1>8. PICK m \in Tables, l \in Tables :
        /\ Recounted(k, m, f, n)
        /\ d.type = "TERMINAL" => r = m
        /\ d.type \in Types =>
              /\ CloseStep(m, l, d.data, d.type)
              /\ l.fds = m.fds
              /\ n # 0 => r = l
              /\ n = 0 =>
                    /\ r \in Tables /\ r.pipes = l.pipes /\ r.procs = l.procs
                    /\ \A g \in Fds \ {f} : r.fds[g] = l.fds[g]
                    /\ r.fds[f].type = "NONE" /\ r.fds[f].refcount = 0
    BY <1>6 DEF DecStep
  <1> HIDE DEF r, d, n, Q
  <1>9. m.pipes = k.pipes /\ m.procs = k.procs
    BY <1>8 DEF Recounted
  <1>10. /\ Around(k, r) /\ Agree(r, D) /\ Hopes(r) /\ Shorter(k, r)
         /\ \A j \in PipeIds : (\E t \in Types : Ends(r.pipes[j], t) > 0) =>
               r.pipes[j].in_use = k.pipes[j].in_use
         /\ \A j \in PipeIds, t \in Types :
               Ends(r.pipes[j], t) = IF d.type = t /\ d.data = j THEN Ends(k.pipes[j], t) - 1
                                     ELSE Ends(k.pipes[j], t)
    <2>1. CASE d.type \in Types
      <3>1. CloseStep(m, l, d.data, d.type) /\ d.data \in PipeIds
        BY <1>5, <1>8, <2>1
      <3>2. \A s \in Sides : Elements(Line(k.pipes[d.data], s)) # {} => EndLeft(k, d.data, d.type)
        <4>1. k.fds[f].data = d.data /\ k.fds[f].type = d.type
          BY DEF d
        <4>2. d.data \in PipeIds /\ d.type \in Types /\ Counted(k, R) /\ Anchored(k, R)
          BY <1>1, <2>1, <3>1
        <4>3. x \in R /\ ~Sleeps(k, x[2]) /\ f = x[1]
          OBVIOUS
        <4> SUFFICES ASSUME NEW s \in Sides, Elements(Line(k.pipes[d.data], s)) # {}
                     PROVE  EndLeft(k, d.data, d.type)
          OBVIOUS
        <4> QED
          BY <4>1, <4>2, <4>3, SleeperHoldsEnd
      <3>3. PipesMove(k, l, D, d.data, d.type, Ends(k.pipes[d.data], d.type) - 1)
        BY <1>1, <1>5, <1>9, <2>1, <3>1, <3>2, CloseMoves
      <3>4. r \in Tables /\ r.pipes = l.pipes /\ r.procs = l.procs
        BY <1>8, <2>1
      <3>5. Around(k, l) /\ Agree(l, D) /\ Hopes(l) /\ Shorter(k, l)
        BY <3>3 DEF PipesMove, Calmer, Around
      <3>6. Agree(r, D) /\ Hopes(r) /\ Unmoved(l, r) /\ Shorter(l, r) /\ Cleaner(l, r)
        BY <3>4, <3>5, Alike
      <3>7. Around(k, r) /\ Shorter(k, r)
        BY <3>4, <3>5 DEF Around, Unmoved, Cleaner, Shorter, Sleeps
      <3>8. \A j \in PipeIds, t \in Types :
               Ends(r.pipes[j], t) = IF d.type = t /\ d.data = j THEN Ends(k.pipes[j], t) - 1
                                     ELSE Ends(k.pipes[j], t)
        BY <3>3, <3>4 DEF PipesMove
      <3>9. \A j \in PipeIds : (\E t \in Types : Ends(r.pipes[j], t) > 0) =>
               r.pipes[j].in_use = k.pipes[j].in_use
        BY <3>3, <3>4 DEF PipesMove
      <3> QED
        BY <3>6, <3>7, <3>8, <3>9
    <2>2. CASE d.type = "TERMINAL"
      <3>1. r = m
        BY <1>8, <2>2
      <3>2. Agree(m, D) /\ Hopes(m) /\ Unmoved(k, m) /\ Shorter(k, m) /\ Cleaner(k, m)
        BY <1>1, <1>9, Alike
      <3>3. "TERMINAL" \notin Types
        BY DEF Types
      <3> QED
        BY <1>9, <2>2, <3>1, <3>2, <3>3 DEF Around
    <2> QED
      BY <1>2, <1>7, <2>1, <2>2 DEF FDFields, Types
  <1>11. /\ \A g \in Fds \ {f} : r.fds[g] = k.fds[g]
         /\ r.fds[f].refcount = n
         /\ n # 0 => r.fds[f].type = d.type /\ r.fds[f].data = d.data
         /\ n = 0 => r.fds[f].type \in {"NONE", "TERMINAL"}
         /\ d.type = "TERMINAL" <=> r.fds[f].type = "TERMINAL"
    <2>1. CASE d.type \in Types
      <3>1. CASE n = 0
        BY <1>8, <2>1, <3>1 DEF Recounted, Types, d
      <3>2. CASE n # 0
        BY <1>8, <2>1, <3>2 DEF Recounted, Types, d
      <3> QED
        BY <3>1, <3>2
    <2>2. CASE d.type = "TERMINAL"
      BY <1>8, <2>2 DEF Recounted, d
    <2> QED
      BY <1>2, <1>7, <2>1, <2>2 DEF FDFields, Types
  <1>12. KindsHeld(k, r, Q)
    BY <1>4, <1>11 DEF KindsHeld, d
  <1>13. ASSUME NEW j \in PipeIds, NEW t \in Types
         PROVE  Ends(r.pipes[j], t) = Cardinality(EndRefs(r, Q, j, t))
    <2>1. Ends(k.pipes[j], t) = Cardinality(EndRefs(k, R, j, t))
      BY <1>1 DEF Counted, Ends, Types
    <2>2. CASE d.type = t /\ d.data = j
      <3>1. Cardinality(EndRefs(r, Q, j, t)) = Cardinality(EndRefs(k, R, j, t)) - 1
        BY <1>12, <2>2, EndsWithOneLess DEF Q, d
      <3> QED
        BY <1>10, <2>1, <2>2, <3>1
    <2>3. CASE ~(d.type = t /\ d.data = j)
      <3>1. EndRefs(r, Q, j, t) = EndRefs(k, R, j, t)
        BY <1>12, <2>3, EndsWithOneLess DEF Q, d
      <3> QED
        BY <1>10, <2>1, <2>3, <3>1
    <2> QED
      BY <2>2, <2>3
  <1>14. Live(r, Q, {})
    BY <1>1, <1>3, <1>4, <1>11 DEF Live, Types
  <1>15. Counted(r, Q)
    <2>1. ASSUME NEW g \in Fds
          PROVE  /\ r.fds[g].refcount = Cardinality(RefsTo(Q, g))
                 /\ r.fds[g].type = "NONE" => RefsTo(Q, g) = {}
                 /\ r.fds[g].type \in {"READ", "WRITE"} =>
                       r.fds[g].data \in PipeIds /\ r.pipes[r.fds[g].data].in_use
      <3>1. r.fds[g].refcount = Cardinality(RefsTo(Q, g))
        BY <1>1, <1>3, <1>4, <1>11 DEF Counted
      <3>2. r.fds[g].type = "NONE" => RefsTo(Q, g) = {}
        BY <1>1, <1>2, <1>3, <1>4, <1>11 DEF Counted
      <3>3. ASSUME r.fds[g].type \in Types
            PROVE  r.fds[g].data \in PipeIds /\ r.pipes[r.fds[g].data].in_use
        <4>1. PICK y : y \in RefsTo(Q, g)
          BY <1>14, <3>3 DEF Live
        <4>2. r.fds[g].type = k.fds[g].type /\ r.fds[g].data = k.fds[g].data
          BY <1>12, <4>1 DEF KindsHeld
        <4>3. k.fds[g].data \in PipeIds /\ k.pipes[k.fds[g].data].in_use
          BY <1>1, <3>3, <4>2 DEF Counted, Types
        <4>4. y \in EndRefs(r, Q, r.fds[g].data, r.fds[g].type)
          BY <4>1 DEF RefsTo, EndRefs
        <4>5. IsFiniteSet(EndRefs(r, Q, r.fds[g].data, r.fds[g].type))
          BY RefsFinite DEF Q
        <4>6. Ends(r.pipes[r.fds[g].data], r.fds[g].type) > 0
          BY <1>13, <3>3, <4>2, <4>3, <4>4, <4>5, NotEmpty
        <4> QED
          BY <1>10, <3>3, <4>2, <4>3, <4>6
      <3> QED
        BY <3>1, <3>2, <3>3 DEF Types
    <2>2. ASSUME NEW j \in PipeIds
          PROVE  /\ r.pipes[j].open_read = Cardinality(EndRefs(r, Q, j, "READ"))
                 /\ r.pipes[j].open_write = Cardinality(EndRefs(r, Q, j, "WRITE"))
      BY <1>13 DEF Ends, Types
    <2> QED
      BY <2>1, <2>2 DEF Counted
  <1>16. Anchored(r, Q)
    <2> SUFFICES ASSUME NEW j \in PipeIds, NEW s \in Sides, NEW q \in Elements(Line(r.pipes[j], s))
                 PROVE  \E y \in EndRefs(r, Q, j, EndOf(s)) : y[2] = q
      BY DEF Anchored
    <2>1. q \in Elements(Line(k.pipes[j], s))
      BY <1>10 DEF Shorter
    <2>2. PICK y \in EndRefs(k, R, j, EndOf(s)) : y[2] = q
      BY <1>1, <2>1 DEF Anchored
    <2>3. y # x
      BY <2>1, <2>2 DEF Sleeps
    <2>4. y \in Q /\ y[1] \in Fds /\ y \in RefsTo(Q, y[1])
      BY <2>3 DEF EndRefs, Q, Marks, RefsTo
    <2>5. y \in EndRefs(r, Q, j, EndOf(s))
      BY <1>12, <2>4 DEF EndRefs, KindsHeld
    <2> QED
      BY <2>2, <2>5
  <1>17. Terminals(r)
    BY <1>1, <1>11, IdsAreNat DEF Terminals, d
  <1> QED
    BY <1>10, <1>12, <1>14, <1>15, <1>16, <1>17 DEF Fine, Q, r

-----------------------------------------------------------------------------
(***************************************************************************)
(* New descriptors and new pipes.                                          *)
(***************************************************************************)

LEMMA AroundTrans ==
    ASSUME NEW k, NEW m, NEW r, Around(k, m), Around(m, r)
    PROVE  Around(k, r)
  BY DEF Around, Unmoved, Cleaner

\* A descriptor for pipe i in free slot f, before it has a reference.
Filled(k, m, f, type, i) ==
    /\ k.pipes[i].in_use /\ k.fds[f].type = "NONE"
    /\ m = [k EXCEPT !.fds[f] = [type |-> type, refcount |-> 0, data |-> i]]

Blank(k, m, f, type, i) ==
    /\ m \in Tables /\ m.pipes = k.pipes /\ m.procs = k.procs
    /\ \A g \in Fds \ {f} : m.fds[g] = k.fds[g]
    /\ m.fds[f].type = type /\ m.fds[f].refcount = 0 /\ m.fds[f].data = i

LEMMA FilledIs ==
    ASSUME NEW k \in Tables, NEW i \in PipeIds, NEW type \in Types, NEW f \in Fds,
           NEW m, Filled(k, m, f, type, i)
    PROVE  Blank(k, m, f, type, i)
  <1> DEFINE d == [type |-> type, refcount |-> 0, data |-> i]
  <1>1. d \in FD /\ d.type = type /\ d.refcount = 0 /\ d.data = i
    BY DEF FD, Types
  <1> HIDE DEF d
  <1> QED
    BY <1>1, SetFd DEF Filled, Blank, d

LEMMA AllocFine ==
    ASSUME NEW k \in Tables, NEW R \in SUBSET Marks, NEW D, Fine(k, R, {}, D),
           NEW i \in PipeIds, NEW type \in Types, NEW f \in Fds,
           NEW m, Filled(k, m, f, type, i)
    PROVE  Fine(m, R, {f}, D)
  <1>1. /\ Counted(k, R) /\ Live(k, R, {}) /\ Agree(k, D) /\ Anchored(k, R) /\ Hopes(k)
        /\ Terminals(k)
    BY DEF Fine
  <1>2. Blank(k, m, f, type, i)
    BY FilledIs
  <1>3. /\ m \in Tables /\ m.pipes = k.pipes /\ m.procs = k.procs
        /\ \A g \in Fds \ {f} : m.fds[g] = k.fds[g]
        /\ m.fds[f].type = type /\ m.fds[f].refcount = 0 /\ m.fds[f].data = i
    BY <1>2 DEF Blank
  <1>4. RefsTo(R, f) = {} /\ k.pipes[i].in_use /\ k.fds[f].type = "NONE"
    BY <1>1 DEF Counted, Filled
  <1>5. \A j \in PipeIds, t \in Types : EndRefs(m, R, j, t) = EndRefs(k, R, j, t)
    <2>1. \A y \in R : y[1] \in Fds \ {f}
      BY <1>4 DEF RefsTo, Marks
    <2> QED
      BY <1>3, <2>1 DEF EndRefs
  <1>6. Counted(m, R)
    <2>1. ASSUME NEW g \in Fds
          PROVE  /\ m.fds[g].refcount = Cardinality(RefsTo(R, g))
                 /\ m.fds[g].type = "NONE" => RefsTo(R, g) = {}
                 /\ m.fds[g].type \in {"READ", "WRITE"} =>
                       m.fds[g].data \in PipeIds /\ m.pipes[m.fds[g].data].in_use
      <3>1. CASE g = f
        BY <1>3, <1>4, <3>1, FS_EmptySet
      <3>2. CASE g # f
        BY <1>1, <1>3, <3>2 DEF Counted
      <3> QED
        BY <3>1, <3>2
    <2>2. ASSUME NEW j \in PipeIds
          PROVE  /\ m.pipes[j].open_read = Cardinality(EndRefs(m, R, j, "READ"))
                 /\ m.pipes[j].open_write = Cardinality(EndRefs(m, R, j, "WRITE"))
      BY <1>1, <1>3, <1>5 DEF Counted, Types
    <2> QED
      BY <2>1, <2>2 DEF Counted
  <1>7. Live(m, R, {f})
    BY <1>1, <1>3 DEF Live
  <1>8. Agree(m, D) /\ Hopes(m)
    BY <1>1, <1>3, Alike
  <1>9. Anchored(m, R)
    BY <1>1, <1>3, <1>5 DEF Anchored, EndOf, Types
  <1>10. Terminals(m)
    <2>1. f # FD_STDIN /\ f # FD_STDOUT /\ type # "TERMINAL"
      BY <1>1, <1>4 DEF Terminals, Types
    <2> QED
      BY <1>1, <1>3, <2>1, IdsAreNat DEF Terminals
  <1> QED
    BY <1>6, <1>7, <1>8, <1>9, <1>10 DEF Fine

\* fd_create_pipe gives pipe i a descriptor that counts reference <<f, p, 2>>.
LEMMA CreateFd ==
    ASSUME NEW k \in Tables, NEW R \in SUBSET Marks, NEW D, Fine(k, R, {}, D),
           NEW i \in PipeIds, k.pipes[i].in_use, NEW type \in Types, FreeFds(k) # {},
           NEW p \in Pids
    PROVE  LET f == First(FreeFds(k))
               x == <<f, p, 2>>
               r == fd_create_pipe(k, i, type)
           IN  /\ f \in Fds /\ k.fds[f].type = "NONE" /\ x \in Marks /\ x \notin R
               /\ Fine(r, R \cup {x}, {}, D) /\ Around(k, r)
               /\ r.pipes[i].in_use /\ Clean(r.pipes[i])
  <1> DEFINE f == First(FreeFds(k))
             x == <<f, p, 2>>
             r == fd_create_pipe(k, i, type)
  <1>1. f \in Fds /\ k.fds[f].type = "NONE"
    <2>1. FreeFds(k) \in SUBSET Nat
      BY IdsAreNat DEF FreeFds
    <2>2. f \in FreeFds(k)
      BY <2>1, FirstIn
    <2> QED
      BY <2>2 DEF FreeFds
  <1>2. PICK m : Filled(k, m, f, type, i) /\ r = fd_incref(m, f)
    BY <1>1 DEF fd_create_pipe, Filled
  <1> HIDE DEF f, r
  <1>3. x \in Marks /\ x[1] = f
    BY <1>1 DEF Marks
  <1>4. x \notin R
    BY <1>1, <1>3 DEF Fine, Counted, RefsTo
  <1> HIDE DEF x
  <1>5. /\ m \in Tables /\ m.pipes = k.pipes /\ m.procs = k.procs
        /\ Fine(m, R, {f}, D) /\ m.fds[f].type = type /\ m.fds[f].data = i
    <2>1. Fine(m, R, {f}, D)
      BY <1>1, <1>2, AllocFine
    <2>2. Blank(k, m, f, type, i)
      BY <1>1, <1>2, FilledIs
    <2> QED
      BY <2>1, <2>2 DEF Blank
  <1>6. type # "NONE"
    BY DEF Types
  <1>7. Fine(r, R \cup {x}, {}, D) /\ Around(m, r) /\ SameKinds(m, r)
    BY <1>1, <1>2, <1>3, <1>4, <1>5, <1>6, IncFine
  <1>8. Around(k, m)
    <2>1. Agree(k, D) /\ Hopes(k)
      BY DEF Fine
    <2> QED
      BY <1>5, <2>1, Alike DEF Around
  <1>9. Around(k, r)
    BY <1>7, <1>8, AroundTrans
  <1>10. r.pipes[i].in_use
    BY <1>1, <1>5, <1>7 DEF SameKinds, Fine, Counted, Types
  <1>11. Clean(r.pipes[i])
    <2>1. r.fds[f].type = type /\ r.fds[f].data = i
      BY <1>1, <1>5, <1>7 DEF SameKinds
    <2>2. x \in EndRefs(r, R \cup {x}, i, type)
      BY <1>3, <2>1 DEF EndRefs
    <2>3. R \cup {x} \in SUBSET Marks
      BY <1>3
    <2>4. IsFiniteSet(EndRefs(r, R \cup {x}, i, type))
      BY <2>3, RefsFinite
    <2>5. Cardinality(EndRefs(r, R \cup {x}, i, type)) # 0
      BY <2>2, <2>4, NotEmpty
    <2> QED
      BY <1>7, <2>5 DEF Fine, Counted, Clean, Types
  <1> QED
    BY <1>1, <1>3, <1>4, <1>7, <1>9, <1>10, <1>11 DEF f, x, r

\* A pipe that is not in use has no end and nobody sleeps at it.
LEMMA UnusedIsQuiet ==
    ASSUME NEW k \in Tables, NEW R \in SUBSET Marks, NEW S, NEW D, Fine(k, R, S, D),
           NEW i \in PipeIds, ~k.pipes[i].in_use
    PROVE  /\ \A t \in Types : EndRefs(k, R, i, t) = {} /\ Ends(k.pipes[i], t) = 0
           /\ \A s \in Sides : Elements(Line(k.pipes[i], s)) = {}
  <1>1. Counted(k, R) /\ Anchored(k, R)
    BY DEF Fine
  <1>2. \A t \in Types : EndRefs(k, R, i, t) = {}
    <2> SUFFICES ASSUME NEW t \in Types, NEW x \in EndRefs(k, R, i, t)
                 PROVE  FALSE
      OBVIOUS
    <2>1. x[1] \in Fds /\ k.fds[x[1]].type = t /\ k.fds[x[1]].data = i
      BY DEF EndRefs, Marks
    <2> QED
      BY <1>1, <2>1 DEF Counted, Types
  <1>3. \A t \in Types : Ends(k.pipes[i], t) = 0
    BY <1>1, <1>2, FS_EmptySet DEF Counted, Ends, Types
  <1>4. \A s \in Sides : EndOf(s) \in Types
    BY DEF EndOf, Types
  <1> QED
    BY <1>1, <1>2, <1>3, <1>4 DEF Anchored

StaysClean(k, r) ==
    \A i \in PipeIds : (k.pipes[i].in_use /\ Clean(k.pipes[i])) => Clean(r.pipes[i])

LEMMA CleanerStays ==
    ASSUME NEW k, NEW r, Cleaner(k, r)
    PROVE  StaysClean(k, r)
  BY DEF Cleaner, StaysClean

LEMMA StaysCleanThen ==
    ASSUME NEW k, NEW m, NEW r, StaysClean(k, m), Cleaner(m, r)
    PROVE  StaysClean(k, r)
  BY DEF Cleaner, StaysClean

SameEnds(k, r) ==
    \A i \in PipeIds :
        /\ \A t \in Types : Ends(r.pipes[i], t) = Ends(k.pipes[i], t)
        /\ k.pipes[i].in_use => r.pipes[i].in_use

\* The counts of a state with the same descriptors and the same ends.
LEMMA SameCounted ==
    ASSUME NEW k \in Tables, NEW r \in Tables, r.fds = k.fds, SameEnds(k, r),
           NEW R \in SUBSET Marks, Counted(k, R)
    PROVE  Counted(r, R) /\ \A i, t : EndRefs(r, R, i, t) = EndRefs(k, R, i, t)
  <1>1. \A i, t : EndRefs(r, R, i, t) = EndRefs(k, R, i, t)
    BY DEF EndRefs
  <1>2. \A i \in PipeIds : /\ r.pipes[i].open_read = k.pipes[i].open_read
                           /\ r.pipes[i].open_write = k.pipes[i].open_write
                           /\ k.pipes[i].in_use => r.pipes[i].in_use
    BY DEF SameEnds, Ends, Types
  <1> QED
    BY <1>1, <1>2 DEF Counted

\* Some wake up and the ends are what they were.
LEMMA ShrunkFine ==
    ASSUME NEW k \in Tables, NEW r \in Tables, NEW R \in SUBSET Marks, NEW S, NEW D,
           Fine(k, R, S, D), r.fds = k.fds, Shrunk(k, r), SameEnds(k, r), Hopes(r)
    PROVE  Fine(r, R, S, D) /\ Unmoved(k, r)
  <1>1. /\ Counted(k, R) /\ Live(k, R, S) /\ Agree(k, D) /\ Anchored(k, R) /\ Terminals(k)
    BY DEF Fine
  <1>2. Agree(r, D) /\ Unmoved(k, r)
    BY <1>1, ShrunkAgree
  <1>3. Counted(r, R) /\ \A i, t : EndRefs(r, R, i, t) = EndRefs(k, R, i, t)
    BY <1>1, SameCounted
  <1>4. Shorter(k, r)
    BY DEF Shrunk, Shorter
  <1>5. Anchored(r, R)
    BY <1>1, <1>3, <1>4 DEF Anchored, Shorter
  <1>6. Live(r, R, S) /\ Terminals(r)
    BY <1>1 DEF Live, Terminals
  <1> QED
    BY <1>2, <1>3, <1>5, <1>6 DEF Fine

\* A pipe is changed, and its queues are not.
LEMMA PipeFine ==
    ASSUME NEW k \in Tables, NEW R \in SUBSET Marks, NEW D, Fine(k, R, {}, D),
           NEW i \in PipeIds, NEW d \in Pipe, NEW r, Effect(k, r, i, d, {}),
           \A t \in Types : Ends(d, t) = Ends(k.pipes[i], t),
           k.pipes[i].in_use => d.in_use, Hope(d),
           \A s \in Sides : /\ Distinct(Line(d, s))
                            /\ Elements(Line(d, s)) = Elements(Line(k.pipes[i], s))
    PROVE  Fine(r, R, {}, D) /\ Unmoved(k, r)
  <1>1. /\ r \in Tables /\ r.pipes[i] = d /\ \A j \in PipeIds \ {i} : r.pipes[j] = k.pipes[j]
        /\ r.fds = k.fds /\ Woken(k, r, {})
    BY DEF Effect
  <1>2. SameEnds(k, r)
    BY <1>1 DEF SameEnds
  <1>3. Agree(k, D) /\ Hopes(k)
    BY DEF Fine
  <1>4. Hopes(r)
    BY <1>1, <1>3 DEF Hopes
  <1>5. \A j \in PipeIds, s \in Sides :
            /\ Distinct(Line(r.pipes[j], s))
            /\ Elements(Line(r.pipes[j], s)) = Elements(Line(k.pipes[j], s)) \ {}
    BY <1>1, <1>3 DEF Agree
  <1>6. Shrunk(k, r)
    BY <1>1, <1>5 DEF Shrunk
  <1> QED
    BY <1>1, <1>2, <1>4, <1>6, ShrunkFine

SameSleepers(k, r) ==
    \A q \in Pids, i \in PipeIds, s \in Sides : Asleep(r, q, i, s) <=> Asleep(k, q, i, s)

\* The processes are changed, and those that sleep are not.
LEMMA ProcsFine ==
    ASSUME NEW k \in Tables, NEW r \in Tables, r.pipes = k.pipes, r.fds = k.fds,
           NEW R \in SUBSET Marks, NEW D, Fine(k, R, {}, D), SameSleepers(k, r)
    PROVE  Fine(r, R, {}, D) /\ Cleaner(k, r)
  <1>1. /\ Counted(k, R) /\ Live(k, R, {}) /\ Agree(k, D) /\ Anchored(k, R) /\ Hopes(k)
        /\ Terminals(k)
    BY DEF Fine
  <1>2. SameEnds(k, r)
    BY DEF SameEnds
  <1>3. Counted(r, R) /\ \A i, t : EndRefs(r, R, i, t) = EndRefs(k, R, i, t)
    BY <1>1, <1>2, SameCounted
  <1>4. Anchored(r, R)
    BY <1>1, <1>3 DEF Anchored
  <1>5. Live(r, R, {}) /\ Terminals(r) /\ Hopes(r) /\ Cleaner(k, r)
    BY <1>1 DEF Live, Terminals, Hopes, Cleaner
  <1>6. Agree(r, D)
    <2>1. ASSUME NEW i \in PipeIds, NEW s \in Sides
          PROVE  {q \in Pids \ D : Asleep(r, q, i, s)} = {q \in Pids \ D : Asleep(k, q, i, s)}
      BY DEF SameSleepers
    <2> QED
      BY <1>1, <2>1 DEF Agree
  <1> QED
    BY <1>3, <1>4, <1>5, <1>6 DEF Fine

\* pipe_open finds a pipe or takes a free slot.
OpenedSlot(k, r, i) ==
    /\ r \in Tables /\ r.procs = k.procs /\ r.fds = k.fds /\ r.pipes[i].in_use
    /\ StaysClean(k, r) /\ Unmoved(k, r)
    /\ \A j \in PipeIds \ {i} : r.pipes[j] = k.pipes[j]

LEMMA OpenFine ==
    ASSUME NEW k \in Tables, NEW R \in SUBSET Marks, NEW D, Fine(k, R, {}, D),
           NEW name \in Names \cup {Anonymous}, pipe_slot(k, name) # NULL
    PROVE  /\ pipe_slot(k, name) \in PipeIds
           /\ Fine(pipe_open(k, name), R, {}, D)
           /\ OpenedSlot(k, pipe_open(k, name), pipe_slot(k, name))
  <1> DEFINE i == pipe_slot(k, name)
             c == k.pipes[i]
             r == pipe_open(k, name)
             d == [c EXCEPT !.opens = c.opens + 1]
             e == [pipe_reset EXCEPT !.in_use = TRUE, !.name = name,
                                     !.opens = IF name = Anonymous THEN 0 ELSE 1]
  <1>1. CASE Found(k, name) # {}
    <2>1. i \in PipeIds /\ c.in_use
      <3>1. Found(k, name) \in SUBSET Nat
        BY IdsAreNat DEF Found
      <3>2. i \in Found(k, name)
        BY <1>1, <3>1, FirstIn DEF pipe_slot
      <3> QED
        BY <3>2 DEF Found
    <2>2. r = [k EXCEPT !.pipes[i] = d]
      BY <1>1 DEF pipe_open
    <2> HIDE DEF i, r
    <2>3. c \in Pipe /\ c.opens + 1 \in Nat
      BY <2>1, TableTypes DEF Pipe
    <2>4. /\ d \in Pipe
          /\ PipeIs(d, c.open_read, c.open_write, c.in_use, c.name, c.eof,
                    c.wait_readers, c.wait_writers)
      BY <2>3, NumberSet
    <2> HIDE DEF d
    <2>5. Effect(k, r, i, d, {})
      BY <2>1, <2>2, <2>4, SetPipe
    <2>6. Hope(d)
      BY <2>1, <2>4 DEF Fine, Hopes, Hope, PipeIs
    <2>7. /\ \A t \in Types : Ends(d, t) = Ends(c, t)
          /\ \A s \in Sides : Line(d, s) = Line(c, s)
          /\ d.in_use = c.in_use
      BY <2>4 DEF Ends, Line, PipeIs
    <2>8. \A s \in Sides : Distinct(Line(c, s))
      BY <2>1 DEF Fine, Agree
    <2>9. Fine(r, R, {}, D) /\ Unmoved(k, r)
      BY <2>1, <2>4, <2>5, <2>6, <2>7, <2>8, PipeFine
    <2>10. /\ r \in Tables /\ r.procs = k.procs /\ r.fds = k.fds
           /\ r.pipes[i] = d /\ \A j \in PipeIds \ {i} : r.pipes[j] = k.pipes[j]
      BY <2>1, <2>2, <2>5 DEF Effect, Tables
    <2>11. StaysClean(k, r)
      BY <2>4, <2>10 DEF StaysClean, Clean, PipeIs
    <2> QED
      BY <2>1, <2>7, <2>9, <2>10, <2>11 DEF OpenedSlot, i, r
  <1>2. CASE Found(k, name) = {}
    <2>1. i \in PipeIds /\ ~c.in_use
      <3>1. FreePipes(k) \in SUBSET Nat
        BY IdsAreNat DEF FreePipes
      <3>2. i \in FreePipes(k)
        BY <1>2, <3>1, FirstIn DEF pipe_slot
      <3> QED
        BY <3>2 DEF FreePipes
    <2>2. r = [k EXCEPT !.pipes[i] = e]
      BY <1>2 DEF pipe_open
    <2> HIDE DEF i, r
    <2>3. /\ e \in Pipe
          /\ PipeIs(e, 0, 0, TRUE, name, FALSE, <<>>, <<>>)
      BY ResetIs DEF Pipe, PipeIs
    <2> HIDE DEF e
    <2>4. Effect(k, r, i, e, {})
      BY <2>1, <2>2, <2>3, SetPipe
    <2>5. /\ \A t \in Types : Ends(c, t) = 0
          /\ \A s \in Sides : Elements(Line(c, s)) = {}
      BY <2>1, UnusedIsQuiet
    <2>6. /\ \A t \in Types : Ends(e, t) = 0
          /\ \A s \in Sides : Line(e, s) = <<>>
          /\ e.in_use /\ Hope(e)
      BY <2>3 DEF Ends, Line, PipeIs, Hope
    <2>7. /\ \A t \in Types : Ends(e, t) = Ends(c, t)
          /\ \A s \in Sides : Distinct(Line(e, s)) /\ Elements(Line(e, s)) = Elements(Line(c, s))
      BY <2>5, <2>6, EmptyLine
    <2>8. Fine(r, R, {}, D) /\ Unmoved(k, r)
      BY <2>1, <2>3, <2>4, <2>6, <2>7, PipeFine
    <2>9. /\ r \in Tables /\ r.procs = k.procs /\ r.fds = k.fds
          /\ r.pipes[i] = e /\ \A j \in PipeIds \ {i} : r.pipes[j] = k.pipes[j]
      BY <2>1, <2>2, <2>4 DEF Effect, Tables
    <2>10. StaysClean(k, r)
      BY <2>1, <2>9 DEF StaysClean
    <2> QED
      BY <2>1, <2>6, <2>8, <2>9, <2>10 DEF OpenedSlot, i, r
  <1> QED
    BY <1>1, <1>2

-----------------------------------------------------------------------------
(***************************************************************************)
(* Between two calls the references are those in the tables.               *)
(***************************************************************************)

\* A process that is not there has no stdin and no stdout.
Unopened(k) ==
    \A q \in Pids : k.procs[q].state = "FREE" =>
                        k.procs[q].fd[0] = NULL /\ k.procs[q].fd[1] = NULL

Inv(k) == Fine(k, Refs(k), {}, {}) /\ Unopened(k)

\* What a call must do.
Good(k, r) == r \in Tables /\ Inv(r) /\ StaysClean(k, r)

LEMMA RefsIn ==
    ASSUME NEW k
    PROVE  Refs(k) \in SUBSET Marks
  BY DEF Refs, Marks

LEMMA InRefs ==
    ASSUME NEW k, NEW f \in Fds, NEW p \in Pids
    PROVE  /\ <<f, p, 0>> \in Refs(k) <=> k.procs[p].fd[0] = f
           /\ <<f, p, 1>> \in Refs(k) <=> k.procs[p].fd[1] = f
           /\ <<f, p, 2>> \in Refs(k) <=> f \in k.procs[p].own
  <1>1. ASSUME NEW n \in 0..2
        PROVE  /\ <<f, p, n>> \in Fds \X Pids \X (0..2)
               /\ <<f, p, n>>[1] = f /\ <<f, p, n>>[2] = p /\ <<f, p, n>>[3] = n
    OBVIOUS
  <1>2. 0 \in 0..2 /\ 1 \in 0..2 /\ 2 \in 0..2
    OBVIOUS
  <1> QED
    BY <1>1, <1>2 DEF Refs

LEMMA InFds ==
    ASSUME NEW k, NEW f \in Fds, NEW p \in Pids, NEW n \in 0..1
    PROVE  <<f, p, n>> \in Refs(k) <=> k.procs[p].fd[n] = f
  <1>1. /\ <<f, p, n>> \in Fds \X Pids \X (0..2)
        /\ <<f, p, n>>[1] = f /\ <<f, p, n>>[2] = p /\ <<f, p, n>>[3] = n /\ n # 2
    OBVIOUS
  <1> QED
    BY <1>1 DEF Refs

\* Two sets of references with the same members.
LEMMA ByMarks ==
    ASSUME NEW A \in SUBSET Marks, NEW B \in SUBSET Marks,
           \A f \in Fds, p \in Pids : /\ <<f, p, 0>> \in A <=> <<f, p, 0>> \in B
                                      /\ <<f, p, 1>> \in A <=> <<f, p, 1>> \in B
                                      /\ <<f, p, 2>> \in A <=> <<f, p, 2>> \in B
    PROVE  A = B
  <1>1. ASSUME NEW x \in Marks
        PROVE  x \in A <=> x \in B
    <2>1. PICK f \in Fds, p \in Pids, n \in 0..2 : x = <<f, p, n>>
      BY DEF Marks
    <2>2. n = 0 \/ n = 1 \/ n = 2
      OBVIOUS
    <2> QED
      BY <2>1, <2>2
  <1> QED
    BY <1>1

SameHolds(k, r) ==
    \A q \in Pids : r.procs[q].fd = k.procs[q].fd /\ r.procs[q].own = k.procs[q].own

LEMMA SameRefs ==
    ASSUME NEW k, NEW r, SameHolds(k, r)
    PROVE  Refs(r) = Refs(k)
  BY DEF Refs, SameHolds

\* Who is not asleep is in no queue.
LEMMA AwakeIsOut ==
    ASSUME NEW k \in Tables, NEW D, Agree(k, D), NEW p \in Pids,
           k.procs[p].state # "BLOCKED" \/ k.procs[p].at = New
    PROVE  ~Sleeps(k, p)
  BY PlacesIn DEF Sleeps, Agree, Asleep

\* Ends for a process from sys_pipe.
Gains(k, r, p, f, g) ==
    \A q \in Pids : /\ r.procs[q].fd = k.procs[q].fd
                    /\ r.procs[q].own = IF q = p THEN k.procs[q].own \cup {f, g}
                                        ELSE k.procs[q].own

LEMMA MoreOwn ==
    ASSUME NEW k, NEW r, NEW p \in Pids, NEW f \in Fds, NEW g \in Fds,
           Gains(k, r, p, f, g)
    PROVE  Refs(r) = (Refs(k) \cup {<<f, p, 2>>}) \cup {<<g, p, 2>>}
  <1> DEFINE T == (Refs(k) \cup {<<f, p, 2>>}) \cup {<<g, p, 2>>}
  <1>1. ASSUME NEW h \in Fds, NEW q \in Pids
        PROVE  /\ <<h, q, 0>> \in Refs(r) <=> <<h, q, 0>> \in T
               /\ <<h, q, 1>> \in Refs(r) <=> <<h, q, 1>> \in T
               /\ <<h, q, 2>> \in Refs(r) <=> <<h, q, 2>> \in T
    <2>1. \A e : /\ <<h, q, 0>> # <<e, p, 2>> /\ <<h, q, 1>> # <<e, p, 2>>
                 /\ <<h, q, 2>> = <<e, p, 2>> <=> (h = e /\ q = p)
      OBVIOUS
    <2>2. /\ r.procs[q].fd = k.procs[q].fd
          /\ r.procs[q].own = IF q = p THEN k.procs[q].own \cup {f, g} ELSE k.procs[q].own
      BY DEF Gains
    <2>3. /\ <<h, q, 0>> \in Refs(k) <=> k.procs[q].fd[0] = h
          /\ <<h, q, 1>> \in Refs(k) <=> k.procs[q].fd[1] = h
          /\ <<h, q, 2>> \in Refs(k) <=> h \in k.procs[q].own
          /\ <<h, q, 0>> \in Refs(r) <=> r.procs[q].fd[0] = h
          /\ <<h, q, 1>> \in Refs(r) <=> r.procs[q].fd[1] = h
          /\ <<h, q, 2>> \in Refs(r) <=> h \in r.procs[q].own
      BY InRefs
    <2> QED
      BY <2>1, <2>2, <2>3
  <1>2. Refs(r) \in SUBSET Marks /\ T \in SUBSET Marks
    BY RefsIn DEF Marks
  <1> HIDE DEF T
  <1>3. Refs(r) = T
    BY <1>1, <1>2, ByMarks
  <1> QED
    BY <1>3 DEF T

Loses(k, r, p, f) ==
    \A q \in Pids : /\ r.procs[q].fd = k.procs[q].fd
                    /\ r.procs[q].own = IF q = p THEN k.procs[q].own \ {f}
                                        ELSE k.procs[q].own

LEMMA LessOwn ==
    ASSUME NEW k, NEW r, NEW p \in Pids, NEW f \in Fds,
           Loses(k, r, p, f)
    PROVE  Refs(r) = Refs(k) \ {<<f, p, 2>>}
  <1> DEFINE T == Refs(k) \ {<<f, p, 2>>}
  <1>1. ASSUME NEW h \in Fds, NEW q \in Pids
        PROVE  /\ <<h, q, 0>> \in Refs(r) <=> <<h, q, 0>> \in T
               /\ <<h, q, 1>> \in Refs(r) <=> <<h, q, 1>> \in T
               /\ <<h, q, 2>> \in Refs(r) <=> <<h, q, 2>> \in T
    <2>1. \A e : /\ <<h, q, 0>> # <<e, p, 2>> /\ <<h, q, 1>> # <<e, p, 2>>
                 /\ <<h, q, 2>> = <<e, p, 2>> <=> (h = e /\ q = p)
      OBVIOUS
    <2>2. /\ r.procs[q].fd = k.procs[q].fd
          /\ r.procs[q].own = IF q = p THEN k.procs[q].own \ {f} ELSE k.procs[q].own
      BY DEF Loses
    <2>3. /\ <<h, q, 0>> \in Refs(k) <=> k.procs[q].fd[0] = h
          /\ <<h, q, 1>> \in Refs(k) <=> k.procs[q].fd[1] = h
          /\ <<h, q, 2>> \in Refs(k) <=> h \in k.procs[q].own
          /\ <<h, q, 0>> \in Refs(r) <=> r.procs[q].fd[0] = h
          /\ <<h, q, 1>> \in Refs(r) <=> r.procs[q].fd[1] = h
          /\ <<h, q, 2>> \in Refs(r) <=> h \in r.procs[q].own
      BY InRefs
    <2> QED
      BY <2>1, <2>2, <2>3
  <1>2. Refs(r) \in SUBSET Marks /\ T \in SUBSET Marks
    BY RefsIn
  <1> HIDE DEF T
  <1>3. Refs(r) = T
    BY <1>1, <1>2, ByMarks
  <1> QED
    BY <1>3 DEF T

\* From k to r process p is changed to c.
Becomes(k, r, p, c) ==
    /\ r \in Tables /\ r.pipes = k.pipes /\ r.fds = k.fds
    /\ r.procs[p] = c /\ \A q \in Pids \ {p} : r.procs[q] = k.procs[q]

LEMMA SetProc ==
    ASSUME NEW k \in Tables, NEW p \in Pids, NEW c \in PCB
    PROVE  Becomes(k, [k EXCEPT !.procs[p] = c], p, c)
  BY DEF Becomes, Tables

PCBIs(c, state, fd, own, at) == c.state = state /\ c.fd = fd /\ c.own = own /\ c.at = at

LEMMA OwnSet ==
    ASSUME NEW c \in PCB, NEW own \in SUBSET Fds
    PROVE  /\ [c EXCEPT !.own = own] \in PCB
           /\ PCBIs([c EXCEPT !.own = own], c.state, c.fd, own, c.at)
  BY DEF PCB, PCBIs

LEMMA FdSet ==
    ASSUME NEW c \in PCB, NEW fd \in [0..1 -> Fds \cup {NULL}]
    PROVE  /\ [c EXCEPT !.fd = fd] \in PCB
           /\ PCBIs([c EXCEPT !.fd = fd], c.state, fd, c.own, c.at)
  BY DEF PCB, PCBIs

LEMMA PCBFields ==
    ASSUME NEW c \in PCB
    PROVE  /\ c.own \in SUBSET Fds /\ c.fd \in [0..1 -> Fds \cup {NULL}]
           /\ c.fd[0] \in Fds \cup {NULL} /\ c.fd[1] \in Fds \cup {NULL}
           /\ c.state \in {"READY", "BLOCKED", "FREE"} /\ c.at \in Places
  BY IdsAreNat DEF PCB

LEMMA BecomesSame ==
    ASSUME NEW k, NEW r, NEW p \in Pids, NEW c, Becomes(k, r, p, c),
           c.state = k.procs[p].state, c.at = k.procs[p].at
    PROVE  SameSleepers(k, r)
  BY DEF Becomes, SameSleepers, Asleep

\* From k to r process p gets two descriptors of pipe i, or none.
Receives(k, r, p, i) ==
    \E F \in SUBSET Fds :
        /\ \E f, g : F \subseteq {f, g}
        /\ Moves(k, r, p, k.procs[p].state, k.procs[p].own \cup F, k.procs[p].at)
        /\ r.procs[p].fd = k.procs[p].fd
        /\ F # {} => Clean(r.pipes[i])

\* No descriptor is received ...
LEMMA UnmovedReceives ==
    ASSUME NEW k, NEW r, NEW p \in Pids, NEW i, r.procs[p] = k.procs[p], Unmoved(k, r)
    PROVE  Receives(k, r, p, i)
  <1>1. /\ k.procs[p].own \cup {} = k.procs[p].own /\ {} \in SUBSET Fds
        /\ \E f, g : {} \subseteq {f, g}
    OBVIOUS
  <1>2. Moves(k, r, p, k.procs[p].state, k.procs[p].own \cup {}, k.procs[p].at)
    BY <1>1, UnmovedRose DEF Moves
  <1> QED
    BY <1>1, <1>2 DEF Receives

\* ... and nothing happens, when the tables are full.
LEMMA SelfReceives ==
    ASSUME NEW k, NEW p \in Pids, NEW i
    PROVE  Receives(k, k, p, i)
  <1>1. Unmoved(k, k)
    BY DEF Unmoved
  <1> QED
    BY <1>1, UnmovedReceives


\* sys_pipe: both ends, or none.
LEMMA CreateBoth ==
    ASSUME NEW k \in Tables, NEW p \in Pids, NEW i \in PipeIds, k.pipes[i].in_use,
           Inv(k), k.procs[p].state = "READY"
    PROVE  LET r == pipe_create_fds(k, p, i)
           IN  r \in Tables /\ Inv(r) /\ Cleaner(k, r) /\ Receives(k, r, p, i)
  <1> DEFINE R == Refs(k)
             f == First(FreeFds(k))
             x == <<f, p, 2>>
             one == fd_create_pipe(k, i, "READ")
             g == First(FreeFds(one))
             y == <<g, p, 2>>
             both == fd_create_pipe(one, i, "WRITE")
             r == pipe_create_fds(k, p, i)
  <1>1. R \in SUBSET Marks /\ Fine(k, R, {}, {}) /\ Unopened(k)
    BY RefsIn DEF Inv
  <1>2. CASE FreeFds(k) = {}
    <2>1. r = k
      BY <1>2 DEF pipe_create_fds
    <2>2. Receives(k, k, p, i)
      BY SelfReceives
    <2> QED
      BY <2>1, <2>2 DEF Cleaner
  <1>3. ASSUME FreeFds(k) # {}
        PROVE  /\ f \in Fds /\ x \in Marks /\ x \notin R
               /\ Fine(one, R \cup {x}, {}, {}) /\ Around(k, one)
               /\ one.pipes[i].in_use /\ Clean(one.pipes[i])
    <2>1. "READ" \in Types
      BY DEF Types
    <2> HIDE DEF R
    <2> QED
      BY <1>1, <1>3, <2>1, CreateFd
  <1>4. ~Sleeps(k, p)
    BY <1>1, AwakeIsOut DEF Fine
  <1>5. CASE FreeFds(k) # {} /\ FreeFds(one) = {}
    <2>1. r = fd_decref(one, f)
      BY <1>5 DEF pipe_create_fds
    <2>2. x \in R \cup {x} /\ x[1] = f /\ x[2] = p /\ (R \cup {x}) \ {x} = R
      BY <1>3, <1>5
    <2>3. one \in Tables /\ ~Sleeps(one, p) /\ R \cup {x} \in SUBSET Marks
      BY <1>1, <1>3, <1>4, <1>5 DEF Around, Unmoved
    <2> HIDE DEF f, x, one, r, R
    <2>4. /\ Fine(r, (R \cup {x}) \ {x}, {}, {}) /\ Around(one, r)
      BY <1>3, <1>5, <2>1, <2>2, <2>3, DecFine
    <2>5. Around(k, r)
      BY <1>3, <1>5, <2>4, AroundTrans
    <2>6. Refs(r) = R
      BY <2>5, SameRefs DEF Around, Unmoved, SameHolds, R
    <2>7. Unopened(r)
      BY <1>1, <2>5 DEF Around, Unmoved, Unopened
    <2>8. Receives(k, r, p, i)
      <3>1. /\ r.procs[p] = k.procs[p] /\ Unmoved(k, r)
        BY <1>4, <2>5 DEF Around, Unmoved
      <3> QED
        BY <3>1, UnmovedReceives
    <2> QED
      BY <2>2, <2>4, <2>5, <2>6, <2>7, <2>8 DEF Inv, Around, r
  <1>6. CASE FreeFds(k) # {} /\ FreeFds(one) # {}
    <2> DEFINE c == [both.procs[p] EXCEPT !.own = both.procs[p].own \cup {f, g}]
    <2>1. r = [both EXCEPT !.procs[p] = c]
      BY <1>6 DEF pipe_create_fds
    <2>2. one \in Tables /\ R \cup {x} \in SUBSET Marks /\ "WRITE" \in Types
      BY <1>1, <1>3, <1>6 DEF Around, Types
    <2> HIDE DEF x, one, r, R
    <2>3. /\ g \in Fds /\ y \in Marks /\ y \notin R \cup {x}
          /\ Fine(both, (R \cup {x}) \cup {y}, {}, {}) /\ Around(one, both)
      BY <1>3, <1>6, <2>2, CreateFd
    <2>4. f \in Fds
      BY <1>3, <1>6
    <2> HIDE DEF f, g, y, both
    <2>5. both \in Tables /\ Around(k, both)
      BY <1>3, <1>6, <2>3, AroundTrans DEF Around
    <2>6. /\ c \in PCB
          /\ PCBIs(c, both.procs[p].state, both.procs[p].fd, both.procs[p].own \cup {f, g},
                   both.procs[p].at)
      <3>1. both.procs[p] \in PCB
        BY <2>5, TableTypes
      <3>2. both.procs[p].own \cup {f, g} \in SUBSET Fds
        BY <2>3, <2>4, <3>1, PCBFields
      <3> QED
        BY <3>1, <3>2, OwnSet
    <2> HIDE DEF c
    <2>7. Becomes(both, r, p, c)
      BY <2>1, <2>5, <2>6, SetProc
    <2>8. SameSleepers(both, r)
      BY <2>6, <2>7, BecomesSame DEF PCBIs
    <2>9. r \in Tables /\ r.pipes = both.pipes /\ r.fds = both.fds
      BY <2>7 DEF Becomes
    <2>10. (R \cup {x}) \cup {y} \in SUBSET Marks
      BY <2>2, <2>3
    <2>11. Fine(r, (R \cup {x}) \cup {y}, {}, {}) /\ Cleaner(both, r)
      BY <2>3, <2>5, <2>8, <2>9, <2>10, ProcsFine
    <2>12. Refs(r) = (Refs(both) \cup {x}) \cup {y}
      <3>1. Gains(both, r, p, f, g)
        BY <2>6, <2>7 DEF Becomes, PCBIs, Gains
      <3>2. Refs(r) = (Refs(both) \cup {<<f, p, 2>>}) \cup {<<g, p, 2>>}
        <4>1. f \in Fds /\ g \in Fds
          BY <2>3, <2>4
        <4> QED
          BY <3>1, <4>1, MoreOwn
      <3> QED
        BY <3>2 DEF x, y
    <2>13. Refs(both) = R
      BY <2>5, SameRefs DEF Around, Unmoved, SameHolds, R
    <2>14. Unopened(r)
      BY <1>1, <2>5, <2>6, <2>7 DEF Around, Unmoved, Unopened, Becomes, PCBIs
    <2>15. Cleaner(k, r)
      BY <2>5, <2>11 DEF Around, Cleaner
    <2>16. Receives(k, r, p, i)
      <3>1. Clean(r.pipes[i])
        BY <1>3, <1>6, <2>3, <2>9 DEF Around, Cleaner
      <3>2. /\ both.procs[p] = k.procs[p] /\ Unmoved(k, both)
        BY <1>4, <2>5 DEF Around, Unmoved
      <3>3. /\ r.procs[p].own = k.procs[p].own \cup {f, g} /\ r.procs[p].fd = k.procs[p].fd
            /\ r.procs[p].state = k.procs[p].state /\ r.procs[p].at = k.procs[p].at
        BY <2>6, <2>7, <3>2 DEF Becomes, PCBIs
      <3>4. \A q \in Pids \ {p} : Rose(k, r, q)
        BY <2>7, <3>2, UnmovedRose DEF Becomes, Rose
      <3>5. {f, g} \in SUBSET Fds /\ \E a, b : {f, g} \subseteq {a, b}
        BY <2>3, <2>4
      <3> QED
        BY <3>1, <3>3, <3>4, <3>5 DEF Receives, Moves
    <2> QED
      BY <2>9, <2>11, <2>12, <2>13, <2>14, <2>15, <2>16 DEF Inv, r
  <1> QED
    BY <1>2, <1>5, <1>6

\* An end is closed by the process that has it.
LEMMA CloseGood ==
    ASSUME NEW k \in Tables, Inv(k), NEW p \in Pids, k.procs[p].state = "READY",
           NEW f \in k.procs[p].own
    PROVE  LET r == [fd_decref(k, f) EXCEPT !.procs[p].own = @ \ {f}]
           IN  /\ Good(k, r) /\ Cleaner(k, r)
               /\ Moves(k, r, p, k.procs[p].state, k.procs[p].own \ {f}, k.procs[p].at)
               /\ r.procs[p].fd = k.procs[p].fd
  <1> DEFINE R == Refs(k)
             x == <<f, p, 2>>
             m == fd_decref(k, f)
             c == [m.procs[p] EXCEPT !.own = m.procs[p].own \ {f}]
             r == [m EXCEPT !.procs[p] = c]
  <1>1. R \in SUBSET Marks /\ Fine(k, R, {}, {}) /\ Unopened(k)
    BY RefsIn DEF Inv
  <1>2. f \in Fds
    BY TableTypes, PCBFields
  <1>3. x \in R /\ x[1] = f /\ x[2] = p
    BY <1>2, InRefs
  <1>4. ~Sleeps(k, p)
    BY <1>1, AwakeIsOut DEF Fine
  <1>5. r = [m EXCEPT !.procs[p].own = @ \ {f}]
    OBVIOUS
  <1> HIDE DEF R, x, m
  <1>6. Fine(m, R \ {x}, {}, {}) /\ Around(k, m)
    BY <1>1, <1>2, <1>3, <1>4, DecFine DEF m
  <1>7. m \in Tables
    BY <1>6 DEF Around
  <1>8. /\ c \in PCB
        /\ PCBIs(c, m.procs[p].state, m.procs[p].fd, m.procs[p].own \ {f}, m.procs[p].at)
    <2>1. m.procs[p] \in PCB
      BY <1>7, TableTypes
    <2>2. m.procs[p].own \ {f} \in SUBSET Fds
      BY <2>1, PCBFields
    <2> QED
      BY <2>1, <2>2, OwnSet
  <1> HIDE DEF c
  <1>9. Becomes(m, r, p, c)
    BY <1>7, <1>8, SetProc
  <1> HIDE DEF r
  <1>10. SameSleepers(m, r)
    BY <1>8, <1>9, BecomesSame DEF PCBIs
  <1>11. r \in Tables /\ r.pipes = m.pipes /\ r.fds = m.fds
    BY <1>9 DEF Becomes
  <1>12. Fine(r, R \ {x}, {}, {}) /\ Cleaner(m, r)
    <2>1. R \ {x} \in SUBSET Marks
      BY <1>1
    <2> QED
      BY <1>6, <1>7, <1>10, <1>11, <2>1, ProcsFine
  <1>13. Refs(r) = R \ {x}
    <2>1. Loses(m, r, p, f)
      BY <1>8, <1>9 DEF Becomes, PCBIs, Loses
    <2>2. Refs(r) = Refs(m) \ {<<f, p, 2>>}
      BY <1>2, <2>1, LessOwn
    <2>3. Refs(m) = R
      BY <1>6, SameRefs DEF Around, Unmoved, SameHolds, R
    <2> QED
      BY <2>2, <2>3 DEF x
  <1>14. Unopened(r)
    BY <1>1, <1>6, <1>8, <1>9 DEF Around, Unmoved, Unopened, Becomes, PCBIs
  <1>15. Cleaner(k, r) /\ StaysClean(k, r)
    BY <1>6, <1>12 DEF Around, Cleaner, StaysClean
  <1>16. m.procs[p] = k.procs[p] /\ Unmoved(k, m)
    BY <1>4, <1>6 DEF Around, Unmoved
  <1>17. Moves(k, r, p, k.procs[p].state, k.procs[p].own \ {f}, k.procs[p].at)
    <2>1. \A q \in Pids \ {p} : Rose(k, r, q)
      BY <1>9, <1>16, UnmovedRose DEF Becomes, Rose
    <2> QED
      BY <1>8, <1>9, <1>16, <2>1 DEF Becomes, PCBIs, Moves
  <1>18. r.procs[p].fd = k.procs[p].fd
    BY <1>8, <1>9, <1>16 DEF Becomes, PCBIs
  <1> QED
    BY <1>5, <1>11, <1>12, <1>13, <1>14, <1>15, <1>17, <1>18 DEF Inv, Good, m

\* From k to r stdin or stdout of process p becomes f.
Redirected(k, r, p, n, f) ==
    \A q \in Pids :
        /\ r.procs[q].own = k.procs[q].own
        /\ q # p => r.procs[q].fd = k.procs[q].fd
        /\ q = p => \A l \in 0..1 : r.procs[q].fd[l] = IF l = n THEN f ELSE k.procs[q].fd[l]

NewRefs(A, B, p, n, old, f) == B = (A \ {<<old, p, n>>}) \cup {<<f, p, n>>}

LEMMA MovedRef ==
    ASSUME NEW k, NEW r, NEW p \in Pids, NEW n \in 0..1, NEW f \in Fds, Redirected(k, r, p, n, f)
    PROVE  NewRefs(Refs(k), Refs(r), p, n, k.procs[p].fd[n], f)
  <1> DEFINE old == k.procs[p].fd[n]
             T == (Refs(k) \ {<<old, p, n>>}) \cup {<<f, p, n>>}
  <1>1. n = 0 \/ n = 1
    OBVIOUS
  <1>2. ASSUME NEW h \in Fds, NEW q \in Pids
        PROVE  /\ <<h, q, 0>> \in Refs(r) <=> <<h, q, 0>> \in T
               /\ <<h, q, 1>> \in Refs(r) <=> <<h, q, 1>> \in T
               /\ <<h, q, 2>> \in Refs(r) <=> <<h, q, 2>> \in T
    <2>1. \A e, l : <<h, q, l>> = <<e, p, n>> <=> (h = e /\ q = p /\ l = n)
      OBVIOUS
    <2>2. /\ r.procs[q].own = k.procs[q].own
          /\ r.procs[q].fd[0] = IF q = p /\ n = 0 THEN f ELSE k.procs[q].fd[0]
          /\ r.procs[q].fd[1] = IF q = p /\ n = 1 THEN f ELSE k.procs[q].fd[1]
      BY IdsAreNat DEF Redirected
    <2>3. /\ <<h, q, 0>> \in Refs(k) <=> k.procs[q].fd[0] = h
          /\ <<h, q, 1>> \in Refs(k) <=> k.procs[q].fd[1] = h
          /\ <<h, q, 2>> \in Refs(k) <=> h \in k.procs[q].own
          /\ <<h, q, 0>> \in Refs(r) <=> r.procs[q].fd[0] = h
          /\ <<h, q, 1>> \in Refs(r) <=> r.procs[q].fd[1] = h
          /\ <<h, q, 2>> \in Refs(r) <=> h \in r.procs[q].own
      BY InRefs
    <2> QED
      BY <1>1, <2>1, <2>2, <2>3
  <1>3. <<f, p, n>> \in Marks
    BY <1>1 DEF Marks
  <1>4. Refs(r) \in SUBSET Marks /\ T \in SUBSET Marks
    BY <1>3, RefsIn
  <1> HIDE DEF T
  <1>5. Refs(r) = T
    BY <1>2, <1>4, ByMarks
  <1> QED
    BY <1>5 DEF T, NewRefs

LEMMA FineWider ==
    ASSUME NEW k, NEW R, NEW D, Fine(k, R, {}, D), NEW f
    PROVE  Fine(k, R, {f}, D)
  BY DEF Fine, Live

LEMMA AroundSelf ==
    ASSUME NEW k \in Tables
    PROVE  Around(k, k)
  BY DEF Around, Unmoved, Cleaner

\* stdin or stdout goes from one descriptor to another, to which there is a
\* reference that is not the one that goes.
LEMMA RedirectGood ==
    ASSUME NEW k \in Tables, Inv(k), NEW p \in Pids, NEW n \in 0..1, NEW f \in Fds,
           k.procs[p].state # "FREE", k.procs[p].state # "BLOCKED" \/ k.procs[p].at = New,
           k.fds[f].type \in Types,
           NEW z \in Refs(k), z[1] = f, z # <<k.procs[p].fd[n], p, n>>
    PROVE  LET r == redirect(k, p, f, n)
           IN  /\ Good(k, r) /\ Cleaner(k, r)
               /\ Moves(k, r, p, k.procs[p].state, k.procs[p].own, k.procs[p].at)
               /\ r.procs[p].fd = [k.procs[p].fd EXCEPT ![n] = f]
  <1> DEFINE R == Refs(k)
             old == k.procs[p].fd[n]
             x == <<old, p, n>>
             y == <<f, p, n>>
             Q == R \ {x}
             m == IF old = NULL THEN k ELSE fd_decref(k, old)
             c == [m.procs[p] EXCEPT !.fd = [m.procs[p].fd EXCEPT ![n] = f]]
             l == [m EXCEPT !.procs[p] = c]
             r == redirect(k, p, f, n)
  <1>1. R \in SUBSET Marks /\ Fine(k, R, {}, {}) /\ Unopened(k)
    BY RefsIn DEF Inv
  <1>2. n = 0 \/ n = 1
    OBVIOUS
  <1>3. old \in Fds \cup {NULL}
    BY <1>2, TableTypes, PCBFields
  <1>4. ~Sleeps(k, p)
    BY <1>1, AwakeIsOut DEF Fine
  <1>5. r = fd_incref(l, f)
    BY DEF redirect
  <1>6. y \in Marks /\ y[1] = f /\ y \notin Q
    <2>1. y \in Marks /\ y[1] = f
      BY <1>2 DEF Marks
    <2>2. y[2] = p /\ y[3] = n /\ n # 2 /\ (old = f => y = x)
      OBVIOUS
    <2> HIDE DEF y, x
    <2>3. y \in R => old = f
      BY <2>1, <2>2 DEF Refs
    <2> QED
      BY <2>1, <2>2, <2>3
  <1>7. z \in R /\ z # x
    OBVIOUS
  <1> HIDE DEF R
  <1>8. z \in Q /\ z \in RefsTo(Q, f)
    BY <1>7 DEF RefsTo
  <1>9. Fine(m, Q, {}, {}) /\ Around(k, m) /\ m.fds[f].type = k.fds[f].type
    <2>1. CASE old = NULL
      <3>1. x \notin R
        BY <1>1, <2>1, IdsAreNat DEF Marks
      <3>2. Q = R /\ m = k
        BY <2>1, <3>1
      <3> HIDE DEF Q, m
      <3> QED
        BY <1>1, <3>2, AroundSelf
    <2>2. CASE old # NULL
      <3>1. old \in Fds
        BY <1>3, <2>2
      <3>2. x \in R /\ x[1] = old /\ x[2] = p
        BY <3>1, InFds DEF R
      <3>3. m = fd_decref(k, old)
        BY <2>2
      <3> HIDE DEF m, x, old, Q
      <3>4. Fine(m, R \ {x}, {}, {}) /\ Around(k, m) /\ KindsHeld(k, m, R \ {x})
        BY <1>1, <1>4, <3>1, <3>2, <3>3, DecFine
      <3> QED
        BY <1>8, <3>4 DEF KindsHeld, Q
    <2> QED
      BY <2>1, <2>2
  <1>10. Q \in SUBSET Marks
    BY <1>1
  <1> HIDE DEF m, Q, y
  <1>11. m \in Tables /\ m.procs[p] \in PCB
    BY <1>9, TableTypes DEF Around
  <1>12. /\ c \in PCB
         /\ PCBIs(c, m.procs[p].state, [m.procs[p].fd EXCEPT ![n] = f], m.procs[p].own,
                  m.procs[p].at)
    <2>1. m.procs[p].fd \in [0..1 -> Fds \cup {NULL}]
      BY <1>11, PCBFields
    <2>2. [m.procs[p].fd EXCEPT ![n] = f] \in [0..1 -> Fds \cup {NULL}]
      BY <2>1
    <2> QED
      BY <1>11, <2>2, FdSet
  <1>13. \A j \in 0..1 : c.fd[j] = IF j = n THEN f ELSE m.procs[p].fd[j]
    <2>1. m.procs[p].fd \in [0..1 -> Fds \cup {NULL}]
      BY <1>11, PCBFields
    <2> QED
      BY <1>12, <2>1 DEF PCBIs
  <1> HIDE DEF c
  <1>14. Becomes(m, l, p, c)
    BY <1>11, <1>12, SetProc
  <1> HIDE DEF l, r
  <1>15. SameSleepers(m, l)
    BY <1>12, <1>14, BecomesSame DEF PCBIs
  <1>16. l \in Tables /\ l.pipes = m.pipes /\ l.fds = m.fds
    BY <1>14 DEF Becomes
  <1>17. Fine(l, Q, {}, {}) /\ Cleaner(m, l)
    BY <1>9, <1>10, <1>11, <1>15, <1>16, ProcsFine
  <1>18. Fine(l, Q, {f}, {}) /\ l.fds[f].type # "NONE" /\ y \notin Q
    BY <1>6, <1>9, <1>16, <1>17, FineWider DEF Types
  <1>19. Fine(r, Q \cup {y}, {}, {}) /\ Around(l, r)
    BY <1>5, <1>6, <1>10, <1>16, <1>18, IncFine
  <1>20. Refs(r) = Q \cup {y}
    <2>1. Redirected(m, l, p, n, f)
      BY <1>12, <1>13, <1>14 DEF Redirected, Becomes, PCBIs
    <2>2. NewRefs(Refs(m), Refs(l), p, n, m.procs[p].fd[n], f)
      BY <2>1, MovedRef
    <2>3. Refs(m) = R /\ m.procs[p].fd = k.procs[p].fd
      BY <1>9, SameRefs DEF Around, Unmoved, SameHolds, R
    <2>4. Refs(r) = Refs(l)
      BY <1>19, SameRefs DEF Around, Unmoved, SameHolds
    <2>5. Refs(r) = (R \ {<<old, p, n>>}) \cup {<<f, p, n>>}
      BY <2>2, <2>3, <2>4 DEF NewRefs
    <2> QED
      BY <2>5 DEF Q, y
  <1>21. Unopened(r)
    BY <1>1, <1>9, <1>12, <1>14, <1>19 DEF Around, Unmoved, Unopened, Becomes, PCBIs
  <1>22. Cleaner(k, r) /\ StaysClean(k, r) /\ r \in Tables
    BY <1>9, <1>17, <1>19 DEF Around, Cleaner, StaysClean
  <1>23. /\ m.procs[p] = k.procs[p] /\ Unmoved(k, m) /\ ~Sleeps(l, p)
    BY <1>4, <1>9, <1>16 DEF Around, Unmoved, Sleeps
  <1>24. r.procs[p] = c /\ Unmoved(l, r)
    BY <1>14, <1>19, <1>23 DEF Around, Unmoved, Becomes
  <1>25. \A q \in Pids \ {p} : Rose(k, r, q)
    <2>1. ASSUME NEW q \in Pids \ {p}
          PROVE  Rose(k, r, q)
      <3>1. l.procs[q] = m.procs[q] /\ (Sleeps(l, q) => Sleeps(m, q))
        BY <1>14, <1>16 DEF Becomes, Sleeps
      <3>2. Rose(k, m, q) /\ Rose(l, r, q)
        BY <1>23, <1>24, UnmovedRose
      <3>3. Sleeps(m, q) => Sleeps(k, q)
        BY <1>23 DEF Unmoved
      <3> QED
        BY <3>1, <3>2, <3>3 DEF Rose
    <2> QED
      BY <2>1
  <1>26. Moves(k, r, p, k.procs[p].state, k.procs[p].own, k.procs[p].at)
    BY <1>12, <1>23, <1>24, <1>25 DEF PCBIs, Moves
  <1>27. r.procs[p].fd = [k.procs[p].fd EXCEPT ![n] = f]
    BY <1>12, <1>23, <1>24 DEF PCBIs
  <1> QED
    BY <1>19, <1>20, <1>21, <1>22, <1>26, <1>27 DEF Inv, Good, r

-----------------------------------------------------------------------------
(***************************************************************************)
(* Death and birth.                                                        *)
(***************************************************************************)

\* A pipe that process p has left.
LEMMA LeftPipe ==
    ASSUME NEW c \in Pipe, NEW p
    PROVE  LET d == [c EXCEPT !.wait_readers = queue_remove_pid(@, p),
                              !.wait_writers = queue_remove_pid(@, p)]
           IN  /\ d \in Pipe
               /\ PipeIs(d, c.open_read, c.open_write, c.in_use, c.name, c.eof,
                         queue_remove_pid(c.wait_readers, p), queue_remove_pid(c.wait_writers, p))
  <1>1. c.wait_readers \in Seq(Pids) /\ c.wait_writers \in Seq(Pids)
    BY PipeFields
  <1>2. /\ queue_remove_pid(c.wait_readers, p) \in Seq(Pids)
        /\ queue_remove_pid(c.wait_writers, p) \in Seq(Pids)
    BY <1>1, RemovedQueue
  <1> QED
    BY <1>2 DEF Pipe, PipeIs

LEMMA SomeoneIn ==
    ASSUME NEW q \in Seq(Pids), q # <<>>
    PROVE  Elements(q) # {}
  BY DEF Elements

\* pipe_cleanup_for_process: from here on p counts as dying.
LEMMA CleanupFine ==
    ASSUME NEW k \in Tables, NEW R \in SUBSET Marks, Fine(k, R, {}, {}), NEW p \in Pids
    PROVE  LET r == pipe_cleanup_for_process(k, p)
           IN  /\ r \in Tables /\ r.procs = k.procs /\ r.fds = k.fds
               /\ Fine(r, R, {}, {p}) /\ ~Sleeps(r, p) /\ Cleaner(k, r) /\ Shorter(k, r)
  <1> DEFINE d(c) == [c EXCEPT !.wait_readers = queue_remove_pid(@, p),
                               !.wait_writers = queue_remove_pid(@, p)]
             pipes == [i \in PipeIds |-> d(k.pipes[i])]
             r == pipe_cleanup_for_process(k, p)
  <1>1. /\ Counted(k, R) /\ Live(k, R, {}) /\ Agree(k, {}) /\ Anchored(k, R) /\ Hopes(k)
        /\ Terminals(k)
    BY DEF Fine
  <1>2. r = [k EXCEPT !.pipes = pipes]
    BY DEF pipe_cleanup_for_process
  <1>3. ASSUME NEW i \in PipeIds
        PROVE  LET c == k.pipes[i]
               IN  /\ d(c) \in Pipe
                   /\ PipeIs(d(c), c.open_read, c.open_write, c.in_use, c.name, c.eof,
                             queue_remove_pid(c.wait_readers, p),
                             queue_remove_pid(c.wait_writers, p))
    <2>1. k.pipes[i] \in Pipe
      BY TableTypes
    <2> QED
      BY <2>1, LeftPipe
  <1> HIDE DEF d
  <1>4. pipes \in [PipeIds -> Pipe] /\ \A i \in PipeIds : pipes[i] = d(k.pipes[i])
    BY <1>3
  <1> HIDE DEF pipes
  <1>5. /\ r \in Tables /\ r.procs = k.procs /\ r.fds = k.fds /\ r.pipes = pipes
    BY <1>2, <1>4 DEF Tables
  <1> HIDE DEF r
  <1>6. ASSUME NEW i \in PipeIds
        PROVE  LET c == k.pipes[i]
               IN  PipeIs(r.pipes[i], c.open_read, c.open_write, c.in_use, c.name, c.eof,
                          queue_remove_pid(c.wait_readers, p),
                          queue_remove_pid(c.wait_writers, p))
    BY <1>3, <1>4, <1>5
  <1>7. ASSUME NEW i \in PipeIds, NEW s \in Sides
        PROVE  /\ Distinct(Line(r.pipes[i], s))
               /\ Elements(Line(r.pipes[i], s)) = Elements(Line(k.pipes[i], s)) \ {p}
               /\ Line(r.pipes[i], s) \in Seq(Pids) /\ Line(k.pipes[i], s) \in Seq(Pids)
    <2>1. Line(r.pipes[i], s) = queue_remove_pid(Line(k.pipes[i], s), p)
      BY <1>6 DEF Line, PipeIs
    <2>2. Line(k.pipes[i], s) \in Seq(Pids) /\ Distinct(Line(k.pipes[i], s))
      BY <1>1, TableTypes, LineIn DEF Agree
    <2> QED
      BY <2>1, <2>2, RemovedQueue
  <1>8. SameEnds(k, r) /\ Cleaner(k, r)
    <2>1. ASSUME NEW i \in PipeIds
          PROVE  /\ r.pipes[i].open_read = k.pipes[i].open_read
                 /\ r.pipes[i].open_write = k.pipes[i].open_write
                 /\ r.pipes[i].in_use = k.pipes[i].in_use
      BY <1>6 DEF PipeIs
    <2> QED
      BY <2>1 DEF SameEnds, Cleaner, Clean, Ends
  <1>9. Counted(r, R) /\ \A i, t : EndRefs(r, R, i, t) = EndRefs(k, R, i, t)
    BY <1>1, <1>5, <1>8, SameCounted
  <1>10. Agree(r, {p})
    <2> SUFFICES ASSUME NEW i \in PipeIds, NEW s \in Sides
                 PROVE  Elements(Line(r.pipes[i], s)) = {q \in Pids \ {p} : Asleep(r, q, i, s)}
      BY <1>7 DEF Agree
    <2>1. \A q : Asleep(r, q, i, s) <=> Asleep(k, q, i, s)
      BY <1>5 DEF Asleep
    <2>2. Elements(Line(k.pipes[i], s)) = {q \in Pids : Asleep(k, q, i, s)}
      BY <1>1 DEF Agree
    <2> QED
      BY <1>7, <2>1, <2>2
  <1>11. Anchored(r, R)
    <2>1. Shorter(k, r)
      BY <1>7 DEF Shorter
    <2> QED
      BY <1>1, <1>9, <2>1 DEF Anchored, Shorter
  <1>12. Hopes(r)
    <2> SUFFICES ASSUME NEW i \in PipeIds
                 PROVE  Hope(r.pipes[i])
      BY DEF Hopes
    <2>1. \A s \in Sides : Line(r.pipes[i], s) # <<>> => Line(k.pipes[i], s) # <<>>
      BY <1>7, SomeoneIn, EmptyLine
    <2>2. /\ r.pipes[i].wait_readers # <<>> => k.pipes[i].wait_readers # <<>>
          /\ r.pipes[i].wait_writers # <<>> => k.pipes[i].wait_writers # <<>>
      BY <2>1 DEF Line, Sides
    <2>3. Hope(k.pipes[i])
      BY <1>1 DEF Hopes
    <2> QED
      BY <1>6, <2>2, <2>3 DEF Hope, PipeIs
  <1>13. Live(r, R, {}) /\ Terminals(r)
    BY <1>1, <1>5 DEF Live, Terminals
  <1>14. ~Sleeps(r, p)
    BY <1>7 DEF Sleeps
  <1>15. Shorter(k, r)
    BY <1>7 DEF Shorter
  <1> QED
    BY <1>5, <1>8, <1>9, <1>10, <1>11, <1>12, <1>13, <1>14, <1>15 DEF Fine, r

\* stdin or stdout of a dying process is released.
LEMMA ReleaseFine ==
    ASSUME NEW k \in Tables, NEW R \in SUBSET Marks, NEW p \in Pids, Fine(k, R, {}, {p}),
           ~Sleeps(k, p), NEW old \in Fds \cup {NULL}, NEW n,
           NEW x, x = <<old, p, n>>, old # NULL => x \in R,
           NEW m, m = IF old = NULL THEN k ELSE fd_decref(k, old)
    PROVE  Fine(m, R \ {x}, {}, {p}) /\ Around(k, m) /\ ~Sleeps(m, p) /\ m.procs[p] = k.procs[p]
  <1>1. CASE old = NULL
    <2>1. x \notin R
      BY <1>1, IdsAreNat DEF Marks
    <2>2. R \ {x} = R /\ m = k
      BY <1>1, <2>1
    <2> QED
      BY <2>2, AroundSelf
  <1>2. CASE old # NULL
    <2>1. x \in R /\ x[1] = old /\ x[2] = p /\ old \in Fds /\ m = fd_decref(k, old)
      BY <1>2
    <2>2. Fine(m, R \ {x}, {}, {p}) /\ Around(k, m)
      BY <2>1, DecFine
    <2> QED
      BY <2>2 DEF Around, Unmoved
  <1> QED
    BY <1>1, <1>2

LEMMA DeadFine ==
    ASSUME NEW k \in Tables, NEW r, NEW p \in Pids, NEW c, Becomes(k, r, p, c),
           c.state = "FREE", NEW R \in SUBSET Marks, Fine(k, R, {}, {p})
    PROVE  Fine(r, R, {}, {}) /\ Cleaner(k, r)
  <1>1. /\ Counted(k, R) /\ Live(k, R, {}) /\ Agree(k, {p}) /\ Anchored(k, R) /\ Hopes(k)
        /\ Terminals(k)
    BY DEF Fine
  <1>2. /\ r \in Tables /\ r.pipes = k.pipes /\ r.fds = k.fds
        /\ r.procs[p] = c /\ \A q \in Pids \ {p} : r.procs[q] = k.procs[q]
    BY DEF Becomes
  <1>3. SameEnds(k, r)
    BY <1>2 DEF SameEnds
  <1>4. Counted(r, R) /\ \A i, t : EndRefs(r, R, i, t) = EndRefs(k, R, i, t)
    BY <1>1, <1>2, <1>3, SameCounted
  <1>5. Anchored(r, R)
    BY <1>1, <1>2, <1>4 DEF Anchored
  <1>6. Live(r, R, {}) /\ Terminals(r) /\ Hopes(r) /\ Cleaner(k, r)
    BY <1>1, <1>2 DEF Live, Terminals, Hopes, Cleaner
  <1>7. Agree(r, {})
    <2>1. ASSUME NEW i \in PipeIds, NEW s \in Sides
          PROVE  {q \in Pids \ {} : Asleep(r, q, i, s)} = {q \in Pids \ {p} : Asleep(k, q, i, s)}
      BY <1>2 DEF Asleep
    <2> QED
      BY <1>1, <1>2, <2>1 DEF Agree
  <1> QED
    BY <1>4, <1>5, <1>6, <1>7 DEF Fine

\* The references of a process whose stdin and stdout are gone.
Stripped(k, r, p) ==
    \A q \in Pids :
        /\ r.procs[q].own = k.procs[q].own
        /\ q # p => r.procs[q].fd = k.procs[q].fd
        /\ q = p => r.procs[q].fd[0] = NULL /\ r.procs[q].fd[1] = NULL

LEMMA StrippedRefs ==
    ASSUME NEW k, NEW r, NEW p \in Pids, Stripped(k, r, p),
           NEW x, x = <<k.procs[p].fd[0], p, 0>>, NEW y, y = <<k.procs[p].fd[1], p, 1>>
    PROVE  Refs(r) = (Refs(k) \ {x}) \ {y}
  <1> DEFINE T == (Refs(k) \ {x}) \ {y}
  <1>1. ASSUME NEW h \in Fds, NEW q \in Pids
        PROVE  /\ <<h, q, 0>> \in Refs(r) <=> <<h, q, 0>> \in T
               /\ <<h, q, 1>> \in Refs(r) <=> <<h, q, 1>> \in T
               /\ <<h, q, 2>> \in Refs(r) <=> <<h, q, 2>> \in T
    <2>1. \A l : /\ <<h, q, l>> = x <=> (h = k.procs[p].fd[0] /\ q = p /\ l = 0)
                 /\ <<h, q, l>> = y <=> (h = k.procs[p].fd[1] /\ q = p /\ l = 1)
      OBVIOUS
    <2>2. /\ r.procs[q].own = k.procs[q].own
          /\ q # p => r.procs[q].fd = k.procs[q].fd
          /\ q = p => r.procs[q].fd[0] = NULL /\ r.procs[q].fd[1] = NULL
          /\ h # NULL
      BY IdsAreNat DEF Stripped
    <2>3. /\ <<h, q, 0>> \in Refs(k) <=> k.procs[q].fd[0] = h
          /\ <<h, q, 1>> \in Refs(k) <=> k.procs[q].fd[1] = h
          /\ <<h, q, 2>> \in Refs(k) <=> h \in k.procs[q].own
          /\ <<h, q, 0>> \in Refs(r) <=> r.procs[q].fd[0] = h
          /\ <<h, q, 1>> \in Refs(r) <=> r.procs[q].fd[1] = h
          /\ <<h, q, 2>> \in Refs(r) <=> h \in r.procs[q].own
      BY InRefs
    <2> QED
      BY <2>1, <2>2, <2>3
  <1>2. Refs(r) \in SUBSET Marks /\ T \in SUBSET Marks
    BY RefsIn
  <1> HIDE DEF T
  <1>3. Refs(r) = T
    BY <1>1, <1>2, ByMarks
  <1> QED
    BY <1>3 DEF T

\* The entry of a dead process.
Dead(c) == [[[c EXCEPT !.fd = [n \in 0..1 |-> NULL]] EXCEPT !.state = "FREE"] EXCEPT !.at = Nowhere]

LEMMA DeadIs ==
    ASSUME NEW c \in PCB
    PROVE  /\ Dead(c) \in PCB /\ Dead(c).state = "FREE" /\ Dead(c).own = c.own
           /\ Dead(c).fd[0] = NULL /\ Dead(c).fd[1] = NULL /\ Dead(c).at = Nowhere
  <1> DEFINE none == [n \in 0..1 |-> NULL]
  <1>1. none \in [0..1 -> Fds \cup {NULL}] /\ none[0] = NULL /\ none[1] = NULL
    OBVIOUS
  <1> HIDE DEF none
  <1>2. Dead(c) = [[[c EXCEPT !.fd = none] EXCEPT !.state = "FREE"] EXCEPT !.at = Nowhere]
    BY DEF Dead, none
  <1> QED
    BY <1>1, <1>2, PlacesIn DEF PCB

LEMMA BuryIs ==
    ASSUME NEW k \in Tables, NEW p \in Pids, NEW l, l = [k EXCEPT !.procs[p].fd = [n \in 0..1 |-> NULL]]
    PROVE  Becomes(k, [l EXCEPT !.procs[p].state = "FREE", !.procs[p].at = Nowhere], p,
                   Dead(k.procs[p]))
  <1> DEFINE c == k.procs[p]
             r == [k EXCEPT !.procs[p] = Dead(c)]
             none == [n \in 0..1 |-> NULL]
  <1>1. c \in PCB
    BY TableTypes
  <1>2. Becomes(k, r, p, Dead(c))
    BY <1>1, DeadIs, SetProc
  <1> HIDE DEF none
  <1>3. l = [k EXCEPT !.procs[p] = [c EXCEPT !.fd = none]]
    BY DEF none
  <1>4. l.procs[p] = [c EXCEPT !.fd = none]
    BY <1>3 DEF Tables
  <1>5. [l EXCEPT !.procs[p].state = "FREE", !.procs[p].at = Nowhere] =
            [l EXCEPT !.procs[p] = [[l.procs[p] EXCEPT !.state = "FREE"] EXCEPT !.at = Nowhere]]
    BY <1>3 DEF Tables
  <1>6. [l EXCEPT !.procs[p].state = "FREE", !.procs[p].at = Nowhere] = [l EXCEPT !.procs[p] = Dead(c)]
    BY <1>4, <1>5 DEF Dead, none
  <1>7. [l EXCEPT !.procs[p] = Dead(c)] = r
    BY <1>3 DEF Tables
  <1> QED
    BY <1>2, <1>6, <1>7

\* process_exit and process_kill.
LEMMA DieGood ==
    ASSUME NEW k \in Tables, Inv(k), NEW p \in Pids
    PROVE  LET r == [process_release_fds(pipe_cleanup_for_process(k, p), p) EXCEPT
                        !.procs[p].state = "FREE", !.procs[p].at = Nowhere]
           IN  /\ Good(k, r) /\ Cleaner(k, r)
               /\ Moves(k, r, p, "FREE", k.procs[p].own, Nowhere)
  <1> DEFINE R == Refs(k)
             m == pipe_cleanup_for_process(k, p)
             f == m.procs[p].fd[0]
             g == m.procs[p].fd[1]
             x == <<f, p, 0>>
             y == <<g, p, 1>>
             one == IF f = NULL THEN m ELSE fd_decref(m, f)
             both == IF g = NULL THEN one ELSE fd_decref(one, g)
             l == [both EXCEPT !.procs[p].fd = [n \in 0..1 |-> NULL]]
             r == [l EXCEPT !.procs[p].state = "FREE", !.procs[p].at = Nowhere]
             Q == (R \ {x}) \ {y}
  <1>1. R \in SUBSET Marks /\ Fine(k, R, {}, {}) /\ Unopened(k)
    BY RefsIn DEF Inv
  <1>2. l = process_release_fds(m, p)
    BY DEF process_release_fds
  <1> HIDE DEF m
  <1>3. /\ m \in Tables /\ m.procs = k.procs /\ m.fds = k.fds
        /\ Fine(m, R, {}, {p}) /\ ~Sleeps(m, p) /\ Cleaner(k, m) /\ Shorter(k, m)
    <2> HIDE DEF R
    <2> QED
      BY <1>1, CleanupFine DEF m
  <1>4. f \in Fds \cup {NULL} /\ g \in Fds \cup {NULL}
    BY <1>3, TableTypes, PCBFields
  <1>5. Refs(m) = R
    BY <1>3, SameRefs DEF SameHolds
  <1>6. (f # NULL => x \in R) /\ (g # NULL => y \in R \ {x})
    <2>1. f # NULL => x \in R
      BY <1>4, <1>5, InRefs
    <2>2. g # NULL => y \in R
      BY <1>4, <1>5, InRefs
    <2>3. x # y
      OBVIOUS
    <2> QED
      BY <2>1, <2>2, <2>3
  <1> HIDE DEF R
  <1>7. Fine(one, R \ {x}, {}, {p}) /\ Around(m, one) /\ ~Sleeps(one, p) /\ one.procs[p] = m.procs[p]
    <2>1. x = <<f, p, 0>> /\ one = IF f = NULL THEN m ELSE fd_decref(m, f)
      OBVIOUS
    <2>2. f # NULL => x \in R
      BY <1>6
    <2>3. /\ f \in Fds \cup {NULL} /\ R \in SUBSET Marks /\ m \in Tables
          /\ Fine(m, R, {}, {p}) /\ ~Sleeps(m, p)
      BY <1>1, <1>3, <1>4
    <2> HIDE DEF x, one, f
    <2> QED
      BY <2>1, <2>2, <2>3, ReleaseFine
  <1>8. one \in Tables /\ R \ {x} \in SUBSET Marks
    BY <1>1, <1>7 DEF Around
  <1>9. /\ Fine(both, Q, {}, {p}) /\ Around(one, both) /\ both.procs[p] = one.procs[p]
    <2>1. y = <<g, p, 1>> /\ both = IF g = NULL THEN one ELSE fd_decref(one, g)
      OBVIOUS
    <2> HIDE DEF x, one, f, y, both, g, Q
    <2>2. /\ Fine(both, (R \ {x}) \ {y}, {}, {p}) /\ Around(one, both)
          /\ both.procs[p] = one.procs[p]
      BY <1>4, <1>6, <1>7, <1>8, <2>1, ReleaseFine
    <2> QED
      BY <2>2 DEF Q
  <1> HIDE DEF one, both, f, g, x, y
  <1>10. both \in Tables /\ Q \in SUBSET Marks /\ Around(m, both)
    BY <1>7, <1>8, <1>9, AroundTrans DEF Around
  <1> DEFINE c == Dead(both.procs[p])
  <1>11. Becomes(both, r, p, c)
    <2>1. l = [both EXCEPT !.procs[p].fd = [n \in 0..1 |-> NULL]]
      OBVIOUS
    <2> HIDE DEF l
    <2> QED
      BY <1>10, <2>1, BuryIs
  <1>12. /\ c.state = "FREE" /\ c.own = both.procs[p].own /\ c.fd[0] = NULL /\ c.fd[1] = NULL
         /\ c.at = Nowhere
    BY <1>10, TableTypes, DeadIs
  <1> HIDE DEF c, l, r, Q
  <1>13. Fine(r, Q, {}, {}) /\ Cleaner(both, r) /\ r \in Tables
    BY <1>9, <1>10, <1>11, <1>12, DeadFine DEF Becomes
  <1>14. Refs(r) = Q
    <2>1. Stripped(m, r, p)
      BY <1>10, <1>11, <1>12 DEF Stripped, Becomes, Around, Unmoved
    <2>2. x = <<m.procs[p].fd[0], p, 0>> /\ y = <<m.procs[p].fd[1], p, 1>>
      BY DEF x, y, f, g
    <2>3. Refs(r) = (Refs(m) \ {x}) \ {y}
      BY <2>1, <2>2, StrippedRefs
    <2> QED
      BY <1>5, <2>3 DEF Q
  <1>15. Unopened(r)
    BY <1>1, <1>3, <1>10, <1>11, <1>12 DEF Around, Unmoved, Unopened, Becomes
  <1>16. Cleaner(k, r) /\ StaysClean(k, r)
    BY <1>3, <1>10, <1>13 DEF Around, Cleaner, StaysClean
  <1>17. Moves(k, r, p, "FREE", k.procs[p].own, Nowhere)
    <2>1. ASSUME NEW q \in Pids \ {p}
          PROVE  Rose(k, r, q)
      <3>1. Rose(m, both, q) /\ r.procs[q] = both.procs[q]
        BY <1>10, <1>11, UnmovedRose DEF Around, Becomes
      <3>2. Sleeps(m, q) => Sleeps(k, q)
        BY <1>3 DEF Sleeps, Shorter
      <3> QED
        BY <1>3, <3>1, <3>2 DEF Rose
    <2>2. both.procs[p] = k.procs[p]
      BY <1>3, <1>7, <1>9
    <2> QED
      BY <1>11, <1>12, <2>1, <2>2 DEF Becomes, Moves
  <1> QED
    BY <1>2, <1>13, <1>14, <1>15, <1>16, <1>17 DEF Good, Inv, m, r

\* The entry of a new process, and its references.
Newborn(c) == [[c EXCEPT !.state = "BLOCKED"] EXCEPT !.fd = [n \in 0..1 |-> n]]

LEMMA NewbornIs ==
    ASSUME NEW c \in PCB
    PROVE  /\ Newborn(c) \in PCB /\ Newborn(c).state = "BLOCKED" /\ Newborn(c).own = c.own
           /\ Newborn(c).at = c.at
           /\ Newborn(c).fd[0] = FD_STDIN /\ Newborn(c).fd[1] = FD_STDOUT
  <1> DEFINE std == [n \in 0..1 |-> n]
  <1>1. std \in [0..1 -> Fds \cup {NULL}] /\ std[0] = FD_STDIN /\ std[1] = FD_STDOUT
    BY IdsAreNat DEF FD_STDIN, FD_STDOUT
  <1> HIDE DEF std
  <1>2. Newborn(c) = [[c EXCEPT !.state = "BLOCKED"] EXCEPT !.fd = std]
    BY DEF Newborn, std
  <1> QED
    BY <1>1, <1>2 DEF PCB

Provided(k, r, p) ==
    /\ k.procs[p].fd[0] = NULL /\ k.procs[p].fd[1] = NULL
    /\ \A q \in Pids :
          /\ r.procs[q].own = k.procs[q].own
          /\ q # p => r.procs[q].fd = k.procs[q].fd
          /\ q = p => r.procs[q].fd[0] = FD_STDIN /\ r.procs[q].fd[1] = FD_STDOUT

LEMMA ProvidedRefs ==
    ASSUME NEW k, NEW r, NEW p \in Pids, Provided(k, r, p),
           NEW x, x = <<FD_STDIN, p, 0>>, NEW y, y = <<FD_STDOUT, p, 1>>
    PROVE  Refs(r) = (Refs(k) \cup {x}) \cup {y}
  <1> DEFINE T == (Refs(k) \cup {x}) \cup {y}
  <1>1. ASSUME NEW h \in Fds, NEW q \in Pids
        PROVE  /\ <<h, q, 0>> \in Refs(r) <=> <<h, q, 0>> \in T
               /\ <<h, q, 1>> \in Refs(r) <=> <<h, q, 1>> \in T
               /\ <<h, q, 2>> \in Refs(r) <=> <<h, q, 2>> \in T
    <2>1. \A l : /\ <<h, q, l>> = x <=> (h = FD_STDIN /\ q = p /\ l = 0)
                 /\ <<h, q, l>> = y <=> (h = FD_STDOUT /\ q = p /\ l = 1)
      OBVIOUS
    <2>2. /\ r.procs[q].own = k.procs[q].own
          /\ q # p => r.procs[q].fd = k.procs[q].fd
          /\ q = p => /\ r.procs[q].fd[0] = FD_STDIN /\ r.procs[q].fd[1] = FD_STDOUT
                      /\ k.procs[q].fd[0] = NULL /\ k.procs[q].fd[1] = NULL
          /\ h # NULL
      BY IdsAreNat DEF Provided
    <2>3. /\ <<h, q, 0>> \in Refs(k) <=> k.procs[q].fd[0] = h
          /\ <<h, q, 1>> \in Refs(k) <=> k.procs[q].fd[1] = h
          /\ <<h, q, 2>> \in Refs(k) <=> h \in k.procs[q].own
          /\ <<h, q, 0>> \in Refs(r) <=> r.procs[q].fd[0] = h
          /\ <<h, q, 1>> \in Refs(r) <=> r.procs[q].fd[1] = h
          /\ <<h, q, 2>> \in Refs(r) <=> h \in r.procs[q].own
      BY InRefs
    <2> QED
      BY <2>1, <2>2, <2>3
  <1>2. Refs(r) \in SUBSET Marks /\ T \in SUBSET Marks
    BY RefsIn, IdsAreNat DEF Marks
  <1> HIDE DEF T
  <1>3. Refs(r) = T
    BY <1>1, <1>2, ByMarks
  <1> QED
    BY <1>3 DEF T

\* process_create.
LEMMA CreateGood ==
    ASSUME NEW k \in Tables, Inv(k), NEW p \in Pids, k.procs[p].state = "FREE",
           k.procs[p].at = New
    PROVE  LET r == process_create(k, p)
           IN  /\ Good(k, r) /\ Cleaner(k, r)
               /\ Moves(k, r, p, "BLOCKED", k.procs[p].own, New)
               /\ r.procs[p].fd[0] = FD_STDIN /\ r.procs[p].fd[1] = FD_STDOUT
  <1> DEFINE R == Refs(k)
             x == <<FD_STDIN, p, 0>>
             y == <<FD_STDOUT, p, 1>>
             c == Newborn(k.procs[p])
             m == [k EXCEPT !.procs[p] = c]
             one == fd_incref(m, FD_STDIN)
             r == fd_incref(one, FD_STDOUT)
  <1>1. R \in SUBSET Marks /\ Fine(k, R, {}, {}) /\ Unopened(k)
    BY RefsIn DEF Inv
  <1>2. k.procs[p].fd[0] = NULL /\ k.procs[p].fd[1] = NULL
    BY <1>1 DEF Unopened
  <1>3. FD_STDIN \in Fds /\ FD_STDOUT \in Fds /\ FD_STDIN # NULL /\ FD_STDOUT # NULL
    BY IdsAreNat
  <1>4. /\ x \in Marks /\ x \notin R /\ x[1] = FD_STDIN
        /\ y \in Marks /\ y \notin R /\ y[1] = FD_STDOUT /\ x # y
    <2>1. x \in Marks /\ y \in Marks /\ x # y /\ x[1] = FD_STDIN /\ y[1] = FD_STDOUT
      BY <1>3, IdsAreNat DEF Marks
    <2>2. x[2] = p /\ x[3] = 0 /\ y[2] = p /\ y[3] = 1
      OBVIOUS
    <2> HIDE DEF x, y
    <2>3. x \notin R
      BY <1>2, <1>3, <2>1, <2>2 DEF Refs
    <2>4. y \notin R
      BY <1>2, <1>3, <2>1, <2>2 DEF Refs
    <2> QED
      BY <2>1, <2>3, <2>4
  <1>5. process_create(k, p) = r
    <2>1. [k EXCEPT !.procs[p].state = "BLOCKED", !.procs[p].fd = [n \in 0..1 |-> n]] = m
      BY DEF Newborn, Tables
    <2> HIDE DEF m
    <2> QED
      BY <2>1 DEF process_create
  <1>6. /\ c \in PCB /\ c.state = "BLOCKED" /\ c.own = k.procs[p].own /\ c.at = New
        /\ c.fd[0] = FD_STDIN /\ c.fd[1] = FD_STDOUT
    BY TableTypes, NewbornIs
  <1> HIDE DEF c, x, y
  <1>7. Becomes(k, m, p, c)
    BY <1>6, SetProc
  <1> HIDE DEF m
  <1>8. /\ m \in Tables /\ m.pipes = k.pipes /\ m.fds = k.fds
        /\ m.procs[p] = c /\ \A q \in Pids \ {p} : m.procs[q] = k.procs[q]
    BY <1>7 DEF Becomes
  <1>9. SameSleepers(k, m)
    BY <1>6, <1>8, PlacesIn DEF SameSleepers, Asleep
  <1>10. Refs(m) = (R \cup {x}) \cup {y}
    <2>1. Provided(k, m, p)
      BY <1>2, <1>6, <1>8 DEF Provided
    <2>2. x = <<FD_STDIN, p, 0>> /\ y = <<FD_STDOUT, p, 1>>
      BY DEF x, y
    <2> QED
      BY <2>1, <2>2, ProvidedRefs
  <1> HIDE DEF R, one, r
  <1>11. Fine(m, R, {}, {}) /\ Cleaner(k, m)
    BY <1>1, <1>8, <1>9, ProcsFine
  <1>12. /\ Fine(m, R, {FD_STDIN}, {}) /\ m.fds[FD_STDIN].type # "NONE"
         /\ m.fds[FD_STDOUT].type # "NONE"
    BY <1>11, FineWider DEF Fine, Terminals
  <1>13. Fine(one, R \cup {x}, {}, {}) /\ Around(m, one) /\ SameKinds(m, one)
    BY <1>1, <1>3, <1>4, <1>8, <1>12, IncFine DEF one
  <1>14. /\ Fine(one, R \cup {x}, {FD_STDOUT}, {}) /\ one.fds[FD_STDOUT].type # "NONE"
         /\ one \in Tables /\ R \cup {x} \in SUBSET Marks /\ y \notin R \cup {x}
    BY <1>1, <1>3, <1>4, <1>12, <1>13, FineWider DEF SameKinds, Around
  <1>15. Fine(r, (R \cup {x}) \cup {y}, {}, {}) /\ Around(one, r)
    BY <1>3, <1>4, <1>14, IncFine DEF r
  <1>16. Around(m, r) /\ r \in Tables
    BY <1>13, <1>15, AroundTrans DEF Around
  <1>17. Refs(r) = Refs(m)
    BY <1>16, SameRefs DEF Around, Unmoved, SameHolds
  <1>18. Unopened(r)
    BY <1>1, <1>6, <1>8, <1>16 DEF Around, Unmoved, Unopened
  <1>19. Cleaner(k, r) /\ StaysClean(k, r)
    BY <1>11, <1>16 DEF Around, Cleaner, StaysClean
  <1>20. ~Sleeps(m, p)
    BY <1>6, <1>8, <1>11, AwakeIsOut DEF Fine
  <1>21. r.procs[p] = c
    BY <1>8, <1>16, <1>20 DEF Around, Unmoved
  <1>22. \A q \in Pids \ {p} : Rose(k, r, q)
    <2>1. \A q \in Pids : Sleeps(m, q) => Sleeps(k, q)
      BY <1>8 DEF Sleeps
    <2>2. \A q \in Pids : Rose(m, r, q)
      BY <1>16, UnmovedRose DEF Around
    <2> QED
      BY <1>8, <2>1, <2>2 DEF Rose
  <1>23. Moves(k, r, p, "BLOCKED", k.procs[p].own, New)
    BY <1>6, <1>21, <1>22 DEF Moves
  <1> QED
    BY <1>5, <1>6, <1>10, <1>15, <1>16, <1>17, <1>18, <1>19, <1>21, <1>23 DEF Good, Inv

\* The parent lets it start.
LEMMA StartGood ==
    ASSUME NEW k \in Tables, Inv(k), NEW p \in Pids, k.procs[p].state = "BLOCKED",
           k.procs[p].at = New
    PROVE  Good(k, [k EXCEPT !.procs[p] = [k.procs[p] EXCEPT !.state = "READY", !.at = Nowhere]])
  <1> DEFINE R == Refs(k)
             c == [k.procs[p] EXCEPT !.state = "READY", !.at = Nowhere]
             r == [k EXCEPT !.procs[p] = c]
  <1>1. R \in SUBSET Marks /\ Fine(k, R, {}, {}) /\ Unopened(k)
    BY RefsIn DEF Inv
  <1>2. /\ c \in PCB /\ c.state = "READY" /\ c.own = k.procs[p].own /\ c.fd = k.procs[p].fd
    <2>1. k.procs[p] \in PCB
      BY TableTypes
    <2> QED
      BY <2>1, PlacesIn DEF PCB
  <1> HIDE DEF c
  <1>3. Becomes(k, r, p, c)
    BY <1>2, SetProc
  <1> HIDE DEF r
  <1>4. /\ r \in Tables /\ r.pipes = k.pipes /\ r.fds = k.fds
        /\ r.procs[p] = c /\ \A q \in Pids \ {p} : r.procs[q] = k.procs[q]
    BY <1>3 DEF Becomes
  <1>5. SameSleepers(k, r)
    BY <1>2, <1>4, PlacesIn DEF SameSleepers, Asleep
  <1>6. Fine(r, R, {}, {}) /\ Cleaner(k, r)
    <2> HIDE DEF R
    <2> QED
      BY <1>1, <1>4, <1>5, ProcsFine
  <1>7. Refs(r) = R
    BY <1>2, <1>4, SameRefs DEF SameHolds
  <1>8. Unopened(r)
    BY <1>1, <1>2, <1>4 DEF Unopened
  <1> QED
    BY <1>4, <1>6, <1>7, <1>8, CleanerStays DEF Good, Inv, r, c

-----------------------------------------------------------------------------
(***************************************************************************)
(* Reading and writing.                                                    *)
(***************************************************************************)

\* The first of a queue wakes up.
LEMMA WakeFirst ==
    ASSUME NEW k \in Tables, NEW R \in SUBSET Marks, Fine(k, R, {}, {}), NEW i \in PipeIds,
           NEW s \in Sides, Line(k.pipes[i], s) # <<>>,
           NEW d \in Pipe, NEW r, Effect(k, r, i, d, {Head(Line(k.pipes[i], s))}),
           Line(d, s) = Tail(Line(k.pipes[i], s)),
           \A t \in Sides \ {s} : Line(d, t) = Line(k.pipes[i], t),
           HopeKept(k.pipes[i], d), \A t \in Types : Ends(d, t) = Ends(k.pipes[i], t)
    PROVE  Fine(r, R, {}, {}) /\ Around(k, r)
  <1> DEFINE c == k.pipes[i]
             h == Head(Line(c, s))
  <1>1. Agree(k, {}) /\ Hopes(k)
    BY DEF Fine
  <1>2. c \in Pipe /\ Line(c, s) \in Seq(Pids) /\ Distinct(Line(c, s))
    BY <1>1, TableTypes, LineIn DEF Agree
  <1>3. /\ h \in Elements(Line(c, s)) /\ h \in Pids
        /\ Distinct(Tail(Line(c, s))) /\ Elements(Tail(Line(c, s))) = Elements(Line(c, s)) \ {h}
    BY <1>2, TailQueue
  <1> HIDE DEF h
  <1>4. /\ r \in Tables /\ r.pipes[i] = d /\ \A j \in PipeIds \ {i} : r.pipes[j] = k.pipes[j]
        /\ r.fds = k.fds /\ Woken(k, r, {h})
    BY DEF Effect, h
  <1>5. ASSUME NEW j \in PipeIds, NEW t \in Sides
        PROVE  /\ Distinct(Line(r.pipes[j], t))
               /\ Elements(Line(r.pipes[j], t)) = Elements(Line(k.pipes[j], t)) \ {h}
    <2>1. CASE j = i /\ t = s
      BY <1>3, <1>4, <2>1
    <2>2. CASE j # i \/ t # s
      <3>1. Line(r.pipes[j], t) = Line(k.pipes[j], t)
        BY <1>4, <2>2
      <3>2. h \notin Elements(Line(k.pipes[j], t))
        BY <1>1, <1>3, <2>2, OnePlace
      <3> QED
        BY <1>1, <3>1, <3>2 DEF Agree
    <2> QED
      BY <2>1, <2>2
  <1>6. Shrunk(k, r)
    <2>1. Sleeps(k, h) /\ {h} \in SUBSET Pids
      BY <1>3 DEF Sleeps
    <2> QED
      BY <1>4, <1>5, <2>1 DEF Shrunk
  <1>7. Hopes(r)
    <2>1. /\ d.wait_readers # <<>> => c.wait_readers # <<>>
          /\ d.wait_writers # <<>> => c.wait_writers # <<>>
      <3>1. \A t \in Sides : Line(d, t) # <<>> => Line(c, t) # <<>>
        OBVIOUS
      <3> QED
        BY <3>1 DEF Line, Sides
    <2>2. Hope(c)
      BY <1>1 DEF Hopes
    <2>3. Hope(d)
      BY <2>1, <2>2 DEF Hope, HopeKept
    <2> QED
      BY <1>1, <1>4, <2>3 DEF Hopes
  <1>8. SameEnds(k, r) /\ Cleaner(k, r)
    <2>1. \A j \in PipeIds : /\ r.pipes[j].in_use = k.pipes[j].in_use
                             /\ \A t \in Types : Ends(r.pipes[j], t) = Ends(k.pipes[j], t)
      BY <1>4 DEF HopeKept
    <2> QED
      BY <2>1 DEF SameEnds, Cleaner, Clean, Ends, Types
  <1> QED
    BY <1>4, <1>6, <1>7, <1>8, ShrunkFine DEF Around

LEMMA WakeWriterFine ==
    ASSUME NEW k \in Tables, NEW R \in SUBSET Marks, Fine(k, R, {}, {}), NEW i \in PipeIds
    PROVE  Fine(pipe_wake_writer(k, i), R, {}, {}) /\ Around(k, pipe_wake_writer(k, i))
  <1> DEFINE c == k.pipes[i]
             d == [c EXCEPT !.wait_writers = Tail(c.wait_writers)]
             m == [k EXCEPT !.pipes[i] = d]
             W == {Head(c.wait_writers)}
             r == pipe_wake_writer(k, i)
  <1>1. CASE c.wait_writers = <<>>
    BY <1>1, AroundSelf DEF pipe_wake_writer
  <1>2. CASE c.wait_writers # <<>>
    <2>1. r = process_unblock(m, W)
      BY <1>2 DEF pipe_wake_writer
    <2>2. c \in Pipe /\ c.wait_writers \in Seq(Pids)
      BY TableTypes, PipeFields
    <2>3. Tail(c.wait_writers) \in Seq(Pids)
      BY <1>2, <2>2
    <2>4. /\ d \in Pipe
          /\ PipeIs(d, c.open_read, c.open_write, c.in_use, c.name, c.eof,
                    c.wait_readers, Tail(c.wait_writers))
      BY <2>2, <2>3, LineSet
    <2> HIDE DEF d, W, r
    <2>5. Effect(k, m, i, d, {})
      BY <2>4, SetPipe
    <2>6. m \in Tables /\ m.pipes[i] = d
      BY <2>5 DEF Effect
    <2> HIDE DEF m
    <2>7. Effect(m, r, i, d, W)
      BY <2>1, <2>6, Wakes
    <2>8. Effect(k, r, i, d, {} \cup W)
      BY <2>5, <2>7, Then
    <2>9. "writers" \in Sides /\ Line(c, "writers") = c.wait_writers
      BY DEF Sides, Line
    <2>10. Effect(k, r, i, d, {Head(Line(c, "writers"))})
      BY <2>8, <2>9 DEF W
    <2>11. /\ Line(d, "writers") = Tail(Line(c, "writers"))
           /\ \A t \in Sides \ {"writers"} : Line(d, t) = Line(c, t)
           /\ HopeKept(c, d) /\ \A t \in Types : Ends(d, t) = Ends(c, t)
      BY <2>4 DEF PipeIs, Line, Sides, HopeKept, Ends
    <2>12. Line(c, "writers") # <<>>
      BY <1>2, <2>9
    <2> HIDE DEF c
    <2>13. Fine(r, R, {}, {}) /\ Around(k, r)
      BY <2>4, <2>9, <2>10, <2>11, <2>12, WakeFirst DEF c
    <2> QED
      BY <2>13 DEF r
  <1> QED
    BY <1>1, <1>2

LEMMA WakeReaderFine ==
    ASSUME NEW k \in Tables, NEW R \in SUBSET Marks, Fine(k, R, {}, {}), NEW i \in PipeIds
    PROVE  Fine(pipe_wake_reader(k, i), R, {}, {}) /\ Around(k, pipe_wake_reader(k, i))
  <1> DEFINE c == k.pipes[i]
             d == [c EXCEPT !.wait_readers = Tail(c.wait_readers)]
             m == [k EXCEPT !.pipes[i] = d]
             W == {Head(c.wait_readers)}
             r == pipe_wake_reader(k, i)
  <1>1. CASE c.wait_readers = <<>>
    BY <1>1, AroundSelf DEF pipe_wake_reader
  <1>2. CASE c.wait_readers # <<>>
    <2>1. r = process_unblock(m, W)
      BY <1>2 DEF pipe_wake_reader
    <2>2. c \in Pipe /\ c.wait_readers \in Seq(Pids)
      BY TableTypes, PipeFields
    <2>3. Tail(c.wait_readers) \in Seq(Pids)
      BY <1>2, <2>2
    <2>4. /\ d \in Pipe
          /\ PipeIs(d, c.open_read, c.open_write, c.in_use, c.name, c.eof,
                    Tail(c.wait_readers), c.wait_writers)
      BY <2>2, <2>3, LineSet
    <2> HIDE DEF d, W, r
    <2>5. Effect(k, m, i, d, {})
      BY <2>4, SetPipe
    <2>6. m \in Tables /\ m.pipes[i] = d
      BY <2>5 DEF Effect
    <2> HIDE DEF m
    <2>7. Effect(m, r, i, d, W)
      BY <2>1, <2>6, Wakes
    <2>8. Effect(k, r, i, d, {} \cup W)
      BY <2>5, <2>7, Then
    <2>9. "readers" \in Sides /\ Line(c, "readers") = c.wait_readers
      BY DEF Sides, Line
    <2>10. Effect(k, r, i, d, {Head(Line(c, "readers"))})
      BY <2>8, <2>9 DEF W
    <2>11. /\ Line(d, "readers") = Tail(Line(c, "readers"))
           /\ \A t \in Sides \ {"readers"} : Line(d, t) = Line(c, t)
           /\ HopeKept(c, d) /\ \A t \in Types : Ends(d, t) = Ends(c, t)
      BY <2>4 DEF PipeIs, Line, Sides, HopeKept, Ends
    <2>12. Line(c, "readers") # <<>>
      BY <1>2, <2>9
    <2> HIDE DEF c
    <2>13. Fine(r, R, {}, {}) /\ Around(k, r)
      BY <2>4, <2>9, <2>10, <2>11, <2>12, WakeFirst DEF c
    <2> QED
      BY <2>13 DEF r
  <1> QED
    BY <1>1, <1>2

\* From k to r process p goes to sleep at pipe i.
SleepStep(k, r, p, i, s) ==
    /\ r \in Tables /\ r.fds = k.fds
    /\ \A j \in PipeIds \ {i} : r.pipes[j] = k.pipes[j]
    /\ Line(r.pipes[i], s) = Append(Line(k.pipes[i], s), p)
    /\ \A t \in Sides \ {s} : Line(r.pipes[i], t) = Line(k.pipes[i], t)
    /\ \A t \in Types : Ends(r.pipes[i], t) = Ends(k.pipes[i], t)
    /\ r.pipes[i].in_use = k.pipes[i].in_use /\ r.pipes[i].name = k.pipes[i].name
    /\ r.pipes[i].eof = k.pipes[i].eof
    /\ r.procs[p].state = "BLOCKED" /\ r.procs[p].at = <<i, s>>
    /\ r.procs[p].fd = k.procs[p].fd /\ r.procs[p].own = k.procs[p].own
    /\ \A q \in Pids \ {p} : r.procs[q] = k.procs[q]

Asleeping(c, i, s) == [[c EXCEPT !.state = "BLOCKED"] EXCEPT !.at = <<i, s>>]

LEMMA AsleepingIs ==
    ASSUME NEW c \in PCB, NEW i \in PipeIds, NEW s \in Sides
    PROVE  /\ Asleeping(c, i, s) \in PCB
           /\ PCBIs(Asleeping(c, i, s), "BLOCKED", c.fd, c.own, <<i, s>>)
  BY PlacesIn DEF Asleeping, PCB, PCBIs

FallsAsleep(k, p, i, s) ==
    [k EXCEPT !.procs[p].state = "BLOCKED", !.procs[p].at = <<i, s>>]
WithProc(k, p, c) == [k EXCEPT !.procs[p] = c]

LEMMA AsleepingSet ==
    ASSUME NEW k \in Tables, NEW p \in Pids, NEW i, NEW s
    PROVE  FallsAsleep(k, p, i, s) = WithProc(k, p, Asleeping(k.procs[p], i, s))
  BY DEF Asleeping, Tables, FallsAsleep, WithProc

\* There is room in the queue.
LEMMA Pushed ==
    ASSUME NEW q \in Seq(Pids), Distinct(q), NEW p \in Pids, p \notin Elements(q)
    PROVE  queue_push(q, p) = Append(q, p)
  <1>1. Len(q) < Cardinality(Pids)
    BY RoomFor, PipesAssumption
  <1>2. Cardinality(Pids) \in Nat /\ Len(q) \in Nat
    BY FS_CardinalityType, PipesAssumption
  <1>3. Len(q) < MAX_PROCESSES
    BY <1>1, <1>2, PipesAssumption
  <1> QED
    BY <1>2, <1>3, PipesAssumption DEF queue_push

LEMMA SleepFine ==
    ASSUME NEW k \in Tables, NEW R \in SUBSET Marks, Fine(k, R, {}, {}), NEW i \in PipeIds,
           NEW s \in Sides, NEW p \in Pids, k.procs[p].state = "READY", NEW r,
           SleepStep(k, r, p, i, s), Hope(r.pipes[i]),
           NEW x \in EndRefs(k, R, i, EndOf(s)), x[2] = p
    PROVE  Fine(r, R, {}, {}) /\ Cleaner(k, r)
  <1>1. /\ Counted(k, R) /\ Live(k, R, {}) /\ Agree(k, {}) /\ Anchored(k, R) /\ Hopes(k)
        /\ Terminals(k)
    BY DEF Fine
  <1>2. /\ r \in Tables /\ r.fds = k.fds
        /\ \A j \in PipeIds \ {i} : r.pipes[j] = k.pipes[j]
        /\ r.procs[p].state = "BLOCKED" /\ r.procs[p].at = <<i, s>>
        /\ \A q \in Pids \ {p} : r.procs[q] = k.procs[q]
    BY DEF SleepStep
  <1>3. SameEnds(k, r) /\ Cleaner(k, r)
    <2>1. \A j \in PipeIds : /\ r.pipes[j].in_use = k.pipes[j].in_use
                             /\ \A t \in Types : Ends(r.pipes[j], t) = Ends(k.pipes[j], t)
      BY DEF SleepStep
    <2> QED
      BY <2>1 DEF SameEnds, Cleaner, Clean, Ends, Types
  <1>4. Counted(r, R) /\ \A j, t : EndRefs(r, R, j, t) = EndRefs(k, R, j, t)
    BY <1>1, <1>2, <1>3, SameCounted
  <1>5. ~Sleeps(k, p)
    BY <1>1, AwakeIsOut
  <1>6. /\ Distinct(Line(r.pipes[i], s))
        /\ Elements(Line(r.pipes[i], s)) = Elements(Line(k.pipes[i], s)) \cup {p}
    <2>1. Line(k.pipes[i], s) \in Seq(Pids) /\ Distinct(Line(k.pipes[i], s))
      BY <1>1, TableTypes, LineIn DEF Agree
    <2>2. p \notin Elements(Line(k.pipes[i], s))
      BY <1>5 DEF Sleeps
    <2> QED
      BY <2>1, <2>2, AppendQueue DEF SleepStep
  <1>7. \A j \in PipeIds, t \in Sides : (j # i \/ t # s) => Line(r.pipes[j], t) = Line(k.pipes[j], t)
    BY DEF SleepStep
  <1>8. Agree(r, {})
    <2> SUFFICES ASSUME NEW j \in PipeIds, NEW t \in Sides
                 PROVE  /\ Distinct(Line(r.pipes[j], t))
                        /\ Elements(Line(r.pipes[j], t)) = {q \in Pids \ {} : Asleep(r, q, j, t)}
      BY DEF Agree
    <2>1. /\ Distinct(Line(k.pipes[j], t))
          /\ Elements(Line(k.pipes[j], t)) = {q \in Pids \ {} : Asleep(k, q, j, t)}
      BY <1>1 DEF Agree
    <2>2. \A q \in Pids \ {p} : Asleep(r, q, j, t) <=> Asleep(k, q, j, t)
      BY <1>2 DEF Asleep
    <2>3. ~Asleep(k, p, j, t) /\ (Asleep(r, p, j, t) <=> (j = i /\ t = s))
      BY <1>2 DEF Asleep
    <2>4. CASE j = i /\ t = s
      BY <1>6, <2>1, <2>2, <2>3, <2>4
    <2>5. CASE j # i \/ t # s
      BY <1>7, <2>1, <2>2, <2>3, <2>5
    <2> QED
      BY <2>4, <2>5
  <1>9. Anchored(r, R)
    <2> SUFFICES ASSUME NEW j \in PipeIds, NEW t \in Sides, NEW q \in Elements(Line(r.pipes[j], t))
                 PROVE  \E y \in EndRefs(r, R, j, EndOf(t)) : y[2] = q
      BY DEF Anchored
    <2>1. CASE q \in Elements(Line(k.pipes[j], t))
      BY <1>1, <1>4, <2>1 DEF Anchored
    <2>2. CASE q \notin Elements(Line(k.pipes[j], t))
      <3>1. q = p /\ j = i /\ t = s
        BY <1>6, <1>7, <2>2
      <3> QED
        BY <1>4, <3>1
    <2> QED
      BY <2>1, <2>2
  <1>10. Hopes(r)
    BY <1>1, <1>2 DEF Hopes
  <1>11. Live(r, R, {}) /\ Terminals(r)
    BY <1>1, <1>2 DEF Live, Terminals
  <1> QED
    BY <1>3, <1>4, <1>8, <1>9, <1>10, <1>11 DEF Fine

LEMMA SleepReadingIs ==
    ASSUME NEW k \in Tables, NEW i \in PipeIds, NEW p \in Pids, ~Sleeps(k, p), Agree(k, {})
    PROVE  SleepStep(k, sleep_reading(k, p, i), p, i, "readers")
  <1> DEFINE c == k.pipes[i]
             q == c.wait_readers
             d == [c EXCEPT !.wait_readers = Append(q, p)]
             m == [k EXCEPT !.pipes[i] = d]
             e == Asleeping(k.procs[p], i, "readers")
             r == [m EXCEPT !.procs[p] = e]
  <1>1. "readers" \in Sides /\ q = Line(c, "readers")
    BY DEF Sides, Line
  <1>2. c \in Pipe /\ q \in Seq(Pids) /\ Distinct(q) /\ p \notin Elements(q)
    BY <1>1, TableTypes, PipeFields DEF Agree, Sleeps
  <1>3. queue_push(q, p) = Append(q, p) /\ Append(q, p) \in Seq(Pids)
    BY <1>2, Pushed, AppendQueue
  <1>4. /\ d \in Pipe
        /\ PipeIs(d, c.open_read, c.open_write, c.in_use, c.name, c.eof,
                  Append(c.wait_readers, p), c.wait_writers)
    BY <1>2, <1>3, LineSet
  <1>5. e \in PCB /\ PCBIs(e, "BLOCKED", k.procs[p].fd, k.procs[p].own, <<i, "readers">>)
    BY <1>1, TableTypes, AsleepingIs
  <1>6. sleep_reading(k, p, i) = r
    <2> DEFINE n == [k EXCEPT !.pipes[i].wait_readers = queue_push(@, p)]
    <2>1. n = m
      BY <1>3
    <2>2. m \in Tables /\ m.procs[p] = k.procs[p]
      <3> HIDE DEF d
      <3> QED
        BY <1>4, SetPipe DEF Effect, Tables
    <2>3. sleep_reading(k, p, i) = FallsAsleep(n, p, i, "readers")
      BY DEF sleep_reading, FallsAsleep
    <2>4. r = WithProc(m, p, e)
      BY DEF WithProc
    <2> HIDE DEF m, n, e, r
    <2>5. FallsAsleep(m, p, i, "readers") = WithProc(m, p, Asleeping(m.procs[p], i, "readers"))
      BY <2>2, AsleepingSet
    <2>6. Asleeping(m.procs[p], i, "readers") = e
      BY <2>2 DEF e
    <2> QED
      BY <2>1, <2>3, <2>4, <2>5, <2>6
  <1> HIDE DEF d, e
  <1>7. Effect(k, m, i, d, {})
    BY <1>4, SetPipe
  <1>8. m \in Tables /\ m.procs = k.procs
    BY <1>7 DEF Effect, Tables
  <1> HIDE DEF m
  <1>9. Becomes(m, r, p, e)
    BY <1>5, <1>8, SetProc
  <1> HIDE DEF r
  <1>10. /\ r \in Tables /\ r.fds = k.fds /\ r.pipes[i] = d
         /\ \A j \in PipeIds \ {i} : r.pipes[j] = k.pipes[j]
         /\ r.procs[p] = e /\ \A l \in Pids \ {p} : r.procs[l] = k.procs[l]
    BY <1>7, <1>8, <1>9 DEF Effect, Becomes
  <1>11. SleepStep(k, r, p, i, "readers")
    BY <1>4, <1>5, <1>10 DEF SleepStep, PipeIs, PCBIs, Line, Sides, Ends
  <1> QED
    BY <1>6, <1>11

LEMMA SleepWritingIs ==
    ASSUME NEW k \in Tables, NEW i \in PipeIds, NEW p \in Pids, ~Sleeps(k, p), Agree(k, {})
    PROVE  SleepStep(k, sleep_writing(k, p, i), p, i, "writers")
  <1> DEFINE c == k.pipes[i]
             q == c.wait_writers
             d == [c EXCEPT !.wait_writers = Append(q, p)]
             m == [k EXCEPT !.pipes[i] = d]
             e == Asleeping(k.procs[p], i, "writers")
             r == [m EXCEPT !.procs[p] = e]
  <1>1. "writers" \in Sides /\ q = Line(c, "writers")
    BY DEF Sides, Line
  <1>2. c \in Pipe /\ q \in Seq(Pids) /\ Distinct(q) /\ p \notin Elements(q)
    BY <1>1, TableTypes, PipeFields DEF Agree, Sleeps
  <1>3. queue_push(q, p) = Append(q, p) /\ Append(q, p) \in Seq(Pids)
    BY <1>2, Pushed, AppendQueue
  <1>4. /\ d \in Pipe
        /\ PipeIs(d, c.open_read, c.open_write, c.in_use, c.name, c.eof,
                  c.wait_readers, Append(c.wait_writers, p))
    BY <1>2, <1>3, LineSet
  <1>5. e \in PCB /\ PCBIs(e, "BLOCKED", k.procs[p].fd, k.procs[p].own, <<i, "writers">>)
    BY <1>1, TableTypes, AsleepingIs
  <1>6. sleep_writing(k, p, i) = r
    <2> DEFINE n == [k EXCEPT !.pipes[i].wait_writers = queue_push(@, p)]
    <2>1. n = m
      BY <1>3
    <2>2. m \in Tables /\ m.procs[p] = k.procs[p]
      <3> HIDE DEF d
      <3> QED
        BY <1>4, SetPipe DEF Effect, Tables
    <2>3. sleep_writing(k, p, i) = FallsAsleep(n, p, i, "writers")
      BY DEF sleep_writing, FallsAsleep
    <2>4. r = WithProc(m, p, e)
      BY DEF WithProc
    <2> HIDE DEF m, n, e, r
    <2>5. FallsAsleep(m, p, i, "writers") = WithProc(m, p, Asleeping(m.procs[p], i, "writers"))
      BY <2>2, AsleepingSet
    <2>6. Asleeping(m.procs[p], i, "writers") = e
      BY <2>2 DEF e
    <2> QED
      BY <2>1, <2>3, <2>4, <2>5, <2>6
  <1> HIDE DEF d, e
  <1>7. Effect(k, m, i, d, {})
    BY <1>4, SetPipe
  <1>8. m \in Tables /\ m.procs = k.procs
    BY <1>7 DEF Effect, Tables
  <1> HIDE DEF m
  <1>9. Becomes(m, r, p, e)
    BY <1>5, <1>8, SetProc
  <1> HIDE DEF r
  <1>10. /\ r \in Tables /\ r.fds = k.fds /\ r.pipes[i] = d
         /\ \A j \in PipeIds \ {i} : r.pipes[j] = k.pipes[j]
         /\ r.procs[p] = e /\ \A l \in Pids \ {p} : r.procs[l] = k.procs[l]
    BY <1>7, <1>8, <1>9 DEF Effect, Becomes
  <1>11. SleepStep(k, r, p, i, "writers")
    BY <1>4, <1>5, <1>10 DEF SleepStep, PipeIs, PCBIs, Line, Sides, Ends
  <1> QED
    BY <1>6, <1>11

LEMMA Wraps ==
    ASSUME NEW a \in Int
    PROVE  a % PIPE_BUFFER_SIZE \in Cells
  BY PipesAssumption DEF Cells

\* Bytes leave the buffer.
LEMMA BytesOut ==
    ASSUME NEW c \in Pipe, NEW n \in Nat
    PROVE  LET m == Least(n, c.count)
               d == [[c EXCEPT !.read_idx = (c.read_idx + m) % PIPE_BUFFER_SIZE]
                         EXCEPT !.count = c.count - m]
           IN  /\ d \in Pipe
               /\ PipeIs(d, c.open_read, c.open_write, c.in_use, c.name, c.eof,
                         c.wait_readers, c.wait_writers)
  <1> DEFINE m == Least(n, c.count)
             a == (c.read_idx + m) % PIPE_BUFFER_SIZE
             b == c.count - m
  <1>1. c.read_idx \in Cells /\ c.count \in 0..PIPE_BUFFER_SIZE
    BY DEF Pipe
  <1>2. m \in Nat /\ m <= c.count /\ c.read_idx \in Nat
    BY <1>1, PipesAssumption DEF Least, Cells
  <1>3. b \in 0..PIPE_BUFFER_SIZE
    BY <1>1, <1>2, PipesAssumption
  <1>4. a \in Cells
    BY <1>2, Wraps
  <1> HIDE DEF a, b
  <1>5. /\ [[c EXCEPT !.read_idx = a] EXCEPT !.count = b] \in Pipe
        /\ PipeIs([[c EXCEPT !.read_idx = a] EXCEPT !.count = b], c.open_read, c.open_write,
                  c.in_use, c.name, c.eof, c.wait_readers, c.wait_writers)
    BY <1>3, <1>4 DEF Pipe, PipeIs
  <1> QED
    BY <1>5 DEF a, b

\* Bytes enter the buffer.
LEMMA BytesIn ==
    ASSUME NEW c \in Pipe, NEW buf \in Seq(Bytes), NEW m \in Nat,
           m <= Len(buf), m <= PIPE_BUFFER_SIZE - c.count
    PROVE  LET d == [[[c EXCEPT !.buffer = stored(c, buf, m)]
                         EXCEPT !.write_idx = (c.write_idx + m) % PIPE_BUFFER_SIZE]
                         EXCEPT !.count = c.count + m]
           IN  /\ d \in Pipe
               /\ PipeIs(d, c.open_read, c.open_write, c.in_use, c.name, c.eof,
                         c.wait_readers, c.wait_writers)
  <1> DEFINE a == (c.write_idx + m) % PIPE_BUFFER_SIZE
             b == c.count + m
             e == stored(c, buf, m)
             d == [[[c EXCEPT !.buffer = e] EXCEPT !.write_idx = a] EXCEPT !.count = b]
  <1>1. c.write_idx \in Cells /\ c.count \in 0..PIPE_BUFFER_SIZE /\ c.buffer \in [Cells -> Bytes]
    BY DEF Pipe
  <1>2. c.write_idx \in Nat /\ b \in 0..PIPE_BUFFER_SIZE
    BY <1>1, PipesAssumption DEF Cells
  <1>3. a \in Cells
    BY <1>2, Wraps
  <1>4. e \in [Cells -> Bytes]
    <2>1. ASSUME NEW h \in Cells
          PROVE  LET nth == (h - c.write_idx + PIPE_BUFFER_SIZE) % PIPE_BUFFER_SIZE
                 IN  (IF nth < m THEN buf[nth + 1] ELSE c.buffer[h]) \in Bytes
      <3> DEFINE nth == (h - c.write_idx + PIPE_BUFFER_SIZE) % PIPE_BUFFER_SIZE
      <3>1. h - c.write_idx + PIPE_BUFFER_SIZE \in Int
        BY <1>2, PipesAssumption DEF Cells
      <3>2. nth \in Nat
        <4>1. nth \in Cells
          BY <3>1, Wraps
        <4> HIDE DEF nth
        <4> QED
          BY <4>1, PipesAssumption DEF Cells
      <3> HIDE DEF nth
      <3>3. nth < m => nth + 1 \in 1..Len(buf)
        BY <3>2
      <3>4. nth < m => buf[nth + 1] \in Bytes
        BY <3>3
      <3>5. c.buffer[h] \in Bytes
        BY <1>1
      <3> QED
        BY <3>4, <3>5 DEF nth
    <2> QED
      BY <2>1 DEF stored
  <1> HIDE DEF a, b, e
  <1>5. /\ d \in Pipe
        /\ PipeIs(d, c.open_read, c.open_write, c.in_use, c.name, c.eof,
                  c.wait_readers, c.wait_writers)
    BY <1>2, <1>3, <1>4 DEF Pipe, PipeIs
  <1> QED
    BY <1>5 DEF a, b, e

\* The contents of a pipe are changed.
LEMMA ContentsFine ==
    ASSUME NEW k \in Tables, NEW R \in SUBSET Marks, Fine(k, R, {}, {}), NEW i \in PipeIds,
           NEW c, c = k.pipes[i], NEW d \in Pipe,
           PipeIs(d, c.open_read, c.open_write, c.in_use, c.name, c.eof,
                  c.wait_readers, c.wait_writers),
           NEW r, Effect(k, r, i, d, {})
    PROVE  Fine(r, R, {}, {}) /\ Around(k, r)
  <1>1. Agree(k, {}) /\ Hopes(k)
    BY DEF Fine
  <1>2. /\ \A t \in Types : Ends(d, t) = Ends(k.pipes[i], t)
        /\ k.pipes[i].in_use => d.in_use
        /\ \A s \in Sides : Line(d, s) = Line(k.pipes[i], s)
    BY DEF PipeIs, Ends, Line
  <1>3. Hope(d)
    BY <1>1 DEF Hopes, Hope, PipeIs
  <1>4. \A s \in Sides : /\ Distinct(Line(d, s))
                         /\ Elements(Line(d, s)) = Elements(Line(k.pipes[i], s))
    BY <1>1, <1>2 DEF Agree
  <1>5. Fine(r, R, {}, {}) /\ Unmoved(k, r)
    BY <1>2, <1>3, <1>4, PipeFine
  <1>6. /\ r \in Tables /\ r.pipes[i] = d /\ \A j \in PipeIds \ {i} : r.pipes[j] = k.pipes[j]
    BY DEF Effect
  <1>7. Cleaner(k, r)
    BY <1>6 DEF Cleaner, Clean, PipeIs
  <1> QED
    BY <1>5, <1>6, <1>7 DEF Around

\* From k to r process p, which runs, goes on or falls asleep at a pipe.
Transfers(k, r, p) ==
    /\ r.procs[p].fd = k.procs[p].fd /\ r.procs[p].own = k.procs[p].own
    /\ \/ r.procs[p] = k.procs[p]
       \/ r.procs[p].state = "BLOCKED" /\ r.procs[p].at \in PipeIds \X Sides
    /\ \A q \in Pids \ {p} : Rose(k, r, q)
    /\ Cleaner(k, r)

\* A transfer that wakes somebody else.
LEMMA AroundTransfers ==
    ASSUME NEW k \in Tables, Inv(k), NEW p \in Pids, k.procs[p].state = "READY",
           NEW r, Around(k, r)
    PROVE  Transfers(k, r, p)
  <1>1. ~Sleeps(k, p)
    BY AwakeIsOut DEF Inv, Fine
  <1>2. r.procs[p] = k.procs[p]
    BY <1>1 DEF Around, Unmoved
  <1>3. \A q \in Pids : Rose(k, r, q)
    BY UnmovedRose DEF Around
  <1> QED
    BY <1>2, <1>3 DEF Transfers, Around

\* A transfer that sleeps.
LEMMA SleepTransfers ==
    ASSUME NEW k, NEW r, NEW p \in Pids, NEW i \in PipeIds, NEW s \in Sides,
           SleepStep(k, r, p, i, s)
    PROVE  Transfers(k, r, p)
  <1>1. Cleaner(k, r)
    <2>1. \A j \in PipeIds : /\ r.pipes[j].in_use = k.pipes[j].in_use
                             /\ \A t \in Types : Ends(r.pipes[j], t) = Ends(k.pipes[j], t)
      BY DEF SleepStep
    <2> QED
      BY <2>1 DEF Cleaner, Clean, Ends, Types
  <1> QED
    BY <1>1 DEF SleepStep, Transfers, Rose

\* Between two calls only what Around allows has happened.
LEMMA AroundGood ==
    ASSUME NEW k \in Tables, Inv(k), NEW r, Fine(r, Refs(k), {}, {}), Around(k, r)
    PROVE  Good(k, r)
  <1>1. Refs(r) = Refs(k)
    BY SameRefs DEF Around, Unmoved, SameHolds
  <1>2. Unopened(r)
    BY DEF Inv, Unopened, Around, Unmoved
  <1> QED
    BY <1>1, <1>2, CleanerStays DEF Good, Inv, Around

\* Somebody who sleeps at a pipe keeps what it holds.
LEMMA SleepGood ==
    ASSUME NEW k \in Tables, Inv(k), NEW i \in PipeIds, NEW s \in Sides, NEW p \in Pids,
           k.procs[p].state = "READY", NEW r, SleepStep(k, r, p, i, s), Hope(r.pipes[i]),
           NEW x \in EndRefs(k, Refs(k), i, EndOf(s)), x[2] = p
    PROVE  Good(k, r)
  <1>1. Refs(k) \in SUBSET Marks /\ Fine(k, Refs(k), {}, {}) /\ Unopened(k)
    BY RefsIn DEF Inv
  <1>2. Fine(r, Refs(k), {}, {}) /\ Cleaner(k, r)
    BY <1>1, SleepFine
  <1>3. Refs(r) = Refs(k)
    <2>1. SameHolds(k, r)
      BY DEF SleepStep, SameHolds
    <2> QED
      BY <2>1, SameRefs
  <1>4. Unopened(r) /\ r \in Tables
    BY <1>1 DEF Unopened, SleepStep
  <1> QED
    BY <1>2, <1>3, <1>4, CleanerStays DEF Good, Inv

LEMMA ReadGood ==
    ASSUME NEW k \in Tables, Inv(k), NEW p \in Pids, k.procs[p].state = "READY",
           NEW f \in Fds, k.fds[f].type = "READ", NEW x \in Refs(k), x[1] = f, x[2] = p,
           NEW n \in Nat
    PROVE  LET r == pipe_read(k, p, k.fds[f].data, n)
           IN  Good(k, r) /\ Transfers(k, r, p)
  <1> DEFINE R == Refs(k)
             i == k.fds[f].data
             c == k.pipes[i]
             m == Least(n, c.count)
             d == [[c EXCEPT !.read_idx = (c.read_idx + m) % PIPE_BUFFER_SIZE]
                       EXCEPT !.count = c.count - m]
             l == [k EXCEPT !.pipes[i] = d]
             r == pipe_read(k, p, i, n)
  <1>1. R \in SUBSET Marks /\ Fine(k, R, {}, {})
    BY RefsIn DEF Inv
  <1>2. i \in PipeIds
    BY <1>1 DEF Fine, Counted
  <1>3. x \in EndRefs(k, R, i, "READ")
    BY DEF EndRefs
  <1> HIDE DEF i, R
  <1>4. c \in Pipe
    BY <1>2, TableTypes
  <1>5. CASE c.count > 0
    <2>1. r = pipe_wake_writer(l, i)
      <3>1. [k EXCEPT !.pipes[i].read_idx = (@ + m) % PIPE_BUFFER_SIZE,
                      !.pipes[i].count = @ - m] = l
        BY <1>2 DEF Tables
      <3> HIDE DEF l, m
      <3> QED
        BY <1>5, <3>1 DEF pipe_read, m
    <2>2. /\ d \in Pipe
          /\ PipeIs(d, c.open_read, c.open_write, c.in_use, c.name, c.eof,
                    c.wait_readers, c.wait_writers)
      BY <1>4, BytesOut
    <2> HIDE DEF d, r
    <2>3. Effect(k, l, i, d, {})
      BY <1>2, <2>2, SetPipe
    <2> HIDE DEF l
    <2>4. Fine(l, R, {}, {}) /\ Around(k, l)
      BY <1>1, <1>2, <2>2, <2>3, ContentsFine
    <2>5. Fine(r, R, {}, {}) /\ Around(l, r)
      BY <1>1, <1>2, <2>1, <2>4, WakeWriterFine DEF Around
    <2>6. Around(k, r)
      BY <2>4, <2>5, AroundTrans
    <2> QED
      BY <2>5, <2>6, AroundGood, AroundTransfers DEF r, R, i
  <1>6. CASE ~(c.count > 0) /\ AtEnd(k, i)
    <2>1. r = k
      BY <1>6 DEF pipe_read
    <2> QED
      BY <1>1, <2>1, AroundSelf, AroundGood, AroundTransfers DEF R, i
  <1>7. CASE ~(c.count > 0) /\ ~AtEnd(k, i)
    <2>1. r = sleep_reading(k, p, i)
      BY <1>7 DEF pipe_read
    <2>2. ~Sleeps(k, p) /\ Agree(k, {})
      BY <1>1, AwakeIsOut DEF Fine
    <2> HIDE DEF r
    <2>3. SleepStep(k, r, p, i, "readers")
      BY <1>2, <2>1, <2>2, SleepReadingIs
    <2>4. Hope(r.pipes[i])
      <3>1. Hope(c)
        BY <1>1, <1>2 DEF Fine, Hopes
      <3>2. /\ r.pipes[i].name = c.name /\ r.pipes[i].eof = c.eof
            /\ r.pipes[i].open_read = c.open_read /\ r.pipes[i].open_write = c.open_write
            /\ r.pipes[i].wait_writers = c.wait_writers
        <4>1. /\ r.pipes[i].name = c.name /\ r.pipes[i].eof = c.eof
              /\ \A t \in Types : Ends(r.pipes[i], t) = Ends(c, t)
              /\ \A t \in Sides : t # "readers" => Line(r.pipes[i], t) = Line(c, t)
          BY <2>3 DEF SleepStep
        <4>2. Ends(r.pipes[i], "READ") = Ends(c, "READ") /\ Ends(r.pipes[i], "WRITE") = Ends(c, "WRITE")
          BY <4>1 DEF Types
        <4>3. Line(r.pipes[i], "writers") = Line(c, "writers")
          BY <4>1 DEF Sides
        <4> QED
          BY <4>1, <4>2, <4>3 DEF Ends, Line
      <3> QED
        BY <1>7, <3>1, <3>2 DEF Hope, AtEnd, is_named
    <2>5. "readers" \in Sides /\ EndOf("readers") = "READ"
      BY DEF Sides, EndOf
    <2> QED
      BY <1>2, <1>3, <2>3, <2>4, <2>5, SleepGood, SleepTransfers DEF r, R, i
  <1> QED
    BY <1>5, <1>6, <1>7

LEMMA WriteGood ==
    ASSUME NEW k \in Tables, Inv(k), NEW p \in Pids, k.procs[p].state = "READY",
           NEW f \in Fds, k.fds[f].type = "WRITE", NEW x \in Refs(k), x[1] = f, x[2] = p,
           NEW buf \in Seq(Bytes)
    PROVE  LET r == pipe_write(k, p, k.fds[f].data, buf)
           IN  Good(k, r) /\ Transfers(k, r, p)
  <1> DEFINE R == Refs(k)
             i == k.fds[f].data
             c == k.pipes[i]
             m == bytes_written(k, i, buf)
             d == [[[c EXCEPT !.buffer = stored(c, buf, m)]
                        EXCEPT !.write_idx = (c.write_idx + m) % PIPE_BUFFER_SIZE]
                        EXCEPT !.count = c.count + m]
             l == [k EXCEPT !.pipes[i] = d]
             r == pipe_write(k, p, i, buf)
  <1>1. R \in SUBSET Marks /\ Fine(k, R, {}, {})
    BY RefsIn DEF Inv
  <1>2. i \in PipeIds
    BY <1>1 DEF Fine, Counted
  <1>3. x \in EndRefs(k, R, i, "WRITE")
    BY DEF EndRefs
  <1> HIDE DEF i, R
  <1>4. c \in Pipe
    BY <1>2, TableTypes
  <1>5. CASE ~Refused(k, i) /\ ~WriteSleeps(k, i)
    <2>1. r = pipe_wake_reader(l, i)
      <3>1. [k EXCEPT !.pipes[i].buffer = stored(k.pipes[i], buf, m),
                      !.pipes[i].write_idx = (@ + m) % PIPE_BUFFER_SIZE,
                      !.pipes[i].count = @ + m] = l
        <4> HIDE DEF m
        <4> QED
          BY <1>2 DEF Tables
      <3> HIDE DEF l, m
      <3> QED
        BY <1>5, <3>1 DEF pipe_write, m
    <2>2. m \in Nat /\ m <= Len(buf) /\ m <= PIPE_BUFFER_SIZE - c.count
      <3>1. c.count \in 0..PIPE_BUFFER_SIZE
        BY <1>4 DEF Pipe
      <3>2. m = Least(Len(buf), PIPE_BUFFER_SIZE - c.count)
        BY <1>5 DEF bytes_written
      <3>3. Len(buf) \in Nat /\ PIPE_BUFFER_SIZE - c.count \in Nat
        BY <3>1, PipesAssumption
      <3> HIDE DEF m
      <3> QED
        BY <3>2, <3>3 DEF Least
    <2>3. /\ d \in Pipe
          /\ PipeIs(d, c.open_read, c.open_write, c.in_use, c.name, c.eof,
                    c.wait_readers, c.wait_writers)
      <3> HIDE DEF m, c
      <3> QED
        BY <1>4, <2>2, BytesIn
    <2> HIDE DEF d, r
    <2>4. Effect(k, l, i, d, {})
      BY <1>2, <2>3, SetPipe
    <2> HIDE DEF l
    <2>5. Fine(l, R, {}, {}) /\ Around(k, l)
      BY <1>1, <1>2, <2>3, <2>4, ContentsFine
    <2>6. Fine(r, R, {}, {}) /\ Around(l, r)
      BY <1>1, <1>2, <2>1, <2>5, WakeReaderFine DEF Around
    <2>7. Around(k, r)
      BY <2>5, <2>6, AroundTrans
    <2> QED
      BY <2>6, <2>7, AroundGood, AroundTransfers DEF r, R, i
  <1>6. CASE Refused(k, i)
    <2>1. r = k
      BY <1>6 DEF pipe_write
    <2> QED
      BY <1>1, <2>1, AroundSelf, AroundGood, AroundTransfers DEF R, i
  <1>7. CASE ~Refused(k, i) /\ WriteSleeps(k, i)
    <2>1. r = sleep_writing(k, p, i)
      BY <1>7 DEF pipe_write
    <2>2. ~Sleeps(k, p) /\ Agree(k, {})
      BY <1>1, AwakeIsOut DEF Fine
    <2> HIDE DEF r
    <2>3. SleepStep(k, r, p, i, "writers")
      BY <1>2, <2>1, <2>2, SleepWritingIs
    <2>4. Hope(r.pipes[i])
      <3>1. Hope(c)
        BY <1>1, <1>2 DEF Fine, Hopes
      <3>2. /\ r.pipes[i].name = c.name /\ r.pipes[i].eof = c.eof
            /\ r.pipes[i].open_read = c.open_read /\ r.pipes[i].open_write = c.open_write
            /\ r.pipes[i].wait_readers = c.wait_readers
        <4>1. /\ r.pipes[i].name = c.name /\ r.pipes[i].eof = c.eof
              /\ \A t \in Types : Ends(r.pipes[i], t) = Ends(c, t)
              /\ \A t \in Sides : t # "writers" => Line(r.pipes[i], t) = Line(c, t)
          BY <2>3 DEF SleepStep
        <4>2. Ends(r.pipes[i], "READ") = Ends(c, "READ") /\ Ends(r.pipes[i], "WRITE") = Ends(c, "WRITE")
          BY <4>1 DEF Types
        <4>3. Line(r.pipes[i], "readers") = Line(c, "readers")
          BY <4>1 DEF Sides
        <4> QED
          BY <4>1, <4>2, <4>3 DEF Ends, Line
      <3> QED
        BY <1>7, <3>1, <3>2 DEF Hope, Refused, WriteSleeps, NoReader, is_named
    <2>5. "writers" \in Sides /\ EndOf("writers") = "WRITE"
      BY DEF Sides, EndOf
    <2> QED
      BY <1>2, <1>3, <2>3, <2>4, <2>5, SleepGood, SleepTransfers DEF r, R, i
  <1> QED
    BY <1>5, <1>6, <1>7

-----------------------------------------------------------------------------
(***************************************************************************)
(* The steps.                                                              *)
(***************************************************************************)

LEMMA KernelTyped == TypeOK <=> Kernel \in Tables
  BY DEF TypeOK, Kernel, Tables

LEMMA StoredGood ==
    ASSUME NEW r, Good(Kernel, r), Store(r)
    PROVE  Good(Kernel, Kernel')
  <1>1. r = [pipes |-> r.pipes, fds |-> r.fds, procs |-> r.procs]
    BY TableTypes DEF Good
  <1>2. Kernel' = r
    BY <1>1 DEF Store, Kernel
  <1> QED
    BY <1>2

\* What a program may name is a descriptor it refers to.
LEMMA MineIs ==
    ASSUME TypeOK, NEW p \in Pids, NEW f \in Mine(p)
    PROVE  f \in Fds /\ \E x \in Refs(Kernel) : x[1] = f /\ x[2] = p
  <1>1. process[p] \in PCB /\ Kernel.procs = process
    BY DEF TypeOK, Kernel
  <1>2. f \in Fds
    BY <1>1, PCBFields DEF Mine
  <1>3. \A n : <<f, p, n>>[1] = f /\ <<f, p, n>>[2] = p
    OBVIOUS
  <1>4. /\ <<f, p, 0>> \in Refs(Kernel) <=> process[p].fd[0] = f
        /\ <<f, p, 1>> \in Refs(Kernel) <=> process[p].fd[1] = f
        /\ <<f, p, 2>> \in Refs(Kernel) <=> f \in process[p].own
    BY <1>1, <1>2, InRefs
  <1> QED
    BY <1>2, <1>3, <1>4 DEF Mine

LEMMA OpenGood ==
    ASSUME NEW k \in Tables, Inv(k), NEW p \in Pids, k.procs[p].state = "READY",
           NEW name \in Names \cup {Anonymous}, pipe_slot(k, name) # NULL
    PROVE  LET i == pipe_slot(k, name)
               r == pipe_create_fds(pipe_open(k, name), p, i)
           IN  /\ i \in PipeIds
               /\ Good(k, r)
               /\ Moves(k, r, p, k.procs[p].state, r.procs[p].own, k.procs[p].at)
               /\ r.procs[p].fd = k.procs[p].fd
               /\ \E f, g : r.procs[p].own \subseteq k.procs[p].own \cup {f, g}
               /\ r.procs[p].own # k.procs[p].own =>
                     \A j \in PipeIds : Clean(k.pipes[j]) => Clean(r.pipes[j])
  <1> DEFINE i == pipe_slot(k, name)
             m == pipe_open(k, name)
             r == pipe_create_fds(m, p, i)
  <1>1. Refs(k) \in SUBSET Marks /\ Fine(k, Refs(k), {}, {}) /\ Unopened(k)
    BY RefsIn DEF Inv
  <1>2. i \in PipeIds /\ Fine(m, Refs(k), {}, {}) /\ OpenedSlot(k, m, i)
    BY <1>1, OpenFine
  <1> HIDE DEF i, m
  <1>3. /\ m \in Tables /\ m.procs = k.procs /\ m.pipes[i].in_use /\ StaysClean(k, m)
    BY <1>2 DEF OpenedSlot
  <1>4. Refs(m) = Refs(k)
    BY <1>3, SameRefs DEF SameHolds
  <1>5. Inv(m)
    BY <1>1, <1>2, <1>3, <1>4 DEF Inv, Unopened
  <1>6. r \in Tables /\ Inv(r) /\ Cleaner(m, r) /\ Receives(m, r, p, i)
    BY <1>2, <1>3, <1>5, CreateBoth
  <1> HIDE DEF r
  <1>7. StaysClean(k, r)
    BY <1>3, <1>6, StaysCleanThen
  <1>8. PICK F \in SUBSET Fds :
            /\ Moves(m, r, p, m.procs[p].state, m.procs[p].own \cup F, m.procs[p].at)
            /\ \E f, g : F \subseteq {f, g}
            /\ r.procs[p].fd = m.procs[p].fd
            /\ F # {} => Clean(r.pipes[i])
    BY <1>6 DEF Receives
  <1>9. Moves(k, r, p, k.procs[p].state, r.procs[p].own, k.procs[p].at)
    <2>1. \A q \in Pids : Sleeps(m, q) => Sleeps(k, q)
      BY <1>2 DEF OpenedSlot, Unmoved
    <2> QED
      BY <1>3, <1>8, <2>1 DEF Moves, Rose
  <1>10. r.procs[p].fd = k.procs[p].fd
    BY <1>3, <1>8
  <1>11. ASSUME r.procs[p].own # k.procs[p].own, NEW j \in PipeIds, Clean(k.pipes[j])
         PROVE  Clean(r.pipes[j])
    <2>1. F # {}
      BY <1>3, <1>8, <1>11 DEF Moves
    <2>2. CASE j = i
      BY <1>8, <2>1, <2>2
    <2>3. CASE j # i
      BY <1>2, <1>6, <1>11, <2>3 DEF OpenedSlot, Cleaner
    <2> QED
      BY <2>2, <2>3
  <1>12. \E f, g : r.procs[p].own \subseteq k.procs[p].own \cup {f, g}
    <2>1. PICK f, g : F \subseteq {f, g}
      BY <1>8
    <2>2. r.procs[p].own = k.procs[p].own \cup F
      BY <1>3, <1>8 DEF Moves
    <2>3. r.procs[p].own \subseteq k.procs[p].own \cup {f, g}
      BY <2>1, <2>2
    <2> QED
      BY <2>3
  <1> QED
    BY <1>2, <1>6, <1>7, <1>9, <1>10, <1>11, <1>12 DEF Good, i, m, r

\* Every step keeps the invariant, and a pipe that somebody holds does not
\* stay in use when nobody does.
LEMMA StepGood ==
    ASSUME TypeOK, Inv(Kernel), Next
    PROVE  Good(Kernel, Kernel')
  <1>1. /\ Kernel \in Tables /\ Kernel.procs = process /\ Kernel.fds = fd_table
        /\ Kernel.pipes = pipe_table
    BY KernelTyped DEF Kernel
  <1>2. ASSUME NEW p \in Pids, NEW name \in Names \cup {Anonymous}, sys_pipe_open(p, name)
        PROVE  Good(Kernel, Kernel')
    <2>1. /\ process[p].state = "READY" /\ pipe_slot(Kernel, name) # NULL
          /\ Store(pipe_create_fds(pipe_open(Kernel, name), p, pipe_slot(Kernel, name)))
      BY <1>2 DEF sys_pipe_open, Runs
    <2> QED
      BY <1>1, <2>1, OpenGood, StoredGood
  <1>3. ASSUME NEW p \in Pids, NEW f \in Mine(p), NEW n \in 0..1, sys_dup2(p, f, n)
        PROVE  Good(Kernel, Kernel')
    <2>1. f \in Fds
      BY MineIs
    <2>2. /\ process[p].state = "READY" /\ fd_table[f].type \in Types
          /\ process[p].fd[n] # f /\ Store(redirect(Kernel, p, f, n))
      BY <1>3 DEF sys_dup2, Runs, Fit, Types
    <2>3. PICK z \in Refs(Kernel) : z[1] = f
      BY MineIs
    <2>4. z # <<process[p].fd[n], p, n>>
      BY <2>2, <2>3
    <2>5. Good(Kernel, redirect(Kernel, p, f, n))
      BY <1>1, <2>1, <2>2, <2>3, <2>4, RedirectGood
    <2> QED
      BY <2>2, <2>5, StoredGood
  <1>4. ASSUME NEW p \in Pids, NEW f \in Fds, sys_close(p, f)
        PROVE  Good(Kernel, Kernel')
    <2>1. /\ process[p].state = "READY" /\ f \in process[p].own
          /\ Store([fd_decref(Kernel, f) EXCEPT !.procs[p].own = @ \ {f}])
      BY <1>4 DEF sys_close, Runs
    <2>2. Good(Kernel, [fd_decref(Kernel, f) EXCEPT !.procs[p].own = @ \ {f}])
      BY <1>1, <2>1, CloseGood
    <2> QED
      BY <2>1, <2>2, StoredGood
  <1>5. ASSUME NEW p \in Pids, NEW child \in Pids, NEW f \in Fds, NEW target \in 0..1,
               sys_pipe_setup(p, child, f, target)
        PROVE  Good(Kernel, Kernel')
    <2>1. /\ f \in process[p].own /\ fd_table[f].type \in Types
          /\ process[child].at = New /\ process[child].state # "FREE"
          /\ Store(redirect(Kernel, child, f, target))
      BY <1>5 DEF sys_pipe_setup, Fit, Types
    <2> DEFINE z == <<f, p, 2>>
    <2>2. z \in Refs(Kernel) /\ z[1] = f /\ z[3] = 2
      BY <1>1, <2>1, InRefs
    <2> HIDE DEF z
    <2>3. z # <<process[child].fd[target], child, target>>
      BY <2>2
    <2>4. Good(Kernel, redirect(Kernel, child, f, target))
      BY <1>1, <2>1, <2>2, <2>3, RedirectGood
    <2> QED
      BY <2>1, <2>4, StoredGood
  <1>6. ASSUME NEW p \in Pids, NEW f \in Mine(p), NEW n \in Counts, sys_read(p, f, n)
        PROVE  Good(Kernel, Kernel')
    <2>1. f \in Fds /\ \E x \in Refs(Kernel) : x[1] = f /\ x[2] = p
      BY MineIs
    <2>2. PICK x \in Refs(Kernel) : x[1] = f /\ x[2] = p
      BY <2>1
    <2>3. /\ process[p].state = "READY" /\ fd_table[f].type = "READ" /\ n \in Nat
          /\ Store(pipe_read(Kernel, p, fd_table[f].data, n))
      BY <1>6, PipesAssumption DEF sys_read, Runs
    <2>4. Good(Kernel, pipe_read(Kernel, p, fd_table[f].data, n))
      BY <1>1, <2>1, <2>2, <2>3, ReadGood
    <2> QED
      BY <2>3, <2>4, StoredGood
  <1>7. ASSUME NEW p \in Pids, NEW f \in Mine(p), NEW buf \in Buffers, sys_write(p, f, buf)
        PROVE  Good(Kernel, Kernel')
    <2>1. f \in Fds /\ \E x \in Refs(Kernel) : x[1] = f /\ x[2] = p
      BY MineIs
    <2>2. PICK x \in Refs(Kernel) : x[1] = f /\ x[2] = p
      BY <2>1
    <2>3. /\ process[p].state = "READY" /\ fd_table[f].type = "WRITE" /\ buf \in Seq(Bytes)
          /\ Store(pipe_write(Kernel, p, fd_table[f].data, buf))
      BY <1>7, PipesAssumption DEF sys_write, Runs
    <2>4. Good(Kernel, pipe_write(Kernel, p, fd_table[f].data, buf))
      BY <1>1, <2>1, <2>2, <2>3, WriteGood
    <2> QED
      BY <2>3, <2>4, StoredGood
  <1>8. ASSUME NEW p \in Pids, Die(p)
        PROVE  Good(Kernel, Kernel')
    <2> DEFINE r == [process_release_fds(pipe_cleanup_for_process(Kernel, p), p) EXCEPT
                        !.procs[p].state = "FREE", !.procs[p].at = Nowhere]
    <2>1. Store(r)
      BY <1>8 DEF Die
    <2>2. Good(Kernel, r)
      BY <1>1, DieGood
    <2> HIDE DEF r
    <2> QED
      BY <2>1, <2>2, StoredGood
  <1>9. ASSUME NEW p \in Pids, NEW child \in Pids, sys_create_process(p, child)
        PROVE  Good(Kernel, Kernel')
    <2>1. /\ process[child].state = "FREE" /\ process[child].at = New
          /\ Store(process_create(Kernel, child))
      BY <1>9 DEF sys_create_process, Unborn
    <2>2. Good(Kernel, process_create(Kernel, child))
      BY <1>1, <2>1, CreateGood
    <2> QED
      BY <2>1, <2>2, StoredGood
  <1>10. ASSUME NEW p \in Pids, Start(p)
         PROVE  Good(Kernel, Kernel')
    <2> DEFINE c == [process[p] EXCEPT !.state = "READY", !.at = Nowhere]
               r == [Kernel EXCEPT !.procs[p] = c]
    <2>1. process[p].state = "BLOCKED" /\ process[p].at = New
      BY <1>10 DEF Start
    <2>2. Good(Kernel, r)
      BY <1>1, <2>1, StartGood
    <2>3. Store(r)
      BY <1>10 DEF Start, Store, Kernel
    <2> HIDE DEF r
    <2> QED
      BY <2>2, <2>3, StoredGood
  <1> QED
    BY <1>2, <1>3, <1>4, <1>5, <1>6, <1>7, <1>8, <1>9, <1>10 DEF Next

-----------------------------------------------------------------------------
(***************************************************************************)
(* The beginning.                                                          *)
(***************************************************************************)

\* In k everybody who has started uses the terminal and nobody holds a pipe.
Fresh(k) ==
    /\ k \in Tables
    /\ \A i \in PipeIds : k.pipes[i] = pipe_reset
    /\ \A f \in Fds : f # 0 /\ f # 1 => k.fds[f].type = "NONE" /\ k.fds[f].refcount = 0
    /\ \A f \in {0, 1} : k.fds[f].type = "TERMINAL" /\ k.fds[f].refcount = Cardinality(Started)
    /\ \A p \in Pids :
          /\ k.procs[p].own = {} /\ k.procs[p].state # "BLOCKED"
          /\ p \in Started => /\ k.procs[p].fd[0] = 0 /\ k.procs[p].fd[1] = 1
                              /\ k.procs[p].state = "READY"
          /\ p \notin Started => k.procs[p].fd[0] = NULL /\ k.procs[p].fd[1] = NULL

LEMMA InitFresh == Init => Fresh(Kernel)
  <1> SUFFICES ASSUME Init PROVE Fresh(Kernel)
    OBVIOUS
  <1>1. IsFiniteSet(Started) /\ Cardinality(Started) \in Nat
    BY PipesAssumption, FS_Subset, FS_CardinalityType
  <1>2. FD_STDIN = 0 /\ FD_STDOUT = 1
    BY DEF FD_STDIN, FD_STDOUT
  <1>3. Kernel.pipes = pipe_table /\ Kernel.fds = fd_table /\ Kernel.procs = process
    BY DEF Kernel
  <1>4. pipe_table \in [PipeIds -> Pipe] /\ \A i \in PipeIds : pipe_table[i] = pipe_reset
    BY ResetIs DEF Init
  <1>5. /\ fd_table \in [Fds -> FD]
        /\ \A f \in Fds : f # 0 /\ f # 1 => fd_table[f].type = "NONE" /\ fd_table[f].refcount = 0
        /\ \A f \in {0, 1} : /\ fd_table[f].type = "TERMINAL"
                             /\ fd_table[f].refcount = Cardinality(Started)
    BY <1>1, <1>2, IdsAreNat DEF Init, FD
  <1>6. ASSUME NEW p \in Pids
        PROVE  /\ process[p] \in PCB
               /\ process[p].own = {} /\ process[p].state # "BLOCKED"
               /\ p \in Started => /\ process[p].fd[0] = 0 /\ process[p].fd[1] = 1
                                   /\ process[p].state = "READY"
               /\ p \notin Started => process[p].fd[0] = NULL /\ process[p].fd[1] = NULL
    <2> DEFINE up == [n \in 0..1 |-> n]
               off == [n \in 0..1 |-> NULL]
    <2>1. up \in [0..1 -> Fds \cup {NULL}] /\ up[0] = 0 /\ up[1] = 1
      BY <1>2, IdsAreNat
    <2>2. off \in [0..1 -> Fds \cup {NULL}] /\ off[0] = NULL /\ off[1] = NULL
      OBVIOUS
    <2>3. process[p] = IF p \in Started
            THEN [state |-> "READY", fd |-> up, own |-> {}, at |-> Nowhere]
            ELSE [state |-> "FREE", fd |-> off, own |-> {}, at |-> New]
      BY DEF Init
    <2> HIDE DEF up, off
    <2> QED
      BY <2>1, <2>2, <2>3, PlacesIn DEF PCB
  <1>7. process \in [Pids -> PCB]
    BY <1>6 DEF Init
  <1>8. TypeOK
    BY <1>4, <1>5, <1>7 DEF TypeOK
  <1> QED
    BY <1>3, <1>4, <1>5, <1>6, <1>8, KernelTyped DEF Fresh

\* As many refer to stdin, or to stdout, as have started.
LEMMA FreshRefs ==
    ASSUME NEW k, Fresh(k), NEW f \in {0, 1}
    PROVE  Cardinality(RefsTo(Refs(k), f)) = Cardinality(Started)
  <1> DEFINE B == RefsTo(Refs(k), f)
             m == [x \in B |-> x[2]]
             w(p) == <<f, p, f>>
  <1>1. f \in Fds
    BY IdsAreNat DEF FD_STDIN, FD_STDOUT
  <1>2. ASSUME NEW x \in B
        PROVE  x[2] \in Started /\ x = w(x[2])
    <2>1. /\ x \in Fds \X Pids \X (0..2) /\ x[1] = f
          /\ IF x[3] = 2 THEN f \in k.procs[x[2]].own ELSE k.procs[x[2]].fd[x[3]] = f
      BY DEF RefsTo, Refs
    <2>2. x = <<x[1], x[2], x[3]>> /\ x[2] \in Pids /\ x[3] \in {0, 1, 2}
      BY <2>1
    <2>3. x[3] # 2
      BY <2>1, <2>2 DEF Fresh
    <2>4. x[2] \in Started /\ x[3] = f
      BY <1>1, <2>1, <2>2, <2>3, IdsAreNat DEF Fresh
    <2> QED
      BY <2>1, <2>2, <2>4
  <1>3. ASSUME NEW p \in Started
        PROVE  w(p) \in B /\ w(p)[2] = p
    <2>1. p \in Pids /\ w(p)[1] = f /\ w(p)[2] = p
      BY PipesAssumption
    <2>2. k.procs[p].fd[0] = 0 /\ k.procs[p].fd[1] = 1
      BY <2>1 DEF Fresh
    <2>3. w(p) \in Refs(k)
      BY <1>1, <2>1, <2>2, InRefs
    <2> HIDE DEF w
    <2> QED
      BY <2>1, <2>3 DEF RefsTo
  <1> HIDE DEF B, w
  <1>4. m \in [B -> Started]
    BY <1>2
  <1>5. \A x, y \in B : m[x] = m[y] => x = y
    BY <1>2
  <1>6. \A p \in Started : w(p) \in B /\ m[w(p)] = p
    BY <1>3
  <1> HIDE DEF m
  <1>7. m \in Bijection(B, Started)
    BY <1>4, <1>5, <1>6 DEF Bijection, Injection, Surjection, IsInjective
  <1>8. ExistsBijection(B, Started)
    BY <1>7 DEF ExistsBijection
  <1>9. IsFiniteSet(B)
    BY RefsIn, RefsFinite DEF B
  <1> QED
    BY <1>8, <1>9, FS_Bijection DEF B

LEMMA FreshInv ==
    ASSUME NEW k, Fresh(k)
    PROVE  Inv(k)
  <1> DEFINE R == Refs(k)
  <1>1. R \in SUBSET Marks /\ k \in Tables
    BY RefsIn DEF Fresh
  <1>2. ASSUME NEW f \in Fds, f # 0, f # 1
        PROVE  RefsTo(R, f) = {}
    <2>1. ASSUME NEW x \in RefsTo(R, f)
          PROVE  FALSE
      <3>1. /\ x \in Fds \X Pids \X (0..2) /\ x[1] = f
            /\ IF x[3] = 2 THEN f \in k.procs[x[2]].own ELSE k.procs[x[2]].fd[x[3]] = f
        BY <2>1 DEF RefsTo, Refs
      <3>2. x[2] \in Pids /\ x[3] \in {0, 1, 2} /\ f # NULL
        BY <3>1, IdsAreNat
      <3> QED
        BY <1>2, <3>1, <3>2 DEF Fresh
    <2> QED
      BY <2>1
  <1>3. \A i, t : t \in Types => EndRefs(k, R, i, t) = {}
    <2>1. ASSUME NEW i, NEW t \in Types, NEW x \in EndRefs(k, R, i, t)
          PROVE  FALSE
      <3>1. x \in R /\ k.fds[x[1]].type \in Types
        BY <2>1 DEF EndRefs
      <3>2. x[1] \in Fds
        BY <1>1, <3>1 DEF Marks
      <3>3. x[1] = 0 \/ x[1] = 1
        BY <3>1, <3>2 DEF Fresh, Types
      <3> QED
        BY <3>1, <3>3 DEF Fresh, Types
    <2> QED
      BY <2>1
  <1> HIDE DEF R
  <1>4. \A i \in PipeIds : PipeIs(k.pipes[i], 0, 0, FALSE, Anonymous, FALSE, <<>>, <<>>)
    BY ResetIs DEF Fresh
  <1>5. Counted(k, R)
    <2>1. \A f \in Fds : k.fds[f].refcount = Cardinality(RefsTo(R, f))
      <3>1. ASSUME NEW f \in Fds, f # 0, f # 1
            PROVE  k.fds[f].refcount = Cardinality(RefsTo(R, f))
        BY <1>2, <3>1, FS_EmptySet DEF Fresh
      <3>2. ASSUME NEW f \in {0, 1}
            PROVE  k.fds[f].refcount = Cardinality(RefsTo(R, f))
        BY FreshRefs DEF Fresh, R
      <3> QED
        BY <3>1, <3>2
    <2>2. \A f \in Fds : k.fds[f].type = "NONE" => RefsTo(R, f) = {}
      BY <1>2 DEF Fresh
    <2>3. \A f \in Fds : k.fds[f].type \notin Types
      BY DEF Fresh, Types
    <2>4. \A i \in PipeIds :
             /\ k.pipes[i].open_read = Cardinality(EndRefs(k, R, i, "READ"))
             /\ k.pipes[i].open_write = Cardinality(EndRefs(k, R, i, "WRITE"))
      BY <1>3, <1>4, FS_EmptySet DEF Types, PipeIs
    <2> QED
      BY <2>1, <2>2, <2>3, <2>4 DEF Counted, Types
  <1>6. Live(k, R, {})
    BY DEF Live, Fresh, Types
  <1>7. \A i \in PipeIds, s \in Sides : Line(k.pipes[i], s) = <<>>
    BY <1>4 DEF Line, PipeIs
  <1>8. Agree(k, {}) /\ Anchored(k, R)
    <2>1. \A q \in Pids, i \in PipeIds, s \in Sides : ~Asleep(k, q, i, s)
      BY DEF Asleep, Fresh
    <2> QED
      BY <1>7, <2>1, EmptyLine DEF Agree, Anchored
  <1>9. Hopes(k)
    BY <1>4 DEF Hopes, Hope, PipeIs
  <1>10. Terminals(k)
    BY DEF Terminals, Fresh, FD_STDIN, FD_STDOUT
  <1>11. Unopened(k)
    BY DEF Unopened, Fresh
  <1> QED
    BY <1>5, <1>6, <1>8, <1>9, <1>10, <1>11 DEF Inv, Fine, R

-----------------------------------------------------------------------------
(***************************************************************************)
(* What the invariant says of the pipes.                                   *)
(***************************************************************************)

\* Counts that are right: an end that is open has a reference.
LEMMA OpenIsHeld ==
    ASSUME NEW k \in Tables, Counted(k, Refs(k)), NEW i \in PipeIds
    PROVE  /\ k.pipes[i].open_read # 0 <=> EndRefs(k, Refs(k), i, "READ") # {}
           /\ k.pipes[i].open_write # 0 <=> EndRefs(k, Refs(k), i, "WRITE") # {}
  <1>1. \A t : IsFiniteSet(EndRefs(k, Refs(k), i, t))
    BY RefsIn, RefsFinite
  <1>2. \A t : Cardinality(EndRefs(k, Refs(k), i, t)) = 0 <=> EndRefs(k, Refs(k), i, t) = {}
    BY <1>1, FS_EmptySet
  <1>3. /\ k.pipes[i].open_read = Cardinality(EndRefs(k, Refs(k), i, "READ"))
        /\ k.pipes[i].open_write = Cardinality(EndRefs(k, Refs(k), i, "WRITE"))
    BY DEF Counted
  <1> QED
    BY <1>2, <1>3

\* Somebody may name an end of pipe i in k.
HeldIn(k, i) ==
    \E p \in Pids : \E f \in k.procs[p].own \cup ({k.procs[p].fd[0], k.procs[p].fd[1]} \ {NULL}) :
        k.fds[f].data = i /\ k.fds[f].type \in {"READ", "WRITE"}

LEMMA HeldIsOpen ==
    ASSUME NEW k \in Tables, Inv(k), NEW i \in PipeIds
    PROVE  HeldIn(k, i) <=> k.pipes[i].in_use /\ Clean(k.pipes[i])
  <1> DEFINE R == Refs(k)
  <1>1. R \in SUBSET Marks /\ Counted(k, R)
    BY RefsIn DEF Inv, Fine
  <1>2. ASSUME HeldIn(k, i)
        PROVE  k.pipes[i].in_use /\ \E t \in Types : EndRefs(k, R, i, t) # {}
    <2>1. PICK p \in Pids :
             \E f \in k.procs[p].own \cup ({k.procs[p].fd[0], k.procs[p].fd[1]} \ {NULL}) :
                 k.fds[f].data = i /\ k.fds[f].type \in {"READ", "WRITE"}
      BY <1>2 DEF HeldIn
    <2>2. PICK f \in k.procs[p].own \cup ({k.procs[p].fd[0], k.procs[p].fd[1]} \ {NULL}) :
             k.fds[f].data = i /\ k.fds[f].type \in {"READ", "WRITE"}
      BY <2>1
    <2>3. k.procs[p] \in PCB
      BY TableTypes
    <2>4. f \in Fds
      BY <2>2, <2>3, PCBFields
    <2>5. PICK n \in {0, 1, 2} : <<f, p, n>> \in R
      BY <2>2, <2>4, InRefs
    <2>6. PICK x \in R : x[1] = f
      BY <2>5
    <2>7. x \in EndRefs(k, R, i, k.fds[f].type)
      BY <2>2, <2>6 DEF EndRefs
    <2>8. k.pipes[i].in_use
      BY <1>1, <2>2, <2>4 DEF Counted
    <2> QED
      BY <2>2, <2>7, <2>8 DEF Types
  <1>3. ASSUME NEW t \in Types, EndRefs(k, R, i, t) # {}
        PROVE  HeldIn(k, i)
    <2>1. PICK x \in R : k.fds[x[1]].type = t /\ k.fds[x[1]].data = i
      BY <1>3 DEF EndRefs
    <2>2. /\ x \in Fds \X Pids \X (0..2)
          /\ IF x[3] = 2 THEN x[1] \in k.procs[x[2]].own ELSE k.procs[x[2]].fd[x[3]] = x[1]
      BY <2>1 DEF Refs
    <2>3. x[1] \in Fds /\ x[2] \in Pids /\ x[3] \in {0, 1, 2} /\ x[1] # NULL
      BY <2>2, IdsAreNat
    <2>4. x[1] \in k.procs[x[2]].own
                   \cup ({k.procs[x[2]].fd[0], k.procs[x[2]].fd[1]} \ {NULL})
      BY <2>2, <2>3
    <2> QED
      BY <2>1, <2>3, <2>4 DEF HeldIn, Types
  <1>4. /\ k.pipes[i].open_read # 0 <=> EndRefs(k, R, i, "READ") # {}
        /\ k.pipes[i].open_write # 0 <=> EndRefs(k, R, i, "WRITE") # {}
    BY <1>1, OpenIsHeld
  <1> HIDE DEF R
  <1> QED
    BY <1>2, <1>3, <1>4 DEF Clean, Types

\* The invariant says what the runs check.
LEMMA InvSays ==
    ASSUME TypeOK, Inv(Kernel)
    PROVE  EndsCounted /\ QueuesHoldSleepers /\ SleepersHaveHope
  <1>1. Kernel \in Tables /\ Kernel.pipes = pipe_table
    BY KernelTyped DEF Kernel
  <1>2. /\ Counted(Kernel, Refs(Kernel)) /\ Agree(Kernel, {}) /\ Hopes(Kernel)
    BY DEF Inv, Fine
  <1>3. \A i \in PipeIds, s \in Sides : Queue(Kernel, i, s) = Line(Kernel.pipes[i], s)
    BY DEF Queue, Line
  <1>4. EndsCounted
    BY <1>2 DEF EndsCounted
  <1>5. QueuesHoldSleepers
    <2>1. \A i \in PipeIds, s \in Sides :
             /\ Distinct(Line(Kernel.pipes[i], s))
             /\ Elements(Line(Kernel.pipes[i], s)) = {q \in Pids : Asleep(Kernel, q, i, s)}
      BY <1>2 DEF Agree
    <2> QED
      BY <1>3, <2>1 DEF QueuesHoldSleepers, Sides
  <1>6. SleepersHaveHope
    <2>1. ASSUME NEW i \in PipeIds
          PROVE  /\ Queue(Kernel, i, "readers") # <<>> =>
                       IF is_named(Kernel, i) THEN ~pipe_table[i].eof
                       ELSE EndRefs(Kernel, Refs(Kernel), i, "WRITE") # {}
                 /\ (Queue(Kernel, i, "writers") # <<>> /\ ~is_named(Kernel, i)) =>
                       EndRefs(Kernel, Refs(Kernel), i, "READ") # {}
      <3>1. Hope(Kernel.pipes[i])
        BY <1>2 DEF Hopes
      <3>2. /\ Kernel.pipes[i].open_read # 0 <=> EndRefs(Kernel, Refs(Kernel), i, "READ") # {}
            /\ Kernel.pipes[i].open_write # 0 <=> EndRefs(Kernel, Refs(Kernel), i, "WRITE") # {}
        BY <1>1, <1>2, OpenIsHeld
      <3> QED
        BY <1>1, <3>1, <3>2 DEF Hope, Queue, is_named
    <2> QED
      BY <2>1 DEF SleepersHaveHope
  <1> QED
    BY <1>4, <1>5, <1>6

-----------------------------------------------------------------------------
(***************************************************************************)
(* The theorems.                                                           *)
(***************************************************************************)

\* Every step of the system, from a state in the invariant.
LEMMA Steps ==
    ASSUME TypeOK, Inv(Kernel), [Next]_vars
    PROVE  Good(Kernel, Kernel')
  <1>1. CASE Next
    BY <1>1, StepGood
  <1>2. CASE UNCHANGED vars
    <2>1. Kernel' = Kernel
      BY <1>2 DEF vars, Kernel
    <2> QED
      BY <2>1, KernelTyped DEF Good, StaysClean
  <1> QED
    BY <1>1, <1>2

\* The tables keep their types and the invariant holds in every state: from the
\* kernel as fd_init and pipe_init leave it, whatever the processes call.
THEOREM PipesInvariant == Spec => [](TypeOK /\ Inv(Kernel))
  <1>1. Init => TypeOK /\ Inv(Kernel)
    BY InitFresh, FreshInv, KernelTyped DEF Fresh
  <1>2. TypeOK /\ Inv(Kernel) /\ [Next]_vars => (TypeOK /\ Inv(Kernel))'
    <2> SUFFICES ASSUME TypeOK, Inv(Kernel), [Next]_vars
                 PROVE  TypeOK' /\ Inv(Kernel')
      OBVIOUS
    <2>1. Good(Kernel, Kernel')
      BY Steps
    <2>2. Kernel' \in Tables => TypeOK'
      BY DEF Tables, Kernel, TypeOK
    <2> QED
      BY <2>1, <2>2 DEF Good
  <1> QED
    BY <1>1, <1>2, PTL DEF Spec

\* The reference counts of fd.c and pipe.c are right after any sequence of
\* sys_pipe, dup2, close, redirections, deaths and failed opens.
THEOREM CountsAreRight == Spec => []EndsCounted
  <1>1. TypeOK /\ Inv(Kernel) => EndsCounted
    BY InvSays
  <1> QED
    BY <1>1, PipesInvariant, PTL

\* The wait queues of the pipes hold the processes that sleep at them, each
\* once, and nobody else: pipe_cleanup_for_process leaves no dead pid behind and
\* pipe_maybe_free forgets nobody.
THEOREM QueuesAreRight == Spec => []QueuesHoldSleepers
  <1>1. TypeOK /\ Inv(Kernel) => QueuesHoldSleepers
    BY InvSays
  <1> QED
    BY <1>1, PipesInvariant, PTL

\* Nobody sleeps at an anonymous pipe whose other end is closed, or reads at a
\* named one that is at its end: pipe_close_read and pipe_close_write wake them.
THEOREM NobodyWaitsInVain == Spec => []SleepersHaveHope
  <1>1. TypeOK /\ Inv(Kernel) => SleepersHaveHope
    BY InvSays
  <1> QED
    BY <1>1, PipesInvariant, PTL

\* The step that drops the last reference to a pipe frees its slot: no sequence
\* of closes and deaths leaves it in use with nobody to close it.
THEOREM LastReferenceFrees == Spec => LastEndFrees
  <1>1. TypeOK /\ Inv(Kernel) /\ [Next]_vars =>
           [\A i \in PipeIds : Held(i) => (Held(i)' \/ ~pipe_table'[i].in_use)]_vars
    <2> SUFFICES ASSUME TypeOK, Inv(Kernel), [Next]_vars, NEW i \in PipeIds, Held(i)
                 PROVE  Held(i)' \/ ~pipe_table'[i].in_use
      OBVIOUS
    <2>1. Kernel \in Tables /\ Good(Kernel, Kernel')
      BY KernelTyped, Steps
    <2>2. Held(i) <=> HeldIn(Kernel, i)
      BY DEF Held, HeldIn, Mine, Kernel
    <2>3. Held(i)' <=> HeldIn(Kernel', i)
      BY DEF Held, HeldIn, Mine, Kernel
    <2>4. Kernel'.pipes = pipe_table'
      BY DEF Kernel
    <2>5. Clean(Kernel'.pipes[i])
      BY <2>1, <2>2, HeldIsOpen DEF Good, StaysClean
    <2>6. HeldIn(Kernel', i) <=> Kernel'.pipes[i].in_use /\ Clean(Kernel'.pipes[i])
      BY <2>1, HeldIsOpen DEF Good
    <2> QED
      BY <2>3, <2>4, <2>5, <2>6
  <1> QED
    BY <1>1, PipesInvariant, PTL DEF Spec, LastEndFrees

-----------------------------------------------------------------------------
(***************************************************************************)
(* The bytes.  Everything but a read and a write leaves them where they    *)
(* are, or forgets them with the pipe.                                     *)
(***************************************************************************)
SameBytes(c, d) == /\ d.buffer = c.buffer /\ d.count = c.count
                   /\ d.read_idx = c.read_idx /\ d.write_idx = c.write_idx

Keeps(c, d) == \/ SameBytes(c, d) /\ d.in_use = c.in_use
               \/ SameBytes(pipe_reset, d) /\ ~d.in_use

\* A descriptor of a pipe names one.
Wired(k) == \A f \in Fds : k.fds[f].type \in Types => k.fds[f].data \in PipeIds

AllKept(k, r) == r \in Tables /\ Wired(r) /\ \A i \in PipeIds : Keeps(k.pipes[i], r.pipes[i])

LEMMA KeptThen ==
    ASSUME NEW k, NEW m, NEW r, AllKept(k, m), AllKept(m, r)
    PROVE  AllKept(k, r)
  BY DEF AllKept, Keeps, SameBytes

\* The pipes are left alone.
LEMMA KeptSame ==
    ASSUME NEW k, NEW r \in Tables, Wired(r), r.pipes = k.pipes
    PROVE  AllKept(k, r)
  BY DEF AllKept, Keeps, SameBytes

\* One pipe changes.
LEMMA KeptEffect ==
    ASSUME NEW k, Wired(k), NEW r, NEW i \in PipeIds, NEW d, NEW W, Effect(k, r, i, d, W),
           Keeps(k.pipes[i], d)
    PROVE  AllKept(k, r)
  <1>1. /\ r \in Tables /\ r.fds = k.fds /\ r.pipes[i] = d
        /\ \A j \in PipeIds \ {i} : r.pipes[j] = k.pipes[j]
    BY DEF Effect
  <1>2. Wired(r)
    BY <1>1 DEF Wired
  <1> QED
    BY <1>1, <1>2 DEF AllKept, Keeps, SameBytes

\* What is written to a pipe's record beside its bytes.
LEMMA FieldsKeep ==
    ASSUME NEW c \in Pipe
    PROVE  /\ \A n : Keeps(c, [c EXCEPT !.open_read = n]) /\ Keeps(c, [c EXCEPT !.open_write = n])
           /\ \A n : Keeps(c, [c EXCEPT !.opens = n])
           /\ \A b : Keeps(c, [c EXCEPT !.eof = b])
           /\ \A q : Keeps(c, [c EXCEPT !.wait_readers = q]) /\ Keeps(c, [c EXCEPT !.wait_writers = q])
           /\ \A q, s : Keeps(c, [c EXCEPT !.wait_readers = q, !.wait_writers = s])
  BY DEF Pipe, Keeps, SameBytes

LEMMA ResetKeeps == \A c : Keeps(c, pipe_reset)
  <1>1. ~pipe_reset.in_use
    BY DEF pipe_reset
  <1> QED
    BY <1>1 DEF Keeps, SameBytes

\* A pipe's record is replaced.
LEMMA KeptSet ==
    ASSUME NEW k \in Tables, Wired(k), NEW i \in PipeIds, NEW d \in Pipe, Keeps(k.pipes[i], d)
    PROVE  /\ AllKept(k, [k EXCEPT !.pipes[i] = d])
           /\ [k EXCEPT !.pipes[i] = d].pipes[i] = d
  <1> DEFINE r == [k EXCEPT !.pipes[i] = d]
  <1>1. Effect(k, r, i, d, {})
    BY SetPipe
  <1> HIDE DEF r
  <1>2. AllKept(k, r) /\ r.pipes[i] = d
    BY <1>1, KeptEffect DEF Effect
  <1> QED
    BY <1>2 DEF r

LEMMA KeptUnblock ==
    ASSUME NEW k \in Tables, Wired(k), NEW W
    PROVE  AllKept(k, process_unblock(k, W)) /\ process_unblock(k, W).pipes = k.pipes
  <1> DEFINE r == process_unblock(k, W)
  <1>1. \A i \in PipeIds : Effect(k, r, i, k.pipes[i], W)
    BY Wakes
  <1>2. 0 \in PipeIds
    BY PipesAssumption DEF PipeIds
  <1> HIDE DEF r
  <1>3. r \in Tables /\ r.fds = k.fds /\ \A i \in PipeIds : r.pipes[i] = k.pipes[i]
    BY <1>1, <1>2 DEF Effect
  <1>4. r.pipes = k.pipes
    BY <1>3 DEF Tables
  <1>5. Wired(r)
    BY <1>3 DEF Wired
  <1> QED
    BY <1>3, <1>4, <1>5, KeptSame DEF r

\* Everybody in a queue wakes up.
LEMMA KeptWakeAll ==
    ASSUME NEW k \in Tables, Wired(k), NEW i \in PipeIds
    PROVE  AllKept(k, pipe_wake_all_readers(k, i)) /\ AllKept(k, pipe_wake_all_writers(k, i))
  <1> DEFINE c == k.pipes[i]
             a == [c EXCEPT !.wait_readers = <<>>]
             b == [c EXCEPT !.wait_writers = <<>>]
             l == [k EXCEPT !.pipes[i] = a]
             m == [k EXCEPT !.pipes[i] = b]
  <1>1. c \in Pipe /\ a \in Pipe /\ b \in Pipe /\ Keeps(c, a) /\ Keeps(c, b)
    BY TableTypes, LineSet, EmptyLine, FieldsKeep
  <1>2. /\ pipe_wake_all_readers(k, i) = process_unblock(l, Elements(c.wait_readers))
        /\ pipe_wake_all_writers(k, i) = process_unblock(m, Elements(c.wait_writers))
    BY DEF pipe_wake_all_readers, pipe_wake_all_writers
  <1> HIDE DEF a, b
  <1>3. AllKept(k, l) /\ AllKept(k, m)
    BY <1>1, KeptSet
  <1> HIDE DEF l, m
  <1>4. /\ AllKept(l, process_unblock(l, Elements(c.wait_readers)))
        /\ AllKept(m, process_unblock(m, Elements(c.wait_writers)))
    BY <1>3, KeptUnblock DEF AllKept
  <1> QED
    BY <1>2, <1>3, <1>4, KeptThen

LEMMA KeptFree ==
    ASSUME NEW k \in Tables, Wired(k), NEW i \in PipeIds
    PROVE  AllKept(k, pipe_maybe_free(k, i))
  <1>1. AllKept(k, k)
    BY KeptSame
  <1>2. AllKept(k, [k EXCEPT !.pipes[i] = pipe_reset])
    BY ResetIs, ResetKeeps, KeptSet
  <1> QED
    BY <1>1, <1>2 DEF pipe_maybe_free

\* An end is opened ...
LEMMA KeptOpen ==
    ASSUME NEW k \in Tables, Wired(k), NEW i \in PipeIds
    PROVE  AllKept(k, pipe_open_read(k, i)) /\ AllKept(k, pipe_open_write(k, i))
  <1> DEFINE c == k.pipes[i]
             a == [c EXCEPT !.open_read = c.open_read + 1]
             b == [c EXCEPT !.open_write = c.open_write + 1]
             e == [b EXCEPT !.eof = FALSE]
             l == [k EXCEPT !.pipes[i] = a]
             m == [k EXCEPT !.pipes[i] = b]
             n == [m EXCEPT !.pipes[i] = e]
  <1>1. c \in Pipe /\ c.open_read + 1 \in Nat /\ c.open_write + 1 \in Nat
    BY TableTypes, PipeFields
  <1>2. a \in Pipe /\ b \in Pipe /\ Keeps(c, a) /\ Keeps(c, b)
    BY <1>1, NumberSet, FieldsKeep
  <1>3. e \in Pipe /\ Keeps(b, e)
    <2> HIDE DEF b
    <2> QED BY <1>2, FlagSet, FieldsKeep
  <1>4. /\ pipe_open_read(k, i) = IF is_named(k, i) THEN pipe_wake_all_writers(l, i) ELSE l
        /\ pipe_open_write(k, i) =
             IF is_named(k, i)
               THEN pipe_wake_all_readers([m EXCEPT !.pipes[i].eof = FALSE], i) ELSE m
    BY DEF pipe_open_read, pipe_open_write
  <1> HIDE DEF a, b
  <1>5. AllKept(k, l) /\ AllKept(k, m) /\ m.pipes[i] = b
    BY <1>1, <1>2, KeptSet
  <1> HIDE DEF l, m
  <1>6. n = [m EXCEPT !.pipes[i].eof = FALSE]
    BY <1>5
  <1> HIDE DEF e
  <1>7. AllKept(m, n)
    BY <1>3, <1>5, KeptSet DEF AllKept
  <1> HIDE DEF n
  <1>8. /\ AllKept(l, pipe_wake_all_writers(l, i)) /\ AllKept(n, pipe_wake_all_readers(n, i))
    BY <1>5, <1>7, KeptWakeAll DEF AllKept
  <1> QED
    BY <1>4, <1>5, <1>6, <1>7, <1>8, KeptThen

\* ... and closed.
LEMMA KeptClose ==
    ASSUME NEW k \in Tables, Wired(k), NEW i \in PipeIds
    PROVE  AllKept(k, pipe_close_read(k, i)) /\ AllKept(k, pipe_close_write(k, i))
  <1> DEFINE c == k.pipes[i]
             a == [c EXCEPT !.open_read = dec(c.open_read)]
             b == [c EXCEPT !.open_write = dec(c.open_write)]
             l == [k EXCEPT !.pipes[i] = a]
             m == [k EXCEPT !.pipes[i] = b]
             last == m.pipes[i].open_write = 0
             eof == m.pipes[i].eof \/ (last /\ is_named(k, i) /\ k.pipes[i].opens >= 2)
             e == [b EXCEPT !.eof = eof]
             n == [m EXCEPT !.pipes[i] = e]
             u == IF l.pipes[i].open_read = 0 THEN pipe_wake_all_writers(l, i) ELSE l
             v == IF last THEN pipe_wake_all_readers(n, i) ELSE n
  <1>1. c \in Pipe /\ dec(c.open_read) \in Nat /\ dec(c.open_write) \in Nat
    BY TableTypes, PipeFields DEF dec
  <1>2. a \in Pipe /\ b \in Pipe /\ Keeps(c, a) /\ Keeps(c, b)
    BY <1>1, NumberSet, FieldsKeep
  <1>3. /\ pipe_close_read(k, i) = pipe_maybe_free(u, i)
    BY DEF pipe_close_read
  <1>4. pipe_close_write(k, i) =
          pipe_maybe_free(IF last THEN pipe_wake_all_readers([m EXCEPT !.pipes[i].eof = eof], i)
                          ELSE [m EXCEPT !.pipes[i].eof = eof], i)
    BY DEF pipe_close_write
  <1> HIDE DEF a, b
  <1>5. AllKept(k, l) /\ AllKept(k, m) /\ m.pipes[i] = b
    BY <1>1, <1>2, KeptSet
  <1>6. e \in Pipe /\ Keeps(b, e)
    <2>1. eof \in BOOLEAN
      BY <1>2, <1>5, PipeFields
    <2> HIDE DEF eof
    <2> QED BY <1>2, <2>1, FlagSet, FieldsKeep
  <1> HIDE DEF l, m, eof
  <1>7. n = [m EXCEPT !.pipes[i].eof = eof]
    BY <1>5
  <1> HIDE DEF e
  <1>8. AllKept(m, n)
    BY <1>5, <1>6, KeptSet DEF AllKept
  <1>9. pipe_close_write(k, i) = pipe_maybe_free(v, i)
    BY <1>4, <1>7
  <1> HIDE DEF n, last
  <1>10. /\ AllKept(l, pipe_wake_all_writers(l, i)) /\ AllKept(n, pipe_wake_all_readers(n, i))
    BY <1>5, <1>8, KeptWakeAll DEF AllKept
  <1>11. AllKept(k, u) /\ AllKept(k, v)
    BY <1>5, <1>8, <1>10, KeptThen
  <1> HIDE DEF u, v
  <1>12. AllKept(u, pipe_maybe_free(u, i)) /\ AllKept(v, pipe_maybe_free(v, i))
    BY <1>11, KeptFree DEF AllKept
  <1> QED
    BY <1>3, <1>9, <1>11, <1>12, KeptThen

\* Only the table of processes changes.
LEMMA KeptBecomes ==
    ASSUME NEW k, Wired(k), NEW r, NEW p, NEW c, Becomes(k, r, p, c)
    PROVE  AllKept(k, r)
  <1>1. r \in Tables /\ r.pipes = k.pipes /\ r.fds = k.fds
    BY DEF Becomes
  <1>2. Wired(r)
    BY <1>1 DEF Wired
  <1> QED
    BY <1>1, <1>2, KeptSame

\* A descriptor is counted again.
LEMMA KeptRecount ==
    ASSUME NEW k \in Tables, Wired(k), NEW f \in Fds, NEW n \in Nat
    PROVE  AllKept(k, [k EXCEPT !.fds[f].refcount = n])
  <1> DEFINE m == [k EXCEPT !.fds[f].refcount = n]
  <1>1. Recounted(k, m, f, n)
    BY Recount
  <1> HIDE DEF m
  <1>2. Wired(m)
    BY <1>1 DEF Wired, Recounted
  <1>3. AllKept(k, m)
    BY <1>1, <1>2, KeptSame DEF Recounted
  <1> QED
    BY <1>3 DEF m

LEMMA KeptInc ==
    ASSUME NEW k \in Tables, Wired(k), NEW f \in Fds
    PROVE  AllKept(k, fd_incref(k, f))
  <1> DEFINE d == k.fds[f]
             n == d.refcount + 1
             m == [k EXCEPT !.fds[f].refcount = n]
             r == fd_incref(k, f)
  <1>1. FDFields(d) /\ (d.type \in Types => d.data \in PipeIds)
    BY TableTypes DEF FD, FDFields, Wired
  <1>2. n \in Nat
    BY <1>1 DEF FDFields
  <1>3. r = CASE d.type = "NONE"     -> k
              [] d.type = "TERMINAL" -> m
              [] d.type = "READ"     -> pipe_open_read(m, d.data)
              [] d.type = "WRITE"    -> pipe_open_write(m, d.data)
    BY DEF fd_incref
  <1> HIDE DEF r, d, n
  <1>4. AllKept(k, m)
    BY <1>2, KeptRecount
  <1> HIDE DEF m
  <1>5. m \in Tables /\ Wired(m)
    BY <1>4 DEF AllKept
  <1>6. CASE d.type = "NONE"
    BY <1>3, <1>6, KeptSame DEF r
  <1>7. CASE d.type = "TERMINAL"
    <2>1. r = m
      BY <1>3, <1>7
    <2> QED
      BY <1>4, <2>1 DEF r
  <1>8. CASE d.type = "READ"
    <2>1. r = pipe_open_read(m, d.data) /\ d.data \in PipeIds
      BY <1>1, <1>3, <1>8 DEF Types
    <2>2. AllKept(m, r)
      BY <1>5, <2>1, KeptOpen
    <2> QED
      BY <1>4, <2>2, KeptThen DEF r
  <1>9. CASE d.type = "WRITE"
    <2>1. r = pipe_open_write(m, d.data) /\ d.data \in PipeIds
      BY <1>1, <1>3, <1>9 DEF Types
    <2>2. AllKept(m, r)
      BY <1>5, <2>1, KeptOpen
    <2> QED
      BY <1>4, <2>2, KeptThen DEF r
  <1> QED
    BY <1>1, <1>6, <1>7, <1>8, <1>9 DEF FDFields

LEMMA KeptDec ==
    ASSUME NEW k \in Tables, Wired(k), NEW f \in Fds
    PROVE  AllKept(k, fd_decref(k, f))
  <1> DEFINE d == k.fds[f]
             n == dec(d.refcount)
             m == [k EXCEPT !.fds[f].refcount = n]
             told == CASE d.refcount > 0 /\ d.type = "READ"  -> pipe_close_read(m, d.data)
                       [] d.refcount > 0 /\ d.type = "WRITE" -> pipe_close_write(m, d.data)
                       [] OTHER -> m
             e == [told.fds[f] EXCEPT !.type = "NONE", !.data = NULL]
             s == [told EXCEPT !.fds[f] = e]
             r == fd_decref(k, f)
  <1>1. FDFields(d) /\ (d.type \in Types => d.data \in PipeIds)
    BY TableTypes DEF FD, FDFields, Wired
  <1>2. n \in Nat
    <2>1. d.refcount \in Nat
      BY ONLY <1>1, Zenon DEF FDFields
    <2> HIDE DEF d
    <2> QED
      BY ONLY <2>1 DEF dec
  <1>3. r = IF d.type = "NONE" THEN k
            ELSE IF d.type # "TERMINAL" /\ m.fds[f].refcount = 0
              THEN fd_released(told, f) ELSE told
    BY DEF fd_decref
  <1> HIDE DEF r, d, n
  <1>4. AllKept(k, m)
    BY <1>2, KeptRecount
  <1> HIDE DEF m
  <1>5. m \in Tables /\ Wired(m) /\ AllKept(m, m)
    BY <1>4, KeptSame DEF AllKept
  <1>6. AllKept(m, told)
    <2>1. CASE ~(d.refcount > 0 /\ d.type \in Types)
      <3>1. told = m
        BY <2>1 DEF Types
      <3> QED
        BY <1>5, <3>1
    <2>2. CASE d.refcount > 0 /\ d.type \in Types
      <3>1. d.data \in PipeIds
        BY <1>1, <2>2
      <3>2. AllKept(m, pipe_close_read(m, d.data)) /\ AllKept(m, pipe_close_write(m, d.data))
        BY <1>5, <3>1, KeptClose
      <3>3. \/ told = pipe_close_read(m, d.data)
            \/ told = pipe_close_write(m, d.data)
        BY <2>2 DEF Types
      <3> QED
        BY <3>2, <3>3
    <2> QED
      BY <1>1, <2>1, <2>2 DEF FDFields, Types
  <1> HIDE DEF told
  <1>7. told \in Tables /\ Wired(told) /\ AllKept(k, told)
    BY <1>4, <1>6, KeptThen DEF AllKept
  <1>8. s = fd_released(told, f)
    BY DEF fd_released
  <1>9. e \in FD /\ e.type = "NONE"
    <2>1. told.fds[f] \in FD
      BY <1>7, TableTypes
    <2> QED
      BY <2>1 DEF FD
  <1> HIDE DEF e
  <1>10. /\ s \in Tables /\ s.pipes = told.pipes /\ s.fds[f] = e
         /\ \A g \in Fds \ {f} : s.fds[g] = told.fds[g]
    BY <1>7, <1>9, SetFd
  <1> HIDE DEF s
  <1>11. Wired(s)
    BY <1>7, <1>9, <1>10 DEF Wired, Types
  <1>12. AllKept(told, s)
    BY <1>10, <1>11, KeptSame
  <1>13. r = k \/ r = s \/ r = told
    BY <1>3, <1>8
  <1> QED
    BY <1>7, <1>12, <1>13, KeptSame, KeptThen DEF r

\* What a descriptor of a process names, if it has one.
LEMMA KeptRelease ==
    ASSUME NEW k \in Tables, Wired(k), NEW f \in Fds \cup {NULL}
    PROVE  AllKept(k, IF f = NULL THEN k ELSE fd_decref(k, f))
  BY KeptDec, KeptSame

LEMMA KeptCleanup ==
    ASSUME NEW k \in Tables, Wired(k), NEW p
    PROVE  AllKept(k, pipe_cleanup_for_process(k, p))
  <1> DEFINE E(c) == [c EXCEPT !.wait_readers = queue_remove_pid(@, p),
                               !.wait_writers = queue_remove_pid(@, p)]
             r == pipe_cleanup_for_process(k, p)
  <1>1. \A i \in PipeIds : k.pipes[i] \in Pipe /\ E(k.pipes[i]) \in Pipe
    BY TableTypes, LeftPipe
  <1>2. \A i \in PipeIds : Keeps(k.pipes[i], E(k.pipes[i]))
    BY <1>1, FieldsKeep
  <1>3. r = [k EXCEPT !.pipes = [i \in PipeIds |-> E(k.pipes[i])]]
    BY DEF pipe_cleanup_for_process
  <1> HIDE DEF E
  <1>4. [i \in PipeIds |-> E(k.pipes[i])] \in [PipeIds -> Pipe]
    BY <1>1
  <1>5. /\ r \in Tables /\ r.fds = k.fds
        /\ \A i \in PipeIds : r.pipes[i] = E(k.pipes[i])
    BY <1>3, <1>4 DEF Tables
  <1> HIDE DEF r
  <1>6. Wired(r)
    BY <1>5 DEF Wired
  <1> QED
    BY <1>2, <1>5, <1>6 DEF AllKept, r

LEMMA KeptDie ==
    ASSUME NEW k \in Tables, Wired(k), NEW p \in Pids
    PROVE  AllKept(k, [process_release_fds(pipe_cleanup_for_process(k, p), p) EXCEPT
                        !.procs[p].state = "FREE", !.procs[p].at = Nowhere])
  <1> DEFINE m == pipe_cleanup_for_process(k, p)
             f == m.procs[p].fd[0]
             g == m.procs[p].fd[1]
             one == IF f = NULL THEN m ELSE fd_decref(m, f)
             both == IF g = NULL THEN one ELSE fd_decref(one, g)
             l == [both EXCEPT !.procs[p].fd = [n \in 0..1 |-> NULL]]
             r == [l EXCEPT !.procs[p].state = "FREE", !.procs[p].at = Nowhere]
  <1>1. l = process_release_fds(m, p)
    BY DEF process_release_fds
  <1> HIDE DEF m
  <1>2. AllKept(k, m) /\ m \in Tables /\ Wired(m)
    BY KeptCleanup DEF AllKept, m
  <1>3. f \in Fds \cup {NULL} /\ g \in Fds \cup {NULL}
    BY <1>2, TableTypes, PCBFields
  <1> HIDE DEF f, g
  <1>4. AllKept(m, one) /\ one \in Tables /\ Wired(one)
    BY <1>2, <1>3, KeptRelease DEF AllKept
  <1> HIDE DEF one
  <1>5. AllKept(one, both) /\ both \in Tables /\ Wired(both)
    BY <1>3, <1>4, KeptRelease DEF AllKept
  <1>6. l = [both EXCEPT !.procs[p].fd = [n \in 0..1 |-> NULL]]
    OBVIOUS
  <1> HIDE DEF both, l
  <1>7. Becomes(both, r, p, Dead(both.procs[p]))
    BY <1>5, <1>6, BuryIs
  <1> HIDE DEF r
  <1>8. AllKept(both, r)
    BY <1>5, <1>7, KeptBecomes
  <1>9. AllKept(k, r)
    BY <1>2, <1>4, <1>5, <1>8, KeptThen
  <1> QED
    BY <1>1, <1>9 DEF m, r

LEMMA KeptRedirect ==
    ASSUME NEW k \in Tables, Wired(k), NEW p \in Pids, NEW f \in Fds, NEW n \in 0..1
    PROVE  AllKept(k, redirect(k, p, f, n))
  <1> DEFINE old == k.procs[p].fd[n]
             m == IF old = NULL THEN k ELSE fd_decref(k, old)
             c == [m.procs[p] EXCEPT !.fd = [m.procs[p].fd EXCEPT ![n] = f]]
             l == [m EXCEPT !.procs[p].fd[n] = f]
             r == fd_incref(l, f)
  <1>1. r = redirect(k, p, f, n)
    BY DEF redirect
  <1>2. old \in Fds \cup {NULL}
    BY TableTypes, PCBFields
  <1> HIDE DEF old
  <1>3. AllKept(k, m) /\ m \in Tables /\ Wired(m)
    BY <1>2, KeptRelease DEF AllKept
  <1> HIDE DEF m
  <1>4. c \in PCB
    <2>1. m.procs[p] \in PCB /\ m.procs[p].fd \in [0..1 -> Fds \cup {NULL}]
      BY <1>3, TableTypes, PCBFields
    <2>2. [m.procs[p].fd EXCEPT ![n] = f] \in [0..1 -> Fds \cup {NULL}]
      BY <2>1
    <2> QED
      BY <2>1, <2>2, FdSet
  <1>5. l = [m EXCEPT !.procs[p] = c]
    OBVIOUS
  <1> HIDE DEF c, l
  <1>6. Becomes(m, l, p, c)
    BY <1>3, <1>4, <1>5, SetProc
  <1>7. AllKept(m, l) /\ l \in Tables /\ Wired(l)
    BY <1>3, <1>6, KeptBecomes DEF AllKept
  <1>8. AllKept(l, r)
    BY <1>7, KeptInc
  <1> HIDE DEF r
  <1> QED
    BY <1>1, <1>3, <1>7, <1>8, KeptThen

LEMMA KeptClosed ==
    ASSUME NEW k \in Tables, Wired(k), NEW p \in Pids, NEW f \in Fds
    PROVE  AllKept(k, [fd_decref(k, f) EXCEPT !.procs[p].own = @ \ {f}])
  <1> DEFINE m == fd_decref(k, f)
             c == [m.procs[p] EXCEPT !.own = m.procs[p].own \ {f}]
             r == [m EXCEPT !.procs[p].own = @ \ {f}]
  <1> HIDE DEF m
  <1>1. AllKept(k, m) /\ m \in Tables /\ Wired(m)
    BY KeptDec DEF AllKept, m
  <1>2. c \in PCB
    <2>1. m.procs[p] \in PCB /\ m.procs[p].own \in SUBSET Fds
      BY <1>1, TableTypes, PCBFields
    <2>2. m.procs[p].own \ {f} \in SUBSET Fds
      BY <2>1
    <2> QED
      BY <2>1, <2>2, OwnSet
  <1>3. r = [m EXCEPT !.procs[p] = c]
    OBVIOUS
  <1> HIDE DEF c, r
  <1>4. Becomes(m, r, p, c)
    BY <1>1, <1>2, <1>3, SetProc
  <1>5. AllKept(k, r)
    BY <1>1, <1>4, KeptBecomes, KeptThen
  <1> QED
    BY <1>5 DEF m, r

LEMMA KeptCreate ==
    ASSUME NEW k \in Tables, Wired(k), NEW p \in Pids
    PROVE  AllKept(k, process_create(k, p))
  <1> DEFINE c == Newborn(k.procs[p])
             m == [k EXCEPT !.procs[p] = c]
             one == fd_incref(m, FD_STDIN)
             r == fd_incref(one, FD_STDOUT)
  <1>1. FD_STDIN \in Fds /\ FD_STDOUT \in Fds
    BY IdsAreNat
  <1>2. process_create(k, p) = r
    <2>1. [k EXCEPT !.procs[p].state = "BLOCKED", !.procs[p].fd = [n \in 0..1 |-> n]] = m
      BY DEF Newborn, Tables
    <2> HIDE DEF m
    <2> QED
      BY <2>1 DEF process_create
  <1>3. c \in PCB
    BY TableTypes, NewbornIs
  <1> HIDE DEF c
  <1>4. Becomes(k, m, p, c)
    BY <1>3, SetProc
  <1> HIDE DEF m
  <1>5. AllKept(k, m) /\ m \in Tables /\ Wired(m)
    BY <1>4, KeptBecomes DEF AllKept
  <1>6. AllKept(m, one) /\ one \in Tables /\ Wired(one)
    BY <1>1, <1>5, KeptInc DEF AllKept
  <1> HIDE DEF one
  <1>7. AllKept(one, r)
    BY <1>1, <1>6, KeptInc
  <1> QED
    BY <1>2, <1>5, <1>6, <1>7, KeptThen

-----------------------------------------------------------------------------
(***************************************************************************)
(* The ring buffer of a pipe: what enters it leaves it, in order.          *)
(***************************************************************************)

\* An index that has gone around at most once.
Once(x, B) == x % B = IF x < B THEN x ELSE x - B

LEMMA GoesOnce ==
    ASSUME NEW B \in Nat, B > 0, NEW x \in Nat, x < 2 * B
    PROVE  Once(x, B)
  <1>1. CASE x < B
    BY <1>1 DEF Once
  <1>2. CASE ~(x < B)
    <2>1. x - B \in 0..(B - 1)
      BY <1>2
    <2>2. x % B = (x - B) % B
      BY <2>1
    <2>3. (x - B) % B = x - B
      BY <2>1
    <2> QED
      BY <1>2, <2>2, <2>3 DEF Once
  <1> QED
    BY <1>1, <1>2

\* The bytes in a pipe, from the next to be read.
Tape(c) == [j \in 1..c.count |-> c.buffer[(c.read_idx + j - 1) % PIPE_BUFFER_SIZE]]

\* The indices agree with the count, and a free pipe is empty.
Spooled(c) == /\ c.write_idx = (c.read_idx + c.count) % PIPE_BUFFER_SIZE
              /\ ~c.in_use => c.count = 0

LEMMA Sizes ==
    ASSUME NEW c \in Pipe
    PROVE  /\ PIPE_BUFFER_SIZE \in Nat /\ PIPE_BUFFER_SIZE > 0
           /\ c.count \in Nat /\ c.count <= PIPE_BUFFER_SIZE
           /\ c.read_idx \in Nat /\ c.read_idx < PIPE_BUFFER_SIZE
           /\ c.write_idx \in Nat /\ c.write_idx < PIPE_BUFFER_SIZE
           /\ c.buffer \in [Cells -> Bytes]
  <1>1. /\ c.read_idx \in Cells /\ c.write_idx \in Cells /\ c.count \in 0..PIPE_BUFFER_SIZE
        /\ c.buffer \in [Cells -> Bytes]
    BY DEF Pipe
  <1> QED
    BY <1>1, PipesAssumption DEF Cells

LEMMA TapeIs ==
    ASSUME NEW c \in Pipe
    PROVE  /\ Tape(c) \in Seq(Bytes) /\ Len(Tape(c)) = c.count
           /\ \A j \in 1..c.count :
                 Tape(c)[j] = c.buffer[(c.read_idx + j - 1) % PIPE_BUFFER_SIZE]
  <1> DEFINE at(j) == c.buffer[(c.read_idx + j - 1) % PIPE_BUFFER_SIZE]
             s == [j \in 1..c.count |-> at(j)]
  <1>1. c.count \in Nat /\ c.read_idx \in Nat /\ c.buffer \in [Cells -> Bytes]
    BY Sizes
  <1>2. ASSUME NEW j \in 1..c.count
        PROVE  at(j) \in Bytes
    <2>1. c.read_idx + j - 1 \in Int
      BY <1>1
    <2>2. (c.read_idx + j - 1) % PIPE_BUFFER_SIZE \in Cells
      BY <2>1, Wraps
    <2> QED
      BY <1>1, <2>2
  <1>3. Tape(c) = s
    BY DEF Tape
  <1>4. \A j \in 1..c.count : s[j] = at(j)
    OBVIOUS
  <1> HIDE DEF at
  <1>5. s \in Seq(Bytes) /\ Len(s) = c.count
    BY <1>1, <1>2
  <1> HIDE DEF s
  <1> QED
    BY <1>3, <1>4, <1>5 DEF at

\* It is what a read of everything returns.
LEMMA TapeRead ==
    ASSUME NEW k \in Tables, NEW i \in PipeIds
    PROVE  bytes_read(k, i, PIPE_BUFFER_SIZE) = Tape(k.pipes[i])
  <1>1. k.pipes[i] \in Pipe
    BY TableTypes
  <1>2. Least(PIPE_BUFFER_SIZE, k.pipes[i].count) = k.pipes[i].count
    BY <1>1, Sizes DEF Least
  <1> QED
    BY <1>2 DEF bytes_read, Tape

LEMMA TapeSame ==
    ASSUME NEW c, NEW d, SameBytes(c, d)
    PROVE  Tape(d) = Tape(c) /\ (Spooled(c) => d.write_idx = (d.read_idx + d.count) % PIPE_BUFFER_SIZE)
  BY DEF SameBytes, Tape, Spooled

LEMMA ResetTape == Spooled(pipe_reset) /\ Tape(pipe_reset) = <<>> /\ pipe_reset.count = 0
  <1>1. pipe_reset.count = 0 /\ pipe_reset.read_idx = 0 /\ pipe_reset.write_idx = 0
    BY DEF pipe_reset
  <1>2. 0 % PIPE_BUFFER_SIZE = 0
    BY PipesAssumption
  <1>3. Tape(pipe_reset) = <<>>
    BY <1>1, ResetIs, TapeIs
  <1> QED
    BY <1>1, <1>2, <1>3 DEF Spooled

\* m bytes are read.
Out(c, d, m) ==
    /\ d.buffer = c.buffer /\ d.write_idx = c.write_idx /\ d.in_use = c.in_use
    /\ d.read_idx = (c.read_idx + m) % PIPE_BUFFER_SIZE /\ d.count = c.count - m

LEMMA OutTape ==
    ASSUME NEW c \in Pipe, NEW d \in Pipe, Spooled(c), NEW m \in 0..c.count, Out(c, d, m)
    PROVE  Spooled(d) /\ Tape(d) = SubSeq(Tape(c), m + 1, Len(Tape(c)))
  <1> DEFINE B == PIPE_BUFFER_SIZE
             a == c.read_idx
             b == d.read_idx
             n == c.count
  <1>1. /\ B \in Nat /\ B > 0 /\ a \in Nat /\ a < B /\ b \in Nat /\ b < B
        /\ n \in Nat /\ n <= B /\ m \in Nat /\ m <= n
    BY Sizes
  <1>2. /\ b = (a + m) % B /\ d.count = n - m /\ d.buffer = c.buffer /\ d.write_idx = c.write_idx
        /\ d.in_use = c.in_use /\ c.write_idx = (a + n) % B /\ (~c.in_use => n = 0)
    BY DEF Out, Spooled
  <1>3. \A x \in Nat : x < 2 * B => Once(x, B)
    BY <1>1, GoesOnce
  <1>4. /\ Tape(c) \in Seq(Bytes) /\ Len(Tape(c)) = n
        /\ \A j \in 1..n : Tape(c)[j] = c.buffer[(a + j - 1) % B]
    BY TapeIs
  <1>5. /\ Tape(d) \in Seq(Bytes) /\ Len(Tape(d)) = n - m
        /\ \A j \in 1..(n - m) : Tape(d)[j] = c.buffer[(b + j - 1) % B]
    BY <1>2, TapeIs
  <1> HIDE DEF B, a, b, n
  <1>6. ASSUME NEW y \in Nat, y <= n - m
        PROVE  /\ (b + y) % B = (a + m + y) % B
    <2>1. a + m \in Nat /\ a + m < 2 * B /\ b + y \in Nat /\ b + y < 2 * B
          /\ a + m + y \in Nat /\ a + m + y < 2 * B
      BY <1>1, <1>6
    <2>2. Once(a + m, B)
      BY ONLY <2>1, <1>3, Zenon
    <2>3. Once(b + y, B)
      BY ONLY <2>1, <1>3, Zenon
    <2>4. Once(a + m + y, B)
      BY ONLY <2>1, <1>3, Zenon
    <2> QED
      BY ONLY <1>1, <1>2, <1>6, <2>1, <2>2, <2>3, <2>4 DEF Once
  <1>7. d.write_idx = (b + d.count) % B
    <2>1. n - m \in Nat /\ a + m + (n - m) = a + n
      BY <1>1
    <2>2. (b + (n - m)) % B = (a + n) % B
      BY <1>6, <2>1
    <2> QED
      BY <1>2, <2>2
  <1>8. Spooled(d)
    BY <1>1, <1>2, <1>7 DEF Spooled, b, B
  <1>9. \A j \in 1..(n - m) : Tape(d)[j] = Tape(c)[m + j]
    <2> TAKE j \in 1..(n - m)
    <2>1. j - 1 \in Nat /\ j - 1 <= n - m /\ m + j \in 1..n
          /\ b + j - 1 = b + (j - 1) /\ a + (m + j) - 1 = a + m + (j - 1)
      BY <1>1
    <2>2. (b + (j - 1)) % B = (a + m + (j - 1)) % B
      BY <1>6, <2>1
    <2>3. Tape(d)[j] = c.buffer[(b + j - 1) % B] /\ Tape(c)[m + j] = c.buffer[(a + (m + j) - 1) % B]
      BY <1>4, <1>5, <2>1
    <2> QED
      BY <2>1, <2>2, <2>3
  <1> HIDE DEF Tape
  <1>10. Tape(d) = SubSeq(Tape(c), m + 1, n)
    <2> DEFINE s == SubSeq(Tape(c), m + 1, n)
    <2>1. s \in Seq(Bytes) /\ Len(s) = n - m /\ \A j \in 1..(n - m) : s[j] = Tape(c)[m + j]
      BY <1>1, <1>4
    <2> HIDE DEF s
    <2>2. s = Tape(d)
      BY <1>5, <1>9, <2>1
    <2> QED
      BY <2>2 DEF s
  <1> QED
    BY <1>4, <1>8, <1>10

\* m bytes of buf are written.
Into(c, d, buf, m) ==
    /\ d.buffer = stored(c, buf, m) /\ d.read_idx = c.read_idx /\ d.in_use = c.in_use
    /\ d.write_idx = (c.write_idx + m) % PIPE_BUFFER_SIZE /\ d.count = c.count + m

\* The cell at distance y from the read index, seen from the write index.
LEMMA Distance ==
    ASSUME NEW B \in Nat, B > 0, NEW a \in Nat, a < B, NEW n \in Nat, n <= B,
           NEW w, w = (a + n) % B, NEW m \in Nat, m <= B - n, NEW y \in Nat, y < n + m,
           NEW h, h = (a + y) % B
    PROVE  /\ h \in 0..(B - 1)
           /\ y < n => (h - w + B) % B \in Nat /\ ~((h - w + B) % B < m)
           /\ ~(y < n) => (h - w + B) % B = y - n
  <1>1. \A x \in Nat : x < 2 * B => Once(x, B)
    BY GoesOnce
  <1>2. a + n \in Nat /\ a + n < 2 * B /\ a + y \in Nat /\ a + y < 2 * B
    OBVIOUS
  <1>3. Once(a + n, B)
    BY ONLY <1>1, <1>2, Zenon
  <1>4. Once(a + y, B)
    BY ONLY <1>1, <1>2, Zenon
  <1>5. /\ w = IF a + n < B THEN a + n ELSE a + n - B
        /\ h = IF a + y < B THEN a + y ELSE a + y - B
    BY <1>3, <1>4 DEF Once
  <1>6. h \in 0..(B - 1) /\ w \in 0..(B - 1)
    BY <1>2, <1>5
  <1> DEFINE g == h - w + B
  <1>7. g \in Nat /\ g < 2 * B
    BY <1>6
  <1>8. g % B = IF g < B THEN g ELSE g - B
    <2> HIDE DEF g
    <2>1. Once(g, B)
      BY ONLY <1>1, <1>7, Zenon
    <2> QED
      BY <2>1 DEF Once
  <1>9. g = h - w + B
    OBVIOUS
  <1> DEFINE z == g % B
  <1>10. z = g % B
    OBVIOUS
  <1> HIDE DEF g, z
  <1>11. z = IF g < B THEN g ELSE g - B
    BY <1>8, <1>10
  <1>12. y < n => z \in Nat /\ ~(z < m)
    BY ONLY <1>2, <1>5, <1>7, <1>9, <1>11, B \in Nat, B > 0, a \in Nat, a < B, n \in Nat, n <= B,
            m \in Nat, m <= B - n, y \in Nat
  <1>13. ~(y < n) => z = y - n
    BY ONLY <1>2, <1>5, <1>7, <1>9, <1>11, B \in Nat, B > 0, a \in Nat, a < B, n \in Nat, n <= B,
            m \in Nat, m <= B - n, y \in Nat, y < n + m
  <1> QED
    BY <1>6, <1>9, <1>10, <1>12, <1>13

LEMMA IntoTape ==
    ASSUME NEW c \in Pipe, NEW d \in Pipe, Spooled(c), c.in_use, NEW buf \in Seq(Bytes),
           NEW m \in Nat, m <= Len(buf), m <= PIPE_BUFFER_SIZE - c.count, Into(c, d, buf, m)
    PROVE  Spooled(d) /\ Tape(d) = Tape(c) \o SubSeq(buf, 1, m)
  <1> DEFINE B == PIPE_BUFFER_SIZE
             a == c.read_idx
             w == c.write_idx
             n == c.count
  <1>1. /\ B \in Nat /\ B > 0 /\ a \in Nat /\ a < B /\ w \in Nat /\ w < B
        /\ n \in Nat /\ n <= B
    BY Sizes
  <1>2. /\ d.read_idx = a /\ d.count = n + m /\ d.buffer = stored(c, buf, m)
        /\ d.write_idx = (w + m) % B
        /\ d.in_use = c.in_use /\ w = (a + n) % B
    BY DEF Into, Spooled
  <1>3. \A x \in Nat : x < 2 * B => Once(x, B)
    BY <1>1, GoesOnce
  <1>4. /\ Tape(c) \in Seq(Bytes) /\ Len(Tape(c)) = n
        /\ \A j \in 1..n : Tape(c)[j] = c.buffer[(a + j - 1) % B]
    BY TapeIs
  <1>5. /\ Tape(d) \in Seq(Bytes) /\ Len(Tape(d)) = n + m
        /\ \A j \in 1..(n + m) : Tape(d)[j] = d.buffer[(a + j - 1) % B]
    BY <1>2, TapeIs
  <1>6. \A h \in 0..(B - 1) :
           d.buffer[h] = IF (h - w + B) % B < m THEN buf[((h - w + B) % B) + 1] ELSE c.buffer[h]
    BY <1>2 DEF stored, Cells
  <1>7. m <= B - n
    OBVIOUS
  <1> HIDE DEF B, a, w, n
  <1>8. d.write_idx = (a + (n + m)) % B
    <2>1. a + n \in Nat /\ a + n < 2 * B /\ w + m \in Nat /\ w + m < 2 * B
          /\ a + (n + m) \in Nat /\ a + (n + m) < 2 * B
      BY <1>1, <1>7
    <2>2. Once(a + n, B)
      BY ONLY <2>1, <1>3, Zenon
    <2>3. Once(w + m, B)
      BY ONLY <2>1, <1>3, Zenon
    <2>4. Once(a + (n + m), B)
      BY ONLY <2>1, <1>3, Zenon
    <2> QED
      BY ONLY <1>1, <1>2, <1>7, m \in Nat, <2>1, <2>2, <2>3, <2>4 DEF Once
  <1>9. Spooled(d)
    BY <1>2, <1>8 DEF Spooled, a, B, n
  <1>10. ASSUME NEW j \in 1..(n + m)
         PROVE  /\ j <= n => Tape(d)[j] = Tape(c)[j]
                /\ ~(j <= n) => Tape(d)[j] = buf[j - n]
    <2> DEFINE y == j - 1
               h == (a + y) % B
    <2>1. y \in Nat /\ y < n + m /\ a + j - 1 = a + y /\ (j <= n <=> y < n)
      BY <1>1
    <2> HIDE DEF y
    <2>2. h = (a + y) % B
      OBVIOUS
    <2> HIDE DEF h
    <2>3. /\ h \in 0..(B - 1)
          /\ y < n => (h - w + B) % B \in Nat /\ ~((h - w + B) % B < m)
          /\ ~(y < n) => (h - w + B) % B = y - n
      <3>1. /\ B \in Nat /\ B > 0 /\ a \in Nat /\ a < B /\ n \in Nat /\ n <= B
            /\ m \in Nat /\ m <= B - n /\ y \in Nat /\ y < n + m
        BY ONLY <1>1, <1>7, m \in Nat, <2>1
      <3>2. w = (a + n) % B
        BY ONLY <1>2
      <3> QED
        BY ONLY <3>1, <3>2, <2>2, Distance
    <2>4. Tape(d)[j] = d.buffer[h]
      BY <1>5, <2>1, <2>2
    <2>5. j <= n => Tape(c)[j] = c.buffer[h]
      <3>1. j <= n => j \in 1..n
        BY <1>1
      <3>2. j <= n => Tape(c)[j] = c.buffer[(a + j - 1) % B]
        BY <1>4, <3>1
      <3> QED
        BY <2>1, <2>2, <3>2
    <2>6. CASE j <= n
      BY <1>6, <2>1, <2>3, <2>4, <2>5, <2>6
    <2>7. CASE ~(j <= n)
      <3>1. (h - w + B) % B = y - n /\ y - n < m /\ (y - n) + 1 = j - n
        BY <1>1, <2>1, <2>3, <2>7 DEF y
      <3>2. d.buffer[h] = buf[(y - n) + 1]
        BY <1>6, <2>3, <3>1
      <3> QED
        BY <2>4, <2>7, <3>1, <3>2
    <2> QED
      BY <2>6, <2>7
  <1> HIDE DEF Tape
  <1>11. Tape(d) = Tape(c) \o SubSeq(buf, 1, m)
    <2> DEFINE s == SubSeq(buf, 1, m)
               t == Tape(c) \o s
    <2>1. s \in Seq(Bytes) /\ Len(s) = m /\ \A j \in 1..m : s[j] = buf[j]
      BY <1>1
    <2> HIDE DEF s
    <2>2. /\ t \in Seq(Bytes) /\ Len(t) = n + m
          /\ \A j \in 1..(n + m) : t[j] = IF j <= n THEN Tape(c)[j] ELSE s[j - n]
      <3>1. Tape(c) \in Seq(Bytes) /\ Len(Tape(c)) = n /\ n \in Nat
        BY <1>1, <1>4
      <3> DEFINE u == Tape(c)
      <3> HIDE DEF u
      <3>2. u \in Seq(Bytes) /\ s \in Seq(Bytes) /\ Len(u) = n /\ Len(s) = m /\ m \in Nat
        BY <2>1, <3>1 DEF u
      <3>3. u \o s \in Seq(Bytes)
        BY ONLY <3>2
      <3>4. Len(u \o s) = Len(u) + Len(s)
        BY ONLY <3>2
      <3>5. \A j \in 1..(n + m) : (u \o s)[j] = IF j <= n THEN u[j] ELSE s[j - n]
        BY ONLY <3>1, <3>2
      <3>6. Len(u \o s) = n + m
        BY ONLY <3>2, <3>4
      <3> QED
        BY ONLY <3>3, <3>5, <3>6 DEF u
    <2>3. \A j \in 1..(n + m) : ~(j <= n) => s[j - n] = buf[j - n]
      BY <1>1, <2>1
    <2> HIDE DEF t
    <2>4. \A j \in 1..(n + m) : Tape(d)[j] = t[j]
      BY <1>10, <2>2, <2>3
    <2>5. Tape(d) = t
      BY <1>5, <2>2, <2>4
    <2> QED
      BY <2>5 DEF t, s
  <1> QED
    BY <1>9, <1>11

\* A pipe that was free is opened.
Reuses(c, d) == ~c.in_use /\ SameBytes(pipe_reset, d)

Stays(c, d) == Keeps(c, d) \/ Reuses(c, d)

LEMMA StaysKept ==
    ASSUME NEW c, NEW d, NEW e, Stays(c, d), Keeps(d, e)
    PROVE  Stays(c, e)
  BY DEF Stays, Keeps, Reuses, SameBytes

\* A pipe is opened, by name or the first that is free.
LEMMA StaysOpen ==
    ASSUME NEW k \in Tables, Wired(k), NEW name \in Names \cup {Anonymous},
           pipe_slot(k, name) # NULL
    PROVE  LET r == pipe_open(k, name)
           IN  /\ r \in Tables /\ Wired(r) /\ pipe_slot(k, name) \in PipeIds
               /\ \A j \in PipeIds : Stays(k.pipes[j], r.pipes[j])
  <1> DEFINE i == pipe_slot(k, name)
             c == k.pipes[i]
             a == [c EXCEPT !.opens = c.opens + 1]
             n == IF name = Anonymous THEN 0 ELSE 1
             b == [pipe_reset EXCEPT !.in_use = TRUE, !.name = name, !.opens = n]
             d == IF Found(k, name) # {} THEN a ELSE b
             r == [k EXCEPT !.pipes[i] = d]
  <1>1. Found(k, name) \subseteq PipeIds /\ FreePipes(k) \subseteq PipeIds
    BY DEF Found, FreePipes
  <1>2. /\ i \in PipeIds
        /\ Found(k, name) = {} => ~c.in_use
    <2>1. Found(k, name) \in SUBSET Nat /\ FreePipes(k) \in SUBSET Nat
      BY <1>1, IdsAreNat
    <2>2. CASE Found(k, name) # {}
      BY <1>1, <2>1, <2>2, FirstIn DEF pipe_slot
    <2>3. CASE Found(k, name) = {}
      <3>1. FreePipes(k) # {} /\ i = First(FreePipes(k))
        BY <2>3 DEF pipe_slot
      <3>2. i \in FreePipes(k)
        BY <2>1, <3>1, FirstIn
      <3> QED
        BY <3>2 DEF FreePipes
    <2> QED
      BY <2>2, <2>3
  <1>3. pipe_open(k, name) = r
    BY ONLY Zenon DEF pipe_open
  <1> HIDE DEF i
  <1>4. c \in Pipe /\ c.opens + 1 \in Nat
    <2>1. c \in Pipe
      BY <1>2, TableTypes
    <2> HIDE DEF c
    <2>2. c.opens \in Nat
      BY ONLY <2>1 DEF Pipe
    <2> QED
      BY ONLY <2>1, <2>2
  <1>5. a \in Pipe /\ Keeps(c, a)
    BY <1>4, NumberSet, FieldsKeep
  <1>6. b \in Pipe /\ SameBytes(pipe_reset, b)
    <2>1. n \in Nat /\ pipe_reset \in Pipe
      BY ResetIs
    <2> HIDE DEF n
    <2>2. b \in Pipe
      BY <2>1 DEF Pipe
    <2> QED
      BY <2>1, <2>2 DEF SameBytes, Pipe
  <1>7. d \in Pipe /\ Stays(c, d)
    BY <1>2, <1>5, <1>6 DEF Stays, Reuses
  <1> HIDE DEF d
  <1>8. Effect(k, r, i, d, {})
    BY <1>2, <1>7, SetPipe
  <1> HIDE DEF r
  <1>9. /\ r \in Tables /\ r.fds = k.fds /\ r.pipes[i] = d
        /\ \A j \in PipeIds \ {i} : r.pipes[j] = k.pipes[j]
    BY <1>8 DEF Effect
  <1>10. Wired(r)
    BY <1>9 DEF Wired
  <1>11. \A j \in PipeIds : Stays(k.pipes[j], r.pipes[j])
    BY <1>7, <1>9 DEF Stays, Keeps, SameBytes
  <1> QED
    BY <1>2, <1>3, <1>9, <1>10, <1>11 DEF i

LEMMA FreeFdIs ==
    ASSUME NEW k, FreeFds(k) # {}
    PROVE  First(FreeFds(k)) \in Fds
  <1>1. FreeFds(k) \in SUBSET Nat /\ FreeFds(k) \subseteq Fds
    BY IdsAreNat DEF FreeFds
  <1> QED
    BY <1>1, FirstIn

LEMMA KeptEnd ==
    ASSUME NEW k \in Tables, Wired(k), NEW i \in PipeIds, NEW type \in Types, FreeFds(k) # {}
    PROVE  AllKept(k, fd_create_pipe(k, i, type))
  <1> DEFINE f == First(FreeFds(k))
             d == [type |-> type, refcount |-> 0, data |-> i]
             m == [k EXCEPT !.fds[f] = d]
  <1>1. fd_create_pipe(k, i, type) = fd_incref(m, f)
    BY DEF fd_create_pipe
  <1>2. f \in Fds
    BY FreeFdIs
  <1> HIDE DEF f
  <1>3. d \in FD /\ d.data = i
    BY DEF FD, Types
  <1> HIDE DEF d
  <1>4. /\ m \in Tables /\ m.pipes = k.pipes /\ m.fds[f] = d
        /\ \A g \in Fds \ {f} : m.fds[g] = k.fds[g]
    BY <1>2, <1>3, SetFd
  <1> HIDE DEF m
  <1>5. Wired(m)
    BY <1>3, <1>4 DEF Wired
  <1>6. AllKept(k, m)
    BY <1>4, <1>5, KeptSame
  <1>7. AllKept(m, fd_incref(m, f))
    BY <1>2, <1>4, <1>5, KeptInc
  <1> QED
    BY <1>1, <1>6, <1>7, KeptThen

LEMMA KeptBothEnds ==
    ASSUME NEW k \in Tables, Wired(k), NEW p \in Pids, NEW i \in PipeIds
    PROVE  AllKept(k, pipe_create_fds(k, p, i))
  <1> DEFINE f == First(FreeFds(k))
             one == fd_create_pipe(k, i, "READ")
             g == First(FreeFds(one))
             both == fd_create_pipe(one, i, "WRITE")
             c == [both.procs[p] EXCEPT !.own = both.procs[p].own \cup {f, g}]
             r == [both EXCEPT !.procs[p] = c]
             q == pipe_create_fds(k, p, i)
  <1>1. q = IF FreeFds(k) = {} THEN k
            ELSE IF FreeFds(one) = {} THEN fd_decref(one, f)
            ELSE r
    BY DEF pipe_create_fds
  <1> HIDE DEF q
  <1>2. CASE FreeFds(k) = {}
    BY <1>1, <1>2, KeptSame DEF q
  <1>3. CASE FreeFds(k) # {}
    <2>1. f \in Fds
      BY <1>3, FreeFdIs
    <2> HIDE DEF f, one
    <2>2. "READ" \in Types /\ "WRITE" \in Types
      BY DEF Types
    <2>3. AllKept(k, one) /\ one \in Tables /\ Wired(one)
      BY <1>3, <2>2, KeptEnd DEF AllKept, one
    <2>4. CASE FreeFds(one) = {}
      <3>1. AllKept(one, fd_decref(one, f))
        BY <2>1, <2>3, KeptDec
      <3> QED
        BY <1>1, <1>3, <2>3, <2>4, <3>1, KeptThen DEF q
    <2>5. CASE FreeFds(one) # {}
      <3>1. g \in Fds
        BY <2>5, FreeFdIs
      <3> HIDE DEF g, both
      <3>2. AllKept(one, both) /\ both \in Tables /\ Wired(both)
        BY <2>2, <2>3, <2>5, KeptEnd DEF AllKept, both
      <3>3. c \in PCB
        <4>1. both.procs[p] \in PCB /\ both.procs[p].own \in SUBSET Fds
          BY <3>2, TableTypes, PCBFields
        <4>2. both.procs[p].own \cup {f, g} \in SUBSET Fds
          BY <2>1, <3>1, <4>1
        <4> QED
          BY <4>1, <4>2, OwnSet
      <3> HIDE DEF c
      <3>4. Becomes(both, r, p, c)
        BY <3>2, <3>3, SetProc
      <3> HIDE DEF r
      <3>5. AllKept(both, r)
        BY <3>2, <3>4, KeptBecomes
      <3>6. q = r
        BY <1>1, <1>3, <2>5
      <3> QED
        BY <2>3, <3>2, <3>5, <3>6, KeptThen DEF q
    <2> QED
      BY <2>4, <2>5
  <1> QED
    BY <1>2, <1>3

\* The first in a queue wakes up.
LEMMA KeptWakeReader ==
    ASSUME NEW k \in Tables, Wired(k), NEW i \in PipeIds
    PROVE  AllKept(k, pipe_wake_reader(k, i))
  <1> DEFINE c == k.pipes[i]
             a == [c EXCEPT !.wait_readers = Tail(c.wait_readers)]
             l == [k EXCEPT !.pipes[i] = a]
             W == {Head(c.wait_readers)}
  <1>1. CASE c.wait_readers = <<>>
    BY <1>1, KeptSame DEF pipe_wake_reader
  <1>2. CASE c.wait_readers # <<>>
    <2>1. pipe_wake_reader(k, i) = process_unblock(l, W)
      BY <1>2 DEF pipe_wake_reader
    <2>2. c \in Pipe /\ c.wait_readers \in Seq(Pids)
      BY TableTypes, PipeFields
    <2>3. Tail(c.wait_readers) \in Seq(Pids)
      BY <1>2, <2>2
    <2>4. a \in Pipe /\ Keeps(c, a)
      BY <2>2, <2>3, LineSet, FieldsKeep
    <2> HIDE DEF a, W
    <2>5. AllKept(k, l)
      BY <2>4, KeptSet
    <2> HIDE DEF l
    <2>6. AllKept(l, process_unblock(l, W))
      BY <2>5, KeptUnblock DEF AllKept
    <2> QED
      BY <2>1, <2>5, <2>6, KeptThen
  <1> QED
    BY <1>1, <1>2

LEMMA KeptWakeWriter ==
    ASSUME NEW k \in Tables, Wired(k), NEW i \in PipeIds
    PROVE  AllKept(k, pipe_wake_writer(k, i))
  <1> DEFINE c == k.pipes[i]
             a == [c EXCEPT !.wait_writers = Tail(c.wait_writers)]
             l == [k EXCEPT !.pipes[i] = a]
             W == {Head(c.wait_writers)}
  <1>1. CASE c.wait_writers = <<>>
    BY <1>1, KeptSame DEF pipe_wake_writer
  <1>2. CASE c.wait_writers # <<>>
    <2>1. pipe_wake_writer(k, i) = process_unblock(l, W)
      BY <1>2 DEF pipe_wake_writer
    <2>2. c \in Pipe /\ c.wait_writers \in Seq(Pids)
      BY TableTypes, PipeFields
    <2>3. Tail(c.wait_writers) \in Seq(Pids)
      BY <1>2, <2>2
    <2>4. a \in Pipe /\ Keeps(c, a)
      BY <2>2, <2>3, LineSet, FieldsKeep
    <2> HIDE DEF a, W
    <2>5. AllKept(k, l)
      BY <2>4, KeptSet
    <2> HIDE DEF l
    <2>6. AllKept(l, process_unblock(l, W))
      BY <2>5, KeptUnblock DEF AllKept
    <2> QED
      BY <2>1, <2>5, <2>6, KeptThen
  <1> QED
    BY <1>1, <1>2

\* A process goes to sleep at a pipe.
LEMMA KeptAsleep ==
    ASSUME NEW k \in Tables, Wired(k), NEW i \in PipeIds, NEW p \in Pids, NEW s \in Sides
    PROVE  AllKept(k, FallsAsleep(k, p, i, s))
  <1>1. Asleeping(k.procs[p], i, s) \in PCB
    BY TableTypes, AsleepingIs
  <1>2. Becomes(k, WithProc(k, p, Asleeping(k.procs[p], i, s)), p, Asleeping(k.procs[p], i, s))
    BY <1>1, SetProc DEF WithProc
  <1> QED
    BY <1>2, AsleepingSet, KeptBecomes

LEMMA KeptSleep ==
    ASSUME NEW k \in Tables, Wired(k), NEW i \in PipeIds, NEW p \in Pids
    PROVE  AllKept(k, sleep_reading(k, p, i)) /\ AllKept(k, sleep_writing(k, p, i))
  <1> DEFINE c == k.pipes[i]
             a == [c EXCEPT !.wait_readers = queue_push(c.wait_readers, p)]
             b == [c EXCEPT !.wait_writers = queue_push(c.wait_writers, p)]
             l == [k EXCEPT !.pipes[i] = a]
             m == [k EXCEPT !.pipes[i] = b]
  <1>1. c \in Pipe /\ c.wait_readers \in Seq(Pids) /\ c.wait_writers \in Seq(Pids)
    BY TableTypes, PipeFields
  <1>2. /\ queue_push(c.wait_readers, p) \in Seq(Pids)
        /\ queue_push(c.wait_writers, p) \in Seq(Pids)
    BY <1>1, AppendQueue DEF queue_push
  <1>3. a \in Pipe /\ b \in Pipe /\ Keeps(c, a) /\ Keeps(c, b)
    BY <1>1, <1>2, LineSet, FieldsKeep
  <1>4. /\ sleep_reading(k, p, i) = FallsAsleep(l, p, i, "readers")
        /\ sleep_writing(k, p, i) = FallsAsleep(m, p, i, "writers")
    BY DEF sleep_reading, sleep_writing, FallsAsleep
  <1> HIDE DEF a, b
  <1>5. AllKept(k, l) /\ AllKept(k, m)
    BY <1>3, KeptSet
  <1> HIDE DEF l, m
  <1>6. /\ AllKept(l, FallsAsleep(l, p, i, "readers"))
        /\ AllKept(m, FallsAsleep(m, p, i, "writers"))
    BY <1>5, KeptAsleep DEF AllKept, Sides
  <1> QED
    BY <1>4, <1>5, <1>6, KeptThen


\* One pipe changes from c to d, and then nothing but what leaves bytes alone.
Passing(k, r, i, d) ==
    \E l \in Tables : /\ l.pipes[i] = d /\ d \in Pipe
                      /\ \A j \in PipeIds \ {i} : l.pipes[j] = k.pipes[j]
                      /\ AllKept(l, r)

\* What a read does to the pipes: it is refused or sleeps, or takes bytes.
Drains(k, r, i, n) ==
    LET c == k.pipes[i]
    IN  \/ AllKept(k, r) /\ c.count = 0
        \/ c.count > 0 /\ \E d : Out(c, d, Least(n, c.count)) /\ Passing(k, r, i, d)

LEMMA ReadDrains ==
    ASSUME NEW k \in Tables, Wired(k), NEW i \in PipeIds, NEW p \in Pids, NEW n \in Nat
    PROVE  Drains(k, pipe_read(k, p, i, n), i, n)
  <1> DEFINE c == k.pipes[i]
             m == Least(n, c.count)
             d == [[c EXCEPT !.read_idx = (c.read_idx + m) % PIPE_BUFFER_SIZE]
                       EXCEPT !.count = c.count - m]
             l == [k EXCEPT !.pipes[i] = d]
             r == pipe_read(k, p, i, n)
  <1>1. c \in Pipe /\ c.count \in Nat
    BY TableTypes, Sizes
  <1>2. CASE c.count > 0
    <2>1. r = pipe_wake_writer(l, i)
      <3>1. [k EXCEPT !.pipes[i].read_idx = (@ + m) % PIPE_BUFFER_SIZE,
                      !.pipes[i].count = @ - m] = l
        BY DEF Tables
      <3> HIDE DEF l, m
      <3> QED
        BY <1>2, <3>1 DEF pipe_read, m
    <2>2. d \in Pipe
      BY <1>1, BytesOut
    <2>3. Out(c, d, m)
      <3> HIDE DEF m
      <3> QED
        BY <1>1 DEF Out, Pipe
    <2> HIDE DEF d, r
    <2>4. Effect(k, l, i, d, {})
      BY <2>2, SetPipe
    <2> HIDE DEF l
    <2>5. l \in Tables /\ l.fds = k.fds /\ l.pipes[i] = d
          /\ \A j \in PipeIds \ {i} : l.pipes[j] = k.pipes[j]
      BY <2>4 DEF Effect
    <2>6. Wired(l)
      BY <2>5 DEF Wired
    <2>7. AllKept(l, r)
      BY <2>1, <2>5, <2>6, KeptWakeWriter
    <2>8. Passing(k, r, i, d)
      BY <2>2, <2>5, <2>7 DEF Passing
    <2> QED
      BY <1>2, <2>3, <2>8 DEF Drains, r
  <1>3. CASE ~(c.count > 0)
    <2>1. r = k \/ r = sleep_reading(k, p, i)
      BY <1>3 DEF pipe_read
    <2> HIDE DEF r
    <2>2. AllKept(k, r)
      BY <2>1, KeptSame, KeptSleep
    <2>3. c.count = 0
      BY <1>1, <1>3
    <2> QED
      BY <2>2, <2>3 DEF Drains, r
  <1> QED
    BY <1>2, <1>3

\* What a write does to the pipes: it is refused or sleeps, or brings bytes to
\* a reader.
Fills(k, r, i, buf) ==
    LET c == k.pipes[i]
        m == bytes_written(k, i, buf)
    IN  /\ m \in Nat /\ m <= Len(buf) /\ m <= PIPE_BUFFER_SIZE - c.count
        /\ \/ AllKept(k, r) /\ m = 0
           \/ c.open_read # 0 /\ \E d : Into(c, d, buf, m) /\ Passing(k, r, i, d)

LEMMA WriteFills ==
    ASSUME NEW k \in Tables, Wired(k), NEW i \in PipeIds, NEW p \in Pids, NEW buf \in Seq(Bytes)
    PROVE  Fills(k, pipe_write(k, p, i, buf), i, buf)
  <1> DEFINE c == k.pipes[i]
             m == bytes_written(k, i, buf)
             d == [[[c EXCEPT !.buffer = stored(c, buf, m)]
                        EXCEPT !.write_idx = (c.write_idx + m) % PIPE_BUFFER_SIZE]
                        EXCEPT !.count = c.count + m]
             l == [k EXCEPT !.pipes[i] = d]
             r == pipe_write(k, p, i, buf)
  <1>1. c \in Pipe /\ c.count \in Nat /\ c.count <= PIPE_BUFFER_SIZE /\ PIPE_BUFFER_SIZE \in Nat
    BY TableTypes, Sizes
  <1>2. m \in Nat /\ m <= Len(buf) /\ m <= PIPE_BUFFER_SIZE - c.count
    <2>1. m = 0 \/ m = Least(Len(buf), PIPE_BUFFER_SIZE - c.count)
      BY DEF bytes_written
    <2>2. Len(buf) \in Nat
      OBVIOUS
    <2> HIDE DEF m, c
    <2> QED
      BY <1>1, <2>1, <2>2 DEF Least
  <1>3. CASE ~Refused(k, i) /\ ~WriteSleeps(k, i)
    <2>1. r = pipe_wake_reader(l, i)
      <3>1. [k EXCEPT !.pipes[i].buffer = stored(k.pipes[i], buf, m),
                      !.pipes[i].write_idx = (@ + m) % PIPE_BUFFER_SIZE,
                      !.pipes[i].count = @ + m] = l
        <4> HIDE DEF m
        <4> QED
          BY DEF Tables
      <3> HIDE DEF l, m
      <3> QED
        BY <1>3, <3>1 DEF pipe_write, m
    <2>2. d \in Pipe
      <3> HIDE DEF m, c
      <3> QED
        BY <1>1, <1>2, BytesIn
    <2>3. Into(c, d, buf, m)
      <3> HIDE DEF m
      <3> QED
        BY <1>1 DEF Into, Pipe
    <2>4. c.open_read # 0
      BY <1>3 DEF Refused, WriteSleeps, NoReader
    <2> HIDE DEF d, r
    <2>5. Effect(k, l, i, d, {})
      BY <2>2, SetPipe
    <2> HIDE DEF l
    <2>6. l \in Tables /\ l.fds = k.fds /\ l.pipes[i] = d
          /\ \A j \in PipeIds \ {i} : l.pipes[j] = k.pipes[j]
      BY <2>5 DEF Effect
    <2>7. Wired(l)
      BY <2>6 DEF Wired
    <2>8. AllKept(l, r)
      BY <2>1, <2>6, <2>7, KeptWakeReader
    <2>9. Passing(k, r, i, d)
      BY <2>2, <2>6, <2>8 DEF Passing
    <2> HIDE DEF m
    <2> QED
      BY <1>2, <2>3, <2>4, <2>9 DEF Fills, r, m
  <1>4. CASE Refused(k, i) \/ WriteSleeps(k, i)
    <2>1. r = k \/ r = sleep_writing(k, p, i)
      BY <1>4 DEF pipe_write
    <2> HIDE DEF r
    <2>2. AllKept(k, r)
      BY <2>1, KeptSame, KeptSleep
    <2>3. m = 0
      BY <1>4 DEF bytes_written
    <2> HIDE DEF m
    <2> QED
      BY <1>2, <2>2, <2>3 DEF Fills, r, m
  <1> QED
    BY <1>3, <1>4
=============================================================================
