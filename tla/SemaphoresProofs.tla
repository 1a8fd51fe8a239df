-------------------------- MODULE SemaphoresProofs --------------------------
(***************************************************************************)
(* Proofs about the named semaphores (module Semaphores), for any number   *)
(* of processes, names and slots.  The last part is about one name (module *)
(* NamedSemaphore) and alone uses NamedAssumption.                         *)
(***************************************************************************)
EXTENDS NamedSemaphore, WaitQueueProofs

\* The two tables.
Tables == [sems : [Sems -> Semaphore], procs : [Pids -> PCB]]

-----------------------------------------------------------------------------
(***************************************************************************)
(* What the operations do, field by field, and that they keep the types.   *)
(***************************************************************************)
SlotIs(s, name, value, initial, queue, count) ==
    /\ s.name = name /\ s.value = value /\ s.initial = initial
    /\ s.queue = queue /\ s.open_count = count

PCBIs(c, state, held, opened, waits) ==
    c.state = state /\ c.held = held /\ c.opened = opened /\ c.waits = waits

\* From k to r only slot i and process p change.
Only(k, r, i, p) ==
    /\ r \in Tables
    /\ \A j \in Sems \ {i} : r.sems[j] = k.sems[j]
    /\ \A q \in Pids \ {p} : r.procs[q] = k.procs[q]

LEMMA SemsAreNat == Sems \subseteq Nat /\ NULL \notin Sems /\ IsFiniteSet(Sems)
  <1>1. Sems \subseteq Nat /\ NULL \notin Sems
    BY SemaphoresAssumption DEF Sems, NULL
  <1>2. 0 \in Int /\ MAX_SEMS - 1 \in Int
    BY SemaphoresAssumption
  <1> QED
    BY <1>1, <1>2, FS_Interval DEF Sems

LEMMA FreeSemType ==
    /\ FreeSem \in Semaphore /\ FreeSem.queue = <<>> /\ FreeSem.open_count = 0
    /\ FreeSem.value = 0
  <1>1. (CHOOSE n \in Names : TRUE) \in Names
    BY SemaphoresAssumption
  <1>2. <<>> \in Seq(Pids)
    OBVIOUS
  <1> QED
    BY <1>1, <1>2 DEF FreeSem, Semaphore

LEMMA FirstIn ==
    ASSUME NEW S \in SUBSET Sems, S # {}
    PROVE  First(S) \in S
  <1>1. S \in SUBSET Nat
    BY SemsAreNat
  <1>2. \E x \in S : \A y \in S : x <= y
    BY <1>1, LeastNat
  <1> QED
    BY <1>2 DEF First

\* find_sem returns an open slot of that name, or none has it.
LEMMA FindSem ==
    ASSUME NEW k \in Tables, NEW name
    PROVE  \/ /\ find_sem(k, name) = NULL
              /\ \A i \in Open(k) : k.sems[i].name # name
           \/ /\ find_sem(k, name) \in Open(k)
              /\ k.sems[find_sem(k, name)].name = name
  <1> DEFINE found == {i \in Open(k) : k.sems[i].name = name}
  <1>1. found \in SUBSET Sems
    BY DEF Open
  <1>2. find_sem(k, name) = IF found = {} THEN NULL ELSE First(found)
    BY DEF find_sem
  <1>3. CASE found = {}
    BY <1>2, <1>3
  <1>4. CASE found # {}
    <2>1. First(found) \in found
      BY <1>1, <1>4, FirstIn
    <2> QED
      BY <1>2, <1>4, <2>1
  <1> QED
    BY <1>3, <1>4

\* The slot that sem_open uses.
opened_slot(k, name) ==
    IF find_sem(k, name) # NULL THEN find_sem(k, name) ELSE First(FreeSlots(k))

LEMMA OpenedSlot ==
    ASSUME NEW k \in Tables, NEW name, find_sem(k, name) # NULL \/ FreeSlots(k) # {}
    PROVE  /\ opened_slot(k, name) \in Sems
           /\ find_sem(k, name) = NULL => opened_slot(k, name) \notin Open(k)
           /\ find_sem(k, name) # NULL => /\ opened_slot(k, name) \in Open(k)
                                          /\ opened_slot(k, name) = find_sem(k, name)
                                          /\ k.sems[opened_slot(k, name)].name = name
  <1>1. FreeSlots(k) \in SUBSET Sems /\ Open(k) \subseteq Sems
    BY DEF FreeSlots, Open
  <1>2. CASE find_sem(k, name) # NULL
    BY <1>1, <1>2, FindSem DEF opened_slot
  <1>3. CASE find_sem(k, name) = NULL
    <2>1. First(FreeSlots(k)) \in FreeSlots(k)
      BY <1>1, <1>3, FirstIn
    <2> QED
      BY <1>1, <1>3, <2>1 DEF opened_slot, FreeSlots
  <1> QED
    BY <1>2, <1>3

OpenStep(k, r, p, name, v) ==
    LET i == opened_slot(k, name)
        s == k.sems[i]
        c == k.procs[p]
    IN  /\ Only(k, r, i, p)
        /\ find_sem(k, name) # NULL =>
              SlotIs(r.sems[i], s.name, s.value, s.initial, s.queue, s.open_count + 1)
        /\ find_sem(k, name) = NULL => SlotIs(r.sems[i], Truncate[name], v, v, <<>>, 1)
        /\ PCBIs(r.procs[p], c.state, c.held, c.opened \cup {i}, c.waits)

LEMMA OpenIs ==
    ASSUME NEW k \in Tables, NEW p \in Pids, NEW name \in Names, NEW v \in InitialValues,
           find_sem(k, name) # NULL \/ FreeSlots(k) # {}
    PROVE  OpenStep(k, sem_open(k, p, name, v), p, name, v)
  <1> DEFINE i == opened_slot(k, name)
             s == IF find_sem(k, name) # NULL
                    THEN [k.sems[i] EXCEPT !.open_count = @ + 1]
                    ELSE [name |-> Truncate[name], value |-> v, initial |-> v,
                          queue |-> <<>>, open_count |-> 1]
             c == [k.procs[p] EXCEPT !.opened = @ \cup {i}]
  <1>1. i \in Sems
    BY OpenedSlot
  <1>2. sem_open(k, p, name, v) = [sems |-> [k.sems EXCEPT ![i] = s],
                                   procs |-> [k.procs EXCEPT ![p].opened = @ \cup {i}]]
    BY DEF sem_open, opened_slot
  <1>3. k.sems \in [Sems -> Semaphore] /\ k.procs \in [Pids -> PCB]
    BY DEF Tables
  <1>4. s \in Semaphore
    <2>1. Truncate[name] \in Names /\ v \in Nat /\ v \in Int /\ <<>> \in Seq(Pids)
      BY SemaphoresAssumption
    <2>2. k.sems[i] \in Semaphore
      BY <1>1, <1>3
    <2> HIDE DEF i
    <2> QED
      BY <2>1, <2>2 DEF Semaphore
  <1>5. c \in PCB
    <2>1. k.procs[p] \in PCB
      BY <1>3
    <2> HIDE DEF i
    <2> QED
      BY <1>1, <2>1 DEF PCB
  <1>6. [k.procs EXCEPT ![p].opened = @ \cup {i}] = [k.procs EXCEPT ![p] = c]
    OBVIOUS
  <1> HIDE DEF i, s, c
  <1>7. sem_open(k, p, name, v) = [sems |-> [k.sems EXCEPT ![i] = s],
                                   procs |-> [k.procs EXCEPT ![p] = c]]
    BY <1>2, <1>6
  <1> DEFINE r == sem_open(k, p, name, v)
  <1> HIDE DEF r
  <1>8. Only(k, r, i, p) /\ r.sems[i] = s /\ r.procs[p] = c
    BY <1>1, <1>3, <1>4, <1>5, <1>7 DEF Tables, Only, r
  <1>9. PCBIs(r.procs[p], k.procs[p].state, k.procs[p].held, k.procs[p].opened \cup {i},
              k.procs[p].waits)
    BY <1>3, <1>8 DEF PCBIs, PCB, c
  <1>10. k.sems[i] \in Semaphore
    BY <1>1, <1>3
  <1>11. ASSUME find_sem(k, name) # NULL
         PROVE  SlotIs(r.sems[i], k.sems[i].name, k.sems[i].value, k.sems[i].initial,
                       k.sems[i].queue, k.sems[i].open_count + 1)
    BY <1>8, <1>10, <1>11 DEF SlotIs, Semaphore, s
  <1>12. ASSUME find_sem(k, name) = NULL
         PROVE  SlotIs(r.sems[i], Truncate[name], v, v, <<>>, 1)
    BY <1>8, <1>12 DEF SlotIs, s
  <1> QED
    BY <1>8, <1>9, <1>11, <1>12 DEF OpenStep, i, r

\* A slot with another value and another line.
LEMMA SlotType ==
    ASSUME NEW s \in Semaphore, NEW v \in Int, NEW q \in Seq(Pids)
    PROVE  /\ [s EXCEPT !.value = v, !.queue = q] \in Semaphore
           /\ [s EXCEPT !.value = v] \in Semaphore
           /\ [s EXCEPT !.value = v] = [s EXCEPT !.value = v, !.queue = s.queue]
           /\ s.value \in Int /\ s.queue \in Seq(Pids)
  BY DEF Semaphore

WaitStep(k, r, p, i) ==
    LET s == k.sems[i]
        c == k.procs[p]
        line == IF Len(s.queue) >= MAX_PROCESSES THEN s.queue ELSE Append(s.queue, p)
    IN  /\ Only(k, r, i, p)
        /\ s.value - 1 < 0 =>
              /\ SlotIs(r.sems[i], s.name, s.value - 1, s.initial, line, s.open_count)
              /\ PCBIs(r.procs[p], "BLOCKED", c.held, c.opened, i)
        /\ ~(s.value - 1 < 0) =>
              /\ SlotIs(r.sems[i], s.name, s.value - 1, s.initial, s.queue, s.open_count)
              /\ PCBIs(r.procs[p], c.state, c.held \cup {i}, c.opened, c.waits)

LEMMA WaitIs ==
    ASSUME NEW k \in Tables, NEW p \in Pids, NEW i \in Sems
    PROVE  WaitStep(k, sem_wait(k, p, i), p, i)
  <1> DEFINE s == k.sems[i]
             line == IF Len(s.queue) >= MAX_PROCESSES THEN s.queue ELSE Append(s.queue, p)
             s1 == [s EXCEPT !.value = @ - 1, !.queue = line]
             s2 == [s EXCEPT !.value = @ - 1]
             c1 == [k.procs[p] EXCEPT !.state = "BLOCKED", !.waits = i]
             c2 == [k.procs[p] EXCEPT !.held = @ \cup {i}]
             r == sem_wait(k, p, i)
  <1>1. k.sems \in [Sems -> Semaphore] /\ k.procs \in [Pids -> PCB] /\ s \in Semaphore
        /\ k.procs[p] \in PCB
    BY DEF Tables
  <1>2. line \in Seq(Pids)
    BY <1>1 DEF Semaphore
  <1>3. s1 \in Semaphore /\ s2 \in Semaphore
    <2> HIDE DEF line
    <2>1. s.value \in Int /\ s.value - 1 \in Int
      BY <1>1 DEF Semaphore
    <2> HIDE DEF s
    <2> QED
      BY <1>1, <1>2, <2>1, SlotType
  <1>4. c1 \in PCB /\ c2 \in PCB
    BY <1>1 DEF PCB
  <1>5. CASE s.value - 1 < 0
    <2>1. r = [sems |-> [k.sems EXCEPT ![i] = s1], procs |-> [k.procs EXCEPT ![p] = c1]]
      BY <1>1, <1>5 DEF sem_wait
    <2> HIDE DEF s, line, s1, c1, r
    <2>2. Only(k, r, i, p) /\ r.sems[i] = s1 /\ r.procs[p] = c1
      BY <1>1, <1>3, <1>4, <2>1 DEF Tables, Only
    <2>3. SlotIs(r.sems[i], s.name, s.value - 1, s.initial, line, s.open_count)
      BY <1>1, <2>2 DEF SlotIs, Semaphore, s1
    <2>4. PCBIs(r.procs[p], "BLOCKED", k.procs[p].held, k.procs[p].opened, i)
      BY <1>1, <2>2 DEF PCBIs, PCB, c1
    <2> QED
      BY <1>5, <2>2, <2>3, <2>4 DEF WaitStep, r, s, line
  <1>6. CASE ~(s.value - 1 < 0)
    <2>1. r = [sems |-> [k.sems EXCEPT ![i] = s2], procs |-> [k.procs EXCEPT ![p] = c2]]
      BY <1>1, <1>6 DEF sem_wait
    <2> HIDE DEF s, line, s2, c2, r
    <2>2. Only(k, r, i, p) /\ r.sems[i] = s2 /\ r.procs[p] = c2
      BY <1>1, <1>3, <1>4, <2>1 DEF Tables, Only
    <2>3. SlotIs(r.sems[i], s.name, s.value - 1, s.initial, s.queue, s.open_count)
      BY <1>1, <2>2 DEF SlotIs, Semaphore, s2
    <2>4. PCBIs(r.procs[p], k.procs[p].state, k.procs[p].held \cup {i}, k.procs[p].opened,
                k.procs[p].waits)
      BY <1>1, <2>2 DEF PCBIs, PCB, c2
    <2> QED
      BY <1>6, <2>2, <2>3, <2>4 DEF WaitStep, r, s
  <1> QED
    BY <1>5, <1>6

\* A unit that comes back goes to somebody in line.
Hands(s) == s.value + 1 <= 0 /\ s.queue # <<>>

\* Who gets it, and what becomes of him.
handed(c, i) == [process_unblock(c) EXCEPT !.held = @ \cup {i}]

LEMMA UnblockType ==
    ASSUME NEW c \in PCB
    PROVE  /\ process_unblock(c) \in PCB
           /\ process_unblock(c).held = c.held /\ process_unblock(c).opened = c.opened
           /\ c.state = "BLOCKED" => /\ process_unblock(c).state = "READY"
                                     /\ process_unblock(c).waits = NULL
  BY DEF process_unblock, PCB

LEMMA HandedType ==
    ASSUME NEW c \in PCB, NEW i \in Sems
    PROVE  /\ handed(c, i) \in PCB
           /\ handed(c, i).held = c.held \cup {i}
           /\ handed(c, i).opened = c.opened
           /\ c.state = "BLOCKED" => handed(c, i).state = "READY" /\ handed(c, i).waits = NULL
           /\ c.state # "BLOCKED" => handed(c, i).state = c.state /\ handed(c, i).waits = c.waits
  BY DEF handed, process_unblock, PCB

GiveStep(k, r, i) ==
    LET s == k.sems[i]
    IN  /\ r \in Tables
        /\ \A j \in Sems \ {i} : r.sems[j] = k.sems[j]
        /\ SlotIs(r.sems[i], s.name, s.value + 1, s.initial,
                  IF Hands(s) THEN Tail(s.queue) ELSE s.queue, s.open_count)
        /\ \A q \in Pids : r.procs[q] =
              IF Hands(s) /\ q = Head(s.queue) /\ k.procs[q].state # "FREE"
                THEN handed(k.procs[q], i)
                ELSE k.procs[q]

LEMMA GiveIs ==
    ASSUME NEW k \in Tables, NEW i \in Sems
    PROVE  GiveStep(k, give(k, i), i)
  <1> DEFINE s == k.sems[i]
             r == give(k, i)
             t == [s EXCEPT !.value = @ + 1, !.queue = IF Hands(s) THEN Tail(@) ELSE @]
             c(q) == IF Hands(s) /\ q = Head(s.queue) /\ k.procs[q].state # "FREE"
                       THEN handed(k.procs[q], i)
                       ELSE k.procs[q]
  <1>1. k.sems \in [Sems -> Semaphore] /\ k.procs \in [Pids -> PCB] /\ s \in Semaphore
    BY DEF Tables
  <1>2. t \in Semaphore
    <2>1. s.value + 1 \in Int /\ s.queue \in Seq(Pids)
      BY <1>1 DEF Semaphore
    <2> DEFINE line == IF Hands(s) THEN Tail(s.queue) ELSE s.queue
    <2>2. line \in Seq(Pids)
      BY <2>1, TailQueue DEF Hands
    <2> HIDE DEF line
    <2>3. [s EXCEPT !.value = s.value + 1, !.queue = line] \in Semaphore
      BY <1>1, <2>1, <2>2, SlotType
    <2> QED
      BY <2>3 DEF line
  <1>3. \A q \in Pids : c(q) \in PCB
    BY <1>1, HandedType
  <1>4. r = [sems |-> [k.sems EXCEPT ![i] = t], procs |-> [q \in Pids |-> c(q)]]
    <2>1. CASE Hands(s)
      BY <1>1, <2>1 DEF give, Hands, handed, Semaphore
    <2>2. CASE ~Hands(s)
      <3>1. r = [k EXCEPT !.sems[i].value = @ + 1]
        BY <2>2 DEF give, Hands
      <3>2. [q \in Pids |-> c(q)] = k.procs
        BY <1>1, <2>2
      <3>3. [k.sems EXCEPT ![i].value = @ + 1] = [k.sems EXCEPT ![i] = t]
        BY <1>1, <2>2 DEF Semaphore
      <3> QED
        BY <3>1, <3>2, <3>3 DEF Tables
    <2> QED
      BY <2>1, <2>2
  <1> HIDE DEF t, r, c
  <1>5. /\ r \in Tables
        /\ \A j \in Sems \ {i} : r.sems[j] = k.sems[j]
        /\ r.sems[i] = t
        /\ \A q \in Pids : r.procs[q] = c(q)
    BY <1>1, <1>2, <1>3, <1>4 DEF Tables
  <1> DEFINE line == IF Hands(s) THEN Tail(s.queue) ELSE s.queue
  <1>6. t = [s EXCEPT !.value = s.value + 1, !.queue = line]
    BY DEF t
  <1> HIDE DEF line, s
  <1>7. SlotIs(r.sems[i], s.name, s.value + 1, s.initial, line, s.open_count)
    BY <1>1, <1>5, <1>6 DEF SlotIs, Semaphore
  <1> QED
    BY <1>5, <1>7 DEF GiveStep, s, line, r, c

\* What sem_post takes from p before it gives.
DropStep(k, d, p, i) ==
    LET c == k.procs[p]
    IN  /\ d \in Tables
        /\ d.sems = k.sems
        /\ \A q \in Pids \ {p} : d.procs[q] = k.procs[q]
        /\ PCBIs(d.procs[p], c.state, c.held \ {i}, c.opened, c.waits)

LEMMA PostIs ==
    ASSUME NEW k \in Tables, NEW p \in Pids, NEW i \in Sems
    PROVE  \E d : DropStep(k, d, p, i) /\ sem_post(k, p, i) = give(d, i)
  <1> DEFINE c == [k.procs[p] EXCEPT !.held = @ \ {i}]
             d == [k EXCEPT !.procs[p].held = @ \ {i}]
  <1>1. k.sems \in [Sems -> Semaphore] /\ k.procs \in [Pids -> PCB]
    BY DEF Tables
  <1>2. c \in PCB
    BY <1>1 DEF PCB
  <1>3. d = [sems |-> k.sems, procs |-> [k.procs EXCEPT ![p] = c]]
    <2> DEFINE t == [k.procs EXCEPT ![p].held = @ \ {i}]
    <2>1. t = [k.procs EXCEPT ![p] = c]
      OBVIOUS
    <2>2. d = [k EXCEPT !.procs = t]
      OBVIOUS
    <2> HIDE DEF t, c, d
    <2> QED
      BY <2>1, <2>2 DEF Tables
  <1>4. sem_post(k, p, i) = give(d, i)
    BY DEF sem_post
  <1> HIDE DEF c, d
  <1>5. /\ d \in Tables
        /\ d.sems = k.sems
        /\ \A q \in Pids \ {p} : d.procs[q] = k.procs[q]
        /\ d.procs[p] = c
    BY <1>1, <1>2, <1>3 DEF Tables
  <1>6. k.procs[p] \in PCB
    BY <1>1
  <1>7. PCBIs(d.procs[p], k.procs[p].state, k.procs[p].held \ {i}, k.procs[p].opened,
              k.procs[p].waits)
    BY <1>5, <1>6 DEF PCBIs, PCB, c
  <1>8. DropStep(k, d, p, i)
    BY <1>5, <1>7 DEF DropStep
  <1> QED
    BY <1>4, <1>8

LEMMA SettleType ==
    ASSUME NEW s \in Semaphore
    PROVE  /\ Settle(s) \in Semaphore
           /\ Settle(s).open_count = s.open_count
           /\ s.open_count # 0 => Settle(s) = s
           /\ s.open_count = 0 => Settle(s) = FreeSem
  BY FreeSemType DEF Settle

CloseStep(k, r, p, i) ==
    LET s == k.sems[i]
        c == k.procs[p]
    IN  /\ Only(k, r, i, p)
        /\ IF s.open_count = 1 THEN r.sems[i] = FreeSem
           ELSE SlotIs(r.sems[i], s.name, s.value, s.initial, s.queue, s.open_count - 1)
        /\ PCBIs(r.procs[p], c.state, c.held \ {i}, c.opened \ {i}, c.waits)

LEMMA CloseIs ==
    ASSUME NEW k \in Tables, NEW p \in Pids, NEW i \in Open(k)
    PROVE  CloseStep(k, sem_close(k, p, i), p, i)
  <1> DEFINE s == [k.sems[i] EXCEPT !.open_count = @ - 1]
             c == [k.procs[p] EXCEPT !.held = @ \ {i}, !.opened = @ \ {i}]
             r == sem_close(k, p, i)
  <1>1. /\ k.sems \in [Sems -> Semaphore] /\ k.procs \in [Pids -> PCB]
        /\ i \in Sems /\ k.sems[i].open_count > 0
    BY DEF Tables, Open
  <1>2. s \in Semaphore /\ c \in PCB
    <2>0. k.sems[i] \in Semaphore /\ k.sems[i].open_count > 0
      BY <1>1
    <2>1. s \in Semaphore
      BY <2>0 DEF Semaphore
    <2>2. k.procs[p] \in PCB
      BY <1>1
    <2>3. c \in PCB
      BY <2>2 DEF PCB
    <2> QED
      BY <2>1, <2>3
  <1>3. r = [sems |-> [k.sems EXCEPT ![i] = Settle(s)], procs |-> [k.procs EXCEPT ![p] = c]]
    <2> DEFINE t == [k.procs EXCEPT ![p].held = @ \ {i}, ![p].opened = @ \ {i}]
    <2>1. t = [k.procs EXCEPT ![p] = c]
      BY <1>1
    <2>2. r = [sems |-> [k.sems EXCEPT ![i] = Settle(s)], procs |-> t]
      BY DEF sem_close
    <2> HIDE DEF t, c, r, s
    <2> QED
      BY <2>1, <2>2
  <1> HIDE DEF s, c, r
  <1>4. Settle(s) \in Semaphore
    BY <1>2, SettleType
  <1>5. /\ r \in Tables
        /\ \A j \in Sems \ {i} : r.sems[j] = k.sems[j]
        /\ r.sems[i] = Settle(s)
        /\ \A q \in Pids \ {p} : r.procs[q] = k.procs[q]
        /\ r.procs[p] = c
    BY <1>1, <1>2, <1>3, <1>4 DEF Tables
  <1>6. k.sems[i] \in Semaphore /\ k.procs[p] \in PCB
    BY <1>1
  <1>7. SlotIs(s, k.sems[i].name, k.sems[i].value, k.sems[i].initial, k.sems[i].queue,
               k.sems[i].open_count - 1)
    BY <1>6 DEF SlotIs, Semaphore, s
  <1>8. IF k.sems[i].open_count = 1 THEN r.sems[i] = FreeSem ELSE r.sems[i] = s
    <2>1. s.open_count = k.sems[i].open_count - 1 /\ k.sems[i].open_count \in Nat
      BY <1>6, <1>7 DEF SlotIs, Semaphore
    <2> QED
      BY <1>2, <1>5, <2>1, SettleType
  <1>9. PCBIs(r.procs[p], k.procs[p].state, k.procs[p].held \ {i}, k.procs[p].opened \ {i},
              k.procs[p].waits)
    BY <1>5, <1>6 DEF PCBIs, PCB, c
  <1> QED
    BY <1>5, <1>7, <1>8, <1>9 DEF CloseStep, Only, r

\* The references that p's death leaves to an open semaphore.
references(k, p, i) ==
    IF i \in k.procs[p].opened THEN k.sems[i].open_count - 1 ELSE k.sems[i].open_count

ForgetStep(k, f, p, i) ==
    LET s == k.sems[i]
    IN  /\ f \in Semaphore
        /\ SlotIs(f, s.name, IF Queued(s, p) THEN s.value + 1 ELSE s.value, s.initial,
                  queue_remove_pid(s.queue, p), references(k, p, i))
        /\ references(k, p, i) \in Nat

LEMMA ForgetIs ==
    ASSUME NEW k \in Tables, NEW p \in Pids, NEW i \in Open(k)
    PROVE  ForgetStep(k, forget(k, p, i), p, i)
  <1> DEFINE s == k.sems[i]
             q == queue_remove_pid(s.queue, p)
             v == IF Queued(s, p) THEN s.value + 1 ELSE s.value
             n == references(k, p, i)
             f == forget(k, p, i)
  <1>1. i \in Sems /\ s \in Semaphore /\ s.open_count > 0 /\ k.procs[p] \in PCB
    BY DEF Tables, Open
  <1>2. s.queue \in Seq(Pids) /\ s.value \in Int /\ s.open_count \in Nat
    BY <1>1 DEF Semaphore
  <1>3. q \in Seq(Pids)
    BY <1>2, RemovedQueue
  <1>4. v \in Int
    BY <1>2
  <1>5. n \in Nat
    BY <1>1, <1>2 DEF references
  <1>6. f = [s EXCEPT !.queue = q, !.value = v, !.open_count = n]
    BY <1>1 DEF forget, references, Semaphore
  <1> HIDE DEF s, q, v, n, f
  <1>7. f \in Semaphore /\ f.queue = q /\ f.value = v /\ f.open_count = n
        /\ f.name = s.name /\ f.initial = s.initial
    BY <1>1, <1>3, <1>4, <1>5, <1>6 DEF Semaphore
  <1> QED
    BY <1>5, <1>7 DEF ForgetStep, SlotIs, s, q, v, n, f

\* Semaphore i has a unit of p's for somebody in line.
Bequeaths(k, p, i) == i \in Open(k) /\ Holds(k, p, i) /\ Hands(forget(k, p, i))

SlotStep(k, r, p, i) ==
    LET f == forget(k, p, i)
    IN  /\ r \in Tables
        /\ i \notin Open(k) => r.sems[i] = k.sems[i]
        /\ i \in Open(k) /\ ~Holds(k, p, i) => r.sems[i] = f
        /\ i \in Open(k) /\ Holds(k, p, i) =>
              SlotIs(r.sems[i], f.name, f.value + 1, f.initial,
                     IF Hands(f) THEN Tail(f.queue) ELSE f.queue, f.open_count)
        /\ \A q \in Pids : r.procs[q] =
              IF Bequeaths(k, p, i) /\ q = Head(f.queue) /\ k.procs[q].state # "FREE"
                THEN handed(k.procs[q], i)
                ELSE k.procs[q]

LEMMA CleanupSlot ==
    ASSUME NEW k \in Tables, NEW p \in Pids, NEW i \in Sems
    PROVE  SlotStep(k, cleanup_slot(k, p, i), p, i)
  <1> DEFINE r == cleanup_slot(k, p, i)
             f == forget(k, p, i)
             l == [k EXCEPT !.sems[i] = f]
  <1>1. k.sems \in [Sems -> Semaphore] /\ k.procs \in [Pids -> PCB]
    BY DEF Tables
  <1>2. CASE i \notin Open(k)
    <2>1. r = k /\ ~Bequeaths(k, p, i)
      BY <1>2 DEF cleanup_slot, Bequeaths
    <2> HIDE DEF r
    <2> QED
      BY <1>2, <2>1 DEF SlotStep, r
  <1>3. CASE i \in Open(k)
    <2>1. f \in Semaphore
      BY <1>3, ForgetIs DEF ForgetStep
    <2>2. r = IF Holds(k, p, i) THEN give(l, i) ELSE l
      BY <1>3 DEF cleanup_slot
    <2>3. Bequeaths(k, p, i) <=> Holds(k, p, i) /\ Hands(f)
      BY <1>3 DEF Bequeaths
    <2> HIDE DEF f
    <2>4. l \in Tables /\ l.sems[i] = f /\ l.procs = k.procs
      BY <1>1, <2>1 DEF Tables
    <2> HIDE DEF l, r
    <2>5. CASE ~Holds(k, p, i)
      BY <1>1, <1>3, <2>2, <2>3, <2>4, <2>5 DEF SlotStep, r, f
    <2>6. CASE Holds(k, p, i)
      <3>1. GiveStep(l, r, i)
        BY <2>2, <2>4, <2>6, GiveIs
      <3>2. /\ r \in Tables
            /\ SlotIs(r.sems[i], f.name, f.value + 1, f.initial,
                      IF Hands(f) THEN Tail(f.queue) ELSE f.queue, f.open_count)
            /\ \A q \in Pids : r.procs[q] =
                     IF Hands(f) /\ q = Head(f.queue) /\ k.procs[q].state # "FREE"
                       THEN handed(k.procs[q], i)
                       ELSE k.procs[q]
        BY <2>4, <3>1, Zenon DEF GiveStep
      <3> QED
        BY <1>3, <2>3, <2>6, <3>2 DEF SlotStep, r, f
    <2> QED
      BY <2>5, <2>6
  <1> QED
    BY <1>2, <1>3

\* What is left of a process that dies.
Gone == [state |-> "FREE", held |-> {}, opened |-> {}, waits |-> NULL]

CleanupStep(k, r, p) ==
    /\ r \in Tables
    /\ \A i \in Sems : r.sems[i] = Settle(cleanup_slot(k, p, i).sems[i])
    /\ r.procs[p] = Gone
    /\ \A q \in Pids \ {p} :
          /\ Inherited(k, p, q) = {} => r.procs[q] = k.procs[q]
          /\ Inherited(k, p, q) # {} =>
                LET u == process_unblock(k.procs[q])
                IN  PCBIs(r.procs[q], u.state, u.held \cup Inherited(k, p, q), u.opened, u.waits)

LEMMA CleanupIs ==
    ASSUME NEW k \in Tables, NEW p \in Pids
    PROVE  CleanupStep(k, sem_cleanup_for_process(k, p), p)
  <1> DEFINE r == sem_cleanup_for_process(k, p)
             s(i) == Settle(cleanup_slot(k, p, i).sems[i])
             g(q) == IF Inherited(k, p, q) = {} THEN k.procs[q]
                     ELSE [process_unblock(k.procs[q]) EXCEPT !.held = @ \cup Inherited(k, p, q)]
             c(q) == IF q = p THEN Gone ELSE g(q)
  <1>1. r = [sems |-> [i \in Sems |-> s(i)], procs |-> [q \in Pids |-> c(q)]]
    BY DEF sem_cleanup_for_process, Gone
  <1>2. \A i \in Sems : s(i) \in Semaphore
    <2> TAKE i \in Sems
    <2>1. cleanup_slot(k, p, i) \in Tables
      BY CleanupSlot DEF SlotStep
    <2>2. cleanup_slot(k, p, i).sems[i] \in Semaphore
      BY <2>1 DEF Tables
    <2> QED
      BY <2>2, SettleType
  <1>3. ASSUME NEW q \in Pids
        PROVE  /\ g(q) \in PCB
               /\ Inherited(k, p, q) # {} =>
                     LET u == process_unblock(k.procs[q])
                     IN  PCBIs(g(q), u.state, u.held \cup Inherited(k, p, q), u.opened, u.waits)
    <2> DEFINE I == Inherited(k, p, q)
               u == process_unblock(k.procs[q])
    <2>1. I \in SUBSET Sems
      BY DEF Inherited
    <2>2. k.procs[q] \in PCB
      BY DEF Tables
    <2>3. g(q) = IF I = {} THEN k.procs[q] ELSE [u EXCEPT !.held = @ \cup I]
      OBVIOUS
    <2>4. u \in PCB
      BY <2>2, UnblockType
    <2> HIDE DEF I, g, u
    <2>5. /\ [u EXCEPT !.held = @ \cup I] \in PCB
          /\ PCBIs([u EXCEPT !.held = @ \cup I], u.state, u.held \cup I, u.opened, u.waits)
      BY <2>1, <2>4 DEF PCB, PCBIs
    <2>6. g(q) \in PCB /\ (I # {} => PCBIs(g(q), u.state, u.held \cup I, u.opened, u.waits))
      BY <2>2, <2>3, <2>5
    <2> QED
      BY <2>6 DEF I, u
  <1>4. Gone \in PCB
    BY DEF Gone, PCB
  <1> HIDE DEF r, s, g
  <1>5. /\ r \in Tables
        /\ \A i \in Sems : r.sems[i] = s(i)
        /\ r.procs[p] = Gone
        /\ \A q \in Pids \ {p} : r.procs[q] = g(q)
    BY <1>1, <1>2, <1>3, <1>4 DEF Tables
  <1>6. \A q \in Pids : Inherited(k, p, q) = {} => g(q) = k.procs[q]
    BY DEF g
  <1> QED
    BY <1>3, <1>5, <1>6 DEF CleanupStep, r, s

-----------------------------------------------------------------------------
(***************************************************************************)
(* The steps of the specification, as steps of the operations.  Lent is    *)
(* what the calls on an open semaphore have in common.                     *)
(***************************************************************************)
Lent(k, p, i) ==
    /\ p \in Pids /\ k.procs[p].state = "READY"
    /\ i \in Open(k) /\ Obeyed("opened", i \in k.procs[p].opened)

Opens(k, r, p, name, v) ==
    /\ p \in Pids /\ name \in Names /\ v \in InitialValues /\ k.procs[p].state = "READY"
    /\ find_sem(k, name) # NULL \/ FreeSlots(k) # {}
    /\ Obeyed("once", find_sem(k, name) \notin k.procs[p].opened)
    /\ r = sem_open(k, p, name, v)

Waits(k, r, p, i) ==
    Lent(k, p, i) /\ Obeyed("paired", i \notin k.procs[p].held) /\ r = sem_wait(k, p, i)

Posts(k, r, p, i) ==
    Lent(k, p, i) /\ Obeyed("paired", i \in k.procs[p].held) /\ r = sem_post(k, p, i)

Closes(k, r, p, i) ==
    Lent(k, p, i) /\ Obeyed("paired", i \notin k.procs[p].held) /\ r = sem_close(k, p, i)

Dies(k, r, p) ==
    p \in Pids /\ k.procs[p].state # "FREE" /\ r = sem_cleanup_for_process(k, p)

\* A process stops or goes on for reasons of its own.
Pauses(k, r, p) ==
    /\ p \in Pids /\ r \in Tables /\ r.sems = k.sems
    /\ \A q \in Pids \ {p} : r.procs[q] = k.procs[q]
    /\ k.procs[p].state \in {"READY", "BLOCKED"}
    /\ \/ k.procs[p].state = "READY" /\ r.procs[p].state = "BLOCKED"
          /\ r.procs[p].waits = k.procs[p].waits
       \/ k.procs[p].state = "BLOCKED" /\ r.procs[p].state = "READY"
          /\ Obeyed("no_resume", k.procs[p].waits = NULL)
          /\ r.procs[p].waits = NULL
    /\ r.procs[p].held = k.procs[p].held /\ r.procs[p].opened = k.procs[p].opened

LEMMA Steps ==
    ASSUME Kernel \in Tables, [Next]_vars
    PROVE  \/ Kernel' = Kernel
           \/ \E p \in Pids :
                 \/ \E name \in Names, v \in InitialValues : Opens(Kernel, Kernel', p, name, v)
                 \/ \E i \in Sems : \/ Waits(Kernel, Kernel', p, i)
                                     \/ Posts(Kernel, Kernel', p, i)
                                     \/ Closes(Kernel, Kernel', p, i)
                 \/ Dies(Kernel, Kernel', p)
                 \/ Pauses(Kernel, Kernel', p)
  <1>1. CASE UNCHANGED vars
    BY <1>1 DEF vars, Kernel
  <1>2. CASE Next
    <2>1. PICK p \in Pids :
            \/ \E name \in Names, v \in InitialValues : sys_sem_open(p, name, v)
            \/ \E name \in Names : sys_sem_wait(p, name)
            \/ \E name \in Names : sys_sem_post(p, name)
            \/ \E name \in Names : sys_sem_close(p, name)
            \/ Die(p) \/ Suspend(p) \/ Resume(p)
      BY <1>2 DEF Next
    <2>2. /\ Kernel.procs = process /\ Kernel.sems = sem_table
          /\ Kernel' = [sems |-> sem_table', procs |-> process']
          /\ process \in [Pids -> PCB] /\ sem_table \in [Sems -> Semaphore]
      BY DEF Kernel, Tables
    <2>3. ASSUME NEW k, Store(k), k \in Tables  PROVE Kernel' = k
      BY <2>2, <2>3 DEF Store, Tables
    <2>4. ASSUME NEW name \in Names, NEW v \in InitialValues, sys_sem_open(p, name, v)
          PROVE  Opens(Kernel, Kernel', p, name, v)
      <3>1. /\ find_sem(Kernel, name) # NULL \/ FreeSlots(Kernel) # {}
            /\ Kernel.procs[p].state = "READY"
            /\ Obeyed("once", find_sem(Kernel, name) \notin Kernel.procs[p].opened)
            /\ Store(sem_open(Kernel, p, name, v))
        BY <2>2, <2>4 DEF sys_sem_open, Runs
      <3>2. sem_open(Kernel, p, name, v) \in Tables
        BY <3>1, OpenIs DEF OpenStep, Only
      <3>3. Kernel' = sem_open(Kernel, p, name, v)
        BY <2>3, <3>1, <3>2
      <3> QED
        BY <3>1, <3>3 DEF Opens
    <2>5. ASSUME NEW name \in Names, find_sem(Kernel, name) # NULL, Runs(p),
                 MayUse(p, find_sem(Kernel, name))
          PROVE  find_sem(Kernel, name) \in Sems /\ Lent(Kernel, p, find_sem(Kernel, name))
      <3>1. find_sem(Kernel, name) \in Open(Kernel)
        BY <2>5, FindSem
      <3>2. find_sem(Kernel, name) \in Sems
        BY <3>1 DEF Open
      <3> QED
        BY <2>2, <2>5, <3>1, <3>2 DEF Lent, MayUse, Runs
    <2>6. ASSUME NEW name \in Names, sys_sem_wait(p, name)
          PROVE  \E i \in Sems : Waits(Kernel, Kernel', p, i)
      <3> DEFINE i == find_sem(Kernel, name)
      <3>1. /\ Runs(p) /\ MayUse(p, i) /\ i # NULL
            /\ Obeyed("paired", i \notin Kernel.procs[p].held)
            /\ Store(sem_wait(Kernel, p, i))
        BY <2>2, <2>6 DEF sys_sem_wait, MayUse
      <3>2. i \in Sems /\ Lent(Kernel, p, i)
        BY <2>5, <3>1
      <3> HIDE DEF i
      <3>3. sem_wait(Kernel, p, i) \in Tables
        BY <3>2, WaitIs DEF WaitStep, Only
      <3>4. Kernel' = sem_wait(Kernel, p, i)
        BY <2>3, <3>1, <3>3
      <3> QED
        BY <3>1, <3>2, <3>4 DEF Waits
    <2>7. ASSUME NEW name \in Names, sys_sem_post(p, name)
          PROVE  \E i \in Sems : Posts(Kernel, Kernel', p, i)
      <3> DEFINE i == find_sem(Kernel, name)
      <3>1. /\ Runs(p) /\ MayUse(p, i) /\ i # NULL
            /\ Obeyed("paired", i \in Kernel.procs[p].held)
            /\ Store(sem_post(Kernel, p, i))
        BY <2>2, <2>7 DEF sys_sem_post, MayUse
      <3>2. i \in Sems /\ Lent(Kernel, p, i)
        BY <2>5, <3>1
      <3> HIDE DEF i
      <3>3. sem_post(Kernel, p, i) \in Tables
        BY <3>2, PostIs, GiveIs DEF DropStep, GiveStep
      <3>4. Kernel' = sem_post(Kernel, p, i)
        BY <2>3, <3>1, <3>3
      <3> QED
        BY <3>1, <3>2, <3>4 DEF Posts
    <2>8. ASSUME NEW name \in Names, sys_sem_close(p, name)
          PROVE  \E i \in Sems : Closes(Kernel, Kernel', p, i)
      <3> DEFINE i == find_sem(Kernel, name)
      <3>1. /\ Runs(p) /\ MayUse(p, i) /\ i # NULL
            /\ Obeyed("paired", i \notin Kernel.procs[p].held)
            /\ Store(sem_close(Kernel, p, i))
        BY <2>2, <2>8 DEF sys_sem_close, MayUse
      <3>2. i \in Sems /\ Lent(Kernel, p, i)
        BY <2>5, <3>1
      <3> HIDE DEF i
      <3>3. sem_close(Kernel, p, i) \in Tables
        BY <3>2, CloseIs DEF CloseStep, Only, Lent
      <3>4. Kernel' = sem_close(Kernel, p, i)
        BY <2>3, <3>1, <3>3
      <3> QED
        BY <3>1, <3>2, <3>4 DEF Closes
    <2>9. ASSUME Die(p)  PROVE  Dies(Kernel, Kernel', p)
      <3>1. sem_cleanup_for_process(Kernel, p) \in Tables
        BY CleanupIs DEF CleanupStep
      <3> QED
        BY <2>2, <2>3, <2>9, <3>1 DEF Die, Dies
    <2>10. ASSUME Suspend(p) \/ Resume(p)  PROVE  Pauses(Kernel, Kernel', p)
      <3>1. Kernel'.sems = sem_table' /\ Kernel'.procs = process' /\ sem_table' = sem_table
        BY <2>2, <2>10 DEF Suspend, Resume
      <3>2. CASE Suspend(p)
        <4>1. process' = [process EXCEPT ![p].state = "BLOCKED"] /\ process[p].state = "READY"
          BY <3>2 DEF Suspend, Runs
        <4> DEFINE c == [process[p] EXCEPT !.state = "BLOCKED"]
        <4>2. process[p] \in PCB
          BY <2>2
        <4>3. /\ c \in PCB /\ c.state = "BLOCKED" /\ c.waits = process[p].waits
              /\ c.held = process[p].held /\ c.opened = process[p].opened
          BY <4>2 DEF PCB
        <4>4. process' = [process EXCEPT ![p] = c]
          BY <4>1
        <4> HIDE DEF c
        <4>5. Kernel' \in Tables
          BY <2>2, <3>1, <4>3, <4>4 DEF Tables
        <4> QED
          BY <2>2, <3>1, <4>1, <4>3, <4>4, <4>5 DEF Pauses
      <3>3. CASE Resume(p)
        <4> DEFINE u == process_unblock(process[p])
        <4>1. /\ process' = [process EXCEPT ![p] = u] /\ process[p].state = "BLOCKED"
              /\ Obeyed("no_resume", process[p].waits = NULL)
          BY <3>3 DEF Resume
        <4>2. process[p] \in PCB
          BY <2>2
        <4>3. /\ u \in PCB /\ u.state = "READY" /\ u.waits = NULL
              /\ u.held = process[p].held /\ u.opened = process[p].opened
          BY <4>1, <4>2, UnblockType
        <4> HIDE DEF u
        <4>4. Kernel' \in Tables
          BY <2>2, <3>1, <4>1, <4>3 DEF Tables
        <4> QED
          BY <2>2, <3>1, <4>1, <4>3, <4>4 DEF Pauses
      <3> QED
        BY <2>10, <3>2, <3>3
    <2> QED
      BY <2>1, <2>4, <2>6, <2>7, <2>8, <2>9, <2>10
  <1> QED
    BY <1>1, <1>2

LEMMA TypeIsTables == TypeOK <=> Kernel \in Tables
  BY DEF TypeOK, Kernel, Tables

LEMMA StepType ==
    ASSUME Kernel \in Tables, [Next]_vars
    PROVE  Kernel' \in Tables
  <1>1. CASE Kernel' = Kernel
    BY <1>1
  <1>2. ASSUME NEW p \in Pids, NEW name \in Names, NEW v \in InitialValues,
               Opens(Kernel, Kernel', p, name, v)
        PROVE  Kernel' \in Tables
    BY <1>2, OpenIs DEF Opens, OpenStep, Only
  <1>3. ASSUME NEW p \in Pids, NEW i \in Sems, Waits(Kernel, Kernel', p, i)
        PROVE  Kernel' \in Tables
    BY <1>3, WaitIs DEF Waits, WaitStep, Only
  <1>4. ASSUME NEW p \in Pids, NEW i \in Sems, Posts(Kernel, Kernel', p, i)
        PROVE  Kernel' \in Tables
    BY <1>4, PostIs, GiveIs DEF Posts, DropStep, GiveStep
  <1>5. ASSUME NEW p \in Pids, NEW i \in Sems, Closes(Kernel, Kernel', p, i)
        PROVE  Kernel' \in Tables
    BY <1>5, CloseIs DEF Closes, Lent, CloseStep, Only
  <1>6. ASSUME NEW p \in Pids, Dies(Kernel, Kernel', p)
        PROVE  Kernel' \in Tables
    BY <1>6, CleanupIs DEF Dies, CleanupStep
  <1>7. ASSUME NEW p \in Pids, Pauses(Kernel, Kernel', p)
        PROVE  Kernel' \in Tables
    BY <1>7 DEF Pauses
  <1> QED
    BY <1>1, <1>2, <1>3, <1>4, <1>5, <1>6, <1>7, Steps

\* Both tables keep their types, whatever the programs do: the counts of
\* sem_open, sem_close and sem_cleanup_for_process never go below zero and the
\* wait queues hold pids.
THEOREM SemaphoresTypeCorrect == Spec => []TypeOK
  <1>1. Init => TypeOK
    <2> SUFFICES ASSUME Init  PROVE TypeOK
      OBVIOUS
    <2>1. sem_table \in [Sems -> Semaphore]
      BY FreeSemType DEF Init
    <2>2. process \in [Pids -> PCB]
      BY DEF Init, PCB
    <2> QED
      BY <2>1, <2>2 DEF TypeOK
  <1>2. TypeOK /\ [Next]_vars => TypeOK'
    <2> SUFFICES ASSUME TypeOK, [Next]_vars  PROVE TypeOK'
      OBVIOUS
    <2>1. Kernel' \in Tables
      BY TypeIsTables, StepType
    <2> QED
      BY <2>1 DEF TypeOK, Kernel, Tables
  <1> QED
    BY <1>1, <1>2, PTL DEF Spec

-----------------------------------------------------------------------------
(***************************************************************************)
(* The lines: a negative value counts them, nobody is in one twice, and    *)
(* those in one sleep inside the sem_wait of that semaphore.               *)
(***************************************************************************)
Balanced(s) ==
    /\ Distinct(s.queue)
    /\ Len(s.queue) = IF s.value < 0 THEN -s.value ELSE 0

Asleep(k, i) ==
    \A q \in Elements(k.sems[i].queue) :
        q \in Pids /\ k.procs[q].state = "BLOCKED" /\ k.procs[q].waits = i

Lines(k) == \A i \in Sems : Balanced(k.sems[i]) /\ Asleep(k, i)

LEMMA EmptyLine ==
    /\ Elements(<<>>) = {}
    /\ \A s : s.queue = <<>> /\ s.value \in Nat => Balanced(s)
  BY DEF Elements, Balanced, Distinct

LEMMA FreeSemLine == Balanced(FreeSem) /\ Elements(FreeSem.queue) = {}
  BY FreeSemType, EmptyLine

\* A line of k is one of r when r has the slot's value and queue, and those in
\* line sleep as they did.
LEMMA SameLine ==
    ASSUME NEW k, NEW r, NEW i \in Sems, Lines(k),
           r.sems[i].value = k.sems[i].value, r.sems[i].queue = k.sems[i].queue,
           \A q \in Pids : k.procs[q].state = "BLOCKED" /\ k.procs[q].waits = i =>
                           r.procs[q].state = "BLOCKED" /\ r.procs[q].waits = i
    PROVE  Balanced(r.sems[i]) /\ Asleep(r, i)
  <1>1. Balanced(r.sems[i])
    BY DEF Lines, Balanced
  <1>2. Asleep(r, i)
    BY DEF Lines, Asleep
  <1> QED
    BY <1>1, <1>2

\* A process that is not blocked is in no line.
LEMMA RunnerNotInLine ==
    ASSUME NEW k \in Tables, Lines(k), NEW p \in Pids, k.procs[p].state # "BLOCKED",
           NEW i \in Sems
    PROVE  p \notin Elements(k.sems[i].queue)
  BY DEF Lines, Asleep

LEMMA OpenLines ==
    ASSUME NEW k \in Tables, Lines(k), NEW p \in Pids, NEW name \in Names,
           NEW v \in InitialValues, find_sem(k, name) # NULL \/ FreeSlots(k) # {}
    PROVE  Lines(sem_open(k, p, name, v))
  <1> DEFINE r == sem_open(k, p, name, v)
             i == opened_slot(k, name)
  <1>1. OpenStep(k, r, p, name, v)
    BY OpenIs
  <1>2. i \in Sems /\ v \in Nat
    BY OpenedSlot, SemaphoresAssumption
  <1> HIDE DEF r
  <1>3. \A q \in Pids : r.procs[q].state = k.procs[q].state /\ r.procs[q].waits = k.procs[q].waits
    BY <1>1 DEF OpenStep, Only, PCBIs
  <1>4. ASSUME NEW j \in Sems
        PROVE  Balanced(r.sems[j]) /\ Asleep(r, j)
    <2>1. CASE j # i \/ find_sem(k, name) # NULL
      <3>1. r.sems[j].value = k.sems[j].value /\ r.sems[j].queue = k.sems[j].queue
        BY <1>1, <1>2, <2>1 DEF OpenStep, Only, SlotIs
      <3> QED
        BY <1>3, <3>1, SameLine
    <2>2. CASE j = i /\ find_sem(k, name) = NULL
      <3>1. r.sems[j].value = v /\ r.sems[j].queue = <<>>
        BY <1>1, <2>2 DEF OpenStep, SlotIs
      <3> QED
        BY <1>2, <3>1, EmptyLine DEF Asleep
    <2> QED
      BY <2>1, <2>2
  <1> QED
    BY <1>4 DEF Lines, r

LEMMA WaitLines ==
    ASSUME NEW k \in Tables, Lines(k), NEW p \in Pids, NEW i \in Sems,
           k.procs[p].state # "BLOCKED"
    PROVE  /\ Lines(sem_wait(k, p, i))
           /\ k.sems[i].value - 1 < 0 =>
                 sem_wait(k, p, i).sems[i].queue = Append(k.sems[i].queue, p)
  <1> DEFINE r == sem_wait(k, p, i)
             s == k.sems[i]
  <1>1. WaitStep(k, r, p, i)
    BY WaitIs
  <1>2. s.value \in Int /\ s.queue \in Seq(Pids) /\ Balanced(s)
    BY DEF Tables, Semaphore, Lines
  <1>3. p \notin Elements(s.queue)
    BY RunnerNotInLine
  <1> HIDE DEF r
  <1>4. CASE s.value - 1 < 0
    <2>1. Len(s.queue) < MAX_PROCESSES
      <3>1. Len(s.queue) < Cardinality(Pids)
        BY <1>2, <1>3, RoomFor, SemaphoresAssumption DEF Balanced
      <3>2. Cardinality(Pids) \in Nat
        BY FS_CardinalityType, SemaphoresAssumption
      <3>3. Len(s.queue) \in Nat
        BY <1>2
      <3> QED
        BY <3>1, <3>2, <3>3, SemaphoresAssumption
    <2>2. ~(Len(s.queue) >= MAX_PROCESSES)
      BY <1>2, <2>1, SemaphoresAssumption
    <2>3. r.sems[i].value = s.value - 1 /\ r.sems[i].queue = Append(s.queue, p)
      BY <1>1, <1>4, <2>2 DEF WaitStep, SlotIs
    <2>4. /\ Len(Append(s.queue, p)) = Len(s.queue) + 1
          /\ Elements(Append(s.queue, p)) = Elements(s.queue) \cup {p}
          /\ Distinct(Append(s.queue, p))
      BY <1>2, <1>3, AppendQueue DEF Balanced
    <2>5. r.procs[p].state = "BLOCKED" /\ r.procs[p].waits = i
      BY <1>1, <1>4 DEF WaitStep, PCBIs
    <2>6. Balanced(r.sems[i])
      <3>1. Len(s.queue) = IF s.value < 0 THEN -s.value ELSE 0
        BY <1>2 DEF Balanced
      <3> HIDE DEF s
      <3>2. Len(s.queue) + 1 = IF s.value - 1 < 0 THEN -(s.value - 1) ELSE 0
        BY <1>2, <1>4, <3>1
      <3> QED
        BY <2>3, <2>4, <3>2 DEF Balanced
    <2>7. Asleep(r, i)
      <3> SUFFICES ASSUME NEW q \in Elements(s.queue), q # p
                   PROVE  q \in Pids /\ r.procs[q].state = "BLOCKED" /\ r.procs[q].waits = i
        BY <2>3, <2>4, <2>5 DEF Asleep
      <3> QED
        BY <1>1 DEF WaitStep, Only, Lines, Asleep
    <2>8. ASSUME NEW j \in Sems \ {i}
          PROVE  Balanced(r.sems[j]) /\ Asleep(r, j)
      BY <1>1, <2>8, SameLine DEF WaitStep, Only
    <2> QED
      BY <2>3, <2>6, <2>7, <2>8 DEF Lines, r
  <1>5. CASE ~(s.value - 1 < 0)
    <2>1. r.sems[i].value = s.value - 1 /\ r.sems[i].queue = s.queue
      BY <1>1, <1>5 DEF WaitStep, SlotIs
    <2>2. \A q \in Pids : r.procs[q].state = k.procs[q].state /\ r.procs[q].waits = k.procs[q].waits
      BY <1>1, <1>5 DEF WaitStep, Only, PCBIs
    <2>3. Balanced(r.sems[i])
      BY <1>2, <1>5, <2>1 DEF Balanced
    <2>4. Asleep(r, i)
      BY <2>1, <2>2 DEF Lines, Asleep
    <2>5. ASSUME NEW j \in Sems \ {i}
          PROVE  Balanced(r.sems[j]) /\ Asleep(r, j)
      BY <1>1, <2>2, <2>5, SameLine DEF WaitStep, Only
    <2> QED
      BY <1>5, <2>3, <2>4, <2>5 DEF Lines, r
  <1> QED
    BY <1>4, <1>5

\* There is somebody to hand a unit to exactly when somebody is in line, and
\* the first in line sleeps.
LEMMA FirstInLine ==
    ASSUME NEW k \in Tables, Lines(k), NEW i \in Sems
    PROVE  LET s == k.sems[i]
               h == Head(s.queue)
           IN  /\ Hands(s) <=> s.queue # <<>>
               /\ Hands(s) => /\ h \in Pids /\ h \in Elements(s.queue)
                              /\ k.procs[h].state = "BLOCKED" /\ k.procs[h].waits = i
                              /\ Elements(Tail(s.queue)) = Elements(s.queue) \ {h}
                              /\ Len(Tail(s.queue)) = Len(s.queue) - 1
                              /\ Balanced(s) /\ Distinct(Tail(s.queue))
                              /\ s.value < 0
  <1> DEFINE s == k.sems[i]
             h == Head(s.queue)
  <1>1. s.value \in Int /\ s.queue \in Seq(Pids) /\ Balanced(s) /\ Asleep(k, i)
    BY DEF Tables, Semaphore, Lines
  <1> HIDE DEF s
  <1>2. Hands(s) <=> s.queue # <<>>
    <2>1. s.queue # <<>> => Len(s.queue) > 0
      BY <1>1
    <2> QED
      BY <1>1, <2>1 DEF Hands, Balanced
  <1>3. ASSUME Hands(s)
        PROVE  /\ h \in Pids /\ h \in Elements(s.queue)
               /\ Elements(Tail(s.queue)) = Elements(s.queue) \ {h}
               /\ Len(Tail(s.queue)) = Len(s.queue) - 1
               /\ Distinct(Tail(s.queue))
    BY <1>1, <1>3, TailQueue DEF Hands, Balanced
  <1>4. ASSUME Hands(s)
        PROVE  k.procs[h].state = "BLOCKED" /\ k.procs[h].waits = i /\ s.value < 0
    BY <1>1, <1>3, <1>4 DEF Asleep, Hands, s
  <1> QED
    BY <1>1, <1>2, <1>3, <1>4 DEF s

LEMMA FirstSleeps ==
    ASSUME NEW k \in Tables, Lines(k), NEW i \in Sems, Hands(k.sems[i]),
           NEW h, h = Head(k.sems[i].queue)
    PROVE  /\ h \in Pids /\ k.procs[h].state = "BLOCKED" /\ k.procs[h].waits = i
           /\ Len(Tail(k.sems[i].queue)) = Len(k.sems[i].queue) - 1
  BY FirstInLine

\* A unit given keeps a slot balanced: somebody leaves the line for it, or
\* there is none.
LEMMA GivenBalance ==
    ASSUME NEW k \in Tables, Lines(k), NEW i \in Sems, NEW t,
           t.value = k.sems[i].value + 1,
           t.queue = IF Hands(k.sems[i]) THEN Tail(k.sems[i].queue) ELSE k.sems[i].queue
    PROVE  Balanced(t)
  <1> DEFINE s == k.sems[i]
  <1>1. s.value \in Int /\ s.queue \in Seq(Pids) /\ Balanced(s)
    BY DEF Tables, Semaphore, Lines
  <1>2. Hands(s) <=> s.queue # <<>>
    BY FirstInLine
  <1>3. CASE Hands(s)
    <2>1. /\ Len(Tail(s.queue)) = Len(s.queue) - 1 /\ Distinct(Tail(s.queue)) /\ s.value < 0
          /\ t.queue = Tail(s.queue)
      BY <1>3, FirstInLine
    <2>2. t.value = s.value + 1
      OBVIOUS
    <2> HIDE DEF s
    <2>3. Len(s.queue) = -s.value
      BY <1>1, <2>1 DEF Balanced
    <2>4. Len(Tail(s.queue)) = IF s.value + 1 < 0 THEN -(s.value + 1) ELSE 0
      BY <1>1, <2>1, <2>3
    <2> QED
      BY <2>1, <2>2, <2>4 DEF Balanced
  <1>4. CASE ~Hands(s)
    <2>1. s.queue = <<>> /\ t.queue = <<>> /\ t.value = s.value + 1
      BY <1>2, <1>4
    <2> HIDE DEF s
    <2>2. s.value \in Nat
      BY <1>1, <2>1 DEF Balanced
    <2> QED
      BY <1>1, <2>1, <2>2, EmptyLine
  <1> QED
    BY <1>3, <1>4

LEMMA GiveLines ==
    ASSUME NEW k \in Tables, Lines(k), NEW i \in Sems
    PROVE  Lines(give(k, i))
  <1> DEFINE r == give(k, i)
             s == k.sems[i]
             h == Head(s.queue)
  <1>1. GiveStep(k, r, i)
    BY GiveIs
  <1> HIDE DEF r
  <1>2. /\ r.sems[i].value = s.value + 1
        /\ r.sems[i].queue = IF Hands(s) THEN Tail(s.queue) ELSE s.queue
    BY <1>1, Zenon DEF GiveStep, SlotIs
  <1>3. Balanced(r.sems[i])
    BY <1>2, GivenBalance
  <1>4. \A q \in Pids : ~(Hands(s) /\ q = h) => r.procs[q] = k.procs[q]
    BY <1>1 DEF GiveStep
  <1>5. Asleep(r, i)
    <2>1. ASSUME NEW q \in Elements(r.sems[i].queue)
          PROVE  q \in Elements(s.queue) /\ ~(Hands(s) /\ q = h)
      <3>1. CASE Hands(s)
        BY <1>2, <2>1, <3>1, FirstInLine
      <3>2. CASE ~Hands(s)
        BY <1>2, <2>1, <3>2
      <3> QED
        BY <3>1, <3>2
    <2> QED
      BY <1>4, <2>1 DEF Lines, Asleep
  <1>6. ASSUME NEW j \in Sems \ {i}
        PROVE  Balanced(r.sems[j]) /\ Asleep(r, j)
    <2>1. r.sems[j] = k.sems[j]
      BY <1>1 DEF GiveStep
    <2>2. Hands(s) => k.procs[h].waits = i
      BY FirstInLine
    <2> HIDE DEF h, s
    <2>3. \A q \in Pids : k.procs[q].waits = j => r.procs[q] = k.procs[q]
      BY <1>4, <2>2
    <2> QED
      BY <2>1, <2>3, SameLine
  <1> QED
    BY <1>3, <1>5, <1>6 DEF Lines, r

LEMMA DropLines ==
    ASSUME NEW k \in Tables, Lines(k), NEW d, NEW p \in Pids, NEW i \in Sems, DropStep(k, d, p, i)
    PROVE  Lines(d)
  <1>1. \A q \in Pids : d.procs[q].state = k.procs[q].state /\ d.procs[q].waits = k.procs[q].waits
    BY DEF DropStep, PCBIs
  <1>2. d.sems = k.sems
    BY DEF DropStep
  <1> QED
    BY <1>1, <1>2, SameLine DEF Lines

LEMMA PostLines ==
    ASSUME NEW k \in Tables, Lines(k), NEW p \in Pids, NEW i \in Sems
    PROVE  Lines(sem_post(k, p, i))
  <1>1. PICK d : DropStep(k, d, p, i) /\ sem_post(k, p, i) = give(d, i)
    BY PostIs
  <1>2. d \in Tables
    BY <1>1 DEF DropStep
  <1>3. Lines(d)
    BY <1>1, DropLines
  <1> QED
    BY <1>1, <1>2, <1>3, GiveLines

LEMMA CloseLines ==
    ASSUME NEW k \in Tables, Lines(k), NEW p \in Pids, NEW i \in Open(k)
    PROVE  Lines(sem_close(k, p, i))
  <1> DEFINE r == sem_close(k, p, i)
  <1>1. CloseStep(k, r, p, i)
    BY CloseIs
  <1> HIDE DEF r
  <1>2. \A q \in Pids : r.procs[q].state = k.procs[q].state /\ r.procs[q].waits = k.procs[q].waits
    BY <1>1 DEF CloseStep, Only, PCBIs
  <1>3. ASSUME NEW j \in Sems
        PROVE  Balanced(r.sems[j]) /\ Asleep(r, j)
    <2>1. CASE j = i /\ r.sems[j] = FreeSem
      BY <2>1, FreeSemLine DEF Asleep
    <2>2. CASE ~(j = i /\ r.sems[j] = FreeSem)
      <3>1. r.sems[j].value = k.sems[j].value /\ r.sems[j].queue = k.sems[j].queue
        BY <1>1, <2>2 DEF CloseStep, Only, SlotIs
      <3> QED
        BY <1>2, <3>1, SameLine
    <2> QED
      BY <2>1, <2>2
  <1> QED
    BY <1>3 DEF Lines, r

\* A semaphore without p is balanced, and when p was not in line its line and
\* its value are what they were.
LEMMA ForgetLine ==
    ASSUME NEW k \in Tables, Lines(k), NEW p \in Pids, NEW i \in Open(k)
    PROVE  LET s == k.sems[i]
               f == forget(k, p, i)
           IN  /\ Balanced(f)
               /\ Elements(f.queue) = Elements(s.queue) \ {p}
               /\ ~Queued(s, p) => f.queue = s.queue /\ f.value = s.value
  <1> DEFINE s == k.sems[i]
             f == forget(k, p, i)
             q == queue_remove_pid(s.queue, p)
  <1>1. /\ f.queue = q
        /\ f.value = IF Queued(s, p) THEN s.value + 1 ELSE s.value
    BY ForgetIs DEF ForgetStep, SlotIs
  <1>2. i \in Sems /\ s.value \in Int /\ s.queue \in Seq(Pids) /\ Balanced(s)
    BY DEF Tables, Semaphore, Lines, Open
  <1> HIDE DEF s, f
  <1>3. /\ Elements(q) = Elements(s.queue) \ {p} /\ Distinct(q)
        /\ Len(q) = IF p \in Elements(s.queue) THEN Len(s.queue) - 1 ELSE Len(s.queue)
    BY <1>2, RemovedQueue DEF Balanced
  <1>4. CASE Queued(s, p)
    <2>1. Len(q) = Len(s.queue) - 1 /\ f.value = s.value + 1
      BY <1>1, <1>3, <1>4 DEF Queued
    <2>2. Len(s.queue) > 0
      <3>1. s.queue # <<>>
        BY <1>4, EmptyLine DEF Queued
      <3> QED
        BY <1>2, <3>1
    <2>3. Len(s.queue) = -s.value
      BY <1>2, <2>2 DEF Balanced
    <2>4. Len(q) = IF s.value + 1 < 0 THEN -(s.value + 1) ELSE 0
      BY <1>2, <2>1, <2>2, <2>3
    <2> QED
      BY <1>1, <1>3, <1>4, <2>1, <2>4 DEF Balanced, s, f
  <1>5. CASE ~Queued(s, p)
    <2>1. q = s.queue
      BY <1>2, <1>5, RemoveStranger DEF Queued
    <2>2. f.queue = s.queue /\ f.value = s.value
      BY <1>1, <1>5, <2>1
    <2> QED
      BY <1>2, <1>3, <2>1, <2>2 DEF Balanced, s, f
  <1> QED
    BY <1>4, <1>5

\* p dies, and its unit of semaphore i goes to the first in line.
LEMMA BequeathsIs ==
    ASSUME NEW k \in Tables, Lines(k), NEW p \in Pids, NEW i \in Sems
    PROVE  /\ Bequeaths(k, p, i) <=> /\ i \in Open(k) /\ Holds(k, p, i)
                                     /\ Hands(k.sems[i])
           /\ Bequeaths(k, p, i) => Head(forget(k, p, i).queue) = Head(k.sems[i].queue)
  <1>1. ASSUME i \in Open(k), Holds(k, p, i)
        PROVE  /\ forget(k, p, i).queue = k.sems[i].queue
               /\ forget(k, p, i).value = k.sems[i].value
    BY <1>1, ForgetLine DEF Holds
  <1> QED
    BY <1>1 DEF Bequeaths, Hands

LEMMA BequeathsOne ==
    ASSUME NEW k \in Tables, Lines(k), NEW p \in Pids, NEW i \in Sems, Bequeaths(k, p, i)
    PROVE  Hands(k.sems[i])
  BY BequeathsIs

\* q gets the unit of the semaphore that it waits for.
Heir(k, p, q) ==
    LET w == k.procs[q].waits
    IN  w \in Sems /\ Bequeaths(k, p, w) /\ q = Head(k.sems[w].queue)

LEMMA InheritedIs ==
    ASSUME NEW k \in Tables, Lines(k), NEW p \in Pids, NEW q \in Pids
    PROVE  /\ Heir(k, p, q) => /\ Inherited(k, p, q) = {k.procs[q].waits}
                               /\ k.procs[q].state = "BLOCKED"
           /\ ~Heir(k, p, q) => Inherited(k, p, q) = {}
  <1> DEFINE c == k.procs[q]
  <1>1. c \in PCB
    BY DEF Tables
  <1>2. ASSUME NEW i \in Sems
        PROVE  /\ i \in Inherited(k, p, q) <=> Bequeaths(k, p, i) /\ q = Head(k.sems[i].queue)
               /\ Bequeaths(k, p, i) /\ q = Head(k.sems[i].queue) =>
                     c.waits = i /\ c.state = "BLOCKED"
    <2> DEFINE r == cleanup_slot(k, p, i)
               f == forget(k, p, i)
    <2>1. r.procs[q] = IF Bequeaths(k, p, i) /\ q = Head(f.queue) /\ c.state # "FREE"
                         THEN handed(c, i)
                         ELSE c
      BY CleanupSlot, Zenon DEF SlotStep
    <2>2. i \in Inherited(k, p, q) <=> r.procs[q] # c
      BY DEF Inherited
    <2>3. Bequeaths(k, p, i) => Hands(k.sems[i]) /\ Head(f.queue) = Head(k.sems[i].queue)
      BY BequeathsIs
    <2>4. Bequeaths(k, p, i) /\ q = Head(k.sems[i].queue) => c.waits = i /\ c.state = "BLOCKED"
      BY <2>3, FirstInLine
    <2> HIDE DEF r, f, c
    <2>5. c.state = "BLOCKED" => handed(c, i) # c
      BY <1>1, HandedType
    <2> QED
      BY <2>1, <2>2, <2>3, <2>4, <2>5
  <1>3. Inherited(k, p, q) \subseteq Sems
    BY DEF Inherited
  <1> HIDE DEF c
  <1>4. CASE Heir(k, p, q)
    <2>1. c.waits \in Sems /\ c.waits \in Inherited(k, p, q) /\ c.state = "BLOCKED"
      BY <1>2, <1>4 DEF Heir, c
    <2>2. \A i \in Inherited(k, p, q) : i = c.waits
      BY <1>2, <1>3
    <2> QED
      BY <1>4, <2>1, <2>2 DEF c
  <1>5. CASE ~Heir(k, p, q)
    <2>1. ASSUME NEW i \in Inherited(k, p, q)  PROVE FALSE
      BY <1>2, <1>3, <1>5, <2>1 DEF Heir, c
    <2> QED
      BY <1>5, <2>1
  <1> QED
    BY <1>4, <1>5

\* The value and the line that p's death leaves to an open semaphore.
left_value(k, p, i) ==
    IF Queued(k.sems[i], p) \/ i \in k.procs[p].held THEN k.sems[i].value + 1
    ELSE k.sems[i].value
left_line(k, p, i) ==
    IF Queued(k.sems[i], p) THEN queue_remove_pid(k.sems[i].queue, p)
    ELSE IF Bequeaths(k, p, i) THEN Tail(k.sems[i].queue)
    ELSE k.sems[i].queue

DeathStep(k, r, p) ==
    /\ r \in Tables
    /\ PCBIs(r.procs[p], "FREE", {}, {}, NULL)
    /\ \A q \in Pids \ {p} :
          LET c == k.procs[q]
          IN  /\ Heir(k, p, q) =>
                    PCBIs(r.procs[q], "READY", c.held \cup {c.waits}, c.opened, NULL)
              /\ ~Heir(k, p, q) => r.procs[q] = c
    /\ \A i \in Sems :
          LET s == k.sems[i]
          IN  /\ i \notin Open(k) => r.sems[i] = FreeSem
              /\ i \in Open(k) /\ references(k, p, i) = 0 => r.sems[i] = FreeSem
              /\ i \in Open(k) /\ references(k, p, i) # 0 =>
                    SlotIs(r.sems[i], s.name, left_value(k, p, i), s.initial,
                           left_line(k, p, i), references(k, p, i))

LEMMA DeathIs ==
    ASSUME NEW k \in Tables, Lines(k), NEW p \in Pids
    PROVE  DeathStep(k, sem_cleanup_for_process(k, p), p)
  <1> DEFINE r == sem_cleanup_for_process(k, p)
  <1>1. CleanupStep(k, r, p)
    BY CleanupIs
  <1> HIDE DEF r
  <1>2. r \in Tables /\ PCBIs(r.procs[p], "FREE", {}, {}, NULL)
    BY <1>1 DEF CleanupStep, Gone, PCBIs
  <1>3. ASSUME NEW q \in Pids \ {p}
        PROVE  LET c == k.procs[q]
               IN  /\ Heir(k, p, q) =>
                         PCBIs(r.procs[q], "READY", c.held \cup {c.waits}, c.opened, NULL)
                   /\ ~Heir(k, p, q) => r.procs[q] = c
    <2> DEFINE c == k.procs[q]
               u == process_unblock(c)
    <2>1. c \in PCB
      BY DEF Tables
    <2>2. CASE ~Heir(k, p, q)
      BY <1>1, <2>2, InheritedIs DEF CleanupStep
    <2>3. CASE Heir(k, p, q)
      <3>1. Inherited(k, p, q) = {c.waits} /\ c.state = "BLOCKED"
        BY <2>3, InheritedIs
      <3>2. PCBIs(r.procs[q], u.state, u.held \cup Inherited(k, p, q), u.opened, u.waits)
        BY <1>1, <3>1 DEF CleanupStep
      <3>3. u.state = "READY" /\ u.held = c.held /\ u.opened = c.opened /\ u.waits = NULL
        BY <2>1, <3>1, UnblockType
      <3> HIDE DEF c, u
      <3>4. PCBIs(r.procs[q], "READY", c.held \cup {c.waits}, c.opened, NULL)
        BY <3>1, <3>2, <3>3
      <3> QED
        BY <2>3, <3>4 DEF c
    <2> QED
      BY <2>2, <2>3
  <1>4. ASSUME NEW i \in Sems
        PROVE  LET s == k.sems[i]
               IN  /\ i \notin Open(k) => r.sems[i] = FreeSem
                   /\ i \in Open(k) /\ references(k, p, i) = 0 => r.sems[i] = FreeSem
                   /\ i \in Open(k) /\ references(k, p, i) # 0 =>
                         SlotIs(r.sems[i], s.name, left_value(k, p, i), s.initial,
                                left_line(k, p, i), references(k, p, i))
    <2> DEFINE s == k.sems[i]
               f == forget(k, p, i)
               t == cleanup_slot(k, p, i).sems[i]
    <2>1. r.sems[i] = Settle(t)
      BY <1>1 DEF CleanupStep
    <2>2. SlotStep(k, cleanup_slot(k, p, i), p, i)
      BY CleanupSlot
    <2>3. t \in Semaphore /\ s \in Semaphore
      BY <2>2 DEF SlotStep, Tables
    <2>4. CASE i \notin Open(k)
      <3>1. t.open_count = 0
        BY <2>2, <2>3, <2>4 DEF SlotStep, Open, Semaphore
      <3> QED
        BY <2>1, <2>3, <2>4, <3>1, SettleType
    <2>5. CASE i \in Open(k)
      <3>1. ForgetStep(k, f, p, i)
        BY <2>5, ForgetIs
      <3>2. SlotIs(t, s.name, left_value(k, p, i), s.initial, left_line(k, p, i),
                   references(k, p, i))
        <4>1. CASE Queued(s, p)
          <5>1. t = f
            BY <2>2, <2>5, <4>1 DEF SlotStep, Holds
          <5> QED
            BY <3>1, <4>1, <5>1 DEF ForgetStep, SlotIs, left_value, left_line
        <4>2. CASE ~Queued(s, p) /\ i \notin k.procs[p].held
          <5>1. t = f /\ ~Bequeaths(k, p, i)
            BY <2>2, <2>5, <4>2 DEF SlotStep, Holds, Bequeaths
          <5>2. f.queue = s.queue
            BY <2>5, <4>2, ForgetLine
          <5> QED
            BY <3>1, <4>2, <5>1, <5>2 DEF ForgetStep, SlotIs, left_value, left_line
        <4>3. CASE ~Queued(s, p) /\ i \in k.procs[p].held
          <5>1. Holds(k, p, i)
            BY <4>3 DEF Holds
          <5>2. SlotIs(t, f.name, f.value + 1, f.initial,
                       IF Hands(f) THEN Tail(f.queue) ELSE f.queue, f.open_count)
            BY <2>2, <2>5, <5>1, Zenon DEF SlotStep
          <5>3. f.queue = s.queue /\ f.value = s.value
            BY <2>5, <4>3, ForgetLine
          <5>4. Bequeaths(k, p, i) <=> Hands(f)
            BY <2>5, <5>1 DEF Bequeaths
          <5>5. f.name = s.name /\ f.initial = s.initial /\ f.open_count = references(k, p, i)
            BY <3>1 DEF ForgetStep, SlotIs
          <5> HIDE DEF t, f
          <5>6. left_value(k, p, i) = s.value + 1
            BY <4>3 DEF left_value
          <5>7. left_line(k, p, i) = IF Hands(f) THEN Tail(f.queue) ELSE f.queue
            BY <4>3, <5>3, <5>4 DEF left_line
          <5> QED
            BY <5>2, <5>3, <5>5, <5>6, <5>7
        <4> QED
          BY <4>1, <4>2, <4>3
      <3>3. t.open_count = references(k, p, i)
        BY <3>2 DEF SlotIs
      <3> HIDE DEF t
      <3> QED
        BY <2>1, <2>3, <2>5, <3>2, <3>3, SettleType
    <2> QED
      BY <2>4, <2>5
  <1> QED
    BY <1>2, <1>3, <1>4 DEF DeathStep, r

LEMMA DeathLines ==
    ASSUME NEW k \in Tables, Lines(k), NEW p \in Pids
    PROVE  Lines(sem_cleanup_for_process(k, p))
  <1> DEFINE r == sem_cleanup_for_process(k, p)
  <1>1. DeathStep(k, r, p)
    BY DeathIs
  <1> HIDE DEF r
  <1>2. ASSUME NEW i \in Sems
        PROVE  Balanced(r.sems[i]) /\ Asleep(r, i)
    <2>1. CASE i \notin Open(k) \/ references(k, p, i) = 0
      <3>1. r.sems[i] = FreeSem
        BY <1>1, <2>1 DEF DeathStep
      <3> QED
        BY <3>1, FreeSemLine DEF Asleep
    <2>2. CASE i \in Open(k) /\ references(k, p, i) # 0
      <3> DEFINE s == k.sems[i]
      <3>1. /\ r.sems[i].value = left_value(k, p, i)
            /\ r.sems[i].queue = left_line(k, p, i)
        BY <1>1, <2>2 DEF DeathStep, SlotIs
      <3>2. Bequeaths(k, p, i) <=> Holds(k, p, i) /\ Hands(s)
        BY <2>2, BequeathsIs
      <3>3. Balanced(r.sems[i])
        <4>1. CASE Queued(s, p)
          <5>1. /\ r.sems[i].queue = forget(k, p, i).queue
                /\ r.sems[i].value = forget(k, p, i).value
            BY <2>2, <3>1, <4>1, ForgetIs DEF ForgetStep, SlotIs, left_value, left_line
          <5>2. Balanced(forget(k, p, i))
            BY <2>2, ForgetLine
          <5> QED
            BY <5>1, <5>2 DEF Balanced
        <4>2. CASE ~Queued(s, p) /\ i \notin k.procs[p].held
          <5>1. r.sems[i].queue = s.queue /\ r.sems[i].value = s.value
            BY <3>1, <3>2, <4>2 DEF left_value, left_line, Holds
          <5> QED
            BY <5>1 DEF Balanced, Lines
        <4>3. CASE Holds(k, p, i)
          <5>1. ~Queued(s, p) /\ i \in k.procs[p].held
            BY <4>3 DEF Holds
          <5>2. /\ r.sems[i].value = s.value + 1
                /\ r.sems[i].queue = IF Hands(s) THEN Tail(s.queue) ELSE s.queue
            BY <3>1, <3>2, <4>3, <5>1 DEF left_value, left_line
          <5> QED
            BY <5>2, GivenBalance
        <4> QED
          BY <4>1, <4>2, <4>3 DEF Holds
      <3>4. ASSUME NEW q \in Elements(r.sems[i].queue)
            PROVE  q \in Elements(s.queue) /\ q # p /\ ~Heir(k, p, q)
        <4>1. s.queue \in Seq(Pids)
          BY DEF Tables, Semaphore
        <4>2. CASE Queued(s, p)
          <5>1. Elements(r.sems[i].queue) = Elements(s.queue) \ {p}
            <6>1. r.sems[i].queue = queue_remove_pid(s.queue, p)
              BY <3>1, <4>2 DEF left_line
            <6> HIDE DEF s
            <6>2. Elements(queue_remove_pid(s.queue, p)) = Elements(s.queue) \ {p}
              BY <4>1, RemovedQueue
            <6> QED
              BY <6>1, <6>2
          <5>2. ~Bequeaths(k, p, i)
            BY <3>2, <4>2 DEF Holds
          <5>3. k.procs[q].waits = i
            BY <3>4, <5>1 DEF Lines, Asleep
          <5> QED
            BY <3>4, <5>1, <5>2, <5>3 DEF Heir
        <4>3. CASE ~Queued(s, p) /\ ~Bequeaths(k, p, i)
          <5>1. r.sems[i].queue = s.queue
            BY <3>1, <4>3 DEF left_line
          <5>2. k.procs[q].waits = i
            BY <3>4, <5>1 DEF Lines, Asleep
          <5> QED
            BY <3>4, <4>3, <5>1, <5>2 DEF Heir, Queued
        <4>4. CASE ~Queued(s, p) /\ Bequeaths(k, p, i)
          <5>1. r.sems[i].queue = Tail(s.queue)
            BY <3>1, <4>4 DEF left_line
          <5>2. Elements(Tail(s.queue)) = Elements(s.queue) \ {Head(s.queue)}
            BY <3>2, <4>4, FirstInLine
          <5>3. k.procs[q].waits = i
            BY <3>4, <5>1, <5>2 DEF Lines, Asleep
          <5> QED
            BY <3>4, <4>4, <5>1, <5>2, <5>3 DEF Heir, Queued
        <4> QED
          BY <4>2, <4>3, <4>4
      <3>5. Asleep(r, i)
        <4> SUFFICES ASSUME NEW q \in Elements(r.sems[i].queue)
                     PROVE  q \in Pids /\ r.procs[q].state = "BLOCKED" /\ r.procs[q].waits = i
          BY DEF Asleep
        <4>1. /\ q \in Pids /\ k.procs[q].state = "BLOCKED" /\ k.procs[q].waits = i
              /\ q # p /\ ~Heir(k, p, q)
          BY <3>4 DEF Lines, Asleep
        <4> QED
          BY <1>1, <4>1 DEF DeathStep
      <3> QED
        BY <3>3, <3>5
    <2> QED
      BY <2>1, <2>2
  <1> QED
    BY <1>2 DEF Lines, r

LEMMA StepLines ==
    ASSUME Kernel \in Tables, Lines(Kernel), [Next]_vars, "no_resume" \in Discipline
    PROVE  Lines(Kernel')
  <1>1. CASE Kernel' = Kernel
    BY <1>1
  <1>2. ASSUME NEW p \in Pids, NEW name \in Names, NEW v \in InitialValues,
               Opens(Kernel, Kernel', p, name, v)
        PROVE  Lines(Kernel')
    BY <1>2, OpenLines DEF Opens
  <1>3. ASSUME NEW p \in Pids, NEW i \in Sems, Waits(Kernel, Kernel', p, i)
        PROVE  Lines(Kernel')
    BY <1>3, WaitLines DEF Waits, Lent
  <1>4. ASSUME NEW p \in Pids, NEW i \in Sems, Posts(Kernel, Kernel', p, i)
        PROVE  Lines(Kernel')
    BY <1>4, PostLines DEF Posts
  <1>5. ASSUME NEW p \in Pids, NEW i \in Sems, Closes(Kernel, Kernel', p, i)
        PROVE  Lines(Kernel')
    BY <1>5, CloseLines DEF Closes, Lent
  <1>6. ASSUME NEW p \in Pids, Dies(Kernel, Kernel', p)
        PROVE  Lines(Kernel')
    BY <1>6, DeathLines DEF Dies
  <1>7. ASSUME NEW p \in Pids, Pauses(Kernel, Kernel', p)
        PROVE  Lines(Kernel')
    <2>1. Kernel'.sems = Kernel.sems
      BY <1>7 DEF Pauses
    <2>2. \A q \in Pids, i \in Sems :
             Kernel.procs[q].state = "BLOCKED" /\ Kernel.procs[q].waits = i =>
                Kernel'.procs[q].state = "BLOCKED" /\ Kernel'.procs[q].waits = i
      BY <1>7, SemsAreNat DEF Pauses, Obeyed
    <2>3. ASSUME NEW i \in Sems  PROVE Balanced(Kernel'.sems[i]) /\ Asleep(Kernel', i)
      BY <2>1, <2>2, SameLine
    <2> QED
      BY <2>3 DEF Lines
  <1> QED
    BY <1>1, <1>2, <1>3, <1>4, <1>5, <1>6, <1>7, Steps

LEMMA InitLines == Init => Lines(Kernel)
  <1> SUFFICES ASSUME Init, NEW i \in Sems
               PROVE  Balanced(Kernel.sems[i]) /\ Asleep(Kernel, i)
    BY DEF Lines
  <1>1. Kernel.sems[i] = FreeSem
    BY DEF Init, Kernel
  <1> QED
    BY <1>1, FreeSemLine DEF Asleep

\* While nobody wakes a process inside sem_wait from outside, a negative value
\* counts the processes in line, whatever else programs do with names that they
\* have not opened, with extra posts, or by dying at any moment.
THEOREM ValueCountsTheLine ==
    "no_resume" \in Discipline => (Spec => []QueueMatchesValue)
  <1> SUFFICES ASSUME "no_resume" \in Discipline  PROVE Spec => []QueueMatchesValue
    OBVIOUS
  <1> DEFINE Inv == Lines(Kernel)
  <1>1. Init => Inv
    BY InitLines
  <1>2. TypeOK /\ Inv /\ [Next]_vars => Inv'
    BY StepLines, TypeIsTables
  <1>3. Inv => QueueMatchesValue
    <2> SUFFICES ASSUME Inv, NEW i \in Open(Kernel)
                 PROVE  Len(sem_table[i].queue) =
                            IF sem_table[i].value < 0 THEN -sem_table[i].value ELSE 0
      BY DEF QueueMatchesValue
    <2>1. i \in Sems /\ Kernel.sems = sem_table
      BY DEF Open, Kernel
    <2> QED
      BY <2>1 DEF Lines, Balanced
  <1>4. Spec => []TypeOK
    BY SemaphoresTypeCorrect
  <1> QED
    BY <1>1, <1>2, <1>3, <1>4, PTL DEF Spec

-----------------------------------------------------------------------------
(***************************************************************************)
(* The references: open_count counts the processes that have the semaphore *)
(* open.                                                                   *)
(***************************************************************************)
Openers(k, i) == {q \in Pids : i \in k.procs[q].opened}

Counted(k) == \A i \in Sems : k.sems[i].open_count = Cardinality(Openers(k, i))

LEMMA CountOne ==
    ASSUME NEW S \in SUBSET Pids, NEW p \in Pids
    PROVE  /\ IsFiniteSet(S) /\ Cardinality(S) \in Nat
           /\ Cardinality(S) = 0 <=> S = {}
           /\ p \notin S => Cardinality(S \cup {p}) = Cardinality(S) + 1
           /\ p \in S => Cardinality(S \ {p}) = Cardinality(S) - 1
           /\ p \notin S => S \ {p} = S
  <1>1. IsFiniteSet(S)
    BY FS_Subset, SemaphoresAssumption
  <1>2. Cardinality(S) \in Nat /\ (Cardinality(S) = 0 <=> S = {})
    BY <1>1, FS_CardinalityType, FS_EmptySet
  <1>3. p \notin S => Cardinality(S \cup {p}) = Cardinality(S) + 1
    BY <1>1, FS_AddElement
  <1>4. p \in S => Cardinality(S \ {p}) = Cardinality(S) - 1
    BY <1>1, FS_RemoveElement
  <1> QED
    BY <1>1, <1>2, <1>3, <1>4

\* Slots and openers that stay as they are stay counted.
LEMMA SameOpeners ==
    ASSUME NEW k, NEW r, NEW j, \A q \in Pids : j \in r.procs[q].opened <=> j \in k.procs[q].opened
    PROVE  Openers(r, j) = Openers(k, j)
  BY DEF Openers

\* What a process has open is open.
LEMMA OpenedIsOpen ==
    ASSUME NEW k \in Tables, Counted(k), NEW p \in Pids, NEW j \in Sems, j \in k.procs[p].opened
    PROVE  j \in Open(k)
  <1>1. p \in Openers(k, j) /\ IsFiniteSet(Openers(k, j))
    BY FS_Subset, SemaphoresAssumption DEF Openers
  <1>2. Cardinality(Openers(k, j)) \in Nat /\ Cardinality(Openers(k, j)) # 0
    BY <1>1, FS_CardinalityType, FS_EmptySet
  <1> QED
    BY <1>2 DEF Counted, Open

LEMMA OpenCounted ==
    ASSUME NEW k \in Tables, Counted(k), NEW p \in Pids, NEW name \in Names,
           NEW v \in InitialValues, find_sem(k, name) # NULL \/ FreeSlots(k) # {},
           find_sem(k, name) \notin k.procs[p].opened
    PROVE  /\ Counted(sem_open(k, p, name, v))
           /\ find_sem(k, name) = NULL => Openers(k, opened_slot(k, name)) = {}
  <1> DEFINE r == sem_open(k, p, name, v)
             i == opened_slot(k, name)
  <1>1. OpenStep(k, r, p, name, v)
    BY OpenIs
  <1>2. i \in Sems /\ (find_sem(k, name) # NULL => i = find_sem(k, name))
    BY OpenedSlot
  <1>3. find_sem(k, name) = NULL => k.sems[i].open_count = 0
    <2>1. k.sems[i].open_count \in Nat
      BY <1>2 DEF Tables, Semaphore
    <2> QED
      BY <1>2, <2>1, OpenedSlot DEF Open
  <1>4. Openers(k, i) \in SUBSET Pids
    BY DEF Openers
  <1>5. find_sem(k, name) = NULL => Openers(k, i) = {}
    BY <1>2, <1>3, <1>4, CountOne DEF Counted
  <1> HIDE DEF r, i
  <1>6. p \notin Openers(k, i)
    BY <1>2, <1>5 DEF Openers
  <1>7. \A q \in Pids \ {p} : r.procs[q] = k.procs[q]
    BY <1>1 DEF OpenStep, Only
  <1>8. r.procs[p].opened = k.procs[p].opened \cup {i}
    BY <1>1 DEF OpenStep, PCBIs, i
  <1>9. Openers(r, i) = Openers(k, i) \cup {p}
    BY <1>7, <1>8 DEF Openers
  <1>10. r.sems[i].open_count = k.sems[i].open_count + 1
    BY <1>1, <1>3 DEF OpenStep, SlotIs, i
  <1>11. ASSUME NEW j \in Sems
         PROVE  r.sems[j].open_count = Cardinality(Openers(r, j))
    <2>1. CASE j = i
      BY <1>4, <1>6, <1>9, <1>10, <2>1, CountOne DEF Counted
    <2>2. CASE j # i
      <3>1. Openers(r, j) = Openers(k, j)
        BY <1>7, <1>8, <2>2, SameOpeners
      <3>2. r.sems[j] = k.sems[j]
        BY <1>1, <2>2 DEF OpenStep, Only, i
      <3> QED
        BY <3>1, <3>2 DEF Counted
    <2> QED
      BY <2>1, <2>2
  <1> QED
    BY <1>5, <1>11 DEF Counted, r, i

LEMMA WaitCounted ==
    ASSUME NEW k \in Tables, Counted(k), NEW p \in Pids, NEW i \in Sems
    PROVE  Counted(sem_wait(k, p, i))
  <1> DEFINE r == sem_wait(k, p, i)
  <1>1. WaitStep(k, r, p, i)
    BY WaitIs
  <1> HIDE DEF r
  <1>2. \A q \in Pids : r.procs[q].opened = k.procs[q].opened
    BY <1>1 DEF WaitStep, Only, PCBIs
  <1>3. \A j \in Sems : r.sems[j].open_count = k.sems[j].open_count
    BY <1>1 DEF WaitStep, Only, SlotIs
  <1> QED
    BY <1>2, <1>3 DEF Counted, Openers, r

LEMMA PostCounted ==
    ASSUME NEW k \in Tables, Counted(k), NEW p \in Pids, NEW i \in Sems
    PROVE  Counted(sem_post(k, p, i))
  <1> DEFINE r == sem_post(k, p, i)
  <1>1. PICK d : DropStep(k, d, p, i) /\ r = give(d, i)
    BY PostIs
  <1>2. d \in Tables /\ GiveStep(d, r, i)
    BY <1>1, GiveIs DEF DropStep
  <1> HIDE DEF r
  <1>3. ASSUME NEW q \in Pids  PROVE r.procs[q].opened = k.procs[q].opened
    <2>1. d.procs[q].opened = k.procs[q].opened
      BY <1>1 DEF DropStep, PCBIs
    <2>2. d.procs[q] \in PCB
      BY <1>2 DEF Tables
    <2>3. r.procs[q].opened = d.procs[q].opened
      BY <1>2, <2>2, HandedType DEF GiveStep
    <2> QED
      BY <2>1, <2>3
  <1>4. \A j \in Sems : r.sems[j].open_count = k.sems[j].open_count
    BY <1>1, <1>2 DEF DropStep, GiveStep, SlotIs
  <1> QED
    BY <1>3, <1>4 DEF Counted, Openers, r

LEMMA CloseCounted ==
    ASSUME NEW k \in Tables, Counted(k), NEW p \in Pids, NEW i \in Open(k),
           i \in k.procs[p].opened
    PROVE  Counted(sem_close(k, p, i))
  <1> DEFINE r == sem_close(k, p, i)
  <1>1. CloseStep(k, r, p, i)
    BY CloseIs
  <1> HIDE DEF r
  <1>2. \A q \in Pids \ {p} : r.procs[q] = k.procs[q]
    BY <1>1 DEF CloseStep, Only
  <1>3. r.procs[p].opened = k.procs[p].opened \ {i}
    BY <1>1 DEF CloseStep, PCBIs
  <1>4. Openers(r, i) = Openers(k, i) \ {p} /\ p \in Openers(k, i)
    BY <1>2, <1>3 DEF Openers
  <1>5. i \in Sems /\ k.sems[i].open_count \in Nat
    BY DEF Open, Tables, Semaphore
  <1>6. r.sems[i].open_count = k.sems[i].open_count - 1
    BY <1>1, <1>5, FreeSemType DEF CloseStep, SlotIs
  <1>7. ASSUME NEW j \in Sems
        PROVE  r.sems[j].open_count = Cardinality(Openers(r, j))
    <2>1. CASE j = i
      <3>1. Openers(k, i) \in SUBSET Pids
        BY DEF Openers
      <3> QED
        BY <1>4, <1>6, <2>1, <3>1, CountOne DEF Counted
    <2>2. CASE j # i
      <3>1. Openers(r, j) = Openers(k, j)
        BY <1>2, <1>3, <2>2, SameOpeners
      <3>2. r.sems[j] = k.sems[j]
        BY <1>1, <2>2 DEF CloseStep, Only
      <3> QED
        BY <3>1, <3>2 DEF Counted
    <2> QED
      BY <2>1, <2>2
  <1> QED
    BY <1>7 DEF Counted, r

\* Death takes one reference from every semaphore that the process has open.
LEMMA DeathReferences ==
    ASSUME NEW k \in Tables, Counted(k), NEW p \in Pids, NEW i \in Sems
    PROVE  /\ i \in Open(k) => references(k, p, i) = Cardinality(Openers(k, i) \ {p})
           /\ i \notin Open(k) => Openers(k, i) = {}
  <1>1. Openers(k, i) \in SUBSET Pids /\ k.sems[i].open_count = Cardinality(Openers(k, i))
    BY DEF Openers, Counted
  <1>2. p \in Openers(k, i) <=> i \in k.procs[p].opened
    BY DEF Openers
  <1>3. i \notin Open(k) => k.sems[i].open_count = 0
    BY DEF Open, Tables, Semaphore
  <1> DEFINE S == Openers(k, i)
  <1> HIDE DEF S
  <1>4. /\ Cardinality(S) = 0 <=> S = {}
        /\ p \in S => Cardinality(S \ {p}) = Cardinality(S) - 1
        /\ p \notin S => S \ {p} = S
    <2>1. S \in SUBSET Pids
      BY <1>1 DEF S
    <2> QED
      BY <2>1, CountOne
  <1> QED
    BY <1>1, <1>2, <1>3, <1>4 DEF references, S

LEMMA DeathCounted ==
    ASSUME NEW k \in Tables, Counted(k), NEW p \in Pids
    PROVE  Counted(sem_cleanup_for_process(k, p))
  <1> DEFINE r == sem_cleanup_for_process(k, p)
  <1>1. CleanupStep(k, r, p)
    BY CleanupIs
  <1> HIDE DEF r
  <1>2. ASSUME NEW q \in Pids \ {p}  PROVE r.procs[q].opened = k.procs[q].opened
    <2>1. k.procs[q] \in PCB
      BY DEF Tables
    <2>2. process_unblock(k.procs[q]).opened = k.procs[q].opened
      BY <2>1, UnblockType
    <2> QED
      BY <1>1, <2>2 DEF CleanupStep, PCBIs
  <1>3. r.procs[p].opened = {}
    BY <1>1 DEF CleanupStep, Gone
  <1>4. ASSUME NEW i \in Sems
        PROVE  r.sems[i].open_count = Cardinality(Openers(r, i))
    <2> DEFINE t == cleanup_slot(k, p, i).sems[i]
    <2>1. Openers(r, i) = Openers(k, i) \ {p}
      BY <1>2, <1>3 DEF Openers
    <2>2. SlotStep(k, cleanup_slot(k, p, i), p, i)
      BY CleanupSlot
    <2>3. t \in Semaphore
      BY <2>2 DEF SlotStep, Tables
    <2>4. r.sems[i].open_count = t.open_count
      BY <1>1, <2>3, SettleType DEF CleanupStep
    <2>5. CASE i \in Open(k)
      <3>1. forget(k, p, i).open_count = references(k, p, i)
        BY <2>5, ForgetIs DEF ForgetStep, SlotIs
      <3>2. t.open_count = references(k, p, i)
        BY <2>2, <2>5, <3>1 DEF SlotStep, SlotIs
      <3> QED
        BY <2>1, <2>4, <2>5, <3>2, DeathReferences
    <2>6. CASE i \notin Open(k)
      <3>1. t = k.sems[i]
        BY <2>2, <2>6 DEF SlotStep
      <3>2. Openers(k, i) = {}
        BY <2>6, DeathReferences
      <3> QED
        BY <2>1, <2>4, <3>1, <3>2 DEF Counted
    <2> QED
      BY <2>5, <2>6
  <1> QED
    BY <1>4 DEF Counted, r

LEMMA StepCounted ==
    ASSUME Kernel \in Tables, Counted(Kernel), [Next]_vars, {"opened", "once"} \subseteq Discipline
    PROVE  Counted(Kernel')
  <1>1. CASE Kernel' = Kernel
    BY <1>1
  <1>2. ASSUME NEW p \in Pids, NEW name \in Names, NEW v \in InitialValues,
               Opens(Kernel, Kernel', p, name, v)
        PROVE  Counted(Kernel')
    BY <1>2, OpenCounted DEF Opens, Obeyed
  <1>3. ASSUME NEW p \in Pids, NEW i \in Sems, Waits(Kernel, Kernel', p, i)
        PROVE  Counted(Kernel')
    BY <1>3, WaitCounted DEF Waits
  <1>4. ASSUME NEW p \in Pids, NEW i \in Sems, Posts(Kernel, Kernel', p, i)
        PROVE  Counted(Kernel')
    BY <1>4, PostCounted DEF Posts
  <1>5. ASSUME NEW p \in Pids, NEW i \in Sems, Closes(Kernel, Kernel', p, i)
        PROVE  Counted(Kernel')
    BY <1>5, CloseCounted DEF Closes, Lent, Obeyed
  <1>6. ASSUME NEW p \in Pids, Dies(Kernel, Kernel', p)
        PROVE  Counted(Kernel')
    BY <1>6, DeathCounted DEF Dies
  <1>7. ASSUME NEW p \in Pids, Pauses(Kernel, Kernel', p)
        PROVE  Counted(Kernel')
    <2>1. Kernel'.sems = Kernel.sems
      BY <1>7 DEF Pauses
    <2>2. \A q \in Pids : Kernel'.procs[q].opened = Kernel.procs[q].opened
      BY <1>7 DEF Pauses
    <2> QED
      BY <2>1, <2>2 DEF Counted, Openers
  <1> QED
    BY <1>1, <1>2, <1>3, <1>4, <1>5, <1>6, <1>7, Steps

LEMMA InitCounted == Init => Counted(Kernel)
  <1> SUFFICES ASSUME Init, NEW i \in Sems
               PROVE  Kernel.sems[i].open_count = Cardinality(Openers(Kernel, i))
    BY DEF Counted
  <1>1. Kernel.sems[i] = FreeSem /\ Openers(Kernel, i) = {}
    BY DEF Init, Kernel, Openers
  <1> QED
    BY <1>1, FreeSemType, FS_EmptySet

\* When programs use only what they have open and open nothing twice,
\* open_count is the number of processes that have the semaphore open: a slot
\* is freed exactly when the last of them closes it or dies.
THEOREM ReferencesCounted ==
    {"opened", "once"} \subseteq Discipline => (Spec => []OpenersCounted)
  <1> SUFFICES ASSUME {"opened", "once"} \subseteq Discipline  PROVE Spec => []OpenersCounted
    OBVIOUS
  <1> DEFINE Inv == Counted(Kernel)
  <1>1. Init => Inv
    BY InitCounted
  <1>2. TypeOK /\ Inv /\ [Next]_vars => Inv'
    BY StepCounted, TypeIsTables
  <1>3. TypeOK /\ Inv => OpenersCounted
    BY DEF Counted, Openers, OpenersCounted, Kernel
  <1>4. Spec => []TypeOK
    BY SemaphoresTypeCorrect
  <1> QED
    BY <1>1, <1>2, <1>3, <1>4, PTL DEF Spec

-----------------------------------------------------------------------------
(***************************************************************************)
(* The waiters: one that sleeps inside sem_wait is in the line, and keeps  *)
(* the semaphore open.                                                     *)
(***************************************************************************)
Waiting_ok(k, q) ==
    k.procs[q].waits # NULL =>
        /\ q \in Elements(k.sems[k.procs[q].waits].queue)
        /\ k.procs[q].waits \in k.procs[q].opened

Waiters(k) == \A q \in Pids : Waiting_ok(k, q)

\* A process that is not blocked is not inside sem_wait.
LEMMA RunnerDoesNotWait ==
    ASSUME NEW k \in Tables, Lines(k), Waiters(k), NEW p \in Pids, k.procs[p].state # "BLOCKED"
    PROVE  k.procs[p].waits = NULL
  <1>1. k.procs[p].waits \in Sems \cup {NULL}
    BY DEF Tables, PCB
  <1> QED
    BY <1>1, RunnerNotInLine DEF Waiters, Waiting_ok

LEMMA OpenWaiters ==
    ASSUME NEW k \in Tables, Counted(k), Waiters(k), NEW p \in Pids, NEW name \in Names,
           NEW v \in InitialValues, find_sem(k, name) # NULL \/ FreeSlots(k) # {},
           find_sem(k, name) \notin k.procs[p].opened
    PROVE  Waiters(sem_open(k, p, name, v))
  <1> DEFINE r == sem_open(k, p, name, v)
             i == opened_slot(k, name)
  <1>1. OpenStep(k, r, p, name, v)
    BY OpenIs
  <1>2. find_sem(k, name) = NULL => Openers(k, i) = {}
    BY OpenCounted
  <1> HIDE DEF r
  <1>3. ASSUME NEW q \in Pids, r.procs[q].waits # NULL
        PROVE  /\ q \in Elements(r.sems[r.procs[q].waits].queue)
               /\ r.procs[q].waits \in r.procs[q].opened
    <2> DEFINE w == k.procs[q].waits
    <2>1. r.procs[q].waits = w /\ k.procs[q].opened \subseteq r.procs[q].opened
      BY <1>1 DEF OpenStep, Only, PCBIs
    <2>2. w \in Sems /\ q \in Elements(k.sems[w].queue) /\ w \in k.procs[q].opened
      BY <1>3, <2>1 DEF Waiters, Waiting_ok, Tables, PCB
    <2>3. w # i \/ find_sem(k, name) # NULL
      BY <1>2, <2>2 DEF Openers
    <2>4. r.sems[w].queue = k.sems[w].queue
      BY <1>1, <2>2, <2>3 DEF OpenStep, Only, SlotIs
    <2> QED
      BY <2>1, <2>2, <2>4
  <1> QED
    BY <1>3 DEF Waiters, Waiting_ok, r

LEMMA WaitWaiters ==
    ASSUME NEW k \in Tables, Lines(k), Waiters(k), NEW p \in Pids, NEW i \in Sems,
           k.procs[p].state # "BLOCKED", i \in k.procs[p].opened
    PROVE  Waiters(sem_wait(k, p, i))
  <1> DEFINE r == sem_wait(k, p, i)
             s == k.sems[i]
  <1>1. WaitStep(k, r, p, i)
    BY WaitIs
  <1>2. s.value - 1 < 0 => r.sems[i].queue = Append(s.queue, p)
    BY WaitLines
  <1>3. s.queue \in Seq(Pids)
    BY DEF Tables, Semaphore
  <1>4. Elements(Append(s.queue, p)) = Elements(s.queue) \cup {p}
    BY <1>3, AppendQueue
  <1> HIDE DEF r
  <1>5. \A j \in Sems : Elements(k.sems[j].queue) \subseteq Elements(r.sems[j].queue)
    <2>1. \A j \in Sems \ {i} : r.sems[j] = k.sems[j]
      BY <1>1 DEF WaitStep, Only
    <2>2. ~(s.value - 1 < 0) => r.sems[i].queue = s.queue
      BY <1>1 DEF WaitStep, SlotIs
    <2> QED
      BY <1>2, <1>4, <2>1, <2>2
  <1>6. ASSUME NEW q \in Pids, q # p \/ ~(s.value - 1 < 0)
        PROVE  Waiting_ok(r, q)
    <2>1. r.procs[q].waits = k.procs[q].waits /\ r.procs[q].opened = k.procs[q].opened
      BY <1>1, <1>6 DEF WaitStep, Only, PCBIs
    <2>2. k.procs[q].waits \in Sems \cup {NULL}
      BY DEF Tables, PCB
    <2> QED
      BY <1>5, <2>1, <2>2 DEF Waiters, Waiting_ok
  <1>7. ASSUME s.value - 1 < 0
        PROVE  Waiting_ok(r, p)
    <2>1. r.procs[p].waits = i /\ r.procs[p].opened = k.procs[p].opened
      BY <1>1, <1>7 DEF WaitStep, PCBIs
    <2> QED
      BY <1>2, <1>4, <1>7, <2>1 DEF Waiting_ok
  <1> QED
    BY <1>6, <1>7 DEF Waiters, r

LEMMA PostWaiters ==
    ASSUME NEW k \in Tables, Lines(k), Waiters(k), NEW p \in Pids, NEW i \in Sems
    PROVE  Waiters(sem_post(k, p, i))
  <1> DEFINE r == sem_post(k, p, i)
  <1>1. PICK d : DropStep(k, d, p, i) /\ r = give(d, i)
    BY PostIs
  <1>2. d \in Tables /\ GiveStep(d, r, i) /\ Lines(d)
    BY <1>1, GiveIs, DropLines DEF DropStep
  <1> HIDE DEF r
  <1> DEFINE s == d.sems[i]
  <1>3. Waiters(d)
    BY <1>1 DEF DropStep, PCBIs, Waiters, Waiting_ok
  <1>4. ASSUME NEW q \in Pids
        PROVE  Waiting_ok(r, q)
    <2>1. d.procs[q] \in PCB
      BY <1>2 DEF Tables
    <2>2. CASE Hands(s) /\ q = Head(s.queue)
      <3>1. d.procs[q].state = "BLOCKED"
        BY <1>2, <2>2, FirstInLine
      <3>2. r.procs[q] = handed(d.procs[q], i)
        BY <1>2, <2>2, <3>1 DEF GiveStep
      <3>3. r.procs[q].waits = NULL
        BY <2>1, <3>1, <3>2, HandedType
      <3> QED
        BY <3>3 DEF Waiting_ok
    <2>3. CASE ~(Hands(s) /\ q = Head(s.queue))
      <3> DEFINE w == d.procs[q].waits
      <3>1. r.procs[q] = d.procs[q]
        BY <1>2, <2>3 DEF GiveStep
      <3>2. CASE w = NULL
        BY <3>1, <3>2 DEF Waiting_ok
      <3>3. CASE w # NULL
        <4>1. w \in Sems /\ q \in Elements(d.sems[w].queue) /\ w \in d.procs[q].opened
          BY <1>3, <2>1, <3>3 DEF Waiters, Waiting_ok, PCB
        <4>2. CASE w # i \/ ~Hands(s)
          <5>1. r.sems[w].queue = d.sems[w].queue
            BY <1>2, <4>1, <4>2 DEF GiveStep, SlotIs
          <5> QED
            BY <3>1, <4>1, <5>1 DEF Waiting_ok
        <4>3. CASE w = i /\ Hands(s)
          <5>1. r.sems[i].queue = Tail(s.queue)
            BY <1>2, <4>3 DEF GiveStep, SlotIs
          <5>2. Elements(Tail(s.queue)) = Elements(s.queue) \ {Head(s.queue)}
            BY <1>2, <4>3, FirstInLine
          <5>3. q \in Elements(r.sems[w].queue)
            BY <2>3, <4>1, <4>3, <5>1, <5>2
          <5> QED
            BY <3>1, <4>1, <5>3 DEF Waiting_ok
        <4> QED
          BY <4>2, <4>3
      <3> QED
        BY <3>2, <3>3
    <2> QED
      BY <2>2, <2>3
  <1> QED
    BY <1>4 DEF Waiters, r

\* A semaphore that another process has open is not freed.
LEMMA CloseWaiters ==
    ASSUME NEW k \in Tables, Lines(k), Counted(k), Waiters(k), NEW p \in Pids,
           k.procs[p].state # "BLOCKED", NEW i \in Open(k), i \in k.procs[p].opened
    PROVE  Waiters(sem_close(k, p, i))
  <1> DEFINE r == sem_close(k, p, i)
  <1>1. CloseStep(k, r, p, i)
    BY CloseIs
  <1> HIDE DEF r
  <1>2. k.procs[p].waits = NULL
    BY RunnerDoesNotWait
  <1>3. i \in Sems /\ p \in Openers(k, i) /\ Openers(k, i) \in SUBSET Pids
    BY DEF Open, Openers
  <1>4. ASSUME NEW q \in Pids
        PROVE  Waiting_ok(r, q)
    <2> DEFINE w == k.procs[q].waits
    <2>1. r.procs[q].waits = w
      BY <1>1 DEF CloseStep, Only, PCBIs
    <2>2. CASE w = NULL
      BY <2>1, <2>2 DEF Waiting_ok
    <2>3. CASE w # NULL
      <3>1. q # p /\ r.procs[q] = k.procs[q]
        BY <1>1, <1>2, <2>3 DEF CloseStep, Only
      <3>2. w \in Sems /\ q \in Elements(k.sems[w].queue) /\ w \in k.procs[q].opened
        BY <2>3 DEF Waiters, Waiting_ok, Tables, PCB
      <3>3. r.sems[w].queue = k.sems[w].queue
        <4>1. CASE w # i
          BY <1>1, <3>2, <4>1 DEF CloseStep, Only
        <4>2. CASE w = i
          <5>0. q \in Openers(k, i)
            BY <3>2, <4>2 DEF Openers
          <5>1. Openers(k, i) \ {p} # {} /\ Openers(k, i) \ {p} \in SUBSET Pids
            BY <1>3, <3>1, <5>0
          <5>2. /\ Cardinality(Openers(k, i) \ {p}) = Cardinality(Openers(k, i)) - 1
                /\ Cardinality(Openers(k, i)) \in Nat
            <6> DEFINE S == Openers(k, i)
            <6>1. S \in SUBSET Pids /\ p \in S
              BY <1>3
            <6> HIDE DEF S
            <6>2. Cardinality(S \ {p}) = Cardinality(S) - 1 /\ Cardinality(S) \in Nat
              BY <6>1, CountOne
            <6> QED
              BY <6>2 DEF S
          <5>3. Cardinality(Openers(k, i) \ {p}) # 0
            BY <5>1, CountOne
          <5>4. k.sems[i].open_count = Cardinality(Openers(k, i))
            BY <1>3 DEF Counted
          <5>5. k.sems[i].open_count # 1
            BY <5>2, <5>3, <5>4
          <5> QED
            BY <1>1, <4>2, <5>5 DEF CloseStep, SlotIs
        <4> QED
          BY <4>1, <4>2
      <3> QED
        BY <3>1, <3>2, <3>3 DEF Waiting_ok
    <2> QED
      BY <2>2, <2>3
  <1> QED
    BY <1>4 DEF Waiters, r

LEMMA DeathWaiters ==
    ASSUME NEW k \in Tables, Lines(k), Counted(k), Waiters(k), NEW p \in Pids
    PROVE  Waiters(sem_cleanup_for_process(k, p))
  <1> DEFINE r == sem_cleanup_for_process(k, p)
  <1>1. DeathStep(k, r, p)
    BY DeathIs
  <1> HIDE DEF r
  <1>2. ASSUME NEW q \in Pids
        PROVE  Waiting_ok(r, q)
    <2> DEFINE w == k.procs[q].waits
    <2>1. CASE q = p \/ Heir(k, p, q)
      BY <1>1, <2>1 DEF DeathStep, PCBIs, Waiting_ok
    <2>2. CASE q # p /\ ~Heir(k, p, q)
      <3>1. r.procs[q] = k.procs[q]
        BY <1>1, <2>2 DEF DeathStep
      <3>2. CASE w = NULL
        BY <3>1, <3>2 DEF Waiting_ok
      <3>3. CASE w # NULL
        <4>1. w \in Sems /\ q \in Elements(k.sems[w].queue) /\ w \in k.procs[q].opened
          BY <3>3 DEF Waiters, Waiting_ok, Tables, PCB
        <4>2. q \in Openers(k, w) \ {p} /\ Openers(k, w) \ {p} \in SUBSET Pids
          BY <2>2, <4>1 DEF Openers
        <4>3. w \in Open(k) /\ references(k, p, w) # 0
          <5>1. w \in Open(k)
            BY <4>1, <4>2, DeathReferences
          <5>2. references(k, p, w) = Cardinality(Openers(k, w) \ {p})
            BY <4>1, <5>1, DeathReferences
          <5>3. Cardinality(Openers(k, w) \ {p}) # 0
            <6> DEFINE S == Openers(k, w) \ {p}
            <6>1. S \in SUBSET Pids /\ S # {}
              BY <4>2
            <6> HIDE DEF S
            <6>2. Cardinality(S) # 0
              BY <6>1, CountOne
            <6> QED
              BY <6>2 DEF S
          <5> QED
            BY <5>1, <5>2, <5>3
        <4>4. r.sems[w].queue = left_line(k, p, w)
          BY <1>1, <4>1, <4>3 DEF DeathStep, SlotIs
        <4>5. q \in Elements(left_line(k, p, w))
          <5> DEFINE s == k.sems[w]
          <5>0. s.queue \in Seq(Pids)
            BY <4>1 DEF Tables, Semaphore
          <5>1. CASE Queued(s, p)
            <6>1. left_line(k, p, w) = queue_remove_pid(s.queue, p)
              BY <5>1 DEF left_line
            <6> DEFINE line == s.queue
            <6>2. line \in Seq(Pids)
              BY <5>0
            <6> HIDE DEF s, line
            <6>3. Elements(queue_remove_pid(line, p)) = Elements(line) \ {p}
              BY <6>2, RemovedElements, Zenon
            <6> QED
              BY <2>2, <4>1, <6>1, <6>3 DEF s, line
          <5>2. CASE ~Queued(s, p) /\ Bequeaths(k, p, w)
            <6>1. left_line(k, p, w) = Tail(s.queue)
              BY <5>2 DEF left_line
            <6>2. Hands(s)
              <7>1. w \in Sems /\ Bequeaths(k, p, w)
                BY <4>1, <5>2, Zenon
              <7> QED
                BY <7>1, BequeathsOne, Zenon
            <6>3. Elements(Tail(s.queue)) = Elements(s.queue) \ {Head(s.queue)}
              BY <4>1, <6>2, FirstInLine, Zenon
            <6> QED
              BY <2>2, <4>1, <5>2, <6>1, <6>3, Zenon DEF Heir
          <5>3. CASE ~Queued(s, p) /\ ~Bequeaths(k, p, w)
            BY <4>1, <5>3 DEF left_line
          <5> QED
            BY <5>1, <5>2, <5>3
        <4> QED
          BY <3>1, <4>1, <4>4, <4>5 DEF Waiting_ok
      <3> QED
        BY <3>2, <3>3
    <2> QED
      BY <2>1, <2>2
  <1> QED
    BY <1>2 DEF Waiters, r

LEMMA StepWaiters ==
    ASSUME Kernel \in Tables, Lines(Kernel), Counted(Kernel), Waiters(Kernel), [Next]_vars,
           {"opened", "once", "no_resume"} \subseteq Discipline
    PROVE  Waiters(Kernel')
  <1>1. CASE Kernel' = Kernel
    BY <1>1
  <1>2. ASSUME NEW p \in Pids, NEW name \in Names, NEW v \in InitialValues,
               Opens(Kernel, Kernel', p, name, v)
        PROVE  Waiters(Kernel')
    BY <1>2, OpenWaiters DEF Opens, Obeyed
  <1>3. ASSUME NEW p \in Pids, NEW i \in Sems, Waits(Kernel, Kernel', p, i)
        PROVE  Waiters(Kernel')
    BY <1>3, WaitWaiters DEF Waits, Lent, Obeyed
  <1>4. ASSUME NEW p \in Pids, NEW i \in Sems, Posts(Kernel, Kernel', p, i)
        PROVE  Waiters(Kernel')
    BY <1>4, PostWaiters DEF Posts
  <1>5. ASSUME NEW p \in Pids, NEW i \in Sems, Closes(Kernel, Kernel', p, i)
        PROVE  Waiters(Kernel')
    BY <1>5, CloseWaiters DEF Closes, Lent, Obeyed
  <1>6. ASSUME NEW p \in Pids, Dies(Kernel, Kernel', p)
        PROVE  Waiters(Kernel')
    BY <1>6, DeathWaiters DEF Dies
  <1>7. ASSUME NEW p \in Pids, Pauses(Kernel, Kernel', p)
        PROVE  Waiters(Kernel')
    <2>1. Kernel'.sems = Kernel.sems
      BY <1>7 DEF Pauses
    <2>2. \A q \in Pids : /\ Kernel'.procs[q].opened = Kernel.procs[q].opened
                          /\ Kernel'.procs[q].waits = Kernel.procs[q].waits
      BY <1>7 DEF Pauses, Obeyed
    <2> QED
      BY <2>1, <2>2 DEF Waiters, Waiting_ok
  <1> QED
    BY <1>1, <1>2, <1>3, <1>4, <1>5, <1>6, <1>7, Steps

LEMMA InitWaiters == Init => Waiters(Kernel)
  BY DEF Init, Waiters, Waiting_ok, Kernel

\* The lines hold exactly those that sleep inside sem_wait, once each, and the
\* semaphore that a process waits for stays open, however the other users close
\* it or die, while programs use only what they have open, open nothing twice
\* and nobody wakes a waiter from outside.
THEOREM LinesHoldWaiters ==
    {"opened", "once", "no_resume"} \subseteq Discipline => (Spec => []QueuesHoldWaiters)
  <1> SUFFICES ASSUME {"opened", "once", "no_resume"} \subseteq Discipline
               PROVE  Spec => []QueuesHoldWaiters
    OBVIOUS
  <1> DEFINE Inv == Lines(Kernel) /\ Counted(Kernel) /\ Waiters(Kernel)
  <1>1. Init => Inv
    BY InitLines, InitCounted, InitWaiters
  <1>2. TypeOK /\ Inv /\ [Next]_vars => Inv'
    <2> SUFFICES ASSUME TypeOK, Inv, [Next]_vars  PROVE Inv'
      OBVIOUS
    <2>1. Kernel \in Tables
      BY TypeIsTables
    <2>2. Lines(Kernel') /\ Counted(Kernel') /\ Waiters(Kernel')
      BY <2>1, StepLines, StepCounted, StepWaiters
    <2> QED
      BY <2>2
  <1>3. TypeOK /\ Inv => QueuesHoldWaiters
    <2> SUFFICES ASSUME TypeOK, Inv  PROVE QueuesHoldWaiters
      OBVIOUS
    <2>1. Kernel \in Tables /\ Kernel.sems = sem_table /\ Kernel.procs = process
      BY TypeIsTables DEF Kernel
    <2>2. ASSUME NEW i \in Open(Kernel)
          PROVE  /\ Elements(sem_table[i].queue) = {p \in Pids : process[p].waits = i}
                 /\ Distinct(sem_table[i].queue)
      <3>1. i \in Sems /\ i # NULL
        BY SemsAreNat DEF Open
      <3>2. \A q \in Elements(sem_table[i].queue) : q \in Pids /\ process[q].waits = i
        BY <2>1, <3>1 DEF Lines, Asleep
      <3>3. \A q \in Pids : process[q].waits = i => q \in Elements(sem_table[i].queue)
        BY <2>1, <3>1 DEF Waiters, Waiting_ok
      <3>4. Distinct(sem_table[i].queue)
        BY <2>1, <3>1 DEF Lines, Balanced
      <3> QED
        BY <3>2, <3>3, <3>4
    <2>3. ASSUME NEW q \in Pids, process[q].waits # NULL
          PROVE  process[q].state = "BLOCKED" /\ process[q].waits \in Open(Kernel)
      <3> DEFINE w == process[q].waits
      <3>1. w \in Sems /\ q \in Elements(sem_table[w].queue) /\ w \in process[q].opened
        BY <2>1, <2>3 DEF Waiters, Waiting_ok, Tables, PCB
      <3>2. process[q].state = "BLOCKED"
        BY <2>1, <3>1 DEF Lines, Asleep
      <3>3. w \in Open(Kernel)
        BY <2>1, <3>1, DeathReferences DEF Openers
      <3> QED
        BY <3>2, <3>3
    <2> QED
      BY <2>2, <2>3 DEF QueuesHoldWaiters
  <1>4. Spec => []TypeOK
    BY SemaphoresTypeCorrect
  <1> QED
    BY <1>1, <1>2, <1>3, <1>4, PTL DEF Spec

-----------------------------------------------------------------------------
(***************************************************************************)
(* The units: what is available, what those in line are owed and what      *)
(* processes hold is what sem_open put in.                                 *)
(***************************************************************************)
Keepers(k, i) == {q \in Pids : i \in k.procs[q].held}

\* A process holds only what it has open, and not what it waits for.
Holding(k) ==
    \A q \in Pids : /\ k.procs[q].held \subseteq k.procs[q].opened
                    /\ k.procs[q].waits \notin k.procs[q].held

units(k, i) == k.sems[i].value + Len(k.sems[i].queue) + Cardinality(Keepers(k, i))

Units(k) == \A i \in Open(k) : units(k, i) = k.sems[i].initial

LEMMA UnitTypes ==
    ASSUME NEW k \in Tables, NEW i \in Sems
    PROVE  /\ k.sems[i].value \in Int /\ k.sems[i].queue \in Seq(Pids)
           /\ Len(k.sems[i].queue) \in Nat /\ k.sems[i].open_count \in Nat
           /\ Keepers(k, i) \in SUBSET Pids /\ Cardinality(Keepers(k, i)) \in Nat
  <1>1. k.sems[i].value \in Int /\ k.sems[i].queue \in Seq(Pids) /\ k.sems[i].open_count \in Nat
    BY DEF Tables, Semaphore
  <1>2. Keepers(k, i) \in SUBSET Pids
    BY DEF Keepers
  <1>3. IsFiniteSet(Keepers(k, i))
    BY <1>2, FS_Subset, SemaphoresAssumption
  <1> QED
    BY <1>1, <1>2, <1>3, FS_CardinalityType

\* A slot whose numbers and holders stay has its units.
LEMMA SameUnits ==
    ASSUME NEW k, NEW r, NEW j, Units(k), j \in Open(k),
           r.sems[j].value = k.sems[j].value, r.sems[j].queue = k.sems[j].queue,
           r.sems[j].initial = k.sems[j].initial, Keepers(r, j) = Keepers(k, j)
    PROVE  units(r, j) = r.sems[j].initial
  BY DEF Units, units

\* A unit moves between the value, the line and the holders.
LEMMA Moves ==
    ASSUME NEW v \in Int, NEW l \in Nat, NEW c \in Nat
    PROVE  /\ (v - 1) + (l + 1) + c = v + l + c
           /\ (v - 1) + l + (c + 1) = v + l + c
           /\ (v + 1) + (l - 1) + c = v + l + c
           /\ (v + 1) + l + (c - 1) = v + l + c
           /\ (v + 1) + (l - 1) + ((c - 1) + 1) = v + l + c
  OBVIOUS

LEMMA OpenUnits ==
    ASSUME NEW k \in Tables, Counted(k), Holding(k), Units(k), NEW p \in Pids,
           NEW name \in Names, NEW v \in InitialValues,
           find_sem(k, name) # NULL \/ FreeSlots(k) # {},
           find_sem(k, name) \notin k.procs[p].opened
    PROVE  Holding(sem_open(k, p, name, v)) /\ Units(sem_open(k, p, name, v))
  <1> DEFINE r == sem_open(k, p, name, v)
             i == opened_slot(k, name)
  <1>1. OpenStep(k, r, p, name, v)
    BY OpenIs
  <1>2. find_sem(k, name) = NULL => Openers(k, i) = {}
    BY OpenCounted
  <1>3. /\ i \in Sems
        /\ find_sem(k, name) # NULL => i \in Open(k)
    BY OpenedSlot
  <1> HIDE DEF r
  <1>4. \A q \in Pids : /\ r.procs[q].held = k.procs[q].held
                        /\ r.procs[q].waits = k.procs[q].waits
                        /\ k.procs[q].opened \subseteq r.procs[q].opened
    BY <1>1 DEF OpenStep, Only, PCBIs
  <1>5. Holding(r)
    BY <1>4 DEF Holding
  <1>6. ASSUME NEW j \in Open(r)
        PROVE  units(r, j) = r.sems[j].initial
    <2>1. Keepers(r, j) = Keepers(k, j)
      BY <1>4 DEF Keepers
    <2>2. CASE j # i
      <3>1. r.sems[j] = k.sems[j] /\ j \in Open(k)
        BY <1>1, <1>6, <2>2 DEF OpenStep, Only, Open
      <3> QED
        BY <2>1, <3>1, SameUnits
    <2>3. CASE j = i /\ find_sem(k, name) # NULL
      <3>1. /\ r.sems[j].value = k.sems[j].value /\ r.sems[j].queue = k.sems[j].queue
            /\ r.sems[j].initial = k.sems[j].initial
        BY <1>1, <2>3 DEF OpenStep, SlotIs
      <3> QED
        BY <1>3, <2>1, <2>3, <3>1, SameUnits
    <2>4. CASE j = i /\ find_sem(k, name) = NULL
      <3>1. r.sems[j].value = v /\ r.sems[j].initial = v /\ r.sems[j].queue = <<>>
        BY <1>1, <2>4 DEF OpenStep, SlotIs
      <3>2. Keepers(k, j) = {}
        BY <1>2, <2>4 DEF Holding, Keepers, Openers
      <3>3. Cardinality(Keepers(r, j)) = 0 /\ Len(<<>>) = 0
        BY <2>1, <3>2, FS_EmptySet
      <3>4. v \in Nat
        BY SemaphoresAssumption
      <3> QED
        BY <3>1, <3>3, <3>4 DEF units
    <2> QED
      BY <2>2, <2>3, <2>4
  <1> QED
    BY <1>5, <1>6 DEF Units, r

LEMMA WaitUnits ==
    ASSUME NEW k \in Tables, Lines(k), Waiters(k), Holding(k), Units(k), NEW p \in Pids,
           NEW i \in Open(k), k.procs[p].state # "BLOCKED",
           i \in k.procs[p].opened, i \notin k.procs[p].held
    PROVE  Holding(sem_wait(k, p, i)) /\ Units(sem_wait(k, p, i))
  <1> DEFINE r == sem_wait(k, p, i)
             s == k.sems[i]
  <1>0. i \in Sems
    BY DEF Open
  <1>1. WaitStep(k, r, p, i)
    BY <1>0, WaitIs
  <1>2. s.value - 1 < 0 => r.sems[i].queue = Append(s.queue, p)
    BY <1>0, WaitLines
  <1>3. /\ s.value \in Int /\ s.queue \in Seq(Pids) /\ Len(s.queue) \in Nat
        /\ Keepers(k, i) \in SUBSET Pids /\ Cardinality(Keepers(k, i)) \in Nat
    BY <1>0, UnitTypes
  <1>4. k.procs[p].waits = NULL /\ NULL # i
    BY <1>0, RunnerDoesNotWait, SemsAreNat
  <1> HIDE DEF r
  <1>5. Holding(r)
    <2> SUFFICES ASSUME NEW q \in Pids
                 PROVE  /\ r.procs[q].held \subseteq r.procs[q].opened
                        /\ r.procs[q].waits \notin r.procs[q].held
      BY DEF Holding
    <2>1. CASE q # p
      BY <1>1, <2>1 DEF WaitStep, Only, Holding
    <2>2. CASE q = p
      BY <1>1, <1>4, <2>2 DEF WaitStep, PCBIs, Holding
    <2> QED
      BY <2>1, <2>2
  <1>6. r.sems[i].value = s.value - 1 /\ r.sems[i].initial = s.initial
    BY <1>1 DEF WaitStep, SlotIs
  <1>7. units(k, i) = s.initial
    BY DEF Units
  <1>8. units(r, i) = r.sems[i].initial
    <2>1. CASE s.value - 1 < 0
      <3> DEFINE q == s.queue
      <3>0. q \in Seq(Pids) /\ r.sems[i].queue = Append(q, p)
        BY <1>2, <1>3, <2>1
      <3> HIDE DEF q
      <3>1. Len(r.sems[i].queue) = Len(s.queue) + 1
        <4>1. Len(Append(q, p)) = Len(q) + 1
          BY <3>0
        <4> QED
          BY <3>0, <4>1 DEF q
      <3>2. Keepers(r, i) = Keepers(k, i)
        BY <1>1, <2>1 DEF WaitStep, Only, PCBIs, Keepers
      <3>3. units(r, i) = (s.value - 1) + (Len(s.queue) + 1) + Cardinality(Keepers(k, i))
        BY <1>6, <3>1, <3>2 DEF units
      <3>4. units(k, i) = s.value + Len(s.queue) + Cardinality(Keepers(k, i))
        BY DEF units
      <3> HIDE DEF s
      <3> QED
        BY <1>3, <1>6, <1>7, <3>3, <3>4, Moves
    <2>2. CASE ~(s.value - 1 < 0)
      <3>1. r.sems[i].queue = s.queue
        BY <1>1, <2>2 DEF WaitStep, SlotIs
      <3>2. Keepers(r, i) = Keepers(k, i) \cup {p} /\ p \notin Keepers(k, i)
        BY <1>1, <2>2 DEF WaitStep, Only, PCBIs, Keepers
      <3>3. Cardinality(Keepers(r, i)) = Cardinality(Keepers(k, i)) + 1
        BY <1>3, <3>2, CountOne
      <3>4. units(r, i) = (s.value - 1) + Len(s.queue) + (Cardinality(Keepers(k, i)) + 1)
        BY <1>6, <3>1, <3>3 DEF units
      <3>5. units(k, i) = s.value + Len(s.queue) + Cardinality(Keepers(k, i))
        BY DEF units
      <3> HIDE DEF s
      <3> QED
        BY <1>3, <1>6, <1>7, <3>4, <3>5, Moves
    <2> QED
      BY <2>1, <2>2
  <1>9. ASSUME NEW j \in Open(r), j # i
        PROVE  units(r, j) = r.sems[j].initial
    <2>1. r.sems[j] = k.sems[j] /\ j \in Open(k)
      BY <1>1, <1>9 DEF WaitStep, Only, Open
    <2>2. Keepers(r, j) = Keepers(k, j)
      BY <1>1, <1>9 DEF WaitStep, Only, PCBIs, Keepers
    <2> QED
      BY <2>1, <2>2, SameUnits
  <1> QED
    BY <1>5, <1>8, <1>9 DEF Units, r

LEMMA PostUnits ==
    ASSUME NEW k \in Tables, Lines(k), Waiters(k), Holding(k), Units(k), NEW p \in Pids,
           NEW i \in Open(k), i \in k.procs[p].held
    PROVE  Holding(sem_post(k, p, i)) /\ Units(sem_post(k, p, i))
  <1> DEFINE r == sem_post(k, p, i)
  <1>0. i \in Sems
    BY DEF Open
  <1>1. PICK d : DropStep(k, d, p, i) /\ r = give(d, i)
    BY <1>0, PostIs
  <1>2. d \in Tables /\ GiveStep(d, r, i) /\ Lines(d)
    BY <1>0, <1>1, GiveIs, DropLines DEF DropStep
  <1> HIDE DEF r
  <1> DEFINE s == d.sems[i]
             h == Head(s.queue)
  <1>3. /\ s.value \in Int /\ s.queue \in Seq(Pids) /\ Len(s.queue) \in Nat
        /\ Keepers(d, i) \in SUBSET Pids /\ Cardinality(Keepers(d, i)) \in Nat
        /\ Keepers(k, i) \in SUBSET Pids /\ Cardinality(Keepers(k, i)) \in Nat
    BY <1>0, <1>2, UnitTypes
  <1>4. d.sems = k.sems /\ Waiters(d) /\ Holding(d)
    BY <1>1 DEF DropStep, PCBIs, Waiters, Waiting_ok, Holding
  <1>5. Keepers(d, i) = Keepers(k, i) \ {p} /\ p \in Keepers(k, i)
    BY <1>1 DEF DropStep, PCBIs, Keepers
  <1>6. Cardinality(Keepers(d, i)) = Cardinality(Keepers(k, i)) - 1
    BY <1>3, <1>5, CountOne
  <1>7. units(k, i) = s.initial
    BY <1>4 DEF Units
  <1>8. Hands(s) => /\ h \in Pids /\ d.procs[h].state = "BLOCKED" /\ d.procs[h].waits = i
                    /\ Len(Tail(s.queue)) = Len(s.queue) - 1
    <2>1. d \in Tables /\ Lines(d) /\ h = Head(d.sems[i].queue)
      BY <1>2, Zenon
    <2> HIDE DEF h
    <2> QED
      BY <1>0, <2>1, FirstSleeps
  <1>9. ASSUME Hands(s)
        PROVE  /\ r.procs[h].held = d.procs[h].held \cup {i} /\ r.procs[h].waits = NULL
               /\ r.procs[h].opened = d.procs[h].opened /\ i \in d.procs[h].opened
               /\ i \notin d.procs[h].held
    <2>1. d.procs[h] \in PCB
      BY <1>2, <1>8, <1>9 DEF Tables
    <2>2. r.procs[h] = handed(d.procs[h], i)
      BY <1>2, <1>8, <1>9 DEF GiveStep
    <2>3. i \in d.procs[h].opened /\ i \notin d.procs[h].held
      BY <1>0, <1>4, <1>8, <1>9, SemsAreNat DEF Waiters, Waiting_ok, Holding
    <2> DEFINE c == d.procs[h]
    <2>4. c \in PCB /\ c.state = "BLOCKED" /\ r.procs[h] = handed(c, i)
      BY <1>8, <1>9, <2>1, <2>2
    <2> HIDE DEF c
    <2>5. r.procs[h].held = c.held \cup {i} /\ r.procs[h].waits = NULL /\ r.procs[h].opened = c.opened
      BY <1>0, <2>4, HandedType
    <2> QED
      BY <2>3, <2>5, Zenon DEF c
  <1>10. \A q \in Pids : ~(Hands(s) /\ q = h) => r.procs[q] = d.procs[q]
    BY <1>2, Zenon DEF GiveStep
  <1>11. Holding(r)
    <2> SUFFICES ASSUME NEW q \in Pids
                 PROVE  /\ r.procs[q].held \subseteq r.procs[q].opened
                        /\ r.procs[q].waits \notin r.procs[q].held
      BY DEF Holding
    <2>1. CASE ~(Hands(s) /\ q = h)
      BY <1>4, <1>10, <2>1 DEF Holding
    <2>2. CASE Hands(s) /\ q = h
      <3>1. d.procs[q].held \subseteq Sems
        BY <1>2 DEF Tables, PCB
      <3> HIDE DEF h
      <3>2. r.procs[q].held \subseteq r.procs[q].opened
        BY <1>4, <1>9, <2>2 DEF Holding
      <3>3. r.procs[q].waits \notin r.procs[q].held
        BY <1>0, <1>9, <2>2, <3>1, SemsAreNat
      <3> QED
        BY <3>2, <3>3
    <2> QED
      BY <2>1, <2>2
  <1>12. r.sems[i].value = s.value + 1 /\ r.sems[i].initial = s.initial
    BY <1>2 DEF GiveStep, SlotIs
  <1>13. units(r, i) = r.sems[i].initial
    <2>1. CASE Hands(s)
      <3>1. Len(r.sems[i].queue) = Len(s.queue) - 1
        BY <1>2, <1>8, <2>1 DEF GiveStep, SlotIs
      <3>2. Keepers(r, i) = Keepers(d, i) \cup {h} /\ h \notin Keepers(d, i)
        <4> HIDE DEF h, s
        <4> QED
          BY <1>8, <1>9, <1>10, <2>1 DEF Keepers
      <3> HIDE DEF h
      <3>3. h \in Pids
        BY <1>8, <2>1
      <3>4. Cardinality(Keepers(r, i)) = Cardinality(Keepers(d, i)) + 1
        BY <1>3, <3>2, <3>3, CountOne
      <3>5. units(r, i) = (s.value + 1) + (Len(s.queue) - 1)
                             + ((Cardinality(Keepers(k, i)) - 1) + 1)
        BY <1>6, <1>12, <3>1, <3>4 DEF units
      <3>6. units(k, i) = s.value + Len(s.queue) + Cardinality(Keepers(k, i))
        BY <1>4 DEF units
      <3> HIDE DEF s
      <3> QED
        BY <1>3, <1>7, <1>12, <3>5, <3>6, Moves
    <2>2. CASE ~Hands(s)
      <3>1. r.sems[i].queue = s.queue
        BY <1>2, <2>2 DEF GiveStep, SlotIs
      <3>2. Keepers(r, i) = Keepers(d, i)
        BY <1>10, <2>2 DEF Keepers
      <3> DEFINE v == s.value
                 n == Len(s.queue)
                 u == Cardinality(Keepers(k, i))
      <3>3. units(r, i) = (v + 1) + n + (u - 1)
        BY <1>6, <1>12, <3>1, <3>2 DEF units
      <3>4. units(k, i) = v + n + u
        BY <1>4 DEF units
      <3>5. v \in Int /\ n \in Nat /\ u \in Nat
        BY <1>3
      <3> HIDE DEF v, n, u
      <3>6. units(r, i) = units(k, i)
        BY <3>3, <3>4, <3>5
      <3> QED
        BY <1>7, <1>12, <3>6
    <2> QED
      BY <2>1, <2>2
  <1>14. ASSUME NEW j \in Open(r), j # i
         PROVE  units(r, j) = r.sems[j].initial
    <2>1. r.sems[j] = k.sems[j] /\ j \in Open(k)
      BY <1>2, <1>4, <1>14 DEF GiveStep, Open
    <2>2. Keepers(d, j) = Keepers(k, j)
      BY <1>1, <1>14 DEF DropStep, PCBIs, Keepers
    <2>3. \A q \in Pids : j \in r.procs[q].held <=> j \in d.procs[q].held
      <3> TAKE q \in Pids
      <3> HIDE DEF s, h
      <3>1. CASE ~(Hands(s) /\ q = h)
        BY <1>10, <3>1
      <3>2. CASE Hands(s) /\ q = h
        BY <1>9, <1>14, <3>2
      <3> QED
        BY <3>1, <3>2
    <2>4. Keepers(r, j) = Keepers(k, j)
      BY <2>2, <2>3 DEF Keepers
    <2> QED
      BY <2>1, <2>4, SameUnits
  <1> QED
    BY <1>11, <1>13, <1>14 DEF Units, r

LEMMA CloseUnits ==
    ASSUME NEW k \in Tables, Lines(k), Waiters(k), Holding(k), Units(k), NEW p \in Pids,
           NEW i \in Open(k), i \notin k.procs[p].held, k.procs[p].state # "BLOCKED"
    PROVE  Holding(sem_close(k, p, i)) /\ Units(sem_close(k, p, i))
  <1> DEFINE r == sem_close(k, p, i)
  <1>1. CloseStep(k, r, p, i)
    BY CloseIs
  <1> HIDE DEF r
  <1>2. \A q \in Pids : /\ r.procs[q].held = k.procs[q].held
                        /\ r.procs[q].waits = k.procs[q].waits
    BY <1>1 DEF CloseStep, Only, PCBIs
  <1>3. \A q \in Pids : r.procs[q].held \subseteq r.procs[q].opened
    BY <1>1, <1>2 DEF CloseStep, Only, PCBIs, Holding
  <1>4. Holding(r)
    BY <1>2, <1>3 DEF Holding
  <1>5. ASSUME NEW j \in Open(r)
        PROVE  units(r, j) = r.sems[j].initial
    <2>1. Keepers(r, j) = Keepers(k, j)
      BY <1>2 DEF Keepers
    <2>2. CASE j # i
      <3>1. r.sems[j] = k.sems[j] /\ j \in Open(k)
        BY <1>1, <1>5, <2>2 DEF CloseStep, Only, Open
      <3> QED
        BY <2>1, <3>1, SameUnits
    <2>3. CASE j = i
      <3>1. r.sems[j] # FreeSem
        BY <1>5, FreeSemType DEF Open
      <3>2. /\ r.sems[j].value = k.sems[j].value /\ r.sems[j].queue = k.sems[j].queue
            /\ r.sems[j].initial = k.sems[j].initial
        BY <1>1, <2>3, <3>1 DEF CloseStep, SlotIs
      <3> QED
        BY <2>1, <2>3, <3>2, SameUnits
    <2> QED
      BY <2>2, <2>3
  <1> QED
    BY <1>4, <1>5 DEF Units, r

\* Who holds units of semaphore i once p is dead: p no longer, and the heir.
LEMMA DeathKeepers ==
    ASSUME NEW k \in Tables, Lines(k), Waiters(k), Holding(k), NEW p \in Pids,
           NEW r, DeathStep(k, r, p), NEW i \in Sems
    PROVE  LET h == Head(k.sems[i].queue)
           IN  /\ ~Bequeaths(k, p, i) => Keepers(r, i) = Keepers(k, i) \ {p}
               /\ Bequeaths(k, p, i) => /\ Keepers(r, i) = (Keepers(k, i) \ {p}) \cup {h}
                                        /\ h \in Pids /\ h # p /\ h \notin Keepers(k, i)
  <1> DEFINE h == Head(k.sems[i].queue)
  <1>1. i # NULL
    BY SemsAreNat
  <1>2. i \notin r.procs[p].held
    BY DEF DeathStep, PCBIs
  <1>3. ASSUME NEW q \in Pids \ {p}
        PROVE  i \in r.procs[q].held <=> \/ i \in k.procs[q].held
                                         \/ Heir(k, p, q) /\ k.procs[q].waits = i
    BY DEF DeathStep, PCBIs
  <1>4. \A q \in Pids : Heir(k, p, q) /\ k.procs[q].waits = i => Bequeaths(k, p, i) /\ q = h
    BY DEF Heir
  <1>5. CASE ~Bequeaths(k, p, i)
    BY <1>2, <1>3, <1>4, <1>5 DEF Keepers
  <1>6. CASE Bequeaths(k, p, i)
    <2>1. Hands(k.sems[i]) /\ Holds(k, p, i)
      BY <1>6, BequeathsIs
    <2>2. h \in Pids /\ h \in Elements(k.sems[i].queue) /\ k.procs[h].waits = i
      BY <2>1, FirstInLine
    <2>3. h # p
      BY <2>1, <2>2 DEF Holds, Queued
    <2>4. i \notin k.procs[h].held
      BY <2>2 DEF Holding
    <2>5. Heir(k, p, h)
      BY <1>6, <2>2 DEF Heir
    <2> HIDE DEF h
    <2>6. Keepers(r, i) = (Keepers(k, i) \ {p}) \cup {h}
      BY <1>2, <1>3, <1>4, <2>2, <2>3, <2>5 DEF Keepers
    <2>7. h \notin Keepers(k, i)
      BY <2>4 DEF Keepers
    <2> QED
      BY <1>6, <2>2, <2>3, <2>6, <2>7 DEF h
  <1> QED
    BY <1>5, <1>6

\* What p leaves to an open semaphore, freed or not, adds up.
LEMMA DeathSum ==
    ASSUME NEW k \in Tables, Lines(k), Waiters(k), Holding(k), Units(k), NEW p \in Pids,
           NEW r, DeathStep(k, r, p), NEW i \in Open(k)
    PROVE  left_value(k, p, i) + Len(left_line(k, p, i)) + Cardinality(Keepers(r, i))
             = k.sems[i].initial
  <1> DEFINE s == k.sems[i]
             h == Head(s.queue)
             sum == left_value(k, p, i) + Len(left_line(k, p, i)) + Cardinality(Keepers(r, i))
  <1>1. i \in Sems
    BY DEF Open
  <1>2. /\ s.value \in Int /\ s.queue \in Seq(Pids) /\ Len(s.queue) \in Nat
        /\ Keepers(k, i) \in SUBSET Pids /\ Cardinality(Keepers(k, i)) \in Nat
    BY <1>1, UnitTypes
  <1>3. s.initial = s.value + Len(s.queue) + Cardinality(Keepers(k, i))
    BY DEF Units, units
  <1>4. p \in Keepers(k, i) <=> i \in k.procs[p].held
    BY DEF Keepers
  <1>5. CASE Queued(s, p)
    <2>1. k.procs[p].waits = i
      BY <1>1, <1>5 DEF Queued, Lines, Asleep
    <2>2. p \notin Keepers(k, i) /\ ~Bequeaths(k, p, i)
      BY <1>4, <1>5, <2>1 DEF Holding, Bequeaths, Holds
    <2>3. Keepers(r, i) = Keepers(k, i)
      BY <1>1, <2>2, DeathKeepers
    <2>4. /\ left_value(k, p, i) = s.value + 1
          /\ left_line(k, p, i) = queue_remove_pid(s.queue, p)
      BY <1>5 DEF left_value, left_line
    <2>5. Distinct(s.queue) /\ p \in Elements(s.queue)
      BY <1>1, <1>5 DEF Lines, Balanced, Queued
    <2> HIDE DEF s
    <2>6. Len(queue_remove_pid(s.queue, p)) = Len(s.queue) - 1
      BY <1>2, <2>5, RemovedQueue
    <2>7. sum = (s.value + 1) + (Len(s.queue) - 1) + Cardinality(Keepers(k, i))
      BY <2>3, <2>4, <2>6
    <2> HIDE DEF sum
    <2>8. sum = s.initial
      BY <1>2, <1>3, <2>7, Moves
    <2> QED
      BY <2>8 DEF sum, s
  <1>6. CASE ~Queued(s, p) /\ i \notin k.procs[p].held
    <2>1. p \notin Keepers(k, i) /\ ~Bequeaths(k, p, i)
      BY <1>4, <1>6 DEF Bequeaths, Holds
    <2>2. Keepers(r, i) = Keepers(k, i)
      BY <1>1, <2>1, DeathKeepers
    <2>3. left_value(k, p, i) = s.value /\ left_line(k, p, i) = s.queue
      BY <1>6, <2>1 DEF left_value, left_line
    <2> QED
      BY <1>3, <2>2, <2>3
  <1>7. CASE ~Queued(s, p) /\ i \in k.procs[p].held
    <2>1. left_value(k, p, i) = s.value + 1
      BY <1>7 DEF left_value
    <2>2. /\ Cardinality(Keepers(k, i) \ {p}) = Cardinality(Keepers(k, i)) - 1
          /\ Keepers(k, i) \ {p} \in SUBSET Pids
      BY <1>2, <1>4, <1>7, CountOne
    <2>3. CASE Bequeaths(k, p, i)
      <3>1. /\ Keepers(r, i) = (Keepers(k, i) \ {p}) \cup {h}
            /\ h \in Pids /\ h \notin Keepers(k, i) \ {p}
        BY <1>1, <2>3, DeathKeepers
      <3>2. left_line(k, p, i) = Tail(s.queue)
        BY <1>7, <2>3 DEF left_line
      <3>3. Len(Tail(s.queue)) = Len(s.queue) - 1
        BY <1>1, <2>3, BequeathsIs, FirstInLine
      <3> HIDE DEF h, s
      <3>4. Cardinality(Keepers(r, i)) = (Cardinality(Keepers(k, i)) - 1) + 1
        BY <2>2, <3>1, CountOne
      <3>5. sum = (s.value + 1) + (Len(s.queue) - 1) + ((Cardinality(Keepers(k, i)) - 1) + 1)
        BY <2>1, <3>2, <3>3, <3>4
      <3> HIDE DEF sum
      <3>6. sum = s.initial
        BY <1>2, <1>3, <3>5, Moves
      <3> QED
        BY <3>6 DEF sum, s
    <2>4. CASE ~Bequeaths(k, p, i)
      <3>1. Keepers(r, i) = Keepers(k, i) \ {p}
        BY <1>1, <2>4, DeathKeepers
      <3>2. left_line(k, p, i) = s.queue
        BY <1>7, <2>4 DEF left_line
      <3> HIDE DEF h, s
      <3>3. sum = (s.value + 1) + Len(s.queue) + (Cardinality(Keepers(k, i)) - 1)
        BY <2>1, <2>2, <3>1, <3>2
      <3> HIDE DEF sum
      <3>4. sum = s.initial
        BY <1>2, <1>3, <3>3, Moves
      <3> QED
        BY <3>4 DEF sum, s
    <2> QED
      BY <2>3, <2>4
  <1> QED
    BY <1>5, <1>6, <1>7

LEMMA DeathUnits ==
    ASSUME NEW k \in Tables, Lines(k), Waiters(k), Holding(k), Units(k), NEW p \in Pids
    PROVE  LET r == sem_cleanup_for_process(k, p)
           IN  Holding(r) /\ Units(r)
  <1> DEFINE r == sem_cleanup_for_process(k, p)
  <1>1. DeathStep(k, r, p)
    BY DeathIs
  <1> HIDE DEF r
  <1>2. Holding(r)
    <2> SUFFICES ASSUME NEW q \in Pids
                 PROVE  /\ r.procs[q].held \subseteq r.procs[q].opened
                        /\ r.procs[q].waits \notin r.procs[q].held
      BY DEF Holding
    <2>1. CASE q = p
      BY <1>1, <2>1 DEF DeathStep, PCBIs
    <2>2. CASE q # p /\ ~Heir(k, p, q)
      BY <1>1, <2>2 DEF DeathStep, Holding
    <2>3. CASE q # p /\ Heir(k, p, q)
      <3>1. PCBIs(r.procs[q], "READY", k.procs[q].held \cup {k.procs[q].waits},
                  k.procs[q].opened, NULL)
        BY <1>1, <2>3 DEF DeathStep
      <3>2. k.procs[q].waits \in Sems /\ k.procs[q].waits \in k.procs[q].opened
        BY <2>3, SemsAreNat DEF Heir, Waiters, Waiting_ok
      <3>3. k.procs[q].held \subseteq Sems /\ k.procs[q].held \subseteq k.procs[q].opened
        BY DEF Tables, PCB, Holding
      <3> QED
        BY <3>1, <3>2, <3>3, SemsAreNat DEF PCBIs
    <2> QED
      BY <2>1, <2>2, <2>3
  <1>3. ASSUME NEW i \in Open(r)
        PROVE  units(r, i) = r.sems[i].initial
    <2>1. i \in Sems /\ r.sems[i] # FreeSem
      BY FreeSemType DEF Open
    <2>2. i \in Open(k) /\ references(k, p, i) # 0
      BY <1>1, <2>1 DEF DeathStep
    <2>3. /\ r.sems[i].value = left_value(k, p, i) /\ r.sems[i].initial = k.sems[i].initial
          /\ r.sems[i].queue = left_line(k, p, i)
      BY <1>1, <2>1, <2>2 DEF DeathStep, SlotIs
    <2> QED
      BY <1>1, <2>2, <2>3, DeathSum DEF units
  <1> QED
    BY <1>2, <1>3 DEF Units, r

\* The four rules together.
Disciplined == {"opened", "once", "paired", "no_resume"} \subseteq Discipline

\* What the four rules keep.
Books(k) == Lines(k) /\ Counted(k) /\ Waiters(k) /\ Holding(k) /\ Units(k)

LEMMA StepUnits ==
    ASSUME Kernel \in Tables, Books(Kernel), [Next]_vars, Disciplined
    PROVE  Holding(Kernel') /\ Units(Kernel')
  <1> USE DEF Books, Disciplined
  <1>1. CASE Kernel' = Kernel
    BY <1>1
  <1>2. ASSUME NEW p \in Pids, NEW name \in Names, NEW v \in InitialValues,
               Opens(Kernel, Kernel', p, name, v)
        PROVE  Holding(Kernel') /\ Units(Kernel')
    BY <1>2, OpenUnits DEF Opens, Obeyed
  <1>3. ASSUME NEW p \in Pids, NEW i \in Sems, Waits(Kernel, Kernel', p, i)
        PROVE  Holding(Kernel') /\ Units(Kernel')
    BY <1>3, WaitUnits DEF Waits, Lent, Obeyed
  <1>4. ASSUME NEW p \in Pids, NEW i \in Sems, Posts(Kernel, Kernel', p, i)
        PROVE  Holding(Kernel') /\ Units(Kernel')
    BY <1>4, PostUnits DEF Posts, Lent, Obeyed
  <1>5. ASSUME NEW p \in Pids, NEW i \in Sems, Closes(Kernel, Kernel', p, i)
        PROVE  Holding(Kernel') /\ Units(Kernel')
    BY <1>5, CloseUnits DEF Closes, Lent, Obeyed
  <1>6. ASSUME NEW p \in Pids, Dies(Kernel, Kernel', p)
        PROVE  Holding(Kernel') /\ Units(Kernel')
    BY <1>6, DeathUnits DEF Dies
  <1>7. ASSUME NEW p \in Pids, Pauses(Kernel, Kernel', p)
        PROVE  Holding(Kernel') /\ Units(Kernel')
    <2>1. Kernel'.sems = Kernel.sems
      BY <1>7 DEF Pauses
    <2>2. \A q \in Pids : /\ Kernel'.procs[q].opened = Kernel.procs[q].opened
                          /\ Kernel'.procs[q].held = Kernel.procs[q].held
                          /\ Kernel'.procs[q].waits = Kernel.procs[q].waits
      BY <1>7 DEF Pauses, Obeyed
    <2>3. Holding(Kernel')
      BY <2>2 DEF Holding
    <2>4. Open(Kernel') = Open(Kernel)
      BY <2>1 DEF Open
    <2>5. \A i \in Open(Kernel) : Keepers(Kernel', i) = Keepers(Kernel, i)
      BY <2>2 DEF Keepers
    <2> QED
      BY <2>1, <2>3, <2>4, <2>5 DEF Units, units
  <1> QED
    BY <1>1, <1>2, <1>3, <1>4, <1>5, <1>6, <1>7, Steps

LEMMA StepBooks ==
    ASSUME Kernel \in Tables, Books(Kernel), [Next]_vars, Disciplined
    PROVE  Books(Kernel')
  <1>1. Lines(Kernel') /\ Counted(Kernel') /\ Waiters(Kernel')
    BY StepLines, StepCounted, StepWaiters DEF Books, Disciplined
  <1> QED
    BY <1>1, StepUnits DEF Books

LEMMA InitBooks == Init => Books(Kernel)
  <1> SUFFICES ASSUME Init  PROVE Books(Kernel)
    OBVIOUS
  <1>1. Holding(Kernel)
    BY DEF Init, Holding, Kernel
  <1>2. Open(Kernel) = {}
    BY FreeSemType DEF Init, Open, Kernel
  <1> QED
    BY <1>1, <1>2, InitLines, InitCounted, InitWaiters DEF Books, Units

\* No unit of a semaphore is lost or made up through waits, hand-overs and
\* deaths in any order, while programs pair their posts with their waits, use
\* only what they have open and nobody wakes a waiter from outside.
THEOREM NoUnitLost == Disciplined => (Spec => []UnitsConserved)
  <1> SUFFICES ASSUME Disciplined  PROVE Spec => []UnitsConserved
    OBVIOUS
  <1> DEFINE Inv == Books(Kernel)
  <1>1. Init => Inv
    BY InitBooks
  <1>2. TypeOK /\ Inv /\ [Next]_vars => Inv'
    BY StepBooks, TypeIsTables
  <1>3. Inv => UnitsConserved
    BY DEF Books, Units, units, Keepers, Kernel, UnitsConserved
  <1>4. Spec => []TypeOK
    BY SemaphoresTypeCorrect
  <1> QED
    BY <1>1, <1>2, <1>3, <1>4, PTL DEF Spec

-----------------------------------------------------------------------------
(***************************************************************************)
(* What the users of one name see implements CountingSemaphore.            *)
(***************************************************************************)
Named(k, i) == i \in Open(k) /\ k.sems[i].name = Name

\* At most one open slot has the name, and every slot was opened with Stock.
OneSlot(k) ==
    /\ \A i, j \in Open(k) : Named(k, i) /\ Named(k, j) => i = j
    /\ \A i \in Open(k) : k.sems[i].initial = Stock

-----------------------------------------------------------------------------
(***************************************************************************)
(* The moves of the abstract semaphore, between two pairs of tables.       *)
(***************************************************************************)
Same(k, r) ==
    Available(r) = Available(k) /\ Holders(r) = Holders(k) /\ Line(r) = Line(k)

Released(k, r, p) ==
    /\ p \in Holders(k)
    /\ \/ /\ Line(k) = <<>>
          /\ Available(r) = Available(k) + 1
          /\ Holders(r) = Holders(k) \ {p}
          /\ Line(r) = Line(k)
       \/ /\ Line(k) # <<>>
          /\ Available(r) = Available(k)
          /\ Holders(r) = (Holders(k) \ {p}) \cup {Head(Line(k))}
          /\ Line(r) = Tail(Line(k))

Acquired(k, r, p) ==
    /\ p \notin Holders(k) /\ p \notin Elements(Line(k))
    /\ Available(k) > 0 /\ Available(r) = Available(k) - 1
    /\ Holders(r) = Holders(k) \cup {p}
    /\ Line(r) = Line(k)

Entered(k, r, p) ==
    /\ p \notin Holders(k) /\ p \notin Elements(Line(k))
    /\ Available(k) = 0 /\ Available(r) = Available(k)
    /\ Holders(r) = Holders(k)
    /\ Line(r) = Append(Line(k), p)

Left(k, r, p) ==
    /\ \E j \in 1..Len(Line(k)) :
          /\ Line(k)[j] = p
          /\ Line(r) = [n \in 1..(Len(Line(k)) - 1) |-> Line(k)[IF n < j THEN n ELSE n + 1]]
    /\ Available(r) = Available(k) /\ Holders(r) = Holders(k)

Moved(k, r) ==
    \/ Same(k, r)
    \/ \E p \in Pids : Released(k, r, p) \/ Acquired(k, r, p) \/ Entered(k, r, p) \/ Left(k, r, p)

LEMMA MovedIs ==
    ASSUME Moved(Kernel, Kernel')
    PROVE  [A!CNext]_<<Available(Kernel), Holders(Kernel), Line(Kernel)>>
  <1>1. CASE Same(Kernel, Kernel')
    BY <1>1 DEF Same
  <1>2. ASSUME NEW p \in Pids, Released(Kernel, Kernel', p)
        PROVE  A!CNext
    <2>1. A!Release(p)
      BY <1>2 DEF Released, A!Release
    <2> QED
      BY <2>1 DEF A!CNext
  <1>3. ASSUME NEW p \in Pids, Acquired(Kernel, Kernel', p)
        PROVE  A!CNext
    <2>1. A!Acquire(p)
      BY <1>3 DEF Acquired, A!Acquire, A!InLine, Elements
    <2> QED
      BY <2>1 DEF A!CNext
  <1>4. ASSUME NEW p \in Pids, Entered(Kernel, Kernel', p)
        PROVE  A!CNext
    <2>1. A!Enter(p)
      BY <1>4 DEF Entered, A!Enter, A!InLine, Elements
    <2> QED
      BY <2>1 DEF A!CNext
  <1>5. ASSUME NEW p \in Pids, Left(Kernel, Kernel', p)
        PROVE  A!CNext
    <2>1. A!Leave(p)
      BY <1>5 DEF Left, A!Leave
    <2> QED
      BY <2>1 DEF A!CNext
  <1> QED
    BY <1>1, <1>2, <1>3, <1>4, <1>5 DEF Moved

-----------------------------------------------------------------------------
(***************************************************************************)
(* What is seen of the tables.                                             *)
(***************************************************************************)
LEMMA SlotIsNamed ==
    ASSUME NEW k \in Tables, OneSlot(k)
    PROVE  /\ \A i \in Sems : Named(k, i) => slot(k) = i
           /\ slot(k) # NULL => slot(k) \in Sems /\ Named(k, slot(k))
           /\ slot(k) = NULL => \A i \in Sems : ~Named(k, i)
  <1>1. \/ slot(k) = NULL /\ \A i \in Open(k) : k.sems[i].name # Name
        \/ slot(k) \in Open(k) /\ k.sems[slot(k)].name = Name
    BY FindSem DEF slot
  <1>2. Open(k) \subseteq Sems /\ NULL \notin Sems
    BY SemsAreNat DEF Open
  <1> QED
    BY <1>1, <1>2 DEF Named, OneSlot

at_least_0(v) == IF v < 0 THEN 0 ELSE v

LEMMA NamedView ==
    ASSUME NEW k \in Tables, OneSlot(k), NEW i \in Sems, Named(k, i)
    PROVE  /\ Available(k) = at_least_0(k.sems[i].value)
           /\ Holders(k) = Keepers(k, i)
           /\ Line(k) = k.sems[i].queue
  <1>1. slot(k) = i /\ i # NULL
    BY SlotIsNamed, SemsAreNat
  <1> QED
    BY <1>1 DEF Available, Holders, Line, Keepers, at_least_0

LEMMA NoView ==
    ASSUME NEW k \in Tables, OneSlot(k), \A i \in Sems : ~Named(k, i)
    PROVE  Available(k) = Stock /\ Holders(k) = {} /\ Line(k) = <<>>
  <1>1. slot(k) = NULL
    BY SlotIsNamed
  <1> QED
    BY <1>1 DEF Available, Holders, Line

\* What the users see stays when the slot's numbers and holders do.
LEMMA SameView ==
    ASSUME NEW k \in Tables, NEW r \in Tables, OneSlot(k), OneSlot(r),
           \A i \in Sems : Named(r, i) <=> Named(k, i),
           \A i \in Sems : Named(k, i) => /\ r.sems[i].value = k.sems[i].value
                                          /\ r.sems[i].queue = k.sems[i].queue
                                          /\ Keepers(r, i) = Keepers(k, i)
    PROVE  Same(k, r)
  <1>1. CASE \E i \in Sems : Named(k, i)
    <2>1. PICK i \in Sems : Named(k, i)
      BY <1>1
    <2>2. Named(r, i)
      BY <2>1
    <2> QED
      BY <2>1, <2>2, NamedView DEF Same
  <1>2. CASE \A i \in Sems : ~Named(k, i)
    <2>1. \A i \in Sems : ~Named(r, i)
      BY <1>2
    <2> QED
      BY <1>2, <2>1, NoView DEF Same
  <1> QED
    BY <1>1, <1>2

-----------------------------------------------------------------------------
(***************************************************************************)
(* Each operation is a move, and keeps the name in one slot.               *)
(***************************************************************************)
LEMMA OpenMoves ==
    ASSUME NEW k \in Tables, NEW r, OneSlot(k), Books(k), Disciplined,
           NEW p \in Pids, NEW name \in Names, NEW v \in InitialValues, Opens(k, r, p, name, v)
    PROVE  OneSlot(r) /\ Moved(k, r)
  <1> DEFINE i == opened_slot(k, name)
  <1>1. /\ find_sem(k, name) # NULL \/ FreeSlots(k) # {}
        /\ find_sem(k, name) \notin k.procs[p].opened
        /\ r = sem_open(k, p, name, v)
    BY DEF Opens, Obeyed, Disciplined
  <1>2. OpenStep(k, r, p, name, v)
    BY <1>1, OpenIs
  <1>3. /\ i \in Sems
        /\ find_sem(k, name) = NULL => i \notin Open(k)
        /\ find_sem(k, name) # NULL => i \in Open(k)
    BY <1>1, OpenedSlot
  <1>4. r \in Tables /\ \A j \in Sems \ {i} : r.sems[j] = k.sems[j]
    BY <1>2 DEF OpenStep, Only
  <1>5. \A j \in Sems : Keepers(r, j) = Keepers(k, j)
    BY <1>2 DEF OpenStep, Only, PCBIs, Keepers
  <1>6. v = Stock /\ (Truncate[name] = Name <=> name = Name) /\ Stock \in Nat
    BY NamedAssumption, SemaphoresAssumption
  <1>7. CASE find_sem(k, name) # NULL
    <2>1. SlotIs(r.sems[i], k.sems[i].name, k.sems[i].value, k.sems[i].initial,
                 k.sems[i].queue, k.sems[i].open_count + 1)
      BY <1>2, <1>7 DEF OpenStep
    <2> HIDE DEF i
    <2>2. k.sems[i].open_count \in Nat
      BY <1>3 DEF Tables, Semaphore
    <2>3. Open(r) = Open(k)
      BY <1>3, <1>4, <1>7, <2>1, <2>2 DEF Open, SlotIs
    <2>4. \A j \in Sems : /\ r.sems[j].name = k.sems[j].name
                          /\ r.sems[j].value = k.sems[j].value
                          /\ r.sems[j].initial = k.sems[j].initial
                          /\ r.sems[j].queue = k.sems[j].queue
      BY <1>3, <1>4, <2>1 DEF SlotIs
    <2>5. \A j \in Sems : Named(r, j) <=> Named(k, j)
      BY <2>3, <2>4 DEF Named
    <2>6. OneSlot(r)
      BY <2>3, <2>4, <2>5 DEF OneSlot, Open
    <2>7. Same(k, r)
      BY <1>4, <1>5, <2>4, <2>5, <2>6, SameView
    <2> QED
      BY <2>6, <2>7 DEF Moved
  <1>8. CASE find_sem(k, name) = NULL
    <2>1. SlotIs(r.sems[i], Truncate[name], v, v, <<>>, 1)
      BY <1>2, <1>8 DEF OpenStep
    <2>2. \A j \in Open(k) : k.sems[j].name # name
      BY <1>8, FindSem, SemsAreNat DEF Open
    <2>3. Openers(k, i) = {}
      BY <1>1, <1>8, OpenCounted DEF Books
    <2>4. Keepers(k, i) = {}
      BY <2>3 DEF Keepers, Openers, Books, Holding
    <2> HIDE DEF i
    <2>5. Open(r) = Open(k) \cup {i}
      BY <1>3, <1>4, <2>1 DEF Open, SlotIs
    <2>6. \A j \in Open(k) : j # i /\ r.sems[j] = k.sems[j]
      BY <1>3, <1>4, <1>8 DEF Open
    <2>7. r.sems[i].name = Truncate[name] /\ r.sems[i].initial = Stock
      BY <1>6, <2>1 DEF SlotIs
    <2>8. CASE name # Name
      <3>1. ~Named(r, i) /\ ~Named(k, i)
        BY <1>3, <1>6, <1>8, <2>7, <2>8 DEF Named
      <3>2. \A j \in Sems : Named(r, j) <=> Named(k, j)
        BY <2>5, <2>6, <3>1 DEF Named
      <3>3. OneSlot(r)
        BY <2>5, <2>6, <2>7, <3>1, <3>2 DEF OneSlot, Open
      <3>4. Same(k, r)
        BY <1>4, <1>5, <2>6, <3>2, <3>3, SameView DEF Named
      <3> QED
        BY <3>3, <3>4 DEF Moved
    <2>9. CASE name = Name
      <3>1. Named(r, i)
        BY <1>6, <2>5, <2>7, <2>9 DEF Named
      <3>2. \A j \in Sems : ~Named(k, j)
        BY <2>2, <2>9 DEF Named
      <3>3. OneSlot(r)
        <4>1. \A j \in Open(k) : ~Named(r, j)
          BY <2>2, <2>6, <2>9 DEF Named
        <4>2. \A j \in Open(k) : r.sems[j].initial = Stock
          BY <2>6 DEF OneSlot
        <4> QED
          BY <2>5, <2>7, <4>1, <4>2 DEF OneSlot
      <3>4. /\ Available(r) = at_least_0(Stock) /\ Holders(r) = {} /\ Line(r) = <<>>
        BY <1>3, <1>4, <1>5, <1>6, <2>1, <2>4, <3>1, <3>3, NamedView DEF SlotIs
      <3>5. at_least_0(Stock) = Stock
        BY <1>6 DEF at_least_0
      <3>6. Same(k, r)
        BY <3>2, <3>4, <3>5, NoView DEF Same
      <3> QED
        BY <3>3, <3>6 DEF Moved
    <2> QED
      BY <2>8, <2>9
  <1> QED
    BY <1>7, <1>8

\* A call that frees and renames no slot.
LEMMA NamesStay ==
    ASSUME NEW k \in Tables, NEW r \in Tables, OneSlot(k),
           \A j \in Sems : /\ r.sems[j].name = k.sems[j].name
                           /\ r.sems[j].initial = k.sems[j].initial
                           /\ r.sems[j].open_count = k.sems[j].open_count
    PROVE  OneSlot(r) /\ \A j \in Sems : Named(r, j) <=> Named(k, j)
  <1>1. Open(r) = Open(k) /\ Open(k) \subseteq Sems
    BY DEF Open
  <1>2. \A j \in Sems : Named(r, j) <=> Named(k, j)
    BY <1>1 DEF Named
  <1> QED
    BY <1>1, <1>2 DEF OneSlot

LEMMA WaitMoves ==
    ASSUME NEW k \in Tables, NEW r, OneSlot(k), Books(k), Disciplined,
           NEW p \in Pids, NEW i \in Sems, Waits(k, r, p, i)
    PROVE  OneSlot(r) /\ Moved(k, r)
  <1> DEFINE s == k.sems[i]
  <1>1. /\ i \in Open(k) /\ k.procs[p].state # "BLOCKED" /\ i \notin k.procs[p].held
        /\ r = sem_wait(k, p, i)
    BY DEF Waits, Lent, Obeyed, Disciplined
  <1>2. WaitStep(k, r, p, i)
    BY <1>1, WaitIs
  <1>3. s.value - 1 < 0 => r.sems[i].queue = Append(s.queue, p)
    BY <1>1, WaitLines DEF Books
  <1>4. r \in Tables /\ \A j \in Sems \ {i} : r.sems[j] = k.sems[j]
    BY <1>2 DEF WaitStep, Only
  <1>5. \A j \in Sems : /\ r.sems[j].name = k.sems[j].name
                        /\ r.sems[j].initial = k.sems[j].initial
                        /\ r.sems[j].open_count = k.sems[j].open_count
    BY <1>2 DEF WaitStep, Only, SlotIs
  <1>6. OneSlot(r) /\ \A j \in Sems : Named(r, j) <=> Named(k, j)
    BY <1>4, <1>5, NamesStay
  <1>7. \A j \in Sems \ {i} : Keepers(r, j) = Keepers(k, j)
    BY <1>2 DEF WaitStep, Only, PCBIs, Keepers
  <1>8. CASE ~Named(k, i)
    BY <1>4, <1>6, <1>7, <1>8, SameView DEF Moved
  <1>9. CASE Named(k, i)
    <2>1. /\ Available(k) = at_least_0(s.value) /\ Holders(k) = Keepers(k, i)
          /\ Line(k) = s.queue
          /\ Available(r) = at_least_0(r.sems[i].value) /\ Holders(r) = Keepers(r, i)
          /\ Line(r) = r.sems[i].queue
      BY <1>4, <1>6, <1>9, NamedView
    <2>2. s.value \in Int /\ r.sems[i].value = s.value - 1
      BY <1>2 DEF WaitStep, SlotIs, Tables, Semaphore
    <2>3. p \notin Keepers(k, i) /\ p \notin Elements(s.queue)
      BY <1>1, RunnerNotInLine DEF Keepers, Books
    <2>4. CASE s.value - 1 < 0
      <3>1. Keepers(r, i) = Keepers(k, i)
        BY <1>2, <2>4 DEF WaitStep, Only, PCBIs, Keepers
      <3> HIDE DEF s
      <3>2. at_least_0(s.value) = 0 /\ at_least_0(s.value - 1) = 0
        BY <2>2, <2>4 DEF at_least_0
      <3>3. Entered(k, r, p)
        BY <1>3, <2>1, <2>2, <2>3, <2>4, <3>1, <3>2 DEF Entered
      <3> QED
        BY <1>6, <3>3 DEF Moved
    <2>5. CASE ~(s.value - 1 < 0)
      <3>1. Keepers(r, i) = Keepers(k, i) \cup {p}
        BY <1>2, <2>5 DEF WaitStep, Only, PCBIs, Keepers
      <3>2. r.sems[i].queue = s.queue
        BY <1>2, <2>5 DEF WaitStep, SlotIs
      <3> HIDE DEF s
      <3>3. /\ at_least_0(s.value) = s.value /\ at_least_0(s.value - 1) = s.value - 1
            /\ s.value > 0
        BY <2>2, <2>5 DEF at_least_0
      <3>4. Acquired(k, r, p)
        BY <2>1, <2>2, <2>3, <3>1, <3>2, <3>3 DEF Acquired
      <3> QED
        BY <1>6, <3>4 DEF Moved
    <2> QED
      BY <2>4, <2>5
  <1> QED
    BY <1>8, <1>9

LEMMA PostMoves ==
    ASSUME NEW k \in Tables, NEW r, OneSlot(k), Books(k), Disciplined,
           NEW p \in Pids, NEW i \in Sems, Posts(k, r, p, i)
    PROVE  OneSlot(r) /\ Moved(k, r)
  <1>1. i \in Open(k) /\ i \in k.procs[p].held /\ r = sem_post(k, p, i)
    BY DEF Posts, Lent, Obeyed, Disciplined
  <1>2. PICK d : DropStep(k, d, p, i) /\ r = give(d, i)
    BY <1>1, PostIs
  <1>3. d \in Tables /\ d.sems = k.sems /\ GiveStep(d, r, i) /\ Lines(d)
    BY <1>2, GiveIs, DropLines DEF DropStep, Books
  <1> DEFINE s == d.sems[i]
             h == Head(s.queue)
  <1>4. r \in Tables /\ \A j \in Sems \ {i} : r.sems[j] = k.sems[j]
    BY <1>3 DEF GiveStep
  <1>5. \A j \in Sems : /\ r.sems[j].name = k.sems[j].name
                        /\ r.sems[j].initial = k.sems[j].initial
                        /\ r.sems[j].open_count = k.sems[j].open_count
    BY <1>3 DEF GiveStep, SlotIs
  <1>6. OneSlot(r) /\ \A j \in Sems : Named(r, j) <=> Named(k, j)
    BY <1>4, <1>5, NamesStay
  <1>7. /\ Hands(s) <=> s.queue # <<>>
        /\ Hands(s) => h \in Pids /\ d.procs[h].state = "BLOCKED" /\ s.value < 0
    BY <1>3, FirstInLine
  <1>8. ASSUME NEW q \in Pids
        PROVE  r.procs[q].held = IF Hands(s) /\ q = h THEN d.procs[q].held \cup {i}
                                 ELSE d.procs[q].held
    <2>1. d.procs[q] \in PCB
      BY <1>3 DEF Tables
    <2> QED
      BY <1>3, <1>7, <2>1, HandedType DEF GiveStep
  <1>9. ASSUME NEW q \in Pids
        PROVE  d.procs[q].held = IF q = p THEN k.procs[q].held \ {i} ELSE k.procs[q].held
    BY <1>2 DEF DropStep, PCBIs
  <1>10. \A j \in Sems \ {i} : Keepers(r, j) = Keepers(k, j)
    <2> TAKE j \in Sems \ {i}
    <2>1. \A q \in Pids : j \in r.procs[q].held <=> j \in k.procs[q].held
      BY <1>8, <1>9
    <2> QED
      BY <2>1 DEF Keepers
  <1>11. CASE ~Named(k, i)
    BY <1>4, <1>6, <1>10, <1>11, SameView DEF Moved
  <1>12. CASE Named(k, i)
    <2>1. /\ Available(k) = at_least_0(s.value) /\ Holders(k) = Keepers(k, i)
          /\ Line(k) = s.queue
          /\ Available(r) = at_least_0(r.sems[i].value) /\ Holders(r) = Keepers(r, i)
          /\ Line(r) = r.sems[i].queue
      BY <1>3, <1>4, <1>6, <1>12, NamedView
    <2>2. /\ s.value \in Int /\ s.queue \in Seq(Pids) /\ r.sems[i].value = s.value + 1
          /\ p \in Keepers(k, i)
      BY <1>1, <1>3 DEF GiveStep, SlotIs, Tables, Semaphore, Keepers
    <2>3. CASE Hands(s)
      <3>1. r.sems[i].queue = Tail(s.queue)
        BY <1>3, <2>3 DEF GiveStep, SlotIs
      <3>2. Keepers(r, i) = (Keepers(k, i) \ {p}) \cup {h}
        BY <1>7, <1>8, <1>9, <2>3 DEF Keepers
      <3>3. s.value + 1 <= 0
        BY <2>3 DEF Hands
      <3>4. at_least_0(s.value) = 0 /\ at_least_0(s.value + 1) = 0
        <4> HIDE DEF s
        <4> QED
          BY <2>2, <3>3 DEF at_least_0
      <3>5. Released(k, r, p)
        BY <1>7, <2>1, <2>2, <2>3, <3>1, <3>2, <3>4 DEF Released
      <3> QED
        BY <1>6, <3>5 DEF Moved
    <2>4. CASE ~Hands(s)
      <3>1. r.sems[i].queue = s.queue /\ s.queue = <<>>
        BY <1>3, <1>7, <2>4 DEF GiveStep, SlotIs
      <3>2. Keepers(r, i) = Keepers(k, i) \ {p}
        BY <1>8, <1>9, <2>4 DEF Keepers
      <3>3. Balanced(s)
        BY <1>3 DEF Lines
      <3>4. /\ at_least_0(s.value) = s.value /\ at_least_0(s.value + 1) = s.value + 1
        <4> HIDE DEF s
        <4> QED
          BY <2>2, <3>1, <3>3 DEF at_least_0, Balanced
      <3>5. Released(k, r, p)
        BY <2>1, <2>2, <3>1, <3>2, <3>4 DEF Released
      <3> QED
        BY <1>6, <3>5 DEF Moved
    <2> QED
      BY <2>3, <2>4
  <1> QED
    BY <1>11, <1>12

\* Slots that are freed or stay: at most one has the name still.
LEMMA NamesFade ==
    ASSUME NEW k \in Tables, NEW r \in Tables, OneSlot(k),
           \A j \in Open(r) : /\ j \in Open(k)
                              /\ r.sems[j].name = k.sems[j].name
                              /\ r.sems[j].initial = k.sems[j].initial
    PROVE  OneSlot(r) /\ \A j \in Sems : Named(r, j) => Named(k, j)
  <1>1. \A j \in Sems : Named(r, j) => Named(k, j)
    BY DEF Named
  <1>2. Open(r) \subseteq Sems /\ Open(k) \subseteq Sems
    BY DEF Open
  <1> QED
    BY <1>1, <1>2 DEF OneSlot

\* A slot that nobody has open holds all its units and no waiter.
LEMMA LastOne ==
    ASSUME NEW k \in Tables, Books(k), NEW p \in Pids, NEW i \in Sems,
           Openers(k, i) \subseteq {p}
    PROVE  /\ Keepers(k, i) \subseteq {p}
           /\ Elements(k.sems[i].queue) \subseteq {p}
  <1>1. Keepers(k, i) \subseteq Openers(k, i)
    BY DEF Keepers, Openers, Books, Holding
  <1>2. Elements(k.sems[i].queue) \subseteq Openers(k, i)
    BY SemsAreNat DEF Openers, Books, Lines, Asleep, Waiters, Waiting_ok
  <1> QED
    BY <1>1, <1>2

LEMMA NobodyInLine ==
    ASSUME NEW q \in Seq(Pids), Elements(q) = {}
    PROVE  q = <<>> /\ Len(q) = 0
  <1>1. ASSUME Len(q) # 0  PROVE FALSE
    <2>1. 1 \in 1..Len(q)
      BY <1>1
    <2> QED
      BY <2>1 DEF Elements
  <1> QED
    BY <1>1

LEMMA CloseMoves ==
    ASSUME NEW k \in Tables, NEW r, OneSlot(k), Books(k), Disciplined,
           NEW p \in Pids, NEW i \in Sems, Closes(k, r, p, i)
    PROVE  OneSlot(r) /\ Moved(k, r)
  <1> DEFINE s == k.sems[i]
  <1>1. /\ i \in Open(k) /\ i \notin k.procs[p].held /\ i \in k.procs[p].opened
        /\ k.procs[p].state # "BLOCKED" /\ r = sem_close(k, p, i)
    BY DEF Closes, Lent, Obeyed, Disciplined
  <1>2. CloseStep(k, r, p, i)
    BY <1>1, CloseIs
  <1>3. r \in Tables /\ \A j \in Sems \ {i} : r.sems[j] = k.sems[j]
    BY <1>2 DEF CloseStep, Only
  <1>4. \A j \in Sems : Keepers(r, j) = Keepers(k, j)
    BY <1>1, <1>2 DEF CloseStep, Only, PCBIs, Keepers
  <1>5. s.open_count \in Nat /\ s.open_count > 0 /\ s.value \in Int /\ s.queue \in Seq(Pids)
    BY <1>1 DEF Open, Tables, Semaphore
  <1>6. CASE s.open_count # 1
    <2>1. SlotIs(r.sems[i], s.name, s.value, s.initial, s.queue, s.open_count - 1)
      BY <1>2, <1>6 DEF CloseStep
    <2>2. Open(r) = Open(k)
      BY <1>1, <1>3, <1>5, <1>6, <2>1 DEF Open, SlotIs
    <2>3. \A j \in Sems : /\ r.sems[j].name = k.sems[j].name
                          /\ r.sems[j].value = k.sems[j].value
                          /\ r.sems[j].initial = k.sems[j].initial
                          /\ r.sems[j].queue = k.sems[j].queue
      BY <1>3, <2>1 DEF SlotIs
    <2>4. \A j \in Sems : Named(r, j) <=> Named(k, j)
      BY <2>2, <2>3 DEF Named
    <2>5. OneSlot(r)
      BY <2>2, <2>3, <2>4 DEF OneSlot, Open
    <2> QED
      BY <1>3, <1>4, <2>3, <2>4, <2>5, SameView DEF Moved
  <1>7. CASE s.open_count = 1
    <2>1. r.sems[i] = FreeSem
      BY <1>2, <1>7 DEF CloseStep
    <2>2. Open(r) = Open(k) \ {i}
      BY <1>3, <2>1, FreeSemType DEF Open
    <2>3. OneSlot(r) /\ ~Named(r, i)
      <3>1. \A j \in Open(r) : /\ j \in Open(k)
                               /\ r.sems[j].name = k.sems[j].name
                               /\ r.sems[j].initial = k.sems[j].initial
        BY <1>3, <2>2 DEF Open
      <3> QED
        BY <1>3, <2>2, <3>1, NamesFade DEF Named
    <2>4. \A j \in Sems \ {i} : Named(r, j) <=> Named(k, j)
      BY <1>3, <2>2 DEF Named
    <2>5. CASE ~Named(k, i)
      BY <1>3, <1>4, <2>3, <2>4, <2>5, SameView DEF Moved
    <2>6. CASE Named(k, i)
      <3>1. \A j \in Sems : ~Named(r, j)
        BY <1>1, <2>3, <2>4, <2>6 DEF OneSlot, Named
      <3>2. Available(r) = Stock /\ Holders(r) = {} /\ Line(r) = <<>>
        BY <1>3, <2>3, <3>1, NoView
      <3>3. /\ Available(k) = at_least_0(s.value) /\ Holders(k) = Keepers(k, i)
            /\ Line(k) = s.queue
        BY <2>6, NamedView
      <3>4. Openers(k, i) \subseteq {p}
        <4> DEFINE S == Openers(k, i)
        <4>1. S \in SUBSET Pids /\ p \in S /\ Cardinality(S) = 1
          BY <1>1, <1>7 DEF Openers, Books, Counted
        <4> HIDE DEF S
        <4>2. Cardinality(S \ {p}) = 0 /\ S \ {p} \in SUBSET Pids
          BY <4>1, CountOne
        <4>3. S \ {p} = {}
          BY <4>2, CountOne
        <4> QED
          BY <4>3 DEF S
      <3>5. Keepers(k, i) = {} /\ Elements(s.queue) = {}
        <4>1. p \notin Keepers(k, i) /\ p \notin Elements(s.queue)
          BY <1>1, RunnerNotInLine DEF Keepers, Books
        <4> QED
          BY <3>4, <4>1, LastOne
      <3>6. s.queue = <<>> /\ Len(s.queue) = 0 /\ Cardinality(Keepers(k, i)) = 0
        BY <1>5, <3>5, NobodyInLine, FS_EmptySet
      <3>7. s.value + Len(s.queue) + Cardinality(Keepers(k, i)) = Stock
        BY <1>1 DEF Books, Units, units, OneSlot
      <3>8. Stock \in Nat
        BY NamedAssumption, SemaphoresAssumption
      <3> HIDE DEF s
      <3>9. at_least_0(s.value) = Stock
        BY <1>5, <3>6, <3>7, <3>8 DEF at_least_0
      <3> QED
        BY <2>3, <3>2, <3>3, <3>5, <3>6, <3>9 DEF Moved, Same
    <2> QED
      BY <2>5, <2>6
  <1> QED
    BY <1>6, <1>7

\* What the users see after p's death, whether the slot is freed or not.
LEMMA DeathView ==
    ASSUME NEW k \in Tables, NEW r \in Tables, OneSlot(k), OneSlot(r), Books(k), Books(r),
           NEW p \in Pids, DeathStep(k, r, p), NEW i \in Sems, Named(k, i)
    PROVE  /\ Available(r) = at_least_0(left_value(k, p, i))
           /\ Holders(r) = Keepers(r, i)
           /\ Line(r) = left_line(k, p, i)
  <1> DEFINE s == k.sems[i]
  <1>0. i \in Open(k)
    BY DEF Named
  <1>1. CASE references(k, p, i) # 0
    <2>1. SlotIs(r.sems[i], s.name, left_value(k, p, i), s.initial,
                 left_line(k, p, i), references(k, p, i))
      BY <1>0, <1>1 DEF DeathStep
    <2>2. references(k, p, i) \in Nat
      BY <1>0, ForgetIs DEF ForgetStep
    <2>3. Named(r, i)
      BY <1>1, <2>1, <2>2 DEF Named, Open, SlotIs
    <2> QED
      BY <2>1, <2>3, NamedView DEF SlotIs
  <1>2. CASE references(k, p, i) = 0
    <2>1. r.sems[i] = FreeSem
      BY <1>0, <1>2 DEF DeathStep
    <2>2. i \notin Open(r)
      BY <2>1, FreeSemType DEF Open
    <2>3. \A j \in Sems : ~Named(r, j)
      <3> SUFFICES ASSUME NEW j \in Sems, Named(r, j)  PROVE FALSE
        OBVIOUS
      <3>1. j # i /\ j \in Open(r) /\ r.sems[j] # FreeSem /\ r.sems[j].name = Name
        BY <2>2, FreeSemType DEF Named, Open
      <3>2. j \in Open(k) /\ r.sems[j].name = k.sems[j].name
        BY <3>1 DEF DeathStep, SlotIs
      <3> QED
        BY <1>0, <3>1, <3>2 DEF OneSlot, Named
    <2>4. Available(r) = Stock /\ Holders(r) = {} /\ Line(r) = <<>>
      BY <2>3, NoView
    <2>5. Openers(k, i) \subseteq {p} /\ Openers(r, i) = {}
      <3>1. Cardinality(Openers(k, i) \ {p}) = 0
        BY <1>0, <1>2, DeathReferences DEF Books
      <3>2. Openers(r, i) = {}
        BY <2>2, DeathReferences DEF Books
      <3> DEFINE S == Openers(k, i) \ {p}
      <3>3. S \in SUBSET Pids
        BY DEF Openers
      <3> HIDE DEF S
      <3>4. Cardinality(S) = 0 => S = {}
        BY <3>3, CountOne
      <3> QED
        BY <3>1, <3>2, <3>4 DEF S
    <2>6. Keepers(r, i) = {}
      BY <2>5 DEF Keepers, Openers, Books, Holding
    <2>7. Elements(s.queue) \subseteq {p} /\ s.queue \in Seq(Pids) /\ s.value \in Int
      BY <2>5, LastOne DEF Tables, Semaphore
    <2>8. left_line(k, p, i) = <<>> /\ Len(left_line(k, p, i)) = 0
      <3>1. CASE Queued(s, p)
        <4>1. left_line(k, p, i) = queue_remove_pid(s.queue, p)
          BY <3>1 DEF left_line
        <4> HIDE DEF s
        <4>2. /\ queue_remove_pid(s.queue, p) \in Seq(Pids)
              /\ Elements(queue_remove_pid(s.queue, p)) = Elements(s.queue) \ {p}
          BY <2>7, RemovedQueue
        <4>3. Elements(queue_remove_pid(s.queue, p)) = {}
          BY <2>7, <4>2
        <4> QED
          BY <4>1, <4>2, <4>3, NobodyInLine
      <3>2. CASE ~Queued(s, p)
        <4>1. s.queue = <<>>
          BY <2>7, <3>2, NobodyInLine DEF Queued
        <4>2. ~Bequeaths(k, p, i)
          BY <4>1, BequeathsIs DEF Hands, Books
        <4> QED
          BY <3>2, <4>1, <4>2 DEF left_line
      <3> QED
        BY <3>1, <3>2
    <2>9. left_value(k, p, i) + Len(left_line(k, p, i)) + Cardinality(Keepers(r, i)) = Stock
      BY <1>0, DeathSum DEF Books, OneSlot
    <2>10. left_value(k, p, i) \in Int /\ Cardinality(Keepers(r, i)) = 0 /\ Stock \in Nat
      BY <2>6, <2>7, FS_EmptySet, NamedAssumption, SemaphoresAssumption DEF left_value
    <2>11. at_least_0(left_value(k, p, i)) = Stock
      BY <2>8, <2>9, <2>10 DEF at_least_0
    <2> QED
      BY <2>4, <2>6, <2>8, <2>11
  <1> QED
    BY <1>1, <1>2

LEMMA DeathMoves ==
    ASSUME NEW k \in Tables, NEW r \in Tables, OneSlot(k), Books(k), Books(r),
           NEW p \in Pids, Dies(k, r, p)
    PROVE  OneSlot(r) /\ Moved(k, r)
  <1>1. DeathStep(k, r, p)
    BY DeathIs DEF Dies, Books
  <1>2. \A j \in Open(r) : /\ j \in Open(k)
                           /\ r.sems[j].name = k.sems[j].name
                           /\ r.sems[j].initial = k.sems[j].initial
    <2> TAKE j \in Open(r)
    <2>1. j \in Sems /\ r.sems[j] # FreeSem
      BY FreeSemType DEF Open
    <2> QED
      BY <1>1, <2>1 DEF DeathStep, SlotIs
  <1>3. OneSlot(r) /\ \A j \in Sems : Named(r, j) => Named(k, j)
    BY <1>2, NamesFade
  <1>4. CASE \A j \in Sems : ~Named(k, j)
    BY <1>3, <1>4, NoView DEF Moved, Same
  <1>5. ASSUME NEW i \in Sems, Named(k, i)
        PROVE  Moved(k, r)
    <2> DEFINE s == k.sems[i]
               h == Head(s.queue)
    <2>1. /\ Available(r) = at_least_0(left_value(k, p, i)) /\ Holders(r) = Keepers(r, i)
          /\ Line(r) = left_line(k, p, i)
      BY <1>1, <1>3, <1>5, DeathView
    <2>2. /\ Available(k) = at_least_0(s.value) /\ Holders(k) = Keepers(k, i)
          /\ Line(k) = s.queue
      BY <1>5, NamedView
    <2>3. /\ s.value \in Int /\ s.queue \in Seq(Pids) /\ Balanced(s) /\ i \in Open(k)
          /\ (Hands(s) <=> s.queue # <<>>)
      BY <1>5, FirstInLine DEF Tables, Semaphore, Books, Lines, Named
    <2>4. /\ ~Bequeaths(k, p, i) => Keepers(r, i) = Keepers(k, i) \ {p}
          /\ Bequeaths(k, p, i) => Keepers(r, i) = (Keepers(k, i) \ {p}) \cup {h}
      BY <1>1, DeathKeepers DEF Books
    <2>5. Bequeaths(k, p, i) <=> Holds(k, p, i) /\ Hands(s)
      BY <2>3, BequeathsIs DEF Books
    <2>6. p \in Keepers(k, i) <=> i \in k.procs[p].held
      BY DEF Keepers
    <2>7. CASE Queued(s, p)
      <3>1. k.procs[p].waits = i
        BY <2>7 DEF Queued, Books, Lines, Asleep
      <3>2. p \notin Keepers(k, i) /\ ~Bequeaths(k, p, i)
        BY <2>5, <2>6, <2>7, <3>1 DEF Books, Holding, Holds
      <3>3. PICK j \in 1..Len(s.queue) : s.queue[j] = p
        BY <2>7 DEF Queued, Elements
      <3>4. /\ left_value(k, p, i) = s.value + 1
            /\ left_line(k, p, i) = queue_remove_pid(s.queue, p)
        BY <2>7 DEF left_value, left_line
      <3> HIDE DEF s
      <3>5. queue_remove_pid(s.queue, p)
              = [n \in 1..(Len(s.queue) - 1) |-> s.queue[IF n < j THEN n ELSE n + 1]]
        <4>1. s.queue \in Seq(Pids) /\ Distinct(s.queue)
          BY <2>3 DEF Balanced
        <4>2. j \in 1..Len(s.queue) /\ s.queue[j] = p
          BY <3>3
        <4> HIDE DEF h
        <4> DEFINE q == s.queue
        <4>3. q \in Seq(Pids) /\ Distinct(q) /\ j \in 1..Len(q) /\ q[j] = p
          BY <4>1, <4>2
        <4>4. queue_remove_pid(q, p) = [n \in 1..(Len(q) - 1) |-> q[IF n < j THEN n ELSE n + 1]]
          <5> HIDE DEF q
          <5> QED
            BY <4>3, RemoveOne, Zenon
        <4> QED
          BY <4>4
      <3>6. at_least_0(s.value) = 0 /\ at_least_0(s.value + 1) = 0
        <4>1. s.value < 0
          BY <2>3, <3>3 DEF Balanced
        <4> QED
          BY <2>3, <4>1 DEF at_least_0
      <3>7. Keepers(r, i) = Keepers(k, i)
        BY <2>4, <3>2
      <3>8. Left(k, r, p)
        BY <2>1, <2>2, <3>3, <3>4, <3>5, <3>6, <3>7 DEF Left
      <3> QED
        BY <3>8 DEF Moved
    <2>8. CASE ~Queued(s, p) /\ i \notin k.procs[p].held
      <3>1. ~Bequeaths(k, p, i) /\ Keepers(r, i) = Keepers(k, i)
        BY <2>4, <2>5, <2>6, <2>8 DEF Holds
      <3>2. left_value(k, p, i) = s.value /\ left_line(k, p, i) = s.queue
        BY <2>8, <3>1 DEF left_value, left_line
      <3> QED
        BY <2>1, <2>2, <3>1, <3>2 DEF Moved, Same
    <2>9. CASE Holds(k, p, i)
      <3>1. ~Queued(s, p) /\ p \in Keepers(k, i)
        BY <2>6, <2>9 DEF Holds
      <3>2. left_value(k, p, i) = s.value + 1
        BY <2>6, <3>1 DEF left_value
      <3>3. CASE Hands(s)
        <4>1. left_line(k, p, i) = Tail(s.queue)
          BY <2>5, <2>9, <3>1, <3>3 DEF left_line
        <4>2. at_least_0(s.value) = 0 /\ at_least_0(s.value + 1) = 0
          <5>1. s.value + 1 <= 0
            BY <3>3 DEF Hands
          <5> HIDE DEF s
          <5> QED
            BY <2>3, <5>1 DEF at_least_0
        <4>3. Keepers(r, i) = (Keepers(k, i) \ {p}) \cup {h}
          BY <2>4, <2>5, <2>9, <3>3
        <4>4. Released(k, r, p)
          BY <2>1, <2>2, <2>3, <3>1, <3>2, <3>3, <4>1, <4>2, <4>3 DEF Released
        <4> QED
          BY <4>4 DEF Moved
      <3>4. CASE ~Hands(s)
        <4>1. left_line(k, p, i) = s.queue /\ s.queue = <<>>
          BY <2>3, <2>5, <3>1, <3>4 DEF left_line
        <4>2. at_least_0(s.value) = s.value /\ at_least_0(s.value + 1) = s.value + 1
          <5> HIDE DEF s
          <5> QED
            BY <2>3, <4>1 DEF at_least_0, Balanced
        <4>3. Keepers(r, i) = Keepers(k, i) \ {p}
          BY <2>4, <2>5, <3>4
        <4>4. Released(k, r, p)
          BY <2>1, <2>2, <3>1, <3>2, <4>1, <4>2, <4>3 DEF Released
        <4> QED
          BY <4>4 DEF Moved
      <3> QED
        BY <3>3, <3>4
    <2> QED
      BY <2>7, <2>8, <2>9 DEF Holds
  <1> QED
    BY <1>3, <1>4, <1>5

LEMMA PauseMoves ==
    ASSUME NEW k \in Tables, NEW r, OneSlot(k), NEW p \in Pids, Pauses(k, r, p)
    PROVE  OneSlot(r) /\ Moved(k, r)
  <1>1. r \in Tables /\ r.sems = k.sems
    BY DEF Pauses
  <1>2. \A j \in Sems : Keepers(r, j) = Keepers(k, j)
    BY DEF Pauses, Keepers
  <1>3. OneSlot(r) /\ \A j \in Sems : Named(r, j) <=> Named(k, j)
    BY <1>1, NamesStay
  <1> QED
    BY <1>1, <1>2, <1>3, SameView DEF Moved

LEMMA StepMoves ==
    ASSUME Kernel \in Tables, OneSlot(Kernel), Books(Kernel), [Next]_vars, Disciplined
    PROVE  OneSlot(Kernel') /\ Moved(Kernel, Kernel')
  <1>1. Kernel' \in Tables /\ Books(Kernel')
    BY StepType, StepBooks
  <1>2. CASE Kernel' = Kernel
    BY <1>2 DEF Moved, Same
  <1>3. ASSUME NEW p \in Pids, NEW name \in Names, NEW v \in InitialValues,
               Opens(Kernel, Kernel', p, name, v)
        PROVE  OneSlot(Kernel') /\ Moved(Kernel, Kernel')
    BY <1>3, OpenMoves
  <1>4. ASSUME NEW p \in Pids, NEW i \in Sems, Waits(Kernel, Kernel', p, i)
        PROVE  OneSlot(Kernel') /\ Moved(Kernel, Kernel')
    BY <1>4, WaitMoves
  <1>5. ASSUME NEW p \in Pids, NEW i \in Sems, Posts(Kernel, Kernel', p, i)
        PROVE  OneSlot(Kernel') /\ Moved(Kernel, Kernel')
    BY <1>5, PostMoves
  <1>6. ASSUME NEW p \in Pids, NEW i \in Sems, Closes(Kernel, Kernel', p, i)
        PROVE  OneSlot(Kernel') /\ Moved(Kernel, Kernel')
    BY <1>6, CloseMoves
  <1>7. ASSUME NEW p \in Pids, Dies(Kernel, Kernel', p)
        PROVE  OneSlot(Kernel') /\ Moved(Kernel, Kernel')
    BY <1>1, <1>7, DeathMoves
  <1>8. ASSUME NEW p \in Pids, Pauses(Kernel, Kernel', p)
        PROVE  OneSlot(Kernel') /\ Moved(Kernel, Kernel')
    BY <1>8, PauseMoves
  <1> QED
    BY <1>2, <1>3, <1>4, <1>5, <1>6, <1>7, <1>8, Steps

LEMMA InitOneSlot == Init => OneSlot(Kernel) /\ A!CInit
  <1> SUFFICES ASSUME Init  PROVE OneSlot(Kernel) /\ A!CInit
    OBVIOUS
  <1>1. Open(Kernel) = {}
    BY FreeSemType DEF Init, Open, Kernel
  <1>2. OneSlot(Kernel) /\ \A i \in Sems : ~Named(Kernel, i)
    BY <1>1 DEF OneSlot, Named
  <1>3. slot(Kernel) = NULL
    BY <1>1 DEF slot, find_sem
  <1> QED
    BY <1>2, <1>3 DEF A!CInit, Available, Holders, Line

\* A name used as a lock is a counting semaphore, whoever dies when: every step
\* of the tables of semaphore.c is a step of CountingSemaphore or changes
\* nothing that the users of the name see.
THEOREM NamedIsCounting == Disciplined => (Spec => ImplementsCounting)
  <1> SUFFICES ASSUME Disciplined  PROVE Spec => ImplementsCounting
    OBVIOUS
  <1> DEFINE Inv == Books(Kernel) /\ OneSlot(Kernel)
  <1>1. Init => Inv /\ A!CInit
    BY InitBooks, InitOneSlot
  <1>2. TypeOK /\ Inv /\ [Next]_vars => Inv'
    BY StepBooks, StepMoves, TypeIsTables
  <1>3. TypeOK /\ Inv /\ [Next]_vars =>
           [A!CNext]_<<Available(Kernel), Holders(Kernel), Line(Kernel)>>
    BY StepMoves, MovedIs, TypeIsTables
  <1>4. Spec => []TypeOK
    BY SemaphoresTypeCorrect
  <1> QED
    BY <1>1, <1>2, <1>3, <1>4, PTL DEF Spec, ImplementsCounting, A!CSpec
=============================================================================
