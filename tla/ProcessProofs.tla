--------------------------- MODULE ProcessProofs ---------------------------
(***************************************************************************)
(* For every number of slots, every priority range and whatever programs   *)
(* pass to the syscalls: the scheduler's data are type correct and         *)
(* consistent (Structure) in every reachable state.  For programs that do  *)
(* not misuse the syscalls: pids and stacks have one owner, the CPU        *)
(* returns to a process that is RUNNING, the keyboard wakes a sleeper, and *)
(* waitpid waits for a live child until it dies.  Last, test_processes     *)
(* over this kernel: its book of processes is what the table has.          *)
(*                                                                         *)
(* The argument is about the record of globals that a handler transforms.  *)
(* Consistent(k) is what every C function preserves, in the middle of a    *)
(* handler too; Inv is what holds between handlers.  Life and LifeInv do   *)
(* the same for the second part, Scene and AtWork for test_processes.      *)
(***************************************************************************)
EXTENDS MCProcess, TestProcs, FiniteSetTheorems, WellFoundedInduction, TLAPS

KType(k) ==
    k \in [table : [Slots -> PCB], queue : Seq(Slots), idx : Nat,
           current : Slots, kbd : Slots \cup {NULL}, force_switch : BOOLEAN]

Alive(k) == {s \in Slots \ {idle_pcb} : k.table[s].state # "FREE"}

\* The queue lists the members of L once each.
Lists(k, L) ==
    /\ \A i \in 1..Len(k.queue) : k.queue[i] \in L
    /\ \A s \in L : \E i \in 1..Len(k.queue) : k.queue[i] = s
    /\ \A i, j \in 1..Len(k.queue) : k.queue[i] = k.queue[j] => i = j

Sorted(k) ==
    \A i, j \in 1..Len(k.queue) : i <= j =>
        k.table[k.queue[j]].priority <= k.table[k.queue[i]].priority

IdxOK(k) == k.idx = 0 \/ k.idx < Len(k.queue)

-----------------------------------------------------------------------------
(***************************************************************************)
(* Facts about the queue operations.                                       *)
(***************************************************************************)

\* A non-empty set of naturals has a least element: what the first match of a
\* loop over queue positions or slots is.
LEMMA MinExists ==
  ASSUME NEW T \in SUBSET Nat, T # {}
  PROVE  \E n \in T : \A m \in T : n <= m
<1> DEFINE R == OpToRel(<, Nat)
<1>1. IsWellFoundedOn(R, Nat)
  BY NatLessThanWellFounded, Zenon
<1>2. PICK n \in T : \A m \in T : ~(<<m, n>> \in R)
  <2> HIDE DEF R
  <2> QED BY <1>1, WFMin
<1>3. \A m \in T : ~(m < n)
  BY <1>2 DEF OpToRel
<1> QED BY <1>3

\* scheduler_add's full-queue test never drops a process: a queue without
\* repetitions that holds neither idle nor p has room for p.
LEMMA QueueHasRoom ==
  ASSUME NEW k, KType(k), NEW p \in Slots \ {idle_pcb}, NEW L \in SUBSET (Slots \ {idle_pcb, p}),
         Lists(k, L)
  PROVE  Len(k.queue) < MAX_PROCESSES
<1> USE ConstantsAssumption
<1> DEFINE n == Len(k.queue)
           S == 1..n
           T == 1..(MAX_PROCESSES - 1)
           f == [i \in S |-> k.queue[i]]
<1>1. n \in Nat /\ k.queue \in Seq(Slots)
  BY DEF KType
<1>2. SUFFICES ASSUME n >= MAX_PROCESSES PROVE FALSE
  BY <1>1
<1>3. f \in [S -> T]
  BY <1>1 DEF Lists, Slots, idle_pcb
<1>4. /\ IsFiniteSet(S) /\ Cardinality(S) = n
      /\ IsFiniteSet(T) /\ Cardinality(T) = MAX_PROCESSES - 1
  <2>1. \A m \in Nat : IsFiniteSet(1..m) /\ Cardinality(1..m) = m
    <3> TAKE m \in Nat
    <3>1. 1 \in Int /\ m \in Int
      OBVIOUS
    <3>2. IsFiniteSet(1..m) /\ Cardinality(1..m) = IF 1 > m THEN 0 ELSE m - 1 + 1
      BY <3>1, FS_Interval
    <3> QED BY <3>2
  <2> QED BY <2>1, <1>1
<1>5. Cardinality(T) < Cardinality(S)
  BY <1>1, <1>2, <1>4
<1>6. \E i, j \in S : i # j /\ f[i] = f[j]
  <2> HIDE DEF f, S, T
  <2> QED BY <1>3, <1>4, <1>5, FS_PigeonHole
<1> QED BY <1>6 DEF Lists

\* The place scheduler_add finds separates the priorities that are at least
\* p's from the lower ones.
LEMMA InsertPos ==
  ASSUME NEW k, KType(k), NEW p \in Slots, Sorted(k)
  PROVE  /\ insert_pos(k, p) \in 1..(Len(k.queue) + 1)
         /\ \A i \in 1..Len(k.queue) :
              /\ i < insert_pos(k, p) => k.table[k.queue[i]].priority >= k.table[p].priority
              /\ i >= insert_pos(k, p) => k.table[k.queue[i]].priority < k.table[p].priority
<1> USE ConstantsAssumption
<1> DEFINE n == Len(k.queue)
           lower == {i \in 1..n : k.table[k.queue[i]].priority < k.table[p].priority}
<1>1. n \in Nat /\ k.queue \in Seq(Slots) /\ k.table \in [Slots -> PCB]
  BY DEF KType
<1>2. \A s \in Slots : k.table[s].priority \in Nat
  BY <1>1 DEF PCB, Priorities, MIN_PRIORITY
<1>3. CASE lower = {}
  BY <1>1, <1>2, <1>3 DEF insert_pos
<1>4. CASE lower # {}
  <2>1. lower \in SUBSET Nat
    BY <1>1
  <2>2. \E i \in lower : \A j \in lower : i <= j
    <3> HIDE DEF lower
    <3> QED BY <1>4, <2>1, MinExists
  <2>3. insert_pos(k, p) \in lower /\ \A j \in lower : insert_pos(k, p) <= j
    BY <1>4, <2>2, Zenon DEF insert_pos
  <2>4. ASSUME NEW i \in 1..n, i >= insert_pos(k, p)
        PROVE  k.table[k.queue[i]].priority < k.table[p].priority
    <3>1. k.table[k.queue[i]].priority <= k.table[k.queue[insert_pos(k, p)]].priority
      BY <2>3, <2>4 DEF Sorted
    <3> QED BY <3>1, <2>3, <1>1, <1>2
  <2>5. ASSUME NEW i \in 1..n, i < insert_pos(k, p)
        PROVE  k.table[k.queue[i]].priority >= k.table[p].priority
    BY <2>3, <2>5, <1>1, <1>2
  <2> QED BY <2>3, <2>4, <2>5, <1>1
<1> QED BY <1>3, <1>4

\* scheduler_add inserts p: nobody is lost or doubled, the order and the index
\* stay right.
LEMMA AddKeepsQueue ==
  ASSUME NEW k, KType(k), NEW p \in Slots \ {idle_pcb},
         NEW L \in SUBSET (Slots \ {idle_pcb, p}),
         Lists(k, L), Sorted(k), IdxOK(k)
  PROVE  LET r == scheduler_add(k, p)
         IN  /\ KType(r) /\ Lists(r, L \cup {p}) /\ Sorted(r) /\ IdxOK(r)
             /\ r = [k EXCEPT !.queue = r.queue, !.idx = r.idx]
<1> USE ConstantsAssumption
<1> DEFINE n == Len(k.queue)
           pos == insert_pos(k, p)
           q == [i \in 1..(n + 1) |-> IF i < pos THEN k.queue[i]
                                      ELSE IF i = pos THEN p ELSE k.queue[i - 1]]
           ix == IF pos - 1 <= k.idx /\ n + 1 > 1 THEN k.idx + 1 ELSE k.idx
           r == [k EXCEPT !.queue = q, !.idx = ix]
<1>1. n \in Nat /\ k.queue \in Seq(Slots) /\ k.table \in [Slots -> PCB] /\ k.idx \in Nat
  BY DEF KType
<1>2. \A s \in Slots : k.table[s].priority \in Nat
  <2>1. \A s \in Slots : k.table[s].priority \in Priorities
    BY <1>1 DEF PCB
  <2> QED BY <2>1 DEF Priorities, MIN_PRIORITY
<1>3. /\ pos \in 1..(n + 1)
      /\ \A i \in 1..n :
           /\ i < pos => k.table[k.queue[i]].priority >= k.table[p].priority
           /\ i >= pos => k.table[k.queue[i]].priority < k.table[p].priority
  BY InsertPos
<1>4. scheduler_add(k, p) = r
  <2>1. n < MAX_PROCESSES
    BY QueueHasRoom
  <2> QED BY <2>1, <1>1 DEF scheduler_add
<1> HIDE DEF pos
<1>5. /\ \A i \in 1..(n + 1) : /\ i < pos => i \in 1..n /\ q[i] = k.queue[i]
                               /\ i = pos => q[i] = p
                               /\ i > pos => i - 1 \in 1..n /\ q[i] = k.queue[i - 1]
      /\ q \in [1..(n + 1) -> Slots]
  BY <1>1, <1>3
<1>6. ix \in Nat /\ (ix = 0 \/ ix < n + 1)
  BY <1>1, <1>3 DEF IdxOK
<1> HIDE DEF q, ix
<1>7. q \in Seq(Slots) /\ Len(q) = n + 1
  <2>1. n + 1 \in Nat
    BY <1>1
  <2> QED BY <2>1, <1>5
<1>8. r.queue = q /\ r.idx = ix /\ r.table = k.table /\ KType(r)
  BY <1>6, <1>7 DEF KType
<1> HIDE DEF r
<1>9. Lists(r, L \cup {p})
  <2>1. \A i \in 1..(n + 1) : q[i] \in L \cup {p}
    BY <1>1, <1>3, <1>5 DEF Lists
  <2>2. ASSUME NEW s \in L \cup {p} PROVE \E i \in 1..(n + 1) : q[i] = s
    <3>1. CASE s = p
      BY <3>1, <1>1, <1>3, <1>5
    <3>2. CASE s \in L
      <4>1. PICK i \in 1..n : k.queue[i] = s
        BY <3>2 DEF Lists
      <4>2. CASE i < pos
        BY <4>1, <4>2, <1>1, <1>3, <1>5
      <4>3. CASE i >= pos
        <5>1. i + 1 \in 1..(n + 1) /\ q[i + 1] = s
          BY <4>1, <4>3, <1>1, <1>3, <1>5
        <5> QED BY <5>1
      <4> QED BY <4>2, <4>3, <1>1, <1>3
    <3> QED BY <3>1, <3>2
  <2>3. ASSUME NEW i \in 1..(n + 1), NEW j \in 1..(n + 1), q[i] = q[j]
        PROVE  i = j
    <3>1. \A a \in 1..n : k.queue[a] # p
      BY DEF Lists
    <3>2. \A a, b \in 1..n : k.queue[a] = k.queue[b] => a = b
      BY DEF Lists
    <3>3. CASE i = pos \/ j = pos
      <4>1. \A a \in 1..(n + 1) : q[a] = p => a = pos
        <5> SUFFICES ASSUME NEW a \in 1..(n + 1), a # pos PROVE q[a] # p
          OBVIOUS
        <5>1. CASE a < pos
          BY <5>1, <3>1, <1>5
        <5>2. CASE a > pos
          BY <5>2, <3>1, <1>5
        <5> QED BY <5>1, <5>2, <1>3
      <4>2. q[pos] = p
        BY <1>3, <1>5
      <4> QED BY <2>3, <3>3, <4>1, <4>2
    <3>4. CASE i < pos /\ j < pos
      BY <2>3, <3>2, <3>4, <1>1, <1>3, <1>5
    <3>5. CASE i > pos /\ j > pos
      <4>1. /\ i - 1 \in 1..n /\ q[i] = k.queue[i - 1]
            /\ j - 1 \in 1..n /\ q[j] = k.queue[j - 1]
        BY <3>5, <1>5
      <4>2. i - 1 = j - 1
        BY <2>3, <3>2, <4>1
      <4> QED BY <4>2, <1>1
    <3>6. CASE i < pos /\ j > pos
      <4>1. /\ i \in 1..n /\ q[i] = k.queue[i]
            /\ j - 1 \in 1..n /\ q[j] = k.queue[j - 1]
        BY <3>6, <1>5
      <4>2. i = j - 1
        BY <2>3, <3>2, <4>1
      <4> QED BY <4>2, <3>6, <1>1, <1>3
    <3>7. CASE i > pos /\ j < pos
      <4>1. /\ i - 1 \in 1..n /\ q[i] = k.queue[i - 1]
            /\ j \in 1..n /\ q[j] = k.queue[j]
        BY <3>7, <1>5
      <4>2. i - 1 = j
        BY <2>3, <3>2, <4>1
      <4> QED BY <4>2, <3>7, <1>1, <1>3
    <3> QED BY <3>3, <3>4, <3>5, <3>6, <3>7, <1>3
  <2> QED BY <2>1, <2>2, <2>3, <1>7, <1>8 DEF Lists
<1>10. Sorted(r)
  <2> SUFFICES ASSUME NEW i \in 1..(n + 1), NEW j \in 1..(n + 1), i <= j
               PROVE  k.table[q[j]].priority <= k.table[q[i]].priority
    BY <1>7, <1>8 DEF Sorted
  <2>0. \A a, b \in 1..n : a <= b =>
            k.table[k.queue[b]].priority <= k.table[k.queue[a]].priority
    BY DEF Sorted
  <2>1. CASE j < pos
    <3>1. i < pos
      BY <2>1, <1>3
    <3>2. i \in 1..n /\ j \in 1..n /\ q[i] = k.queue[i] /\ q[j] = k.queue[j]
      BY <2>1, <3>1, <1>5
    <3> QED BY <2>0, <3>2
  <2>2. CASE j = pos
    <3>1. k.table[p].priority \in Nat /\ q[j] = p
      BY <2>2, <1>2, <1>5
    <3>2. CASE i = pos
      BY <2>2, <3>1, <3>2
    <3>3. CASE i < pos
      <4>1. q[i] = k.queue[i] /\ k.table[k.queue[i]].priority >= k.table[p].priority
        BY <3>3, <1>3, <1>5
      <4> QED BY <3>1, <4>1
    <3> QED BY <2>2, <3>2, <3>3, <1>3
  <2>3. CASE j > pos /\ i < pos
    <3>1. i \in 1..n /\ j - 1 \in 1..n /\ i <= j - 1
      BY <2>3, <1>1, <1>3, <1>5
    <3> QED BY <3>1, <2>0, <2>3, <1>5
  <2>4. CASE j > pos /\ i = pos
    <3>1. j - 1 \in 1..n /\ j - 1 >= pos
      BY <2>4, <1>1, <1>3, <1>5
    <3>2. k.table[k.queue[j - 1]].priority < k.table[p].priority
      BY <3>1, <1>3
    <3>3. q[j] = k.queue[j - 1] /\ q[i] = p /\ q[j] \in Slots
      BY <2>4, <1>5
    <3>4. k.table[q[j]].priority \in Nat /\ k.table[p].priority \in Nat
      BY <3>3, <1>2
    <3> QED BY <3>2, <3>3, <3>4
  <2>5. CASE j > pos /\ i > pos
    <3>1. i - 1 \in 1..n /\ j - 1 \in 1..n /\ i - 1 <= j - 1
      BY <2>5, <1>1, <1>3, <1>5
    <3>2. q[i] = k.queue[i - 1] /\ q[j] = k.queue[j - 1]
      BY <2>5, <1>5
    <3> QED BY ONLY <3>1, <3>2, <2>0
  <2>6. \/ j < pos
        \/ j = pos
        \/ j > pos /\ i < pos
        \/ j > pos /\ i = pos
        \/ j > pos /\ i > pos
    <3>1. i \in Int /\ j \in Int /\ pos \in Int
      BY <1>1, <1>3
    <3> QED BY ONLY <3>1
  <2> QED BY ONLY <2>1, <2>2, <2>3, <2>4, <2>5, <2>6
<1>11. IdxOK(r)
  BY <1>1, <1>6, <1>7, <1>8 DEF IdxOK
<1>12. r = [k EXCEPT !.queue = r.queue, !.idx = r.idx]
  BY <1>8 DEF r
<1> QED BY <1>4, <1>8, <1>9, <1>10, <1>11, <1>12

\* scheduler_remove takes p out; a queue that p's new priority has disturbed at
\* p only (process_nice) is sorted again.
LEMMA RemoveKeepsQueue ==
  ASSUME NEW k, KType(k), NEW p \in Slots, NEW L \in SUBSET Slots,
         Lists(k, L), IdxOK(k),
         \A i, j \in 1..Len(k.queue) :
            i <= j /\ k.queue[i] # p /\ k.queue[j] # p =>
            k.table[k.queue[j]].priority <= k.table[k.queue[i]].priority
  PROVE  LET r == scheduler_remove(k, p)
         IN  /\ KType(r) /\ Lists(r, L \ {p}) /\ Sorted(r) /\ IdxOK(r)
             /\ r = [k EXCEPT !.queue = r.queue, !.idx = r.idx]
<1> USE ConstantsAssumption
<1> DEFINE n == Len(k.queue)
           found == {i \in 1..n : k.queue[i] = p}
<1>1. n \in Nat /\ k.queue \in Seq(Slots) /\ k.table \in [Slots -> PCB] /\ k.idx \in Nat
  BY DEF KType
<1>2. CASE found = {}
  <2>1. scheduler_remove(k, p) = k
    BY <1>2 DEF scheduler_remove
  <2>2. \A i \in 1..n : k.queue[i] # p
    BY <1>2
  <2>3. Sorted(k)
    BY <2>2 DEF Sorted
  <2>4. Lists(k, L \ {p})
    BY <2>2 DEF Lists
  <2>5. k = [k EXCEPT !.queue = k.queue, !.idx = k.idx]
    BY DEF KType
  <2> QED BY <2>1, <2>3, <2>4, <2>5
<1>3. CASE found # {}
  <2> DEFINE pos == CHOOSE i \in found : \A j \in found : i <= j
             q == [i \in 1..(n - 1) |-> IF i < pos THEN k.queue[i] ELSE k.queue[i + 1]]
             ix == IF k.idx >= n - 1 /\ n - 1 > 0 THEN n - 2
                   ELSE IF pos - 1 < k.idx THEN k.idx - 1 ELSE k.idx
             r == [k EXCEPT !.queue = q, !.idx = ix]
  <2>1. pos \in found
    <3>1. found \in SUBSET Nat
      BY <1>1
    <3>2. \E i \in found : \A j \in found : i <= j
      <4> HIDE DEF found
      <4> QED BY <1>3, <3>1, MinExists
    <3> QED BY <3>2
  <2>2. scheduler_remove(k, p) = r
    BY <1>3 DEF scheduler_remove
  <2> HIDE DEF pos
  <2>3. /\ pos \in 1..n /\ k.queue[pos] = p
        /\ \A i \in 1..n : k.queue[i] = p => i = pos
    BY <2>1 DEF Lists
  <2>4. /\ \A i \in 1..(n - 1) : /\ i < pos => i \in 1..n /\ q[i] = k.queue[i]
                                 /\ i >= pos => i + 1 \in 1..n /\ q[i] = k.queue[i + 1]
        /\ q \in [1..(n - 1) -> Slots]
    BY <2>3, <1>1
  <2>5. ix \in Nat /\ (ix = 0 \/ ix < n - 1)
    BY <2>3, <1>1 DEF IdxOK
  <2> HIDE DEF q, ix
  <2>6. q \in Seq(Slots) /\ Len(q) = n - 1
    <3>1. n - 1 \in Nat
      BY <2>3, <1>1
    <3> QED BY <3>1, <2>4
  <2>7. r.queue = q /\ r.idx = ix /\ r.table = k.table /\ KType(r)
    BY <2>5, <2>6 DEF KType
  <2>8. r = [k EXCEPT !.queue = r.queue, !.idx = r.idx]
    BY <2>7
  <2> HIDE DEF r
  \* Position i of the new queue is position at(i) of the old one.
  <2> DEFINE at(i) == IF i < pos THEN i ELSE i + 1
  <2>9. \A i \in 1..(n - 1) : /\ at(i) \in 1..n /\ at(i) # pos
                              /\ q[i] = k.queue[at(i)]
                              /\ q[i] # p
    BY <2>3, <2>4, <1>1
  <2>10. \A i, j \in 1..(n - 1) : /\ i <= j => at(i) <= at(j)
                                 /\ at(i) = at(j) => i = j
    BY <2>3, <1>1
  <2>11. Lists(r, L \ {p})
    <3>1. \A i \in 1..(n - 1) : q[i] \in L \ {p}
      BY <2>9 DEF Lists
    <3>2. ASSUME NEW s \in L \ {p} PROVE \E i \in 1..(n - 1) : q[i] = s
      <4>1. PICK i \in 1..n : k.queue[i] = s
        BY DEF Lists
      <4>2. CASE i < pos
        BY <4>1, <4>2, <2>3, <2>4, <1>1
      <4>3. CASE i > pos
        <5>1. i - 1 \in 1..(n - 1) /\ i - 1 >= pos /\ (i - 1) + 1 = i
          BY <4>3, <2>3, <1>1
        <5>2. q[i - 1] = s
          BY <5>1, <4>1, <2>4
        <5> QED BY <5>1, <5>2
      <4>4. i # pos
        BY <4>1, <2>3
      <4> QED BY <4>2, <4>3, <4>4, <2>3
    <3>3. ASSUME NEW i \in 1..(n - 1), NEW j \in 1..(n - 1), q[i] = q[j]
          PROVE  i = j
      <4>1. at(i) = at(j)
        <5> HIDE DEF at
        <5> QED BY <3>3, <2>9 DEF Lists
      <4> HIDE DEF at
      <4> QED BY <4>1, <2>10
    <3> QED BY <3>1, <3>2, <3>3, <2>6, <2>7 DEF Lists
  <2>12. Sorted(r)
    <3> SUFFICES ASSUME NEW i \in 1..(n - 1), NEW j \in 1..(n - 1), i <= j
                 PROVE  k.table[q[j]].priority <= k.table[q[i]].priority
      BY <2>6, <2>7 DEF Sorted
    <3>1. at(i) \in 1..n /\ at(j) \in 1..n /\ at(i) <= at(j)
      BY <2>3, <1>1
    <3> HIDE DEF at
    <3>2. q[i] = k.queue[at(i)] /\ q[j] = k.queue[at(j)] /\ q[i] # p /\ q[j] # p
      BY <2>9
    <3> QED BY <3>1, <3>2
  <2>13. IdxOK(r)
    BY <2>5, <2>6, <2>7 DEF IdxOK
  <2> QED BY <2>2, <2>7, <2>8, <2>11, <2>12, <2>13
<1> QED BY <1>2, <1>3

-----------------------------------------------------------------------------
(***************************************************************************)
(* What holds in the middle of a handler, and when it may return.          *)
(***************************************************************************)

FullQuantum(k, s) == k.table[s].remaining_quanta \in 1..k.table[s].priority

QueueOK(k) == Lists(k, Alive(k)) /\ Sorted(k) /\ IdxOK(k)

Consistent(k) ==
    /\ KType(k)
    /\ QueueOK(k)
    /\ \A s \in Slots : k.table[s].state \in {"RUNNING", "ZOMBIE"} => s = k.current
    /\ \A s \in Slots : s # k.current => FullQuantum(k, s)
    /\ k.table[k.current].state # "FREE"
    /\ k.kbd # NULL => k.table[k.kbd].state # "FREE"
    /\ k.table[k.current].state = "ZOMBIE" => k.kbd # k.current /\ k.force_switch

\* The handler may return to k.current.
Settled(k) ==
    /\ Consistent(k)
    /\ k.table[k.current].state # "ZOMBIE"
    /\ FullQuantum(k, k.current)

\* The inductive invariant.
Inv == Settled(Kernel) /\ next_pid \in Nat

\* A table that frees nobody, revives nobody and changes no priority keeps the
\* queue right.
LEMMA SameLiveSameQueue ==
  ASSUME NEW k, NEW r, KType(k), KType(r), QueueOK(k),
         r.queue = k.queue, r.idx = k.idx,
         \A s \in Slots : /\ r.table[s].priority = k.table[s].priority
                          /\ r.table[s].state = "FREE" <=> k.table[s].state = "FREE"
  PROVE  QueueOK(r)
<1>1. Alive(r) = Alive(k)
  BY DEF Alive
<1>2. \A i \in 1..Len(k.queue) : k.queue[i] \in Slots
  BY DEF KType
<1>3. Sorted(r)
  BY <1>2 DEF Sorted, QueueOK
<1> QED BY <1>1, <1>3 DEF QueueOK, Lists, IdxOK

\* Effective priorities are bounded integers.
LEMMA EffBounded ==
  ASSUME NEW p \in PCB
  PROVE  eff(p) \in Int /\ eff(p) <= MAX_PRIORITY + 1 + MAX_AGING_BONUS
<1> USE ConstantsAssumption
<1>1. p.wait_ticks \in Nat /\ p.priority \in Nat /\ p.priority <= MAX_PRIORITY
  <2>1. MAX_WAIT \in Nat
    BY DEF MAX_WAIT
  <2> QED BY <2>1 DEF PCB, Priorities, MIN_PRIORITY
<1>2. (p.wait_ticks \div AGING_INTERVAL) \in Int
  BY <1>1
<1>3. aging_bonus(p) \in Int /\ aging_bonus(p) <= MAX_AGING_BONUS
  BY <1>2 DEF aging_bonus
<1> QED BY <1>1, <1>3 DEF eff

\* When somebody is READY there are candidates, and next_position is the one
\* whose turn comes first.
LEMMA NextPosition ==
  ASSUME NEW k, KType(k), QueueOK(k), ReadyPositions(k) # {}
  PROVE  /\ HighestReady(k) # {}
         /\ Candidates(k) \subseteq ReadyPositions(k)
         /\ next_position(k) \in Candidates(k)
         /\ \A j \in Candidates(k) : turn(k, next_position(k)) <= turn(k, j)
<1> USE ConstantsAssumption
<1> DEFINE n == Len(k.queue)
           e(i) == eff(k.table[k.queue[i]])
           B == MAX_PRIORITY + 1 + MAX_AGING_BONUS
<1>1. n \in Nat /\ k.queue \in Seq(Slots) /\ k.table \in [Slots -> PCB] /\ k.idx \in Nat
  BY DEF KType
<1>2. ReadyPositions(k) \subseteq 1..n
  BY DEF ReadyPositions
<1>3. \A i \in ReadyPositions(k) : e(i) \in Int /\ e(i) <= B
  <2> TAKE i \in ReadyPositions(k)
  <2>1. k.table[k.queue[i]] \in PCB
    BY <1>1, <1>2
  <2> QED BY <2>1, EffBounded
<1>4. HighestReady(k) # {}
  <2> DEFINE T == {B - e(i) : i \in ReadyPositions(k)}
  <2>1. T \in SUBSET Nat /\ T # {}
    <3> HIDE DEF e
    <3> QED BY <1>3
  <2>2. PICK m \in T : \A x \in T : m <= x
    <3> HIDE DEF T
    <3> QED BY <2>1, MinExists
  <2>3. PICK i \in ReadyPositions(k) : m = B - e(i)
    BY <2>2
  <2>4. \A j \in ReadyPositions(k) : e(j) <= e(i)
    <3> TAKE j \in ReadyPositions(k)
    <3>1. B - e(i) <= B - e(j)
      BY <2>2, <2>3
    <3> HIDE DEF e
    <3> QED BY <3>1, <1>3
  <2> QED BY <2>3, <2>4 DEF HighestReady
<1>5. Candidates(k) # {} /\ Candidates(k) \subseteq ReadyPositions(k)
  BY <1>4 DEF Candidates, HighestReady
<1>6. \A i \in Candidates(k) : turn(k, i) \in Nat
  BY <1>1, <1>2, <1>5 DEF turn, QueueOK, IdxOK
<1>7. \E i \in Candidates(k) : \A j \in Candidates(k) : turn(k, i) <= turn(k, j)
  <2> DEFINE T == {turn(k, i) : i \in Candidates(k)}
  <2>1. T \in SUBSET Nat /\ T # {}
    BY <1>5, <1>6
  <2>2. PICK m \in T : \A x \in T : m <= x
    <3> HIDE DEF T
    <3> QED BY <2>1, MinExists
  <2> QED BY <2>2
<1> QED BY <1>4, <1>5, <1>7 DEF next_position

\* scheduler_next_ready returns a READY process of the queue, or idle, and an
\* index inside the queue.
LEMMA NextReady ==
  ASSUME NEW k, KType(k), QueueOK(k)
  PROVE  LET c == scheduler_next_ready(k)
         IN  /\ c.next \in Slots
             /\ c.idx \in Nat
             /\ c.idx = 0 \/ c.idx < Len(k.queue)
             /\ c.next = idle_pcb \/ (k.table[c.next].state = "READY"
                                       /\ c.next # idle_pcb)
<1> USE ConstantsAssumption
<1> DEFINE n == Len(k.queue)
<1>1. n \in Nat /\ k.queue \in Seq(Slots) /\ k.table \in [Slots -> PCB] /\ k.idx \in Nat
  BY DEF KType
<1>2. CASE ReadyPositions(k) = {}
  BY <1>1, <1>2 DEF scheduler_next_ready, QueueOK, IdxOK, Slots, idle_pcb
<1>3. CASE ReadyPositions(k) # {}
  <2>1. next_position(k) \in ReadyPositions(k)
    BY <1>3, NextPosition
  <2>2. /\ next_position(k) \in 1..n
        /\ k.table[k.queue[next_position(k)]].state = "READY"
        /\ k.queue[next_position(k)] \in Slots \ {idle_pcb}
    BY <1>1, <2>1 DEF ReadyPositions, QueueOK, Lists, Alive
  <2> QED BY <1>1, <1>3, <2>2 DEF scheduler_next_ready
<1> QED BY <1>2, <1>3

\* An index that goes around at most once.
LEMMA WrapsOnce ==
  ASSUME NEW x \in Nat, NEW L \in Nat, L > 0, x < 2 * L
  PROVE  x % L = IF x < L THEN x ELSE x - L
<1>1. CASE x < L
  BY <1>1
<1>2. CASE ~(x < L)
  <2>1. x - L \in 0..(L - 1)
    BY <1>2
  <2>2. x % L = (x - L) % L
    BY <2>1
  <2>3. (x - L) % L = x - L
    BY <2>1
  <2> QED BY <2>2, <2>3, <1>2
<1> QED BY <1>1, <1>2

\* Position i is visited at its turn, and at no other visit.
LEMMA VisitedAtTurn ==
  ASSUME NEW k, KType(k), QueueOK(k), NEW i \in 1..Len(k.queue)
  PROVE  /\ turn(k, i) \in 1..Len(k.queue)
         /\ Visit(k)[turn(k, i)] = i
         /\ \A n \in 1..Len(k.queue) : Visit(k)[n] = i => n = turn(k, i)
<1> DEFINE L == Len(k.queue)
<1>1. L \in Nat /\ L > 0 /\ k.idx \in Nat /\ k.idx < L
  BY DEF KType, QueueOK, IdxOK
<1>2. \A n \in 1..L : (k.idx + n) % L = IF k.idx + n < L THEN k.idx + n ELSE (k.idx + n) - L
  <2> HIDE DEF L
  <2> TAKE n \in 1..L
  <2>1. k.idx + n \in Nat /\ k.idx + n < 2 * L
    BY <1>1
  <2> QED BY <1>1, <2>1, WrapsOnce
<1>3. \A n \in 1..L : Visit(k)[n] = IF k.idx + n < L THEN k.idx + n + 1 ELSE k.idx + n - L + 1
  <2> TAKE n \in 1..L
  <2>1. Visit(k)[n] = ((k.idx + n) % L) + 1
    BY ONLY n \in 1..L DEF Visit, L
  <2> HIDE DEF L
  <2> DEFINE x == (k.idx + n) % L
  <2>2. x = IF k.idx + n < L THEN k.idx + n ELSE (k.idx + n) - L
    BY ONLY <1>2, n \in 1..L
  <2>3. Visit(k)[n] = x + 1
    BY ONLY <2>1
  <2> HIDE DEF x
  <2> QED BY ONLY <1>1, <2>2, <2>3, n \in 1..L
<1>4. turn(k, i) = IF i - 1 > k.idx THEN i - 1 - k.idx ELSE i - 1 - k.idx + L
  BY DEF turn
<1> HIDE DEF L
<1>5. i \in 1..L
  BY DEF L
<1>6. turn(k, i) \in 1..L
  BY <1>1, <1>4, <1>5
<1>7. Visit(k)[turn(k, i)] = i
  <2> DEFINE n == turn(k, i)
  <2>1. Visit(k)[n] = IF k.idx + n < L THEN k.idx + n + 1 ELSE k.idx + n - L + 1
    BY <1>3, <1>6
  <2> QED BY <2>1, <1>1, <1>4, <1>5
<1>8. \A n \in 1..L : Visit(k)[n] = i => n = turn(k, i)
  <2> TAKE n \in 1..L
  <2> DEFINE x == k.idx
             v == Visit(k)[n]
             d == turn(k, i)
  <2>1. v = IF x + n < L THEN x + n + 1 ELSE x + n - L + 1
    BY <1>3
  <2>2. d = IF i - 1 > x THEN i - 1 - x ELSE i - 1 - x + L
    BY <1>4
  <2>3. L \in Nat /\ x \in Nat /\ x < L /\ i \in 1..L /\ n \in 1..L
    BY <1>1, <1>5
  <2> HIDE DEF x, v, d
  <2>4. v = i => n = d
    BY ONLY <2>1, <2>2, <2>3
  <2> QED BY ONLY <2>4 DEF v, d
<1> QED BY <1>6, <1>7, <1>8 DEF L

\* The process that scheduler_next_ready returns is the first match of its two
\* passes.
LEMMA NextIsFirst ==
  ASSUME NEW k, KType(k), QueueOK(k)
  PROVE  FirstInTurn(k, scheduler_next_ready(k).next)
<1> DEFINE ready == ReadyPositions(k)
           highest == HighestReady(k)
           front == {i \in highest : k.table[k.queue[i]].foreground}
           p == scheduler_next_ready(k).next
<1>1. ready \subseteq 1..Len(k.queue) /\ highest \subseteq ready /\ front \subseteq highest
  BY DEF ReadyPositions, HighestReady
<1>2. ASSUME NEW W \in SUBSET (1..Len(k.queue)) PROVE Matches(k, W) # {} <=> W # {}
  <2>1. ASSUME NEW i \in W PROVE turn(k, i) \in Matches(k, W)
    BY <2>1, VisitedAtTurn DEF Matches
  <2> QED BY <2>1 DEF Matches
<1>3. CASE ready = {}
  <2>1. Matches(k, front) = {} /\ Matches(k, highest) = {}
    BY <1>3, <1>1 DEF Matches
  <2>2. p = idle_pcb
    BY <1>3 DEF scheduler_next_ready
  <2> QED BY <2>1, <2>2 DEF FirstInTurn, ReadyPositions, HighestReady
<1>4. CASE ready # {}
  <2> DEFINE i == next_position(k)
             W == Candidates(k)
  <2>1. /\ highest # {} /\ W \subseteq ready /\ i \in W
        /\ \A j \in W : turn(k, i) <= turn(k, j)
    BY <1>4, NextPosition
  <2>2. p = k.queue[i]
    BY <1>4 DEF scheduler_next_ready
  <2>3. turn(k, i) \in Matches(k, W) /\ Visit(k)[turn(k, i)] = i
    <3>1. i \in 1..Len(k.queue)
      BY <2>1, <1>1
    <3>2. turn(k, i) \in 1..Len(k.queue) /\ Visit(k)[turn(k, i)] = i
      BY <3>1, VisitedAtTurn
    <3> HIDE DEF i
    <3> QED BY ONLY <2>1, <3>2 DEF Matches
  <2>4. \A m \in Matches(k, W) : turn(k, i) <= m
    <3> TAKE m \in Matches(k, W)
    <3> DEFINE j == Visit(k)[m]
    <3>1. m \in 1..Len(k.queue) /\ j \in W
      BY ONLY m \in Matches(k, W) DEF Matches
    <3>2. j \in 1..Len(k.queue) /\ turn(k, i) <= turn(k, j)
      BY <2>1, <1>1, <3>1
    <3> HIDE DEF j
    <3>3. \A l \in 1..Len(k.queue) : Visit(k)[l] = j => l = turn(k, j)
      BY <3>2, VisitedAtTurn
    <3>4. m = turn(k, j)
      BY ONLY <3>1, <3>3 DEF j
    <3> QED BY ONLY <3>2, <3>4
  <2>5. ReturnsFirst(k, W, p)
    BY <2>2, <2>3, <2>4 DEF ReturnsFirst
  <2>6. CASE front # {}
    <3>1. W = front /\ Matches(k, front) # {}
      BY <2>6, <1>1, <1>2 DEF Candidates
    <3> QED BY <3>1, <2>5, Zenon DEF FirstInTurn, ReadyPositions, HighestReady
  <2>7. CASE front = {}
    <3>1. W = highest /\ Matches(k, front) = {} /\ Matches(k, highest) # {}
      BY <2>7, <2>1, <1>1, <1>2 DEF Candidates
    <3> QED BY <3>1, <2>5, Zenon DEF FirstInTurn, ReadyPositions, HighestReady
  <2> QED BY <2>6, <2>7, Zenon
<1> QED BY <1>3, <1>4, Zenon

LEMMA FreePCBType == FreePCB \in PCB /\ MAX_WAIT \in Nat
<1> USE ConstantsAssumption
<1>1. MAX_WAIT \in Nat
  BY DEF MAX_WAIT
<1> QED BY <1>1 DEF FreePCB, PCB, Priorities, MIN_PRIORITY, States

\* What Set leaves alone.
LEMMA SetFields ==
  ASSUME NEW k, KType(k), NEW s \in Slots, NEW p \in PCB
  PROVE  /\ KType(Set(k, s, p))
         /\ Set(k, s, p).table[s] = p
         /\ \A t \in Slots \ {s} : Set(k, s, p).table[t] = k.table[t]
         /\ Set(k, s, p).queue = k.queue /\ Set(k, s, p).idx = k.idx
         /\ Set(k, s, p).current = k.current /\ Set(k, s, p).kbd = k.kbd
         /\ Set(k, s, p).force_switch = k.force_switch
BY DEF Set, KType

\* Reaping: a ZOMBIE that leaves the CPU is out of the queue when its slot is
\* FREE again, whatever scheduler_next_ready has done to the index.
LEMMA ReapKeepsQueue ==
  ASSUME NEW k, Consistent(k), k.table[k.current].state # "RUNNING",
         FullQuantum(k, k.current)
  PROVE  LET a == reap(k)
         IN  /\ KType(a) /\ QueueOK(a)
             /\ a.current = k.current /\ a.kbd = k.kbd
             /\ \A s \in Slots : /\ a.table[s].state \notin {"RUNNING", "ZOMBIE"}
                                 /\ FullQuantum(a, s)
                                 /\ k.table[s].state = "READY" => a.table[s].state = "READY"
             /\ a.kbd # NULL => a.table[a.kbd].state # "FREE"
<1> USE ConstantsAssumption
<1>1. KType(k) /\ QueueOK(k) /\ k.current \in Slots /\ k.table \in [Slots -> PCB]
  BY DEF Consistent, KType
<1>2. CASE k.table[k.current].state # "ZOMBIE"
  BY <1>1, <1>2 DEF reap, Consistent, FullQuantum
<1>3. CASE k.table[k.current].state = "ZOMBIE"
  <2> DEFINE r == scheduler_remove(k, k.current)
             a == Set(r, k.current, FreePCB)
  <2>1. reap(k) = a
    BY <1>3 DEF reap
  <2>2. Alive(k) \in SUBSET Slots /\ Lists(k, Alive(k)) /\ IdxOK(k) /\ Sorted(k)
    BY <1>1 DEF Alive, QueueOK
  <2>3. /\ KType(r) /\ Lists(r, Alive(k) \ {k.current}) /\ Sorted(r) /\ IdxOK(r)
        /\ r = [k EXCEPT !.queue = r.queue, !.idx = r.idx]
    <3>1. \A i, j \in 1..Len(k.queue) :
            i <= j /\ k.queue[i] # k.current /\ k.queue[j] # k.current =>
            k.table[k.queue[j]].priority <= k.table[k.queue[i]].priority
      BY <2>2 DEF Sorted
    <3> QED BY <1>1, <2>2, <3>1, RemoveKeepsQueue, Zenon
  <2> HIDE DEF r
  <2>4. r.table = k.table /\ r.current = k.current /\ r.kbd = k.kbd
    BY <2>3, <1>1 DEF KType
  <2>5. /\ KType(a) /\ a.table[k.current] = FreePCB
        /\ \A t \in Slots \ {k.current} : a.table[t] = k.table[t]
        /\ a.queue = r.queue /\ a.idx = r.idx
        /\ a.current = k.current /\ a.kbd = k.kbd
    <3>1. FreePCB \in PCB
      BY FreePCBType
    <3>2. KType(r) /\ k.current \in Slots
      BY <1>1, <2>3
    <3>3. /\ KType(a) /\ a.table[k.current] = FreePCB
          /\ \A t \in Slots \ {k.current} : a.table[t] = r.table[t]
          /\ a.queue = r.queue /\ a.idx = r.idx
          /\ a.current = r.current /\ a.kbd = r.kbd
      BY ONLY <3>1, <3>2, SetFields
    <3> QED BY ONLY <3>3, <2>4
  <2> HIDE DEF a
  <2>6. Alive(a) = Alive(k) \ {k.current}
    BY <2>5 DEF Alive, FreePCB
  <2>7. QueueOK(a)
    <3>1. \A i \in 1..Len(r.queue) : r.queue[i] \in Slots \ {k.current}
      BY <2>2, <2>3 DEF Lists
    <3>2. \A i \in 1..Len(r.queue) : a.table[r.queue[i]] = r.table[r.queue[i]]
      BY <2>4, <2>5, <3>1
    <3>3. Sorted(a)
      BY ONLY <2>3, <2>5, <3>2 DEF Sorted
    <3> QED BY <2>3, <2>5, <2>6, <3>3 DEF QueueOK, Lists, IdxOK
  <2>8. \A s \in Slots : /\ a.table[s].state \notin {"RUNNING", "ZOMBIE"}
                         /\ FullQuantum(a, s)
                         /\ k.table[s].state = "READY" => a.table[s].state = "READY"
    BY <1>3, <2>5 DEF Consistent, FullQuantum, FreePCB, MIN_PRIORITY
  <2>9. a.kbd # NULL => a.table[a.kbd].state # "FREE"
    BY <1>1, <1>3, <2>5 DEF Consistent, KType
  <2> QED BY <2>1, <2>5, <2>7, <2>8, <2>9
<1> QED BY <1>2, <1>3

\* After the switch the handler may return: the process chosen is RUNNING and
\* the only one, and nothing is left of a ZOMBIE.
LEMMA DispatchSettles ==
  ASSUME NEW k, Consistent(k), k.table[k.current].state # "RUNNING",
         FullQuantum(k, k.current)
  PROVE  Settled(dispatch(k, scheduler_next_ready(k)))
<1> USE ConstantsAssumption
<1> DEFINE c == scheduler_next_ready(k)
           j == [k EXCEPT !.idx = c.idx]
           a == reap(j)
           p == [a.table[c.next] EXCEPT !.wait_ticks = 0, !.state = "RUNNING"]
           b == Set(a, c.next, p)
           d == [b EXCEPT !.current = c.next, !.force_switch = FALSE]
<1>1. KType(k) /\ QueueOK(k)
  BY DEF Consistent
<1>2. /\ c.next \in Slots
      /\ c.idx \in Nat
      /\ c.idx = 0 \/ c.idx < Len(k.queue)
      /\ c.next = idle_pcb \/ (k.table[c.next].state = "READY" /\ c.next # idle_pcb)
  BY <1>1, NextReady
<1>3. dispatch(k, c) = d
  BY DEF dispatch
<1> HIDE DEF c
<1>4. /\ KType(j) /\ j.table = k.table /\ j.queue = k.queue /\ j.idx = c.idx
      /\ j.current = k.current /\ j.kbd = k.kbd /\ j.force_switch = k.force_switch
  BY <1>1, <1>2 DEF KType
<1> HIDE DEF j
<1>5. Consistent(j) /\ FullQuantum(j, j.current) /\ j.table[j.current].state # "RUNNING"
  <2>1. QueueOK(j)
    BY <1>1, <1>2, <1>4 DEF QueueOK, Lists, Sorted, IdxOK, Alive
  <2> QED BY <2>1, <1>4 DEF Consistent, FullQuantum
<1>6. /\ KType(a) /\ QueueOK(a)
      /\ a.current = k.current /\ a.kbd = k.kbd
      /\ \A s \in Slots : /\ a.table[s].state \notin {"RUNNING", "ZOMBIE"}
                          /\ FullQuantum(a, s)
                          /\ k.table[s].state = "READY" => a.table[s].state = "READY"
      /\ a.kbd # NULL => a.table[a.kbd].state # "FREE"
  BY <1>4, <1>5, ReapKeepsQueue
<1> HIDE DEF a
<1>7. /\ p \in PCB /\ p.state = "RUNNING" /\ p.priority = a.table[c.next].priority
      /\ p.remaining_quanta = a.table[c.next].remaining_quanta
  <2>1. a.table[c.next] \in PCB
    BY <1>2, <1>6 DEF KType
  <2>2. 0 \in 0..MAX_WAIT /\ "RUNNING" \in States
    BY FreePCBType DEF States
  <2> QED BY ONLY <2>1, <2>2 DEF p, PCB
<1> HIDE DEF p
<1>8. /\ KType(b) /\ b.table[c.next] = p
      /\ \A t \in Slots \ {c.next} : b.table[t] = a.table[t]
      /\ b.queue = a.queue /\ b.idx = a.idx /\ b.kbd = a.kbd
  BY <1>2, <1>6, <1>7, SetFields
<1> HIDE DEF b
<1>9. /\ KType(d) /\ d.table = b.table /\ d.queue = a.queue /\ d.idx = a.idx
      /\ d.kbd = a.kbd /\ d.current = c.next
  BY <1>2, <1>8 DEF KType
<1> HIDE DEF d
<1>10. QueueOK(d)
  <2>1. Alive(d) = Alive(a)
    BY <1>2, <1>6, <1>7, <1>8, <1>9 DEF Alive
  <2>2. \A s \in Slots : d.table[s].priority = a.table[s].priority
    BY <1>7, <1>8, <1>9
  <2>3. \A i \in 1..Len(a.queue) : a.queue[i] \in Slots
    BY <1>6 DEF KType
  <2>4. Sorted(d)
    BY <1>6, <1>9, <2>2, <2>3 DEF QueueOK, Sorted
  <2> QED BY <1>6, <1>9, <2>1, <2>4 DEF QueueOK, Lists, IdxOK
<1>11. \A s \in Slots : FullQuantum(d, s)
  BY <1>6, <1>7, <1>8, <1>9 DEF FullQuantum
<1>12. \A s \in Slots : d.table[s].state \in {"RUNNING", "ZOMBIE"} => s = d.current
  BY <1>6, <1>8, <1>9
<1>13. d.table[d.current].state = "RUNNING"
  BY <1>2, <1>7, <1>8, <1>9
<1>14. d.kbd # NULL => d.table[d.kbd].state # "FREE"
  BY <1>6, <1>7, <1>8, <1>9 DEF KType
<1>15. Settled(d)
  BY <1>2, <1>9, <1>10, <1>11, <1>12, <1>13, <1>14 DEF Settled, Consistent
<1> QED BY <1>3, <1>15 DEF c

-----------------------------------------------------------------------------
(***************************************************************************)
(* The C functions preserve Returnable.                                    *)
(***************************************************************************)

\* What a syscall leaves for the tail of its handler: force_switch is set
\* whenever the current process is a ZOMBIE.
Returnable(k) == Consistent(k) /\ FullQuantum(k, k.current)

\* Writing a PCB that keeps priority and life.
LEMMA UpdateConsistent ==
  ASSUME NEW k, Consistent(k), NEW s \in Slots, NEW p \in PCB,
         p.priority = k.table[s].priority,
         s # k.current => p.remaining_quanta \in 1..p.priority,
         p.state # "FREE", k.table[s].state # "FREE",
         p.state \in {"RUNNING", "ZOMBIE"} => s = k.current,
         p.state = "ZOMBIE" => k.kbd # s /\ k.force_switch
  PROVE  Consistent(Set(k, s, p))
<1> DEFINE r == Set(k, s, p)
<1>1. KType(k)
  BY DEF Consistent
<1>2. /\ KType(r) /\ r.table[s] = p
      /\ \A t \in Slots \ {s} : r.table[t] = k.table[t]
      /\ r.queue = k.queue /\ r.idx = k.idx /\ r.current = k.current
      /\ r.kbd = k.kbd /\ r.force_switch = k.force_switch
  BY ONLY <1>1, SetFields, s \in Slots, p \in PCB
<1> HIDE DEF r
<1>3. QueueOK(r)
  <2>1. \A t \in Slots : /\ r.table[t].priority = k.table[t].priority
                         /\ r.table[t].state = "FREE" <=> k.table[t].state = "FREE"
    BY <1>2
  <2>2. QueueOK(k)
    BY DEF Consistent
  <2> QED BY ONLY <1>1, <1>2, <2>1, <2>2, SameLiveSameQueue
<1>4. \A t \in Slots : t # r.current => FullQuantum(r, t)
  BY <1>2 DEF Consistent, FullQuantum
<1>5. \A t \in Slots : r.table[t].state \in {"RUNNING", "ZOMBIE"} => t = r.current
  BY <1>2 DEF Consistent
<1>6. /\ r.table[r.current].state # "FREE"
      /\ r.kbd # NULL => r.table[r.kbd].state # "FREE"
  BY <1>1, <1>2 DEF Consistent, KType
<1>7. r.table[r.current].state = "ZOMBIE" => r.kbd # r.current /\ r.force_switch
  BY <1>1, <1>2 DEF Consistent, KType
<1> QED BY <1>1, <1>2, <1>3, <1>4, <1>5, <1>6, <1>7 DEF Consistent, r

\* Writing a PCB that keeps priority, quantum and life.
LEMMA UpdateReturnable ==
  ASSUME NEW k, Returnable(k), NEW s \in Slots, NEW p \in PCB,
         p.priority = k.table[s].priority,
         p.remaining_quanta = k.table[s].remaining_quanta,
         p.state # "FREE", k.table[s].state # "FREE",
         p.state \in {"RUNNING", "ZOMBIE"} => s = k.current,
         p.state = "ZOMBIE" => k.kbd # s /\ k.force_switch
  PROVE  Returnable(Set(k, s, p))
<1>1. Consistent(k) /\ KType(k) /\ \A t \in Slots : FullQuantum(k, t)
  BY DEF Returnable, Consistent
<1>2. s # k.current => p.remaining_quanta \in 1..p.priority
  BY <1>1 DEF FullQuantum
<1>3. Consistent(Set(k, s, p))
  BY <1>1, <1>2, UpdateConsistent
<1>4. /\ Set(k, s, p).table[s] = p
      /\ \A t \in Slots \ {s} : Set(k, s, p).table[t] = k.table[t]
      /\ Set(k, s, p).current = k.current
  BY ONLY <1>1, SetFields, s \in Slots, p \in PCB
<1>5. FullQuantum(Set(k, s, p), Set(k, s, p).current)
  <2>1. k.current \in Slots
    BY <1>1 DEF KType
  <2> QED BY <1>1, <1>4, <2>1 DEF FullQuantum
<1> QED BY <1>3, <1>5 DEF Returnable

\* The process that leaves the CPU is not RUNNING and has a fresh quantum.
LEMMA DemoteReady ==
  ASSUME NEW k, Consistent(k)
  PROVE  /\ Returnable(demote(k))
         /\ demote(k).table[demote(k).current].state # "RUNNING"
<1> USE ConstantsAssumption
<1> DEFINE cur == k.table[k.current]
           p == [cur EXCEPT !.state = IF @ = "RUNNING" THEN "READY" ELSE @,
                            !.remaining_quanta = cur.priority]
<1>1. KType(k) /\ k.current \in Slots /\ cur \in PCB
  BY DEF Consistent, KType
<1>2. /\ p \in PCB /\ p.priority = cur.priority /\ p.remaining_quanta = cur.priority
      /\ p.state = IF cur.state = "RUNNING" THEN "READY" ELSE cur.state
      /\ cur.priority \in 1..MAX_PRIORITY
  <2> DEFINE st == IF cur.state = "RUNNING" THEN "READY" ELSE cur.state
  <2>1. cur.priority \in 1..MAX_PRIORITY /\ cur.priority \in 0..MAX_PRIORITY
    BY <1>1 DEF PCB, Priorities, MIN_PRIORITY
  <2>2. st \in States
    BY <1>1 DEF PCB, States
  <2>3. p = [cur EXCEPT !.state = st, !.remaining_quanta = cur.priority]
    OBVIOUS
  <2> HIDE DEF st, cur, p
  <2>4. p \in PCB /\ p.priority = cur.priority /\ p.remaining_quanta = cur.priority
        /\ p.state = st
    BY ONLY <1>1, <2>1, <2>2, <2>3 DEF PCB
  <2> QED BY <2>1, <2>4 DEF st
<1>3. demote(k) = Set(k, k.current, p)
  BY DEF demote
<1> HIDE DEF p
<1>4. /\ p.state # "FREE" /\ cur.state # "FREE" /\ p.state # "RUNNING"
      /\ p.state = "ZOMBIE" => k.kbd # k.current /\ k.force_switch
  BY <1>2 DEF Consistent
<1>5. Consistent(Set(k, k.current, p))
  BY <1>1, <1>2, <1>4, UpdateConsistent
<1>6. /\ Set(k, k.current, p).table[k.current] = p
      /\ Set(k, k.current, p).current = k.current
  BY <1>1, <1>2, SetFields
<1> QED BY <1>2, <1>3, <1>4, <1>5, <1>6 DEF Returnable, FullQuantum

\* Storing a settled record.
LEMMA StoreSettled ==
  ASSUME NEW k, Settled(k), Store(k)
  PROVE  Settled(Kernel)'
<1> DEFINE r == Kernel'
<1>1. KType(k)
  BY DEF Settled, Consistent
<1>2. /\ r.table = k.table /\ r.queue = k.queue /\ r.idx = k.idx
      /\ r.current = k.current /\ r.kbd = k.kbd /\ KType(r)
  BY <1>1 DEF Store, Kernel, KType
<1>3. Settled(r)
  <2> HIDE DEF r
  <2>1. QueueOK(r)
    BY <1>2 DEF Settled, Consistent, QueueOK, Lists, Sorted, IdxOK, Alive
  <2> QED BY <1>2, <2>1 DEF Settled, Consistent, FullQuantum
<1> QED BY <1>3

\* scheduler_yield_impl ends in a settled kernel.
LEMMA YieldSettles ==
  ASSUME NEW k, Consistent(k), scheduler_yield_impl(k)
  PROVE  Settled(Kernel)'
<1>1. Store(dispatch(demote(k), scheduler_next_ready(demote(k))))
  BY DEF scheduler_yield_impl, Switch
<1>2. Settled(dispatch(demote(k), scheduler_next_ready(demote(k))))
  BY DemoteReady, DispatchSettles DEF Returnable
<1> QED BY <1>1, <1>2, StoreSettled

\* The tail of the syscall and keyboard handlers.
LEMMA ReturnSettles ==
  ASSUME NEW k, Returnable(k), Return(k)
  PROVE  Settled(Kernel)'
<1>1. CASE k.force_switch
  BY <1>1, YieldSettles DEF Return, Returnable
<1>2. CASE ~k.force_switch
  <2>1. Settled(k)
    BY <1>2 DEF Returnable, Settled, Consistent
  <2>2. Store(k)
    BY <1>2 DEF Return
  <2> QED BY <2>1, <2>2, StoreSettled
<1> QED BY <1>1, <1>2

\* Setting force_switch.
LEMMA FlagReturnable ==
  ASSUME NEW k, Returnable(k), NEW b \in BOOLEAN, k.force_switch => b
  PROVE  Returnable([k EXCEPT !.force_switch = b])
<1> DEFINE r == [k EXCEPT !.force_switch = b]
<1>1. KType(k)
  BY DEF Returnable, Consistent
<1>2. /\ KType(r) /\ r.table = k.table /\ r.queue = k.queue /\ r.idx = k.idx
      /\ r.current = k.current /\ r.kbd = k.kbd /\ r.force_switch = b
  BY <1>1 DEF KType
<1> HIDE DEF r
<1>3. QueueOK(r)
  BY <1>2 DEF Returnable, Consistent, QueueOK, Lists, Sorted, IdxOK, Alive
<1> QED BY <1>2, <1>3 DEF Returnable, Consistent, FullQuantum, r

\* Changing the keyboard driver's pointer.
LEMMA KbdReturnable ==
  ASSUME NEW k, Returnable(k), NEW w \in Slots \cup {NULL},
         w # NULL => k.table[w].state \notin {"FREE", "ZOMBIE"}
  PROVE  Returnable([k EXCEPT !.kbd = w])
<1> DEFINE r == [k EXCEPT !.kbd = w]
<1>1. KType(k)
  BY DEF Returnable, Consistent
<1>2. /\ KType(r) /\ r.table = k.table /\ r.queue = k.queue /\ r.idx = k.idx
      /\ r.current = k.current /\ r.kbd = w /\ r.force_switch = k.force_switch
  BY <1>1 DEF KType
<1> HIDE DEF r
<1>3. QueueOK(r)
  BY <1>2 DEF Returnable, Consistent, QueueOK, Lists, Sorted, IdxOK, Alive
<1>4. k.current # NULL
  BY <1>1 DEF KType, Slots, NULL
<1> QED BY <1>2, <1>3, <1>4 DEF Returnable, Consistent, FullQuantum, r

\* A process found by its pid is in a slot that is not FREE.
LEMMA GetLive ==
  ASSUME NEW k, NEW pid, process_get(k, pid) # NULL
  PROVE  /\ process_get(k, pid) \in Slots
         /\ k.table[process_get(k, pid)].state # "FREE"
<1> DEFINE found == {s \in Slots : k.table[s].pid = pid /\ k.table[s].state # "FREE"}
<1>1. found # {}
  BY DEF process_get
<1>2. found \in SUBSET Nat
  BY ConstantsAssumption DEF Slots
<1>3. \E s \in found : \A t \in found : s <= t
  <2> HIDE DEF found
  <2> QED BY <1>1, <1>2, MinExists
<1>4. process_get(k, pid) = CHOOSE s \in found : \A t \in found : s <= t
  BY <1>1 DEF process_get
<1>5. process_get(k, pid) \in found
  BY <1>3, <1>4
<1> QED BY <1>5

\* Waking blocked processes and aging waiting ones, all at once.
LEMMA RetableReturnable ==
  ASSUME NEW k, Returnable(k), NEW t \in [Slots -> PCB],
         \A s \in Slots : /\ t[s].priority = k.table[s].priority
                          /\ t[s].remaining_quanta = k.table[s].remaining_quanta
                          /\ \/ t[s].state = k.table[s].state
                             \/ k.table[s].state = "BLOCKED" /\ t[s].state = "READY"
  PROVE  Returnable([k EXCEPT !.table = t])
<1> DEFINE r == [k EXCEPT !.table = t]
<1>1. KType(k) /\ QueueOK(k)
  BY DEF Returnable, Consistent
<1>2. /\ KType(r) /\ r.table = t /\ r.queue = k.queue /\ r.idx = k.idx
      /\ r.current = k.current /\ r.kbd = k.kbd /\ r.force_switch = k.force_switch
  BY <1>1 DEF KType
<1> HIDE DEF r
<1>3. QueueOK(r)
  <2>1. \A s \in Slots : /\ r.table[s].priority = k.table[s].priority
                         /\ r.table[s].state = "FREE" <=> k.table[s].state = "FREE"
    BY <1>2
  <2> QED BY ONLY <1>1, <1>2, <2>1, SameLiveSameQueue
<1>4. k.current \in Slots /\ (k.kbd # NULL => k.kbd \in Slots)
  BY <1>1 DEF KType
<1>5. \A s \in Slots : FullQuantum(r, s)
  BY <1>2 DEF Returnable, Consistent, FullQuantum
<1>6. \A s \in Slots : r.table[s].state \in {"RUNNING", "ZOMBIE"} => s = r.current
  BY <1>2 DEF Returnable, Consistent
<1>7. /\ r.table[r.current].state # "FREE"
      /\ r.kbd # NULL => r.table[r.kbd].state # "FREE"
      /\ r.table[r.current].state = "ZOMBIE" => r.kbd # r.current /\ r.force_switch
  BY <1>2, <1>4 DEF Returnable, Consistent
<1> QED BY <1>2, <1>3, <1>4, <1>5, <1>6, <1>7 DEF Returnable, Consistent, r

\* Aging changes wait_ticks only.
LEMMA AgeReturnable ==
  ASSUME NEW k, Returnable(k)
  PROVE  /\ Returnable(age(k)) /\ age(k).current = k.current
         /\ age(k).table[k.current] = k.table[k.current]
<1> DEFINE t == [s \in Slots |->
        IF /\ \E i \in 1..Len(k.queue) : k.queue[i] = s
           /\ s # k.current
           /\ k.table[s].state = "READY"
           /\ k.table[s].wait_ticks < MAX_WAIT
          THEN [k.table[s] EXCEPT !.wait_ticks = @ + 1]
          ELSE k.table[s]]
<1>1. KType(k) /\ k.table \in [Slots -> PCB] /\ k.current \in Slots
  BY DEF Returnable, Consistent, KType
<1>2. age(k) = [k EXCEPT !.table = t]
  BY DEF age
<1>3. ASSUME NEW s \in Slots
      PROVE  /\ t[s] \in PCB
             /\ t[s].priority = k.table[s].priority
             /\ t[s].remaining_quanta = k.table[s].remaining_quanta
             /\ t[s].state = k.table[s].state
  <2>1. CASE t[s] = k.table[s]
    BY <1>1, <2>1
  <2>2. CASE /\ t[s] = [k.table[s] EXCEPT !.wait_ticks = @ + 1]
             /\ k.table[s].wait_ticks < MAX_WAIT
    <3>1. k.table[s] \in PCB /\ MAX_WAIT \in Nat
      BY <1>1, FreePCBType
    <3>2. k.table[s].wait_ticks + 1 \in 0..MAX_WAIT
      BY <3>1, <2>2 DEF PCB
    <3> HIDE DEF t
    <3> QED BY ONLY <3>1, <3>2, <2>2 DEF PCB
  <2> QED BY <2>1, <2>2
<1>4. t \in [Slots -> PCB]
  <2>1. \A s \in Slots : t[s] \in PCB
    BY <1>3
  <2> QED BY <2>1
<1>5. t[k.current] = k.table[k.current]
  BY <1>1
<1> HIDE DEF t
<1>6. Returnable([k EXCEPT !.table = t])
  BY <1>3, <1>4, RetableReturnable
<1> QED BY <1>1, <1>2, <1>5, <1>6 DEF KType

\* A tick leaves the kernel settled, with or without a switch.
LEMMA TickSettles ==
  ASSUME NEW k, Settled(k), scheduler_tick(k)
  PROVE  Settled(Kernel)'
<1> USE ConstantsAssumption
<1> DEFINE a == age(k)
           cur == a.table[a.current]
           q == IF cur.remaining_quanta > 0 THEN cur.remaining_quanta - 1
                ELSE cur.remaining_quanta
           p == [cur EXCEPT !.remaining_quanta = q]
           m == spend(a)
<1>1. Returnable(k)
  BY DEF Settled, Returnable
<1>2. Returnable(a) /\ Consistent(a) /\ FullQuantum(a, a.current) /\ KType(a)
      /\ cur.state # "ZOMBIE"
  BY <1>1, AgeReturnable DEF Returnable, Settled, Consistent
<1>3. \/ cur.state # "RUNNING" /\ Switch(a)
      \/ /\ cur.state = "RUNNING"
         /\ IF m.table[m.current].remaining_quanta > 0
              THEN Store(m) ELSE scheduler_yield_impl(m)
  BY DEF scheduler_tick
<1>4. CASE cur.state # "RUNNING" /\ Switch(a)
  <2>1. Settled(dispatch(a, scheduler_next_ready(a)))
    BY <1>2, <1>4, DispatchSettles
  <2>2. Store(dispatch(a, scheduler_next_ready(a)))
    BY <1>4 DEF Switch
  <2> QED BY <2>1, <2>2, StoreSettled
<1>5. CASE /\ cur.state = "RUNNING"
           /\ IF m.table[m.current].remaining_quanta > 0
                THEN Store(m) ELSE scheduler_yield_impl(m)
  <2>1. a.current \in Slots /\ cur \in PCB /\ m = Set(a, a.current, p)
    BY <1>2 DEF KType, spend
  <2>2. q \in 0..MAX_PRIORITY /\ q <= cur.priority /\ cur.priority \in Nat
    BY <1>2, <2>1 DEF FullQuantum, PCB, Priorities, MIN_PRIORITY
  <2> HIDE DEF q, a
  <2>3. /\ p \in PCB /\ p.priority = cur.priority /\ p.state = cur.state
        /\ p.remaining_quanta = q
    BY ONLY <2>1, <2>2 DEF PCB, p
  <2> HIDE DEF p, m
  <2>4. Consistent(m)
    BY <1>2, <1>5, <2>1, <2>3, UpdateConsistent
  <2>5. m.table[m.current] = p /\ m.current = a.current
    BY <1>2, <2>1, <2>3, SetFields
  <2>6. CASE p.remaining_quanta > 0
    <3>1. Settled(m)
      BY <1>5, <2>2, <2>3, <2>4, <2>5, <2>6 DEF Settled, FullQuantum
    <3> QED BY <1>5, <2>5, <2>6, <3>1, StoreSettled
  <2>7. CASE ~(p.remaining_quanta > 0)
    BY <1>5, <2>4, <2>5, <2>7, YieldSettles
  <2> QED BY <2>6, <2>7
<1> QED BY <1>3, <1>4, <1>5

\* The writes of process.c to a PCB's state.
LEMMA WriteState ==
  ASSUME NEW p \in PCB, NEW st \in States
  PROVE  /\ [p EXCEPT !.state = st] \in PCB
         /\ [p EXCEPT !.state = st].state = st
         /\ [p EXCEPT !.state = st].priority = p.priority
         /\ [p EXCEPT !.state = st].remaining_quanta = p.remaining_quanta
BY FreePCBType DEF PCB, States

\* ... by a wake-up,
LEMMA WriteReady ==
  ASSUME NEW p \in PCB
  PROVE  /\ [p EXCEPT !.state = "READY", !.wait_ticks = 0] \in PCB
         /\ [p EXCEPT !.state = "READY", !.wait_ticks = 0].state = "READY"
         /\ [p EXCEPT !.state = "READY", !.wait_ticks = 0].priority = p.priority
         /\ [p EXCEPT !.state = "READY", !.wait_ticks = 0].remaining_quanta = p.remaining_quanta
<1>1. 0 \in 0..MAX_WAIT /\ "READY" \in States
  BY FreePCBType DEF States
<1> QED BY ONLY <1>1, p \in PCB DEF PCB

\* ... by waitpid,
LEMMA WriteWaiting ==
  ASSUME NEW p \in PCB, NEW w \in Nat
  PROVE  /\ [p EXCEPT !.state = "BLOCKED", !.waiting_for = w] \in PCB
         /\ [p EXCEPT !.state = "BLOCKED", !.waiting_for = w].state = "BLOCKED"
         /\ [p EXCEPT !.state = "BLOCKED", !.waiting_for = w].priority = p.priority
         /\ [p EXCEPT !.state = "BLOCKED", !.waiting_for = w].remaining_quanta = p.remaining_quanta
BY FreePCBType DEF PCB, States

\* ... and by the death of the process waited for.
LEMMA WriteWoken ==
  ASSUME NEW p \in PCB
  PROVE  /\ [p EXCEPT !.waiting_for = 0, !.state = "READY", !.wait_ticks = 0] \in PCB
         /\ [p EXCEPT !.waiting_for = 0, !.state = "READY", !.wait_ticks = 0].state = "READY"
         /\ [p EXCEPT !.waiting_for = 0, !.state = "READY", !.wait_ticks = 0].priority = p.priority
         /\ [p EXCEPT !.waiting_for = 0, !.state = "READY", !.wait_ticks = 0].remaining_quanta = p.remaining_quanta
<1>1. 0 \in 0..MAX_WAIT /\ "READY" \in States
  BY FreePCBType DEF States
<1> QED BY ONLY <1>1, p \in PCB DEF PCB

LEMMA StateNames ==
  "READY" \in States /\ "BLOCKED" \in States /\ "ZOMBIE" \in States
BY DEF States

LEMMA ReturnableTypes ==
  ASSUME NEW k, Returnable(k)
  PROVE  /\ KType(k) /\ k.table \in [Slots -> PCB] /\ k.current \in Slots
         /\ k.force_switch \in BOOLEAN /\ k.kbd \in Slots \cup {NULL}
         /\ k.table[k.current].state # "FREE"
BY DEF Returnable, Consistent, KType

LEMMA BlockReturnable ==
  ASSUME NEW k, Returnable(k), NEW pid
  PROVE  Returnable(process_block(k, pid))
<1> DEFINE s == process_get(k, pid)
           p == [k.table[s] EXCEPT !.state = "BLOCKED"]
           r == Set(k, s, p)
<1>1. CASE s = NULL \/ k.table[s].state \in {"ZOMBIE", "BLOCKED"}
  BY <1>1 DEF process_block
<1>2. CASE ~(s = NULL \/ k.table[s].state \in {"ZOMBIE", "BLOCKED"})
  <2>1. s \in Slots /\ k.table[s].state # "FREE"
    BY <1>2, GetLive
  <2>2. process_block(k, pid) = [r EXCEPT !.force_switch = r.force_switch \/ s = k.current]
    BY <1>2 DEF process_block
  <2> HIDE DEF s
  <2>3. k.table[s] \in PCB
    BY <2>1, ReturnableTypes
  <2>4. /\ p \in PCB /\ p.state = "BLOCKED" /\ p.priority = k.table[s].priority
        /\ p.remaining_quanta = k.table[s].remaining_quanta
    BY ONLY <2>3, StateNames, WriteState
  <2> HIDE DEF p
  <2>5. Returnable(r)
    BY <2>1, <2>4, UpdateReturnable
  <2> HIDE DEF r
  <2>6. r.force_switch \in BOOLEAN
    BY <2>5, ReturnableTypes
  <2> QED BY <2>2, <2>5, <2>6, FlagReturnable
<1> QED BY <1>1, <1>2

LEMMA UnblockReturnable ==
  ASSUME NEW k, Returnable(k), NEW pid
  PROVE  Returnable(process_unblock(k, pid))
<1> DEFINE s == process_get(k, pid)
           p == [k.table[s] EXCEPT !.state = "READY", !.wait_ticks = 0]
           r == Set(k, s, p)
           b == r.force_switch \/ k.table[s].priority > k.table[k.current].priority
<1>1. CASE s = NULL \/ k.table[s].state # "BLOCKED"
  BY <1>1 DEF process_unblock
<1>2. CASE ~(s = NULL \/ k.table[s].state # "BLOCKED")
  <2>1. s \in Slots /\ k.table[s].state # "FREE"
    BY <1>2, GetLive
  <2>2. process_unblock(k, pid) = [r EXCEPT !.force_switch = b]
    BY <1>2 DEF process_unblock
  <2> HIDE DEF s
  <2>3. k.table[s] \in PCB
    BY <2>1, ReturnableTypes
  <2>4. /\ p \in PCB /\ p.state = "READY" /\ p.priority = k.table[s].priority
        /\ p.remaining_quanta = k.table[s].remaining_quanta
    BY ONLY <2>3, WriteReady, Zenon
  <2> HIDE DEF p
  <2>5. Returnable(r)
    BY <2>1, <2>4, UpdateReturnable
  <2>6. b \in BOOLEAN /\ (r.force_switch => b)
    OBVIOUS
  <2> HIDE DEF r, b
  <2> QED BY <2>2, <2>5, <2>6, FlagReturnable
<1> QED BY <1>1, <1>2

\* The processes that a death releases.
LEMMA UnblockAllReturnable ==
  ASSUME NEW k, Returnable(k), NEW woken \in SUBSET Slots
  PROVE  /\ Returnable(unblock_all(k, woken))
         /\ unblock_all(k, woken).current = k.current
         /\ unblock_all(k, woken).queue = k.queue
         /\ unblock_all(k, woken).kbd = k.kbd
         /\ \A s \in Slots \ woken : unblock_all(k, woken).table[s] = k.table[s]
<1> DEFINE blocked == {s \in woken : k.table[s].state = "BLOCKED"}
           t == [s \in Slots |->
                   IF s \in blocked
                     THEN [k.table[s] EXCEPT !.state = "READY", !.wait_ticks = 0]
                     ELSE k.table[s]]
           r == [k EXCEPT !.table = t]
           b == k.force_switch \/ \E s \in blocked :
                  k.table[s].priority > k.table[k.current].priority
<1>1. KType(k) /\ k.table \in [Slots -> PCB] /\ k.force_switch \in BOOLEAN
  BY ReturnableTypes
<1>2. unblock_all(k, woken) = [r EXCEPT !.force_switch = b]
  BY <1>1 DEF unblock_all, KType
<1>3. ASSUME NEW s \in Slots
      PROVE  /\ t[s] \in PCB
             /\ t[s].priority = k.table[s].priority
             /\ t[s].remaining_quanta = k.table[s].remaining_quanta
             /\ \/ t[s].state = k.table[s].state
                \/ k.table[s].state = "BLOCKED" /\ t[s].state = "READY"
  <2>1. k.table[s] \in PCB
    BY <1>1
  <2>2. CASE s \notin blocked
    BY <2>1, <2>2
  <2>3. CASE s \in blocked
    <3>1. t[s] = [k.table[s] EXCEPT !.state = "READY", !.wait_ticks = 0]
      BY <2>3
    <3> HIDE DEF t
    <3>2. /\ t[s] \in PCB /\ t[s].state = "READY" /\ t[s].priority = k.table[s].priority
          /\ t[s].remaining_quanta = k.table[s].remaining_quanta
      BY ONLY <2>1, <3>1, WriteReady, Zenon
    <3> QED BY <2>3, <3>2
  <2> QED BY <2>2, <2>3
<1>4. t \in [Slots -> PCB]
  <2>1. \A s \in Slots : t[s] \in PCB
    BY <1>3, Zenon
  <2> QED BY <2>1, Zenon
<1>5. \A s \in Slots \ woken : t[s] = k.table[s]
  OBVIOUS
<1> HIDE DEF t
<1>6. Returnable(r)
  BY <1>3, <1>4, RetableReturnable
<1>7. /\ r.table = t /\ r.current = k.current /\ r.kbd = k.kbd /\ r.queue = k.queue
      /\ r.force_switch = k.force_switch /\ KType(r)
  BY <1>1, <1>4 DEF KType
<1>8. b \in BOOLEAN /\ (r.force_switch => b)
  BY <1>7
<1> HIDE DEF r, b
<1>9. Returnable([r EXCEPT !.force_switch = b])
  BY <1>6, <1>8, FlagReturnable
<1> QED BY <1>2, <1>5, <1>7, <1>9 DEF KType

LEMMA KbdClearReturnable ==
  ASSUME NEW k, Returnable(k), NEW s \in Slots
  PROVE  /\ Returnable(kbd_clear_waiting(k, s))
         /\ kbd_clear_waiting(k, s).kbd # s
         /\ kbd_clear_waiting(k, s).table = k.table
         /\ kbd_clear_waiting(k, s).current = k.current
         /\ kbd_clear_waiting(k, s).queue = k.queue
<1>1. KType(k) /\ s # NULL
  BY ReturnableTypes DEF Slots, NULL
<1>2. CASE k.kbd = s
  <2>1. kbd_clear_waiting(k, s) = [k EXCEPT !.kbd = NULL]
    BY <1>2 DEF kbd_clear_waiting
  <2>2. Returnable([k EXCEPT !.kbd = NULL])
    BY KbdReturnable
  <2> QED BY <1>1, <2>1, <2>2 DEF KType
<1>3. CASE k.kbd # s
  <2>1. kbd_clear_waiting(k, s) = k
    BY <1>1, <1>3 DEF kbd_clear_waiting, KType
  <2> QED BY <1>3, <2>1
<1> QED BY <1>2, <1>3

\* Only a BLOCKED parent is touched.
LEMMA WakeParentReturnable ==
  ASSUME NEW k, Returnable(k), NEW s \in Slots
  PROVE  /\ Returnable(wake_parent(k, s))
         /\ wake_parent(k, s).current = k.current
         /\ wake_parent(k, s).kbd = k.kbd
         /\ \A t \in Slots : \/ wake_parent(k, s).table[t] = k.table[t]
                             \/ /\ k.table[t].state = "BLOCKED"
                                /\ wake_parent(k, s).table[t].state = "READY"
<1> DEFINE parent == process_get(k, k.table[s].parent_pid)
           p == [k.table[parent] EXCEPT !.waiting_for = 0, !.state = "READY",
                                        !.wait_ticks = 0]
           C == /\ parent # NULL
                /\ k.table[parent].state = "BLOCKED"
                /\ k.table[parent].waiting_for = k.table[s].pid
<1>1. CASE ~C
  BY <1>1 DEF wake_parent
<1>2. CASE C
  <2>1. parent \in Slots
    BY <1>2, GetLive
  <2>2. wake_parent(k, s) = Set(k, parent, p)
    BY <1>2 DEF wake_parent
  <2>3. k.table[parent].state = "BLOCKED"
    BY <1>2
  <2> HIDE DEF parent, C
  <2>4. k.table[parent] \in PCB /\ KType(k)
    BY <2>1, ReturnableTypes
  <2>5. /\ p \in PCB /\ p.state = "READY" /\ p.priority = k.table[parent].priority
        /\ p.remaining_quanta = k.table[parent].remaining_quanta
    BY ONLY <2>4, WriteWoken, Zenon
  <2> HIDE DEF p
  <2>6. Returnable(Set(k, parent, p))
    BY <2>1, <2>3, <2>5, UpdateReturnable
  <2>7. /\ Set(k, parent, p).table[parent] = p
        /\ \A t \in Slots \ {parent} : Set(k, parent, p).table[t] = k.table[t]
        /\ Set(k, parent, p).current = k.current /\ Set(k, parent, p).kbd = k.kbd
    BY <2>1, <2>4, <2>5, SetFields
  <2> DEFINE o == wake_parent(k, s)
  <2>8. o = Set(k, parent, p)
    BY <2>2
  <2> HIDE DEF o
  <2>9. /\ Returnable(o) /\ o.current = k.current /\ o.kbd = k.kbd
        /\ \A t \in Slots : \/ o.table[t] = k.table[t]
                            \/ k.table[t].state = "BLOCKED" /\ o.table[t].state = "READY"
    BY ONLY <2>3, <2>5, <2>6, <2>7, <2>8
  <2> QED BY ONLY <2>9, Zenon DEF o
<1> HIDE DEF C
<1> QED BY <1>1, <1>2, Zenon

\* The current process dies: the handler will switch away from it.
LEMMA MarkZombieReturnable ==
  ASSUME NEW k, Returnable(k), k.kbd # k.current
  PROVE  /\ Returnable(mark_zombie(k))
         /\ \A s \in Slots \ {k.current} : mark_zombie(k).table[s] = k.table[s]
<1> DEFINE f == [k EXCEPT !.force_switch = TRUE]
           p == [k.table[k.current] EXCEPT !.state = "ZOMBIE"]
<1>1. KType(k) /\ k.current \in Slots /\ k.table[k.current] \in PCB
      /\ k.table[k.current].state # "FREE"
  BY ReturnableTypes
<1>2. Returnable(f)
  BY FlagReturnable
<1>3. /\ f.table = k.table /\ f.current = k.current /\ f.kbd = k.kbd
      /\ f.force_switch = TRUE /\ KType(f)
  BY <1>1 DEF KType
<1>4. mark_zombie(k) = Set(f, f.current, p)
  BY <1>1 DEF mark_zombie, Set, KType
<1>5. /\ p \in PCB /\ p.state = "ZOMBIE" /\ p.priority = k.table[k.current].priority
      /\ p.remaining_quanta = k.table[k.current].remaining_quanta
  BY ONLY <1>1, StateNames, WriteState
<1> HIDE DEF f, p
<1>6. Returnable(Set(f, f.current, p))
  BY <1>1, <1>2, <1>3, <1>5, UpdateReturnable
<1>7. \A s \in Slots \ {f.current} : Set(f, f.current, p).table[s] = f.table[s]
  BY <1>1, <1>3, <1>5, SetFields
<1> QED BY <1>3, <1>4, <1>6, <1>7

LEMMA ExitReturnable ==
  ASSUME NEW k, Returnable(k), NEW woken \in SUBSET Slots
  PROVE  Returnable(process_exit(k, woken))
<1> DEFINE a == unblock_all(k, woken)
           b == kbd_clear_waiting(a, k.current)
           c == wake_parent(b, k.current)
<1>1. k.current \in Slots
  BY ReturnableTypes
<1>2. Returnable(a) /\ a.current = k.current
  BY UnblockAllReturnable
<1>3. process_exit(k, woken) = mark_zombie(c)
  BY <1>2 DEF process_exit
<1> HIDE DEF a
<1>4. Returnable(b) /\ b.kbd # k.current /\ b.current = k.current
  BY <1>1, <1>2, KbdClearReturnable
<1> HIDE DEF b
<1>5. Returnable(c) /\ c.kbd # c.current
  BY <1>1, <1>4, WakeParentReturnable
<1> HIDE DEF c
<1> QED BY <1>3, <1>5, MarkZombieReturnable

\* Taking a process that does not run out of the queue and releasing its slot.
LEMMA ReleaseReturnable ==
  ASSUME NEW k, Returnable(k), NEW s \in Slots, s # k.current, k.kbd # s
  PROVE  /\ Returnable(Set(scheduler_remove(k, s), s, FreePCB))
         /\ KType(scheduler_remove(k, s)) /\ scheduler_remove(k, s).current = k.current
<1> DEFINE r == scheduler_remove(k, s)
           a == Set(r, s, FreePCB)
<1>1. Consistent(k) /\ KType(k) /\ k.current \in Slots
  BY ReturnableTypes DEF Returnable
<1>2. Alive(k) \in SUBSET Slots /\ Lists(k, Alive(k)) /\ IdxOK(k) /\ Sorted(k)
  BY <1>1 DEF Consistent, Alive, QueueOK
<1>3. /\ KType(r) /\ Lists(r, Alive(k) \ {s}) /\ Sorted(r) /\ IdxOK(r)
      /\ r = [k EXCEPT !.queue = r.queue, !.idx = r.idx]
  <2>1. \A i, j \in 1..Len(k.queue) :
          i <= j /\ k.queue[i] # s /\ k.queue[j] # s =>
          k.table[k.queue[j]].priority <= k.table[k.queue[i]].priority
    BY <1>2 DEF Sorted
  <2> QED BY <1>1, <1>2, <2>1, RemoveKeepsQueue, Zenon
<1> HIDE DEF r
<1>4. /\ r.table = k.table /\ r.current = k.current /\ r.kbd = k.kbd
      /\ r.force_switch = k.force_switch
  BY <1>1, <1>3 DEF KType
<1>5. /\ KType(a) /\ a.table[s] = FreePCB
      /\ \A t \in Slots \ {s} : a.table[t] = k.table[t]
      /\ a.queue = r.queue /\ a.idx = r.idx
      /\ a.current = k.current /\ a.kbd = k.kbd /\ a.force_switch = k.force_switch
  <2>1. FreePCB \in PCB /\ KType(r)
    BY <1>3, FreePCBType
  <2>2. /\ KType(a) /\ a.table[s] = FreePCB
        /\ \A t \in Slots \ {s} : a.table[t] = r.table[t]
        /\ a.queue = r.queue /\ a.idx = r.idx
        /\ a.current = r.current /\ a.kbd = r.kbd /\ a.force_switch = r.force_switch
    BY ONLY <2>1, s \in Slots, SetFields
  <2> QED BY ONLY <2>2, <1>4
<1> HIDE DEF a
<1>6. QueueOK(a)
  <2>1. Alive(a) = Alive(k) \ {s}
    BY <1>5 DEF Alive, FreePCB
  <2>2. \A i \in 1..Len(r.queue) : r.queue[i] \in Slots \ {s}
    BY <1>2, <1>3 DEF Lists
  <2>3. Sorted(a)
    BY <1>3, <1>4, <1>5, <2>2 DEF Sorted
  <2> QED BY <1>3, <1>5, <2>1, <2>3 DEF QueueOK, Lists, IdxOK
<1>7. /\ \A t \in Slots : a.table[t].state \in {"RUNNING", "ZOMBIE"} => t = a.current
      /\ \A t \in Slots : FullQuantum(a, t)
  BY <1>5 DEF Returnable, Consistent, FullQuantum, FreePCB, MIN_PRIORITY
<1>8. /\ a.table[a.current].state # "FREE"
      /\ a.kbd # NULL => a.table[a.kbd].state # "FREE"
      /\ a.table[a.current].state = "ZOMBIE" => a.kbd # a.current /\ a.force_switch
  BY <1>1, <1>5 DEF Consistent, KType
<1>9. Returnable(a)
  BY <1>1, <1>5, <1>6, <1>7, <1>8 DEF Returnable, Consistent
<1> QED BY <1>3, <1>4, <1>9 DEF a, r

\* Waking others and releasing a slot are independent.
LEMMA WakeAndRelease ==
  ASSUME NEW k, KType(k), NEW s \in Slots, s # k.current,
         NEW woken \in SUBSET (Slots \ {s})
  PROVE  Set(unblock_all(k, woken), s, FreePCB) = unblock_all(Set(k, s, FreePCB), woken)
<1> DEFINE x == Set(unblock_all(k, woken), s, FreePCB)
           f == Set(k, s, FreePCB)
           y == unblock_all(f, woken)
           bk == {t \in woken : k.table[t].state = "BLOCKED"}
           bf == {t \in woken : f.table[t].state = "BLOCKED"}
<1>1. FreePCB \in PCB
  BY FreePCBType
<1>2. /\ f.table[s] = FreePCB /\ f.table = [k.table EXCEPT ![s] = FreePCB]
      /\ \A t \in Slots \ {s} : f.table[t] = k.table[t]
      /\ f.queue = k.queue /\ f.idx = k.idx /\ f.current = k.current /\ f.kbd = k.kbd
      /\ f.force_switch = k.force_switch
      /\ f = [table |-> f.table, queue |-> k.queue, idx |-> k.idx, current |-> k.current,
              kbd |-> k.kbd, force_switch |-> k.force_switch]
  BY <1>1 DEF Set, KType
<1> HIDE DEF f
<1>3. bf = bk
  BY <1>2
<1> DEFINE ft == [t \in Slots |->
                    IF t \in bk THEN [f.table[t] EXCEPT !.state = "READY", !.wait_ticks = 0]
                    ELSE f.table[t]]
           kt == [t \in Slots |->
                    IF t \in bk THEN [k.table[t] EXCEPT !.state = "READY", !.wait_ticks = 0]
                    ELSE k.table[t]]
           fb == k.force_switch \/ \E t \in bk : f.table[t].priority > f.table[k.current].priority
           kb == k.force_switch \/ \E t \in bk : k.table[t].priority > k.table[k.current].priority
<1>4. fb = kb
  <2>1. k.current \in Slots \ {s}
    BY DEF KType
  <2> QED BY <1>2, <2>1
<1>5. ft = [kt EXCEPT ![s] = FreePCB]
  BY <1>2, Zenon
<1>6. y = [table |-> ft, queue |-> k.queue, idx |-> k.idx, current |-> k.current,
           kbd |-> k.kbd, force_switch |-> fb]
  <2>1. y = [f EXCEPT !.table = ft, !.force_switch = fb]
    BY <1>2, <1>3 DEF unblock_all
  <2> HIDE DEF ft, fb, y
  <2> QED BY <2>1, <1>2
<1>7. x = [table |-> [kt EXCEPT ![s] = FreePCB], queue |-> k.queue, idx |-> k.idx,
           current |-> k.current, kbd |-> k.kbd, force_switch |-> kb]
  <2> DEFINE u == unblock_all(k, woken)
  <2>1. u = [k EXCEPT !.table = kt, !.force_switch = kb]
    BY DEF unblock_all, KType
  <2> HIDE DEF kt, kb, u
  <2>2. x = [u EXCEPT !.table = [u.table EXCEPT ![s] = FreePCB]]
    BY DEF Set, u
  <2> HIDE DEF x
  <2> QED BY <2>1, <2>2 DEF KType
<1> HIDE DEF ft, kt, fb, kb
<1> QED BY <1>4, <1>5, <1>6, <1>7 DEF f

\* Whoever is killed, the caller included.
LEMMA KillReturnable ==
  ASSUME NEW k, Returnable(k), NEW s \in Slots,
         NEW sem_woken \in SUBSET (Slots \ {s}), NEW fd_woken \in SUBSET (Slots \ {s})
  PROVE  Returnable(process_kill(k, s, sem_woken, fd_woken))
<1> DEFINE a == unblock_all(k, sem_woken)
           b == kbd_clear_waiting(a, s)
           o == wake_parent(b, s)
<1>1. Returnable(a) /\ a.current = k.current
  BY UnblockAllReturnable
<1>2. process_kill(k, s, sem_woken, fd_woken) =
        IF s = k.current THEN unblock_all(mark_zombie(o), fd_woken)
        ELSE Set(unblock_all(scheduler_remove(o, s), fd_woken), s, FreePCB)
  BY DEF process_kill
<1> HIDE DEF a
<1>3. Returnable(b) /\ b.kbd # s /\ b.current = k.current
  BY <1>1, KbdClearReturnable
<1> HIDE DEF b
<1>4. Returnable(o) /\ o.kbd # s /\ o.current = k.current
  BY <1>3, WakeParentReturnable
<1> HIDE DEF o
<1>5. CASE s = k.current
  <2>1. Returnable(mark_zombie(o))
    BY <1>4, <1>5, MarkZombieReturnable
  <2> QED BY <1>2, <1>5, <2>1, UnblockAllReturnable
<1>6. CASE s # k.current
  <2> DEFINE r == scheduler_remove(o, s)
  <2>1. Returnable(Set(r, s, FreePCB)) /\ KType(r) /\ s # r.current
    BY <1>4, <1>6, ReleaseReturnable
  <2> HIDE DEF r
  <2>2. Set(unblock_all(r, fd_woken), s, FreePCB) = unblock_all(Set(r, s, FreePCB), fd_woken)
    BY <2>1, WakeAndRelease
  <2>3. Returnable(unblock_all(Set(r, s, FreePCB), fd_woken))
    BY <2>1, UnblockAllReturnable
  <2> QED BY <1>2, <1>6, <2>2, <2>3 DEF r
<1> QED BY <1>5, <1>6

\* A record whose queue has been rebuilt for a table with the same live processes.
LEMMA RequeueReturnable ==
  ASSUME NEW k, Returnable(k), NEW r, KType(r), QueueOK(r),
         r.current = k.current, r.kbd = k.kbd, r.force_switch = k.force_switch,
         \A s \in Slots : FullQuantum(r, s),
         \A s \in Slots : \/ r.table[s].state = k.table[s].state
                          \/ k.table[s].state = "FREE" /\ r.table[s].state \in {"READY", "BLOCKED"}
  PROVE  Returnable(r)
<1>1. KType(k) /\ k.current \in Slots /\ (k.kbd # NULL => k.kbd \in Slots)
  BY DEF Returnable, Consistent, KType
<1>2. \A s \in Slots : r.table[s].state \in {"RUNNING", "ZOMBIE"} => s = r.current
  BY DEF Returnable, Consistent
<1>3. /\ r.table[r.current].state # "FREE"
      /\ r.kbd # NULL => r.table[r.kbd].state # "FREE"
      /\ r.table[r.current].state = "ZOMBIE" => r.kbd # r.current /\ r.force_switch
  BY <1>1 DEF Returnable, Consistent
<1> QED BY <1>1, <1>2, <1>3 DEF Returnable, Consistent

\* Entering a live process in a queue that lists the other live ones; idle
\* stays out.
LEMMA EnterQueue ==
  ASSUME NEW k, KType(k), NEW s \in Slots, k.table[s].state # "FREE",
         Lists(k, Alive(k) \ {s}), Sorted(k), IdxOK(k)
  PROVE  LET r == scheduler_add(k, s)
         IN  /\ KType(r) /\ QueueOK(r)
             /\ r.table = k.table /\ r.current = k.current /\ r.kbd = k.kbd
             /\ r.force_switch = k.force_switch
<1> DEFINE r == scheduler_add(k, s)
<1>1. CASE s = idle_pcb
  <2>1. r = k
    BY <1>1 DEF scheduler_add
  <2>2. Alive(k) \ {s} = Alive(k)
    BY <1>1 DEF Alive
  <2> QED BY <2>1, <2>2 DEF QueueOK
<1>2. CASE s # idle_pcb
  <2>1. Alive(k) \ {s} \in SUBSET (Slots \ {idle_pcb, s})
    BY DEF Alive
  <2>2. /\ KType(r) /\ Lists(r, (Alive(k) \ {s}) \cup {s}) /\ Sorted(r) /\ IdxOK(r)
        /\ r = [k EXCEPT !.queue = r.queue, !.idx = r.idx]
    BY <1>2, <2>1, AddKeepsQueue, Zenon
  <2> HIDE DEF r
  <2>3. r.table = k.table /\ r.current = k.current /\ r.kbd = k.kbd
        /\ r.force_switch = k.force_switch
    BY <2>2 DEF KType
  <2>4. Alive(r) = (Alive(k) \ {s}) \cup {s}
    BY <1>2, <2>3 DEF Alive
  <2> QED BY <2>2, <2>3, <2>4 DEF QueueOK, r
<1> QED BY <1>1, <1>2

\* A clamped priority is a priority and a full quantum.
LEMMA ClampType ==
  ASSUME NEW v \in Nat
  PROVE  clamp(v) \in Priorities /\ clamp(v) \in 1..MAX_PRIORITY
BY ConstantsAssumption DEF clamp, Priorities, MIN_PRIORITY

\* A new priority moves the process in the queue.
LEMMA NiceReturnable ==
  ASSUME NEW k, Settled(k), NEW pid, NEW v \in Nat
  PROVE  Returnable(process_nice(k, pid, v))
<1> DEFINE s == process_get(k, pid)
           c == clamp(v)
           p == [k.table[s] EXCEPT !.priority = c, !.wait_ticks = 0, !.remaining_quanta = c]
           d == Set(k, s, p)
           r == scheduler_remove(d, s)
           a == scheduler_add(r, s)
<1>1. Returnable(k)
  BY DEF Settled, Returnable
<1>2. CASE s = NULL
  BY <1>1, <1>2 DEF process_nice
<1>3. CASE s # NULL
  <2>1. s \in Slots /\ k.table[s].state # "FREE"
    BY <1>3, GetLive
  <2>2. k.table[s].state # "ZOMBIE"
    BY <2>1 DEF Settled, Consistent
  <2>3. process_nice(k, pid, v) = a
    BY <1>3, <2>2 DEF process_nice
  <2> HIDE DEF s
  <2>4. KType(k) /\ k.table[s] \in PCB
    BY <1>1, <2>1, ReturnableTypes
  <2>5. c \in Priorities /\ c \in 0..MAX_PRIORITY /\ c \in 1..MAX_PRIORITY /\ c \in 1..c
        /\ 0 \in 0..MAX_WAIT
    BY ClampType, FreePCBType, ConstantsAssumption
  <2> HIDE DEF c
  <2>6. p \in PCB /\ p.priority = c /\ p.remaining_quanta = c /\ p.state = k.table[s].state
    BY ONLY <2>4, <2>5 DEF PCB, p
  <2> HIDE DEF p
  <2>7. /\ KType(d) /\ d.table[s] = p
        /\ \A t \in Slots \ {s} : d.table[t] = k.table[t]
        /\ d.queue = k.queue /\ d.idx = k.idx
        /\ d.current = k.current /\ d.kbd = k.kbd /\ d.force_switch = k.force_switch
    BY ONLY <2>1, <2>4, <2>6, SetFields
  <2> HIDE DEF d
  <2>8. Lists(k, Alive(k)) /\ Sorted(k) /\ IdxOK(k) /\ Alive(k) \in SUBSET Slots
        /\ \A t \in Slots : FullQuantum(k, t)
    BY <1>1 DEF Returnable, Consistent, QueueOK, Alive
  <2>9. /\ KType(r) /\ Lists(r, Alive(k) \ {s}) /\ Sorted(r) /\ IdxOK(r)
        /\ r = [d EXCEPT !.queue = r.queue, !.idx = r.idx]
    <3>1. Lists(d, Alive(k)) /\ IdxOK(d)
      BY <2>7, <2>8 DEF Lists, IdxOK
    <3>2. \A i \in 1..Len(k.queue) : k.queue[i] \in Slots
      BY <2>4 DEF KType
    <3>3. \A i, j \in 1..Len(d.queue) :
            i <= j /\ d.queue[i] # s /\ d.queue[j] # s =>
            d.table[d.queue[j]].priority <= d.table[d.queue[i]].priority
      BY <2>7, <2>8, <3>2 DEF Sorted
    <3> QED BY <2>1, <2>7, <2>8, <3>1, <3>3, RemoveKeepsQueue, Zenon
  <2> HIDE DEF r
  <2>10. r.table = d.table /\ r.current = d.current /\ r.kbd = d.kbd
         /\ r.force_switch = d.force_switch
    BY <2>7, <2>9 DEF KType
  <2>11. Alive(r) = Alive(k) /\ r.table[s].state # "FREE"
    BY <2>1, <2>6, <2>7, <2>10 DEF Alive
  <2>12. /\ KType(a) /\ QueueOK(a) /\ a.table = r.table /\ a.current = r.current
         /\ a.kbd = r.kbd /\ a.force_switch = r.force_switch
    BY <2>1, <2>9, <2>11, EnterQueue
  <2> HIDE DEF a
  <2>13. \A t \in Slots : FullQuantum(a, t) /\ a.table[t].state = k.table[t].state
    BY <2>5, <2>6, <2>7, <2>8, <2>10, <2>12 DEF FullQuantum
  <2>14. Returnable(a)
    BY <1>1, <2>7, <2>10, <2>12, <2>13, RequeueReturnable
  <2> QED BY <2>3, <2>14
<1> QED BY <1>2, <1>3

\* A wait blocks the caller; its ZOMBIE branch, which would free a slot that the
\* queue still lists, is not reached.
LEMMA WaitpidReturnable ==
  ASSUME NEW k, Settled(k), NEW pid \in Nat
  PROVE  Returnable(process_waitpid(k, pid))
<1> DEFINE c == process_get(k, pid)
           p == [k.table[k.current] EXCEPT !.state = "BLOCKED", !.waiting_for = pid]
           r == Set(k, k.current, p)
<1>1. Returnable(k)
  BY DEF Settled, Returnable
<1>2. CASE c = NULL
  BY <1>1, <1>2 DEF process_waitpid
<1>3. CASE c # NULL
  <2>1. c \in Slots
    BY <1>3, GetLive
  <2>2. k.table[c].state # "ZOMBIE"
    BY <2>1 DEF Settled, Consistent
  <2>3. process_waitpid(k, pid) = [r EXCEPT !.force_switch = TRUE]
    BY <1>3, <2>2 DEF process_waitpid
  <2>4. k.current \in Slots /\ k.table[k.current] \in PCB /\ k.table[k.current].state # "FREE"
    BY <1>1, ReturnableTypes
  <2>5. /\ p \in PCB /\ p.state = "BLOCKED" /\ p.priority = k.table[k.current].priority
        /\ p.remaining_quanta = k.table[k.current].remaining_quanta
    BY ONLY <2>4, pid \in Nat, WriteWaiting, Zenon
  <2> HIDE DEF p
  <2>6. Returnable(r)
    BY <1>1, <2>4, <2>5, UpdateReturnable
  <2> HIDE DEF r
  <2> QED BY <2>3, <2>6, FlagReturnable
<1> QED BY <1>2, <1>3

\* A new process in a FREE slot, that of a dead idle process included, enters
\* the queue.
LEMMA CreateReturnable ==
  ASSUME NEW k, Returnable(k), NEW slot \in Slots, k.table[slot].state = "FREE",
         NEW pid \in Nat, NEW fg \in 0..3
  PROVE  Returnable(process_create(k, slot, pid, fg))
<1> DEFINE p == [pid |-> pid, priority |-> DEFAULT_PRIORITY,
                 remaining_quanta |-> DEFAULT_PRIORITY, wait_ticks |-> 0,
                 state |-> IF fg \in {2, 3} THEN "BLOCKED" ELSE "READY",
                 foreground |-> fg # 0,
                 parent_pid |-> k.table[k.current].pid,
                 waiting_for |-> 0, stack |-> TRUE]
           d == Set(k, slot, p)
           a == scheduler_add(d, slot)
<1>1. KType(k) /\ k.table[k.current] \in PCB
  BY ReturnableTypes
<1>2. process_create(k, slot, pid, fg) = a
  BY DEF process_create
<1>3. p \in PCB /\ p.state \in {"READY", "BLOCKED"} /\ p.remaining_quanta \in 1..p.priority
  <2>1. 0 \in 0..MAX_WAIT /\ DEFAULT_PRIORITY \in Priorities
        /\ DEFAULT_PRIORITY \in 0..MAX_PRIORITY /\ DEFAULT_PRIORITY \in 1..DEFAULT_PRIORITY
    BY ConstantsAssumption, FreePCBType DEF Priorities, MIN_PRIORITY
  <2>2. k.table[k.current].pid \in Nat
    BY <1>1 DEF PCB
  <2> QED BY <2>1, <2>2 DEF PCB, States
<1> HIDE DEF p
<1>4. /\ KType(d) /\ d.table[slot] = p
      /\ \A t \in Slots \ {slot} : d.table[t] = k.table[t]
      /\ d.queue = k.queue /\ d.idx = k.idx
      /\ d.current = k.current /\ d.kbd = k.kbd /\ d.force_switch = k.force_switch
  BY ONLY <1>1, <1>3, slot \in Slots, SetFields
<1> HIDE DEF d
<1>5. Lists(k, Alive(k)) /\ Sorted(k) /\ IdxOK(k) /\ \A t \in Slots : FullQuantum(k, t)
  BY DEF Returnable, Consistent, QueueOK
<1>6. Alive(k) = Alive(d) \ {slot}
  BY <1>3, <1>4 DEF Alive
<1>7. Lists(d, Alive(d) \ {slot}) /\ IdxOK(d)
  BY <1>4, <1>5, <1>6 DEF Lists, IdxOK
<1>8. Sorted(d)
  <2>1. \A i \in 1..Len(k.queue) : k.queue[i] \in Slots \ {slot}
    BY <1>5 DEF Lists, Alive
  <2> QED BY <1>4, <1>5, <2>1 DEF Sorted
<1>9. /\ KType(a) /\ QueueOK(a) /\ a.table = d.table /\ a.current = d.current
      /\ a.kbd = d.kbd /\ a.force_switch = d.force_switch
  BY <1>3, <1>4, <1>7, <1>8, EnterQueue
<1> HIDE DEF a
<1>10. \A t \in Slots : /\ FullQuantum(a, t)
                         /\ \/ a.table[t].state = k.table[t].state
                            \/ /\ k.table[t].state = "FREE"
                               /\ a.table[t].state \in {"READY", "BLOCKED"}
  BY <1>3, <1>4, <1>5, <1>9 DEF FullQuantum
<1> QED BY <1>2, <1>4, <1>9, <1>10, RequeueReturnable

\* The state of a live process is set to READY or BLOCKED by hand, as sys_yield,
\* the terminal read and the keyboard driver do.
LEMMA PutReturnable ==
  ASSUME NEW k, Returnable(k), NEW s \in Slots, k.table[s].state # "FREE",
         NEW st \in {"READY", "BLOCKED"}
  PROVE  LET r == Set(k, s, [k.table[s] EXCEPT !.state = st])
         IN  /\ Returnable(r) /\ r.current = k.current
             /\ r.table[s].state = st
<1> DEFINE p == [k.table[s] EXCEPT !.state = st]
<1>1. KType(k) /\ k.table[s] \in PCB
  BY ReturnableTypes
<1>2. /\ p \in PCB /\ p.state = st /\ p.priority = k.table[s].priority
      /\ p.remaining_quanta = k.table[s].remaining_quanta
  BY <1>1, StateNames, WriteState
<1> HIDE DEF p
<1>3. Returnable(Set(k, s, p))
  BY <1>2, UpdateReturnable
<1>4. Set(k, s, p).current = k.current /\ Set(k, s, p).table[s] = p
  BY <1>1, <1>2, SetFields
<1> QED BY <1>2, <1>3, <1>4 DEF p

-----------------------------------------------------------------------------
(***************************************************************************)
(* The invariant.                                                          *)
(***************************************************************************)

\* The state that boot leaves.
LEMMA InitInv == Init => Inv
<1> SUFFICES ASSUME Init PROVE Inv
  OBVIOUS
<1> USE ConstantsAssumption
<1> DEFINE k == Kernel
<1>1. 0 \in Slots /\ 1 \in Slots /\ NULL \notin Slots
  BY DEF Slots, NULL
<1>2. /\ [FreePCB EXCEPT !.pid = IDLE_PID, !.state = "READY", !.remaining_quanta = 1,
                         !.stack = TRUE] \in PCB
      /\ [FreePCB EXCEPT !.pid = SHELL_PID, !.state = "RUNNING",
                         !.priority = DEFAULT_PRIORITY, !.remaining_quanta = DEFAULT_PRIORITY,
                         !.foreground = TRUE, !.stack = TRUE] \in PCB
      /\ FreePCB \in PCB
  <2>1. FreePCB \in PCB
    BY FreePCBType
  <2>2. /\ IDLE_PID \in Nat /\ SHELL_PID \in Nat /\ "READY" \in States /\ "RUNNING" \in States
        /\ 1 \in 0..MAX_PRIORITY /\ DEFAULT_PRIORITY \in 0..MAX_PRIORITY
        /\ DEFAULT_PRIORITY \in Priorities
    BY DEF States, IDLE_PID, SHELL_PID, Priorities, MIN_PRIORITY
  <2> QED BY ONLY <2>1, <2>2 DEF PCB
<1>3. /\ k.table \in [Slots -> PCB]
      /\ k.table[0].state = "READY" /\ k.table[1].state = "RUNNING"
      /\ \A s \in Slots \ {0, 1} : k.table[s].state = "FREE"
  <2> DEFINE idle == [FreePCB EXCEPT !.pid = IDLE_PID, !.state = "READY",
                                     !.remaining_quanta = 1, !.stack = TRUE]
             first == [FreePCB EXCEPT !.pid = SHELL_PID, !.state = "RUNNING",
                         !.priority = DEFAULT_PRIORITY, !.remaining_quanta = DEFAULT_PRIORITY,
                         !.foreground = TRUE, !.stack = TRUE]
  <2>1. k.table = [s \in Slots |-> IF s = 0 THEN idle ELSE IF s = 1 THEN first ELSE FreePCB]
    BY DEF Init, Kernel
  <2>2. idle.state = "READY" /\ first.state = "RUNNING" /\ FreePCB.state = "FREE"
    BY DEF FreePCB
  <2>3. idle \in PCB /\ first \in PCB /\ FreePCB \in PCB
    BY <1>2
  <2> HIDE DEF idle, first, k
  <2> QED BY <1>1, <2>1, <2>2, <2>3
<1>4. \A s \in Slots : FullQuantum(k, s)
  BY <1>2 DEF Init, Kernel, FreePCB, FullQuantum, MIN_PRIORITY
<1>5. k.queue = <<1>> /\ k.idx = 0 /\ k.current = 1 /\ k.kbd = NULL /\ next_pid \in Nat
  BY DEF Init, Kernel, SHELL_PID
<1>6. KType(k)
  <2>1. /\ k.queue \in Seq(Slots) /\ k.idx \in Nat /\ k.current \in Slots
        /\ k.kbd \in Slots \cup {NULL}
    <3> HIDE DEF k
    <3> QED BY <1>1, <1>5
  <2> QED BY ONLY <1>3, <2>1 DEF KType, Kernel, k
<1> HIDE DEF k
<1>7. Alive(k) = {1}
  <2> QED BY ONLY <1>1, <1>3 DEF Alive, idle_pcb
<1>8. Len(k.queue) = 1 /\ k.queue[1] = 1
  BY <1>5
<1>9. QueueOK(k)
  <2>1. k.table[1].priority \in Int
    BY <1>1, <1>3 DEF PCB, Priorities, MIN_PRIORITY
  <2> QED BY <1>5, <1>7, <1>8, <2>1 DEF QueueOK, Lists, Sorted, IdxOK
<1>10. Settled(k)
  <2>1. \A s \in Slots : k.table[s].state \in {"RUNNING", "ZOMBIE"} => s = 1
    BY <1>3
  <2> QED BY ONLY <1>1, <1>5, <1>6, <1>9, <1>3, <1>4, <2>1 DEF Settled, Consistent
<1> QED BY <1>5, <1>10 DEF Inv, k

\* Every handler preserves the invariant.
LEMMA NextInv ==
  ASSUME Inv, [Next]_vars
  PROVE  Inv'
<1> DEFINE k == Kernel
<1>1. /\ Settled(k) /\ Returnable(k) /\ KType(k) /\ next_pid \in Nat
      /\ k.force_switch \in BOOLEAN /\ k.current \in Slots /\ k.table[k.current].state # "FREE"
      /\ k.table[k.current].state # "ZOMBIE"
  BY ReturnableTypes DEF Inv, Settled, Returnable, Consistent
<1>2. /\ k.table = process_table /\ k.current = current_process
      /\ k.kbd = kbd_waiting_process
  BY DEF Kernel
<1>3. \A s \in Slots : Releasable(s) \subseteq SUBSET (Slots \ {s})
  BY DEF Releasable
<1>4. Targets \subseteq Nat
  BY <1>1 DEF Targets
<1>5. ASSUME NEW s \in Slots, Kill(s) PROVE Settled(Kernel)' /\ next_pid' \in Nat
  <2>1. PICK sem_woken \in Releasable(s), fd_woken \in Releasable(s) :
          Return(process_kill(k, s, sem_woken, fd_woken))
    BY <1>5 DEF Kill
  <2> HIDE DEF k
  <2>2. Returnable(process_kill(k, s, sem_woken, fd_woken))
    BY <1>1, <1>3, KillReturnable
  <2> QED BY <1>1, <1>5, <2>1, <2>2, ReturnSettles DEF Kill
<1>6. ASSUME NEW fg \in 0..3, sys_create_process(fg) PROVE Inv'
  <2>1. PICK slot \in Slots : /\ process_table[slot].state = "FREE"
                              /\ Return(process_create(k, slot, next_pid + 1, fg))
    BY <1>6 DEF sys_create_process
  <2>2. k.table[slot].state = "FREE"
    BY <1>2, <2>1
  <2> HIDE DEF k
  <2>3. next_pid + 1 \in Nat
    BY <1>1
  <2>4. Returnable(process_create(k, slot, next_pid + 1, fg))
    BY <1>1, <2>2, <2>3, CreateReturnable
  <2>5. next_pid' \in Nat
    BY <1>6, <2>3 DEF sys_create_process
  <2> QED BY <2>1, <2>4, <2>5, ReturnSettles DEF Inv
<1>7. ASSUME sys_exit PROVE Inv'
  <2>1. PICK woken \in Releasable(current_process) : Return(process_exit(k, woken))
    BY <1>7 DEF sys_exit
  <2>2. woken \in SUBSET Slots
    BY <1>1, <1>2, <1>3
  <2> HIDE DEF k
  <2>3. Returnable(process_exit(k, woken))
    BY <1>1, <2>2, ExitReturnable
  <2> QED BY <1>1, <1>7, <2>1, <2>3, ReturnSettles DEF Inv, sys_exit
<1>8. ASSUME NEW pid \in Targets, sys_kill(pid) PROVE Inv'
  <2>1. process_get(Kernel, pid) \in Slots
    BY <1>8, GetLive DEF sys_kill
  <2> QED BY <1>5, <1>8, <2>1 DEF sys_kill, Inv
<1>9. ASSUME NEW pid \in Targets, NEW v \in NiceArguments, sys_nice(pid, v) PROVE Inv'
  <2>1. Return(process_nice(k, pid, v)) /\ next_pid' = next_pid
    BY <1>9 DEF sys_nice
  <2>2. v \in Nat
    BY ConstantsAssumption
  <2> HIDE DEF k
  <2>3. Returnable(process_nice(k, pid, v))
    BY <1>1, <2>2, NiceReturnable
  <2> QED BY <1>1, <2>1, <2>3, ReturnSettles DEF Inv
<1>10. ASSUME NEW pid \in Targets, sys_block(pid) PROVE Inv'
  <2>1. /\ Return(process_unblock(k, pid)) \/ Return(process_block(k, pid))
        /\ next_pid' = next_pid
    BY <1>10 DEF sys_block
  <2> HIDE DEF k
  <2>2. Returnable(process_unblock(k, pid)) /\ Returnable(process_block(k, pid))
    BY <1>1, UnblockReturnable, BlockReturnable
  <2> QED BY <1>1, <2>1, <2>2, ReturnSettles DEF Inv
<1>11. ASSUME NEW pid \in Targets, sys_unblock(pid) PROVE Inv'
  <2>1. Return(process_unblock(k, pid)) /\ next_pid' = next_pid
    BY <1>11 DEF sys_unblock
  <2> HIDE DEF k
  <2>2. Returnable(process_unblock(k, pid))
    BY <1>1, UnblockReturnable
  <2> QED BY <1>1, <2>1, <2>2, ReturnSettles DEF Inv
<1>12. ASSUME sys_yield PROVE Inv'
  <2> DEFINE r == Set(k, k.current, [k.table[k.current] EXCEPT !.state = "READY"])
  <2>1. Return([r EXCEPT !.force_switch = TRUE]) /\ next_pid' = next_pid
    BY <1>2, <1>12 DEF sys_yield
  <2> HIDE DEF k
  <2>2. Returnable(r)
    BY <1>1, PutReturnable
  <2> HIDE DEF r
  <2>3. Returnable([r EXCEPT !.force_switch = TRUE])
    BY <2>2, FlagReturnable
  <2> QED BY <1>1, <2>1, <2>3, ReturnSettles DEF Inv
<1>13. ASSUME NEW pid \in Targets, sys_waitpid(pid) PROVE Inv'
  <2>1. Return(process_waitpid(k, pid)) /\ next_pid' = next_pid
    BY <1>13 DEF sys_waitpid
  <2>2. pid \in Nat
    BY <1>4
  <2> HIDE DEF k
  <2>3. Returnable(process_waitpid(k, pid))
    BY <1>1, <2>2, WaitpidReturnable
  <2> QED BY <1>1, <2>1, <2>3, ReturnSettles DEF Inv
<1>14. ASSUME sys_read PROVE Inv'
  <2> DEFINE r == Set(k, k.current, [k.table[k.current] EXCEPT !.state = "BLOCKED"])
             w == [r EXCEPT !.kbd = k.current]
             f == [w EXCEPT !.force_switch = TRUE]
  <2>1. Return([r EXCEPT !.kbd = k.current, !.force_switch = TRUE]) /\ next_pid' = next_pid
    BY <1>2, <1>14 DEF sys_read
  <2> HIDE DEF k
  <2>2. Returnable(r) /\ r.table[k.current].state = "BLOCKED"
    BY <1>1, PutReturnable
  <2> HIDE DEF r
  <2>3. Returnable(w)
    BY <1>1, <2>2, KbdReturnable
  <2>4. KType(r)
    BY <2>2, ReturnableTypes
  <2>5. f = [r EXCEPT !.kbd = k.current, !.force_switch = TRUE]
    BY ONLY <2>4 DEF KType, f, w
  <2> HIDE DEF w
  <2>6. Returnable(f)
    BY <2>3, FlagReturnable
  <2> HIDE DEF f
  <2> QED BY <1>1, <2>1, <2>5, <2>6, ReturnSettles DEF Inv
<1>15. ASSUME KeyPress PROVE Inv'
  <2> DEFINE r == Set(k, k.kbd, [k.table[k.kbd] EXCEPT !.state = "READY"])
             w == [r EXCEPT !.kbd = NULL]
  <2>1. Return(w) /\ next_pid' = next_pid /\ k.kbd # NULL
    BY <1>2, <1>15 DEF KeyPress
  <2> HIDE DEF k
  <2>2. k.kbd \in Slots /\ k.table[k.kbd].state # "FREE"
    BY <1>1, <2>1 DEF KType, Returnable, Consistent
  <2>3. Returnable(r)
    BY <1>1, <2>2, PutReturnable
  <2> HIDE DEF r
  <2>4. Returnable(w)
    BY <2>3, KbdReturnable
  <2> HIDE DEF w
  <2> QED BY <1>1, <2>1, <2>4, ReturnSettles DEF Inv
<1>16. ASSUME CtrlC PROVE Inv'
  <2>1. PICK s \in Slots : Kill(s)
    BY <1>16 DEF CtrlC, KillTarget, Foreground
  <2> QED BY <1>5, <2>1 DEF Inv
<1>17. ASSUME Tick PROVE Inv'
  BY <1>1, <1>17, TickSettles DEF Tick, Inv
<1>18. ASSUME UNCHANGED vars PROVE Inv'
  <2>1. Kernel' = Kernel /\ next_pid' = next_pid
    BY <1>18 DEF vars, Kernel
  <2>2. Settled(Kernel')
    BY <1>1, <2>1
  <2> QED BY <1>1, <2>1, <2>2 DEF Inv
<1> QED BY <1>6, <1>7, <1>8, <1>9, <1>10, <1>11, <1>12, <1>13, <1>14, <1>15, <1>16,
           <1>17, <1>18 DEF Next

\* The invariant holds in every reachable state.
THEOREM Invariance == Spec => []Inv
<1>1. Init => Inv
  BY InitInv
<1>2. Inv /\ [Next]_vars => Inv'
  BY NextInv
<1> QED BY <1>1, <1>2, PTL DEF Spec

\* Every global of process.c and scheduler.c keeps its type, whatever programs
\* pass to the syscalls.
THEOREM TypeCorrect == Spec => []TypeOK
<1>1. Inv => TypeOK
  <2> SUFFICES ASSUME Inv PROVE TypeOK
    OBVIOUS
  <2>1. KType(Kernel) /\ next_pid \in Nat
    BY DEF Inv, Settled, Consistent
  <2> QED BY <2>1 DEF KType, Kernel, TypeOK
<1> QED BY <1>1, Invariance, PTL

\* run_queue lists exactly the live processes but idle, once each and in
\* descending priority, queue_idx points into it, nobody but current_process is
\* RUNNING and no ZOMBIE outlives the handler that made it, for any number of
\* slots and priorities and whatever programs pass to the syscalls, the pid of
\* idle included.
THEOREM StructureHolds == Spec => []Structure
<1>1. Inv => Structure
  <2> SUFFICES ASSUME Inv PROVE Structure
    OBVIOUS
  <2> DEFINE k == Kernel
  <2>1. Consistent(k) /\ k.table[k.current].state # "ZOMBIE" /\ FullQuantum(k, k.current)
        /\ QueueOK(k) /\ KType(k)
    BY DEF Inv, Settled, Consistent
  <2>2. k.table = process_table /\ k.current = current_process /\ k.queue = run_queue
        /\ k.idx = queue_idx
    BY DEF Kernel
  <2> HIDE DEF k
  <2>3. QueueHoldsLive
    BY <2>1, <2>2 DEF QueueOK, Lists, Alive, QueueHoldsLive, Queued, Live
  <2>4. QueueSorted /\ IdxInRange
    BY <2>1, <2>2 DEF QueueOK, Sorted, IdxOK, QueueSorted, IdxInRange
  <2>5. OneRunning
    BY <2>1, <2>2 DEF Consistent, OneRunning
  <2>6. QuantumInRange
    BY <2>1, <2>2 DEF Consistent, FullQuantum, QuantumInRange
  <2> QED BY <2>3, <2>4, <2>5, <2>6 DEF Structure
<1> QED BY <1>1, Invariance, PTL

\* scheduler_next_ready is its two passes over the queue: the process that it
\* returns is the first foreground one of the highest effective priority after
\* queue_idx, else the first one of that priority, else idle, for any number of
\* slots and priorities and whatever programs pass to the syscalls.
THEOREM NextIsFirstInTurn == Spec => []ChoiceIsFirstInTurn
<1>1. Inv => ChoiceIsFirstInTurn
  BY NextIsFirst DEF Inv, Settled, Consistent, ChoiceIsFirstInTurn
<1> QED BY <1>1, Invariance, PTL

-----------------------------------------------------------------------------
(***************************************************************************)
(* Owners, sleepers and waiters.  Unlike the queue, these depend on what   *)
(* programs do: idle is left alone ("idle" is not in Misuse), nobody wakes *)
(* a process inside waitpid or a terminal read (Patient), and, for the     *)
(* last part, processes wait for their children only.                      *)
(***************************************************************************)
Patient == "unblock_internal" \notin Misuse

\* A slot that is FREE owns nothing; a live process has a stack and a pid of its
\* own, n being the last one given.
Owners(k, n) ==
    /\ \A s \in Slots :
          IF k.table[s].state = "FREE"
            THEN k.table[s].pid = 0 /\ k.table[s].waiting_for = 0 /\ ~k.table[s].stack
            ELSE k.table[s].pid \in 1..n /\ k.table[s].stack
    /\ \A s, t \in Slots : (k.table[s].state # "FREE" /\ k.table[s].pid = k.table[t].pid)
                              => s = t

\* Idle can always run, and reads nothing.
IdleWaits(k) ==
    /\ k.table[idle_pcb].state \in {"READY", "RUNNING"}
    /\ k.table[idle_pcb].pid = IDLE_PID
    /\ k.table[idle_pcb].waiting_for = 0
    /\ ~k.table[idle_pcb].foreground

Owned(k, n) == /\ Owners(k, n)
               /\ IdleWaits(k)
               /\ k.kbd # NULL => k.table[k.kbd].foreground

\* Who is inside waitpid or a terminal read is BLOCKED, and not in both.
Asleep(k) ==
    /\ \A s \in Slots : k.table[s].waiting_for # 0 => k.table[s].state = "BLOCKED"
    /\ k.kbd # NULL => k.table[k.kbd].state = "BLOCKED" /\ k.table[k.kbd].waiting_for = 0

\* Slot c is the child that s waits for, and it has not died.
ChildOf(k, s, c) ==
    /\ k.table[c].state \notin {"FREE", "ZOMBIE"}
    /\ k.table[c].pid = k.table[s].waiting_for
    /\ k.table[c].parent_pid = k.table[s].pid

Minded(k) == \A s \in Slots : k.table[s].waiting_for # 0 => \E c \in Slots : ChildOf(k, s, c)

Life(k, n) == Owned(k, n) /\ (Patient => Asleep(k)) /\ (Misuse = {} => Minded(k))

\* The handler may return to the current process or switch away from it.
Runnable(k) == Patient => k.force_switch \/ k.table[k.current].state = "RUNNING"

-----------------------------------------------------------------------------
(***************************************************************************)
(* What the C functions do to these fields.                                *)
(***************************************************************************)

\* From p to q nothing changes but the state and the process waited for.
Put(p, q, st, w) ==
    /\ q.pid = p.pid /\ q.parent_pid = p.parent_pid
    /\ q.foreground = p.foreground /\ q.stack = p.stack
    /\ q.state = st /\ q.waiting_for = w

Same(p, q) == Put(p, q, p.state, p.waiting_for)

\* From k to r those of W change their state, and nobody else.
Moved(k, r, W, st) ==
    /\ \A t \in Slots : IF t \in W THEN Put(k.table[t], r.table[t], st, k.table[t].waiting_for)
                        ELSE Same(k.table[t], r.table[t])
    /\ r.kbd = k.kbd

\* Nobody waits for slot s.
Unawaited(k, s) == \A t \in Slots : k.table[t].waiting_for # k.table[s].pid

\* Slot s is released.
Freed(k, r, s) ==
    /\ r.table[s].state = "FREE" /\ r.table[s].pid = 0
    /\ r.table[s].waiting_for = 0 /\ ~r.table[s].stack
    /\ \A t \in Slots \ {s} : Same(k.table[t], r.table[t])
    /\ r.kbd = k.kbd

\* A process may leave its wait when it is not inside waitpid or a read.
Outside(k, t) == Patient => k.table[t].waiting_for = 0 /\ t # k.kbd

\* A change of state keeps Life when nobody is taken out of a wait, idle stays
\* runnable and who dies has no waiter left.
LEMMA MovedLife ==
  ASSUME NEW k, NEW r, KType(k), NEW n \in Nat, NEW W \in SUBSET Slots, NEW st,
         Life(k, n), Moved(k, r, W, st), st # "FREE",
         \A t \in W : k.table[t].state # "FREE",
         idle_pcb \in W => st \in {"READY", "RUNNING"},
         st # "BLOCKED" => \A t \in W : Outside(k, t),
         (st = "ZOMBIE" /\ Misuse = {}) => \A t \in W : Unawaited(k, t)
  PROVE  Life(r, n)
<1>0. idle_pcb \in Slots /\ (k.kbd # NULL => k.kbd \in Slots)
  BY ConstantsAssumption DEF idle_pcb, Slots, KType
<1>1. Owners(r, n)
  BY DEF Life, Owned, Owners, Moved, Same, Put
<1>2. IdleWaits(r)
  BY <1>0 DEF Life, Owned, IdleWaits, Moved, Same, Put
<1>3. r.kbd # NULL => r.table[r.kbd].foreground
  BY <1>0 DEF Life, Owned, Moved, Same, Put
<1>4. ASSUME Patient PROVE Asleep(r)
  BY <1>0, <1>4 DEF Life, Asleep, Moved, Same, Put, Outside
<1>5. ASSUME Misuse = {} PROVE Minded(r)
  <2> SUFFICES ASSUME NEW s \in Slots, r.table[s].waiting_for # 0
               PROVE  \E c \in Slots : ChildOf(r, s, c)
    BY DEF Minded
  <2>1. k.table[s].waiting_for = r.table[s].waiting_for /\ k.table[s].pid = r.table[s].pid
    BY DEF Moved, Same, Put
  <2>2. PICK c \in Slots : ChildOf(k, s, c)
    BY <1>5, <2>1 DEF Life, Minded
  <2>3. r.table[c].state \notin {"FREE", "ZOMBIE"}
    <3>1. CASE c \in W
      BY <1>5, <2>1, <2>2, <3>1 DEF Moved, Put, Unawaited, ChildOf
    <3>2. CASE c \notin W
      BY <2>2, <3>2 DEF Moved, Same, Put, ChildOf
    <3> QED BY <3>1, <3>2
  <2> QED BY <2>1, <2>2, <2>3 DEF ChildOf, Moved, Same, Put
<1> QED BY <1>1, <1>2, <1>3, <1>4, <1>5 DEF Life, Owned

\* A slot that nobody waits for, and that the keyboard driver has forgotten, may
\* be released.
LEMMA FreedLife ==
  ASSUME NEW k, NEW r, KType(k), NEW n \in Nat, NEW s \in Slots,
         Life(k, n), Freed(k, r, s), s # idle_pcb, k.kbd # s,
         Misuse = {} => Unawaited(k, s)
  PROVE  Life(r, n)
<1>0. idle_pcb \in Slots /\ (k.kbd # NULL => k.kbd \in Slots)
  BY ConstantsAssumption DEF idle_pcb, Slots, KType
<1>1. Owners(r, n)
  BY DEF Life, Owned, Owners, Freed, Same, Put
<1>2. IdleWaits(r)
  BY <1>0 DEF Life, Owned, IdleWaits, Freed, Same, Put
<1>3. r.kbd # NULL => r.table[r.kbd].foreground
  BY <1>0 DEF Life, Owned, Freed, Same, Put
<1>4. ASSUME Patient PROVE Asleep(r)
  BY <1>0, <1>4 DEF Life, Asleep, Freed, Same, Put
<1>5. ASSUME Misuse = {} PROVE Minded(r)
  <2> SUFFICES ASSUME NEW t \in Slots, r.table[t].waiting_for # 0
               PROVE  \E c \in Slots : ChildOf(r, t, c)
    BY DEF Minded
  <2>1. t # s /\ k.table[t].waiting_for = r.table[t].waiting_for
        /\ k.table[t].pid = r.table[t].pid
    BY DEF Freed, Same, Put
  <2>2. PICK c \in Slots : ChildOf(k, t, c)
    BY <1>5, <2>1 DEF Life, Minded
  <2>3. c # s
    BY <1>5, <2>2 DEF ChildOf, Unawaited
  <2> QED BY <2>1, <2>2, <2>3 DEF ChildOf, Freed, Same, Put
<1> QED BY <1>1, <1>2, <1>3, <1>4, <1>5 DEF Life, Owned

\* The keyboard driver's pointer changes, and nothing else.
LEMMA KbdLife ==
  ASSUME NEW k, NEW r, KType(k), NEW n \in Nat, Life(k, n),
         \A t \in Slots : Same(k.table[t], r.table[t]),
         r.kbd \in Slots \cup {NULL},
         r.kbd # NULL => k.table[r.kbd].foreground,
         (Patient /\ r.kbd # NULL) => /\ k.table[r.kbd].state = "BLOCKED"
                                      /\ k.table[r.kbd].waiting_for = 0
  PROVE  Life(r, n)
<1>0. idle_pcb \in Slots
  BY ConstantsAssumption DEF idle_pcb, Slots
<1>1. Owners(r, n)
  BY DEF Life, Owned, Owners, Same, Put
<1>2. IdleWaits(r)
  BY <1>0 DEF Life, Owned, IdleWaits, Same, Put
<1>3. r.kbd # NULL => r.table[r.kbd].foreground
  BY DEF Same, Put
<1>4. ASSUME Patient PROVE Asleep(r)
  BY <1>4 DEF Life, Asleep, Same, Put
<1>5. ASSUME Misuse = {} PROVE Minded(r)
  BY <1>5 DEF Life, Minded, ChildOf, Same, Put
<1> QED BY <1>1, <1>2, <1>3, <1>4, <1>5 DEF Life, Owned

\* Nothing changes.
LEMMA SameLife ==
  ASSUME NEW k, NEW r, KType(k), NEW n \in Nat, Life(k, n),
         \A t \in Slots : Same(k.table[t], r.table[t]), r.kbd = k.kbd
  PROVE  Life(r, n)
<1>1. r.kbd \in Slots \cup {NULL}
  BY DEF KType
<1> QED BY <1>1, KbdLife DEF Life, Owned, Asleep

(***************************************************************************)
(* What waitpid promises: from k to r no process is renamed, and a wait    *)
(* ends only for the process d, which is dying.                            *)
(***************************************************************************)
Since(k, r, d) ==
    \A t \in Slots :
        \/ r.table[t].pid = 0
        \/ /\ r.table[t].pid = k.table[t].pid
           /\ \/ r.table[t].waiting_for = k.table[t].waiting_for
              \/ k.table[t].waiting_for \in {0, d}

\* Step after step.
LEMMA SinceThen ==
  ASSUME NEW k, NEW m, NEW r, NEW d, Since(k, m, d), Since(m, r, d) \/ Since(m, r, 0)
  PROVE  Since(k, r, d)
BY DEF Since

\* None of the changes above ends a wait.
LEMMA Sinces ==
  ASSUME NEW k, NEW r
  PROVE  /\ \A W, st : Moved(k, r, W, st) => Since(k, r, 0)
         /\ \A s \in Slots : Freed(k, r, s) => Since(k, r, 0)
         /\ (\A t \in Slots : Same(k.table[t], r.table[t])) => Since(k, r, 0)
BY DEF Since, Moved, Freed, Same, Put

\* The writes to a PCB.
LEMMA PutState ==
  ASSUME NEW p \in PCB, NEW st, NEW w
  PROVE  /\ Put(p, [p EXCEPT !.state = st], st, p.waiting_for)
         /\ Put(p, [p EXCEPT !.state = st, !.wait_ticks = 0], st, p.waiting_for)
         /\ Put(p, [p EXCEPT !.wait_ticks = 0, !.state = st], st, p.waiting_for)
         /\ Put(p, [p EXCEPT !.state = st, !.waiting_for = w], st, w)
         /\ Put(p, [p EXCEPT !.waiting_for = w, !.state = st, !.wait_ticks = 0], st, w)
         /\ Put(p, [p EXCEPT !.state = st, !.remaining_quanta = w], st, p.waiting_for)
BY DEF Put, PCB

\* Nothing changes in a PCB that is not written.
LEMMA SameSelf == \A p : Same(p, p)
BY DEF Same, Put

\* What a FREE slot owns.
LEMMA FreeIsBare == /\ FreePCB.state = "FREE" /\ FreePCB.pid = 0
                    /\ FreePCB.waiting_for = 0 /\ FreePCB.stack = FALSE
BY DEF FreePCB

\* Set of one slot's state.
LEMMA SetMoves ==
  ASSUME NEW k, KType(k), NEW s \in Slots, NEW p \in PCB, NEW st,
         Put(k.table[s], p, st, k.table[s].waiting_for)
  PROVE  Moved(k, Set(k, s, p), {s}, st)
BY SetFields, SameSelf DEF Moved

\* The queue operations leave the table, and all but the queue, alone.
LEMMA QueueKeepsTable ==
  ASSUME NEW k, KType(k), NEW s
  PROVE  /\ scheduler_remove(k, s).table = k.table /\ scheduler_remove(k, s).kbd = k.kbd
         /\ scheduler_remove(k, s).current = k.current
         /\ scheduler_remove(k, s).force_switch = k.force_switch
         /\ scheduler_add(k, s).table = k.table /\ scheduler_add(k, s).kbd = k.kbd
         /\ scheduler_add(k, s).current = k.current
         /\ scheduler_add(k, s).force_switch = k.force_switch
BY DEF scheduler_remove, scheduler_add, KType

\* scheduler_remove keeps the types, whatever the queue lists.
LEMMA RemoveType ==
  ASSUME NEW k, KType(k), NEW s
  PROVE  KType(scheduler_remove(k, s))
<1> DEFINE n == Len(k.queue)
           found == {i \in 1..n : k.queue[i] = s}
           pos == CHOOSE i \in found : \A j \in found : i <= j
           q == [i \in 1..(n - 1) |-> IF i < pos THEN k.queue[i] ELSE k.queue[i + 1]]
           x == IF k.idx >= n - 1 /\ n - 1 > 0 THEN n - 2
                ELSE IF pos - 1 < k.idx THEN k.idx - 1 ELSE k.idx
<1>1. k.queue \in Seq(Slots) /\ n \in Nat /\ k.idx \in Nat
  BY DEF KType
<1>2. CASE found = {}
  BY <1>2 DEF scheduler_remove
<1>3. CASE found # {}
  <2>1. scheduler_remove(k, s) = [k EXCEPT !.queue = q, !.idx = x]
    BY <1>3 DEF scheduler_remove
  <2>2. pos \in 1..n
    <3>1. found \in SUBSET Nat
      BY <1>1
    <3>2. \E i \in found : \A j \in found : i <= j
      <4> HIDE DEF found
      <4> QED BY <1>3, <3>1, MinExists
    <3>3. pos \in found
      BY <3>2
    <3> QED BY <3>3
  <2> HIDE DEF pos
  <2>3. q \in Seq(Slots) /\ x \in Nat
    BY <1>1, <2>2
  <2> HIDE DEF q, x
  <2> QED BY <2>1, <2>3 DEF KType
<1> QED BY <1>2, <1>3

\* Nobody waits for a ZOMBIE any more.
LEMMA ZombieUnawaited ==
  ASSUME NEW k, NEW n \in Nat, Life(k, n), NEW s \in Slots, k.table[s].state = "ZOMBIE",
         Misuse = {}
  PROVE  Unawaited(k, s)
<1> SUFFICES ASSUME NEW t \in Slots, k.table[t].waiting_for = k.table[s].pid PROVE FALSE
  BY DEF Unawaited
<1>1. k.table[s].pid \in 1..n
  BY DEF Life, Owned, Owners
<1>2. PICK c \in Slots : ChildOf(k, t, c)
  BY <1>1 DEF Life, Minded
<1>3. c = s
  BY <1>2 DEF ChildOf, Life, Owned, Owners
<1> QED BY <1>2, <1>3 DEF ChildOf

\* The switch: the ZOMBIE is gone and the choice runs, on a stack that it has.
LEMMA DispatchLife ==
  ASSUME NEW k, Consistent(k), NEW n \in Nat, Life(k, n)
  PROVE  LET r == dispatch(k, scheduler_next_ready(k))
         IN  /\ Life(r, n) /\ r.table[r.current].state = "RUNNING" /\ Since(k, r, 0)
             /\ k.table[k.current].state = "ZOMBIE" => r.table[k.current].pid = 0
<1> USE ConstantsAssumption
<1> DEFINE c == scheduler_next_ready(k)
           j == [k EXCEPT !.idx = c.idx]
           a == reap(j)
           p == [a.table[c.next] EXCEPT !.wait_ticks = 0, !.state = "RUNNING"]
           b == Set(a, c.next, p)
           d == [b EXCEPT !.current = c.next, !.force_switch = FALSE]
           z == k.table[k.current].state = "ZOMBIE"
<1>1. KType(k) /\ QueueOK(k) /\ k.current \in Slots /\ idle_pcb \in Slots
  BY DEF Consistent, KType, idle_pcb, Slots
<1>2. /\ c.next \in Slots /\ c.next # NULL
      /\ c.idx \in Nat
      /\ c.next = idle_pcb \/ (k.table[c.next].state = "READY" /\ c.next # idle_pcb)
  <2>1. NULL \notin Slots
    BY DEF NULL, Slots
  <2> QED BY <1>1, <2>1, NextReady
<1>3. dispatch(k, c) = d
  BY DEF dispatch
<1> HIDE DEF c
<1>4. /\ KType(j) /\ j.table = k.table
      /\ j.current = k.current /\ j.kbd = k.kbd /\ j.force_switch = k.force_switch
  BY <1>1, <1>2 DEF KType
<1> HIDE DEF j
<1>5. z => k.current # idle_pcb /\ k.kbd # k.current
  BY DEF Life, Owned, IdleWaits, Consistent
<1>6. /\ KType(a) /\ a.kbd = k.kbd
      /\ z => Freed(k, a, k.current)
      /\ ~z => a.table = k.table
  <2>1. CASE ~z
    BY <1>4, <2>1 DEF reap
  <2>2. CASE z
    <3> DEFINE m == scheduler_remove(j, k.current)
    <3>1. a = Set(m, k.current, FreePCB)
      BY <1>4, <2>2 DEF reap
    <3>2. m.table = k.table /\ m.kbd = k.kbd
      BY <1>4, QueueKeepsTable
    <3>3. KType(m)
      BY <1>4, RemoveType
    <3> HIDE DEF m
    <3>4. /\ KType(a) /\ a.table[k.current] = FreePCB
          /\ \A t \in Slots \ {k.current} : a.table[t] = k.table[t]
          /\ a.kbd = k.kbd
      BY ONLY <1>1, <3>1, <3>2, <3>3, FreePCBType, SetFields
    <3> QED BY <2>2, <3>4, FreeIsBare, SameSelf DEF Freed
  <2> QED BY <2>1, <2>2
<1> HIDE DEF a
<1>7. Life(a, n) /\ Since(k, a, 0) /\ (z => a.table[k.current].pid = 0)
  <2>1. CASE z
    <3>1. Misuse = {} => Unawaited(k, k.current)
      BY <1>1, <2>1, ZombieUnawaited
    <3> QED BY <1>1, <1>5, <1>6, <2>1, <3>1, FreedLife, Sinces DEF Freed
  <2>2. CASE ~z
    BY <1>1, <1>6, <2>2, SameLife, SameSelf, Sinces
  <2> QED BY <2>1, <2>2
<1>8. /\ a.table[c.next].state # "FREE" /\ Outside(a, c.next)
      /\ z => c.next # k.current
  <2>1. CASE c.next = idle_pcb
    BY <1>2, <1>5, <1>6, <1>7, <2>1 DEF Life, Owned, IdleWaits, Asleep, Outside
  <2>2. CASE k.table[c.next].state = "READY"
    <3>1. z => c.next # k.current
      BY <2>2
    <3>2. a.table[c.next].state = "READY"
      BY <1>2, <1>6, <2>2, <3>1 DEF Freed, Same, Put
    <3> QED BY <1>2, <1>7, <3>1, <3>2 DEF Life, Asleep, Outside
  <2> QED BY <1>2, <2>1, <2>2
<1>9. a.table[c.next] \in PCB
  BY <1>2, <1>6 DEF KType
<1>10. p \in PCB /\ Put(a.table[c.next], p, "RUNNING", a.table[c.next].waiting_for)
  <2>1. 0 \in 0..MAX_WAIT /\ "RUNNING" \in States
    BY FreePCBType DEF States
  <2>2. p \in PCB
    BY ONLY <1>9, <2>1 DEF p, PCB
  <2> QED BY <1>9, <2>2, PutState, Zenon
<1> HIDE DEF p
<1>11. /\ KType(b) /\ b.table[c.next] = p /\ Moved(a, b, {c.next}, "RUNNING")
       /\ \A t \in Slots \ {c.next} : b.table[t] = a.table[t]
  BY <1>2, <1>6, <1>10, SetFields, SetMoves
<1> HIDE DEF b
<1>12. d.table = b.table /\ d.kbd = b.kbd /\ d.current = c.next
  BY <1>2, <1>11 DEF KType
<1> HIDE DEF d
<1>13. Moved(a, d, {c.next}, "RUNNING")
  BY <1>11, <1>12 DEF Moved
<1>14. Life(d, n)
  BY <1>2, <1>6, <1>7, <1>8, <1>13, MovedLife
<1>15. d.table[d.current].state = "RUNNING"
  BY <1>10, <1>11, <1>12 DEF Put
<1>16. Since(k, d, 0)
  BY <1>7, <1>13, Sinces, SinceThen
<1>17. z => d.table[k.current].pid = 0
  BY <1>1, <1>7, <1>8, <1>11, <1>12
<1> QED BY <1>3, <1>14, <1>15, <1>16, <1>17 DEF c, z

\* The process that leaves the CPU is RUNNING or READY; who is BLOCKED or a
\* ZOMBIE stays so.
LEMMA DemoteLife ==
  ASSUME NEW k, Consistent(k), NEW n \in Nat, Life(k, n)
  PROVE  /\ Life(demote(k), n) /\ Since(k, demote(k), 0)
         /\ demote(k).current = k.current
         /\ k.table[k.current].state = "ZOMBIE" =>
              demote(k).table[k.current].state = "ZOMBIE"
<1> DEFINE cur == k.table[k.current]
           st == IF cur.state = "RUNNING" THEN "READY" ELSE cur.state
           p == [cur EXCEPT !.state = st, !.remaining_quanta = cur.priority]
           r == demote(k)
<1>1. KType(k) /\ k.current \in Slots /\ cur \in PCB /\ cur.state # "FREE" /\ k.current # NULL
  <2>1. NULL \notin Slots
    BY DEF NULL, Slots
  <2> QED BY <2>1 DEF Consistent, KType
<1>2. demote(k) = Set(k, k.current, p)
  BY DEF demote
<1>3. Put(cur, p, st, cur.waiting_for)
  BY <1>1, PutState, Zenon
<1>4. p \in PCB
  <2>1. cur.priority \in 0..MAX_PRIORITY
    BY <1>1, ConstantsAssumption DEF PCB, Priorities, MIN_PRIORITY
  <2>2. st \in States
    BY <1>1 DEF PCB, States
  <2> HIDE DEF st
  <2> QED BY ONLY <1>1, <2>1, <2>2 DEF PCB, p
<1> HIDE DEF p
<1>5. Moved(k, r, {k.current}, st) /\ r.current = k.current /\ r.table[k.current] = p
  BY <1>1, <1>2, <1>3, <1>4, SetMoves, SetFields
<1>6. Since(k, r, 0)
  BY <1>5, Sinces
<1>7. Life(r, n)
  <2>1. CASE cur.state = "RUNNING"
    <3>1. Outside(k, k.current)
      BY <1>1, <2>1 DEF Life, Asleep, Outside
    <3> QED BY <1>1, <1>5, <2>1, <3>1, MovedLife
  <2>2. CASE cur.state # "RUNNING"
    <3>1. \A t \in Slots : Same(k.table[t], r.table[t])
      BY <1>5, <2>2 DEF Moved, Same
    <3> QED BY <1>1, <1>5, <3>1, SameLife DEF Moved
  <2> QED BY <2>1, <2>2
<1> QED BY <1>3, <1>5, <1>6, <1>7 DEF Put

\* What a handler leaves behind that started its tail with k.
Ended(k, r, n) ==
    /\ Life(r, n)
    /\ Patient => r.table[r.current].state = "RUNNING"
    /\ Since(k, r, 0)
    /\ k.table[k.current].state = "ZOMBIE" => r.table[k.current].pid = 0

\* The return without a switch.
LEMMA StoreEnds ==
  ASSUME NEW k, NEW n \in Nat, Life(k, n), KType(k), Store(k)
  PROVE  /\ Kernel'.table = k.table /\ Kernel'.current = k.current
         /\ Life(Kernel', n) /\ Since(k, Kernel', 0)
<1> DEFINE r == Kernel'
<1>1. r.table = k.table /\ r.current = k.current /\ r.kbd = k.kbd
  BY DEF Store, Kernel
<1> HIDE DEF r
<1>2. Life(r, n) /\ Since(k, r, 0)
  BY <1>1, SameLife, SameSelf, Sinces
<1> QED BY <1>1, <1>2 DEF r

\* The return through a switch, the process that leaves being demoted already.
LEMMA SwitchEnds ==
  ASSUME NEW k, Consistent(k), NEW n \in Nat, Life(k, n),
         k.table[k.current].state # "RUNNING", FullQuantum(k, k.current), Switch(k)
  PROVE  Ended(k, Kernel', n)
<1> DEFINE d == dispatch(k, scheduler_next_ready(k))
<1>1. Store(d)
  BY DEF Switch
<1>2. /\ Life(d, n) /\ d.table[d.current].state = "RUNNING" /\ Since(k, d, 0)
      /\ k.table[k.current].state = "ZOMBIE" => d.table[k.current].pid = 0
  BY DispatchLife
<1>3. KType(d)
  BY DispatchSettles DEF Settled, Consistent
<1> HIDE DEF d
<1>4. /\ Kernel'.table = d.table /\ Kernel'.current = d.current
      /\ Life(Kernel', n) /\ Since(d, Kernel', 0)
  BY <1>1, <1>2, <1>3, StoreEnds
<1> QED BY <1>2, <1>4, SinceThen DEF Ended

\* The return through scheduler_yield_impl.
LEMMA YieldEnds ==
  ASSUME NEW k, Consistent(k), NEW n \in Nat, Life(k, n), scheduler_yield_impl(k)
  PROVE  Ended(k, Kernel', n)
<1> DEFINE m == demote(k)
<1>1. Switch(m)
  BY DEF scheduler_yield_impl
<1>2. Consistent(m) /\ FullQuantum(m, m.current) /\ m.table[m.current].state # "RUNNING"
  BY DemoteReady DEF Returnable
<1>3. /\ Life(m, n) /\ Since(k, m, 0) /\ m.current = k.current
      /\ k.table[k.current].state = "ZOMBIE" => m.table[k.current].state = "ZOMBIE"
  BY DemoteLife
<1> HIDE DEF m
<1>4. Ended(m, Kernel', n)
  BY <1>1, <1>2, <1>3, SwitchEnds
<1> QED BY <1>3, <1>4, SinceThen DEF Ended

\* The tail of the syscall and keyboard handlers.
LEMMA ReturnEnds ==
  ASSUME NEW k, Returnable(k), NEW n \in Nat, Life(k, n), Runnable(k), Return(k)
  PROVE  Ended(k, Kernel', n)
<1>1. CASE k.force_switch
  BY <1>1, YieldEnds DEF Return, Returnable
<1>2. CASE ~k.force_switch
  <2>1. Store(k) /\ KType(k) /\ k.table[k.current].state # "ZOMBIE"
    BY <1>2 DEF Return, Returnable, Consistent
  <2>2. /\ Kernel'.table = k.table /\ Kernel'.current = k.current
        /\ Life(Kernel', n) /\ Since(k, Kernel', 0)
    BY <2>1, StoreEnds
  <2> QED BY <1>2, <2>1, <2>2 DEF Ended, Runnable
<1> QED BY <1>1, <1>2

\* Aging changes no field that Life reads.
LEMMA AgeSame ==
  ASSUME NEW k, KType(k)
  PROVE  /\ \A s \in Slots : Same(k.table[s], age(k).table[s])
         /\ age(k).kbd = k.kbd /\ age(k).current = k.current
<1> DEFINE t == [s \in Slots |->
        IF /\ \E i \in 1..Len(k.queue) : k.queue[i] = s
           /\ s # k.current
           /\ k.table[s].state = "READY"
           /\ k.table[s].wait_ticks < MAX_WAIT
          THEN [k.table[s] EXCEPT !.wait_ticks = @ + 1]
          ELSE k.table[s]]
<1>1. age(k) = [k EXCEPT !.table = t]
  BY DEF age
<1>2. ASSUME NEW s \in Slots PROVE Same(k.table[s], t[s])
  <2>1. k.table[s] \in PCB
    BY DEF KType
  <2>2. t[s] = k.table[s] \/ t[s] = [k.table[s] EXCEPT !.wait_ticks = @ + 1]
    OBVIOUS
  <2> HIDE DEF t
  <2> QED BY <2>1, <2>2 DEF Same, Put, PCB
<1> HIDE DEF t
<1> QED BY <1>1, <1>2 DEF KType

\* A tick, with or without a switch.
LEMMA TickEnds ==
  ASSUME NEW k, Settled(k), NEW n \in Nat, Life(k, n), scheduler_tick(k)
  PROVE  Ended(k, Kernel', n)
<1> DEFINE a == age(k)
           cur == a.table[a.current]
           q == IF cur.remaining_quanta > 0 THEN cur.remaining_quanta - 1
                ELSE cur.remaining_quanta
           p == [cur EXCEPT !.remaining_quanta = q]
           m == spend(a)
<1>1. Returnable(k) /\ KType(k) /\ k.table[k.current].state # "ZOMBIE" /\ k.current \in Slots
  BY DEF Settled, Returnable, Consistent, KType
<1>2. Returnable(a) /\ Consistent(a) /\ FullQuantum(a, a.current) /\ KType(a)
      /\ a.current = k.current
  BY <1>1, AgeReturnable DEF Returnable, Consistent
<1>3. \/ cur.state # "RUNNING" /\ Switch(a)
      \/ /\ cur.state = "RUNNING"
         /\ IF m.table[m.current].remaining_quanta > 0
              THEN Store(m) ELSE scheduler_yield_impl(m)
  BY DEF scheduler_tick
<1>4. Life(a, n) /\ Since(k, a, 0)
  BY <1>1, AgeSame, SameLife, Sinces
<1>5. CASE cur.state # "RUNNING" /\ Switch(a)
  <2>1. Ended(a, Kernel', n)
    BY <1>2, <1>4, <1>5, SwitchEnds
  <2> QED BY <1>1, <1>4, <2>1, SinceThen DEF Ended
<1>6. CASE /\ cur.state = "RUNNING"
           /\ IF m.table[m.current].remaining_quanta > 0
                THEN Store(m) ELSE scheduler_yield_impl(m)
  <2>1. a.current \in Slots /\ cur \in PCB /\ m = Set(a, a.current, p)
    BY <1>2 DEF KType, spend
  <2>2. q \in 0..MAX_PRIORITY /\ q <= cur.priority /\ cur.priority \in Nat
    BY <1>2, <2>1, ConstantsAssumption DEF FullQuantum, PCB, Priorities, MIN_PRIORITY
  <2> HIDE DEF q, a
  <2>3. /\ p \in PCB /\ p.priority = cur.priority /\ p.remaining_quanta = q
        /\ Put(cur, p, cur.state, cur.waiting_for)
    BY ONLY <2>1, <2>2 DEF PCB, p, Put
  <2> HIDE DEF p, m
  <2>4. Consistent(m)
    BY <1>2, <1>6, <2>1, <2>3, UpdateConsistent DEF Put
  <2>5. /\ KType(m) /\ m.table[m.current] = p /\ m.current = a.current
        /\ Moved(a, m, {a.current}, cur.state)
    BY <1>2, <2>1, <2>3, SetFields, SetMoves
  <2>6. \A t \in Slots : Same(a.table[t], m.table[t])
    BY <2>5 DEF Moved, Same
  <2>7. Life(m, n) /\ Since(k, m, 0)
    BY <1>2, <1>4, <2>5, <2>6, SameLife, Sinces, SinceThen DEF Moved
  <2>8. CASE Store(m)
    <3>1. /\ Kernel'.table = m.table /\ Kernel'.current = m.current
          /\ Life(Kernel', n) /\ Since(m, Kernel', 0)
      BY <2>5, <2>7, <2>8, StoreEnds
    <3>2. p.state = "RUNNING"
      BY <1>6, <2>3 DEF Put
    <3> QED BY <1>1, <2>5, <2>7, <3>1, <3>2, SinceThen DEF Ended
  <2>9. CASE scheduler_yield_impl(m)
    <3>1. Ended(m, Kernel', n)
      BY <2>4, <2>7, <2>9, YieldEnds
    <3> QED BY <1>1, <2>7, <3>1, SinceThen DEF Ended
  <2> QED BY <1>6, <2>8, <2>9
<1> QED BY <1>3, <1>5, <1>6

-----------------------------------------------------------------------------
(***************************************************************************)
(* The C functions keep Life and Runnable.                                 *)
(***************************************************************************)
Good(k, r, n, d) == Life(r, n) /\ Runnable(r) /\ Since(k, r, d)

\* A change of state, as in MovedLife, that sets force_switch when it takes the
\* CPU from the process that runs.
LEMMA MovedGood ==
  ASSUME NEW k, NEW r, KType(k), NEW n \in Nat, NEW W \in SUBSET Slots, NEW st,
         Life(k, n), Runnable(k), Moved(k, r, W, st), st # "FREE",
         \A t \in W : k.table[t].state # "FREE",
         idle_pcb \in W => st \in {"READY", "RUNNING"},
         st # "BLOCKED" => \A t \in W : Outside(k, t),
         (st = "ZOMBIE" /\ Misuse = {}) => \A t \in W : Unawaited(k, t),
         r.current = k.current, k.force_switch => r.force_switch,
         (Patient /\ k.current \in W) => r.force_switch
  PROVE  Good(k, r, n, 0)
<1>1. Life(r, n) /\ Since(k, r, 0)
  BY MovedLife, Sinces
<1>2. k.current \in Slots
  BY DEF KType
<1>3. Runnable(r)
  BY <1>2 DEF Runnable, Moved, Same, Put
<1> QED BY <1>1, <1>3 DEF Good

\* A change of the queue, the priorities or the ticks.
LEMMA SameGood ==
  ASSUME NEW k, NEW r, KType(k), NEW n \in Nat, Life(k, n), Runnable(k),
         \A t \in Slots : Same(k.table[t], r.table[t]), r.kbd = k.kbd,
         r.current = k.current, k.force_switch => r.force_switch
  PROVE  Good(k, r, n, 0)
<1>1. Life(r, n) /\ Since(k, r, 0)
  BY SameLife, Sinces
<1>2. k.current \in Slots
  BY DEF KType
<1>3. Runnable(r)
  BY <1>2 DEF Runnable, Same, Put
<1> QED BY <1>1, <1>3 DEF Good

\* Function after function.
LEMMA GoodThen ==
  ASSUME NEW k, NEW m, NEW r, NEW n, NEW d,
         Good(k, m, n, 0) \/ Good(k, m, n, d), Good(m, r, n, 0) \/ Good(m, r, n, d)
  PROVE  Good(k, r, n, d)
<1>1. Since(k, m, d) /\ Since(m, r, d)
  BY DEF Good, Since
<1> QED BY <1>1, SinceThen DEF Good

\* Who is found by its pid, and that everybody alive is.
LEMMA GetPid ==
  ASSUME NEW k, NEW n \in Nat, Owners(k, n), NEW pid
  PROVE  /\ process_get(k, pid) # NULL => /\ process_get(k, pid) \in Slots
                                          /\ k.table[process_get(k, pid)].pid = pid
                                          /\ k.table[process_get(k, pid)].state # "FREE"
         /\ \A s \in Slots : (k.table[s].state # "FREE" /\ k.table[s].pid = pid) =>
              process_get(k, pid) = s
<1> DEFINE found == {s \in Slots : k.table[s].pid = pid /\ k.table[s].state # "FREE"}
           least == CHOOSE s \in found : \A t \in found : s <= t
<1>1. found \in SUBSET Nat /\ NULL \notin Slots
  BY ConstantsAssumption DEF Slots, NULL
<1>2. found # {} => least \in found
  <2>1. found # {} => \E s \in found : \A t \in found : s <= t
    <3> HIDE DEF found
    <3> QED BY <1>1, MinExists
  <2> QED BY <2>1
<1>3. process_get(k, pid) = IF pid = 0 \/ found = {} THEN NULL ELSE least
  BY DEF process_get
<1> HIDE DEF least
<1>4. process_get(k, pid) # NULL => process_get(k, pid) \in found
  BY <1>2, <1>3
<1>5. ASSUME NEW s \in Slots, k.table[s].state # "FREE", k.table[s].pid = pid
      PROVE  process_get(k, pid) = s
  <2>1. s \in found /\ pid # 0
    BY <1>5 DEF Owners
  <2>2. least \in found
    BY <1>2, <2>1
  <2>3. least = s
    BY <1>5, <2>2 DEF Owners
  <2> QED BY <1>3, <2>1, <2>3
<1> QED BY <1>4, <1>5

\* process_block, of anybody but idle.
LEMMA BlockGood ==
  ASSUME NEW k, Returnable(k), NEW n \in Nat, Life(k, n), Runnable(k),
         NEW pid, pid # IDLE_PID
  PROVE  Good(k, process_block(k, pid), n, 0)
<1> DEFINE s == process_get(k, pid)
           p == [k.table[s] EXCEPT !.state = "BLOCKED"]
           m == Set(k, s, p)
           b == m.force_switch \/ s = k.current
           r == [m EXCEPT !.force_switch = b]
<1>0. KType(k)
  BY ReturnableTypes
<1>1. CASE s = NULL \/ k.table[s].state \in {"ZOMBIE", "BLOCKED"}
  <2>1. process_block(k, pid) = k
    BY <1>1 DEF process_block
  <2> QED BY <1>0, <2>1, SameGood, SameSelf
<1>2. CASE ~(s = NULL \/ k.table[s].state \in {"ZOMBIE", "BLOCKED"})
  <2>1. s \in Slots /\ k.table[s].state # "FREE" /\ k.table[s].pid = pid
    BY <1>2, GetPid DEF Life, Owned
  <2>2. process_block(k, pid) = r
    BY <1>2 DEF process_block
  <2> HIDE DEF s
  <2>3. s # idle_pcb
    BY <2>1 DEF Life, Owned, IdleWaits
  <2>4. k.table[s] \in PCB
    BY <2>1, ReturnableTypes
  <2>5. p \in PCB /\ Put(k.table[s], p, "BLOCKED", k.table[s].waiting_for)
    BY ONLY <2>4, StateNames, WriteState, PutState, Zenon
  <2> HIDE DEF p
  <2>6. Moved(k, m, {s}, "BLOCKED") /\ m.current = k.current /\ KType(m)
        /\ m.force_switch = k.force_switch
    BY <1>0, <2>1, <2>5, SetFields, SetMoves
  <2>10. b \in BOOLEAN /\ (m.force_switch => b) /\ (k.current = s => b)
    OBVIOUS
  <2> HIDE DEF m, b
  <2>7. r.table = m.table /\ r.kbd = m.kbd /\ r.current = m.current /\ r.force_switch = b
    BY <2>6 DEF KType
  <2> HIDE DEF r
  <2>8. Moved(k, r, {s}, "BLOCKED")
    BY <2>6, <2>7 DEF Moved
  <2>9. Good(k, r, n, 0)
    BY <1>0, <2>1, <2>3, <2>6, <2>7, <2>8, <2>10, MovedGood
  <2> QED BY <2>2, <2>9
<1> QED BY <1>1, <1>2

\* process_unblock, of nobody inside waitpid or a read.
LEMMA UnblockGood ==
  ASSUME NEW k, Returnable(k), NEW n \in Nat, Life(k, n), Runnable(k), NEW pid,
         process_get(k, pid) # NULL => Outside(k, process_get(k, pid))
  PROVE  Good(k, process_unblock(k, pid), n, 0)
<1> DEFINE s == process_get(k, pid)
           p == [k.table[s] EXCEPT !.state = "READY", !.wait_ticks = 0]
           m == Set(k, s, p)
           b == m.force_switch \/ k.table[s].priority > k.table[k.current].priority
           r == [m EXCEPT !.force_switch = b]
<1>0. KType(k)
  BY ReturnableTypes
<1>1. CASE s = NULL \/ k.table[s].state # "BLOCKED"
  <2>1. process_unblock(k, pid) = k
    BY <1>1 DEF process_unblock
  <2> QED BY <1>0, <2>1, SameGood, SameSelf
<1>2. CASE ~(s = NULL \/ k.table[s].state # "BLOCKED")
  <2>1. s \in Slots /\ k.table[s].state = "BLOCKED" /\ Outside(k, s)
    BY <1>2, GetLive
  <2>2. process_unblock(k, pid) = r
    BY <1>2 DEF process_unblock
  <2> HIDE DEF s
  <2>3. k.table[s] \in PCB
    BY <2>1, ReturnableTypes
  <2>4. p \in PCB /\ Put(k.table[s], p, "READY", k.table[s].waiting_for)
    BY ONLY <2>3, WriteReady, PutState, Zenon
  <2> HIDE DEF p
  <2>5. Moved(k, m, {s}, "READY") /\ m.current = k.current /\ KType(m)
        /\ m.force_switch = k.force_switch
    BY <1>0, <2>1, <2>4, SetFields, SetMoves
  <2>6. b \in BOOLEAN /\ (m.force_switch => b)
    OBVIOUS
  <2> HIDE DEF m, b
  <2>7. r.table = m.table /\ r.kbd = m.kbd /\ r.current = m.current /\ r.force_switch = b
    BY <2>5 DEF KType
  <2> HIDE DEF r
  <2>8. Moved(k, r, {s}, "READY")
    BY <2>5, <2>7 DEF Moved
  <2>9. (Patient /\ k.current = s) => k.force_switch
    BY <2>1 DEF Runnable
  <2>10. Good(k, r, n, 0)
    BY <1>0, <2>1, <2>5, <2>6, <2>7, <2>8, <2>9, MovedGood
  <2> QED BY <2>2, <2>10
<1> QED BY <1>1, <1>2

\* Who may be woken in k may still be in r.
Calmer(k, r) == \A t \in Slots : Outside(k, t) => Outside(r, t)

\* A change of state takes nobody into a wait.
LEMMA MovedCalmer ==
  ASSUME NEW k, NEW r, NEW W, NEW st, Moved(k, r, W, st)
  PROVE  Calmer(k, r)
BY DEF Calmer, Outside, Moved, Same, Put

\* What a dying process held wakes others.
LEMMA UnblockAllGood ==
  ASSUME NEW k, KType(k), NEW n \in Nat, Life(k, n), Runnable(k),
         NEW woken \in SUBSET Slots, \A t \in woken : Outside(k, t)
  PROVE  LET r == unblock_all(k, woken)
         IN  /\ KType(r) /\ Good(k, r, n, 0) /\ Calmer(k, r)
             /\ r.current = k.current /\ r.kbd = k.kbd
             /\ \A t \in Slots \ woken : r.table[t] = k.table[t]
             /\ \A t \in Slots : /\ r.table[t].pid = k.table[t].pid
                                 /\ r.table[t].waiting_for = k.table[t].waiting_for
<1> DEFINE blocked == {s \in woken : k.table[s].state = "BLOCKED"}
           w(s) == [k.table[s] EXCEPT !.state = "READY", !.wait_ticks = 0]
           t == [s \in Slots |-> IF s \in blocked THEN w(s) ELSE k.table[s]]
           f == k.force_switch \/ \E s \in blocked :
                                     k.table[s].priority > k.table[k.current].priority
           r == unblock_all(k, woken)
<1>1. r = [k EXCEPT !.table = t, !.force_switch = f]
  BY DEF unblock_all, KType
<1>2. f \in BOOLEAN /\ (k.force_switch => f)
  OBVIOUS
<1>3. ASSUME NEW s \in Slots
      PROVE  w(s) \in PCB /\ Put(k.table[s], w(s), "READY", k.table[s].waiting_for)
  <2>1. k.table[s] \in PCB
    BY DEF KType
  <2> QED BY <2>1, WriteReady, PutState, Zenon
<1> HIDE DEF w
<1>4. t \in [Slots -> PCB]
  BY <1>3 DEF KType
<1>5. /\ \A s \in blocked : s \in Slots => t[s] = w(s)
      /\ \A s \in Slots \ blocked : t[s] = k.table[s]
  OBVIOUS
<1> HIDE DEF f, t, r
<1>6. KType(r) /\ r.table = t /\ r.current = k.current /\ r.kbd = k.kbd /\ r.force_switch = f
  BY <1>1, <1>2, <1>4 DEF KType
<1>7. Moved(k, r, blocked, "READY")
  <2>1. \A s \in Slots : IF s \in blocked
                           THEN Put(k.table[s], r.table[s], "READY", k.table[s].waiting_for)
                           ELSE Same(k.table[s], r.table[s])
    BY <1>3, <1>5, <1>6, SameSelf
  <2> QED BY <1>6, <2>1 DEF Moved
<1>8. \A s \in Slots : /\ r.table[s].pid = k.table[s].pid
                       /\ r.table[s].waiting_for = k.table[s].waiting_for
  BY <1>7 DEF Moved, Same, Put
<1>9. (Patient /\ k.current \in blocked) => k.force_switch
  BY DEF Runnable
<1>10. blocked \in SUBSET Slots /\ (\A s \in blocked : k.table[s].state # "FREE" /\ Outside(k, s))
  OBVIOUS
<1>11. \A s \in Slots \ woken : r.table[s] = k.table[s]
  BY <1>5, <1>6
<1> HIDE DEF blocked
<1>12. Good(k, r, n, 0)
  BY <1>2, <1>6, <1>7, <1>9, <1>10, MovedGood
<1>13. Calmer(k, r)
  BY <1>7, MovedCalmer
<1> QED BY <1>2, <1>6, <1>8, <1>11, <1>12, <1>13 DEF r

\* The keyboard driver forgets slot s.
LEMMA KbdClearGood ==
  ASSUME NEW k, KType(k), NEW n \in Nat, Life(k, n), Runnable(k), NEW s \in Slots
  PROVE  LET r == kbd_clear_waiting(k, s)
         IN  /\ KType(r) /\ Good(k, r, n, 0) /\ Calmer(k, r)
             /\ r.current = k.current /\ r.kbd # s /\ r.table = k.table
             /\ r.force_switch = k.force_switch
<1> DEFINE r == kbd_clear_waiting(k, s)
           w == IF k.kbd = s THEN NULL ELSE k.kbd
<1>1. s # NULL /\ NULL \notin Slots
  BY DEF Slots, NULL
<1>2. r = [k EXCEPT !.kbd = w]
  BY DEF kbd_clear_waiting, KType
<1>3. w \in Slots \cup {NULL} /\ w # s /\ (w # NULL => w = k.kbd)
  BY <1>1 DEF KType
<1> HIDE DEF w, r
<1>4. /\ KType(r) /\ r.kbd = w /\ r.table = k.table /\ r.current = k.current
      /\ r.force_switch = k.force_switch
  BY <1>2, <1>3 DEF KType
<1>5. Life(r, n)
  BY <1>3, <1>4, KbdLife, SameSelf DEF Life, Owned, Asleep
<1>6. Good(k, r, n, 0)
  BY <1>4, <1>5, Sinces, SameSelf DEF Good, Runnable
<1>7. Calmer(k, r)
  BY <1>1, <1>3, <1>4 DEF Calmer, Outside
<1> QED BY <1>3, <1>4, <1>6, <1>7 DEF r

\* The one that waits for s wakes up, and there is no other.
LEMMA WakeParentGood ==
  ASSUME NEW k, KType(k), NEW n \in Nat, Life(k, n), Runnable(k), NEW s \in Slots,
         k.table[s].state # "FREE"
  PROVE  LET r == wake_parent(k, s)
         IN  /\ KType(r) /\ Good(k, r, n, k.table[s].pid) /\ Calmer(k, r)
             /\ Misuse = {} => Unawaited(r, s)
             /\ r.current = k.current /\ r.kbd = k.kbd /\ r.force_switch = k.force_switch
             /\ \A t \in Slots : r.table[t].pid = k.table[t].pid
             /\ \A t \in Slots : \/ r.table[t] = k.table[t]
                                 \/ /\ k.table[t].state = "BLOCKED"
                                    /\ r.table[t].state = "READY"
<1> DEFINE parent == process_get(k, k.table[s].parent_pid)
           p == [k.table[parent] EXCEPT !.waiting_for = 0, !.state = "READY",
                                        !.wait_ticks = 0]
           C == /\ parent # NULL
                /\ k.table[parent].state = "BLOCKED"
                /\ k.table[parent].waiting_for = k.table[s].pid
           r == wake_parent(k, s)
           pid == k.table[s].pid
<1>1. pid \in 1..n /\ pid # 0 /\ NULL \notin Slots
      /\ idle_pcb \in Slots /\ (k.kbd # NULL => k.kbd \in Slots) /\ k.current \in Slots
  BY ConstantsAssumption DEF Life, Owned, Owners, idle_pcb, Slots, NULL, KType
<1>2. ASSUME NEW t \in Slots, k.table[t].waiting_for = pid, Misuse = {}
      PROVE  C /\ t = parent
  <2>1. PICK c \in Slots : ChildOf(k, t, c)
    BY <1>1, <1>2 DEF Life, Minded
  <2>2. c = s
    BY <1>2, <2>1 DEF ChildOf, Life, Owned, Owners
  <2>3. k.table[t].state = "BLOCKED"
    BY <1>1, <1>2 DEF Life, Asleep, Patient
  <2>4. t = parent
    BY <2>1, <2>2, <2>3, GetPid DEF ChildOf, Life, Owned
  <2> QED BY <1>1, <1>2, <2>3, <2>4
<1>3. CASE ~C
  <2>1. r = k
    BY <1>3 DEF wake_parent
  <2>2. Misuse = {} => Unawaited(k, s)
    BY <1>2, <1>3 DEF Unawaited
  <2>3. Since(k, k, pid)
    BY SameSelf DEF Since
  <2>4. Good(k, k, n, pid) /\ Calmer(k, k)
    BY <2>3 DEF Good, Calmer
  <2> QED BY <2>1, <2>2, <2>4
<1>4. CASE C
  <2>1. parent \in Slots /\ k.table[parent].state = "BLOCKED"
        /\ k.table[parent].waiting_for = pid
    BY <1>4, GetLive
  <2>2. r = Set(k, parent, p)
    BY <1>4 DEF wake_parent
  <2>3. \A t \in Slots : (k.table[t].waiting_for = pid /\ Misuse = {}) => t = parent
    BY <1>2
  <2> HIDE DEF parent, C
  <2>4. k.table[parent] \in PCB
    BY <2>1 DEF KType
  <2>5. p \in PCB /\ Put(k.table[parent], p, "READY", 0)
    BY ONLY <2>4, WriteWoken, PutState, Zenon
  <2> HIDE DEF p, r
  <2>6. /\ KType(r) /\ r.table[parent] = p
        /\ \A t \in Slots \ {parent} : r.table[t] = k.table[t]
        /\ r.current = k.current /\ r.kbd = k.kbd /\ r.force_switch = k.force_switch
    BY <2>1, <2>2, <2>5, SetFields
  <2>7. Owners(r, n)
    BY <2>1, <2>5, <2>6 DEF Life, Owned, Owners, Put
  <2>8. IdleWaits(r)
    BY <1>1, <2>1, <2>6 DEF Life, Owned, IdleWaits
  <2>9. r.kbd # NULL => r.table[r.kbd].foreground
    BY <1>1, <2>5, <2>6 DEF Life, Owned, Put
  <2>10. ASSUME Patient PROVE Asleep(r)
    BY <1>1, <2>1, <2>5, <2>6, <2>10 DEF Life, Asleep, Put
  <2>11. ASSUME Misuse = {} PROVE Minded(r)
    <3> SUFFICES ASSUME NEW t \in Slots, r.table[t].waiting_for # 0
                 PROVE  \E c \in Slots : ChildOf(r, t, c)
      BY DEF Minded
    <3>1. t # parent /\ r.table[t] = k.table[t]
      BY <2>5, <2>6 DEF Put
    <3>2. PICK c \in Slots : ChildOf(k, t, c)
      BY <2>11, <3>1 DEF Life, Minded
    <3> QED BY <2>5, <2>6, <3>1, <3>2 DEF ChildOf, Put
  <2>12. Life(r, n)
    BY <2>7, <2>8, <2>9, <2>10, <2>11 DEF Life, Owned
  <2>13. Since(k, r, pid)
    BY <2>1, <2>5, <2>6 DEF Since, Put
  <2>14. Runnable(r)
    BY <1>1, <2>1, <2>6 DEF Runnable
  <2>15. Calmer(k, r)
    BY <2>5, <2>6 DEF Calmer, Outside, Put
  <2>16. Misuse = {} => Unawaited(r, s)
    <3>1. r.table[s].pid = pid
      BY <2>5, <2>6 DEF Put
    <3> QED BY <1>1, <2>3, <2>5, <2>6, <3>1 DEF Unawaited, Put
  <2>17. \A t \in Slots : r.table[t].pid = k.table[t].pid
    BY <2>5, <2>6 DEF Put
  <2>18. \A t \in Slots : \/ r.table[t] = k.table[t]
                          \/ k.table[t].state = "BLOCKED" /\ r.table[t].state = "READY"
    BY <2>1, <2>5, <2>6 DEF Put
  <2> QED BY <2>6, <2>12, <2>13, <2>14, <2>15, <2>16, <2>17, <2>18 DEF Good, r
<1> QED BY <1>3, <1>4

\* A process that nobody waits for becomes a ZOMBIE and leaves the CPU.
LEMMA MarkZombieGood ==
  ASSUME NEW k, KType(k), NEW n \in Nat, Life(k, n), Runnable(k), Outside(k, k.current),
         k.current # idle_pcb, k.table[k.current].state # "FREE",
         Misuse = {} => Unawaited(k, k.current)
  PROVE  LET r == mark_zombie(k)
         IN  /\ KType(r) /\ Good(k, r, n, 0) /\ Calmer(k, r)
             /\ r.current = k.current /\ r.table[k.current].state = "ZOMBIE"
<1> DEFINE p == [k.table[k.current] EXCEPT !.state = "ZOMBIE"]
           m == Set(k, k.current, p)
           r == mark_zombie(k)
<1>1. k.current \in Slots /\ k.table[k.current] \in PCB
  BY DEF KType
<1>2. p \in PCB /\ Put(k.table[k.current], p, "ZOMBIE", k.table[k.current].waiting_for)
  BY ONLY <1>1, StateNames, WriteState, PutState, Zenon
<1>3. r = [m EXCEPT !.force_switch = TRUE]
  BY DEF mark_zombie
<1> HIDE DEF p, r
<1>4. KType(m) /\ Moved(k, m, {k.current}, "ZOMBIE") /\ m.current = k.current
      /\ m.table[k.current] = p
  BY <1>1, <1>2, SetFields, SetMoves
<1> HIDE DEF m
<1>5. /\ KType(r) /\ r.table = m.table /\ r.kbd = m.kbd /\ r.current = m.current
      /\ r.force_switch = TRUE
  BY <1>3, <1>4 DEF KType
<1>6. Moved(k, r, {k.current}, "ZOMBIE")
  BY <1>4, <1>5 DEF Moved
<1>7. Good(k, r, n, 0)
  BY <1>1, <1>4, <1>5, <1>6, MovedGood
<1>8. Calmer(k, r)
  BY <1>6, MovedCalmer
<1> QED BY <1>2, <1>4, <1>5, <1>7, <1>8 DEF Put, r

\* The slot of a process that does not run is released.
LEMMA FreeGood ==
  ASSUME NEW k, KType(k), NEW n \in Nat, Life(k, n), Runnable(k), NEW s \in Slots,
         s # k.current, s # idle_pcb, k.kbd # s, Misuse = {} => Unawaited(k, s)
  PROVE  LET r == Set(k, s, FreePCB)
         IN  Good(k, r, n, 0) /\ r.current = k.current /\ r.table[s].pid = 0
<1> DEFINE r == Set(k, s, FreePCB)
<1>1. /\ KType(r) /\ r.table[s] = FreePCB
      /\ \A t \in Slots \ {s} : r.table[t] = k.table[t]
      /\ r.current = k.current /\ r.kbd = k.kbd /\ r.force_switch = k.force_switch
  BY SetFields, FreePCBType
<1> HIDE DEF r
<1>2. Freed(k, r, s)
  BY <1>1, FreeIsBare, SameSelf DEF Freed
<1>3. Life(r, n) /\ Since(k, r, 0)
  BY <1>2, FreedLife, Sinces
<1>4. k.current \in Slots
  BY DEF KType
<1>5. Runnable(r)
  BY <1>1, <1>4 DEF Runnable
<1> QED BY <1>1, <1>2, <1>3, <1>5 DEF Good, Freed, r

\* Function after function.
LEMMA CalmerThen ==
  ASSUME NEW k, NEW m, NEW r, Calmer(k, m), Calmer(m, r)
  PROVE  Calmer(k, r)
BY DEF Calmer

\* The first part of every death: what the process held wakes others, the
\* keyboard driver forgets it, and who waits for it goes on.
LEMMA OrphanGood ==
  ASSUME NEW k, KType(k), NEW n \in Nat, Life(k, n), Runnable(k), NEW s \in Slots,
         k.table[s].state # "FREE",
         NEW woken \in SUBSET (Slots \ {s}), \A t \in woken : Outside(k, t)
  PROVE  LET o == wake_parent(kbd_clear_waiting(unblock_all(k, woken), s), s)
         IN  /\ KType(o) /\ Good(k, o, n, k.table[s].pid) /\ Calmer(k, o)
             /\ Misuse = {} => Unawaited(o, s)
             /\ o.current = k.current /\ o.kbd # s
             /\ o.table[s].state # "FREE" /\ o.table[s].pid = k.table[s].pid
<1> DEFINE a == unblock_all(k, woken)
           b == kbd_clear_waiting(a, s)
           o == wake_parent(b, s)
           pid == k.table[s].pid
<1>1. woken \in SUBSET Slots /\ s \notin woken
  OBVIOUS
<1>2. /\ KType(a) /\ Good(k, a, n, 0) /\ Calmer(k, a) /\ a.current = k.current
      /\ a.table[s] = k.table[s]
  BY <1>1, UnblockAllGood
<1> HIDE DEF a
<1>3. Life(a, n) /\ Runnable(a)
  BY <1>2 DEF Good
<1>4. /\ KType(b) /\ Good(a, b, n, 0) /\ Calmer(a, b)
      /\ b.current = a.current /\ b.kbd # s /\ b.table = a.table
  BY <1>2, <1>3, KbdClearGood
<1> HIDE DEF b
<1>5. Life(b, n) /\ Runnable(b) /\ b.table[s] = k.table[s]
  BY <1>2, <1>4 DEF Good
<1>6. /\ KType(o) /\ Good(b, o, n, pid) /\ Calmer(b, o)
      /\ Misuse = {} => Unawaited(o, s)
      /\ o.current = b.current /\ o.kbd = b.kbd
      /\ o.table[s].pid = pid
      /\ o.table[s] = b.table[s] \/ o.table[s].state = "READY"
  BY <1>4, <1>5, WakeParentGood
<1> HIDE DEF o
<1>7. Good(k, b, n, 0)
  BY <1>2, <1>4, GoodThen
<1>8. Good(k, o, n, pid)
  BY <1>6, <1>7, GoodThen
<1>9. Calmer(k, o)
  BY <1>2, <1>4, <1>6, CalmerThen
<1> QED BY <1>2, <1>4, <1>5, <1>6, <1>8, <1>9 DEF o, b, a

\* process_exit: the caller is a ZOMBIE that the switch will reap.
LEMMA ExitGood ==
  ASSUME NEW k, KType(k), NEW n \in Nat, Life(k, n), Runnable(k),
         k.table[k.current].state # "FREE", k.current # idle_pcb, Outside(k, k.current),
         NEW woken \in SUBSET (Slots \ {k.current}), \A t \in woken : Outside(k, t)
  PROVE  LET r == process_exit(k, woken)
         IN  /\ Good(k, r, n, k.table[k.current].pid) /\ r.current = k.current
             /\ r.table[k.current].state = "ZOMBIE"
<1> DEFINE s == k.current
           o == wake_parent(kbd_clear_waiting(unblock_all(k, woken), s), s)
<1>1. s \in Slots /\ woken \in SUBSET Slots
  BY DEF KType
<1>2. process_exit(k, woken) = mark_zombie(o)
  <2>1. unblock_all(k, woken).current = k.current
    BY <1>1, UnblockAllGood
  <2> QED BY <2>1 DEF process_exit
<1>3. /\ KType(o) /\ Good(k, o, n, k.table[s].pid) /\ Calmer(k, o)
      /\ Misuse = {} => Unawaited(o, s)
      /\ o.current = s /\ o.table[s].state # "FREE"
  BY <1>1, OrphanGood
<1> HIDE DEF o
<1>4. Life(o, n) /\ Runnable(o) /\ Outside(o, s)
  BY <1>1, <1>3 DEF Good, Calmer
<1>5. Good(o, mark_zombie(o), n, 0) /\ mark_zombie(o).current = s
      /\ mark_zombie(o).table[s].state = "ZOMBIE"
  BY <1>3, <1>4, MarkZombieGood
<1>6. Good(k, mark_zombie(o), n, k.table[s].pid)
  BY <1>3, <1>5, GoodThen
<1> QED BY <1>2, <1>5, <1>6

\* process_kill: so is the caller that kills itself; another is gone at once.
LEMMA KillGood ==
  ASSUME NEW k, KType(k), NEW n \in Nat, Life(k, n), Runnable(k), NEW s \in Slots,
         k.table[s].state # "FREE", s # idle_pcb, s = k.current => Outside(k, s),
         NEW sem_woken \in SUBSET (Slots \ {s}), NEW fd_woken \in SUBSET (Slots \ {s}),
         \A t \in sem_woken \cup fd_woken : Outside(k, t)
  PROVE  LET r == process_kill(k, s, sem_woken, fd_woken)
         IN  /\ Good(k, r, n, k.table[s].pid) /\ r.current = k.current
             /\ s = k.current => r.table[s].state = "ZOMBIE"
             /\ s # k.current => r.table[s].pid = 0
<1> DEFINE o == wake_parent(kbd_clear_waiting(unblock_all(k, sem_woken), s), s)
           pid == k.table[s].pid
           r == process_kill(k, s, sem_woken, fd_woken)
<1>1. r = IF s = k.current THEN unblock_all(mark_zombie(o), fd_woken)
          ELSE Set(unblock_all(scheduler_remove(o, s), fd_woken), s, FreePCB)
  BY DEF process_kill
<1>2. /\ KType(o) /\ Good(k, o, n, pid) /\ Calmer(k, o)
      /\ Misuse = {} => Unawaited(o, s)
      /\ o.current = k.current /\ o.kbd # s
      /\ o.table[s].state # "FREE" /\ o.table[s].pid = pid
  BY OrphanGood
<1> HIDE DEF o, r
<1>3. Life(o, n) /\ Runnable(o) /\ fd_woken \in SUBSET Slots /\ s \notin fd_woken
  BY <1>2 DEF Good
<1>4. CASE s = k.current
  <2> DEFINE z == mark_zombie(o)
             u == unblock_all(z, fd_woken)
  <2>1. Outside(o, s)
    BY <1>2, <1>4 DEF Calmer
  <2>2. KType(z) /\ Good(o, z, n, 0) /\ Calmer(o, z) /\ z.current = s
        /\ z.table[s].state = "ZOMBIE"
    BY <1>2, <1>3, <1>4, <2>1, MarkZombieGood
  <2> HIDE DEF z
  <2>3. Life(z, n) /\ Runnable(z) /\ \A t \in fd_woken : Outside(z, t)
    BY <1>2, <1>3, <2>2 DEF Good, Calmer
  <2>4. Good(z, u, n, 0) /\ u.current = z.current /\ u.table[s] = z.table[s]
    BY <1>3, <2>2, <2>3, UnblockAllGood
  <2> HIDE DEF u
  <2>5. Good(k, z, n, pid)
    BY <1>2, <2>2, GoodThen
  <2>6. Good(k, u, n, pid)
    BY <2>4, <2>5, GoodThen
  <2>7. r = u
    BY <1>1, <1>4 DEF z, u
  <2> QED BY <1>4, <2>2, <2>4, <2>6, <2>7 DEF r
<1>5. CASE s # k.current
  <2> DEFINE m == scheduler_remove(o, s)
             u == unblock_all(m, fd_woken)
             f == Set(u, s, FreePCB)
  <2>1. KType(m) /\ m.table = o.table /\ m.kbd = o.kbd /\ m.current = o.current
        /\ m.force_switch = o.force_switch
    BY <1>2, QueueKeepsTable, RemoveType
  <2>2. r = f
    BY <1>1, <1>5
  <2> HIDE DEF m
  <2>3. Good(o, m, n, 0)
    BY <1>2, <1>3, <2>1, SameGood, SameSelf
  <2>4. Life(m, n) /\ Runnable(m) /\ \A t \in fd_woken : Outside(m, t)
    BY <1>2, <1>3, <2>1, <2>3 DEF Good, Calmer, Outside
  <2>5. /\ KType(u) /\ Good(m, u, n, 0) /\ u.current = m.current /\ u.kbd = m.kbd
        /\ \A t \in Slots : /\ u.table[t].pid = m.table[t].pid
                            /\ u.table[t].waiting_for = m.table[t].waiting_for
    BY <1>3, <2>1, <2>4, UnblockAllGood
  <2> HIDE DEF u
  <2>6. Life(u, n) /\ Runnable(u) /\ s # u.current /\ u.kbd # s
        /\ (Misuse = {} => Unawaited(u, s))
    BY <1>2, <1>5, <2>1, <2>5 DEF Good, Unawaited
  <2>7. Good(u, f, n, 0) /\ f.current = u.current /\ f.table[s].pid = 0
    BY <2>5, <2>6, FreeGood
  <2> HIDE DEF f
  <2>8. Good(k, m, n, pid)
    BY <1>2, <2>3, GoodThen
  <2>9. Good(k, u, n, pid)
    BY <2>5, <2>8, GoodThen
  <2>10. Good(k, f, n, pid)
    BY <2>7, <2>9, GoodThen
  <2> QED BY <1>2, <1>5, <2>1, <2>2, <2>5, <2>7, <2>10 DEF r
<1> QED BY <1>4, <1>5

\* process_nice changes no field that Life reads.
LEMMA NiceGood ==
  ASSUME NEW k, Settled(k), NEW n \in Nat, Life(k, n), Runnable(k), NEW pid, NEW v \in Nat
  PROVE  Good(k, process_nice(k, pid, v), n, 0)
<1> DEFINE s == process_get(k, pid)
           c == clamp(v)
           p == [k.table[s] EXCEPT !.priority = c, !.wait_ticks = 0, !.remaining_quanta = c]
           d == Set(k, s, p)
           r == scheduler_remove(d, s)
           a == scheduler_add(r, s)
<1>1. KType(k)
  BY DEF Settled, Consistent
<1>2. CASE s = NULL
  <2>1. process_nice(k, pid, v) = k
    BY <1>2 DEF process_nice
  <2> QED BY <1>1, <2>1, SameGood, SameSelf
<1>3. CASE s # NULL
  <2>1. s \in Slots /\ k.table[s].state # "FREE"
    BY <1>3, GetLive
  <2>2. k.table[s].state # "ZOMBIE"
    BY <2>1 DEF Settled, Consistent
  <2>3. process_nice(k, pid, v) = a
    BY <1>3, <2>2 DEF process_nice
  <2> HIDE DEF s
  <2>4. k.table[s] \in PCB
    BY <1>1, <2>1 DEF KType
  <2>5. c \in Priorities /\ c \in 0..MAX_PRIORITY /\ 0 \in 0..MAX_WAIT
    BY ClampType, FreePCBType, ConstantsAssumption
  <2> HIDE DEF c
  <2>6. p \in PCB /\ Same(k.table[s], p)
    BY ONLY <2>4, <2>5 DEF PCB, p, Same, Put
  <2> HIDE DEF p
  <2>7. /\ KType(d) /\ d.table[s] = p
        /\ \A t \in Slots \ {s} : d.table[t] = k.table[t]
        /\ d.current = k.current /\ d.kbd = k.kbd /\ d.force_switch = k.force_switch
    BY ONLY <1>1, <2>1, <2>6, SetFields
  <2> HIDE DEF d
  <2>8. /\ KType(r) /\ r.table = d.table /\ r.current = d.current /\ r.kbd = d.kbd
        /\ r.force_switch = d.force_switch
    BY <2>7, RemoveType, QueueKeepsTable
  <2> HIDE DEF r
  <2>9. /\ a.table = r.table /\ a.current = r.current /\ a.kbd = r.kbd
        /\ a.force_switch = r.force_switch
    BY <2>8, QueueKeepsTable
  <2> HIDE DEF a
  <2>10. \A t \in Slots : Same(k.table[t], a.table[t])
    BY <2>6, <2>7, <2>8, <2>9, SameSelf
  <2>11. Good(k, a, n, 0)
    BY <1>1, <2>7, <2>8, <2>9, <2>10, SameGood
  <2> QED BY <2>3, <2>11
<1> QED BY <1>2, <1>3

\* A wait for a child begins.
LEMMA WaitpidGood ==
  ASSUME NEW k, Settled(k), NEW n \in Nat, Life(k, n),
         Patient => k.table[k.current].state = "RUNNING", k.current # idle_pcb,
         NEW pid \in Nat, process_get(k, pid) # NULL,
         Misuse = {} => k.table[process_get(k, pid)].parent_pid = k.table[k.current].pid
  PROVE  LET r == process_waitpid(k, pid)
         IN  /\ Life(r, n) /\ Runnable(r) /\ (Patient => Since(k, r, 0))
             /\ r.current = k.current
<1> DEFINE c == process_get(k, pid)
           cur == k.current
           p == [k.table[cur] EXCEPT !.state = "BLOCKED", !.waiting_for = pid]
           m == Set(k, cur, p)
           r == [m EXCEPT !.force_switch = TRUE]
<1>1. /\ KType(k) /\ cur \in Slots /\ idle_pcb \in Slots /\ k.table[cur] \in PCB
      /\ k.table[cur].state # "FREE" /\ (k.kbd # NULL => k.kbd \in Slots)
  BY ConstantsAssumption DEF Settled, Consistent, KType, idle_pcb, Slots
<1>2. c \in Slots /\ k.table[c].state # "FREE" /\ k.table[c].pid = pid
  BY GetPid DEF Life, Owned
<1>3. k.table[c].state # "ZOMBIE"
  BY <1>2 DEF Settled, Consistent
<1>4. process_waitpid(k, pid) = r
  BY <1>3 DEF process_waitpid
<1>5. Misuse = {} => k.table[c].parent_pid = k.table[cur].pid
  OBVIOUS
<1> HIDE DEF c
<1>6. p \in PCB /\ Put(k.table[cur], p, "BLOCKED", pid)
  BY ONLY <1>1, pid \in Nat, WriteWaiting, PutState, Zenon
<1> HIDE DEF p
<1>7. /\ KType(m) /\ m.table[cur] = p /\ m.kbd = k.kbd /\ m.current = cur
      /\ \A t \in Slots \ {cur} : m.table[t] = k.table[t]
  BY <1>1, <1>6, SetFields
<1> HIDE DEF m
<1>8. /\ r.table[cur] = p /\ r.kbd = k.kbd /\ r.current = cur /\ r.force_switch
      /\ \A t \in Slots \ {cur} : r.table[t] = k.table[t]
  BY <1>7 DEF KType
<1> HIDE DEF r
<1>9. Patient => k.table[cur].waiting_for = 0 /\ k.kbd # cur
  <2>1. NULL \notin Slots
    BY DEF NULL, Slots
  <2> QED BY <1>1, <2>1 DEF Life, Asleep
<1>10. \A t \in Slots : Put(k.table[t], r.table[t], r.table[t].state, r.table[t].waiting_for)
  <2> TAKE t \in Slots
  <2>1. CASE t = cur
    BY <1>6, <1>8, <2>1 DEF Put
  <2>2. CASE t # cur
    BY <1>8, <2>2 DEF Put
  <2> QED BY <2>1, <2>2
<1>11. p.state = "BLOCKED" /\ p.waiting_for = pid
  BY <1>6 DEF Put
<1>12. \A t \in Slots : /\ k.table[t].state = "FREE" => r.table[t] = k.table[t]
                        /\ r.table[t].state = "FREE" => r.table[t] = k.table[t]
                        /\ r.table[t].state = "ZOMBIE" => k.table[t].state = "ZOMBIE"
  BY <1>1, <1>8, <1>11
<1>13. Owners(r, n)
  BY <1>10, <1>12 DEF Life, Owned, Owners, Put
<1>14. IdleWaits(r)
  BY <1>1, <1>8 DEF Life, Owned, IdleWaits
<1>15. r.kbd # NULL => r.table[r.kbd].foreground
  BY <1>1, <1>8, <1>10 DEF Life, Owned, Put
<1>16. ASSUME Patient PROVE Asleep(r)
  BY <1>1, <1>8, <1>9, <1>11, <1>16 DEF Life, Asleep
<1>17. ASSUME Misuse = {} PROVE Minded(r)
  <2> SUFFICES ASSUME NEW s \in Slots, r.table[s].waiting_for # 0
               PROVE  \E x \in Slots : ChildOf(r, s, x)
    BY DEF Minded
  <2>1. CASE s = cur
    BY <1>1, <1>2, <1>3, <1>5, <1>8, <1>10, <1>11, <1>12, <1>17, <2>1 DEF ChildOf, Put
  <2>2. CASE s # cur
    <3>1. PICK x \in Slots : ChildOf(k, s, x)
      BY <1>8, <1>17, <2>2 DEF Life, Minded
    <3> QED BY <1>8, <1>10, <1>12, <2>2, <3>1 DEF ChildOf, Put
  <2> QED BY <2>1, <2>2
<1>18. Patient => Since(k, r, 0)
  BY <1>8, <1>9, <1>10 DEF Since, Put
<1> QED BY <1>4, <1>8, <1>13, <1>14, <1>15, <1>16, <1>17, <1>18 DEF Life, Owned, Runnable

\* A process is born, with a pid that nobody has had.
LEMMA CreateGood ==
  ASSUME NEW k, Returnable(k), NEW n \in Nat, Life(k, n), Runnable(k), NEW slot \in Slots,
         k.table[slot].state = "FREE", NEW fg \in 0..3
  PROVE  LET r == process_create(k, slot, n + 1, fg)
         IN  /\ Life(r, n + 1) /\ Runnable(r) /\ r.current = k.current
             /\ \A t \in Slots \ {slot} : r.table[t] = k.table[t]
<1> DEFINE p == [pid |-> n + 1, priority |-> DEFAULT_PRIORITY,
                 remaining_quanta |-> DEFAULT_PRIORITY, wait_ticks |-> 0,
                 state |-> IF fg \in {2, 3} THEN "BLOCKED" ELSE "READY",
                 foreground |-> fg # 0,
                 parent_pid |-> k.table[k.current].pid,
                 waiting_for |-> 0, stack |-> TRUE]
           d == Set(k, slot, p)
           r == scheduler_add(d, slot)
<1>1. /\ KType(k) /\ k.table[k.current] \in PCB /\ idle_pcb \in Slots /\ k.current \in Slots
      /\ (k.kbd # NULL => k.kbd \in Slots /\ k.table[k.kbd].state # "FREE")
      /\ k.table[k.current].state # "FREE"
  BY ReturnableTypes, ConstantsAssumption DEF Slots, idle_pcb, Returnable, Consistent, KType
<1>2. process_create(k, slot, n + 1, fg) = r
  BY DEF process_create
<1>3. /\ p \in PCB /\ p.state \notin {"FREE", "ZOMBIE"} /\ p.pid = n + 1
      /\ p.waiting_for = 0 /\ p.stack = TRUE
  <2>1. 0 \in 0..MAX_WAIT /\ DEFAULT_PRIORITY \in Priorities
        /\ DEFAULT_PRIORITY \in 0..MAX_PRIORITY
    BY ConstantsAssumption, FreePCBType DEF Priorities, MIN_PRIORITY
  <2>2. k.table[k.current].pid \in Nat
    BY <1>1 DEF PCB
  <2> QED BY <2>1, <2>2 DEF PCB, States
<1> HIDE DEF p
<1>4. /\ KType(d) /\ d.table[slot] = p
      /\ \A t \in Slots \ {slot} : d.table[t] = k.table[t]
      /\ d.current = k.current /\ d.kbd = k.kbd /\ d.force_switch = k.force_switch
  BY ONLY <1>1, <1>3, slot \in Slots, SetFields
<1> HIDE DEF d
<1>5. /\ r.table[slot] = p
      /\ \A t \in Slots \ {slot} : r.table[t] = k.table[t]
      /\ r.current = k.current /\ r.kbd = k.kbd /\ r.force_switch = k.force_switch
  BY <1>4, QueueKeepsTable
<1> HIDE DEF r
<1>6. Owners(r, n + 1)
  <2>1. \A t \in Slots \ {slot} : /\ r.table[t].pid # n + 1
                                  /\ r.table[t].pid \in 1..n => r.table[t].pid \in 1..(n + 1)
    BY <1>5 DEF Life, Owned, Owners
  <2>2. p.pid \in 1..(n + 1)
    BY <1>3
  <2> QED BY <1>3, <1>5, <2>1, <2>2 DEF Life, Owned, Owners
<1>7. IdleWaits(r)
  BY <1>1, <1>5 DEF Life, Owned, IdleWaits
<1>8. r.kbd # NULL => r.table[r.kbd].foreground
  BY <1>1, <1>5 DEF Life, Owned
<1>9. ASSUME Patient PROVE Asleep(r)
  BY <1>1, <1>3, <1>5, <1>9 DEF Life, Asleep
<1>10. ASSUME Misuse = {} PROVE Minded(r)
  <2> SUFFICES ASSUME NEW s \in Slots, r.table[s].waiting_for # 0
               PROVE  \E x \in Slots : ChildOf(r, s, x)
    BY DEF Minded
  <2>1. s # slot
    BY <1>3, <1>5
  <2>2. PICK x \in Slots : ChildOf(k, s, x)
    BY <1>5, <1>10, <2>1 DEF Life, Minded
  <2> QED BY <1>5, <2>1, <2>2 DEF ChildOf
<1>11. Runnable(r)
  BY <1>1, <1>5 DEF Runnable
<1> QED BY <1>2, <1>5, <1>6, <1>7, <1>8, <1>9, <1>10, <1>11 DEF Life, Owned

\* sys_yield.
LEMMA YieldGood ==
  ASSUME NEW k, KType(k), NEW n \in Nat, Life(k, n), Runnable(k),
         k.table[k.current].state # "FREE", Outside(k, k.current)
  PROVE  LET r == [Set(k, k.current, [k.table[k.current] EXCEPT !.state = "READY"])
                     EXCEPT !.force_switch = TRUE]
         IN  Good(k, r, n, 0) /\ r.current = k.current
<1> DEFINE cur == k.current
           p == [k.table[cur] EXCEPT !.state = "READY"]
           m == Set(k, cur, p)
           r == [m EXCEPT !.force_switch = TRUE]
<1>1. cur \in Slots /\ k.table[cur] \in PCB
  BY DEF KType
<1>2. p \in PCB /\ Put(k.table[cur], p, "READY", k.table[cur].waiting_for)
  BY ONLY <1>1, StateNames, WriteState, PutState, Zenon
<1> HIDE DEF p
<1>3. KType(m) /\ Moved(k, m, {cur}, "READY") /\ m.current = cur
  BY <1>1, <1>2, SetFields, SetMoves
<1> HIDE DEF m
<1>4. r.table = m.table /\ r.kbd = m.kbd /\ r.current = m.current /\ r.force_switch = TRUE
  BY <1>3 DEF KType
<1>5. Moved(k, r, {cur}, "READY")
  BY <1>3, <1>4 DEF Moved
<1> HIDE DEF r
<1>6. Good(k, r, n, 0)
  BY <1>1, <1>3, <1>4, <1>5, MovedGood
<1> QED BY <1>3, <1>4, <1>6 DEF r, m, p

\* The reader sleeps and the keyboard driver knows it.
LEMMA ReadGood ==
  ASSUME NEW k, KType(k), NEW n \in Nat, Life(k, n), k.current # idle_pcb,
         k.table[k.current].state # "FREE", Outside(k, k.current),
         k.table[k.current].foreground
  PROVE  LET r == [Set(k, k.current, [k.table[k.current] EXCEPT !.state = "BLOCKED"])
                     EXCEPT !.kbd = k.current, !.force_switch = TRUE]
         IN  Good(k, r, n, 0) /\ r.current = k.current
<1> DEFINE cur == k.current
           p == [k.table[cur] EXCEPT !.state = "BLOCKED"]
           m == Set(k, cur, p)
           r == [m EXCEPT !.kbd = cur, !.force_switch = TRUE]
<1>1. cur \in Slots /\ k.table[cur] \in PCB
  BY DEF KType
<1>2. p \in PCB /\ Put(k.table[cur], p, "BLOCKED", k.table[cur].waiting_for)
  BY ONLY <1>1, StateNames, WriteState, PutState, Zenon
<1> HIDE DEF p
<1>3. KType(m) /\ Moved(k, m, {cur}, "BLOCKED") /\ m.current = cur /\ m.table[cur] = p
  BY <1>1, <1>2, SetFields, SetMoves
<1> HIDE DEF m
<1>4. r.table = m.table /\ r.kbd = cur /\ r.current = m.current /\ r.force_switch = TRUE
  BY <1>3 DEF KType
<1> HIDE DEF r
<1>5. Life(m, n) /\ Since(k, m, 0)
  BY <1>1, <1>3, MovedLife, Sinces
<1>6. /\ m.table[cur].foreground /\ m.table[cur].state = "BLOCKED"
      /\ Patient => m.table[cur].waiting_for = 0
  BY <1>2, <1>3 DEF Put, Outside
<1>7. Life(r, n)
  BY <1>1, <1>3, <1>4, <1>5, <1>6, KbdLife, SameSelf
<1>8. Since(k, r, 0)
  BY <1>4, <1>5, SameSelf, Sinces, SinceThen
<1> QED BY <1>3, <1>4, <1>7, <1>8 DEF Good, Runnable, r, m, p

\* A key wakes the reader.
LEMMA KeyGood ==
  ASSUME NEW k, KType(k), NEW n \in Nat, Life(k, n), k.kbd # NULL,
         k.table[k.kbd].state # "FREE",
         Patient => k.table[k.current].state = "RUNNING"
  PROVE  LET r == [Set(k, k.kbd, [k.table[k.kbd] EXCEPT !.state = "READY"])
                     EXCEPT !.kbd = NULL]
         IN  Good(k, r, n, 0) /\ r.current = k.current
<1> DEFINE s == k.kbd
           p == [k.table[s] EXCEPT !.state = "READY"]
           d == Set(k, s, p)
           r == [d EXCEPT !.kbd = NULL]
           m == [k EXCEPT !.kbd = NULL]
<1>1. s \in Slots /\ k.table[s] \in PCB /\ k.current \in Slots
  BY DEF KType
<1>2. p \in PCB /\ Put(k.table[s], p, "READY", k.table[s].waiting_for)
  <2> DEFINE u == k.table[s]
  <2>1. u \in PCB
    BY ONLY <1>1
  <2> HIDE DEF u
  <2>2. LET w == [u EXCEPT !.state = "READY"]
        IN  w \in PCB /\ Put(u, w, "READY", u.waiting_for)
    BY ONLY <2>1, StateNames, WriteState, PutState, Zenon
  <2> QED BY ONLY <2>2 DEF u
<1> HIDE DEF p
<1>3. KType(d) /\ d.current = k.current /\ d.table[s] = p
      /\ \A t \in Slots \ {s} : d.table[t] = k.table[t]
  <2>1. KType(k) /\ s \in Slots /\ p \in PCB
    BY ONLY KType(k), <1>1, <1>2
  <2> HIDE DEF s
  <2> QED BY ONLY <2>1, SetFields
<1> HIDE DEF d
<1>4. r.table = d.table /\ r.kbd = NULL /\ r.current = d.current
  BY <1>3 DEF KType
<1>5. KType(m) /\ m.table = k.table /\ m.kbd = NULL
  BY DEF KType
<1> HIDE DEF r, m
<1>6. Life(m, n) /\ Since(k, m, 0)
  BY <1>5, KbdLife, SameSelf, Sinces
<1>7. Moved(m, r, {s}, "READY")
  BY <1>2, <1>3, <1>4, <1>5, SameSelf DEF Moved
<1>8. Outside(m, s)
  BY <1>5 DEF Outside, Life, Asleep
<1>9. Life(r, n) /\ Since(k, r, 0)
  BY <1>1, <1>5, <1>6, <1>7, <1>8, MovedLife, Sinces, SinceThen
<1>10. Patient => k.current # s
  BY DEF Life, Asleep
<1>11. Runnable(r)
  BY <1>1, <1>3, <1>4, <1>10 DEF Runnable
<1> QED BY <1>3, <1>4, <1>9, <1>11 DEF Good, r, d, p

-----------------------------------------------------------------------------
(***************************************************************************)
(* The second invariant.                                                   *)
(***************************************************************************)
LifeInv == /\ Life(Kernel, next_pid)
           /\ Patient => process_table[current_process].state = "RUNNING"

\* From k to r no wait ends but that for a process that is gone.
WaitsKept(k, r) ==
    \A s \in Slots :
        (/\ k.table[s].waiting_for # 0
         /\ k.table[s].pid = r.table[s].pid
         /\ r.table[s].waiting_for # k.table[s].waiting_for)
           => \A t \in Slots : r.table[t].pid # k.table[s].waiting_for

\* A wait that ends for d only, where d is gone in the end, is as waitpid says.
LEMMA SinceKeeps ==
  ASSUME NEW k, NEW r, NEW n \in Nat, Life(k, n), NEW d, Since(k, r, d),
         \/ d = 0
         \/ \E x \in Slots : /\ k.table[x].state # "FREE" /\ k.table[x].pid = d
                             /\ r.table[x].pid = 0
  PROVE  WaitsKept(k, r)
<1> SUFFICES ASSUME NEW s \in Slots, k.table[s].waiting_for # 0,
                    k.table[s].pid = r.table[s].pid,
                    r.table[s].waiting_for # k.table[s].waiting_for,
                    NEW t \in Slots, r.table[t].pid = k.table[s].waiting_for
             PROVE  FALSE
  BY DEF WaitsKept
<1>1. k.table[s].state # "FREE" /\ k.table[s].pid # 0
  BY DEF Life, Owned, Owners
<1>2. k.table[s].waiting_for = d /\ d # 0
  BY <1>1 DEF Since
<1>3. PICK x \in Slots : /\ k.table[x].state # "FREE" /\ k.table[x].pid = d
                         /\ r.table[x].pid = 0
  BY <1>2
<1>4. k.table[t].pid = d
  BY <1>2 DEF Since
<1>5. t = x
  BY <1>3, <1>4 DEF Life, Owned, Owners
<1> QED BY <1>2, <1>3, <1>5

\* The state that boot leaves.
LEMMA InitLife == Init => LifeInv
<1> SUFFICES ASSUME Init PROVE LifeInv
  OBVIOUS
<1> DEFINE k == Kernel
           idle == [FreePCB EXCEPT !.pid = IDLE_PID, !.state = "READY",
                                   !.remaining_quanta = 1, !.stack = TRUE]
           first == [FreePCB EXCEPT !.pid = SHELL_PID, !.state = "RUNNING",
                       !.priority = DEFAULT_PRIORITY, !.remaining_quanta = DEFAULT_PRIORITY,
                       !.foreground = TRUE, !.stack = TRUE]
<1>1. 0 \in Slots /\ 1 \in Slots
  BY ConstantsAssumption DEF Slots
<1>2. /\ k.table = [s \in Slots |-> IF s = 0 THEN idle ELSE IF s = 1 THEN first ELSE FreePCB]
      /\ k.kbd = NULL /\ next_pid = 2 /\ k.table = process_table /\ current_process = 1
  BY DEF Init, Kernel, SHELL_PID
<1>3. /\ idle.state = "READY" /\ idle.pid = 1 /\ idle.stack = TRUE /\ idle.waiting_for = 0
      /\ idle.foreground = FALSE
      /\ first.state = "RUNNING" /\ first.pid = 2 /\ first.stack = TRUE
      /\ first.waiting_for = 0
  BY DEF FreePCB, IDLE_PID, SHELL_PID
<1> HIDE DEF idle, first, k
<1>4. k.table[0] = idle /\ k.table[1] = first
      /\ \A s \in Slots \ {0, 1} : k.table[s] = FreePCB
  BY <1>1, <1>2
<1>5. Owners(k, 2)
  <2>1. 1 \in 1..2 /\ 2 \in 1..2
    OBVIOUS
  <2> QED BY <1>3, <1>4, <2>1, FreeIsBare DEF Owners
<1>6. IdleWaits(k)
  BY <1>3, <1>4 DEF IdleWaits, idle_pcb, IDLE_PID
<1>7. \A s \in Slots : k.table[s].waiting_for = 0
  BY <1>3, <1>4, FreeIsBare
<1>8. Life(k, 2)
  BY <1>2, <1>5, <1>6, <1>7 DEF Life, Owned, Asleep, Minded
<1> QED BY <1>2, <1>3, <1>4, <1>8 DEF LifeInv, k

\* The record that ends a handler is the next state's.
LEMMA EndedInv ==
  ASSUME NEW m, NEW n \in Nat, Ended(m, Kernel', n), next_pid' = n
  PROVE  LifeInv'
<1>1. Kernel'.table = process_table' /\ Kernel'.current = current_process'
  BY DEF Kernel
<1>2. Life(Kernel', next_pid') /\ (Patient => Kernel'.table[Kernel'.current].state = "RUNNING")
  BY DEF Ended
<1> QED BY <1>1, <1>2 DEF LifeInv

\* A handler whose functions are Good, up to its return.
LEMMA GoodReturn ==
  ASSUME NEW k, NEW r, NEW n \in Nat, Life(k, n), Returnable(r), Good(k, r, n, 0),
         Return(r), next_pid' = n
  PROVE  LifeInv' /\ WaitsKept(k, Kernel')
<1>1. Ended(r, Kernel', n)
  BY ReturnEnds DEF Good
<1>2. Since(k, Kernel', 0)
  BY <1>1, SinceThen DEF Ended, Good
<1> QED BY <1>1, <1>2, EndedInv, SinceKeeps

\* A handler in which slot x dies.
LEMMA DeathReturn ==
  ASSUME NEW k, NEW r, NEW n \in Nat, Life(k, n), NEW x \in Slots, k.table[x].state # "FREE",
         Returnable(r), Good(k, r, n, k.table[x].pid), Return(r), next_pid' = n,
         r.table[x].pid = 0 \/ (r.current = x /\ r.table[x].state = "ZOMBIE")
  PROVE  LifeInv' /\ WaitsKept(k, Kernel')
<1>1. Ended(r, Kernel', n)
  BY ReturnEnds DEF Good
<1>2. Since(k, Kernel', k.table[x].pid)
  BY <1>1, SinceThen DEF Ended, Good
<1>3. Kernel'.table[x].pid = 0
  BY <1>1 DEF Ended, Since
<1>4. WaitsKept(k, Kernel')
  BY <1>2, <1>3, SinceKeeps
<1> QED BY <1>1, <1>4, EndedInv

\* Every handler preserves it, and ends waits as waitpid promises, as long as
\* programs leave idle alone.
LEMMA NextLife ==
  ASSUME "idle" \notin Misuse, Inv, LifeInv, Next
  PROVE  LifeInv' /\ (Patient => WaitsKept(Kernel, Kernel'))
<1> DEFINE k == Kernel
           n == next_pid
           Done == LifeInv' /\ WaitsKept(k, Kernel')
<1>1. /\ Settled(k) /\ Returnable(k) /\ KType(k) /\ n \in Nat
      /\ k.current \in Slots /\ k.table[k.current].state # "FREE"
      /\ k.table[k.current].state # "ZOMBIE"
  BY ReturnableTypes DEF Inv, Settled, Returnable, Consistent
<1>2. /\ k.table = process_table /\ k.current = current_process
      /\ k.kbd = kbd_waiting_process
  BY DEF Kernel
<1>3. Life(k, n) /\ Runnable(k) /\ (Patient => k.table[k.current].state = "RUNNING")
  BY <1>2 DEF LifeInv, Runnable
<1>4. Outside(k, k.current)
  <2>1. NULL \notin Slots
    BY DEF NULL, Slots
  <2> QED BY <1>1, <1>3, <2>1 DEF Outside, Life, Asleep
<1>5. \A s \in Slots : MayUnblock(s) => Outside(k, s)
  BY <1>2 DEF MayUnblock, Internal, Outside, Patient
<1>6. \A s \in Slots : \A W \in Releasable(s) :
         W \in SUBSET (Slots \ {s}) /\ \A t \in W : Outside(k, t)
  BY <1>5 DEF Releasable
<1>7. Targets \subseteq Nat \ {IDLE_PID}
  BY <1>1 DEF Targets
<1>8. \A name : Syscall(name) => k.current # idle_pcb
  BY <1>2, <1>3 DEF Syscall, Life, Owned, IdleWaits, IDLE_PID
<1>9. \A pid : process_get(k, pid) # NULL =>
         /\ process_get(k, pid) \in Slots /\ k.table[process_get(k, pid)].pid = pid
         /\ k.table[process_get(k, pid)].state # "FREE"
  BY <1>1, <1>3, GetPid DEF Life, Owned
<1>10. ASSUME NEW s \in Slots, k.table[s].state # "FREE", s # idle_pcb, Kill(s) PROVE Done
  <2>1. PICK sem_woken \in Releasable(s), fd_woken \in Releasable(s) :
          Return(process_kill(k, s, sem_woken, fd_woken))
    BY <1>10 DEF Kill
  <2>2. next_pid' = n
    BY <1>10 DEF Kill
  <2> HIDE DEF k, n
  <2> DEFINE r == process_kill(k, s, sem_woken, fd_woken)
  <2>3. /\ sem_woken \in SUBSET (Slots \ {s}) /\ fd_woken \in SUBSET (Slots \ {s})
        /\ \A t \in sem_woken \cup fd_woken : Outside(k, t)
    BY <1>6
  <2>4. Returnable(r)
    BY <1>1, <2>3, KillReturnable
  <2>5. /\ Good(k, r, n, k.table[s].pid) /\ r.current = k.current
        /\ s = k.current => r.table[s].state = "ZOMBIE"
        /\ s # k.current => r.table[s].pid = 0
    BY <1>1, <1>3, <1>4, <1>10, <2>3, KillGood
  <2>6. Return(r)
    BY <2>1
  <2> HIDE DEF r
  <2> QED BY <1>1, <1>3, <1>10, <2>2, <2>4, <2>5, <2>6, DeathReturn
<1>11. ASSUME NEW fg \in 0..3, sys_create_process(fg) PROVE Done
  <2>1. PICK slot \in Slots : /\ process_table[slot].state = "FREE"
                              /\ Return(process_create(k, slot, n + 1, fg))
    BY <1>11 DEF sys_create_process
  <2>2. k.table[slot].state = "FREE" /\ next_pid' = n + 1
    BY <1>2, <1>11, <2>1 DEF sys_create_process
  <2> HIDE DEF k, n
  <2> DEFINE r == process_create(k, slot, n + 1, fg)
  <2>3. n + 1 \in Nat
    BY <1>1
  <2>4. Returnable(r)
    BY <1>1, <2>2, <2>3, CreateReturnable
  <2>5. /\ Life(r, n + 1) /\ Runnable(r)
        /\ \A t \in Slots \ {slot} : r.table[t] = k.table[t]
    BY <1>1, <1>3, <2>2, CreateGood
  <2>6. Return(r)
    BY <2>1
  <2> HIDE DEF r
  <2>7. Ended(r, Kernel', n + 1)
    BY <2>3, <2>4, <2>5, <2>6, ReturnEnds
  <2>8. LifeInv'
    BY <2>2, <2>3, <2>7, EndedInv
  <2>9. WaitsKept(k, Kernel')
    <3>1. \A s \in Slots : k.table[s].waiting_for # 0 =>
             s # slot /\ k.table[s].pid # 0
      BY <1>1, <1>3, <2>2 DEF Life, Owned, Owners
    <3>2. Since(r, Kernel', 0)
      BY <2>7 DEF Ended
    <3> QED BY <2>5, <3>1, <3>2 DEF WaitsKept, Since
  <2> QED BY <2>8, <2>9
<1>12. ASSUME sys_exit PROVE Done
  <2>1. PICK woken \in Releasable(current_process) : Return(process_exit(k, woken))
    BY <1>12 DEF sys_exit
  <2>2. woken \in SUBSET (Slots \ {k.current}) /\ (\A t \in woken : Outside(k, t))
        /\ woken \in SUBSET Slots
    BY <1>1, <1>2, <1>6
  <2>3. k.current # idle_pcb /\ next_pid' = n
    BY <1>8, <1>12 DEF sys_exit
  <2> HIDE DEF k, n
  <2> DEFINE r == process_exit(k, woken)
  <2>4. Returnable(r)
    BY <1>1, <2>2, ExitReturnable
  <2>5. /\ Good(k, r, n, k.table[k.current].pid) /\ r.current = k.current
        /\ r.table[k.current].state = "ZOMBIE"
    BY <1>1, <1>3, <1>4, <2>2, <2>3, ExitGood
  <2>6. Return(r)
    BY <2>1
  <2> HIDE DEF r
  <2> QED BY <1>1, <1>3, <2>3, <2>4, <2>5, <2>6, DeathReturn
<1>13. ASSUME NEW pid \in Targets, sys_kill(pid) PROVE Done
  <2> DEFINE s == process_get(k, pid)
  <2>1. s \in Slots /\ k.table[s].pid = pid /\ k.table[s].state # "FREE" /\ Kill(s)
    BY <1>9, <1>13 DEF sys_kill
  <2>2. s # idle_pcb
    BY <1>3, <1>7, <2>1 DEF Life, Owned, IdleWaits
  <2> HIDE DEF s, k
  <2> QED BY <1>10, <2>1, <2>2
<1>14. ASSUME NEW pid \in Targets, NEW v \in NiceArguments, sys_nice(pid, v) PROVE Done
  <2>1. Return(process_nice(k, pid, v)) /\ next_pid' = n
    BY <1>14 DEF sys_nice
  <2>2. v \in Nat
    BY ConstantsAssumption
  <2> HIDE DEF k, n
  <2>3. Returnable(process_nice(k, pid, v)) /\ Good(k, process_nice(k, pid, v), n, 0)
    BY <1>1, <1>3, <2>2, NiceReturnable, NiceGood
  <2> QED BY <1>1, <1>3, <2>1, <2>3, GoodReturn
<1>15. ASSUME NEW pid \in Targets, MayUnblock(process_get(k, pid)) \/ process_get(k, pid) = NULL,
              Return(process_unblock(k, pid)), next_pid' = n
       PROVE  Done
  <2>1. process_get(k, pid) # NULL => Outside(k, process_get(k, pid))
    BY <1>5, <1>9, <1>15
  <2> HIDE DEF k, n
  <2>2. Returnable(process_unblock(k, pid)) /\ Good(k, process_unblock(k, pid), n, 0)
    BY <1>1, <1>3, <2>1, UnblockReturnable, UnblockGood
  <2> QED BY <1>1, <1>3, <1>15, <2>2, GoodReturn
<1>16. ASSUME NEW pid \in Targets, sys_block(pid) PROVE Done
  <2>1. /\ next_pid' = n
        /\ \/ MayUnblock(process_get(k, pid)) /\ Return(process_unblock(k, pid))
           \/ Return(process_block(k, pid))
    BY <1>16 DEF sys_block
  <2>2. pid # IDLE_PID
    BY <1>7
  <2> HIDE DEF k, n
  <2>3. Returnable(process_block(k, pid)) /\ Good(k, process_block(k, pid), n, 0)
    BY <1>1, <1>3, <2>2, BlockReturnable, BlockGood
  <2>4. CASE Return(process_block(k, pid))
    BY <1>1, <1>3, <2>1, <2>3, <2>4, GoodReturn
  <2> QED BY <1>15, <2>1, <2>4
<1>17. ASSUME NEW pid \in Targets, sys_unblock(pid) PROVE Done
  BY <1>15, <1>17 DEF sys_unblock
<1>18. ASSUME sys_yield PROVE Done
  <2> DEFINE m == Set(k, k.current, [k.table[k.current] EXCEPT !.state = "READY"])
             r == [m EXCEPT !.force_switch = TRUE]
  <2>1. Return(r) /\ next_pid' = n
    BY <1>2, <1>18 DEF sys_yield
  <2> HIDE DEF k, n
  <2>2. Good(k, r, n, 0)
    BY <1>1, <1>3, <1>4, YieldGood
  <2>3. Returnable(m)
    BY <1>1, PutReturnable
  <2> HIDE DEF m
  <2>4. Returnable(r)
    BY <2>3, FlagReturnable
  <2> HIDE DEF r
  <2> QED BY <1>1, <1>3, <2>1, <2>2, <2>4, GoodReturn
<1>19. ASSUME NEW pid \in Targets, sys_waitpid(pid)
       PROVE  LifeInv' /\ (Patient => WaitsKept(k, Kernel'))
  <2>1. /\ Return(process_waitpid(k, pid)) /\ next_pid' = n
        /\ process_get(k, pid) # NULL /\ k.current # idle_pcb
        /\ \/ "wait_stranger" \in Misuse
           \/ k.table[process_get(k, pid)].parent_pid = k.table[k.current].pid
    BY <1>2, <1>8, <1>19 DEF sys_waitpid
  <2>2. pid \in Nat
    BY <1>7
  <2>3. Misuse = {} => k.table[process_get(k, pid)].parent_pid = k.table[k.current].pid
    BY <2>1
  <2> HIDE DEF k, n
  <2> DEFINE r == process_waitpid(k, pid)
  <2>4. Returnable(r)
    BY <1>1, <2>2, WaitpidReturnable
  <2>5. Life(r, n) /\ Runnable(r) /\ (Patient => Since(k, r, 0))
    BY <1>1, <1>3, <2>1, <2>2, <2>3, WaitpidGood
  <2>6. Return(r)
    BY <2>1
  <2> HIDE DEF r
  <2>7. Ended(r, Kernel', n)
    BY <1>1, <2>4, <2>5, <2>6, ReturnEnds
  <2>8. Patient => Since(k, Kernel', 0)
    BY <2>5, <2>7, SinceThen DEF Ended
  <2> QED BY <1>1, <1>3, <2>1, <2>7, <2>8, EndedInv, SinceKeeps
<1>20. ASSUME sys_read PROVE Done
  <2> DEFINE m == Set(k, k.current, [k.table[k.current] EXCEPT !.state = "BLOCKED"])
             w == [m EXCEPT !.kbd = k.current]
             f == [w EXCEPT !.force_switch = TRUE]
             r == [m EXCEPT !.kbd = k.current, !.force_switch = TRUE]
  <2>1. /\ Return(r) /\ next_pid' = n /\ k.current # idle_pcb
        /\ k.table[k.current].foreground
    BY <1>2, <1>8, <1>20 DEF sys_read
  <2> HIDE DEF k, n
  <2>2. Good(k, r, n, 0)
    BY <1>1, <1>3, <1>4, <2>1, ReadGood, Zenon
  <2>3. Returnable(m) /\ m.table[k.current].state = "BLOCKED"
    BY <1>1, PutReturnable
  <2> HIDE DEF m
  <2>4. KType(m) /\ Returnable(w)
    BY <1>1, <2>3, KbdReturnable, ReturnableTypes
  <2>5. f = r
    BY ONLY <2>4 DEF KType, f, w, r
  <2> HIDE DEF w, r
  <2>6. Returnable(f)
    BY <2>4, FlagReturnable
  <2> HIDE DEF f
  <2> QED BY <1>1, <1>3, <2>1, <2>2, <2>5, <2>6, GoodReturn
<1>21. ASSUME KeyPress PROVE Done
  <2> DEFINE m == Set(k, k.kbd, [k.table[k.kbd] EXCEPT !.state = "READY"])
             r == [m EXCEPT !.kbd = NULL]
  <2>1. Return(r) /\ next_pid' = n /\ k.kbd # NULL
    BY <1>2, <1>21 DEF KeyPress
  <2> HIDE DEF k, n
  <2>2. k.kbd \in Slots /\ k.table[k.kbd].state # "FREE"
    BY <1>1, <2>1 DEF KType, Returnable, Consistent
  <2>3. Good(k, r, n, 0)
    BY <1>1, <1>3, <2>1, <2>2, KeyGood
  <2>4. Returnable(m)
    BY <1>1, <2>2, PutReturnable
  <2> HIDE DEF m
  <2>5. Returnable(r)
    BY <2>4, KbdReturnable
  <2> HIDE DEF r
  <2> QED BY <1>1, <1>3, <2>1, <2>3, <2>5, GoodReturn
<1>22. ASSUME CtrlC PROVE Done
  <2>1. PICK s \in Slots : /\ Kill(s) /\ k.table[s].state # "FREE"
                           /\ k.table[s].foreground
    BY <1>22 DEF CtrlC, KillTarget, Foreground
  <2>2. s # idle_pcb
    BY <1>3, <2>1 DEF Life, Owned, IdleWaits
  <2> HIDE DEF k
  <2> QED BY <1>10, <2>1, <2>2
<1>23. ASSUME Tick PROVE Done
  <2>1. scheduler_tick(k) /\ next_pid' = n
    BY <1>23 DEF Tick
  <2> HIDE DEF k, n
  <2>2. Ended(k, Kernel', n)
    BY <1>1, <1>3, <2>1, TickEnds
  <2> QED BY <1>1, <1>3, <2>1, <2>2, EndedInv, SinceKeeps DEF Ended
<1> QED BY <1>11, <1>12, <1>13, <1>14, <1>16, <1>17, <1>18, <1>19, <1>20, <1>21, <1>22, <1>23
        DEF Next

\* As long as programs leave idle alone, every state that is reached satisfies
\* LifeInv, with the parts that the rest of Misuse allows.
THEOREM LifeInvariance ==
  ASSUME "idle" \notin Misuse
  PROVE  Spec => []LifeInv
<1>1. Init => LifeInv
  BY InitLife
<1>2. Inv /\ LifeInv /\ [Next]_vars => LifeInv'
  <2> SUFFICES ASSUME Inv, LifeInv, [Next]_vars PROVE LifeInv'
    OBVIOUS
  <2>1. CASE Next
    BY <2>1, NextLife
  <2>2. CASE UNCHANGED vars
    <3>1. /\ Kernel' = Kernel /\ next_pid' = next_pid /\ process_table' = process_table
          /\ current_process' = current_process
      BY <2>2 DEF vars, Kernel
    <3>2. Life(Kernel', next_pid')
      BY <3>1 DEF LifeInv
    <3> QED BY <3>1, <3>2 DEF LifeInv
  <2> QED BY <2>1, <2>2
<1> QED BY <1>1, <1>2, Invariance, PTL DEF Spec

\* As long as programs leave idle alone, process_create never gives a pid or a
\* slot that is taken, and process_kill and the reaping release the stack of a
\* process with the process itself.
THEOREM PidsAreUnique ==
  ASSUME "idle" \notin Misuse
  PROVE  Spec => []PidsAndStacks
<1>1. LifeInv => PidsAndStacks
  <2> SUFFICES ASSUME LifeInv PROVE PidsAndStacks
    OBVIOUS
  <2>1. Owners(Kernel, next_pid) /\ Kernel.table = process_table
    BY DEF LifeInv, Life, Owned, Kernel
  <2> QED BY <2>1 DEF Owners, PidsAndStacks, Live
<1> QED BY <1>1, LifeInvariance, PTL

\* As long as nobody touches idle or wakes a process inside waitpid or a
\* terminal read, the CPU always returns to a process that is RUNNING, on a
\* stack that has not been released.
THEOREM CurrentAlwaysRuns ==
  ASSUME "idle" \notin Misuse, "unblock_internal" \notin Misuse
  PROVE  Spec => []CurrentRuns
<1>1. Inv /\ LifeInv => CurrentRuns
  <2> SUFFICES ASSUME Inv, LifeInv PROVE CurrentRuns
    OBVIOUS
  <2>1. /\ Owners(Kernel, next_pid) /\ Kernel.table = process_table
        /\ current_process \in Slots /\ process_table[current_process].state = "RUNNING"
    BY DEF Inv, Settled, Consistent, KType, LifeInv, Life, Owned, Kernel, Patient
  <2> QED BY <2>1 DEF Owners, CurrentRuns
<1> QED BY <1>1, Invariance, LifeInvariance, PTL

\* As long as nobody touches idle or wakes a process inside waitpid or a
\* terminal read, kbd_waiting_process is a foreground process that sleeps: the
\* READY that the keyboard driver stores never hits a process that runs, is ready
\* or is gone.
THEOREM KeyWakesSleeper ==
  ASSUME "idle" \notin Misuse, "unblock_internal" \notin Misuse
  PROVE  Spec => []KbdWaiterBlocked
<1>1. LifeInv => KbdWaiterBlocked
  BY DEF LifeInv, Life, Owned, Asleep, Kernel, Patient, KbdWaiterBlocked
<1> QED BY <1>1, LifeInvariance, PTL

\* Programs that wait for their children only, and wake nobody out of a wait,
\* never wait for a process that is gone.
THEOREM WaitersHaveChildren ==
  ASSUME Misuse = {}
  PROVE  Spec => []WaiterHasChild
<1>1. LifeInv => WaiterHasChild
  <2> SUFFICES ASSUME LifeInv, NEW s \in Slots, process_table[s].waiting_for # 0
               PROVE  /\ process_table[s].state = "BLOCKED"
                      /\ \E c \in Slots : /\ Live(c)
                                          /\ process_table[c].pid = process_table[s].waiting_for
                                          /\ process_table[c].parent_pid = process_table[s].pid
    BY DEF WaiterHasChild
  <2>1. Asleep(Kernel) /\ Minded(Kernel) /\ Kernel.table = process_table
    BY DEF LifeInv, Life, Patient, Kernel
  <2>2. PICK c \in Slots : ChildOf(Kernel, s, c)
    BY <2>1 DEF Minded
  <2> QED BY <2>1, <2>2 DEF Asleep, ChildOf, Live
<1>2. "idle" \notin Misuse
  OBVIOUS
<1> QED BY <1>1, <1>2, LifeInvariance, PTL

\* As long as nobody touches idle or wakes a process inside waitpid or a
\* terminal read, a wait ends in the step in which the process waited for
\* vanishes from the table, and in no other: wake_parent wakes the waiter of the
\* process that dies only, whoever it was that waited.
THEOREM WaitsEndWithDeath ==
  ASSUME "idle" \notin Misuse, "unblock_internal" \notin Misuse
  PROVE  Spec => WaitEndsWithDeath
<1> DEFINE Kept == \A s \in Slots :
                     LET c == process_table[s].waiting_for
                     IN  (c # 0 /\ process_table[s].pid = process_table'[s].pid
                            /\ process_table'[s].waiting_for # c)
                           => \A t \in Slots : process_table'[t].pid # c
<1>1. Inv /\ LifeInv /\ [Next]_vars => [Kept]_vars
  <2> SUFFICES ASSUME Inv, LifeInv, Next PROVE Kept
    BY DEF vars
  <2>1. WaitsKept(Kernel, Kernel')
    BY NextLife DEF Patient
  <2>2. Kernel.table = process_table /\ Kernel'.table = process_table'
    BY DEF Kernel
  <2> QED BY <2>1, <2>2 DEF WaitsKept
<1>2. WaitEndsWithDeath <=> [][Kept]_vars
  BY PTL DEF WaitEndsWithDeath
<1> QED BY <1>1, <1>2, Invariance, LifeInvariance, PTL DEF Spec

-----------------------------------------------------------------------------
(***************************************************************************)
(* test_processes.  Of the processes in the table the shell alone sleeps   *)
(* in waitpid, and it and the test alone are in the foreground; the others *)
(* are idle and what the test has created, and make no calls.              *)
(***************************************************************************)
Requests == 1..MAX_PROCESSES

Scene(k, n) ==
    /\ \A s \in Slots : k.table[s].state # "FREE" =>
          /\ k.table[s].pid \in 1..n
          /\ k.table[s].foreground => k.table[s].pid \in {SHELL_PID, TEST_PID}
          /\ k.table[s].pid # SHELL_PID => k.table[s].waiting_for = 0
    /\ \A s, t \in Slots : (k.table[s].state # "FREE" /\ k.table[t].state # "FREE"
                              /\ k.table[s].pid = k.table[t].pid) => s = t
    /\ k.table[idle_pcb].state \in {"READY", "RUNNING"}
    /\ k.table[idle_pcb].pid = IDLE_PID

\* The kernel's states of a process that the test believes to be in state rs.
Believed(rs) == IF rs = "BLOCKED" THEN {"BLOCKED"} ELSE {"READY", "RUNNING"}

\* The requests rqs with the pids ids are the processes that the test created.
Listed(k, rqs, ids, n) ==
    /\ \A i \in Requests :
          IF rqs[i] = "KILLED"
            THEN /\ ids[i] \in 0..n
                 /\ \A s \in Slots : k.table[s].state # "FREE" => k.table[s].pid # ids[i]
            ELSE /\ ids[i] \in (TEST_PID + 1)..n
                 /\ \E s \in Slots : /\ k.table[s].pid = ids[i]
                                     /\ k.table[s].state \in Believed(rqs[i])
    /\ \A i, j \in Requests :
          (rqs[i] # "KILLED" /\ rqs[j] # "KILLED" /\ ids[i] = ids[j]) => i = j
    /\ \A s \in Slots : (k.table[s].state # "FREE" /\ k.table[s].pid > TEST_PID)
          => \E i \in Requests : rqs[i] # "KILLED" /\ ids[i] = k.table[s].pid

Hired(rqs) == {i \in Requests : rqs[i] # "KILLED"}

Book == [Requests -> {"RUNNING", "BLOCKED", "KILLED"}]

\* The program, with m = max_processes: in the loop that creates, the requests
\* before r are there; alive counts them, and the one just killed.
Course(m, at, r, rqs, ids, al, n) ==
    /\ m \in Requests /\ r \in 1..m /\ rqs \in Book /\ ids \in [Requests -> Nat]
    /\ at \in [{SHELL_PID, TEST_PID} ->
                 {"create", "failed", "act", "wait", "unblock", "done", "read"}]
    /\ at[SHELL_PID] = "create" => n = SHELL_PID
    /\ at[TEST_PID] = "create" => \A i \in Requests : rqs[i] # "KILLED" <=> i < r
    /\ at[TEST_PID] = "wait" => rqs[r] = "KILLED"
    /\ at[TEST_PID] = "failed" => m > MAX_PROCESSES - 3
    /\ al = Cardinality(Hired(rqs)) + (IF at[TEST_PID] = "wait" THEN 1 ELSE 0)

AtWork ==
    /\ Settled(Kernel) /\ next_pid \in Nat /\ next_pid >= SHELL_PID
    /\ Scene(Kernel, next_pid)
    /\ Listed(Kernel, p_rqs, pids, next_pid)
    /\ Course(max_processes, pc, rq, p_rqs, pids, alive, next_pid)

BookInv == test = "processes" => AtWork

-----------------------------------------------------------------------------
(***************************************************************************)
(* What a handler does to the others: a process keeps its pid, its rank    *)
(* and, the shell apart, its sleep; the CPU may change hands.              *)
(***************************************************************************)
Alike(a, b) == a = b \/ (a \in {"READY", "RUNNING"} /\ b \in {"READY", "RUNNING"})

Held(p, q) ==
    /\ q.pid = p.pid /\ q.foreground = p.foreground
    /\ \A dead \in {"FREE", "ZOMBIE"} : q.state = dead <=> p.state = dead
    /\ p.pid # SHELL_PID => Alike(p.state, q.state) /\ q.waiting_for = p.waiting_for

\* All but those of X.
Still(k, r, X) == \A t \in Slots \ X : Held(k.table[t], r.table[t])

IdleReady(k) == k.table[idle_pcb].state \in {"READY", "RUNNING"}

\* Who dies on the CPU is gone after the switch.
Reaped(k) == IF k.table[k.current].state = "ZOMBIE" THEN {k.current} ELSE {}

Left(k, r) == Still(k, r, Reaped(k)) /\ \A t \in Reaped(k) : r.table[t].state = "FREE"

\* A PCB that is not written is kept.
LEMMA HeldSelf == \A p, q : p = q => Held(p, q)
BY DEF Held, Alike

\* Change after change.
LEMMA HeldThen ==
  ASSUME NEW p, NEW q, NEW r, Held(p, q), Held(q, r)
  PROVE  Held(p, r)
BY DEF Held, Alike

\* ... of all processes but X.
LEMMA StillThen ==
  ASSUME NEW k, NEW m, NEW r, NEW X, Still(k, m, X), Still(m, r, X) \/ Still(m, r, {})
  PROVE  Still(k, r, X)
BY HeldThen DEF Still

\* The same table.
LEMMA StillSelf ==
  ASSUME NEW k, NEW r, NEW X, \A t \in Slots \ X : r.table[t] = k.table[t]
  PROVE  Still(k, r, X)
BY HeldSelf DEF Still

\* A write that keeps all but what Held does not look at.
LEMMA PutHeld ==
  ASSUME NEW p, NEW q, NEW st, NEW w, Put(p, q, st, w), st # "FREE", p.state # "FREE",
         st = "ZOMBIE" <=> p.state = "ZOMBIE",
         p.pid = SHELL_PID \/ (Alike(p.state, st) /\ w = p.waiting_for)
  PROVE  Held(p, q)
BY DEF Put, Held

\* The switch.
LEMMA DispatchLeft ==
  ASSUME NEW k, Consistent(k), IdleReady(k)
  PROVE  Left(k, dispatch(k, scheduler_next_ready(k)))
<1> USE ConstantsAssumption
<1> DEFINE c == scheduler_next_ready(k)
           j == [k EXCEPT !.idx = c.idx]
           a == reap(j)
           p == [a.table[c.next] EXCEPT !.wait_ticks = 0, !.state = "RUNNING"]
           b == Set(a, c.next, p)
           d == [b EXCEPT !.current = c.next, !.force_switch = FALSE]
           z == k.table[k.current].state = "ZOMBIE"
<1>1. KType(k) /\ QueueOK(k) /\ k.current \in Slots /\ idle_pcb \in Slots
  BY DEF Consistent, KType, idle_pcb, Slots
<1>2. /\ c.next \in Slots /\ c.idx \in Nat
      /\ k.table[c.next].state \in {"READY", "RUNNING"}
  BY <1>1, NextReady DEF IdleReady
<1>3. dispatch(k, c) = d
  BY DEF dispatch
<1> HIDE DEF c
<1>4. KType(j) /\ j.table = k.table /\ j.current = k.current
  BY <1>1, <1>2 DEF KType
<1> HIDE DEF j
<1>5. /\ KType(a)
      /\ z => a.table[k.current].state = "FREE"
      /\ \A t \in Slots \ Reaped(k) : a.table[t] = k.table[t]
  <2>1. CASE ~z
    BY <1>4, <2>1 DEF reap
  <2>2. CASE z
    <3> DEFINE m == scheduler_remove(j, k.current)
    <3>1. a = Set(m, k.current, FreePCB)
      BY <1>4, <2>2 DEF reap
    <3>2. m.table = k.table /\ KType(m)
      BY <1>4, QueueKeepsTable, RemoveType
    <3> HIDE DEF m
    <3>3. /\ KType(a) /\ a.table[k.current] = FreePCB
          /\ \A t \in Slots \ {k.current} : a.table[t] = k.table[t]
      BY ONLY <1>1, <3>1, <3>2, FreePCBType, SetFields
    <3> QED BY <2>2, <3>3, FreeIsBare DEF Reaped
  <2> QED BY <2>1, <2>2
<1> HIDE DEF a
<1>6. c.next \notin Reaped(k) /\ a.table[c.next] = k.table[c.next] /\ a.table[c.next] \in PCB
  BY <1>1, <1>2, <1>5 DEF Reaped, KType
<1>7. p \in PCB /\ Put(a.table[c.next], p, "RUNNING", a.table[c.next].waiting_for)
  <2>1. 0 \in 0..MAX_WAIT /\ "RUNNING" \in States
    BY FreePCBType DEF States
  <2>2. p \in PCB
    BY ONLY <1>6, <2>1 DEF p, PCB
  <2> QED BY <1>6, <2>2, PutState, Zenon
<1> HIDE DEF p
<1>8. KType(b) /\ b.table[c.next] = p /\ \A t \in Slots \ {c.next} : b.table[t] = a.table[t]
  BY <1>2, <1>5, <1>7, SetFields
<1> HIDE DEF b
<1>9. d.table = b.table
  BY <1>8 DEF KType
<1> HIDE DEF d
<1>10. Held(k.table[c.next], p)
  BY <1>2, <1>6, <1>7, PutHeld DEF Alike
<1>11. Still(k, d, Reaped(k))
  BY <1>5, <1>8, <1>9, <1>10, HeldSelf DEF Still
<1>12. \A t \in Reaped(k) : d.table[t].state = "FREE"
  BY <1>1, <1>5, <1>6, <1>8, <1>9 DEF Reaped
<1> QED BY <1>3, <1>11, <1>12 DEF Left, c

\* The process that leaves the CPU.
LEMMA DemoteStill ==
  ASSUME NEW k, Consistent(k), IdleReady(k)
  PROVE  /\ Still(k, demote(k), {}) /\ IdleReady(demote(k)) /\ Reaped(demote(k)) = Reaped(k)
<1> DEFINE cur == k.table[k.current]
           st == IF cur.state = "RUNNING" THEN "READY" ELSE cur.state
           p == [cur EXCEPT !.state = st, !.remaining_quanta = cur.priority]
           r == demote(k)
<1>1. KType(k) /\ k.current \in Slots /\ cur \in PCB /\ cur.state # "FREE" /\ idle_pcb \in Slots
  BY ConstantsAssumption DEF Consistent, KType, Slots, idle_pcb
<1>2. demote(k) = Set(k, k.current, p)
  BY DEF demote
<1>3. Put(cur, p, st, cur.waiting_for)
  BY <1>1, PutState, Zenon
<1>4. p \in PCB
  <2>1. cur.priority \in 0..MAX_PRIORITY
    BY <1>1, ConstantsAssumption DEF PCB, Priorities, MIN_PRIORITY
  <2>2. st \in States
    BY <1>1 DEF PCB, States
  <2> HIDE DEF st
  <2> QED BY ONLY <1>1, <2>1, <2>2 DEF PCB, p
<1> HIDE DEF p
<1>5. /\ r.table[k.current] = p /\ r.current = k.current
      /\ \A t \in Slots \ {k.current} : r.table[t] = k.table[t]
  BY <1>1, <1>2, <1>4, SetFields
<1>6. Held(cur, p)
  BY <1>1, <1>3, PutHeld DEF Alike
<1>7. p.state = st
  BY <1>3 DEF Put
<1> HIDE DEF r
<1>8. Still(k, r, {})
  BY <1>5, <1>6, HeldSelf DEF Still
<1>9. IdleReady(r)
  BY <1>1, <1>5, <1>7 DEF IdleReady
<1>10. Reaped(r) = Reaped(k)
  BY <1>5, <1>7 DEF Reaped
<1> QED BY <1>8, <1>9, <1>10 DEF r

\* The return without a switch.
LEMMA StoreLeft ==
  ASSUME NEW k, Store(k), Reaped(k) = {}
  PROVE  Left(k, Kernel')
<1>1. Kernel'.table = k.table
  BY DEF Store, Kernel
<1> QED BY <1>1, StillSelf DEF Left

\* The return through a switch.
LEMMA SwitchLeft ==
  ASSUME NEW k, Consistent(k), IdleReady(k), Switch(k)
  PROVE  Left(k, Kernel')
<1> DEFINE d == dispatch(k, scheduler_next_ready(k))
<1>1. Kernel'.table = d.table
  BY DEF Switch, Store, Kernel
<1>2. Left(k, d)
  BY DispatchLeft
<1> HIDE DEF d
<1> QED BY <1>1, <1>2 DEF Left, Still

\* What is done before the tail of the handler.
LEMMA LeftThen ==
  ASSUME NEW k, NEW m, NEW r, Still(k, m, {}), Reaped(m) = Reaped(k), Left(m, r)
  PROVE  Left(k, r)
<1>1. Still(k, m, Reaped(k))
  BY DEF Still
<1> QED BY <1>1, StillThen DEF Left

\* The return through scheduler_yield_impl.
LEMMA YieldLeft ==
  ASSUME NEW k, Consistent(k), IdleReady(k), scheduler_yield_impl(k)
  PROVE  Left(k, Kernel')
<1> DEFINE m == demote(k)
<1>1. Switch(m)
  BY DEF scheduler_yield_impl
<1>2. Consistent(m) /\ Still(k, m, {}) /\ IdleReady(m) /\ Reaped(m) = Reaped(k)
  BY DemoteReady, DemoteStill DEF Returnable
<1> HIDE DEF m
<1> QED BY <1>1, <1>2, SwitchLeft, LeftThen

\* The tail of the syscall and keyboard handlers.
LEMMA ReturnLeft ==
  ASSUME NEW k, Returnable(k), IdleReady(k), Return(k)
  PROVE  Left(k, Kernel')
<1>1. CASE k.force_switch
  BY <1>1, YieldLeft DEF Return, Returnable
<1>2. CASE ~k.force_switch
  BY <1>2, StoreLeft DEF Return, Returnable, Consistent, Reaped
<1> QED BY <1>1, <1>2

\* A tick, with or without a switch.
LEMMA TickLeft ==
  ASSUME NEW k, Settled(k), IdleReady(k), scheduler_tick(k)
  PROVE  Left(k, Kernel')
<1> DEFINE a == age(k)
           cur == a.table[a.current]
           q == IF cur.remaining_quanta > 0 THEN cur.remaining_quanta - 1
                ELSE cur.remaining_quanta
           p == [cur EXCEPT !.remaining_quanta = q]
           m == spend(a)
<1>1. Returnable(k) /\ KType(k) /\ Reaped(k) = {} /\ k.current \in Slots /\ idle_pcb \in Slots
  BY ConstantsAssumption DEF Settled, Returnable, Consistent, KType, Reaped, Slots, idle_pcb
<1>2. /\ Returnable(a) /\ Consistent(a) /\ FullQuantum(a, a.current) /\ KType(a)
      /\ a.current = k.current /\ a.table[k.current] = k.table[k.current]
  BY <1>1, AgeReturnable DEF Returnable, Consistent
<1>3. \/ cur.state # "RUNNING" /\ Switch(a)
      \/ /\ cur.state = "RUNNING"
         /\ IF m.table[m.current].remaining_quanta > 0
              THEN Store(m) ELSE scheduler_yield_impl(m)
  BY DEF scheduler_tick
<1>4. \A s \in Slots : Same(k.table[s], a.table[s])
  BY <1>1, AgeSame
<1>5. Still(k, a, {}) /\ IdleReady(a) /\ Reaped(a) = {}
  BY <1>1, <1>2, <1>4 DEF Still, Held, Alike, Same, Put, IdleReady, Reaped
<1>6. CASE cur.state # "RUNNING" /\ Switch(a)
  BY <1>1, <1>2, <1>5, <1>6, SwitchLeft, LeftThen
<1>7. CASE /\ cur.state = "RUNNING"
           /\ IF m.table[m.current].remaining_quanta > 0
                THEN Store(m) ELSE scheduler_yield_impl(m)
  <2>1. a.current \in Slots /\ cur \in PCB /\ m = Set(a, a.current, p)
    BY <1>2 DEF KType, spend
  <2>2. q \in 0..MAX_PRIORITY /\ q <= cur.priority /\ cur.priority \in Nat
    BY <1>2, <2>1, ConstantsAssumption DEF FullQuantum, PCB, Priorities, MIN_PRIORITY
  <2> HIDE DEF q, a
  <2>3. /\ p \in PCB /\ p.priority = cur.priority /\ p.remaining_quanta = q
        /\ Put(cur, p, cur.state, cur.waiting_for)
    BY ONLY <2>1, <2>2 DEF PCB, p, Put
  <2> HIDE DEF p, m
  <2>4. Consistent(m)
    BY <1>2, <1>7, <2>1, <2>3, UpdateConsistent DEF Put
  <2>5. /\ m.table[a.current] = p /\ m.current = a.current
        /\ \A t \in Slots \ {a.current} : m.table[t] = a.table[t]
    BY <1>2, <2>1, <2>3, SetFields
  <2>6. Held(cur, p) /\ p.state = cur.state
    BY <1>7, <2>3, PutHeld DEF Alike, Put
  <2>7. Still(a, m, {})
    BY <2>5, <2>6, HeldSelf DEF Still
  <2>8. IdleReady(m) /\ Reaped(m) = {}
    BY <1>1, <1>5, <1>7, <2>5, <2>6 DEF IdleReady, Reaped
  <2>9. Still(k, m, {})
    BY <1>5, <2>7, StillThen
  <2>10. Left(m, Kernel')
    BY <1>7, <2>4, <2>8, StoreLeft, YieldLeft
  <2> QED BY <1>1, <2>8, <2>9, <2>10, LeftThen
<1> QED BY <1>3, <1>6, <1>7

-----------------------------------------------------------------------------
(***************************************************************************)
(* The calls that the shell and the test make.                             *)
(***************************************************************************)

\* process_get finds the one process with that pid.
LEMMA GetIs ==
  ASSUME NEW k, NEW n \in Nat, Scene(k, n), NEW pid
  PROVE  /\ process_get(k, pid) # NULL => /\ process_get(k, pid) \in Slots
                                          /\ k.table[process_get(k, pid)].pid = pid
                                          /\ k.table[process_get(k, pid)].state # "FREE"
         /\ \A s \in Slots : (k.table[s].state # "FREE" /\ k.table[s].pid = pid) =>
              process_get(k, pid) = s /\ process_get(k, pid) # NULL
<1> DEFINE found == {s \in Slots : k.table[s].pid = pid /\ k.table[s].state # "FREE"}
           least == CHOOSE s \in found : \A t \in found : s <= t
<1>1. found \in SUBSET Nat /\ NULL \notin Slots
  BY ConstantsAssumption DEF Slots, NULL
<1>2. found # {} => least \in found
  <2>1. found # {} => \E s \in found : \A t \in found : s <= t
    <3> HIDE DEF found
    <3> QED BY <1>1, MinExists
  <2> QED BY <2>1
<1>3. process_get(k, pid) = IF pid = 0 \/ found = {} THEN NULL ELSE least
  BY DEF process_get
<1> HIDE DEF least
<1>4. process_get(k, pid) # NULL => process_get(k, pid) \in found
  BY <1>2, <1>3
<1>5. ASSUME NEW s \in Slots, k.table[s].state # "FREE", k.table[s].pid = pid
      PROVE  process_get(k, pid) = s /\ process_get(k, pid) # NULL
  <2>1. s \in found /\ pid # 0
    BY <1>5 DEF Scene
  <2>2. least \in found
    BY <1>2, <2>1
  <2>3. least = s
    BY <1>5, <2>2 DEF Scene
  <2> QED BY <1>1, <1>3, <2>1, <2>3
<1> QED BY <1>4, <1>5

\* A death that releases nobody.
LEMMA UnblockNobody ==
  ASSUME NEW k, KType(k)
  PROVE  unblock_all(k, {}) = k
<1> DEFINE t == [s \in Slots |-> IF s \in {x \in {} : k.table[x].state = "BLOCKED"}
                          THEN [k.table[s] EXCEPT !.state = "READY", !.wait_ticks = 0]
                          ELSE k.table[s]]
           f == k.force_switch \/ \E s \in {x \in {} : k.table[x].state = "BLOCKED"} :
                              k.table[s].priority > k.table[k.current].priority
<1>1. unblock_all(k, {}) = [k EXCEPT !.table = t, !.force_switch = f]
  BY DEF unblock_all
<1>2. t = k.table
  BY DEF KType
<1>3. f = k.force_switch
  BY DEF KType
<1> HIDE DEF t, f
<1> QED BY <1>1, <1>2, <1>3 DEF KType

\* The parent that waits is the shell.
LEMMA OrphanStill ==
  ASSUME NEW k, Returnable(k), NEW n \in Nat, Scene(k, n), NEW s \in Slots,
         k.table[s].state # "FREE"
  PROVE  LET o == wake_parent(kbd_clear_waiting(k, s), s)
         IN  /\ Returnable(o) /\ o.current = k.current /\ o.kbd # s /\ Still(k, o, {})
<1> DEFINE b == kbd_clear_waiting(k, s)
           o == wake_parent(b, s)
           parent == process_get(b, b.table[s].parent_pid)
           p == [b.table[parent] EXCEPT !.waiting_for = 0, !.state = "READY",
                                        !.wait_ticks = 0]
           C == /\ parent # NULL
                /\ b.table[parent].state = "BLOCKED"
                /\ b.table[parent].waiting_for = b.table[s].pid
<1>1. Returnable(b) /\ b.kbd # s /\ b.table = k.table /\ b.current = k.current
  BY KbdClearReturnable
<1> HIDE DEF b
<1>2. Returnable(o) /\ o.current = b.current /\ o.kbd = b.kbd
  BY <1>1, WakeParentReturnable
<1>3. Still(k, o, {})
  <2>1. CASE ~C
    <3>1. o = b
      BY <2>1 DEF wake_parent
    <3> QED BY <1>1, <3>1, StillSelf
  <2>2. CASE C
    <3>1. parent \in Slots
      BY <2>2, GetLive
    <3>2. o = Set(b, parent, p)
      BY <2>2 DEF wake_parent
    <3>3. b.table[parent].state = "BLOCKED" /\ b.table[parent].waiting_for = k.table[s].pid
      BY <1>1, <2>2
    <3> HIDE DEF parent, C, o
    <3>4. b.table[parent] \in PCB /\ KType(b)
      BY <1>1, <3>1, ReturnableTypes
    <3>5. k.table[s].pid # 0
      BY DEF Scene
    <3>6. k.table[parent].pid = SHELL_PID /\ k.table[parent].state = "BLOCKED"
      BY <1>1, <3>1, <3>3, <3>5 DEF Scene
    <3>7. p \in PCB /\ Put(b.table[parent], p, "READY", 0)
      BY ONLY <3>4, WriteWoken, PutState, Zenon
    <3> HIDE DEF p
    <3>8. o.table[parent] = p /\ \A t \in Slots \ {parent} : o.table[t] = b.table[t]
      <4> DEFINE q == Set(b, parent, p)
      <4>1. q.table[parent] = p /\ \A t \in Slots \ {parent} : q.table[t] = b.table[t]
        BY ONLY <3>1, <3>4, <3>7, SetFields
      <4>2. o = q
        BY ONLY <3>2
      <4> HIDE DEF q
      <4> QED BY ONLY <4>1, <4>2
    <3>9. Held(k.table[parent], p)
      BY <1>1, <3>6, <3>7, PutHeld
    <3> QED BY <1>1, <3>8, <3>9, HeldSelf DEF Still
  <2> QED BY <2>1, <2>2
<1> QED BY <1>1, <1>2, <1>3 DEF o, b

\* Idle is kept.
LEMMA IdleStill ==
  ASSUME NEW k, NEW r, NEW n \in Nat, Scene(k, n), NEW X, Still(k, r, X), idle_pcb \notin X
  PROVE  IdleReady(r)
<1>1. idle_pcb \in Slots
  BY ConstantsAssumption DEF Slots, idle_pcb
<1> QED BY <1>1 DEF Scene, Still, Held, Alike, IdleReady, IDLE_PID, SHELL_PID

\* The caller dies.
LEMMA ZombieStill ==
  ASSUME NEW k, Returnable(k), k.kbd # k.current
  PROVE  LET r == mark_zombie(k)
         IN  /\ Returnable(r) /\ Still(k, r, {k.current}) /\ Reaped(r) = {k.current}
<1> DEFINE p == [k.table[k.current] EXCEPT !.state = "ZOMBIE"]
           m == Set(k, k.current, p)
           r == mark_zombie(k)
<1>1. KType(k) /\ k.current \in Slots /\ k.table[k.current] \in PCB
  BY ReturnableTypes
<1>2. Returnable(r)
  BY MarkZombieReturnable
<1>3. p \in PCB /\ p.state = "ZOMBIE"
  BY ONLY <1>1, StateNames, WriteState
<1>4. r = [m EXCEPT !.force_switch = TRUE]
  BY DEF mark_zombie
<1> HIDE DEF p
<1>5. KType(m) /\ m.table[k.current] = p /\ m.current = k.current
      /\ \A t \in Slots \ {k.current} : m.table[t] = k.table[t]
  BY <1>1, <1>3, SetFields
<1> HIDE DEF m, r
<1>6. r.table = m.table /\ r.current = m.current
  BY <1>4, <1>5 DEF KType
<1>7. Still(k, r, {k.current})
  BY <1>5, <1>6, StillSelf
<1>8. Reaped(r) = {k.current}
  BY <1>3, <1>5, <1>6 DEF Reaped
<1> QED BY <1>2, <1>7, <1>8 DEF r

\* What is left after the death of slot s.
Lost(k, s) == Settled(Kernel)' /\ Still(k, Kernel', {s}) /\ Kernel'.table[s].state = "FREE"

\* The switch away from a caller that has died.
LEMMA ZombieLost ==
  ASSUME NEW k, Returnable(k), NEW n \in Nat, Scene(k, n), NEW o, Returnable(o),
         o.current = k.current, o.kbd # k.current, Still(k, o, {}),
         k.current # idle_pcb, Return(mark_zombie(o))
  PROVE  Lost(k, k.current)
<1> DEFINE r == mark_zombie(o)
           s == k.current
<1>1. Returnable(r) /\ Still(o, r, {s}) /\ Reaped(r) = {s}
  BY ZombieStill
<1>2. Return(r)
  OBVIOUS
<1> HIDE DEF r
<1>3. Still(k, o, {s})
  BY DEF Still
<1>4. Still(k, r, {s})
  BY <1>1, <1>3, StillThen
<1>5. IdleReady(r)
  BY <1>4, IdleStill
<1>6. Settled(Kernel)' /\ Left(r, Kernel')
  BY <1>1, <1>2, <1>5, ReturnSettles, ReturnLeft
<1>7. Still(k, Kernel', {s}) /\ Kernel'.table[s].state = "FREE"
  BY <1>1, <1>4, <1>6, StillThen DEF Left
<1> QED BY <1>6, <1>7 DEF Lost

\* process_kill and the tail.
LEMMA KillLost ==
  ASSUME NEW k, Settled(k), NEW n \in Nat, Scene(k, n), NEW s \in Slots,
         k.table[s].state # "FREE", s # idle_pcb, Return(process_kill(k, s, {}, {}))
  PROVE  Lost(k, s)
<1> DEFINE o == wake_parent(kbd_clear_waiting(k, s), s)
<1>1. Returnable(k) /\ KType(k)
  BY DEF Settled, Returnable, Consistent
<1>2. Returnable(o) /\ o.current = k.current /\ o.kbd # s /\ Still(k, o, {})
  BY <1>1, OrphanStill
<1>3. process_kill(k, s, {}, {}) =
        IF s = k.current THEN unblock_all(mark_zombie(o), {})
        ELSE Set(unblock_all(scheduler_remove(o, s), {}), s, FreePCB)
  BY <1>1, UnblockNobody DEF process_kill
<1> HIDE DEF o
<1>4. CASE s = k.current
  <2>1. KType(mark_zombie(o))
    BY <1>2, <1>4, ZombieStill, ReturnableTypes
  <2>2. process_kill(k, s, {}, {}) = mark_zombie(o)
    BY <1>3, <1>4, <2>1, UnblockNobody
  <2> QED BY <1>1, <1>2, <1>4, <2>2, ZombieLost
<1>5. CASE s # k.current
  <2> DEFINE m == scheduler_remove(o, s)
             r == Set(m, s, FreePCB)
  <2>1. Returnable(r) /\ KType(m) /\ m.table = o.table /\ m.current = o.current
    BY <1>2, <1>5, ReleaseReturnable, QueueKeepsTable, ReturnableTypes
  <2>2. process_kill(k, s, {}, {}) = r
    BY <1>3, <1>5, <2>1, UnblockNobody
  <2> HIDE DEF m
  <2>3. /\ r.table[s] = FreePCB /\ r.current = o.current
        /\ \A t \in Slots \ {s} : r.table[t] = o.table[t]
    BY <2>1, SetFields, FreePCBType
  <2> HIDE DEF r
  <2>4. Still(k, r, {s})
    BY <1>2, <2>3 DEF Still
  <2>5. IdleReady(r)
    BY <2>4, IdleStill
  <2>6. Settled(Kernel)' /\ Left(r, Kernel')
    BY <2>1, <2>2, <2>5, ReturnSettles, ReturnLeft
  <2>7. Reaped(r) = {}
    <3>1. r.table[r.current] = o.table[o.current] /\ o.current \in Slots
      BY <1>2, <1>5, <2>3, ReturnableTypes
    <3>2. k.table[k.current].state \in {"READY", "RUNNING", "BLOCKED"} /\ k.current \in Slots
      BY <1>1 DEF Settled, Consistent, KType, PCB, States
    <3>3. o.table[k.current].state # "ZOMBIE"
      BY <1>2, <3>2 DEF Still, Held, Alike
    <3> QED BY <1>2, <3>1, <3>3 DEF Reaped
  <2>8. FreePCB.state = "FREE" /\ FreePCB.pid # SHELL_PID
    BY DEF FreePCB, SHELL_PID
  <2>9. Held(r.table[s], Kernel'.table[s])
    BY <2>6, <2>7 DEF Left, Still
  <2>10. Kernel'.table[s].state = "FREE"
    BY <2>3, <2>8, <2>9 DEF Held
  <2>11. Still(k, Kernel', {s})
    BY <2>4, <2>6, <2>7, StillThen DEF Left
  <2> QED BY <2>6, <2>10, <2>11 DEF Lost
<1> QED BY <1>4, <1>5

\* process_exit and the tail.
LEMMA ExitLost ==
  ASSUME NEW k, Settled(k), NEW n \in Nat, Scene(k, n), k.current # idle_pcb,
         Return(process_exit(k, {}))
  PROVE  Lost(k, k.current)
<1> DEFINE o == wake_parent(kbd_clear_waiting(k, k.current), k.current)
<1>1. Returnable(k) /\ KType(k) /\ k.current \in Slots /\ k.table[k.current].state # "FREE"
  BY DEF Settled, Returnable, Consistent, KType
<1>2. Returnable(o) /\ o.current = k.current /\ o.kbd # k.current /\ Still(k, o, {})
  BY <1>1, OrphanStill
<1>3. process_exit(k, {}) = mark_zombie(o)
  BY <1>1, UnblockNobody DEF process_exit
<1> HIDE DEF o
<1> QED BY <1>1, <1>2, <1>3, ZombieLost

\* The tail of a call after which the caller lives.
LEMMA ReturnStill ==
  ASSUME NEW k, NEW n \in Nat, Scene(k, n), NEW X, NEW r, Returnable(r), Still(k, r, X),
         idle_pcb \notin X, r.table[r.current].state # "ZOMBIE", Return(r)
  PROVE  Settled(Kernel)' /\ Still(k, Kernel', X) /\ Still(r, Kernel', {})
<1>1. IdleReady(r)
  BY IdleStill
<1>2. Settled(Kernel)' /\ Left(r, Kernel')
  BY <1>1, ReturnSettles, ReturnLeft
<1>3. Still(r, Kernel', {})
  BY <1>2 DEF Left, Reaped
<1> QED BY <1>2, <1>3, StillThen

\* What is left after a call that changes the state of slot s.
Turned(k, s, st) ==
    LET p == k.table[s]
        q == Kernel'.table[s]
    IN  /\ Settled(Kernel)' /\ Still(k, Kernel', {s})
        /\ q.pid = p.pid /\ q.foreground = p.foreground /\ q.waiting_for = p.waiting_for
        /\ Alike(st, q.state) /\ q.state # "FREE"

\* A write to the state of slot s, and the tail.
LEMMA PutTurned ==
  ASSUME NEW k, NEW n \in Nat, Scene(k, n), NEW s \in Slots, s # idle_pcb,
         k.table[s].pid # SHELL_PID, NEW r, Returnable(r), NEW p,
         NEW st \in {"READY", "BLOCKED"}, Put(k.table[s], p, st, k.table[s].waiting_for),
         r.table[s] = p, \A t \in Slots \ {s} : r.table[t] = k.table[t],
         r.current = k.current, k.table[k.current].state # "ZOMBIE", Return(r)
  PROVE  Turned(k, s, st)
<1>1. Still(k, r, {s})
  BY StillSelf
<1>2. r.table[r.current].state # "ZOMBIE"
  <2>1. r.current \in Slots
    BY ReturnableTypes
  <2> QED BY <2>1 DEF Put
<1>3. Settled(Kernel)' /\ Still(k, Kernel', {s}) /\ Still(r, Kernel', {})
  BY <1>1, <1>2, ReturnStill
<1>4. Held(p, Kernel'.table[s])
  BY <1>3 DEF Still
<1> QED BY <1>3, <1>4 DEF Turned, Held, Put

\* process_block of a process that is READY or RUNNING, and the tail.
LEMMA BlockTurned ==
  ASSUME NEW k, Settled(k), NEW n \in Nat, Scene(k, n), NEW pid, NEW s \in Slots,
         process_get(k, pid) = s, s # NULL, k.table[s].state \in {"READY", "RUNNING"},
         s # idle_pcb, k.table[s].pid # SHELL_PID, Return(process_block(k, pid))
  PROVE  Turned(k, s, "BLOCKED")
<1> DEFINE p == [k.table[s] EXCEPT !.state = "BLOCKED"]
           m == Set(k, s, p)
           b == m.force_switch \/ s = k.current
           r == [m EXCEPT !.force_switch = b]
<1>1. Returnable(k) /\ KType(k) /\ k.table[s] \in PCB /\ k.table[k.current].state # "ZOMBIE"
  BY DEF Settled, Returnable, Consistent, KType
<1>2. process_block(k, pid) = r
  BY DEF process_block
<1>3. Returnable(r)
  BY <1>1, <1>2, BlockReturnable
<1>4. p \in PCB /\ Put(k.table[s], p, "BLOCKED", k.table[s].waiting_for)
  BY ONLY <1>1, StateNames, WriteState, PutState, Zenon
<1> HIDE DEF p
<1>5. /\ KType(m) /\ m.table[s] = p /\ \A t \in Slots \ {s} : m.table[t] = k.table[t]
      /\ m.current = k.current
  BY <1>1, <1>4, SetFields
<1> HIDE DEF m, b
<1>6. r.table = m.table /\ r.current = m.current
  BY <1>5 DEF KType
<1> HIDE DEF r
<1>7. Return(r)
  BY <1>2
<1> QED BY <1>1, <1>3, <1>4, <1>5, <1>6, <1>7, PutTurned

\* process_unblock of a process that is BLOCKED, and the tail.
LEMMA UnblockTurned ==
  ASSUME NEW k, Settled(k), NEW n \in Nat, Scene(k, n), NEW pid, NEW s \in Slots,
         process_get(k, pid) = s, s # NULL, k.table[s].state = "BLOCKED",
         s # idle_pcb, k.table[s].pid # SHELL_PID, Return(process_unblock(k, pid))
  PROVE  Turned(k, s, "READY")
<1> DEFINE p == [k.table[s] EXCEPT !.state = "READY", !.wait_ticks = 0]
           m == Set(k, s, p)
           b == m.force_switch \/ k.table[s].priority > k.table[k.current].priority
           r == [m EXCEPT !.force_switch = b]
<1>1. Returnable(k) /\ KType(k) /\ k.table[s] \in PCB /\ k.table[k.current].state # "ZOMBIE"
  BY DEF Settled, Returnable, Consistent, KType
<1>2. process_unblock(k, pid) = r
  BY DEF process_unblock
<1>3. Returnable(r)
  BY <1>1, <1>2, UnblockReturnable
<1>4. p \in PCB /\ Put(k.table[s], p, "READY", k.table[s].waiting_for)
  BY ONLY <1>1, WriteReady, PutState, Zenon
<1> HIDE DEF p
<1>5. /\ KType(m) /\ m.table[s] = p /\ \A t \in Slots \ {s} : m.table[t] = k.table[t]
      /\ m.current = k.current
  BY <1>1, <1>4, SetFields
<1> HIDE DEF m, b
<1>6. r.table = m.table /\ r.current = m.current
  BY <1>5 DEF KType
<1> HIDE DEF r
<1>7. Return(r)
  BY <1>2
<1> QED BY <1>1, <1>3, <1>4, <1>5, <1>6, <1>7, PutTurned

\* What is left after the birth of process pid in slot s.
Born(k, s, pid, fg) ==
    LET q == Kernel'.table[s]
    IN  /\ Settled(Kernel)' /\ Still(k, Kernel', {s})
        /\ q.pid = pid /\ q.foreground = fg /\ q.waiting_for = 0
        /\ q.state \in {"READY", "RUNNING"}

\* process_create and the tail.
LEMMA CreateBorn ==
  ASSUME NEW k, Settled(k), NEW n \in Nat, Scene(k, n), NEW s \in Slots,
         k.table[s].state = "FREE", NEW pid \in Nat, pid # SHELL_PID, NEW fg \in {0, 1},
         Return(process_create(k, s, pid, fg))
  PROVE  Born(k, s, pid, fg # 0)
<1> DEFINE p == [pid |-> pid, priority |-> DEFAULT_PRIORITY,
                 remaining_quanta |-> DEFAULT_PRIORITY, wait_ticks |-> 0,
                 state |-> IF fg \in {2, 3} THEN "BLOCKED" ELSE "READY",
                 foreground |-> fg # 0,
                 parent_pid |-> k.table[k.current].pid,
                 waiting_for |-> 0, stack |-> TRUE]
           d == Set(k, s, p)
           r == scheduler_add(d, s)
<1>1. /\ Returnable(k) /\ KType(k) /\ k.table[k.current] \in PCB /\ k.current \in Slots
      /\ k.table[k.current].state \notin {"FREE", "ZOMBIE"} /\ s # idle_pcb
  BY DEF Settled, Returnable, Consistent, KType, Scene
<1>2. process_create(k, s, pid, fg) = r
  BY DEF process_create
<1>3. Returnable(r)
  BY <1>1, <1>2, CreateReturnable
<1>4. /\ p \in PCB /\ p.state = "READY" /\ p.pid = pid /\ p.waiting_for = 0
      /\ p.foreground = (fg # 0)
  <2>1. 0 \in 0..MAX_WAIT /\ DEFAULT_PRIORITY \in Priorities
        /\ DEFAULT_PRIORITY \in 0..MAX_PRIORITY
    BY ConstantsAssumption, FreePCBType DEF Priorities, MIN_PRIORITY
  <2>2. k.table[k.current].pid \in Nat
    BY <1>1 DEF PCB
  <2> QED BY <2>1, <2>2 DEF PCB, States
<1> HIDE DEF p
<1>5. /\ KType(d) /\ d.table[s] = p /\ d.current = k.current
      /\ \A t \in Slots \ {s} : d.table[t] = k.table[t]
  BY <1>1, <1>4, SetFields
<1> HIDE DEF d
<1>6. r.table = d.table /\ r.current = d.current
  BY <1>5, QueueKeepsTable
<1> HIDE DEF r
<1>7. Still(k, r, {s})
  BY <1>5, <1>6, StillSelf
<1>8. r.table[r.current].state # "ZOMBIE"
  BY <1>1, <1>5, <1>6
<1>9. Settled(Kernel)' /\ Still(k, Kernel', {s}) /\ Still(r, Kernel', {})
  BY <1>1, <1>2, <1>3, <1>7, <1>8, ReturnStill
<1>10. Held(p, Kernel'.table[s])
  BY <1>5, <1>6, <1>9 DEF Still
<1> QED BY <1>4, <1>9, <1>10 DEF Born, Held, Alike

\* Nobody but the shell is touched.
Quiet(k) == Settled(Kernel)' /\ Still(k, Kernel', {})

\* The return of a call that does nothing.
LEMMA StoreQuiet ==
  ASSUME NEW k, Settled(k), Store(k)
  PROVE  Quiet(k)
<1>1. Kernel'.table = k.table
  BY DEF Store, Kernel
<1> QED BY <1>1, StoreSettled, StillSelf DEF Quiet

\* process_waitpid of the shell, and the tail.
LEMMA WaitQuiet ==
  ASSUME NEW k, Settled(k), NEW n \in Nat, Scene(k, n), NEW pid \in Nat,
         process_get(k, pid) = NULL \/ k.table[k.current].pid = SHELL_PID,
         k.force_switch = FALSE, Return(process_waitpid(k, pid))
  PROVE  Quiet(k)
<1> DEFINE c == process_get(k, pid)
           p == [k.table[k.current] EXCEPT !.state = "BLOCKED", !.waiting_for = pid]
           m == Set(k, k.current, p)
           r == [m EXCEPT !.force_switch = TRUE]
<1>1. /\ Returnable(k) /\ KType(k) /\ k.table[k.current] \in PCB /\ k.current \in Slots
      /\ k.table[k.current].state \notin {"FREE", "ZOMBIE"}
  BY DEF Settled, Returnable, Consistent, KType
<1>2. CASE c = NULL
  <2>1. process_waitpid(k, pid) = k
    BY <1>2 DEF process_waitpid
  <2> QED BY <2>1, StoreQuiet DEF Return
<1>3. CASE c # NULL
  <2>1. k.table[c].state # "ZOMBIE"
    BY <1>3, GetLive DEF Settled, Consistent
  <2>2. process_waitpid(k, pid) = r
    BY <1>3, <2>1 DEF process_waitpid
  <2>3. Returnable(r)
    BY <2>2, WaitpidReturnable, Zenon
  <2>4. p \in PCB /\ Put(k.table[k.current], p, "BLOCKED", pid)
    BY <1>1, WriteWaiting, PutState, Zenon
  <2> HIDE DEF p
  <2>5. /\ KType(m) /\ m.table[k.current] = p /\ m.current = k.current
        /\ \A t \in Slots \ {k.current} : m.table[t] = k.table[t]
    BY <1>1, <2>4, SetFields
  <2> HIDE DEF m
  <2>6. r.table = m.table /\ r.current = m.current
    BY <2>5 DEF KType
  <2> HIDE DEF r
  <2>7. Held(k.table[k.current], p)
    BY <1>1, <1>3, <2>4, PutHeld
  <2>8. Still(k, r, {})
    BY <2>5, <2>6, <2>7, HeldSelf DEF Still
  <2>9. r.table[r.current].state # "ZOMBIE"
    BY <2>4, <2>5, <2>6 DEF Put
  <2> QED BY <2>2, <2>3, <2>8, <2>9, ReturnStill DEF Quiet
<1> QED BY <1>2, <1>3

\* The shell's read of the terminal.
LEMMA ReadQuiet ==
  ASSUME NEW k, Settled(k), NEW n \in Nat, Scene(k, n), k.table[k.current].pid = SHELL_PID,
         Return([Set(k, k.current, [k.table[k.current] EXCEPT !.state = "BLOCKED"])
                   EXCEPT !.kbd = k.current, !.force_switch = TRUE])
  PROVE  Quiet(k)
<1> DEFINE p == [k.table[k.current] EXCEPT !.state = "BLOCKED"]
           m == Set(k, k.current, p)
           d == [m EXCEPT !.kbd = k.current]
           r == [d EXCEPT !.force_switch = TRUE]
           x == [m EXCEPT !.kbd = k.current, !.force_switch = TRUE]
<1>1. /\ Returnable(k) /\ KType(k) /\ k.table[k.current] \in PCB /\ k.current \in Slots
      /\ k.table[k.current].state \notin {"FREE", "ZOMBIE"}
  BY DEF Settled, Returnable, Consistent, KType
<1>2. Return(x)
  OBVIOUS
<1>3. p \in PCB /\ Put(k.table[k.current], p, "BLOCKED", k.table[k.current].waiting_for)
  BY ONLY <1>1, StateNames, WriteState, PutState, Zenon
<1>4. Returnable(m)
  BY <1>1, PutReturnable
<1> HIDE DEF p
<1>5. /\ KType(m) /\ m.table[k.current] = p /\ m.current = k.current
      /\ \A t \in Slots \ {k.current} : m.table[t] = k.table[t]
  BY <1>1, <1>3, SetFields
<1> HIDE DEF m
<1>6. Returnable(d)
  BY <1>1, <1>3, <1>4, <1>5, KbdReturnable DEF Put
<1>7. KType(d) /\ d.table = m.table /\ d.current = m.current
  BY <1>1, <1>5 DEF KType
<1>8. x = r
  BY <1>5 DEF KType
<1> HIDE DEF d, x
<1>9. Returnable(r)
  BY <1>6, FlagReturnable
<1>10. r.table = d.table /\ r.current = d.current
  BY <1>7 DEF KType
<1> HIDE DEF r
<1>11. Held(k.table[k.current], p)
  BY <1>1, <1>3, PutHeld
<1>12. Still(k, r, {})
  BY <1>5, <1>7, <1>10, <1>11, HeldSelf DEF Still
<1>13. r.table[r.current].state # "ZOMBIE"
  BY <1>3, <1>5, <1>7, <1>10 DEF Put
<1> QED BY <1>2, <1>8, <1>9, <1>12, <1>13, ReturnStill DEF Quiet

-----------------------------------------------------------------------------
(***************************************************************************)
(* How the book of the test goes with the table.                           *)
(***************************************************************************)
\* Numbers.
LEMMA Pids == IDLE_PID = 1 /\ SHELL_PID = 2 /\ TEST_PID = 3 /\ idle_pcb \in Slots
BY ConstantsAssumption DEF IDLE_PID, SHELL_PID, TEST_PID, idle_pcb, Slots

\* A process of the book is found where it was.
LEMMA BelievedStill ==
  ASSUME NEW p, NEW q, Held(p, q), NEW rs, p.state \in Believed(rs), p.pid # SHELL_PID
  PROVE  q.state \in Believed(rs)
BY DEF Held, Alike, Believed

\* Who is in the book is alive.
LEMMA BelievedLive ==
  ASSUME NEW rs, NEW st \in Believed(rs)
  PROVE  st # "FREE"
BY DEF Believed

\* Nobody is born and nobody dies.
LEMMA QuietKept ==
  ASSUME NEW k, NEW r, NEW n \in Nat, Scene(k, n), Still(k, r, {})
  PROVE  /\ Scene(r, n)
         /\ \A rqs, ids : Listed(k, rqs, ids, n) => Listed(r, rqs, ids, n)
<1>1. \A t \in Slots : Held(k.table[t], r.table[t])
  BY DEF Still
<1>2. Scene(r, n)
  BY <1>1, Pids DEF Scene, Held, Alike
<1>3. ASSUME NEW rqs, NEW ids, Listed(k, rqs, ids, n) PROVE Listed(r, rqs, ids, n)
  <2>1. ASSUME NEW i \in Requests, rqs[i] = "KILLED"
        PROVE  /\ ids[i] \in 0..n
               /\ \A s \in Slots : r.table[s].state # "FREE" => r.table[s].pid # ids[i]
    BY <1>1, <1>3, <2>1 DEF Listed, Held
  <2>2. ASSUME NEW i \in Requests, rqs[i] # "KILLED"
        PROVE  /\ ids[i] \in (TEST_PID + 1)..n
               /\ \E s \in Slots : /\ r.table[s].pid = ids[i]
                                   /\ r.table[s].state \in Believed(rqs[i])
    <3>1. PICK s \in Slots : k.table[s].pid = ids[i] /\ k.table[s].state \in Believed(rqs[i])
      BY <1>3, <2>2 DEF Listed
    <3>2. ids[i] \in (TEST_PID + 1)..n
      BY <1>3, <2>2 DEF Listed
    <3>3. k.table[s].pid # SHELL_PID
      BY <3>1, <3>2, Pids
    <3>4. r.table[s].state \in Believed(rqs[i])
      BY <1>1, <3>1, <3>3, BelievedStill
    <3> QED BY <1>1, <3>1, <3>2, <3>4 DEF Held
  <2>3. ASSUME NEW s \in Slots, r.table[s].state # "FREE", r.table[s].pid > TEST_PID
        PROVE  \E i \in Requests : rqs[i] # "KILLED" /\ ids[i] = r.table[s].pid
    BY <1>1, <1>3, <2>3 DEF Listed, Held
  <2> QED BY <1>3, <2>1, <2>2, <2>3 DEF Listed
<1> QED BY <1>2, <1>3

\* Slot s is free now.
LEMMA LostScene ==
  ASSUME NEW k, NEW r, NEW n \in Nat, Scene(k, n), NEW s \in Slots, s # idle_pcb,
         Still(k, r, {s}), r.table[s].state = "FREE"
  PROVE  Scene(r, n)
<1>1. \A t \in Slots \ {s} : Held(k.table[t], r.table[t])
  BY DEF Still
<1> QED BY <1>1, Pids DEF Scene, Held, Alike

\* The end of the test does not touch its processes.
LEMMA LostTest ==
  ASSUME NEW k, NEW r, NEW n \in Nat, Scene(k, n), NEW s \in Slots,
         Still(k, r, {s}), r.table[s].state = "FREE", k.table[s].pid = TEST_PID,
         NEW rqs, NEW ids, Listed(k, rqs, ids, n)
  PROVE  Listed(r, rqs, ids, n)
<1>1. \A t \in Slots \ {s} : Held(k.table[t], r.table[t])
  BY DEF Still
<1>2. ASSUME NEW i \in Requests, rqs[i] = "KILLED"
      PROVE  /\ ids[i] \in 0..n
             /\ \A t \in Slots : r.table[t].state # "FREE" => r.table[t].pid # ids[i]
  BY <1>1, <1>2 DEF Listed, Held
<1>3. ASSUME NEW i \in Requests, rqs[i] # "KILLED"
      PROVE  /\ ids[i] \in (TEST_PID + 1)..n
             /\ \E t \in Slots : /\ r.table[t].pid = ids[i]
                                 /\ r.table[t].state \in Believed(rqs[i])
  <2>1. PICK t \in Slots : k.table[t].pid = ids[i] /\ k.table[t].state \in Believed(rqs[i])
    BY <1>3 DEF Listed
  <2>2. ids[i] \in (TEST_PID + 1)..n
    BY <1>3 DEF Listed
  <2>3. k.table[t].pid # SHELL_PID /\ t # s
    BY <2>1, <2>2, Pids
  <2>4. r.table[t].state \in Believed(rqs[i])
    BY <1>1, <2>1, <2>3, BelievedStill
  <2> QED BY <1>1, <2>1, <2>2, <2>3, <2>4 DEF Held
<1>4. ASSUME NEW t \in Slots, r.table[t].state # "FREE", r.table[t].pid > TEST_PID
      PROVE  \E i \in Requests : rqs[i] # "KILLED" /\ ids[i] = r.table[t].pid
  BY <1>1, <1>4 DEF Listed, Held
<1> QED BY <1>2, <1>3, <1>4 DEF Listed

\* The slot of a process in the book.
LEMMA SlotOf ==
  ASSUME NEW k, NEW n \in Nat, Scene(k, n), NEW rqs, NEW ids, Listed(k, rqs, ids, n),
         NEW i \in Requests, rqs[i] # "KILLED"
  PROVE  LET s == process_get(k, ids[i])
         IN  /\ s \in Slots /\ s # NULL /\ s # idle_pcb /\ k.table[s].pid = ids[i]
             /\ ids[i] \in Nat /\ ids[i] > TEST_PID /\ ids[i] # SHELL_PID
             /\ k.table[s].state # "FREE" /\ k.table[s].state \in Believed(rqs[i])
<1>1. PICK t \in Slots : k.table[t].pid = ids[i] /\ k.table[t].state \in Believed(rqs[i])
  BY DEF Listed
<1>2. ids[i] \in (TEST_PID + 1)..n
  BY DEF Listed
<1>3. k.table[t].state # "FREE"
  BY <1>1, BelievedLive
<1>4. process_get(k, ids[i]) = t /\ process_get(k, ids[i]) # NULL
  BY <1>1, <1>3, GetIs
<1>5. k.table[idle_pcb].pid = IDLE_PID
  BY DEF Scene
<1> QED BY <1>1, <1>2, <1>3, <1>4, <1>5, Pids

\* What the test has killed is not found.
LEMMA KilledIsGone ==
  ASSUME NEW k, NEW n \in Nat, Scene(k, n), NEW rqs, NEW ids, Listed(k, rqs, ids, n),
         NEW i \in Requests, rqs[i] = "KILLED"
  PROVE  process_get(k, ids[i]) = NULL
BY GetIs DEF Listed

\* The test kills a process of its own.
LEMMA LostChild ==
  ASSUME NEW k, NEW r, NEW n \in Nat, Scene(k, n), NEW s \in Slots,
         Still(k, r, {s}), r.table[s].state = "FREE",
         NEW rqs \in Book, NEW ids, Listed(k, rqs, ids, n),
         NEW i \in Requests, rqs[i] # "KILLED", k.table[s].pid = ids[i],
         k.table[s].state # "FREE"
  PROVE  Listed(r, [rqs EXCEPT ![i] = "KILLED"], ids, n)
<1> DEFINE new == [rqs EXCEPT ![i] = "KILLED"]
<1>1. \A t \in Slots \ {s} : Held(k.table[t], r.table[t])
  BY DEF Still
<1>2. new[i] = "KILLED" /\ \A j \in Requests \ {i} : new[j] = rqs[j]
  BY DEF Book
<1> HIDE DEF new
<1>3. ASSUME NEW j \in Requests, new[j] = "KILLED"
      PROVE  /\ ids[j] \in 0..n
             /\ \A t \in Slots : r.table[t].state # "FREE" => r.table[t].pid # ids[j]
  <2>1. CASE j = i
    <3>1. ids[i] \in 0..n
      BY Pids DEF Listed
    <3>2. \A t \in Slots \ {s} : k.table[t].state # "FREE" => k.table[t].pid # ids[i]
      BY DEF Scene
    <3> QED BY <1>1, <2>1, <3>1, <3>2 DEF Held
  <2>2. CASE j # i
    BY <1>1, <1>2, <1>3, <2>2 DEF Listed, Held
  <2> QED BY <2>1, <2>2
<1>4. ASSUME NEW j \in Requests, new[j] # "KILLED"
      PROVE  /\ ids[j] \in (TEST_PID + 1)..n
             /\ \E t \in Slots : /\ r.table[t].pid = ids[j]
                                 /\ r.table[t].state \in Believed(new[j])
  <2>1. j # i /\ new[j] = rqs[j]
    BY <1>2, <1>4
  <2>2. PICK t \in Slots : k.table[t].pid = ids[j] /\ k.table[t].state \in Believed(rqs[j])
    BY <1>4, <2>1 DEF Listed
  <2>3. ids[j] \in (TEST_PID + 1)..n /\ ids[j] # ids[i]
    BY <1>4, <2>1 DEF Listed
  <2>4. k.table[t].pid # SHELL_PID /\ t # s
    BY <2>2, <2>3, Pids
  <2>5. r.table[t].state \in Believed(rqs[j])
    BY <1>1, <2>2, <2>4, BelievedStill
  <2> QED BY <1>1, <2>1, <2>2, <2>3, <2>4, <2>5 DEF Held
<1>5. ASSUME NEW t \in Slots, r.table[t].state # "FREE", r.table[t].pid > TEST_PID
      PROVE  \E j \in Requests : new[j] # "KILLED" /\ ids[j] = r.table[t].pid
  <2>1. t # s /\ k.table[t].state # "FREE" /\ k.table[t].pid = r.table[t].pid
    BY <1>1, <1>5 DEF Held
  <2>2. PICK j \in Requests : rqs[j] # "KILLED" /\ ids[j] = k.table[t].pid
    BY <1>5, <2>1 DEF Listed
  <2>3. j # i
    BY <2>1, <2>2 DEF Scene
  <2> QED BY <1>2, <2>1, <2>2, <2>3
<1>6. ASSUME NEW j \in Requests, NEW l \in Requests,
             new[j] # "KILLED", new[l] # "KILLED", ids[j] = ids[l]
      PROVE  j = l
  BY <1>2, <1>6 DEF Listed
<1> QED BY <1>3, <1>4, <1>5, <1>6 DEF Listed, new

\* The state of one process of the test changes, and the book with it.
LEMMA TurnedKept ==
  ASSUME NEW k, NEW n \in Nat, Scene(k, n), NEW s \in Slots, s # idle_pcb,
         NEW st \in {"READY", "BLOCKED"}, Turned(k, s, st),
         NEW rqs \in Book, NEW ids, Listed(k, rqs, ids, n),
         NEW i \in Requests, rqs[i] # "KILLED", k.table[s].pid = ids[i],
         k.table[s].state # "FREE", NEW rs \in {"RUNNING", "BLOCKED"}, st \in Believed(rs)
  PROVE  Scene(Kernel', n) /\ Listed(Kernel', [rqs EXCEPT ![i] = rs], ids, n)
<1> DEFINE new == [rqs EXCEPT ![i] = rs]
           r == Kernel'
<1>1. \A t \in Slots \ {s} : Held(k.table[t], r.table[t])
  BY DEF Turned, Still
<1>2. new[i] = rs /\ \A j \in Requests \ {i} : new[j] = rqs[j]
  BY DEF Book
<1>3. /\ r.table[s].pid = k.table[s].pid /\ r.table[s].foreground = k.table[s].foreground
      /\ r.table[s].waiting_for = k.table[s].waiting_for
      /\ r.table[s].state # "FREE" /\ r.table[s].state \in Believed(rs)
  BY DEF Turned, Alike, Believed
<1> HIDE DEF new, r
<1>4. Scene(r, n)
  BY <1>1, <1>3, Pids DEF Scene, Held, Alike
<1>5. \A t \in Slots : /\ r.table[t].pid = k.table[t].pid
                       /\ r.table[t].state = "FREE" <=> k.table[t].state = "FREE"
  BY <1>1, <1>3 DEF Held
<1>6. ASSUME NEW j \in Requests, new[j] = "KILLED"
      PROVE  /\ ids[j] \in 0..n
             /\ \A t \in Slots : r.table[t].state # "FREE" => r.table[t].pid # ids[j]
  BY <1>2, <1>5, <1>6 DEF Listed
<1>7. ASSUME NEW j \in Requests, new[j] # "KILLED"
      PROVE  /\ ids[j] \in (TEST_PID + 1)..n
             /\ \E t \in Slots : /\ r.table[t].pid = ids[j]
                                 /\ r.table[t].state \in Believed(new[j])
  <2>0. rqs[j] # "KILLED"
    BY <1>2, <1>7
  <2>1. ids[j] \in (TEST_PID + 1)..n
    BY <2>0 DEF Listed
  <2>2. CASE j = i
    BY <1>2, <1>3, <2>1, <2>2
  <2>3. CASE j # i
    <3>1. PICK t \in Slots : k.table[t].pid = ids[j] /\ k.table[t].state \in Believed(rqs[j])
      BY <2>0 DEF Listed
    <3>2. ids[j] # ids[i]
      BY <2>0, <2>3 DEF Listed
    <3>3. k.table[t].pid # SHELL_PID /\ t # s
      BY <2>1, <3>1, <3>2, Pids
    <3>4. r.table[t].state \in Believed(rqs[j])
      BY <1>1, <3>1, <3>3, BelievedStill
    <3> QED BY <1>2, <1>5, <2>1, <2>3, <3>1, <3>4
  <2> QED BY <2>2, <2>3
<1>8. ASSUME NEW t \in Slots, r.table[t].state # "FREE", r.table[t].pid > TEST_PID
      PROVE  \E j \in Requests : new[j] # "KILLED" /\ ids[j] = r.table[t].pid
  BY <1>2, <1>5, <1>8 DEF Listed
<1>9. ASSUME NEW j \in Requests, NEW l \in Requests,
             new[j] # "KILLED", new[l] # "KILLED", ids[j] = ids[l]
      PROVE  j = l
  BY <1>2, <1>9 DEF Listed
<1> QED BY <1>4, <1>6, <1>7, <1>8, <1>9 DEF Listed, new, r

\* A process is born with a new pid.
LEMMA BornScene ==
  ASSUME NEW k, NEW n \in Nat, n >= SHELL_PID, Scene(k, n), NEW s \in Slots, NEW fg \in BOOLEAN,
         k.table[s].state = "FREE", Born(k, s, n + 1, fg), fg => n + 1 = TEST_PID
  PROVE  Scene(Kernel', n + 1)
<1> DEFINE r == Kernel'
<1>1. \A t \in Slots \ {s} : Held(k.table[t], r.table[t])
  BY DEF Born, Still
<1>2. /\ r.table[s].pid = n + 1 /\ r.table[s].foreground = fg /\ r.table[s].waiting_for = 0
      /\ r.table[s].state \in {"READY", "RUNNING"} /\ s # idle_pcb
  BY DEF Born, Scene
<1>3. \A t \in Slots \ {s} : r.table[t].state # "FREE" =>
         r.table[t].pid \in 1..n /\ r.table[t].pid \in 1..(n + 1) /\ r.table[t].pid # n + 1
  BY <1>1 DEF Scene, Held
<1> HIDE DEF r
<1>4. Scene(r, n + 1)
  BY <1>1, <1>2, <1>3, Pids DEF Scene, Held, Alike
<1> QED BY <1>4 DEF r

\* The test is born.
LEMMA BornTest ==
  ASSUME NEW k, Scene(k, SHELL_PID), NEW s \in Slots, k.table[s].state = "FREE",
         Born(k, s, TEST_PID, TRUE),
         NEW rqs, NEW ids, Listed(k, rqs, ids, SHELL_PID)
  PROVE  Listed(Kernel', rqs, ids, TEST_PID)
<1> DEFINE r == Kernel'
<1>1. \A t \in Slots \ {s} : Held(k.table[t], r.table[t])
  BY DEF Born, Still
<1>2. r.table[s].pid = TEST_PID
  BY DEF Born
<1> HIDE DEF r
<1>3. \A i \in Requests : rqs[i] = "KILLED" /\ ids[i] \in 0..SHELL_PID
  BY Pids DEF Listed
<1>4. \A t \in Slots : r.table[t].state # "FREE" => r.table[t].pid \in 1..TEST_PID
  BY <1>1, <1>2, Pids DEF Scene, Held
<1>5. ASSUME NEW i \in Requests, NEW t \in Slots, r.table[t].state # "FREE"
      PROVE  r.table[t].pid # ids[i]
  BY <1>1, <1>2, <1>3, <1>5, Pids DEF Listed, Held
<1>6. Listed(r, rqs, ids, TEST_PID)
  BY <1>3, <1>4, <1>5, Pids DEF Listed
<1> QED BY <1>6 DEF r

\* The test creates a process.
LEMMA BornChild ==
  ASSUME NEW k, NEW n \in Nat, n >= TEST_PID, Scene(k, n), NEW s \in Slots,
         k.table[s].state = "FREE", Born(k, s, n + 1, FALSE),
         NEW rqs \in Book, NEW ids \in [Requests -> Nat], Listed(k, rqs, ids, n),
         NEW i \in Requests, rqs[i] = "KILLED"
  PROVE  Listed(Kernel', [rqs EXCEPT ![i] = "RUNNING"], [ids EXCEPT ![i] = n + 1], n + 1)
<1> DEFINE r == Kernel'
           new == [rqs EXCEPT ![i] = "RUNNING"]
           nid == [ids EXCEPT ![i] = n + 1]
<1>1. \A t \in Slots \ {s} : Held(k.table[t], r.table[t])
  BY DEF Born, Still
<1>2. /\ r.table[s].pid = n + 1 /\ r.table[s].state \in Believed("RUNNING")
  BY DEF Born, Believed
<1>3. /\ new[i] = "RUNNING" /\ nid[i] = n + 1
      /\ \A j \in Requests \ {i} : new[j] = rqs[j] /\ nid[j] = ids[j]
  BY DEF Book
<1> HIDE DEF r, new, nid
<1>4. \A j \in Requests : ids[j] \in 0..n /\ ids[j] # n + 1
  BY Pids DEF Listed
<1>5. ASSUME NEW j \in Requests, new[j] = "KILLED"
      PROVE  /\ nid[j] \in 0..(n + 1)
             /\ \A t \in Slots : r.table[t].state # "FREE" => r.table[t].pid # nid[j]
  <2>1. j # i /\ nid[j] = ids[j] /\ rqs[j] = "KILLED"
    BY <1>3, <1>5
  <2>2. ids[j] \in 0..(n + 1)
    BY <1>4
  <2>3. \A t \in Slots \ {s} : k.table[t].state # "FREE" => k.table[t].pid # ids[j]
    BY <2>1 DEF Listed
  <2> QED BY <1>1, <1>2, <1>4, <2>1, <2>2, <2>3 DEF Held
<1>6. ASSUME NEW j \in Requests, new[j] # "KILLED"
      PROVE  /\ nid[j] \in (TEST_PID + 1)..(n + 1)
             /\ \E t \in Slots : /\ r.table[t].pid = nid[j]
                                 /\ r.table[t].state \in Believed(new[j])
  <2>1. CASE j = i
    BY <1>2, <1>3, <2>1, Pids
  <2>2. CASE j # i
    <3>1. new[j] = rqs[j] /\ nid[j] = ids[j] /\ rqs[j] # "KILLED"
      BY <1>3, <1>6, <2>2
    <3>2. PICK t \in Slots : k.table[t].pid = ids[j] /\ k.table[t].state \in Believed(rqs[j])
      BY <3>1 DEF Listed
    <3>3. ids[j] \in (TEST_PID + 1)..n
      BY <3>1 DEF Listed
    <3>4. k.table[t].pid # SHELL_PID /\ t # s
      BY <3>2, <3>3, BelievedLive, Pids
    <3>5. r.table[t].state \in Believed(rqs[j]) /\ r.table[t].pid = ids[j]
      BY <1>1, <3>2, <3>4, BelievedStill DEF Held
    <3>6. ids[j] \in (TEST_PID + 1)..(n + 1)
      BY <3>3, Pids
    <3> QED BY <3>1, <3>5, <3>6
  <2> QED BY <2>1, <2>2
<1>7. ASSUME NEW t \in Slots, r.table[t].state # "FREE", r.table[t].pid > TEST_PID
      PROVE  \E j \in Requests : new[j] # "KILLED" /\ nid[j] = r.table[t].pid
  <2>1. CASE t = s
    BY <1>2, <1>3, <2>1
  <2>2. CASE t # s
    <3>1. k.table[t].state # "FREE" /\ k.table[t].pid = r.table[t].pid
      BY <1>1, <1>7, <2>2 DEF Held
    <3>2. PICK j \in Requests : rqs[j] # "KILLED" /\ ids[j] = k.table[t].pid
      BY <1>7, <3>1 DEF Listed
    <3> QED BY <1>3, <3>1, <3>2
  <2> QED BY <2>1, <2>2
<1>8. ASSUME NEW j \in Requests, NEW l \in Requests,
             new[j] # "KILLED", new[l] # "KILLED", nid[j] = nid[l]
      PROVE  j = l
  BY <1>3, <1>4, <1>8 DEF Listed
<1>9. Listed(r, new, nid, n + 1)
  BY <1>5, <1>6, <1>7, <1>8 DEF Listed
<1> QED BY <1>9 DEF r, new, nid

\* The table is full when the argument leaves no slot for idle, the shell and the
\* test: every process is one of these or a request before m.
LEMMA TableFull ==
  ASSUME NEW k, NEW n \in Nat, Scene(k, n), NEW rqs, NEW ids, Listed(k, rqs, ids, n),
         NEW m \in Nat \ {0}, \A i \in Requests : rqs[i] # "KILLED" <=> i < m,
         \A s \in Slots : k.table[s].state # "FREE"
  PROVE  MAX_PROCESSES <= m + 2
<1> SUFFICES ASSUME MAX_PROCESSES > m + 2 PROVE FALSE
  BY ConstantsAssumption
<1> DEFINE T == 1..(m + 2)
           req(s) == CHOOSE i \in Requests : rqs[i] # "KILLED" /\ ids[i] = k.table[s].pid
           f == [s \in Slots |-> IF k.table[s].pid <= 3 THEN k.table[s].pid ELSE 3 + req(s)]
<1>1. /\ IsFiniteSet(Slots) /\ Cardinality(Slots) = MAX_PROCESSES
      /\ IsFiniteSet(T) /\ Cardinality(T) = m + 2
  <2>1. 0 \in Int /\ 1 \in Int /\ MAX_PROCESSES - 1 \in Int /\ m + 2 \in Int
    BY ConstantsAssumption
  <2>2. IsFiniteSet(0..(MAX_PROCESSES - 1))
        /\ Cardinality(0..(MAX_PROCESSES - 1)) =
             IF 0 > MAX_PROCESSES - 1 THEN 0 ELSE (MAX_PROCESSES - 1) - 0 + 1
    BY <2>1, FS_Interval
  <2>3. IsFiniteSet(1..(m + 2))
        /\ Cardinality(1..(m + 2)) = IF 1 > m + 2 THEN 0 ELSE (m + 2) - 1 + 1
    BY <2>1, FS_Interval
  <2> QED BY <2>2, <2>3, ConstantsAssumption DEF Slots
<1>2. \A s \in Slots : k.table[s].pid \in Nat /\ k.table[s].pid >= 1
  BY DEF Scene
<1>3. ASSUME NEW s \in Slots, k.table[s].pid > 3
      PROVE  req(s) \in Requests /\ req(s) < m /\ ids[req(s)] = k.table[s].pid
  <2>1. \E i \in Requests : rqs[i] # "KILLED" /\ ids[i] = k.table[s].pid
    BY <1>3, Pids DEF Listed
  <2>2. req(s) \in Requests /\ rqs[req(s)] # "KILLED" /\ ids[req(s)] = k.table[s].pid
    BY <2>1
  <2> HIDE DEF req
  <2> QED BY <2>2
<1> HIDE DEF req
<1>4. \A s \in Slots : k.table[s].pid > 3 => 3 + req(s) \in 4..(m + 2)
  BY <1>3, ConstantsAssumption DEF Requests
<1>5. \A s \in Slots : k.table[s].pid <= 3 => k.table[s].pid \in T
  BY <1>2
<1>6. f \in [Slots -> T]
  BY <1>2, <1>4, <1>5
<1>7. \E s, t \in Slots : s # t /\ f[s] = f[t]
  <2>1. Cardinality(T) < Cardinality(Slots)
    BY <1>1
  <2> HIDE DEF f, T
  <2> QED BY <1>1, <1>6, <2>1, FS_PigeonHole
<1>8. PICK s \in Slots, t \in Slots : s # t /\ f[s] = f[t]
  BY <1>7
<1>9. k.table[s].pid # k.table[t].pid
  BY <1>8 DEF Scene
<1>10. CASE k.table[s].pid <= 3 /\ k.table[t].pid <= 3
  BY <1>8, <1>9, <1>10
<1>11. CASE k.table[s].pid <= 3 /\ k.table[t].pid > 3
  BY <1>2, <1>4, <1>8, <1>11
<1>12. CASE k.table[s].pid > 3 /\ k.table[t].pid <= 3
  BY <1>2, <1>4, <1>8, <1>12
<1>13. CASE k.table[s].pid > 3 /\ k.table[t].pid > 3
  <2>1. 3 + req(s) = 3 + req(t)
    BY <1>2, <1>8, <1>13
  <2>2. req(s) \in Int /\ req(t) \in Int
    BY <1>3, <1>13 DEF Requests
  <2> QED BY <1>3, <1>9, <1>13, <2>1, <2>2
<1> QED BY <1>2, <1>10, <1>11, <1>12, <1>13

\* How alive goes with the book.
LEMMA HiredCount ==
  ASSUME NEW rqs \in Book, NEW i \in Requests
  PROVE  LET kill_it == [rqs EXCEPT ![i] = "KILLED"]
             run_it  == [rqs EXCEPT ![i] = "RUNNING"]
             stop_it == [rqs EXCEPT ![i] = "BLOCKED"]
         IN  /\ kill_it \in Book /\ run_it \in Book /\ stop_it \in Book
             /\ Cardinality(Hired(rqs)) \in Nat
             /\ Cardinality(Hired(rqs)) = 0 => \A j \in Requests : rqs[j] = "KILLED"
             /\ rqs[i] # "KILLED" =>
                  /\ Cardinality(Hired(kill_it)) = Cardinality(Hired(rqs)) - 1
                  /\ Hired(run_it) = Hired(rqs) /\ Hired(stop_it) = Hired(rqs)
             /\ rqs[i] = "KILLED" =>
                  Cardinality(Hired(run_it)) = Cardinality(Hired(rqs)) + 1
<1> DEFINE H == Hired(rqs)
           kill_it == [rqs EXCEPT ![i] = "KILLED"]
           run_it  == [rqs EXCEPT ![i] = "RUNNING"]
           stop_it == [rqs EXCEPT ![i] = "BLOCKED"]
<1>1. kill_it \in Book /\ run_it \in Book /\ stop_it \in Book
  BY DEF Book
<1>2. Hired(kill_it) = H \ {i} /\ Hired(run_it) = H \cup {i} /\ Hired(stop_it) = H \cup {i}
  BY DEF Book, Hired
<1>3. IsFiniteSet(H)
  <2>1. IsFiniteSet(Requests)
    BY FS_Interval, ConstantsAssumption DEF Requests
  <2>2. H \in SUBSET Requests
    BY DEF Hired
  <2> QED BY <2>1, <2>2, FS_Subset
<1>4. i \in H <=> rqs[i] # "KILLED"
  BY DEF Hired
<1>5. H = {} => \A j \in Requests : rqs[j] = "KILLED"
  BY DEF Hired
<1> HIDE DEF H, kill_it, run_it, stop_it
<1>6. Cardinality(H) \in Nat /\ (Cardinality(H) = 0 => H = {})
  BY <1>3, FS_CardinalityType, FS_EmptySet
<1>7. i \in H => Cardinality(H \ {i}) = Cardinality(H) - 1 /\ H \cup {i} = H
  BY <1>3, FS_RemoveElement
<1>8. i \notin H => Cardinality(H \cup {i}) = Cardinality(H) + 1
  BY <1>3, FS_AddElement
<1> QED BY <1>1, <1>2, <1>4, <1>5, <1>6, <1>7, <1>8 DEF H, kill_it, run_it, stop_it

\* The test goes on.
LEMMA TestCourse ==
  ASSUME NEW m, NEW at, NEW r, NEW rqs, NEW ids, NEW al, NEW n,
         Course(m, at, r, rqs, ids, al, n),
         NEW r2 \in 1..m, NEW rqs2 \in Book, NEW ids2 \in [Requests -> Nat], NEW al2, NEW n2,
         NEW to \in {"create", "failed", "act", "wait", "unblock", "done"},
         at[SHELL_PID] # "create",
         to = "create" => \A i \in Requests : rqs2[i] # "KILLED" <=> i < r2,
         to = "wait" => rqs2[r2] = "KILLED",
         to = "failed" => m > MAX_PROCESSES - 3,
         al2 = Cardinality(Hired(rqs2)) + (IF to = "wait" THEN 1 ELSE 0)
  PROVE  Course(m, [at EXCEPT ![TEST_PID] = to], r2, rqs2, ids2, al2, n2)
<1> DEFINE at2 == [at EXCEPT ![TEST_PID] = to]
<1>1. /\ at2 \in [{SHELL_PID, TEST_PID} ->
                   {"create", "failed", "act", "wait", "unblock", "done", "read"}]
      /\ at2[TEST_PID] = to /\ at2[SHELL_PID] # "create"
  BY Pids DEF Course
<1> HIDE DEF at2
<1>2. m \in Requests
  BY DEF Course
<1>3. Course(m, at2, r2, rqs2, ids2, al2, n2)
  BY <1>1, <1>2 DEF Course
<1> QED BY <1>3 DEF at2

\* So does the shell.
LEMMA ShellCourse ==
  ASSUME NEW m, NEW at, NEW r, NEW rqs, NEW ids, NEW al, NEW n,
         Course(m, at, r, rqs, ids, al, n), NEW n2, NEW to \in {"wait", "read"}
  PROVE  Course(m, [at EXCEPT ![SHELL_PID] = to], r, rqs, ids, al, n2)
<1> DEFINE at2 == [at EXCEPT ![SHELL_PID] = to]
<1>1. /\ at2 \in [{SHELL_PID, TEST_PID} ->
                   {"create", "failed", "act", "wait", "unblock", "done", "read"}]
      /\ at2[TEST_PID] = at[TEST_PID] /\ at2[SHELL_PID] = to
  BY Pids DEF Course
<1> HIDE DEF at2
<1>2. Course(m, at2, r, rqs, ids, al, n2)
  BY <1>1 DEF Course
<1> QED BY <1>2 DEF at2

\* The next iteration, or what follows the loop.
LEMMA NextRequest ==
  ASSUME NEW m \in Requests, NEW r \in 1..m
  PROVE  (IF r < m THEN r + 1 ELSE 1) \in 1..m /\ r \in Requests /\ m \in Nat
BY ConstantsAssumption DEF Requests

-----------------------------------------------------------------------------
(***************************************************************************)
(* The steps.                                                              *)
(***************************************************************************)

\* The parts of the invariant in the next state.
LEMMA AtWorkNext ==
  ASSUME Settled(Kernel)', NEW n \in Nat, next_pid' = n, n >= SHELL_PID, Scene(Kernel', n),
         NEW rqs, NEW ids, Listed(Kernel', rqs, ids, n), p_rqs' = rqs, pids' = ids,
         NEW m, NEW at, NEW r, NEW al, Course(m, at, r, rqs, ids, al, n),
         max_processes' = m, pc' = at, rq' = r, alive' = al
  PROVE  AtWork'
<1>1. Scene(Kernel', next_pid') /\ Listed(Kernel', p_rqs', pids', next_pid')
  OBVIOUS
<1>2. Course(max_processes', pc', rq', p_rqs', pids', alive', next_pid')
  OBVIOUS
<1> QED BY <1>1, <1>2 DEF AtWork

\* The test has the CPU.
LEMMA TestRuns ==
  ASSUME AtWork, Runs(TEST_PID)
  PROVE  /\ Kernel.current \in Slots /\ Kernel.current # idle_pcb
         /\ Kernel.table[Kernel.current].pid = TEST_PID
         /\ next_pid >= TEST_PID /\ pc[SHELL_PID] # "create"
<1>1. Kernel.table = process_table /\ Kernel.current = current_process
  BY DEF Kernel
<1>2. Kernel.current \in Slots /\ Kernel.table[Kernel.current].state # "FREE"
  BY DEF AtWork, Settled, Consistent, KType
<1>3. Kernel.table[Kernel.current].pid = TEST_PID
  BY <1>1 DEF Runs
<1>4. Kernel.table[Kernel.current].pid \in 1..next_pid /\ next_pid \in Nat
  BY <1>2 DEF AtWork, Scene
<1>5. Kernel.current # idle_pcb
  BY <1>3, Pids DEF AtWork, Scene
<1>6. next_pid >= TEST_PID
  BY <1>3, <1>4, Pids
<1> QED BY <1>2, <1>3, <1>5, <1>6, Pids DEF AtWork, Course

\* A step that leaves the kernel alone.
LEMMA NothingChanges ==
  ASSUME AtWork, UNCHANGED vars
  PROVE  /\ Settled(Kernel)' /\ Kernel' = Kernel /\ next_pid' = next_pid
         /\ Scene(Kernel', next_pid)
         /\ \A rqs, ids : Listed(Kernel, rqs, ids, next_pid) => Listed(Kernel', rqs, ids, next_pid)
<1>1. Kernel' = Kernel /\ next_pid' = next_pid
  BY DEF vars, Kernel
<1>2. Settled(Kernel')
  BY <1>1 DEF AtWork
<1> QED BY <1>1, <1>2 DEF AtWork

\* A creation: the first slot that is FREE, and a new pid.
LEMMA CreateDone ==
  ASSUME AtWork, NEW fg \in {0, 1}, create(fg)
  PROVE  \/ UNCHANGED vars /\ \A s \in Slots : Kernel.table[s].state # "FREE"
         \/ /\ next_pid' = next_pid + 1
            /\ \E s \in Slots : /\ Kernel.table[s].state = "FREE"
                                /\ Born(Kernel, s, next_pid + 1, fg # 0)
<1>1. Kernel.table = process_table
  BY DEF Kernel
<1>2. CASE \A s \in Slots : process_table[s].state # "FREE"
  BY <1>1, <1>2 DEF create
<1>3. CASE ~ \A s \in Slots : process_table[s].state # "FREE"
  <2>1. sys_create_process(fg)
    BY <1>3 DEF create
  <2>2. next_pid' = next_pid + 1
    BY <2>1 DEF sys_create_process
  <2>3. PICK s \in Slots : /\ process_table[s].state = "FREE"
                           /\ Return(process_create(Kernel, s, next_pid + 1, fg))
    BY <2>1 DEF sys_create_process
  <2>4. Settled(Kernel) /\ next_pid \in Nat /\ Scene(Kernel, next_pid)
        /\ next_pid + 1 \in Nat /\ next_pid + 1 # SHELL_PID
    BY Pids DEF AtWork
  <2>5. Born(Kernel, s, next_pid + 1, fg # 0)
    BY <1>1, <2>3, <2>4, CreateBorn
  <2> QED BY <1>1, <2>2, <2>3, <2>5
<1> QED BY <1>2, <1>3

\* tp_create.
LEMMA CreateAtWork ==
  ASSUME AtWork, tp_create, max_processes' = max_processes
  PROVE  AtWork'
<1> DEFINE k == Kernel
           n == next_pid
           to == IF rq < max_processes THEN "create" ELSE "act"
           r2 == IF rq < max_processes THEN rq + 1 ELSE 1
<1>1. Runs(TEST_PID) /\ pc[TEST_PID] = "create" /\ create(0)
  BY DEF tp_create
<1>2. /\ n \in Nat /\ n >= TEST_PID /\ n >= SHELL_PID /\ pc[SHELL_PID] # "create"
      /\ Scene(k, n) /\ Listed(k, p_rqs, pids, n)
      /\ Course(max_processes, pc, rq, p_rqs, pids, alive, n)
  BY <1>1, TestRuns DEF AtWork
<1>3. /\ max_processes \in Requests /\ rq \in 1..max_processes /\ rq \in Requests
      /\ p_rqs \in Book /\ pids \in [Requests -> Nat]
      /\ \A i \in Requests : p_rqs[i] # "KILLED" <=> i < rq
      /\ alive = Cardinality(Hired(p_rqs))
      /\ Cardinality(Hired(p_rqs)) \in Nat /\ rq \in Nat /\ max_processes \in Nat
  <2>1. /\ max_processes \in Requests /\ rq \in 1..max_processes
        /\ p_rqs \in Book /\ pids \in [Requests -> Nat]
        /\ \A i \in Requests : p_rqs[i] # "KILLED" <=> i < rq
        /\ alive = Cardinality(Hired(p_rqs)) + 0
    BY <1>1, <1>2 DEF Course
  <2>2. rq \in Requests /\ rq \in Nat /\ max_processes \in Nat
    BY <2>1, NextRequest
  <2>3. Cardinality(Hired(p_rqs)) \in Nat
    BY <2>1, <2>2, HiredCount
  <2> QED BY <2>1, <2>2, <2>3
<1>4. CASE UNCHANGED vars /\ \A s \in Slots : k.table[s].state # "FREE"
  <2>1. created = -1
    BY <1>4 DEF created, vars
  <2>2. pc' = [pc EXCEPT ![TEST_PID] = "failed"] /\ UNCHANGED book
    BY <2>1 DEF tp_create
  <2>3. MAX_PROCESSES <= rq + 2
    BY <1>2, <1>3, <1>4, TableFull
  <2>4. max_processes > MAX_PROCESSES - 3
    BY <1>3, <2>3, ConstantsAssumption
  <2>5. Course(max_processes, [pc EXCEPT ![TEST_PID] = "failed"], rq, p_rqs, pids, alive, n)
    <3> DEFINE there == "failed"
    <3>1. /\ there \in {"create", "failed", "act", "wait", "unblock", "done"}
          /\ there # "create" /\ there # "wait"
          /\ alive = Cardinality(Hired(p_rqs)) + (IF there = "wait" THEN 1 ELSE 0)
      BY <1>3
    <3> HIDE DEF there
    <3>2. Course(max_processes, [pc EXCEPT ![TEST_PID] = there], rq, p_rqs, pids, alive, n)
      BY <1>2, <1>3, <2>4, <3>1, TestCourse
    <3> QED BY <3>2 DEF there
  <2>6. /\ Settled(Kernel)' /\ next_pid' = n /\ Scene(Kernel', n)
        /\ Listed(Kernel', p_rqs, pids, n)
    BY <1>2, <1>4, NothingChanges
  <2> QED BY <1>2, <2>2, <2>5, <2>6, AtWorkNext DEF book
<1>5. CASE /\ next_pid' = next_pid + 1
           /\ \E s \in Slots : k.table[s].state = "FREE" /\ Born(k, s, next_pid + 1, 0 # 0)
  <2>1. PICK s \in Slots : k.table[s].state = "FREE" /\ Born(k, s, n + 1, FALSE)
    BY <1>5
  <2>2. created = n + 1 /\ created # -1
    BY <1>2, <1>5 DEF created
  <2>3. /\ Loop("create", "act") /\ alive' = alive + 1
        /\ pids' = [pids EXCEPT ![rq] = n + 1]
        /\ p_rqs' = [p_rqs EXCEPT ![rq] = "RUNNING"]
    BY <2>2 DEF tp_create
  <2>4. pc' = [pc EXCEPT ![TEST_PID] = to] /\ rq' = r2
    BY <2>3 DEF Loop, Goto
  <2> DEFINE new == [p_rqs EXCEPT ![rq] = "RUNNING"]
             nid == [pids EXCEPT ![rq] = n + 1]
  <2>5. p_rqs[rq] = "KILLED"
    BY <1>3
  <2>6. Scene(Kernel', n + 1) /\ Listed(Kernel', new, nid, n + 1) /\ Settled(Kernel)'
    <3>1. Scene(Kernel', n + 1)
      BY <1>2, <2>1, BornScene
    <3>2. Listed(Kernel', new, nid, n + 1)
      BY <1>2, <1>3, <2>1, <2>5, BornChild
    <3> QED BY <2>1, <3>1, <3>2 DEF Born
  <2>7. new \in Book /\ Cardinality(Hired(new)) = Cardinality(Hired(p_rqs)) + 1
    BY <1>3, <2>5, HiredCount
  <2>8. nid \in [Requests -> Nat] /\ n + 1 \in Nat /\ n + 1 >= SHELL_PID
    BY <1>2, <1>3, Pids
  <2>9. r2 \in 1..max_processes /\ to \in {"create", "act"}
    BY <1>3, NextRequest
  <2>10. to = "create" => \A i \in Requests : new[i] # "KILLED" <=> i < r2
    <3> SUFFICES ASSUME rq < max_processes, NEW i \in Requests
                 PROVE  new[i] # "KILLED" <=> i < rq + 1
      OBVIOUS
    <3>1. new[i] = IF i = rq THEN "RUNNING" ELSE p_rqs[i]
      BY <1>3 DEF Book
    <3>2. i \in Nat
      BY DEF Requests
    <3> HIDE DEF new
    <3> QED BY <1>3, <3>1, <3>2
  <2>11. alive + 1 = Cardinality(Hired(new)) + (IF to = "wait" THEN 1 ELSE 0)
    BY <1>3, <2>7, <2>9
  <2> HIDE DEF new, nid, to, r2
  <2>12. Course(max_processes, [pc EXCEPT ![TEST_PID] = to], r2, new, nid, alive + 1, n + 1)
    BY <1>2, <2>7, <2>8, <2>9, <2>10, <2>11, TestCourse
  <2>13. p_rqs' = new /\ pids' = nid
    BY <2>3 DEF new, nid
  <2> QED BY <1>5, <2>3, <2>4, <2>6, <2>8, <2>12, <2>13, AtWorkNext
<1> QED BY <1>1, <1>4, <1>5, CreateDone

\* What the test knows when it is at a request.
LEMMA AtRequest ==
  ASSUME AtWork, Runs(TEST_PID)
  PROVE  /\ Settled(Kernel) /\ next_pid \in Nat /\ next_pid >= SHELL_PID
         /\ pc[SHELL_PID] # "create"
         /\ Scene(Kernel, next_pid) /\ Listed(Kernel, p_rqs, pids, next_pid)
         /\ Course(max_processes, pc, rq, p_rqs, pids, alive, next_pid)
         /\ max_processes \in Requests /\ rq \in 1..max_processes /\ rq \in Requests
         /\ p_rqs \in Book /\ pids \in [Requests -> Nat]
         /\ Cardinality(Hired(p_rqs)) \in Nat
         /\ alive = Cardinality(Hired(p_rqs)) + (IF pc[TEST_PID] = "wait" THEN 1 ELSE 0)
<1>1. /\ Settled(Kernel) /\ next_pid \in Nat /\ next_pid >= SHELL_PID
      /\ pc[SHELL_PID] # "create"
      /\ Scene(Kernel, next_pid) /\ Listed(Kernel, p_rqs, pids, next_pid)
      /\ Course(max_processes, pc, rq, p_rqs, pids, alive, next_pid)
  BY TestRuns DEF AtWork
<1>2. /\ max_processes \in Requests /\ rq \in 1..max_processes
      /\ p_rqs \in Book /\ pids \in [Requests -> Nat]
      /\ alive = Cardinality(Hired(p_rqs)) + (IF pc[TEST_PID] = "wait" THEN 1 ELSE 0)
  BY <1>1 DEF Course
<1>3. rq \in Requests
  BY <1>2, NextRequest
<1>4. Cardinality(Hired(p_rqs)) \in Nat
  BY <1>2, <1>3, HiredCount
<1> QED BY <1>1, <1>2, <1>3, <1>4

\* tp_failed: the test exits, its processes live on.
LEMMA FailedAtWork ==
  ASSUME AtWork, tp_failed, max_processes' = max_processes
  PROVE  AtWork'
<1> DEFINE to == "done"
           s == Kernel.current
<1>1. /\ Runs(TEST_PID) /\ pc[TEST_PID] = "failed" /\ pc' = [pc EXCEPT ![TEST_PID] = to]
      /\ Return(process_exit(Kernel, {})) /\ next_pid' = next_pid
      /\ rq' = rq /\ p_rqs' = p_rqs /\ alive' = alive /\ pids' = pids
  BY DEF tp_failed, Goto, exit, book
<1>2. /\ to \in {"create", "failed", "act", "wait", "unblock", "done"}
      /\ to \notin {"create", "wait", "failed"}
      /\ alive = Cardinality(Hired(p_rqs)) + (IF to = "wait" THEN 1 ELSE 0)
  BY <1>1, AtRequest
<1> HIDE DEF to
<1>3. Course(max_processes, [pc EXCEPT ![TEST_PID] = to], rq, p_rqs, pids, alive, next_pid)
  BY <1>1, <1>2, AtRequest, TestCourse
<1>4. s \in Slots /\ s # idle_pcb /\ Kernel.table[s].pid = TEST_PID
  BY <1>1, TestRuns
<1>5. Lost(Kernel, s)
  BY <1>1, <1>4, AtRequest, ExitLost
<1>6. Settled(Kernel)' /\ Still(Kernel, Kernel', {s}) /\ Kernel'.table[s].state = "FREE"
  BY <1>5 DEF Lost
<1>7. Scene(Kernel', next_pid) /\ Listed(Kernel', p_rqs, pids, next_pid)
  BY <1>1, <1>4, <1>6, AtRequest, LostScene, LostTest
<1> QED BY <1>1, <1>3, <1>6, <1>7, AtRequest, AtWorkNext

\* tp_kill.
LEMMA KillAtWork ==
  ASSUME AtWork, tp_kill, max_processes' = max_processes
  PROVE  AtWork'
<1> DEFINE to == "wait"
           s == process_get(Kernel, pids[rq])
           new == [p_rqs EXCEPT ![rq] = "KILLED"]
<1>1. /\ Runs(TEST_PID) /\ pc[TEST_PID] = "act" /\ pc' = [pc EXCEPT ![TEST_PID] = to]
      /\ kill(pids[rq]) /\ p_rqs[rq] # "KILLED"
      /\ rq' = rq /\ p_rqs' = new /\ alive' = alive /\ pids' = pids
  BY DEF tp_kill, Goto
<1>2. /\ s \in Slots /\ s # NULL /\ s # idle_pcb /\ Kernel.table[s].pid = pids[rq]
      /\ Kernel.table[s].state # "FREE"
  BY <1>1, AtRequest, SlotOf
<1>3. Return(process_kill(Kernel, s, {}, {})) /\ next_pid' = next_pid
  BY <1>1, <1>2 DEF kill
<1> HIDE DEF s
<1>4. Lost(Kernel, s)
  BY <1>1, <1>2, <1>3, AtRequest, KillLost
<1>5. Settled(Kernel)' /\ Still(Kernel, Kernel', {s}) /\ Kernel'.table[s].state = "FREE"
  BY <1>4 DEF Lost
<1>6. Scene(Kernel', next_pid)
  BY <1>1, <1>2, <1>5, AtRequest, LostScene
<1>7. Listed(Kernel', new, pids, next_pid)
  BY <1>1, <1>2, <1>5, AtRequest, LostChild
<1>8. new \in Book /\ Cardinality(Hired(new)) = Cardinality(Hired(p_rqs)) - 1
  BY <1>1, AtRequest, HiredCount
<1>9. new[rq] = "KILLED"
  BY <1>1, AtRequest DEF Book
<1>10. /\ to \in {"create", "failed", "act", "wait", "unblock", "done"}
       /\ to \notin {"create", "failed"}
       /\ alive = Cardinality(Hired(new)) + (IF to = "wait" THEN 1 ELSE 0)
  BY <1>1, <1>8, AtRequest
<1> HIDE DEF new, to
<1>11. Course(max_processes, [pc EXCEPT ![TEST_PID] = to], rq, new, pids, alive, next_pid)
  BY <1>1, <1>8, <1>9, <1>10, AtRequest, TestCourse
<1> QED BY <1>1, <1>3, <1>5, <1>6, <1>7, <1>11, AtRequest, AtWorkNext

\* A loop over the requests that does not end in the creation of new ones.
LEMMA LoopCourse ==
  ASSUME AtWork, Runs(TEST_PID), pc[TEST_PID] # "create",
         NEW new \in Book, NEW al, al = Cardinality(Hired(new)),
         NEW from \in {"act", "unblock"}, NEW after \in {"act", "unblock", "create"},
         after = "create" => \A i \in Requests : new[i] = "KILLED"
  PROVE  Course(max_processes,
                [pc EXCEPT ![TEST_PID] = IF rq < max_processes THEN from ELSE after],
                IF rq < max_processes THEN rq + 1 ELSE 1, new, pids, al, next_pid)
<1> DEFINE to == IF rq < max_processes THEN from ELSE after
           r2 == IF rq < max_processes THEN rq + 1 ELSE 1
<1>1. r2 \in 1..max_processes
  BY AtRequest, NextRequest
<1>2. /\ to \in {"create", "failed", "act", "wait", "unblock", "done"}
      /\ to \notin {"wait", "failed"}
  OBVIOUS
<1>3. to = "create" => \A i \in Requests : new[i] # "KILLED" <=> i < r2
  <2>1. \A i \in Requests : ~(i < 1)
    BY DEF Requests
  <2> QED BY <2>1
<1>4. al = Cardinality(Hired(new)) + (IF to = "wait" THEN 1 ELSE 0)
  <2>1. al \in Nat
    <3>1. rq \in Requests
      BY AtRequest
    <3> QED BY <3>1, HiredCount
  <2> QED BY <1>2, <2>1
<1> HIDE DEF to, r2
<1>5. Course(max_processes, [pc EXCEPT ![TEST_PID] = to], r2, new, pids, al, next_pid)
  BY <1>1, <1>2, <1>3, <1>4, AtRequest, TestCourse
<1> QED BY <1>5 DEF to, r2

\* tp_wait: nobody has the pid, and the test goes on.
LEMMA WaitAtWork ==
  ASSUME AtWork, tp_wait, max_processes' = max_processes
  PROVE  AtWork'
<1>1. /\ Runs(TEST_PID) /\ pc[TEST_PID] = "wait"
      /\ pc' = [pc EXCEPT ![TEST_PID] = IF rq < max_processes THEN "act" ELSE "unblock"]
      /\ rq' = IF rq < max_processes THEN rq + 1 ELSE 1
      /\ Return(process_waitpid(Kernel, pids[rq])) /\ next_pid' = next_pid
      /\ alive' = alive - 1 /\ p_rqs' = p_rqs /\ pids' = pids
  BY DEF tp_wait, wait
<1>2. p_rqs[rq] = "KILLED"
  BY <1>1, AtRequest DEF Course
<1>3. process_get(Kernel, pids[rq]) = NULL /\ pids[rq] \in Nat
  BY <1>1, <1>2, AtRequest, KilledIsGone
<1>4. Kernel.force_switch = FALSE
  BY DEF Kernel
<1>5. Quiet(Kernel)
  BY <1>1, <1>3, <1>4, AtRequest, WaitQuiet
<1>6. Settled(Kernel)' /\ Scene(Kernel', next_pid) /\ Listed(Kernel', p_rqs, pids, next_pid)
  BY <1>1, <1>5, AtRequest, QuietKept DEF Quiet
<1>7. alive - 1 = Cardinality(Hired(p_rqs))
  BY <1>1, AtRequest
<1>8. Course(max_processes,
             [pc EXCEPT ![TEST_PID] = IF rq < max_processes THEN "act" ELSE "unblock"],
             IF rq < max_processes THEN rq + 1 ELSE 1, p_rqs, pids, alive - 1, next_pid)
  BY <1>1, <1>7, AtRequest, LoopCourse
<1> QED BY <1>1, <1>6, <1>8, AtRequest, AtWorkNext

\* tp_block.
LEMMA BlockAtWork ==
  ASSUME AtWork, tp_block, max_processes' = max_processes
  PROVE  AtWork'
<1> DEFINE s == process_get(Kernel, pids[rq])
           new == [p_rqs EXCEPT ![rq] = "BLOCKED"]
<1>1. /\ Runs(TEST_PID) /\ pc[TEST_PID] = "act"
      /\ pc' = [pc EXCEPT ![TEST_PID] = IF rq < max_processes THEN "act" ELSE "unblock"]
      /\ rq' = IF rq < max_processes THEN rq + 1 ELSE 1
      /\ block(pids[rq]) /\ p_rqs[rq] = "RUNNING" /\ p_rqs[rq] # "KILLED"
      /\ alive' = alive /\ p_rqs' = new /\ pids' = pids
  BY DEF tp_block, Loop, Goto
<1>2. /\ s \in Slots /\ s # NULL /\ s # idle_pcb /\ Kernel.table[s].pid = pids[rq]
      /\ Kernel.table[s].state # "FREE" /\ Kernel.table[s].pid # SHELL_PID
      /\ Kernel.table[s].state \in {"READY", "RUNNING"}
  <2>1. Believed("RUNNING") = {"READY", "RUNNING"}
    BY DEF Believed
  <2> QED BY <1>1, <2>1, AtRequest, SlotOf
<1>3. Return(process_block(Kernel, pids[rq])) /\ next_pid' = next_pid
  <2>1. Kernel.table = process_table
    BY DEF Kernel
  <2>2. process_table[s].state # "BLOCKED"
    BY <1>2, <2>1
  <2> QED BY <1>1, <1>2, <2>2 DEF block
<1> HIDE DEF s
<1>4. Turned(Kernel, s, "BLOCKED")
  BY <1>1, <1>2, <1>3, AtRequest, BlockTurned DEF s
<1>5. Settled(Kernel)'
  BY <1>4 DEF Turned
<1>6. "BLOCKED" \in Believed("BLOCKED")
  BY DEF Believed
<1>7. Scene(Kernel', next_pid) /\ Listed(Kernel', new, pids, next_pid)
  BY <1>1, <1>2, <1>4, <1>6, AtRequest, TurnedKept
<1>8. new \in Book /\ alive = Cardinality(Hired(new))
  <2>1. alive = Cardinality(Hired(p_rqs))
    BY <1>1, AtRequest
  <2> QED BY <1>1, <2>1, AtRequest, HiredCount
<1> HIDE DEF new
<1>9. Course(max_processes,
             [pc EXCEPT ![TEST_PID] = IF rq < max_processes THEN "act" ELSE "unblock"],
             IF rq < max_processes THEN rq + 1 ELSE 1, new, pids, alive, next_pid)
  BY <1>1, <1>8, LoopCourse
<1> QED BY <1>1, <1>3, <1>5, <1>7, <1>9, AtRequest, AtWorkNext

\* tp_skip.
LEMMA SkipAtWork ==
  ASSUME AtWork, tp_skip, max_processes' = max_processes
  PROVE  AtWork'
<1>1. /\ Runs(TEST_PID) /\ pc[TEST_PID] = "act"
      /\ pc' = [pc EXCEPT ![TEST_PID] = IF rq < max_processes THEN "act" ELSE "unblock"]
      /\ rq' = IF rq < max_processes THEN rq + 1 ELSE 1
      /\ UNCHANGED vars /\ alive' = alive /\ p_rqs' = p_rqs /\ pids' = pids
  BY DEF tp_skip, Loop, Goto
<1>2. /\ Settled(Kernel)' /\ next_pid' = next_pid /\ Scene(Kernel', next_pid)
      /\ Listed(Kernel', p_rqs, pids, next_pid)
  BY <1>1, AtRequest, NothingChanges
<1>3. alive = Cardinality(Hired(p_rqs))
  BY <1>1, AtRequest
<1>4. Course(max_processes,
             [pc EXCEPT ![TEST_PID] = IF rq < max_processes THEN "act" ELSE "unblock"],
             IF rq < max_processes THEN rq + 1 ELSE 1, p_rqs, pids, alive, next_pid)
  BY <1>1, <1>3, AtRequest, LoopCourse
<1> QED BY <1>1, <1>2, <1>4, AtRequest, AtWorkNext

\* tp_unblock.  A new round begins when alive is 0: all are killed.
LEMMA UnblockAtWork ==
  ASSUME AtWork, tp_unblock, max_processes' = max_processes
  PROVE  AtWork'
<1> DEFINE after == IF alive > 0 THEN "act" ELSE "create"
           s == process_get(Kernel, pids[rq])
<1>1. /\ Runs(TEST_PID) /\ pc[TEST_PID] = "unblock"
      /\ pc' = [pc EXCEPT ![TEST_PID] = IF rq < max_processes THEN "unblock" ELSE after]
      /\ rq' = IF rq < max_processes THEN rq + 1 ELSE 1
      /\ alive' = alive /\ pids' = pids
      /\ \/ /\ p_rqs[rq] = "BLOCKED" /\ unblock(pids[rq])
            /\ p_rqs' = [p_rqs EXCEPT ![rq] = "RUNNING"]
         \/ UNCHANGED <<vars, p_rqs>>
  BY DEF tp_unblock, Loop, Goto
<1>2. alive = Cardinality(Hired(p_rqs)) /\ alive \in Nat /\ after \in {"act", "create"}
  BY <1>1, AtRequest
<1>3. after = "create" => Hired(p_rqs) = {} /\ \A i \in Requests : p_rqs[i] = "KILLED"
  <2> SUFFICES ASSUME after = "create"
               PROVE  Hired(p_rqs) = {} /\ \A i \in Requests : p_rqs[i] = "KILLED"
    OBVIOUS
  <2>1. alive = 0
    BY <1>2
  <2>2. \A i \in Requests : p_rqs[i] = "KILLED"
    BY <1>1, <1>2, <2>1, AtRequest, HiredCount
  <2> QED BY <2>2 DEF Hired
<1> HIDE DEF after
<1>4. ASSUME NEW new \in Book, Hired(new) = Hired(p_rqs)
      PROVE  Course(max_processes,
               [pc EXCEPT ![TEST_PID] = IF rq < max_processes THEN "unblock" ELSE after],
               IF rq < max_processes THEN rq + 1 ELSE 1, new, pids, alive, next_pid)
  <2>1. after = "create" => \A i \in Requests : new[i] = "KILLED"
    BY <1>3, <1>4 DEF Hired
  <2> QED BY <1>1, <1>2, <1>4, <2>1, LoopCourse
<1>5. CASE /\ p_rqs[rq] = "BLOCKED" /\ unblock(pids[rq])
           /\ p_rqs' = [p_rqs EXCEPT ![rq] = "RUNNING"]
  <2> DEFINE new == [p_rqs EXCEPT ![rq] = "RUNNING"]
  <2>1. /\ s \in Slots /\ s # NULL /\ s # idle_pcb /\ Kernel.table[s].pid = pids[rq]
        /\ Kernel.table[s].state # "FREE" /\ Kernel.table[s].pid # SHELL_PID
        /\ Kernel.table[s].state = "BLOCKED" /\ p_rqs[rq] # "KILLED"
    <3>1. Believed("BLOCKED") = {"BLOCKED"} /\ p_rqs[rq] # "KILLED"
      BY <1>5 DEF Believed
    <3> QED BY <1>1, <1>5, <3>1, AtRequest, SlotOf
  <2>2. Return(process_unblock(Kernel, pids[rq])) /\ next_pid' = next_pid
    BY <1>5 DEF unblock
  <2> HIDE DEF s
  <2>3. Turned(Kernel, s, "READY")
    BY <1>1, <2>1, <2>2, AtRequest, UnblockTurned DEF s
  <2>4. Settled(Kernel)' /\ "READY" \in Believed("RUNNING")
    BY <2>3 DEF Turned, Believed
  <2>5. Scene(Kernel', next_pid) /\ Listed(Kernel', new, pids, next_pid)
    BY <1>1, <2>1, <2>3, <2>4, AtRequest, TurnedKept
  <2>6. new \in Book /\ Hired(new) = Hired(p_rqs)
    BY <1>1, <2>1, AtRequest, HiredCount
  <2>7. p_rqs' = new
    BY <1>5
  <2> HIDE DEF new
  <2> QED BY <1>1, <1>4, <2>2, <2>4, <2>5, <2>6, <2>7, AtRequest, AtWorkNext
<1>6. CASE UNCHANGED <<vars, p_rqs>>
  <2>1. /\ Settled(Kernel)' /\ next_pid' = next_pid /\ Scene(Kernel', next_pid)
        /\ Listed(Kernel', p_rqs, pids, next_pid) /\ p_rqs' = p_rqs
    BY <1>1, <1>6, AtRequest, NothingChanges
  <2> QED BY <1>1, <1>4, <2>1, AtRequest, AtWorkNext
<1> QED BY <1>1, <1>5, <1>6

\* The shell: it starts the test, waits for it and reads the next line.
LEMMA ShellAtWork ==
  ASSUME AtWork, shell, max_processes' = max_processes
  PROVE  AtWork'
<1> DEFINE k == Kernel
           n == next_pid
<1>1. /\ Settled(k) /\ n \in Nat /\ n >= SHELL_PID /\ Scene(k, n) /\ Listed(k, p_rqs, pids, n)
      /\ Course(max_processes, pc, rq, p_rqs, pids, alive, n)
  BY DEF AtWork
<1>2. rq' = rq /\ p_rqs' = p_rqs /\ alive' = alive /\ pids' = pids
  BY DEF shell, book
<1>3. k.table = process_table /\ k.current = current_process /\ k.force_switch = FALSE
  BY DEF Kernel
<1>4. \A n2, to : to \in {"wait", "read"} =>
        Course(max_processes, [pc EXCEPT ![SHELL_PID] = to], rq, p_rqs, pids, alive, n2)
  BY <1>1, ShellCourse
<1>5. ASSUME Quiet(k), next_pid' = n, NEW to \in {"wait", "read"},
             pc' = [pc EXCEPT ![SHELL_PID] = to]
      PROVE  AtWork'
  <2>1. Settled(Kernel)' /\ Scene(Kernel', n) /\ Listed(Kernel', p_rqs, pids, n)
    BY <1>1, <1>5, QuietKept DEF Quiet
  <2> QED BY <1>1, <1>2, <1>4, <1>5, <2>1, AtWorkNext
<1>6. CASE Goto(SHELL_PID, "create", "wait") /\ create(1)
  <2>1. pc[SHELL_PID] = "create" /\ pc' = [pc EXCEPT ![SHELL_PID] = "wait"] /\ create(1)
    BY <1>6 DEF Goto
  <2>2. n = SHELL_PID
    BY <1>1, <2>1 DEF Course
  <2>3. CASE UNCHANGED vars
    <3>1. /\ Settled(Kernel)' /\ next_pid' = n /\ Scene(Kernel', n)
          /\ Listed(Kernel', p_rqs, pids, n)
      BY <1>1, <2>3, NothingChanges
    <3>2. Course(max_processes, [pc EXCEPT ![SHELL_PID] = "wait"], rq, p_rqs, pids, alive, n)
      BY <1>4
    <3> QED BY <1>1, <1>2, <2>1, <3>1, <3>2, AtWorkNext
  <2>4. CASE /\ next_pid' = next_pid + 1
             /\ \E s \in Slots : k.table[s].state = "FREE" /\ Born(k, s, next_pid + 1, 1 # 0)
    <3>1. PICK s \in Slots : k.table[s].state = "FREE" /\ Born(k, s, n + 1, TRUE)
      <4>1. (1 # 0) = TRUE
        OBVIOUS
      <4> HIDE DEF k
      <4> QED BY <2>4, <4>1
    <3>2. n + 1 = TEST_PID /\ TEST_PID \in Nat /\ TEST_PID >= SHELL_PID
      BY <2>2, Pids
    <3>3. Scene(Kernel', TEST_PID) /\ Settled(Kernel)'
      BY <1>1, <3>1, <3>2, BornScene DEF Born
    <3>4. Listed(Kernel', p_rqs, pids, TEST_PID)
      BY <1>1, <2>2, <3>1, <3>2, BornTest
    <3>5. Course(max_processes, [pc EXCEPT ![SHELL_PID] = "wait"], rq, p_rqs, pids, alive,
                 TEST_PID)
      BY <1>4
    <3>6. next_pid' = TEST_PID
      BY <2>4, <3>2
    <3> QED BY <1>2, <2>1, <3>2, <3>3, <3>4, <3>5, <3>6, AtWorkNext
  <2> QED BY <2>1, <2>3, <2>4, CreateDone
<1>7. CASE Goto(SHELL_PID, "wait", "read") /\ wait(TEST_PID)
  <2>1. /\ k.table[k.current].pid = SHELL_PID /\ pc' = [pc EXCEPT ![SHELL_PID] = "read"]
        /\ Return(process_waitpid(k, TEST_PID)) /\ next_pid' = n /\ TEST_PID \in Nat
    BY <1>3, <1>7, Pids DEF Goto, Runs, wait
  <2>2. Quiet(k)
    BY <1>1, <1>3, <2>1, WaitQuiet
  <2> QED BY <1>5, <2>1, <2>2
<1>8. CASE /\ Goto(SHELL_PID, "read", "read")
           /\ Return([Set(Kernel, current_process,
                        [process_table[current_process] EXCEPT !.state = "BLOCKED"])
                       EXCEPT !.kbd = current_process, !.force_switch = TRUE])
           /\ UNCHANGED next_pid
  <2>1. /\ k.table[k.current].pid = SHELL_PID /\ pc' = [pc EXCEPT ![SHELL_PID] = "read"]
        /\ next_pid' = n
        /\ Return([Set(k, k.current, [k.table[k.current] EXCEPT !.state = "BLOCKED"])
                     EXCEPT !.kbd = k.current, !.force_switch = TRUE])
    BY <1>3, <1>8 DEF Goto, Runs
  <2>2. Quiet(k)
    BY <1>1, <2>1, ReadQuiet, Zenon
  <2> QED BY <1>5, <2>1, <2>2
<1> QED BY <1>6, <1>7, <1>8 DEF shell

\* A step of the kernel alone: the programs are where they were.
LEMMA KernelAtWork ==
  ASSUME AtWork, UNCHANGED <<next_pid, whole, pc, book>>, Settled(Kernel)',
         Scene(Kernel', next_pid), Listed(Kernel', p_rqs, pids, next_pid)
  PROVE  AtWork'
<1>1. /\ next_pid' = next_pid /\ max_processes' = max_processes /\ pc' = pc
      /\ rq' = rq /\ p_rqs' = p_rqs /\ alive' = alive /\ pids' = pids
  BY DEF whole, book
<1>2. /\ next_pid \in Nat /\ next_pid >= SHELL_PID
      /\ Course(max_processes, pc, rq, p_rqs, pids, alive, next_pid)
  BY DEF AtWork
<1> QED BY <1>1, <1>2, AtWorkNext

\* Ctrl+C ends the test: of the two in the foreground it is the later one.
LEMMA InterruptAtWork ==
  ASSUME AtWork, Interrupt
  PROVE  AtWork'
<1> DEFINE k == Kernel
<1>1. Settled(k) /\ next_pid \in Nat /\ Scene(k, next_pid) /\ Listed(k, p_rqs, pids, next_pid)
  BY DEF AtWork
<1>2. PICK s \in KillTarget(k) : Return(process_kill(k, s, {}, {}))
  BY DEF Interrupt
<1>3. /\ s \in Slots /\ k.table[s].state # "FREE" /\ k.table[s].foreground
      /\ Foreground(k) # {s}
      /\ \A t \in Foreground(k) : k.table[t].pid <= k.table[s].pid
  BY DEF KillTarget, Foreground
<1>4. PICK t \in Foreground(k) : t # s
  BY <1>3 DEF Foreground
<1>5. t \in Slots /\ k.table[t].state # "FREE" /\ k.table[t].foreground
  BY DEF Foreground
<1>6. /\ k.table[s].pid \in {SHELL_PID, TEST_PID} /\ k.table[t].pid \in {SHELL_PID, TEST_PID}
      /\ k.table[s].pid # k.table[t].pid /\ k.table[t].pid <= k.table[s].pid
  BY <1>1, <1>3, <1>4, <1>5 DEF Scene
<1>7. k.table[s].pid = TEST_PID
  BY <1>6, Pids
<1>8. s # idle_pcb
  BY <1>1, <1>7, Pids DEF Scene
<1>9. Lost(k, s)
  BY <1>1, <1>2, <1>3, <1>8, KillLost
<1>10. Settled(Kernel)' /\ Still(k, Kernel', {s}) /\ Kernel'.table[s].state = "FREE"
  BY <1>9 DEF Lost
<1>11. Scene(Kernel', next_pid) /\ Listed(Kernel', p_rqs, pids, next_pid)
  BY <1>1, <1>3, <1>7, <1>8, <1>10, LostScene, LostTest
<1>12. UNCHANGED <<next_pid, whole, pc, book>>
  BY DEF Interrupt
<1> QED BY <1>10, <1>11, <1>12, KernelAtWork

\* A tick changes who has the CPU.
LEMMA TimerAtWork ==
  ASSUME AtWork, Timer
  PROVE  AtWork'
<1> DEFINE k == Kernel
<1>1. Settled(k) /\ next_pid \in Nat /\ Scene(k, next_pid) /\ Listed(k, p_rqs, pids, next_pid)
  BY DEF AtWork
<1>2. scheduler_tick(k) /\ UNCHANGED <<next_pid, whole, pc, book>>
  BY DEF Timer, Tick
<1>3. IdleReady(k) /\ Reaped(k) = {}
  BY <1>1 DEF Scene, IdleReady, Settled, Reaped
<1>4. Settled(Kernel)' /\ Left(k, Kernel')
  BY <1>1, <1>2, <1>3, TickSettles, TickLeft
<1>5. Scene(Kernel', next_pid) /\ Listed(Kernel', p_rqs, pids, next_pid)
  BY <1>1, <1>3, <1>4, QuietKept DEF Left
<1> QED BY <1>2, <1>4, <1>5, KernelAtWork

\* The test begins with no request hired.
LEMMA InitAtWork ==
  ASSUME TInit, test = "processes"
  PROVE  AtWork
<1> USE ConstantsAssumption
<1> DEFINE k == Kernel
           idle == [FreePCB EXCEPT !.pid = IDLE_PID, !.state = "READY",
                                   !.remaining_quanta = 1, !.stack = TRUE]
           first == [FreePCB EXCEPT !.pid = SHELL_PID, !.state = "RUNNING",
                       !.priority = DEFAULT_PRIORITY, !.remaining_quanta = DEFAULT_PRIORITY,
                       !.foreground = TRUE, !.stack = TRUE]
<1>1. /\ Init /\ max_processes \in Arguments /\ rq = 1 /\ alive = 0
      /\ pc = [pid \in {SHELL_PID, TEST_PID} |-> "create"]
      /\ p_rqs = [i \in 1..MAX_PROCESSES |-> "KILLED"]
      /\ pids = [i \in 1..MAX_PROCESSES |-> 0]
  BY DEF TInit
<1>2. Settled(k) /\ next_pid = SHELL_PID
  BY <1>1, InitInv DEF Inv, Init
<1>3. k.table = [s \in Slots |-> IF s = 0 THEN idle ELSE IF s = 1 THEN first ELSE FreePCB]
  BY <1>1 DEF Init, Kernel
<1>4. /\ idle.pid = 1 /\ idle.state = "READY" /\ ~idle.foreground /\ idle.waiting_for = 0
      /\ first.pid = 2 /\ first.state = "RUNNING" /\ FreePCB.state = "FREE"
  BY DEF FreePCB, IDLE_PID, SHELL_PID
<1> HIDE DEF k, idle, first
<1>5. /\ k.table[0] = idle /\ k.table[1] = first
      /\ \A s \in Slots \ {0, 1} : k.table[s].state = "FREE"
  BY <1>3, <1>4 DEF Slots
<1>6. Scene(k, SHELL_PID)
  BY <1>4, <1>5, Pids DEF Scene, idle_pcb
<1>7. Listed(k, p_rqs, pids, SHELL_PID)
  <2>1. \A i \in Requests : p_rqs[i] = "KILLED" /\ pids[i] = 0
    BY <1>1 DEF Requests
  <2>2. \A s \in Slots : k.table[s].state # "FREE" => k.table[s].pid \in {1, 2}
    BY <1>4, <1>5
  <2> QED BY <2>1, <2>2, Pids DEF Listed
<1>8. Course(max_processes, pc, rq, p_rqs, pids, alive, SHELL_PID)
  <2>1. max_processes \in Requests /\ rq \in 1..max_processes
    BY <1>1, TestProcsAssumption DEF Requests
  <2>2. p_rqs \in Book /\ pids \in [Requests -> Nat]
    BY <1>1 DEF Requests, Book
  <2>3. Hired(p_rqs) = {}
    BY <1>1 DEF Hired, Requests
  <2>4. alive = Cardinality(Hired(p_rqs)) + 0
    <3>1. Cardinality(Hired(p_rqs)) = 0
      BY <2>3, FS_EmptySet, Zenon
    <3> QED BY <1>1, <3>1
  <2>5. \A i \in Requests : p_rqs[i] # "KILLED" <=> i < rq
    BY <1>1 DEF Requests
  <2>6. pc[TEST_PID] = "create"
    BY <1>1
  <2>7. pc \in [{SHELL_PID, TEST_PID} ->
                  {"create", "failed", "act", "wait", "unblock", "done", "read"}]
    BY <1>1
  <2> QED BY <2>1, <2>2, <2>4, <2>5, <2>6, <2>7 DEF Course
<1> QED BY <1>2, <1>6, <1>7, <1>8, Pids DEF AtWork, k

\* A step of the machine while test_processes runs.
LEMMA StepAtWork ==
  ASSUME AtWork, test = "processes", [TNext]_testVars
  PROVE  AtWork'
<1>1. CASE shell
  <2>1. max_processes' = max_processes
    BY <1>1 DEF shell, whole
  <2> QED BY <1>1, <2>1, ShellAtWork
<1>2. CASE test_processes
  <2>1. max_processes' = max_processes
    BY <1>2 DEF test_processes, whole
  <2> QED BY <1>2, <2>1, CreateAtWork, FailedAtWork, KillAtWork, WaitAtWork, BlockAtWork,
             SkipAtWork, UnblockAtWork DEF test_processes
<1>3. CASE test_prio \/ zero_to_max
  BY <1>3 DEF test_prio, zero_to_max
<1>4. CASE Interrupt
  BY <1>4, InterruptAtWork
<1>5. CASE Timer
  BY <1>5, TimerAtWork
<1>6. CASE UNCHANGED testVars
  <2>1. UNCHANGED vars /\ UNCHANGED <<next_pid, whole, pc, book>>
    BY <1>6 DEF testVars, vars
  <2>2. Settled(Kernel)' /\ Scene(Kernel', next_pid) /\ Listed(Kernel', p_rqs, pids, next_pid)
    BY <2>1, NothingChanges DEF AtWork
  <2> QED BY <2>1, <2>2, KernelAtWork
<1> QED BY <1>1, <1>2, <1>3, <1>4, <1>5, <1>6 DEF TNext

\* The invariant of test_processes: who is in the process table is idle, the
\* shell, the test and exactly the processes of its book, whoever is preempted
\* or ends the test with Ctrl+C.
THEOREM BookInvariance == TSpec => []BookInv
<1>1. TInit => BookInv
  BY InitAtWork DEF BookInv
<1>2. BookInv /\ [TNext]_testVars => BookInv'
  <2> SUFFICES ASSUME BookInv, [TNext]_testVars, test' = "processes" PROVE AtWork'
    BY DEF BookInv
  <2>1. test' = test
    BY DEF TNext, testVars, whole, shell, test_processes, test_prio, zero_to_max,
           Interrupt, Timer
  <2> QED BY <2>1, StepAtWork DEF BookInv
<1> QED BY <1>1, <1>2, PTL DEF TSpec

\* What test_processes believes of each process, running, blocked or killed, is
\* what the process table says, and my_create_process fails only when the
\* argument leaves no slot for idle, the shell and the test: for any number of
\* slots and whatever argument the test accepts.
THEOREM TestKnowsItsProcesses == TSpec => []BookAgrees
<1>1. BookInv => BookAgrees
  <2> SUFFICES ASSUME AtWork, test = "processes" PROVE BookAgrees
    BY DEF BookInv, BookAgrees
  <2>1. /\ next_pid \in Nat /\ Scene(Kernel, next_pid)
        /\ Listed(Kernel, p_rqs, pids, next_pid) /\ Kernel.table = process_table
        /\ Course(max_processes, pc, rq, p_rqs, pids, alive, next_pid)
    BY DEF AtWork, Kernel
  <2>2. /\ p_rqs \in Book /\ max_processes \in Nat
        /\ pc[TEST_PID] = "failed" => max_processes > MAX_PROCESSES - 3
    BY <2>1 DEF Course, Requests
  <2>3. \A i \in Requests :
           CASE p_rqs[i] = "RUNNING" -> InKernel(pids[i]) \in {"READY", "RUNNING"}
             [] p_rqs[i] = "BLOCKED" -> InKernel(pids[i]) = "BLOCKED"
             [] p_rqs[i] = "KILLED"  -> InKernel(pids[i]) = "gone"
    <3> SUFFICES ASSUME NEW i \in Requests
                 PROVE  CASE p_rqs[i] = "RUNNING" -> InKernel(pids[i]) \in {"READY", "RUNNING"}
                          [] p_rqs[i] = "BLOCKED" -> InKernel(pids[i]) = "BLOCKED"
                          [] p_rqs[i] = "KILLED"  -> InKernel(pids[i]) = "gone"
      OBVIOUS
    <3>1. CASE p_rqs[i] = "KILLED"
      <4>1. InKernel(pids[i]) = "gone"
        BY <2>1, <3>1, KilledIsGone DEF InKernel
      <4> QED BY <3>1, <4>1
    <3>2. CASE p_rqs[i] # "KILLED"
      <4>1. InKernel(pids[i]) \in Believed(p_rqs[i])
        BY <2>1, <3>2, SlotOf DEF InKernel
      <4>2. p_rqs[i] \in {"RUNNING", "BLOCKED"}
        BY <2>2, <3>2 DEF Book
      <4> QED BY <4>1, <4>2 DEF Believed
    <3> QED BY <3>1, <3>2
  <2>4. max_processes <= MAX_PROCESSES - 3 => pc[TEST_PID] # "failed"
    BY <2>2, ConstantsAssumption
  <2> QED BY <2>3, <2>4 DEF BookAgrees, Requests
<1> QED BY <1>1, BookInvariance, PTL
=============================================================================
