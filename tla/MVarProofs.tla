----------------------------- MODULE MVarProofs -----------------------------
(***************************************************************************)
(* Proofs about the MVars of mvar.c (module MVar), for any number of runs  *)
(* of `mvar', of writers and readers, and of slots in both tables.         *)
(***************************************************************************)
EXTENDS MVar, SemaphoresProofs

-----------------------------------------------------------------------------
(***************************************************************************)
(* No slot of sem_table outlives the participants.  Reclaiming closes what *)
(* is not its own, so that open_count may be less than the number of those *)
(* that have the slot open, and a slot may be given to another name while  *)
(* a participant has its bit still set.  What is left of the count is an   *)
(* inequality: it is at most the number of participants that have the slot *)
(* open and will close it, or die.                                         *)
(***************************************************************************)

\* The places in the two programs.
Places == {"unborn", "create", "reclaim_e", "reclaim_f", "claim", "spawn", "open_e", "open_f",
           "undo_e", "find", "wait", "access", "post", "close_e", "close_f", "exit", "done",
           "killed"}

LEMMA ThePlaces ==
    /\ "unborn" \in Places /\ "create" \in Places /\ "reclaim_e" \in Places
    /\ "reclaim_f" \in Places /\ "claim" \in Places /\ "spawn" \in Places
    /\ "open_e" \in Places /\ "open_f" \in Places /\ "undo_e" \in Places
    /\ "find" \in Places /\ "wait" \in Places /\ "access" \in Places /\ "post" \in Places
    /\ "close_e" \in Places /\ "close_f" \in Places /\ "exit" \in Places
    /\ "done" \in Places /\ "killed" \in Places
  BY DEF Places

\* Where a participant has semaphore x of its MVar open.
Span(x) ==
    CASE x = "e" -> {"open_f", "undo_e", "find", "wait", "access", "post", "close_e"}
      [] x = "f" -> {"find", "wait", "access", "post", "close_e", "close_f"}

\* The participants that will give their reference to slot j back.
Users(k, at, j) ==
    {p \in Participants : /\ j \in k.procs[p].opened
                          /\ Mine(p) = k.sems[j].name[1]
                          /\ at[p] \in Span(k.sems[j].name[2])}

OneName(k) == \A i, j \in Open(k) : k.sems[i].name = k.sems[j].name => i = j

Kept(k, at) ==
    /\ k \in Tables /\ at \in [Pids -> Places]
    /\ OneName(k)
    /\ \A j \in Open(k) : k.sems[j].open_count <= Cardinality(Users(k, at, j))

\* A count c of the set U, when p alone comes or goes.
LEMMA CountMoves ==
    ASSUME NEW U, NEW V, IsFiniteSet(U), IsFiniteSet(V), NEW p, U \ {p} = V \ {p},
           NEW c \in Int, NEW d \in Int, c <= Cardinality(U),
           \/ d <= c - 1
           \/ d = c /\ (p \in U => p \in V)
           \/ d = c + 1 /\ p \notin U /\ p \in V
    PROVE  d <= Cardinality(V)
  <1>1. Cardinality(U) \in Nat /\ Cardinality(V) \in Nat
    BY FS_CardinalityType
  <1>2. CASE p \in V
    <2>1. V \ {p} = U \ {p} /\ IsFiniteSet(U \ {p}) /\ Cardinality(V \ {p}) = Cardinality(V) - 1
      BY <1>2, FS_RemoveElement, FS_Subset
    <2>2. CASE p \in U
      <3>1. Cardinality(U \ {p}) = Cardinality(U) - 1
        BY <2>2, FS_RemoveElement
      <3>2. Cardinality(U) = Cardinality(V)
        BY <1>1, <2>1, <3>1
      <3> QED
        BY <1>1, <1>2, <2>2, <3>2
    <2>3. CASE p \notin U
      <3>1. U \ {p} = U
        BY <2>3
      <3>2. Cardinality(V \ {p}) = Cardinality(U)
        BY <2>1, <3>1, Zenon
      <3>3. Cardinality(V) = Cardinality(U) + 1
        BY <1>1, <2>1, <3>2
      <3> QED
        BY <1>1, <3>3
    <2> QED
      BY <2>2, <2>3
  <1>3. CASE p \notin V
    <2>1. V = U \ {p}
      BY <1>3
    <2>2. CASE p \in U
      <3>1. Cardinality(U \ {p}) = Cardinality(U) - 1
        BY <2>2, FS_RemoveElement
      <3> QED
        BY <1>1, <1>3, <2>1, <2>2, <3>1
    <2>3. CASE p \notin U
      <3>1. V = U
        BY <2>1, <2>3
      <3> QED
        BY <1>1, <1>3, <3>1
    <2> QED
      BY <2>2, <2>3
  <1> QED
    BY <1>2, <1>3

LEMMA ParticipantsArePids ==
    /\ Participants \subseteq Pids /\ IsFiniteSet(Participants)
    /\ \A m \in Instances : Command(m) \in Pids /\ Command(m) \notin Participants
  <1>1. Participants \subseteq Pids /\ \A m \in Instances : Command(m) \in Pids
    BY MVarAssumption
  <1>2. IsFiniteSet(Participants)
    BY <1>1, FS_Subset, SemaphoresAssumption
  <1>3. ASSUME NEW m \in Instances, Command(m) \in Participants  PROVE FALSE
    <2>1. Command(m) \in Instances \X {"writer", "reader"} \X Nat
      BY <1>3, MVarAssumption
    <2> QED
      BY <2>1 DEF Command
  <1> QED
    BY <1>1, <1>2, <1>3

\* A step of p, of which the others notice nothing but who holds what.
LEMMA KeptAfter ==
    ASSUME NEW k, NEW at, Kept(k, at), NEW r \in Tables, NEW p \in Pids, NEW to \in Places,
           \A q \in Pids \ {p} : r.procs[q].opened = k.procs[q].opened,
           OneName(r),
           \A j \in Open(r) :
              \/ /\ j \in Open(k) /\ r.sems[j].name = k.sems[j].name
                 /\ \/ r.sems[j].open_count = k.sems[j].open_count - 1
                    \/ /\ r.sems[j].open_count = k.sems[j].open_count
                       /\ p \in Users(k, at, j) => p \in Users(r, [at EXCEPT ![p] = to], j)
                    \/ /\ r.sems[j].open_count = k.sems[j].open_count + 1
                       /\ p \notin Users(k, at, j) /\ p \in Users(r, [at EXCEPT ![p] = to], j)
              \/ r.sems[j].open_count = 1 /\ p \in Users(r, [at EXCEPT ![p] = to], j)
    PROVE  Kept(r, [at EXCEPT ![p] = to])
  <1> DEFINE bt == [at EXCEPT ![p] = to]
  <1>1. k \in Tables /\ at \in [Pids -> Places] /\ bt \in [Pids -> Places]
    BY DEF Kept
  <1>2. \A q \in Pids \ {p} : bt[q] = at[q]
    BY <1>1
  <1> HIDE DEF bt
  <1>3. ASSUME NEW j \in Open(r)  PROVE r.sems[j].open_count <= Cardinality(Users(r, bt, j))
    <2> DEFINE U == Users(k, at, j)
               V == Users(r, bt, j)
    <2>1. IsFiniteSet(U) /\ IsFiniteSet(V) /\ U \subseteq Pids /\ V \subseteq Pids
      BY FS_Subset, ParticipantsArePids DEF Users
    <2>2. j \in Sems /\ r.sems[j].open_count \in Nat /\ k.sems[j].open_count \in Nat
      BY <1>1 DEF Open, Tables, Semaphore
    <2>3. CASE r.sems[j].open_count = 1 /\ p \in V
      <3>1. Cardinality(V) \in Nat /\ Cardinality(V) # 0
        BY <2>1, <2>3, FS_CardinalityType, FS_EmptySet
      <3> QED
        BY <2>3, <3>1
    <2>4. CASE j \in Open(k) /\ r.sems[j].name = k.sems[j].name /\ ~(r.sems[j].open_count = 1 /\ p \in V)
      <3>1. U \ {p} = V \ {p}
        BY <1>2, <2>4, ParticipantsArePids DEF Users
      <3>2. k.sems[j].open_count <= Cardinality(U)
        BY <2>4 DEF Kept
      <3>3. \/ r.sems[j].open_count = k.sems[j].open_count - 1
            \/ r.sems[j].open_count = k.sems[j].open_count /\ (p \in U => p \in V)
            \/ r.sems[j].open_count = k.sems[j].open_count + 1 /\ p \notin U /\ p \in V
        BY <1>3, <2>4 DEF bt
      <3> HIDE DEF U, V
      <3> DEFINE c == k.sems[j].open_count
                 d == r.sems[j].open_count
      <3>4. /\ c \in Int /\ d \in Int /\ c <= Cardinality(U)
            /\ \/ d <= c - 1
               \/ d = c /\ (p \in U => p \in V)
               \/ d = c + 1 /\ p \notin U /\ p \in V
        BY <2>2, <3>2, <3>3
      <3> HIDE DEF c, d
      <3>5. d <= Cardinality(V)
        BY <2>1, <3>1, <3>4, CountMoves
      <3> QED
        BY <3>5 DEF d, V
    <2> QED
      BY <1>3, <2>3, <2>4 DEF bt
  <1> QED
    BY <1>1, <1>3 DEF Kept, bt

\* The parts of a name.
LEMMA NameParts ==
    /\ \A n \in Names : n = <<n[1], n[2]>> /\ n[2] \in {"e", "f"}
    /\ \A p \in Participants, x \in {"e", "f"} :
          /\ <<Mine(p), x>> \in Names /\ Truncate[<<Mine(p), x>>] = <<Mine(p), x>>
          /\ Mine(p) \in Instances
  <1>1. \A p \in Participants : Mine(p) \in Instances
    BY MVarAssumption DEF Mine
  <1> QED
    BY <1>1, MVarAssumption

\* Nothing changes but who holds what, and p goes on where it needs what it has
\* open.
LEMMA SameKept ==
    ASSUME NEW k, NEW at, Kept(k, at), NEW r \in Tables, NEW p \in Pids, NEW to \in Places,
           \A q \in Pids : r.procs[q].opened = k.procs[q].opened,
           \A j \in Sems : /\ r.sems[j].name = k.sems[j].name
                           /\ r.sems[j].open_count = k.sems[j].open_count,
           \A j \in Open(k) : p \in Users(k, at, j) => to \in Span(k.sems[j].name[2])
    PROVE  Kept(r, [at EXCEPT ![p] = to])
  <1>1. at \in [Pids -> Places] /\ OneName(k)
    BY DEF Kept
  <1>2. Open(r) = Open(k) /\ OneName(r)
    BY <1>1 DEF Open, OneName
  <1>3. ASSUME NEW j \in Open(r), p \in Users(k, at, j)
        PROVE  p \in Users(r, [at EXCEPT ![p] = to], j)
    <2>1. j \in Sems /\ j \in Open(k) /\ to \in Span(k.sems[j].name[2])
      BY <1>2, <1>3 DEF Open
    <2> QED
      BY <1>1, <1>3, <2>1 DEF Users
  <1>4. \A j \in Open(r) : j \in Sems
    BY DEF Open
  <1> QED
    BY <1>2, <1>3, <1>4, KeptAfter

\* p opens semaphore x of its MVar.
LEMMA OpenKept ==
    ASSUME NEW k, NEW at, Kept(k, at), NEW p \in Participants, NEW x \in {"e", "f"},
           NEW v \in {0, 1}, NEW to \in Places,
           find_sem(k, <<Mine(p), x>>) # NULL \/ FreeSlots(k) # {},
           at[p] \notin Span(x), to \in Span(x),
           \A y \in {"e", "f"} : at[p] \in Span(y) => to \in Span(y)
    PROVE  Kept(sem_open(k, p, <<Mine(p), x>>, v), [at EXCEPT ![p] = to])
  <1> DEFINE n == <<Mine(p), x>>
             r == sem_open(k, p, n, v)
             i == opened_slot(k, n)
             bt == [at EXCEPT ![p] = to]
  <1>1. k \in Tables /\ at \in [Pids -> Places] /\ OneName(k) /\ p \in Pids
    BY ParticipantsArePids DEF Kept
  <1>2. n \in Names /\ Truncate[n] = n /\ v \in InitialValues
    BY NameParts, MVarAssumption
  <1>3. n[1] = Mine(p) /\ n[2] = x
    OBVIOUS
  <1> HIDE DEF n
  <1>4. OpenStep(k, r, p, n, v)
    BY <1>1, <1>2, OpenIs DEF n
  <1>5. /\ i \in Sems
        /\ find_sem(k, n) = NULL => i \notin Open(k) /\ \A j \in Open(k) : k.sems[j].name # n
        /\ find_sem(k, n) # NULL => i \in Open(k) /\ k.sems[i].name = n
    BY <1>1, OpenedSlot, FindSem, SemsAreNat DEF n, Open
  <1> HIDE DEF r, i
  <1>6. /\ r \in Tables
        /\ \A j \in Sems \ {i} : r.sems[j] = k.sems[j]
        /\ \A q \in Pids \ {p} : r.procs[q] = k.procs[q]
        /\ r.procs[p].opened = k.procs[p].opened \cup {i}
        /\ r.sems[i].name = n
        /\ find_sem(k, n) # NULL => r.sems[i].open_count = k.sems[i].open_count + 1
        /\ find_sem(k, n) = NULL => r.sems[i].open_count = 1
    BY <1>2, <1>4, <1>5 DEF OpenStep, Only, SlotIs, PCBIs, i
  <1>7. OneName(r)
    <2>1. \A j \in Open(r) \ {i} : j \in Open(k) /\ r.sems[j].name = k.sems[j].name
                                  /\ r.sems[j].name # n
      BY <1>1, <1>5, <1>6 DEF Open, OneName
    <2> QED
      BY <1>1, <1>6, <2>1 DEF OneName
  <1>8. bt[p] = to
    BY <1>1
  <1>9. (p \in Users(r, bt, i) /\ p \notin Users(k, at, i)) \/ k.sems[i].name # n
    BY <1>3, <1>6, <1>8 DEF Users
  <1>10. p \in Users(r, bt, i)
    BY <1>3, <1>6, <1>8 DEF Users
  <1>11. ASSUME NEW j \in Open(r), j # i
         PROVE  /\ j \in Open(k) /\ r.sems[j].name = k.sems[j].name
                /\ r.sems[j].open_count = k.sems[j].open_count
                /\ p \in Users(k, at, j) => p \in Users(r, bt, j)
    <2>1. j \in Sems /\ j \in Open(k) /\ r.sems[j] = k.sems[j] /\ k.sems[j].name \in Names
      BY <1>1, <1>6, <1>11 DEF Open, Tables, Semaphore
    <2>2. k.sems[j].name[2] \in {"e", "f"}
      BY <2>1, NameParts
    <2> QED
      BY <1>6, <1>8, <2>1, <2>2 DEF Users
  <1> HIDE DEF bt
  <1>12. \A j \in Open(r) :
              \/ /\ j \in Open(k) /\ r.sems[j].name = k.sems[j].name
                 /\ \/ r.sems[j].open_count = k.sems[j].open_count - 1
                    \/ /\ r.sems[j].open_count = k.sems[j].open_count
                       /\ p \in Users(k, at, j) => p \in Users(r, bt, j)
                    \/ /\ r.sems[j].open_count = k.sems[j].open_count + 1
                       /\ p \notin Users(k, at, j) /\ p \in Users(r, bt, j)
              \/ r.sems[j].open_count = 1 /\ p \in Users(r, bt, j)
    BY <1>5, <1>6, <1>9, <1>10, <1>11
  <1>13. Kept(r, bt)
    BY <1>1, <1>6, <1>7, <1>12, KeptAfter DEF bt
  <1> QED
    BY <1>13 DEF r, n, bt

\* p closes slot i: its own, or, when it reclaims, that of others.
LEMMA CloseKept ==
    ASSUME NEW k, NEW at, Kept(k, at), NEW p \in Pids, NEW i \in Open(k), NEW to \in Places,
           p \in Participants =>
              /\ k.sems[i].name[1] = Mine(p)
              /\ \A y \in {"e", "f"} : (at[p] \in Span(y) /\ y # k.sems[i].name[2]) => to \in Span(y)
    PROVE  Kept(sem_close(k, p, i), [at EXCEPT ![p] = to])
  <1> DEFINE r == sem_close(k, p, i)
             bt == [at EXCEPT ![p] = to]
  <1>1. k \in Tables /\ at \in [Pids -> Places] /\ OneName(k) /\ i \in Sems
    BY DEF Kept, Open
  <1>2. CloseStep(k, r, p, i)
    BY <1>1, CloseIs
  <1> HIDE DEF r
  <1>3. /\ r \in Tables
        /\ \A j \in Sems \ {i} : r.sems[j] = k.sems[j]
        /\ \A q \in Pids \ {p} : r.procs[q] = k.procs[q]
        /\ r.procs[p].opened = k.procs[p].opened \ {i}
    BY <1>2 DEF CloseStep, Only, PCBIs
  <1>4. i \in Open(r) => r.sems[i].name = k.sems[i].name
                         /\ r.sems[i].open_count = k.sems[i].open_count - 1
    BY <1>2, FreeSemType DEF CloseStep, SlotIs, Open
  <1>5. \A j \in Open(r) : j \in Open(k) /\ r.sems[j].name = k.sems[j].name
    BY <1>3, <1>4 DEF Open
  <1>6. OneName(r)
    BY <1>1, <1>5 DEF OneName
  <1>7. bt[p] = to
    BY <1>1
  <1>8. ASSUME NEW j \in Open(r), j # i
        PROVE  /\ r.sems[j].open_count = k.sems[j].open_count
               /\ p \in Users(k, at, j) => p \in Users(r, bt, j)
    <2>1. j \in Sems /\ j \in Open(k) /\ r.sems[j] = k.sems[j]
          /\ k.sems[j].name \in Names /\ k.sems[i].name \in Names
      BY <1>1, <1>3, <1>8 DEF Open, Tables, Semaphore
    <2>2. CASE p \in Users(k, at, j)
      <3>1. p \in Participants /\ j \in k.procs[p].opened /\ Mine(p) = k.sems[j].name[1]
            /\ at[p] \in Span(k.sems[j].name[2])
        BY <2>2 DEF Users
      <3>2. k.sems[j].name # k.sems[i].name
        BY <1>1, <1>8, <2>1 DEF OneName
      <3>3. k.sems[j].name[2] # k.sems[i].name[2] /\ k.sems[j].name[2] \in {"e", "f"}
        <4>1. k.sems[i].name[1] = k.sems[j].name[1]
          BY <3>1
        <4> QED
          BY <2>1, <3>2, <4>1, NameParts
      <3>4. to \in Span(k.sems[j].name[2])
        BY <3>1, <3>3
      <3> QED
        BY <1>3, <1>7, <1>8, <2>1, <3>1, <3>4 DEF Users
    <2> QED
      BY <2>1, <2>2
  <1> HIDE DEF bt
  <1>9. \A j \in Open(r) :
              /\ j \in Open(k) /\ r.sems[j].name = k.sems[j].name
              /\ \/ r.sems[j].open_count = k.sems[j].open_count - 1
                 \/ /\ r.sems[j].open_count = k.sems[j].open_count
                    /\ p \in Users(k, at, j) => p \in Users(r, bt, j)
    BY <1>4, <1>5, <1>8
  <1>10. Kept(r, bt)
    BY <1>3, <1>6, <1>9, KeptAfter DEF bt
  <1> QED
    BY <1>10 DEF r, bt

\* p waits, or posts: the counts and names stay.
LEMMA WaitKept ==
    ASSUME NEW k \in Tables, NEW p \in Pids, NEW i \in Sems, NEW r,
           r = sem_wait(k, p, i) \/ r = sem_post(k, p, i)
    PROVE  /\ r \in Tables
           /\ \A q \in Pids : r.procs[q].opened = k.procs[q].opened
           /\ \A j \in Sems : /\ r.sems[j].name = k.sems[j].name
                              /\ r.sems[j].open_count = k.sems[j].open_count
  <1>1. CASE r = sem_wait(k, p, i)
    <2>1. WaitStep(k, r, p, i)
      BY <1>1, WaitIs
    <2> QED
      BY <2>1 DEF WaitStep, Only, SlotIs, PCBIs
  <1>2. CASE r = sem_post(k, p, i)
    <2>1. PICK d : DropStep(k, d, p, i) /\ r = give(d, i)
      BY <1>2, PostIs
    <2>2. d \in Tables /\ d.sems = k.sems /\ \A q \in Pids : d.procs[q].opened = k.procs[q].opened
      BY <2>1 DEF DropStep, PCBIs
    <2>3. GiveStep(d, r, i)
      BY <2>1, <2>2, GiveIs
    <2>4. r \in Tables
          /\ \A j \in Sems : /\ r.sems[j].name = k.sems[j].name
                             /\ r.sems[j].open_count = k.sems[j].open_count
      BY <2>2, <2>3 DEF GiveStep, SlotIs
    <2>5. ASSUME NEW q \in Pids  PROVE r.procs[q].opened = k.procs[q].opened
      <3>1. d.procs[q] \in PCB
        BY <2>2 DEF Tables
      <3>2. handed(d.procs[q], i).opened = d.procs[q].opened
        BY <3>1, HandedType
      <3> QED
        BY <2>2, <2>3, <3>2 DEF GiveStep
    <2> QED
      BY <2>4, <2>5
  <1> QED
    BY <1>1, <1>2

\* p dies, of itself or killed, wherever it is.
LEMMA DeathKept ==
    ASSUME NEW k, NEW at, Kept(k, at), NEW p \in Pids, NEW to \in Places
    PROVE  Kept(sem_cleanup_for_process(k, p), [at EXCEPT ![p] = to])
  <1> DEFINE r == sem_cleanup_for_process(k, p)
             bt == [at EXCEPT ![p] = to]
  <1>1. k \in Tables /\ at \in [Pids -> Places] /\ OneName(k)
    BY DEF Kept
  <1>2. CleanupStep(k, r, p)
    BY <1>1, CleanupIs
  <1> HIDE DEF r
  <1>3. r \in Tables
    BY <1>2 DEF CleanupStep
  <1>4. ASSUME NEW q \in Pids \ {p}  PROVE r.procs[q].opened = k.procs[q].opened
    <2>1. k.procs[q] \in PCB
      BY <1>1 DEF Tables
    <2>2. process_unblock(k.procs[q]).opened = k.procs[q].opened
      BY <2>1, UnblockType
    <2> QED
      BY <1>2, <2>2 DEF CleanupStep, PCBIs
  <1>5. ASSUME NEW j \in Open(r)
        PROVE  /\ j \in Open(k) /\ r.sems[j].name = k.sems[j].name
               /\ \/ r.sems[j].open_count = k.sems[j].open_count - 1
                  \/ /\ r.sems[j].open_count = k.sems[j].open_count
                     /\ p \notin Users(k, at, j)
    <2> DEFINE c == cleanup_slot(k, p, j).sems[j]
    <2>1. j \in Sems /\ r.sems[j] = Settle(c) /\ r.sems[j].open_count > 0
      BY <1>2, <1>5 DEF CleanupStep, Open
    <2>2. SlotStep(k, cleanup_slot(k, p, j), p, j)
      BY <1>1, <2>1, CleanupSlot
    <2>3. c \in Semaphore
      BY <2>1, <2>2 DEF SlotStep, Tables
    <2>4. r.sems[j] = c /\ c.open_count > 0
      <3> HIDE DEF c
      <3> QED
        BY <2>1, <2>3, SettleType, FreeSemType
    <2>5. j \in Open(k)
      <3>1. CASE j \notin Open(k)
        BY <2>1, <2>2, <2>4, <3>1 DEF SlotStep, Open
      <3> QED
        BY <3>1
    <2>6. ForgetStep(k, forget(k, p, j), p, j)
      BY <1>1, <2>5, ForgetIs
    <2>7. c.name = k.sems[j].name /\ c.open_count = references(k, p, j)
      BY <2>2, <2>5, <2>6 DEF SlotStep, ForgetStep, SlotIs
    <2>8. j \notin k.procs[p].opened => p \notin Users(k, at, j)
      BY DEF Users
    <2> QED
      BY <2>4, <2>5, <2>7, <2>8 DEF references
  <1>6. OneName(r)
    BY <1>1, <1>5 DEF OneName
  <1> HIDE DEF bt
  <1>7. Kept(r, bt)
    BY <1>3, <1>4, <1>5, <1>6, KeptAfter DEF bt
  <1> QED
    BY <1>7 DEF r, bt

\* The places of the command; the others are those of its participants.
CommandPlaces == {"create", "reclaim_e", "reclaim_f", "claim", "spawn"}

Roles(at) ==
    /\ \A p \in Participants : at[p] \notin CommandPlaces
    /\ \A p \in Pids \ Participants : at[p] \in CommandPlaces \cup {"unborn", "done"}

NInv == Kept(Kernel, pc) /\ Roles(pc) /\ cast \in Casts

\* What a syscall stores are the new tables.
LEMMA Stored ==
    ASSUME NEW k \in Tables, Store(k)
    PROVE  Kernel' = k
  BY DEF Store, Kernel, Tables

\* p goes on to `to', which is a place of its own.
LEMMA RolesAfter ==
    ASSUME NEW at \in [Pids -> Places], Roles(at), NEW p \in Pids, NEW to \in Places,
           IF at[p] \in CommandPlaces THEN to \in CommandPlaces \cup {"unborn", "done"}
           ELSE to \notin CommandPlaces /\ (p \in Participants \/ to \in {"unborn", "done"})
    PROVE  Roles([at EXCEPT ![p] = to])
  BY ParticipantsArePids DEF Roles, CommandPlaces

\* The kernel does nothing: a step in user code, or a call that fails.
LEMMA UserKept ==
    ASSUME NInv, UNCHANGED vars, NEW p \in Pids, NEW to \in Places,
           pc' = [pc EXCEPT ![p] = to],
           \A y \in {"e", "f"} :
              \/ pc[p] \in Span(y) => to \in Span(y)
              \/ find_sem(Kernel, <<Mine(p), y>>) = NULL
    PROVE  Kept(Kernel', pc')
  <1>1. Kernel' = Kernel /\ Kept(Kernel, pc) /\ Kernel \in Tables
    BY DEF vars, Kernel, NInv, Kept
  <1>2. ASSUME NEW j \in Open(Kernel), p \in Users(Kernel, pc, j)
        PROVE  to \in Span(Kernel.sems[j].name[2])
    <2> DEFINE n == Kernel.sems[j].name
    <2>1. n \in Names
      BY <1>1 DEF Tables, Open, Semaphore
    <2>2. Mine(p) = n[1] /\ pc[p] \in Span(n[2])
      BY <1>2 DEF Users
    <2>3. n[2] \in {"e", "f"} /\ n = <<Mine(p), n[2]>>
      BY <2>1, <2>2, NameParts
    <2>4. find_sem(Kernel, n) # NULL
      <3>1. \A i \in Open(Kernel) : i # NULL
        BY SemsAreNat DEF Open
      <3> QED
        BY <1>1, <3>1, FindSem
    <2> QED
      BY <2>2, <2>3, <2>4
  <1>3. Kept(Kernel, [pc EXCEPT ![p] = to])
    BY <1>1, <1>2, SameKept
  <1> QED
    BY <1>1, <1>3

\* A call of wait or post that succeeds.
LEMMA CallKept ==
    ASSUME NInv, NEW p \in Pids, NEW name, NEW to \in Places,
           sys_sem_wait(p, name) \/ sys_sem_post(p, name),
           pc' = [pc EXCEPT ![p] = to],
           \A y \in {"e", "f"} : pc[p] \in Span(y) => to \in Span(y)
    PROVE  Kept(Kernel', pc')
  <1> DEFINE i == find_sem(Kernel, name)
  <1>1. Kept(Kernel, pc) /\ Kernel \in Tables
    BY DEF NInv, Kept
  <1>2. i \in Sems
    BY <1>1, FindSem DEF sys_sem_wait, sys_sem_post, MayUse, Open
  <1>3. PICK r : Store(r) /\ (r = sem_wait(Kernel, p, i) \/ r = sem_post(Kernel, p, i))
    BY DEF sys_sem_wait, sys_sem_post
  <1>4. /\ r \in Tables
        /\ \A q \in Pids : r.procs[q].opened = Kernel.procs[q].opened
        /\ \A j \in Sems : /\ r.sems[j].name = Kernel.sems[j].name
                           /\ r.sems[j].open_count = Kernel.sems[j].open_count
    BY <1>1, <1>2, <1>3, WaitKept
  <1>5. ASSUME NEW j \in Open(Kernel), p \in Users(Kernel, pc, j)
        PROVE  to \in Span(Kernel.sems[j].name[2])
    <2>1. Kernel.sems[j].name \in Names
      BY <1>1 DEF Tables, Open, Semaphore
    <2> QED
      BY <1>5, <2>1, NameParts DEF Users
  <1>6. Kept(r, [pc EXCEPT ![p] = to])
    BY <1>1, <1>4, <1>5, SameKept
  <1> QED
    BY <1>3, <1>4, <1>6, Stored

\* A close, of a semaphore that there is or is not.
LEMMA ClosingKept ==
    ASSUME NInv, NEW p \in Pids, NEW m, NEW x \in {"e", "f"}, NEW to \in Places,
           my_sem_close(p, <<m, x>>), pc' = [pc EXCEPT ![p] = to],
           \/ pc[p] \in CommandPlaces
           \/ m = Mine(p) /\ \A y \in {"e", "f"} : (pc[p] \in Span(y) /\ y # x) => to \in Span(y)
    PROVE  Kept(Kernel', pc')
  <1> DEFINE i == find_sem(Kernel, <<m, x>>)
  <1>1. Kept(Kernel, pc) /\ Kernel \in Tables /\ Roles(pc)
    BY DEF NInv, Kept
  <1>2. CASE Missing(p, <<m, x>>)
    <2>1. \A y \in {"e", "f"} : \/ pc[p] \in Span(y) => to \in Span(y)
                               \/ find_sem(Kernel, <<Mine(p), y>>) = NULL
      BY <1>2 DEF Missing, CommandPlaces, Span
    <2> QED
      BY <1>2, <2>1, UserKept DEF Missing
  <1>3. CASE sys_sem_close(p, <<m, x>>)
    <2>1. i \in Open(Kernel) /\ Kernel.sems[i].name = <<m, x>> /\ Store(sem_close(Kernel, p, i))
      BY <1>1, <1>3, FindSem DEF sys_sem_close, MayUse
    <2>2. <<m, x>>[1] = m /\ <<m, x>>[2] = x
      OBVIOUS
    <2>3. p \in Participants =>
              /\ Kernel.sems[i].name[1] = Mine(p)
              /\ \A y \in {"e", "f"} :
                   (pc[p] \in Span(y) /\ y # Kernel.sems[i].name[2]) => to \in Span(y)
      BY <1>1, <2>1, <2>2 DEF Roles
    <2> HIDE DEF i
    <2>4. Kept(sem_close(Kernel, p, i), [pc EXCEPT ![p] = to])
      BY <1>1, <2>1, <2>3, CloseKept
    <2> QED
      BY <2>1, <2>4, Stored DEF Kept
  <1> QED
    BY <1>2, <1>3 DEF my_sem_close

\* An open that succeeds.
LEMMA OpeningKept ==
    ASSUME NInv, NEW p \in Participants, NEW x \in {"e", "f"}, NEW v \in {0, 1},
           NEW to \in Places, sys_sem_open(p, <<Mine(p), x>>, v),
           pc' = [pc EXCEPT ![p] = to],
           pc[p] \notin Span(x), to \in Span(x),
           \A y \in {"e", "f"} : pc[p] \in Span(y) => to \in Span(y)
    PROVE  Kept(Kernel', pc')
  <1> DEFINE r == sem_open(Kernel, p, <<Mine(p), x>>, v)
  <1>1. /\ find_sem(Kernel, <<Mine(p), x>>) # NULL \/ FreeSlots(Kernel) # {}
        /\ Store(r)
    BY DEF sys_sem_open
  <1>2. Kept(r, [pc EXCEPT ![p] = to])
    BY <1>1, OpenKept DEF NInv
  <1> HIDE DEF r
  <1> QED
    BY <1>1, <1>2, Stored DEF Kept

\* The steps of a participant and of the command.
LEMMA StepKept ==
    ASSUME NInv, NEW p \in Pids, Step(p) \/ kill(p)
    PROVE  NInv'
  <1> USE ThePlaces
  <1>1. /\ Kept(Kernel, pc) /\ Roles(pc) /\ cast \in Casts /\ pc \in [Pids -> Places]
        /\ Kernel \in Tables /\ cast.who \subseteq Participants /\ cast.killed \subseteq Participants
    BY MVarAssumption DEF NInv, Kept
  <1>2. ASSUME NEW q \in Pids, NEW to \in Places, pc' = [pc EXCEPT ![q] = to], cast' = cast,
               Kept(Kernel', pc'),
               IF pc[q] \in CommandPlaces THEN to \in CommandPlaces \cup {"unborn", "done"}
               ELSE to \notin CommandPlaces /\ (q \in Participants \/ to \in {"unborn", "done"})
        PROVE  NInv'
    <2>1. Roles(pc')
      BY <1>1, <1>2, RolesAfter
    <2> QED
      BY <1>1, <1>2, <2>1 DEF NInv
  <1>3. p \notin Participants => pc[p] \in CommandPlaces \cup {"unborn", "done"}
    BY <1>1 DEF Roles
  <1>4. ASSUME create(p)  PROVE NInv'
    <2>1. PICK to \in {"claim", "reclaim_e"} :
             pc[p] = "create" /\ pc' = [pc EXCEPT ![p] = to] /\ UNCHANGED vars /\ cast' = cast
      BY <1>4 DEF create, Goto
    <2>2. Kept(Kernel', pc')
      BY <2>1, UserKept DEF Span
    <2> QED
      BY <1>2, <2>1, <2>2 DEF CommandPlaces
  <1>5. ASSUME reclaim_e(p)  PROVE NInv'
    <2>1. /\ pc[p] = "reclaim_e" /\ pc' = [pc EXCEPT ![p] = "reclaim_f"] /\ cast' = cast
          /\ my_sem_close(p, <<umvar_table[mv[p]].name, "e">>)
      BY <1>5 DEF reclaim_e, Goto, empty
    <2>2. Kept(Kernel', pc')
      BY <2>1, ClosingKept DEF CommandPlaces
    <2> QED
      BY <1>2, <2>1, <2>2 DEF CommandPlaces
  <1>6. ASSUME reclaim_f(p)  PROVE NInv'
    <2>1. /\ pc[p] = "reclaim_f" /\ pc' = [pc EXCEPT ![p] = "claim"] /\ cast' = cast
          /\ my_sem_close(p, <<umvar_table[mv[p]].name, "f">>)
      BY <1>6 DEF reclaim_f, Goto, fullsem
    <2>2. Kept(Kernel', pc')
      BY <2>1, ClosingKept DEF CommandPlaces
    <2> QED
      BY <1>2, <2>1, <2>2 DEF CommandPlaces
  <1>7. ASSUME claim(p)  PROVE NInv'
    <2>1. pc[p] = "claim" /\ pc' = [pc EXCEPT ![p] = "spawn"] /\ UNCHANGED vars /\ cast' = cast
      BY <1>7 DEF claim, Goto
    <2>2. Kept(Kernel', pc')
      BY <2>1, UserKept DEF Span
    <2> QED
      BY <1>2, <2>1, <2>2 DEF CommandPlaces
  <1>8. ASSUME spawn(p)  PROVE NInv'
    <2>1. PICK c \in cast.who : pc[c] = "unborn" /\ pc' = [pc EXCEPT ![c] = "open_e"]
                                /\ UNCHANGED vars /\ cast' = cast
      BY <1>8 DEF spawn
    <2>2. c \in Participants /\ c \in Pids
      BY <1>1, ParticipantsArePids
    <2>3. Kept(Kernel', pc')
      BY <2>1, <2>2, UserKept DEF Span
    <2> QED
      BY <1>2, <2>1, <2>2, <2>3 DEF CommandPlaces
  <1>9. ASSUME command_exit(p) \/ exit(p)  PROVE NInv'
    <2> DEFINE r == sem_cleanup_for_process(Kernel, p)
    <2>1. Store(r) /\ pc' = [pc EXCEPT ![p] = "done"] /\ cast' = cast
      BY <1>9 DEF command_exit, exit, Goto, Die
    <2>2. Kept(r, [pc EXCEPT ![p] = "done"])
      BY <1>1, DeathKept
    <2> HIDE DEF r
    <2>3. Kept(Kernel', pc')
      BY <2>1, <2>2, Stored DEF Kept
    <2> QED
      BY <1>2, <2>1, <2>3 DEF CommandPlaces
  <1>10. ASSUME kill(p)  PROVE NInv'
    <2> DEFINE r == sem_cleanup_for_process(Kernel, p)
    <2>1. Store(r) /\ pc' = [pc EXCEPT ![p] = "killed"] /\ cast' = cast /\ p \in Participants
      BY <1>1, <1>10 DEF kill, Die
    <2>2. Kept(r, [pc EXCEPT ![p] = "killed"])
      BY <1>1, DeathKept
    <2> HIDE DEF r
    <2>3. Kept(Kernel', pc')
      BY <2>1, <2>2, Stored DEF Kept
    <2>4. pc[p] \notin CommandPlaces
      BY <1>1, <2>1 DEF Roles
    <2> QED
      BY <1>2, <2>1, <2>3, <2>4 DEF CommandPlaces
  <1>11. ASSUME open_e(p)  PROVE NInv'
    <2>1. pc[p] = "open_e" /\ p \in Participants /\ cast' = cast
      BY <1>3, <1>11 DEF open_e, Goto, CommandPlaces
    <2>2. CASE pc' = [pc EXCEPT ![p] = "open_f"] /\ sys_sem_open(p, <<Mine(p), "e">>, 1)
      <3>1. Kept(Kernel', pc')
        BY <2>1, <2>2, OpeningKept DEF Span
      <3> QED
        BY <1>2, <2>1, <2>2, <3>1 DEF CommandPlaces
    <2>3. CASE pc' = [pc EXCEPT ![p] = "exit"] /\ UNCHANGED vars
      <3>1. Kept(Kernel', pc')
        BY <2>1, <2>3, UserKept DEF Span
      <3> QED
        BY <1>2, <2>1, <2>3, <3>1 DEF CommandPlaces
    <2> QED
      BY <1>11, <2>2, <2>3 DEF open_e, Goto, TableFull, empty
  <1>12. ASSUME open_f(p)  PROVE NInv'
    <2>1. pc[p] = "open_f" /\ p \in Participants /\ cast' = cast
      BY <1>3, <1>12 DEF open_f, Goto, CommandPlaces
    <2>2. CASE pc' = [pc EXCEPT ![p] = "find"] /\ sys_sem_open(p, <<Mine(p), "f">>, 0)
      <3>1. Kept(Kernel', pc')
        BY <2>1, <2>2, OpeningKept DEF Span
      <3> QED
        BY <1>2, <2>1, <2>2, <3>1 DEF CommandPlaces
    <2>3. CASE pc' = [pc EXCEPT ![p] = "undo_e"] /\ UNCHANGED vars
      <3>1. Kept(Kernel', pc')
        BY <2>1, <2>3, UserKept DEF Span
      <3> QED
        BY <1>2, <2>1, <2>3, <3>1 DEF CommandPlaces
    <2> QED
      BY <1>12, <2>2, <2>3 DEF open_f, Goto, TableFull, fullsem
  <1>13. ASSUME undo_e(p) \/ close_e(p) \/ close_f(p)  PROVE NInv'
    <2>1. PICK to \in {"exit", "close_f"}, x \in {"e", "f"} :
            /\ pc' = [pc EXCEPT ![p] = to] /\ cast' = cast /\ my_sem_close(p, <<Mine(p), x>>)
            /\ \/ pc[p] = "undo_e" /\ to = "exit" /\ x = "e"
               \/ pc[p] = "close_e" /\ to = "close_f" /\ x = "e"
               \/ pc[p] = "close_f" /\ to = "exit" /\ x = "f"
      BY <1>13 DEF undo_e, close_e, close_f, Goto, empty, fullsem
    <2>2. p \in Participants
      BY <1>3, <2>1 DEF CommandPlaces
    <2>3. \A y \in {"e", "f"} : (pc[p] \in Span(y) /\ y # x) => to \in Span(y)
      BY <2>1 DEF Span
    <2>4. Kept(Kernel', pc')
      BY <2>1, <2>3, ClosingKept
    <2> QED
      BY <1>2, <2>1, <2>2, <2>4 DEF CommandPlaces
  <1>14. ASSUME find(p) \/ put(p) \/ take(p)  PROVE NInv'
    <2>1. PICK to \in {"close_e", "wait", "post"} :
            /\ pc[p] \in {"find", "access"}
            /\ pc' = [pc EXCEPT ![p] = to] /\ cast' = cast /\ UNCHANGED vars
      BY <1>14 DEF find, put, take, Goto
    <2>2. p \in Participants
      BY <1>3, <2>1 DEF CommandPlaces
    <2>3. \A y \in {"e", "f"} : to \in Span(y)
      BY DEF Span
    <2>4. Kept(Kernel', pc')
      BY <2>1, <2>3, UserKept
    <2> QED
      BY <1>2, <2>1, <2>2, <2>4 DEF CommandPlaces
  <1>15. ASSUME wait(p) \/ post(p)  PROVE NInv'
    <2>1. PICK to \in {"access", "find"}, n \in {empty(Mine(p)), fullsem(Mine(p))} :
            /\ pc[p] \in {"wait", "post"} /\ pc' = [pc EXCEPT ![p] = to] /\ cast' = cast
            /\ my_sem_wait(p, n) \/ my_sem_post(p, n)
      BY <1>15 DEF wait, post, Goto
    <2>2. p \in Participants
      BY <1>3, <2>1 DEF CommandPlaces
    <2>3. \A y \in {"e", "f"} : to \in Span(y)
      BY DEF Span
    <2>4. CASE Missing(p, n)
      <3>1. Kept(Kernel', pc')
        BY <2>1, <2>3, <2>4, UserKept DEF Missing
      <3> QED
        BY <1>2, <2>1, <2>2, <3>1 DEF CommandPlaces
    <2>5. CASE sys_sem_wait(p, n) \/ sys_sem_post(p, n)
      <3>1. Kept(Kernel', pc')
        BY <2>1, <2>3, <2>5, CallKept
      <3> QED
        BY <1>2, <2>1, <2>2, <3>1 DEF CommandPlaces
    <2> QED
      BY <2>1, <2>4, <2>5 DEF my_sem_wait, my_sem_post
  <1> QED
    BY <1>4, <1>5, <1>6, <1>7, <1>8, <1>9, <1>10, <1>11, <1>12, <1>13, <1>14, <1>15 DEF Step

\* No semaphore is open yet.
LEMMA InitKept == MInit => NInv
  <1> SUFFICES ASSUME MInit  PROVE NInv
    OBVIOUS
  <1>1. /\ Init /\ cast \in Casts
        /\ pc = [p \in Pids |-> IF \E c \in cast.who : p = Command(Mine(c))
                                THEN "create" ELSE "unborn"]
    BY DEF MInit
  <1>2. Kernel \in Tables
    <2>1. TypeOK
      BY <1>1, FreeSemType DEF Init, TypeOK, PCB
    <2> QED
      BY <2>1, TypeIsTables
  <1>3. Open(Kernel) = {}
    BY <1>1, FreeSemType DEF Init, Open, Kernel
  <1>4. Kept(Kernel, pc)
    BY <1>1, <1>2, <1>3, ThePlaces DEF Kept, OneName
  <1>5. ASSUME NEW p \in Participants, NEW c \in cast.who  PROVE p # Command(Mine(c))
    <2>1. c \in Participants
      BY <1>1, MVarAssumption
    <2> QED
      BY <2>1, NameParts, ParticipantsArePids
  <1>6. Roles(pc)
    BY <1>1, <1>5, ParticipantsArePids DEF Roles, CommandPlaces
  <1> QED
    BY <1>1, <1>4, <1>6 DEF NInv

\* The count of an open semaphore is at most the number of participants that
\* will give a reference back, however many were closed by a stranger.
THEOREM MVarCounts == MSpec => []NInv
  <1>1. MInit => NInv
    BY InitKept
  <1>2. NInv /\ [MNext]_allVars => NInv'
    <2> SUFFICES ASSUME NInv, [MNext]_allVars  PROVE NInv'
      OBVIOUS
    <2>1. CASE MNext
      BY <2>1, StepKept DEF MNext
    <2>2. CASE UNCHANGED allVars
      <3>1. Kernel' = Kernel /\ pc' = pc /\ cast' = cast
        BY <2>2 DEF allVars, userVars, vars, Kernel
      <3> QED
        BY <3>1 DEF NInv
    <2> QED
      BY <2>1, <2>2
  <1> QED
    BY <1>1, <1>2, PTL DEF MSpec

\* The semaphores of an MVar go with its participants, however those end and
\* whatever reclaiming has closed, for any number of MVars and slots.
THEOREM SemaphoresGoWithMVar == MSpec => []NoSemaphoreLeft
  <1>1. NInv => NoSemaphoreLeft
    <2> SUFFICES ASSUME NInv, NEW m \in Instances, NEW s \in {empty(m), fullsem(m)},
                        \A p \in Participants : Mine(p) = m => pc[p] \in {"unborn", "done", "killed"},
                        find_sem(Kernel, s) # NULL
                 PROVE  FALSE
      BY DEF NoSemaphoreLeft
    <2> DEFINE j == find_sem(Kernel, s)
    <2>1. Kernel \in Tables /\ j \in Open(Kernel) /\ Kernel.sems[j].name = s
      BY FindSem DEF NInv, Kept
    <2>2. s[1] = m /\ s[2] \in {"e", "f"}
      BY DEF empty, fullsem
    <2>3. Users(Kernel, pc, j) = {}
      BY <2>1, <2>2 DEF Users, Span
    <2>4. Kernel.sems[j].open_count > 0 /\ Kernel.sems[j].open_count \in Nat
      BY <2>1 DEF Open, Tables, Semaphore
    <2>5. Kernel.sems[j].open_count <= 0
      BY <2>1, <2>3, FS_EmptySet DEF NInv, Kept
    <2> QED
      BY <2>4, <2>5
  <1> QED
    BY <1>1, MVarCounts, PTL

-----------------------------------------------------------------------------
(***************************************************************************)
(* One `mvar' and nobody killed: a buffer of one.  The two semaphores pass *)
(* one token around.  It is in "e" while the buffer is empty, in "f" while *)
(* it is full, and otherwise a participant has it.                         *)
(***************************************************************************)

\* The value of a semaphore; one that is not open counts as one with v units.
Worth(k, n, v) == IF find_sem(k, n) = NULL THEN v ELSE k.sems[find_sem(k, n)].value

\* The participants between their wait and their post.
Inside(k, at) ==
    {p \in Participants : \/ at[p] = "post"
                          \/ at[p] = "access" /\ k.procs[p].state = "READY"}

Token(k, at, m, fl) ==
    LET e == Worth(k, empty(m), 1)
        f == Worth(k, fullsem(m), 0)
    IN  \/ e = 1 /\ f <= 0 /\ Inside(k, at) = {} /\ ~fl
        \/ e <= 0 /\ f = 1 /\ Inside(k, at) = {} /\ fl
        \/ /\ e <= 0 /\ f <= 0
           /\ \E q \in Participants : /\ Inside(k, at) = {q}
                                      /\ fl <=> (at[q] = "access" <=> q[2] = "reader")

\* The semaphore that a participant waits for.
wanted(p, m) == IF p[2] = "writer" THEN empty(m) ELSE fullsem(m)

\* The places without a semaphore, with the first, and with both.
Outside == {"unborn", "create", "claim", "spawn", "open_e", "exit", "done"}
Half == {"open_f", "undo_e"}
Both == {"find", "wait", "access", "post"}

\* Process p at place a: what it has open, and where it may sleep.  It gives
\* the first semaphore back only when there is no room for a second one.
Player(k, p, a, m) ==
    LET c == k.procs[p]
        e == find_sem(k, empty(m))
        f == find_sem(k, fullsem(m))
    IN  /\ a \in Outside \cup Half \cup Both
        /\ a # "unborn" => Mine(p) = m
        /\ a \in Outside => c.opened = {} /\ c.held = {}
        /\ a \in Half => e # NULL /\ c.opened = {e} /\ c.held = {}
        /\ a = "undo_e" => Sems = {e}
        /\ a \in Both => e # NULL /\ f # NULL /\ c.opened = {e, f}
        /\ c.state = "BLOCKED" => a = "access" /\ c.waits = find_sem(k, wanted(p, m))

Team(k, at, m) ==
    /\ Lines(k) /\ Counted(k) /\ Waiters(k)
    /\ \A j \in Open(k) : k.sems[j].name \in {empty(m), fullsem(m)}
    /\ \A p \in Pids : Player(k, p, at[p], m)

\* No slot is NULL.
LEMMA OpenNotNull ==
    ASSUME NEW k, NEW j \in Open(k)
    PROVE  j \in Sems /\ j # NULL
  BY SemsAreNat DEF Open

\* find_sem finds the slot of a name, there being one.
LEMMA FindIs ==
    ASSUME NEW k \in Tables, OneName(k), NEW n
    PROVE  /\ \A j \in Open(k) : k.sems[j].name = n => find_sem(k, n) = j
           /\ find_sem(k, n) # NULL => /\ find_sem(k, n) \in Open(k)
                                       /\ k.sems[find_sem(k, n)].name = n
           /\ (\A j \in Open(k) : k.sems[j].name # n) => find_sem(k, n) = NULL
  <1>1. \/ find_sem(k, n) = NULL /\ \A j \in Open(k) : k.sems[j].name # n
        \/ find_sem(k, n) \in Open(k) /\ k.sems[find_sem(k, n)].name = n
    BY FindSem
  <1> QED
    BY <1>1, OpenNotNull DEF OneName

\* ... and the same one while the same slots are open under the same names.
LEMMA SameFind ==
    ASSUME NEW k, NEW r, Open(r) = Open(k),
           \A j \in Open(k) : r.sems[j].name = k.sems[j].name, NEW n
    PROVE  find_sem(r, n) = find_sem(k, n)
  <1>1. {i \in Open(r) : r.sems[i].name = n} = {i \in Open(k) : k.sems[i].name = n}
    OBVIOUS
  <1> QED
    BY <1>1 DEF find_sem

\* A slot that somebody has open keeps its name.
LEMMA SlotStays ==
    ASSUME NEW k \in Tables, NEW r \in Tables, OneName(k), OneName(r), Counted(r), NEW q \in Pids,
           \A j \in Open(k) : j \in Open(r) => r.sems[j].name = k.sems[j].name,
           NEW n, find_sem(k, n) # NULL, find_sem(k, n) \in r.procs[q].opened
    PROVE  find_sem(r, n) = find_sem(k, n)
  <1> DEFINE j == find_sem(k, n)
  <1>1. j \in Open(k) /\ k.sems[j].name = n /\ j \in Sems
    BY FindIs, OpenNotNull
  <1>2. j \in Open(r)
    BY <1>1, OpenedIsOpen
  <1> QED
    BY <1>1, <1>2, FindIs

\* What a step of another process does to a process: nothing, or it ends its
\* sleep.
Stirred(c, d) ==
    d = c \/ (c.state = "BLOCKED" /\ d.state = "READY" /\ d.opened = c.opened)

LEMMA PlayerStays ==
    ASSUME NEW k \in Tables, NEW r \in Tables, OneName(k), OneName(r), Counted(r), NEW q \in Pids,
           \A j \in Open(k) : j \in Open(r) => r.sems[j].name = k.sems[j].name,
           NEW m, NEW a, Player(k, q, a, m), Stirred(k.procs[q], r.procs[q])
    PROVE  Player(r, q, a, m)
  <1> DEFINE c == k.procs[q]
             d == r.procs[q]
             e == find_sem(k, empty(m))
             f == find_sem(k, fullsem(m))
  <1>1. d.opened = c.opened
    BY DEF Stirred
  <1>2. a \in Half \cup Both => e # NULL /\ find_sem(r, empty(m)) = e
    BY <1>1, SlotStays DEF Player
  <1>3. a \in Both => f # NULL /\ find_sem(r, fullsem(m)) = f
    BY <1>1, SlotStays DEF Player
  <1>4. a = "access" => find_sem(r, wanted(q, m)) = find_sem(k, wanted(q, m))
    BY <1>2, <1>3 DEF wanted, Both
  <1>5. a \notin Outside \/ d = c
    BY DEF Player, Stirred, Outside
  <1>6. a \notin Half \/ d = c
    BY DEF Player, Stirred, Half
  <1>7. d.state = "BLOCKED" => d = c
    BY DEF Stirred
  <1>8. a = "undo_e" => a \in Half
    BY DEF Half
  <1> QED
    BY <1>1, <1>2, <1>3, <1>4, <1>5, <1>6, <1>7, <1>8 DEF Player

\* A step of p that leaves it at `to'.
LEMMA TeamAfter ==
    ASSUME NEW k, NEW at, Kept(k, at), NEW m, Team(k, at, m), NEW r \in Tables, OneName(r),
           Lines(r), Counted(r), Waiters(r),
           \A j \in Open(r) : r.sems[j].name \in {empty(m), fullsem(m)},
           \A j \in Open(k) : j \in Open(r) => r.sems[j].name = k.sems[j].name,
           NEW p \in Pids, NEW to, Player(r, p, to, m),
           \A q \in Pids \ {p} : Stirred(k.procs[q], r.procs[q])
    PROVE  Team(r, [at EXCEPT ![p] = to], m)
  <1>1. k \in Tables /\ OneName(k) /\ at \in [Pids -> Places]
    BY DEF Kept
  <1>2. ASSUME NEW q \in Pids \ {p}  PROVE Player(r, q, at[q], m)
    <2>1. Player(k, q, at[q], m)
      BY DEF Team
    <2> QED
      BY <1>1, <2>1, PlayerStays
  <1>3. \A q \in Pids : Player(r, q, [at EXCEPT ![p] = to][q], m)
    BY <1>1, <1>2
  <1> QED
    BY <1>3 DEF Team

\* The token stays where it is when the values stay, or stay without units, and
\* nobody comes or goes between wait and post.
LEMMA TokenStays ==
    ASSUME NEW k, NEW at, NEW m, NEW fl, Token(k, at, m, fl), NEW r, NEW bt,
           NEW p \in Pids, p \notin Inside(k, at), p \notin Inside(r, bt),
           \A q \in Participants \ {p} : /\ bt[q] = at[q]
                                         /\ r.procs[q].state = k.procs[q].state,
           \/ Worth(r, empty(m), 1) = Worth(k, empty(m), 1)
           \/ Worth(r, empty(m), 1) <= 0 /\ Worth(k, empty(m), 1) <= 0,
           \/ Worth(r, fullsem(m), 0) = Worth(k, fullsem(m), 0)
           \/ Worth(r, fullsem(m), 0) <= 0 /\ Worth(k, fullsem(m), 0) <= 0
    PROVE  Token(r, bt, m, fl)
  <1>1. Inside(r, bt) = Inside(k, at)
    BY DEF Inside
  <1>2. CASE \E q \in Participants : /\ Inside(k, at) = {q}
                                     /\ fl <=> (at[q] = "access" <=> q[2] = "reader")
    <2>1. PICK q \in Participants : /\ Inside(k, at) = {q}
                                    /\ fl <=> (at[q] = "access" <=> q[2] = "reader")
      BY <1>2
    <2>2. q # p /\ bt[q] = at[q] /\ Inside(k, at) # {}
      BY <2>1
    <2>3. /\ Worth(k, empty(m), 1) <= 0 /\ Worth(k, fullsem(m), 0) <= 0
      BY <2>2 DEF Token
    <2>4. /\ Worth(r, empty(m), 1) <= 0 /\ Worth(r, fullsem(m), 0) <= 0
      BY <2>3
    <2> QED
      BY <1>1, <2>1, <2>2, <2>4 DEF Token
  <1>3. CASE Inside(k, at) = {}
    <2>1. \A q : Inside(k, at) # {q}
      BY <1>3
    <2> DEFINE e == Worth(k, empty(m), 1)
               f == Worth(k, fullsem(m), 0)
    <2>2. (e = 1 /\ f <= 0 /\ ~fl) \/ (e <= 0 /\ f = 1 /\ fl)
      BY <2>1 DEF Token
    <2> QED
      BY <1>1, <1>3, <2>2 DEF Token
  <1> QED
    BY <1>2, <1>3 DEF Token

\* The two names of an MVar, and what a semaphore is worth.
LEMMA TwoNames ==
    ASSUME NEW m
    PROVE  /\ empty(m) # fullsem(m)
           /\ \A p : wanted(p, m) \in {empty(m), fullsem(m)}
  BY DEF empty, fullsem, wanted

LEMMA WorthIs ==
    ASSUME NEW k \in Tables, NEW n, NEW v \in Int
    PROVE  Worth(k, n, v) \in Int
  <1>1. find_sem(k, n) # NULL => find_sem(k, n) \in Sems
    BY FindSem DEF Open
  <1> QED
    BY <1>1 DEF Worth, Tables, Semaphore

\* A step in user code of a process that is not at the buffer.
LEMMA UserTeam ==
    ASSUME NEW k, NEW at, Kept(k, at), NEW m, Team(k, at, m), NEW fl, Token(k, at, m, fl),
           NEW p \in Pids, NEW to, Player(k, p, to, m),
           at[p] \notin {"access", "post"}, to \notin {"access", "post"}
    PROVE  Team(k, [at EXCEPT ![p] = to], m) /\ Token(k, [at EXCEPT ![p] = to], m, fl)
  <1> DEFINE bt == [at EXCEPT ![p] = to]
  <1>1. k \in Tables /\ OneName(k) /\ at \in [Pids -> Places]
    BY DEF Kept
  <1>2. Team(k, bt, m)
    BY <1>1, TeamAfter DEF Team, Stirred
  <1>3. bt[p] = to /\ \A q \in Participants \ {p} : bt[q] = at[q]
    BY <1>1, ParticipantsArePids
  <1> HIDE DEF bt
  <1>4. p \notin Inside(k, at) /\ p \notin Inside(k, bt)
    BY <1>3 DEF Inside
  <1>5. Token(k, bt, m, fl)
    BY <1>3, <1>4, TokenStays
  <1> QED
    BY <1>2, <1>5 DEF bt

\* sem_open changes what no semaphore is worth.
LEMMA OpenWorth ==
    ASSUME NEW k \in Tables, NEW r \in Tables, OneName(k), OneName(r), NEW p, NEW n, NEW v,
           find_sem(k, n) # NULL \/ FreeSlots(k) # {}, Truncate[n] = n, OpenStep(k, r, p, n, v)
    PROVE  /\ opened_slot(k, n) \in Open(r) /\ r.sems[opened_slot(k, n)].name = n
           /\ \A j \in Open(r) \ {opened_slot(k, n)} : j \in Open(k) /\ r.sems[j] = k.sems[j]
           /\ \A j \in Open(k) : r.sems[j].name = k.sems[j].name
           /\ find_sem(r, n) = opened_slot(k, n)
           /\ Worth(r, n, v) = Worth(k, n, v)
           /\ \A x, d : x # n => Worth(r, x, d) = Worth(k, x, d)
  <1> DEFINE i == opened_slot(k, n)
  <1>1. /\ i \in Sems
        /\ find_sem(k, n) = NULL => i \notin Open(k)
        /\ find_sem(k, n) # NULL => i \in Open(k) /\ i = find_sem(k, n) /\ k.sems[i].name = n
    BY OpenedSlot
  <1>2. /\ \A j \in Sems \ {i} : r.sems[j] = k.sems[j]
        /\ find_sem(k, n) # NULL => /\ r.sems[i].name = n /\ r.sems[i].value = k.sems[i].value
                                    /\ r.sems[i].open_count = k.sems[i].open_count + 1
        /\ find_sem(k, n) = NULL => /\ r.sems[i].name = n /\ r.sems[i].value = v
                                    /\ r.sems[i].open_count = 1
    BY <1>1 DEF OpenStep, Only, SlotIs
  <1> HIDE DEF i
  <1>3. k.sems[i].open_count \in Nat
    BY <1>1 DEF Tables, Semaphore
  <1>4. i \in Open(r) /\ r.sems[i].name = n
    BY <1>1, <1>2, <1>3 DEF Open
  <1>5. \A j \in Open(r) \ {i} : j \in Open(k) /\ r.sems[j] = k.sems[j]
    BY <1>2 DEF Open
  <1>6. \A j \in Open(k) : r.sems[j].name = k.sems[j].name
    BY <1>1, <1>2 DEF Open
  <1>7. find_sem(r, n) = i
    BY <1>4, FindIs
  <1>8. i # NULL
    BY <1>1, SemsAreNat
  <1>9. Worth(r, n, v) = Worth(k, n, v)
    BY <1>1, <1>2, <1>7, <1>8 DEF Worth
  <1>10. ASSUME NEW x, NEW d, x # n  PROVE Worth(r, x, d) = Worth(k, x, d)
    <2>1. CASE find_sem(k, x) = NULL
      <3>1. \A j \in Open(k) : k.sems[j].name # x
        BY <2>1, FindIs, OpenNotNull
      <3>2. \A j \in Open(r) : r.sems[j].name # x
        BY <1>4, <1>5, <1>10, <3>1
      <3>3. find_sem(r, x) = NULL
        BY <3>2, FindIs
      <3> QED
        BY <2>1, <3>3 DEF Worth
    <2>2. CASE find_sem(k, x) # NULL
      <3> DEFINE j == find_sem(k, x)
      <3>1. j \in Open(k) /\ k.sems[j].name = x
        BY <2>2, FindIs
      <3>2. j # i /\ j \in Sems
        BY <1>1, <1>10, <3>1 DEF Open
      <3>3. r.sems[j] = k.sems[j] /\ j \in Open(r)
        BY <1>2, <3>1, <3>2 DEF Open
      <3>4. find_sem(r, x) = j
        BY <3>1, <3>3, FindIs
      <3> QED
        BY <2>2, <3>3, <3>4 DEF Worth
    <2> QED
      BY <2>1, <2>2
  <1> QED
    BY <1>4, <1>5, <1>6, <1>7, <1>9, <1>10 DEF i

\* A participant opens the first semaphore, or the second.
LEMMA OpenTeam ==
    ASSUME NEW k, NEW at, Kept(k, at), NEW m, Team(k, at, m), NEW fl, Token(k, at, m, fl),
           NEW p \in Participants, NEW n, NEW v, NEW to, NEW r,
           \/ at[p] = "open_e" /\ n = empty(m) /\ v = 1 /\ to = "open_f"
           \/ at[p] = "open_f" /\ n = fullsem(m) /\ v = 0 /\ to = "find",
           k.procs[p].state = "READY", find_sem(k, n) # NULL \/ FreeSlots(k) # {},
           r = sem_open(k, p, n, v), OneName(r)
    PROVE  Team(r, [at EXCEPT ![p] = to], m) /\ Token(r, [at EXCEPT ![p] = to], m, fl)
  <1> DEFINE bt == [at EXCEPT ![p] = to]
             i == opened_slot(k, n)
             e == find_sem(k, empty(m))
             f == find_sem(k, fullsem(m))
  <1>1. /\ k \in Tables /\ OneName(k) /\ at \in [Pids -> Places] /\ p \in Pids
        /\ Lines(k) /\ Counted(k) /\ Waiters(k) /\ Player(k, p, at[p], m)
        /\ \A j \in Open(k) : k.sems[j].name \in {empty(m), fullsem(m)}
    BY ParticipantsArePids DEF Kept, Team
  <1>2. Mine(p) = m
    BY <1>1 DEF Player
  <1>3. n \in Names /\ Truncate[n] = n /\ v \in InitialValues /\ n \in {empty(m), fullsem(m)}
    BY <1>2, NameParts, MVarAssumption DEF empty, fullsem
  <1>4. /\ at[p] = "open_e" => k.procs[p].opened = {} /\ k.procs[p].held = {}
        /\ at[p] = "open_f" => /\ e # NULL /\ k.procs[p].opened = {e} /\ k.procs[p].held = {}
    BY <1>1 DEF Player, Outside, Half
  <1>5. find_sem(k, n) \notin k.procs[p].opened
    <2>1. CASE at[p] = "open_e"
      BY <1>4, <2>1
    <2>2. CASE at[p] = "open_f"
      <3>1. n = fullsem(m) /\ k.procs[p].opened = {e} /\ e # NULL
        BY <1>4, <2>2
      <3>2. k.sems[e].name = empty(m)
        BY <1>1, <3>1, FindIs
      <3>3. f # NULL => k.sems[f].name = fullsem(m)
        BY <1>1, FindIs
      <3> QED
        BY <3>1, <3>2, <3>3, TwoNames
    <2> QED
      BY <2>1, <2>2
  <1>6. Lines(r) /\ Counted(r) /\ Waiters(r)
    BY <1>1, <1>3, <1>5, OpenLines, OpenCounted, OpenWaiters
  <1>7. OpenStep(k, r, p, n, v)
    BY <1>1, <1>3, OpenIs
  <1>8. /\ r \in Tables /\ \A q \in Pids \ {p} : r.procs[q] = k.procs[q]
        /\ PCBIs(r.procs[p], "READY", k.procs[p].held, k.procs[p].opened \cup {i}, k.procs[p].waits)
    BY <1>7 DEF OpenStep, Only
  <1>9. /\ i \in Open(r) /\ r.sems[i].name = n
        /\ \A j \in Open(r) \ {i} : j \in Open(k) /\ r.sems[j] = k.sems[j]
        /\ \A j \in Open(k) : r.sems[j].name = k.sems[j].name
        /\ find_sem(r, n) = i
        /\ Worth(r, n, v) = Worth(k, n, v)
        /\ \A x, d : x # n => Worth(r, x, d) = Worth(k, x, d)
    BY <1>1, <1>3, <1>7, <1>8, OpenWorth
  <1> HIDE DEF i
  <1>10. \A j \in Open(r) : r.sems[j].name \in {empty(m), fullsem(m)}
    BY <1>1, <1>3, <1>9
  <1>11. i # NULL
    BY <1>9, OpenNotNull
  <1>12. Player(r, p, to, m)
    <2>1. CASE at[p] = "open_e"
      BY <1>2, <1>4, <1>8, <1>9, <1>11, <2>1 DEF Player, PCBIs, Outside, Half, Both
    <2>2. CASE at[p] = "open_f"
      <3>1. e # NULL /\ e \in r.procs[p].opened
        BY <1>4, <1>8, <2>2 DEF PCBIs
      <3>2. find_sem(r, empty(m)) = e
        BY <1>1, <1>6, <1>8, <1>9, <3>1, SlotStays
      <3>3. r.procs[p].opened = {e, i}
        BY <1>4, <1>8, <2>2 DEF PCBIs
      <3> HIDE DEF e
      <3> QED
        BY <1>2, <1>8, <1>9, <1>11, <2>2, <3>1, <3>2, <3>3 DEF Player, PCBIs, Outside, Half, Both
    <2> QED
      BY <2>1, <2>2
  <1>13. Team(r, bt, m)
    <2>1. \A q \in Pids \ {p} : Stirred(k.procs[q], r.procs[q])
      BY <1>8 DEF Stirred
    <2>2. \A j \in Open(k) : j \in Open(r) => r.sems[j].name = k.sems[j].name
      BY <1>9
    <2> QED
      BY <1>1, <1>6, <1>8, <1>10, <1>12, <2>1, <2>2, TeamAfter
  <1>14. bt[p] = to /\ \A q \in Participants \ {p} : bt[q] = at[q] /\ q \in Pids
    BY <1>1, ParticipantsArePids
  <1> HIDE DEF bt
  <1>15. p \notin Inside(k, at) /\ p \notin Inside(r, bt)
    BY <1>14 DEF Inside
  <1>16. /\ Worth(r, empty(m), 1) = Worth(k, empty(m), 1)
         /\ Worth(r, fullsem(m), 0) = Worth(k, fullsem(m), 0)
    BY <1>9, TwoNames
  <1>17. Token(r, bt, m, fl)
    BY <1>1, <1>8, <1>14, <1>15, <1>16, TokenStays
  <1> QED
    BY <1>13, <1>17 DEF bt

\* Who is inside has the token.
LEMMA InsideHasToken ==
    ASSUME NEW k, NEW at, NEW m, NEW fl, Token(k, at, m, fl), NEW p \in Inside(k, at)
    PROVE  /\ Worth(k, empty(m), 1) <= 0 /\ Worth(k, fullsem(m), 0) <= 0
           /\ Inside(k, at) = {p} /\ (fl <=> (at[p] = "access" <=> p[2] = "reader"))
  <1>1. Inside(k, at) # {}
    OBVIOUS
  <1>2. PICK q \in Participants : /\ Inside(k, at) = {q}
                                  /\ fl <=> (at[q] = "access" <=> q[2] = "reader")
    BY <1>1 DEF Token
  <1>3. q = p
    BY <1>2
  <1>4. Worth(k, empty(m), 1) <= 0 /\ Worth(k, fullsem(m), 0) <= 0
    BY <1>1 DEF Token
  <1> QED
    BY <1>2, <1>3, <1>4

\* A participant that has both semaphores open.
LEMMA BothOpen ==
    ASSUME NEW k, NEW at, Kept(k, at), NEW m, Team(k, at, m), NEW p \in Pids, at[p] \in Both,
           NEW n \in {empty(m), fullsem(m)}, NEW v
    PROVE  /\ find_sem(k, n) \in Open(k) /\ find_sem(k, n) \in Sems /\ find_sem(k, n) # NULL
           /\ find_sem(k, n) \in k.procs[p].opened
           /\ k.sems[find_sem(k, n)].name = n
           /\ Worth(k, n, v) = k.sems[find_sem(k, n)].value
           /\ k.sems[find_sem(k, n)].value \in Int
           /\ k.procs[p].opened = {find_sem(k, empty(m)), find_sem(k, fullsem(m))}
           /\ Mine(p) = m
  <1>1. k \in Tables /\ OneName(k) /\ Player(k, p, at[p], m)
    BY DEF Kept, Team
  <1>2. /\ find_sem(k, n) # NULL /\ find_sem(k, n) \in k.procs[p].opened
        /\ k.procs[p].opened = {find_sem(k, empty(m)), find_sem(k, fullsem(m))}
    BY <1>1 DEF Player
  <1>3. /\ find_sem(k, n) \in Open(k) /\ find_sem(k, n) \in Sems
        /\ k.sems[find_sem(k, n)].name = n
    BY <1>1, <1>2, FindIs, OpenNotNull
  <1>4. Mine(p) = m
    BY <1>1 DEF Player, Both
  <1>5. k.sems[find_sem(k, n)].value \in Int
    BY <1>1, <1>3 DEF Tables, Semaphore
  <1> QED
    BY <1>2, <1>3, <1>4, <1>5 DEF Worth

\* Wait and post move the value of one semaphore, and open and close nothing.
LEMMA OneValue ==
    ASSUME NEW k, NEW at, Kept(k, at), NEW m, Team(k, at, m), NEW r \in Tables,
           NEW i \in Open(k),
           \A j \in Sems : /\ r.sems[j].name = k.sems[j].name
                           /\ r.sems[j].open_count = k.sems[j].open_count,
           \A j \in Sems \ {i} : r.sems[j] = k.sems[j]
    PROVE  /\ Open(r) = Open(k) /\ OneName(r)
           /\ \A j \in Open(r) : r.sems[j].name \in {empty(m), fullsem(m)}
           /\ \A n : find_sem(r, n) = find_sem(k, n)
           /\ \A n, v : find_sem(k, n) # i => Worth(r, n, v) = Worth(k, n, v)
           /\ \A n, v : find_sem(k, n) = i => Worth(r, n, v) = r.sems[i].value
  <1>1. k \in Tables /\ OneName(k) /\ \A j \in Open(k) : k.sems[j].name \in {empty(m), fullsem(m)}
    BY DEF Kept, Team
  <1>2. Open(r) = Open(k)
    BY DEF Open
  <1>3. \A j \in Open(k) : r.sems[j].name = k.sems[j].name /\ j \in Sems
    BY DEF Open
  <1>4. \A n : find_sem(r, n) = find_sem(k, n)
    BY <1>2, <1>3, SameFind
  <1>5. \A n : find_sem(k, n) # NULL => find_sem(k, n) \in Sems
    BY <1>1, FindIs, OpenNotNull
  <1>6. i # NULL
    BY OpenNotNull
  <1>7. OneName(r)
    BY <1>1, <1>2, <1>3 DEF OneName
  <1> QED
    BY <1>1, <1>2, <1>3, <1>4, <1>5, <1>6, <1>7 DEF Worth

\* A participant waits: it takes the token, or sleeps.
LEMMA WaitTeam ==
    ASSUME NEW k, NEW at, Kept(k, at), NEW m, Team(k, at, m), NEW fl, Token(k, at, m, fl),
           NEW p \in Participants, at[p] = "wait", k.procs[p].state = "READY", NEW r,
           r = sem_wait(k, p, find_sem(k, wanted(p, m)))
    PROVE  Team(r, [at EXCEPT ![p] = "access"], m) /\ Token(r, [at EXCEPT ![p] = "access"], m, fl)
  <1> DEFINE bt == [at EXCEPT ![p] = "access"]
             n == wanted(p, m)
             i == find_sem(k, n)
             e == find_sem(k, empty(m))
             f == find_sem(k, fullsem(m))
  <1>1. /\ k \in Tables /\ OneName(k) /\ at \in [Pids -> Places] /\ p \in Pids
        /\ Lines(k) /\ Counted(k) /\ Waiters(k)
    BY ParticipantsArePids DEF Kept, Team
  <1>2. at[p] \in Both /\ n \in {empty(m), fullsem(m)}
    BY TwoNames DEF Both
  <1>3. /\ i \in Open(k) /\ i \in Sems /\ i # NULL /\ i \in k.procs[p].opened
        /\ k.sems[i].value \in Int /\ k.procs[p].opened = {e, f} /\ Mine(p) = m
    BY <1>1, <1>2, BothOpen
  <1>4. /\ e # NULL /\ f # NULL /\ e # f
        /\ Worth(k, empty(m), 1) = k.sems[e].value /\ Worth(k, fullsem(m), 0) = k.sems[f].value
    <2>1. /\ e # NULL /\ k.sems[e].name = empty(m) /\ Worth(k, empty(m), 1) = k.sems[e].value
          /\ f # NULL /\ k.sems[f].name = fullsem(m) /\ Worth(k, fullsem(m), 0) = k.sems[f].value
      BY <1>1, <1>2, BothOpen
    <2> QED
      BY <2>1, TwoNames
  <1>5. i = IF p[2] = "writer" THEN e ELSE f
    BY DEF wanted
  <1> HIDE DEF i
  <1>6. Lines(r) /\ Counted(r) /\ Waiters(r)
    BY <1>1, <1>3, WaitLines, WaitCounted, WaitWaiters DEF i
  <1>7. WaitStep(k, r, p, i)
    BY <1>1, <1>3, WaitIs DEF i
  <1>8. /\ r \in Tables
        /\ \A j \in Sems : /\ r.sems[j].name = k.sems[j].name
                           /\ r.sems[j].open_count = k.sems[j].open_count
        /\ \A j \in Sems \ {i} : r.sems[j] = k.sems[j]
        /\ \A q \in Pids \ {p} : r.procs[q] = k.procs[q]
        /\ r.sems[i].value = k.sems[i].value - 1
        /\ r.procs[p].opened = k.procs[p].opened
    BY <1>7 DEF WaitStep, Only, SlotIs, PCBIs
  <1>9. /\ Open(r) = Open(k) /\ OneName(r)
        /\ \A j \in Open(r) : r.sems[j].name \in {empty(m), fullsem(m)}
        /\ \A x : find_sem(r, x) = find_sem(k, x)
        /\ \A x, v : find_sem(k, x) # i => Worth(r, x, v) = Worth(k, x, v)
        /\ \A x, v : find_sem(k, x) = i => Worth(r, x, v) = r.sems[i].value
    BY <1>3, <1>8, OneValue
  <1>10. /\ k.sems[i].value - 1 < 0 => r.procs[p].state = "BLOCKED" /\ r.procs[p].waits = i
         /\ ~(k.sems[i].value - 1 < 0) => r.procs[p].state = "READY"
    BY <1>7 DEF WaitStep, PCBIs
  <1>11. Player(r, p, "access", m)
    <2>1. /\ find_sem(r, empty(m)) = e /\ find_sem(r, fullsem(m)) = f
          /\ find_sem(r, wanted(p, m)) = i
      BY <1>9 DEF i
    <2>2. r.procs[p].state = "BLOCKED" => r.procs[p].waits = i
      BY <1>10
    <2> HIDE DEF e, f
    <2> QED
      BY <1>3, <1>4, <1>8, <2>1, <2>2 DEF Player, Outside, Half, Both
  <1>12. Team(r, bt, m)
    <2>1. \A q \in Pids \ {p} : Stirred(k.procs[q], r.procs[q])
      BY <1>8 DEF Stirred
    <2>2. \A j \in Open(k) : j \in Open(r) => r.sems[j].name = k.sems[j].name
      BY <1>8 DEF Open
    <2> QED
      BY <1>1, <1>6, <1>8, <1>9, <1>11, <2>1, <2>2, TeamAfter
  <1>13. bt[p] = "access" /\ \A q \in Participants \ {p} : bt[q] = at[q] /\ q \in Pids
    BY <1>1, ParticipantsArePids
  <1> HIDE DEF bt
  <1>14. p \notin Inside(k, at)
    BY DEF Inside
  <1>15. /\ Worth(r, empty(m), 1) = IF p[2] = "writer" THEN k.sems[i].value - 1
                                    ELSE Worth(k, empty(m), 1)
         /\ Worth(r, fullsem(m), 0) = IF p[2] = "writer" THEN Worth(k, fullsem(m), 0)
                                      ELSE k.sems[i].value - 1
         /\ k.sems[i].value = IF p[2] = "writer" THEN Worth(k, empty(m), 1)
                              ELSE Worth(k, fullsem(m), 0)
    BY <1>4, <1>5, <1>8, <1>9
  <1>16. CASE k.sems[i].value <= 0
    <2>1. p \notin Inside(r, bt)
      BY <1>3, <1>10, <1>13, <1>16 DEF Inside
    <2>2. /\ \/ Worth(r, empty(m), 1) = Worth(k, empty(m), 1)
             \/ Worth(r, empty(m), 1) <= 0 /\ Worth(k, empty(m), 1) <= 0
          /\ \/ Worth(r, fullsem(m), 0) = Worth(k, fullsem(m), 0)
             \/ Worth(r, fullsem(m), 0) <= 0 /\ Worth(k, fullsem(m), 0) <= 0
      BY <1>3, <1>15, <1>16
    <2>3. Token(r, bt, m, fl)
      BY <1>1, <1>8, <1>13, <1>14, <2>1, <2>2, TokenStays
    <2> QED
      BY <1>12, <2>3 DEF bt
  <1>17. CASE ~(k.sems[i].value <= 0)
    <2>1. /\ Inside(k, at) = {} /\ k.sems[i].value = 1
          /\ p[2] = "writer" => Worth(k, fullsem(m), 0) <= 0 /\ ~fl
          /\ p[2] # "writer" => Worth(k, empty(m), 1) <= 0 /\ fl
      BY <1>3, <1>15, <1>17 DEF Token
    <2>2. r.procs[p].state = "READY"
      BY <1>10, <2>1
    <2>3. Inside(r, bt) = {p}
      BY <1>8, <1>13, <2>1, <2>2 DEF Inside
    <2>4. p[2] = "reader" <=> p[2] # "writer"
      BY MVarAssumption
    <2>5. Worth(r, empty(m), 1) <= 0 /\ Worth(r, fullsem(m), 0) <= 0
      BY <1>15, <2>1
    <2>6. fl <=> (bt[p] = "access" <=> p[2] = "reader")
      BY <1>13, <2>1, <2>4
    <2>7. Token(r, bt, m, fl)
      BY <2>3, <2>5, <2>6 DEF Token
    <2> QED
      BY <1>12, <2>7 DEF bt
  <1> QED
    BY <1>3, <1>16, <1>17

\* The participant with the token puts or takes the value.
LEMMA AccessTeam ==
    ASSUME NEW k, NEW at, Kept(k, at), NEW m, Team(k, at, m), NEW fl, Token(k, at, m, fl),
           NEW p \in Participants, at[p] = "access", k.procs[p].state = "READY",
           NEW gl, gl <=> p[2] = "writer"
    PROVE  Team(k, [at EXCEPT ![p] = "post"], m) /\ Token(k, [at EXCEPT ![p] = "post"], m, gl)
  <1> DEFINE bt == [at EXCEPT ![p] = "post"]
  <1>1. /\ k \in Tables /\ OneName(k) /\ at \in [Pids -> Places] /\ p \in Pids
        /\ Player(k, p, at[p], m)
    BY ParticipantsArePids DEF Kept, Team
  <1>2. Player(k, p, "post", m)
    BY <1>1 DEF Player, Outside, Half, Both
  <1>3. Team(k, bt, m)
    BY <1>1, <1>2, TeamAfter DEF Team, Stirred
  <1>4. bt[p] = "post" /\ \A q \in Participants \ {p} : bt[q] = at[q]
    BY <1>1, ParticipantsArePids
  <1> HIDE DEF bt
  <1>5. p \in Inside(k, at)
    BY DEF Inside
  <1>6. Worth(k, empty(m), 1) <= 0 /\ Worth(k, fullsem(m), 0) <= 0 /\ Inside(k, at) = {p}
    BY <1>5, InsideHasToken
  <1>7. Inside(k, bt) = {p}
    BY <1>4, <1>6 DEF Inside
  <1>8. gl <=> (bt[p] = "access" <=> p[2] = "reader")
    BY <1>4, MVarAssumption
  <1>9. Token(k, bt, m, gl)
    BY <1>6, <1>7, <1>8 DEF Token
  <1> QED
    BY <1>3, <1>9 DEF bt

\* The semaphore that a participant posts.
given(p, m) == IF p[2] = "writer" THEN fullsem(m) ELSE empty(m)

\* A participant posts: the token goes to the first in line, or into the value.
LEMMA PostTeam ==
    ASSUME NEW k, NEW at, Kept(k, at), Roles(at), NEW m, Team(k, at, m), NEW fl,
           Token(k, at, m, fl), NEW p \in Participants, at[p] = "post",
           k.procs[p].state = "READY", NEW r, r = sem_post(k, p, find_sem(k, given(p, m)))
    PROVE  Team(r, [at EXCEPT ![p] = "find"], m) /\ Token(r, [at EXCEPT ![p] = "find"], m, fl)
  <1> DEFINE bt == [at EXCEPT ![p] = "find"]
             n == given(p, m)
             i == find_sem(k, n)
             e == find_sem(k, empty(m))
             f == find_sem(k, fullsem(m))
             h == Head(k.sems[i].queue)
  <1>1. /\ k \in Tables /\ OneName(k) /\ at \in [Pids -> Places] /\ p \in Pids
        /\ Lines(k) /\ Counted(k) /\ Waiters(k)
    BY ParticipantsArePids DEF Kept, Team
  <1>2. at[p] \in Both /\ n \in {empty(m), fullsem(m)}
    BY DEF Both, given
  <1>3. /\ i \in Open(k) /\ i \in Sems /\ i # NULL /\ k.sems[i].name = n
        /\ k.sems[i].value \in Int /\ k.procs[p].opened = {e, f} /\ Mine(p) = m
    BY <1>1, <1>2, BothOpen
  <1>4. /\ e # NULL /\ f # NULL /\ e # f
        /\ Worth(k, empty(m), 1) = k.sems[e].value /\ Worth(k, fullsem(m), 0) = k.sems[f].value
    <2>1. /\ e # NULL /\ k.sems[e].name = empty(m) /\ Worth(k, empty(m), 1) = k.sems[e].value
          /\ f # NULL /\ k.sems[f].name = fullsem(m) /\ Worth(k, fullsem(m), 0) = k.sems[f].value
      BY <1>1, <1>2, BothOpen
    <2> QED
      BY <2>1, TwoNames
  <1>5. i = IF p[2] = "writer" THEN f ELSE e
    BY DEF given
  <1> HIDE DEF i
  <1>6. Lines(r) /\ Counted(r) /\ Waiters(r)
    BY <1>1, <1>3, PostLines, PostCounted, PostWaiters DEF i
  <1>7. PICK d : DropStep(k, d, p, i) /\ r = give(d, i)
    BY <1>1, <1>3, PostIs DEF i
  <1>8. /\ d \in Tables /\ d.sems = k.sems /\ Lines(d)
        /\ \A q \in Pids \ {p} : d.procs[q] = k.procs[q]
        /\ d.procs[p].state = "READY" /\ d.procs[p].opened = {e, f}
    <2>1. Lines(d)
      BY <1>1, <1>3, <1>7, DropLines
    <2> HIDE DEF e, f
    <2> QED
      BY <1>3, <1>7, <2>1 DEF DropStep, PCBIs
  <1>9. GiveStep(d, r, i)
    BY <1>3, <1>7, <1>8, GiveIs
  <1>10. /\ r \in Tables
         /\ \A j \in Sems : /\ r.sems[j].name = k.sems[j].name
                            /\ r.sems[j].open_count = k.sems[j].open_count
         /\ \A j \in Sems \ {i} : r.sems[j] = k.sems[j]
         /\ r.sems[i].value = k.sems[i].value + 1
    BY <1>8, <1>9 DEF GiveStep, SlotIs
  <1>11. /\ Open(r) = Open(k) /\ OneName(r)
         /\ \A j \in Open(r) : r.sems[j].name \in {empty(m), fullsem(m)}
         /\ \A x : find_sem(r, x) = find_sem(k, x)
         /\ \A x, v : find_sem(k, x) # i => Worth(r, x, v) = Worth(k, x, v)
         /\ \A x, v : find_sem(k, x) = i => Worth(r, x, v) = r.sems[i].value
    BY <1>3, <1>10, OneValue
  <1>12. ASSUME Hands(k.sems[i])
         PROVE  /\ h \in Pids /\ h # p /\ k.procs[h].state = "BLOCKED" /\ k.procs[h].waits = i
                /\ r.procs[h].state = "READY" /\ r.procs[h].opened = k.procs[h].opened
    <2>1. h \in Pids /\ k.procs[h].state = "BLOCKED" /\ k.procs[h].waits = i
      BY <1>1, <1>3, <1>12, FirstSleeps
    <2>2. h # p /\ d.procs[h] = k.procs[h] /\ d.procs[h] \in PCB
      BY <1>8, <2>1 DEF Tables
    <2>3. r.procs[h] = handed(d.procs[h], i)
      BY <1>8, <1>9, <1>12, <2>1, <2>2 DEF GiveStep
    <2> HIDE DEF h
    <2> QED
      BY <1>3, <2>1, <2>2, <2>3, HandedType
  <1>13. \A q \in Pids : ~(Hands(k.sems[i]) /\ q = h) => r.procs[q] = d.procs[q]
    BY <1>8, <1>9 DEF GiveStep
  <1> HIDE DEF h
  <1>14. \A q \in Pids \ {p} : Stirred(k.procs[q], r.procs[q])
    BY <1>8, <1>12, <1>13 DEF Stirred
  <1>15. r.procs[p] = d.procs[p]
    BY <1>1, <1>12, <1>13
  <1>16. Player(r, p, "find", m)
    <2>1. find_sem(r, empty(m)) = e /\ find_sem(r, fullsem(m)) = f
      BY <1>11
    <2> HIDE DEF e, f
    <2> QED
      BY <1>3, <1>4, <1>8, <1>15, <2>1 DEF Player, Outside, Half, Both
  <1>17. Team(r, bt, m)
    <2>1. \A j \in Open(k) : j \in Open(r) => r.sems[j].name = k.sems[j].name
      BY <1>10 DEF Open
    <2> QED
      BY <1>1, <1>6, <1>10, <1>11, <1>14, <1>16, <2>1, TeamAfter
  <1>18. bt[p] = "find" /\ \A q \in Participants \ {p} : bt[q] = at[q] /\ q \in Pids
    BY <1>1, ParticipantsArePids
  <1> HIDE DEF bt
  <1>19. p \in Inside(k, at)
    BY DEF Inside
  <1>20. /\ Worth(k, empty(m), 1) <= 0 /\ Worth(k, fullsem(m), 0) <= 0 /\ Inside(k, at) = {p}
         /\ fl <=> p[2] = "writer"
    <2>1. /\ Worth(k, empty(m), 1) <= 0 /\ Worth(k, fullsem(m), 0) <= 0 /\ Inside(k, at) = {p}
          /\ fl <=> (at[p] = "access" <=> p[2] = "reader")
      BY <1>19, InsideHasToken
    <2>2. p[2] = "reader" <=> p[2] # "writer"
      BY MVarAssumption
    <2> QED
      BY <2>1, <2>2
  <1>21. /\ Worth(r, empty(m), 1) = IF p[2] = "writer" THEN Worth(k, empty(m), 1)
                                    ELSE k.sems[i].value + 1
         /\ Worth(r, fullsem(m), 0) = IF p[2] = "writer" THEN k.sems[i].value + 1
                                      ELSE Worth(k, fullsem(m), 0)
         /\ k.sems[i].value <= 0
    BY <1>4, <1>5, <1>10, <1>11, <1>20
  <1>22. CASE Hands(k.sems[i])
    <2>1. at[h] = "access" /\ find_sem(k, wanted(h, m)) = i
      BY <1>12, <1>22 DEF Team, Player
    <2>2. h \in Participants
      BY <1>12, <1>22, <2>1 DEF Roles, CommandPlaces
    <2>3. wanted(h, m) = n
      <3>1. k.sems[find_sem(k, wanted(h, m))].name = wanted(h, m)
        BY <1>1, <1>3, <2>1, FindIs
      <3> QED
        BY <1>3, <2>1, <3>1
    <2>4. h[2] = "reader" <=> p[2] = "writer"
      BY <2>2, <2>3, TwoNames, MVarAssumption DEF wanted, given
    <2>5. Inside(r, bt) = {h}
      <3>1. h # p /\ r.procs[h].state = "READY" /\ bt[h] = "access"
        BY <1>12, <1>18, <1>22, <2>1, <2>2
      <3>2. \A q \in Participants \ {p, h} : q \notin Inside(r, bt)
        BY <1>8, <1>13, <1>18, <1>20 DEF Inside
      <3>3. h \in Inside(r, bt) /\ p \notin Inside(r, bt) /\ Inside(r, bt) \subseteq Participants
        BY <1>18, <2>2, <3>1 DEF Inside
      <3> QED
        BY <3>2, <3>3
    <2>6. k.sems[i].value + 1 <= 0
      BY <1>22 DEF Hands
    <2>7. bt[h] = "access" /\ (fl <=> h[2] = "reader")
      BY <1>12, <1>18, <1>20, <1>22, <2>1, <2>2, <2>4
    <2>8. Token(r, bt, m, fl)
      BY <1>20, <1>21, <2>2, <2>5, <2>6, <2>7 DEF Token
    <2> QED
      BY <1>17, <2>8 DEF bt
  <1>23. CASE ~Hands(k.sems[i])
    <2>1. k.sems[i].queue = <<>>
      BY <1>1, <1>3, <1>23, FirstInLine
    <2>2. k.sems[i].value = 0
      <3>1. Len(k.sems[i].queue) = IF k.sems[i].value < 0 THEN -k.sems[i].value ELSE 0
        BY <1>1, <1>3 DEF Lines, Balanced
      <3>2. Len(k.sems[i].queue) = 0
        BY <2>1
      <3> QED
        BY <1>3, <1>21, <3>1, <3>2
    <2>3. Inside(r, bt) = {}
      BY <1>8, <1>13, <1>18, <1>20, <1>23 DEF Inside
    <2>4. Token(r, bt, m, fl)
      BY <1>20, <1>21, <2>2, <2>3 DEF Token
    <2> QED
      BY <1>17, <2>4 DEF bt
  <1> QED
    BY <1>22, <1>23

\* A participant that did not get the second semaphore closes the first: nobody
\* has got past it.
LEMMA UndoTeam ==
    ASSUME NEW k, NEW at, Kept(k, at), NEW m, Team(k, at, m), NEW fl, Token(k, at, m, fl),
           NEW p \in Participants, at[p] = "undo_e", k.procs[p].state = "READY", NEW r,
           r = sem_close(k, p, find_sem(k, empty(m))), OneName(r)
    PROVE  Team(r, [at EXCEPT ![p] = "exit"], m) /\ Token(r, [at EXCEPT ![p] = "exit"], m, fl)
  <1> DEFINE bt == [at EXCEPT ![p] = "exit"]
             i == find_sem(k, empty(m))
  <1>1. /\ k \in Tables /\ OneName(k) /\ at \in [Pids -> Places] /\ p \in Pids
        /\ Lines(k) /\ Counted(k) /\ Waiters(k) /\ Player(k, p, at[p], m)
    BY ParticipantsArePids DEF Kept, Team
  <1>2. /\ i # NULL /\ k.procs[p].opened = {i} /\ k.procs[p].held = {} /\ Sems = {i}
        /\ Mine(p) = m
    BY <1>1 DEF Player, Half
  <1>3. i \in Open(k) /\ k.sems[i].name = empty(m)
    BY <1>1, <1>2, FindIs
  <1> HIDE DEF i
  <1>4. Lines(r) /\ Counted(r) /\ Waiters(r)
    BY <1>1, <1>2, <1>3, CloseLines, CloseCounted, CloseWaiters DEF i
  <1>5. CloseStep(k, r, p, i)
    BY <1>1, <1>3, CloseIs DEF i
  <1>6. /\ r \in Tables /\ \A q \in Pids \ {p} : r.procs[q] = k.procs[q]
        /\ r.procs[p].state = "READY" /\ r.procs[p].held = {} /\ r.procs[p].opened = {}
    <2>1. k.procs[p].opened \ {i} = {} /\ k.procs[p].held \ {i} = {}
      BY <1>2
    <2> QED
      BY <1>5, <2>1 DEF CloseStep, Only, PCBIs
  <1>7. i \in Open(r) => r.sems[i].name = empty(m) /\ r.sems[i].value = k.sems[i].value
    BY <1>3, <1>5, FreeSemType DEF CloseStep, SlotIs, Open
  <1>8. Open(r) \subseteq {i} /\ Open(k) \subseteq {i}
    BY <1>2 DEF Open
  <1>9. find_sem(k, fullsem(m)) = NULL /\ find_sem(r, fullsem(m)) = NULL
    BY <1>1, <1>3, <1>6, <1>7, <1>8, FindIs, TwoNames
  <1>10. Player(r, p, "exit", m)
    BY <1>2, <1>6 DEF Player, Outside, Half, Both
  <1>11. Team(r, bt, m)
    <2>1. \A q \in Pids \ {p} : Stirred(k.procs[q], r.procs[q])
      BY <1>6 DEF Stirred
    <2>2. \A j \in Open(k) : j \in Open(r) => r.sems[j].name = k.sems[j].name
      BY <1>3, <1>7, <1>8
    <2>3. \A j \in Open(r) : r.sems[j].name \in {empty(m), fullsem(m)}
      BY <1>7, <1>8
    <2> QED
      BY <1>1, <1>4, <1>6, <1>10, <2>1, <2>2, <2>3, TeamAfter
  <1>12. bt[p] = "exit" /\ \A q \in Participants \ {p} : bt[q] = at[q] /\ q \in Pids
    BY <1>1, ParticipantsArePids
  <1> HIDE DEF bt
  <1>13. Inside(k, at) = {}
    <2> SUFFICES ASSUME NEW q \in Inside(k, at)  PROVE FALSE
      OBVIOUS
    <2>1. q \in Pids /\ at[q] \in Both
      BY ParticipantsArePids DEF Inside, Both
    <2> QED
      BY <1>9, <2>1 DEF Team, Player
  <1>14. Worth(k, empty(m), 1) = 1 /\ Worth(k, fullsem(m), 0) = 0
    <2>1. Worth(k, fullsem(m), 0) = 0
      BY <1>9 DEF Worth
    <2>2. \A q : Inside(k, at) # {q}
      BY <1>13
    <2>3. Worth(k, empty(m), 1) = 1 \/ Worth(k, fullsem(m), 0) = 1
      BY <2>2 DEF Token
    <2> QED
      BY <2>1, <2>3
  <1>15. Worth(r, fullsem(m), 0) = 0
    BY <1>9 DEF Worth
  <1>16. Worth(r, empty(m), 1) = 1
    <2>1. CASE i \in Open(r)
      <3>1. find_sem(r, empty(m)) = i
        BY <1>6, <1>7, <2>1, FindIs
      <3>2. k.sems[i].value = 1
        BY <1>2, <1>14 DEF Worth, i
      <3> QED
        BY <1>2, <1>7, <2>1, <3>1, <3>2 DEF Worth
    <2>2. CASE i \notin Open(r)
      <3>1. find_sem(r, empty(m)) = NULL
        BY <1>6, <1>8, <2>2, FindIs
      <3> QED
        BY <3>1 DEF Worth
    <2> QED
      BY <2>1, <2>2
  <1>17. p \notin Inside(k, at) /\ p \notin Inside(r, bt)
    BY <1>12 DEF Inside
  <1>18. Token(r, bt, m, fl)
    BY <1>1, <1>6, <1>12, <1>14, <1>15, <1>16, <1>17, TokenStays
  <1> QED
    BY <1>11, <1>18 DEF bt

\* A process that has nothing open ends.
LEMMA DeathTeam ==
    ASSUME NEW k, NEW at, Kept(k, at), NEW m, Team(k, at, m), NEW fl, Token(k, at, m, fl),
           NEW p \in Pids, at[p] \in {"spawn", "exit"}, k.procs[p].state = "READY", NEW r,
           r = sem_cleanup_for_process(k, p)
    PROVE  Team(r, [at EXCEPT ![p] = "done"], m) /\ Token(r, [at EXCEPT ![p] = "done"], m, fl)
  <1> DEFINE bt == [at EXCEPT ![p] = "done"]
  <1>1. /\ k \in Tables /\ OneName(k) /\ at \in [Pids -> Places]
        /\ Lines(k) /\ Counted(k) /\ Waiters(k) /\ Player(k, p, at[p], m)
        /\ \A j \in Open(k) : k.sems[j].name \in {empty(m), fullsem(m)}
    BY DEF Kept, Team
  <1>2. k.procs[p].opened = {} /\ k.procs[p].held = {} /\ Mine(p) = m
    BY <1>1 DEF Player, Outside
  <1>3. Lines(r) /\ Counted(r) /\ Waiters(r)
    BY <1>1, DeathLines, DeathCounted, DeathWaiters
  <1>4. DeathStep(k, r, p)
    BY <1>1, DeathIs
  <1>5. \A q \in Pids : ~Heir(k, p, q)
    BY <1>2 DEF Heir, Bequeaths, Holds
  <1>6. /\ r \in Tables /\ \A q \in Pids \ {p} : r.procs[q] = k.procs[q]
        /\ PCBIs(r.procs[p], "FREE", {}, {}, NULL)
    BY <1>4, <1>5 DEF DeathStep
  <1>7. ASSUME NEW j \in Sems
        PROVE  /\ j \in Open(k) => /\ j \in Open(r) /\ r.sems[j].name = k.sems[j].name
                                   /\ r.sems[j].value = k.sems[j].value
               /\ j \notin Open(k) => j \notin Open(r)
    <2>1. CASE j \in Open(k)
      <3>1. references(k, p, j) = k.sems[j].open_count /\ k.sems[j].open_count > 0
            /\ k.sems[j].open_count \in Nat
        BY <1>1, <1>2, <2>1 DEF references, Open, Tables, Semaphore
      <3>2. ~Queued(k.sems[j], p)
        BY <1>1, RunnerNotInLine DEF Queued
      <3>3. left_value(k, p, j) = k.sems[j].value
        BY <1>2, <3>2 DEF left_value
      <3>4. SlotIs(r.sems[j], k.sems[j].name, left_value(k, p, j), k.sems[j].initial,
                   left_line(k, p, j), references(k, p, j))
        BY <1>4, <2>1, <3>1 DEF DeathStep
      <3> QED
        BY <2>1, <3>1, <3>3, <3>4 DEF SlotIs, Open
    <2>2. CASE j \notin Open(k)
      <3>1. r.sems[j] = FreeSem
        BY <1>4, <2>2 DEF DeathStep
      <3> QED
        BY <2>2, <3>1, FreeSemType DEF Open
    <2> QED
      BY <2>1, <2>2
  <1>8. Open(r) = Open(k) /\ \A j \in Open(k) : j \in Sems
    BY <1>7 DEF Open
  <1>9. \A n : find_sem(r, n) = find_sem(k, n)
    BY <1>7, <1>8, SameFind
  <1>10. OneName(r)
    BY <1>1, <1>7, <1>8 DEF OneName
  <1>11. \A n : find_sem(k, n) # NULL => find_sem(k, n) \in Open(k)
    BY <1>1, FindIs
  <1>12. \A n, v : Worth(r, n, v) = Worth(k, n, v)
    BY <1>7, <1>8, <1>9, <1>11 DEF Worth
  <1>13. Player(r, p, "done", m)
    BY <1>2, <1>6 DEF Player, PCBIs, Outside, Half, Both
  <1>14. Team(r, bt, m)
    <2>1. \A q \in Pids \ {p} : Stirred(k.procs[q], r.procs[q])
      BY <1>6 DEF Stirred
    <2>2. \A j \in Open(k) : j \in Open(r) => r.sems[j].name = k.sems[j].name
      BY <1>7, <1>8
    <2>3. \A j \in Open(r) : r.sems[j].name \in {empty(m), fullsem(m)}
      BY <1>1, <1>7, <1>8
    <2> QED
      BY <1>1, <1>3, <1>6, <1>10, <1>13, <2>1, <2>2, <2>3, TeamAfter
  <1>15. bt[p] = "done" /\ \A q \in Participants \ {p} : bt[q] = at[q] /\ q \in Pids
    BY <1>1, ParticipantsArePids
  <1> HIDE DEF bt
  <1>16. p \notin Inside(k, at) /\ p \notin Inside(r, bt)
    BY <1>15 DEF Inside
  <1>17. Token(r, bt, m, fl)
    BY <1>6, <1>12, <1>15, <1>16, TokenStays
  <1> QED
    BY <1>14, <1>17 DEF bt

\* The table of MVars: nothing is in use before the one `mvar' has its slot, and
\* only that slot afterwards, which everybody has found that is at the buffer.
Board(m) ==
    /\ umvar_table \in [MVars -> [name : Instances \cup {NONE}, in_use : BOOLEAN,
                                  value : Pids \cup {EMPTY}]]
    /\ mv \in [Pids -> MVars \cup {NULL}] /\ full \in [Instances -> BOOLEAN]
    /\ pc[Command(m)] \in {"unborn", "create", "claim", "spawn", "done"}
    /\ pc[Command(m)] \in {"unborn", "create", "claim"} =>
          /\ \A j \in MVars : ~umvar_table[j].in_use
          /\ \A p \in Participants : pc[p] = "unborn"
          /\ ~full[m]
    /\ pc[Command(m)] = "claim" => mv[Command(m)] \in MVars
    /\ pc[Command(m)] \in {"spawn", "done"} =>
          \E i \in MVars :
             /\ \A j \in MVars : umvar_table[j].in_use <=> j = i
             /\ umvar_table[i].name = m
             /\ \A p \in Participants : pc[p] \in {"wait", "access", "post"} => mv[p] = i
             /\ full[m] => umvar_table[i].value # EMPTY

\* Only MVar m is used, and nobody has been killed.
Alone(m) == /\ \A c \in cast.who : Mine(c) = m
            /\ \A p \in Participants : pc[p] # "killed"

Lone(m) == Team(Kernel, pc, m) /\ Token(Kernel, pc, m, full[m]) /\ Board(m)

BInv == \A m \in Instances : Alone(m) => Lone(m)

\* The first of some slots is one of them.
LEMMA FirstSlot ==
    ASSUME NEW S \in SUBSET MVars, S # {}
    PROVE  First(S) \in S
  <1>1. S \subseteq Nat
    BY MVarAssumption DEF MVars
  <1>2. \E i \in S : \A j \in S : i <= j
    BY <1>1, LeastNat
  <1> QED
    BY <1>2 DEF First

\* find_umvar finds the one slot in use.
LEMMA FindSlot ==
    ASSUME NEW m, NEW i \in MVars, \A j \in MVars : umvar_table[j].in_use <=> j = i,
           umvar_table[i].name = m
    PROVE  find_umvar(m) = i /\ i # NULL
  <1> DEFINE found == {j \in MVars : umvar_table[j].in_use /\ umvar_table[j].name = m}
  <1>1. found = {i}
    OBVIOUS
  <1>2. First({i}) \in {i}
    BY FirstSlot
  <1>3. i # NULL
    BY MVarAssumption DEF MVars, NULL
  <1> QED
    BY <1>1, <1>2, <1>3 DEF find_umvar

\* Before a step of an MVar alone it was alone.
LEMMA AloneBefore ==
    ASSUME NInv, NEW p \in Pids, Step(p) \/ kill(p), NEW m, Alone(m)'
    PROVE  Alone(m) /\ Step(p) /\ cast' = cast
  <1>1. pc \in [Pids -> Places] /\ Participants \subseteq Pids
        /\ cast.killed \subseteq Participants /\ cast.who \subseteq Participants
    BY ParticipantsArePids, MVarAssumption DEF NInv, Kept
  <1>2. ~kill(p)
    BY <1>1 DEF kill, Alone
  <1>3. cast' = cast /\ \E q \in Pids : \E to : pc[q] # "killed" /\ pc' = [pc EXCEPT ![q] = to]
    <2>1. CASE spawn(p)
      BY <1>1, <2>1 DEF spawn
    <2>2. CASE ~spawn(p)
      <3>1. cast' = cast
        BY <1>2, <2>2 DEF Step, create, reclaim_e, reclaim_f, claim, command_exit, open_e, open_f,
              undo_e, find, wait, put, take, post, close_e, close_f, exit
      <3>2. \E from, to : from # "killed" /\ Goto(p, from, to)
        BY <1>2, <2>2 DEF Step, create, reclaim_e, reclaim_f, claim, command_exit, open_e, open_f,
              undo_e, find, wait, put, take, post, close_e, close_f, exit
      <3> QED
        BY <3>1, <3>2 DEF Goto
    <2> QED
      BY <2>1, <2>2
  <1>4. \A q \in Participants : pc[q] = "killed" => pc'[q] = "killed"
    BY <1>1, <1>3
  <1> QED
    BY <1>2, <1>3, <1>4 DEF Alone

\* A participant goes on, and does not come to the buffer.
LEMMA BoardStays ==
    ASSUME NInv, NEW m \in Instances, Board(m), NEW p \in Participants, pc[p] # "unborn",
           NEW to, pc' = [pc EXCEPT ![p] = to],
           to \in {"wait", "access", "post"} => pc[p] \in {"wait", "access", "post"},
           UNCHANGED <<umvar_table, mv, full>>
    PROVE  Board(m)'
  <1>1. pc \in [Pids -> Places] /\ p \in Pids /\ Command(m) \in Pids /\ p # Command(m)
    BY ParticipantsArePids DEF NInv, Kept
  <1>2. pc'[Command(m)] = pc[Command(m)] /\ pc[Command(m)] \in {"spawn", "done"}
    BY <1>1 DEF Board
  <1>3. PICK i \in MVars :
             /\ \A j \in MVars : umvar_table[j].in_use <=> j = i
             /\ umvar_table[i].name = m
             /\ \A q \in Participants : pc[q] \in {"wait", "access", "post"} => mv[q] = i
             /\ full[m] => umvar_table[i].value # EMPTY
    BY <1>2 DEF Board
  <1>4. \A q \in Participants : pc'[q] \in {"wait", "access", "post"} => mv[q] = i
    BY <1>1, <1>3, ParticipantsArePids
  <1> QED
    BY <1>2, <1>3, <1>4 DEF Board

\* Who is at a place of its own.
LEMMA WhoIsWhere ==
    ASSUME NInv, NEW m \in Instances, Team(Kernel, pc, m), NEW p \in Pids, pc[p] # "unborn"
    PROVE  /\ Mine(p) = m /\ pc[p] \in Outside \cup Half \cup Both
           /\ p \notin Participants => p = Command(m)
           /\ pc[p] \in CommandPlaces => p = Command(m)
           /\ pc[p] \notin CommandPlaces \cup {"done"} => p \in Participants
  <1>1. Mine(p) = m /\ pc[p] \in Outside \cup Half \cup Both
    BY DEF Team, Player
  <1>2. p \notin Participants => p = Command(m)
    <2> SUFFICES ASSUME p \notin Participants  PROVE p = Command(m)
      OBVIOUS
    <2>1. PICK x \in Instances : p = Command(x)
      BY MVarAssumption
    <2>2. x = m
      BY <1>1, <2>1 DEF Mine, Command
    <2> QED
      BY <2>1, <2>2
  <1>3. /\ pc[p] \in CommandPlaces => p \notin Participants
        /\ p \notin Participants => pc[p] \in CommandPlaces \cup {"unborn", "done"}
    BY DEF NInv, Roles
  <1> QED
    BY <1>1, <1>2, <1>3

\* The steps of the command: it finds a slot, as nobody else has one, and uses
\* it; it starts the participants and ends.
LEMMA CommandLone ==
    ASSUME NInv, NInv', NEW m \in Instances, Alone(m), Lone(m), NEW p \in Pids,
           create(p) \/ reclaim_e(p) \/ reclaim_f(p) \/ claim(p) \/ spawn(p) \/ command_exit(p)
    PROVE  Lone(m)'
  <1>1. /\ Kept(Kernel, pc) /\ pc \in [Pids -> Places] /\ cast.who \subseteq Participants
        /\ Team(Kernel, pc, m) /\ Token(Kernel, pc, m, full[m]) /\ Board(m)
        /\ Kept(Kernel', pc') /\ Kernel \in Tables /\ Kernel.procs = process
        /\ Participants \subseteq Pids /\ Command(m) \in Pids /\ Command(m) \notin Participants
    BY ParticipantsArePids, MVarAssumption DEF NInv, Kept, Lone, Kernel
  <1>2. /\ pc[p] \in CommandPlaces /\ pc[p] # "unborn" /\ process[p].state = "READY"
        /\ reclaim_e(p) \/ reclaim_f(p) => pc[p] \in {"reclaim_e", "reclaim_f"}
    BY DEF create, reclaim_e, reclaim_f, claim, spawn, command_exit, Goto, CommandPlaces, Runs,
           my_sem_close, sys_sem_close, Missing
  <1>3. p = Command(m) /\ Mine(p) = m /\ pc[p] \in Outside \cup Half \cup Both
    BY <1>1, <1>2, WhoIsWhere
  <1>4. Player(Kernel, p, pc[p], m)
    BY <1>1 DEF Team
  <1>5. CASE create(p)
    <2> DEFINE unused == {i \in MVars : ~umvar_table[i].in_use}
    <2>1. pc[p] = "create"
      BY <1>5 DEF create, Goto
    <2>2. unused = MVars /\ MVars # {}
      BY <1>1, <1>3, <2>1, MVarAssumption DEF Board, MVars
    <2>3. /\ pc' = [pc EXCEPT ![p] = "claim"] /\ mv' = [mv EXCEPT ![p] = First(MVars)]
          /\ UNCHANGED <<vars, umvar_table, full>>
      BY <1>5, <2>2 DEF create, Goto
    <2>4. First(MVars) \in MVars
      BY <2>2, FirstSlot
    <2>5. Player(Kernel, p, "claim", m)
      BY <1>3, <1>4, <2>1 DEF Player, Outside, Half, Both
    <2>6. Kernel' = Kernel /\ full' = full
      BY <2>3 DEF vars, Kernel
    <2>7. Team(Kernel, pc', m) /\ Token(Kernel, pc', m, full[m])
      BY <1>1, <2>1, <2>3, <2>5, UserTeam
    <2>8. Board(m)'
      BY <1>1, <1>3, <2>1, <2>3, <2>4 DEF Board
    <2> QED
      BY <2>6, <2>7, <2>8 DEF Lone
  <1>6. CASE reclaim_e(p) \/ reclaim_f(p)
    BY <1>2, <1>3, <1>6 DEF Outside, Half, Both
  <1>7. CASE claim(p)
    <2>1. /\ pc[p] = "claim" /\ pc' = [pc EXCEPT ![p] = "spawn"]
          /\ umvar_table' = [umvar_table EXCEPT ![mv[p]] =
                               [name |-> m, in_use |-> TRUE, value |-> EMPTY]]
          /\ UNCHANGED <<vars, mv, full>>
      BY <1>3, <1>7 DEF claim, Goto
    <2>2. Player(Kernel, p, "spawn", m)
      BY <1>3, <1>4, <2>1 DEF Player, Outside, Half, Both
    <2>3. Kernel' = Kernel /\ full' = full
      BY <2>1 DEF vars, Kernel
    <2>4. Team(Kernel, pc', m) /\ Token(Kernel, pc', m, full[m])
      BY <1>1, <2>1, <2>2, UserTeam
    <2>5. /\ \A j \in MVars : ~umvar_table[j].in_use
          /\ \A q \in Participants : pc[q] = "unborn"
          /\ ~full[m] /\ mv[p] \in MVars
      BY <1>1, <1>3, <2>1 DEF Board
    <2> DEFINE i == mv[p]
               T == [name : Instances \cup {NONE}, in_use : BOOLEAN, value : Pids \cup {EMPTY}]
               s == [name |-> m, in_use |-> TRUE, value |-> EMPTY]
    <2>6. umvar_table \in [MVars -> T] /\ s \in T /\ umvar_table' = [umvar_table EXCEPT ![i] = s]
      BY <1>1, <2>1 DEF Board
    <2>7. umvar_table' \in [MVars -> T] /\ umvar_table'[i] = s
          /\ \A j \in MVars \ {i} : umvar_table'[j] = umvar_table[j]
      <3> HIDE DEF T, s, i
      <3> QED
        BY <2>5, <2>6 DEF i
    <2>8. s.in_use /\ s.name = m
      OBVIOUS
    <2>9. (\A j \in MVars : umvar_table'[j].in_use <=> j = i) /\ umvar_table'[i].name = m
      BY <2>5, <2>7, <2>8
    <2>10. \A q \in Participants : pc'[q] = "unborn"
      BY <1>1, <1>3, <2>1, <2>5
    <2>11. pc'[Command(m)] = "spawn"
      BY <1>1, <1>3, <2>1
    <2>12. /\ umvar_table' \in [MVars -> [name : Instances \cup {NONE}, in_use : BOOLEAN,
                                          value : Pids \cup {EMPTY}]]
           /\ mv' \in [Pids -> MVars \cup {NULL}] /\ full' \in [Instances -> BOOLEAN]
      BY <1>1, <2>1, <2>7 DEF Board
    <2>13. Board(m)'
      <3> HIDE DEF T, s, i
      <3>1. i \in MVars /\ full' = full
        BY <2>3, <2>5 DEF i
      <3> QED
        BY <2>5, <2>9, <2>10, <2>11, <2>12, <3>1 DEF Board
    <2> QED
      BY <2>3, <2>4, <2>13 DEF Lone
  <1>8. CASE spawn(p)
    <2>1. PICK c \in cast.who : pc[c] = "unborn" /\ pc' = [pc EXCEPT ![c] = "open_e"]
      BY <1>8 DEF spawn
    <2>2. pc[p] = "spawn" /\ UNCHANGED <<vars, umvar_table, mv, full>>
      BY <1>8 DEF spawn
    <2>3. c \in Participants /\ c \in Pids /\ Mine(c) = m /\ c # p
      BY <1>1, <1>3 DEF Alone
    <2>4. Player(Kernel, c, "open_e", m)
      BY <1>1, <2>1, <2>3 DEF Team, Player, Outside, Half, Both
    <2>5. Kernel' = Kernel /\ full' = full
      BY <2>2 DEF vars, Kernel
    <2>6. Team(Kernel, pc', m) /\ Token(Kernel, pc', m, full[m])
      BY <1>1, <2>1, <2>3, <2>4, UserTeam
    <2>7. Board(m)'
      <3>1. pc'[Command(m)] = "spawn"
        BY <1>1, <1>3, <2>1, <2>2, <2>3
      <3>2. \A q \in Participants : pc'[q] \in {"wait", "access", "post"} =>
                                    pc[q] \in {"wait", "access", "post"}
        BY <1>1, <2>1
      <3> QED
        BY <1>1, <1>3, <2>2, <3>1, <3>2 DEF Board
    <2> QED
      BY <2>5, <2>6, <2>7 DEF Lone
  <1>9. CASE command_exit(p)
    <2> DEFINE r == sem_cleanup_for_process(Kernel, p)
    <2>1. /\ pc[p] = "spawn" /\ pc' = [pc EXCEPT ![p] = "done"] /\ Store(r)
          /\ UNCHANGED <<umvar_table, mv, full>>
      BY <1>9 DEF command_exit, Goto, Die
    <2>2. Team(r, pc', m) /\ Token(r, pc', m, full[m])
      BY <1>1, <1>2, <2>1, DeathTeam
    <2>3. Kernel' = r
      <3>1. r \in Tables
        BY <1>1, CleanupIs DEF CleanupStep
      <3> QED
        BY <2>1, <3>1, Stored
    <2>4. Board(m)'
      <3>1. pc'[Command(m)] = "done" /\ pc[Command(m)] = "spawn"
        BY <1>1, <1>3, <2>1
      <3>2. \A q \in Participants : pc'[q] = pc[q]
        BY <1>1, <1>3, <2>1
      <3> QED
        BY <1>1, <2>1, <3>1, <3>2 DEF Board
    <2> HIDE DEF r
    <2> QED
      BY <2>1, <2>2, <2>3, <2>4 DEF Lone
  <1> QED
    BY <1>5, <1>6, <1>7, <1>8, <1>9

\* The steps of a participant.
LEMMA ParticipantLone ==
    ASSUME NInv, NInv', NEW m \in Instances, Alone(m), Lone(m), NEW p \in Pids,
           \/ open_e(p) \/ open_f(p) \/ undo_e(p) \/ find(p) \/ wait(p) \/ put(p) \/ take(p)
           \/ post(p) \/ close_e(p) \/ close_f(p) \/ exit(p)
    PROVE  Lone(m)'
  <1>1. /\ Kept(Kernel, pc) /\ pc \in [Pids -> Places] /\ Roles(pc)
        /\ Team(Kernel, pc, m) /\ Token(Kernel, pc, m, full[m]) /\ Board(m)
        /\ Kept(Kernel', pc') /\ Kernel \in Tables /\ OneName(Kernel) /\ OneName(Kernel')
        /\ Kernel.procs = process /\ Kernel.sems = sem_table
        /\ Participants \subseteq Pids /\ Command(m) \in Pids /\ Command(m) \notin Participants
    BY ParticipantsArePids DEF NInv, Kept, Lone, Kernel
  <1>2. /\ pc[p] \in {"open_e", "open_f", "undo_e", "find", "wait", "access", "post", "close_e",
                      "close_f", "exit"}
        /\ process[p].state = "READY"
    BY DEF open_e, open_f, undo_e, find, wait, put, take, post, close_e, close_f, exit, Goto, Runs,
           my_sem_close, sys_sem_close, Missing, sys_sem_open, TableFull, my_sem_wait,
           sys_sem_wait, my_sem_post, sys_sem_post
  <1>3. p \in Participants /\ Mine(p) = m /\ pc[p] \in Outside \cup Half \cup Both
    BY <1>1, <1>2, WhoIsWhere DEF CommandPlaces
  <1>4. Player(Kernel, p, pc[p], m) /\ pc[p] # "unborn"
    BY <1>1, <1>2 DEF Team
  <1>5. CASE open_e(p) \/ open_f(p)
    <2>1. UNCHANGED <<umvar_table, mv, full>>
      BY <1>5 DEF open_e, open_f
    <2>2. PICK n, v, to : /\ \/ pc[p] = "open_e" /\ n = empty(m) /\ v = 1 /\ to \in {"open_f", "exit"}
                             \/ pc[p] = "open_f" /\ n = fullsem(m) /\ v = 0 /\ to \in {"find", "undo_e"}
                          /\ pc' = [pc EXCEPT ![p] = to]
                          /\ \/ sys_sem_open(p, n, v) /\ to \in {"open_f", "find"}
                             \/ TableFull(p, n) /\ to \in {"exit", "undo_e"}
      BY <1>3, <1>5 DEF open_e, open_f, Goto
    <2>3. Board(m)'
      BY <1>1, <1>3, <1>4, <2>1, <2>2, BoardStays
    <2>4. CASE sys_sem_open(p, n, v) /\ to \in {"open_f", "find"}
      <3> DEFINE r == sem_open(Kernel, p, n, v)
      <3>1. Store(r) /\ (find_sem(Kernel, n) # NULL \/ FreeSlots(Kernel) # {})
        BY <2>4 DEF sys_sem_open
      <3>2. n \in Names /\ v \in InitialValues
        BY <1>3, <2>2, NameParts, MVarAssumption DEF empty, fullsem
      <3>3. Kernel' = r
        <4>1. r \in Tables
          BY <1>1, <3>1, <3>2, OpenIs DEF OpenStep, Only
        <4> HIDE DEF r
        <4> QED
          BY <3>1, <4>1, Stored
      <3>4. \/ pc[p] = "open_e" /\ n = empty(m) /\ v = 1 /\ to = "open_f"
            \/ pc[p] = "open_f" /\ n = fullsem(m) /\ v = 0 /\ to = "find"
        BY <2>2, <2>4
      <3>5. Team(r, pc', m) /\ Token(r, pc', m, full[m])
        BY <1>1, <1>2, <1>3, <2>2, <3>1, <3>3, <3>4, OpenTeam
      <3> HIDE DEF r
      <3> QED
        BY <2>1, <2>3, <3>3, <3>5 DEF Lone
    <2>5. CASE TableFull(p, n) /\ to \in {"exit", "undo_e"}
      <3>1. find_sem(Kernel, n) = NULL /\ FreeSlots(Kernel) = {} /\ UNCHANGED vars
        BY <2>5 DEF TableFull
      <3>2. Kernel' = Kernel
        BY <3>1 DEF vars, Kernel
      <3>3. Player(Kernel, p, to, m)
        <4>1. CASE pc[p] = "open_e"
          BY <1>3, <1>4, <2>2, <2>5, <4>1 DEF Player, Outside, Half, Both
        <4>2. CASE pc[p] = "open_f"
          <5> DEFINE e == find_sem(Kernel, empty(m))
          <5>1. to = "undo_e" /\ n = fullsem(m)
            BY <2>2, <2>5, <4>2
          <5>2. e # NULL /\ e \in Open(Kernel) /\ e \in Sems /\ Kernel.sems[e].name = empty(m)
            BY <1>1, <1>4, <4>2, FindIs, OpenNotNull DEF Player, Half
          <5>3. Sems = Open(Kernel)
            BY <3>1 DEF FreeSlots, Open
          <5>4. \A j \in Open(Kernel) : j = e
            <6> SUFFICES ASSUME NEW j \in Open(Kernel)  PROVE j = e
              OBVIOUS
            <6>1. Kernel.sems[j].name # fullsem(m)
              BY <1>1, <3>1, <5>1, FindIs, OpenNotNull
            <6>2. Kernel.sems[j].name = empty(m)
              BY <1>1, <6>1 DEF Team
            <6> QED
              BY <1>1, <6>2, FindIs
          <5>5. Sems = {e}
            BY <5>2, <5>3, <5>4
          <5> QED
            BY <1>3, <1>4, <4>2, <5>1, <5>5 DEF Player, Outside, Half, Both
        <4> QED
          BY <2>2, <4>1, <4>2
      <3>4. Team(Kernel, pc', m) /\ Token(Kernel, pc', m, full[m])
        BY <1>1, <2>2, <2>5, <3>3, UserTeam
      <3> QED
        BY <2>1, <2>3, <3>2, <3>4 DEF Lone
    <2> QED
      BY <2>2, <2>4, <2>5
  <1>6. CASE undo_e(p)
    <2> DEFINE i == find_sem(Kernel, empty(m))
               r == sem_close(Kernel, p, i)
    <2>1. /\ pc[p] = "undo_e" /\ pc' = [pc EXCEPT ![p] = "exit"] /\ my_sem_close(p, empty(m))
          /\ UNCHANGED <<umvar_table, mv, full>>
      BY <1>3, <1>6 DEF undo_e, Goto
    <2>2. i # NULL
      BY <1>4, <2>1 DEF Player, Half
    <2>3. i \in Open(Kernel)
      BY <1>1, <2>2, FindIs
    <2>4. Store(r)
      BY <2>1, <2>2 DEF my_sem_close, Missing, sys_sem_close
    <2>5. Kernel' = r
      <3>1. r \in Tables
        BY <1>1, <2>3, CloseIs DEF CloseStep, Only
      <3> HIDE DEF r
      <3> QED
        BY <2>4, <3>1, Stored
    <2>6. Team(r, pc', m) /\ Token(r, pc', m, full[m])
      BY <1>1, <1>2, <1>3, <2>1, <2>5, UndoTeam
    <2>7. Board(m)'
      BY <1>1, <1>3, <1>4, <2>1, BoardStays
    <2> HIDE DEF r
    <2> QED
      BY <2>1, <2>5, <2>6, <2>7 DEF Lone
  <1>7. CASE find(p)
    <2>1. /\ pc[p] = "find" /\ UNCHANGED <<vars, umvar_table, full>>
          /\ pc' = [pc EXCEPT ![p] = IF find_umvar(m) = NULL THEN "close_e" ELSE "wait"]
          /\ mv' = [mv EXCEPT ![p] = find_umvar(m)]
      BY <1>3, <1>7 DEF find, Goto
    <2>2. pc[Command(m)] \in {"spawn", "done"}
      BY <1>1, <1>3, <1>4 DEF Board
    <2>3. PICK i \in MVars :
             /\ \A j \in MVars : umvar_table[j].in_use <=> j = i
             /\ umvar_table[i].name = m
             /\ \A q \in Participants : pc[q] \in {"wait", "access", "post"} => mv[q] = i
             /\ full[m] => umvar_table[i].value # EMPTY
      BY <1>1, <2>2 DEF Board
    <2>4. find_umvar(m) = i /\ i # NULL
      BY <2>3, FindSlot
    <2>5. pc' = [pc EXCEPT ![p] = "wait"] /\ mv' = [mv EXCEPT ![p] = i]
      BY <2>1, <2>4
    <2>6. Player(Kernel, p, "wait", m)
      BY <1>3, <1>4, <2>1 DEF Player, Outside, Half, Both
    <2>7. Kernel' = Kernel /\ full' = full
      BY <2>1 DEF vars, Kernel
    <2>8. Team(Kernel, pc', m) /\ Token(Kernel, pc', m, full[m])
      <3>1. pc[p] \notin {"access", "post"}
        BY <2>1
      <3>2. Team(Kernel, [pc EXCEPT ![p] = "wait"], m) /\ Token(Kernel, [pc EXCEPT ![p] = "wait"], m, full[m])
        BY <1>1, <2>6, <3>1, UserTeam
      <3> QED
        BY <2>5, <3>2, Zenon
    <2>9. Board(m)'
      <3>1. pc'[Command(m)] = pc[Command(m)]
        BY <1>1, <1>3, <2>5
      <3>2. mv' \in [Pids -> MVars \cup {NULL}]
        BY <1>1, <2>5 DEF Board
      <3>3. \A q \in Participants : pc'[q] \in {"wait", "access", "post"} => mv'[q] = i
        BY <1>1, <2>3, <2>5 DEF Board
      <3> QED
        BY <1>1, <2>1, <2>2, <2>3, <3>1, <3>2, <3>3 DEF Board
    <2> QED
      BY <2>7, <2>8, <2>9 DEF Lone
  <1>8. CASE wait(p)
    <2> DEFINE i == find_sem(Kernel, wanted(p, m))
               r == sem_wait(Kernel, p, i)
    <2>1. /\ pc[p] = "wait" /\ pc' = [pc EXCEPT ![p] = "access"]
          /\ my_sem_wait(p, wanted(p, m)) /\ UNCHANGED <<umvar_table, mv, full>>
      BY <1>3, <1>8 DEF wait, Goto, wanted
    <2>2. i # NULL /\ i \in Sems
      BY <1>1, <1>3, <2>1, BothOpen, TwoNames DEF Both
    <2>3. Store(r)
      BY <2>1, <2>2 DEF my_sem_wait, Missing, sys_sem_wait
    <2>4. Kernel' = r
      <3>1. r \in Tables
        BY <1>1, <2>2, WaitIs DEF WaitStep, Only
      <3> HIDE DEF r
      <3> QED
        BY <2>3, <3>1, Stored
    <2>5. Team(r, pc', m) /\ Token(r, pc', m, full[m])
      BY <1>1, <1>2, <1>3, <2>1, WaitTeam
    <2>6. Board(m)'
      BY <1>1, <1>3, <1>4, <2>1, BoardStays
    <2> HIDE DEF r
    <2> QED
      BY <2>1, <2>4, <2>5, <2>6 DEF Lone
  <1>9. CASE put(p) \/ take(p)
    <2>1. /\ pc[p] = "access" /\ pc' = [pc EXCEPT ![p] = "post"] /\ UNCHANGED <<vars, mv>>
          /\ full' = [full EXCEPT ![m] = (p[2] = "writer")]
          /\ \/ p[2] = "writer" /\ umvar_table' = [umvar_table EXCEPT ![mv[p]].value = p]
             \/ p[2] # "writer" /\ umvar_table' = umvar_table
      BY <1>3, <1>9 DEF put, take, Goto
    <2>2. full \in [Instances -> BOOLEAN] /\ full'[m] = (p[2] = "writer")
          /\ full' \in [Instances -> BOOLEAN]
      BY <1>1, <2>1 DEF Board
    <2>3. Team(Kernel, pc', m) /\ Token(Kernel, pc', m, full'[m])
      BY <1>1, <1>2, <1>3, <2>1, <2>2, AccessTeam
    <2>4. Kernel' = Kernel
      BY <2>1 DEF vars, Kernel
    <2>5. pc[Command(m)] \in {"spawn", "done"} /\ pc'[Command(m)] = pc[Command(m)]
      BY <1>1, <1>3, <1>4, <2>1 DEF Board
    <2>6. PICK i \in MVars :
             /\ \A j \in MVars : umvar_table[j].in_use <=> j = i
             /\ umvar_table[i].name = m
             /\ \A q \in Participants : pc[q] \in {"wait", "access", "post"} => mv[q] = i
             /\ full[m] => umvar_table[i].value # EMPTY
      BY <1>1, <2>5 DEF Board
    <2>7. mv[p] = i
      BY <1>3, <2>1, <2>6
    <2> DEFINE T == [name : Instances \cup {NONE}, in_use : BOOLEAN, value : Pids \cup {EMPTY}]
    <2>8. /\ umvar_table' \in [MVars -> T]
          /\ \A j \in MVars : umvar_table'[j].in_use <=> umvar_table[j].in_use
          /\ umvar_table'[i].name = umvar_table[i].name
          /\ p[2] = "writer" => umvar_table'[i].value = p
      <3>1. umvar_table \in [MVars -> T] /\ p \in Pids \cup {EMPTY}
        BY <1>1 DEF Board
      <3>2. CASE p[2] # "writer"
        BY <2>1, <3>1, <3>2
      <3>3. CASE p[2] = "writer"
        <4> DEFINE s == [umvar_table[i] EXCEPT !.value = p]
        <4>1. s \in T /\ s.in_use = umvar_table[i].in_use /\ s.name = umvar_table[i].name
              /\ s.value = p
          BY <3>1
        <4>2. umvar_table' = [umvar_table EXCEPT ![i] = s]
          BY <2>1, <2>7, <3>3
        <4> HIDE DEF s, T
        <4> QED
          BY <3>1, <3>3, <4>1, <4>2
      <3> QED
        BY <3>2, <3>3
    <2>9. p # EMPTY
      BY <1>3, MVarAssumption DEF EMPTY
    <2>10. full'[m] => umvar_table'[i].value # EMPTY
      BY <2>2, <2>8, <2>9
    <2>11. \A q \in Participants : pc'[q] \in {"wait", "access", "post"} => mv'[q] = i
      BY <1>1, <2>1, <2>6, <2>7
    <2>12. mv' \in [Pids -> MVars \cup {NULL}]
      BY <1>1, <2>1 DEF Board
    <2>13. Board(m)'
      BY <2>2, <2>5, <2>6, <2>8, <2>10, <2>11, <2>12 DEF Board
    <2> QED
      BY <2>3, <2>4, <2>13 DEF Lone
  <1>10. CASE post(p)
    <2> DEFINE i == find_sem(Kernel, given(p, m))
               r == sem_post(Kernel, p, i)
    <2>1. /\ pc[p] = "post" /\ pc' = [pc EXCEPT ![p] = "find"]
          /\ my_sem_post(p, given(p, m)) /\ UNCHANGED <<umvar_table, mv, full>>
      BY <1>3, <1>10 DEF post, Goto, given
    <2>2. i # NULL /\ i \in Sems
      BY <1>1, <1>3, <2>1, BothOpen DEF Both, given
    <2>3. Store(r)
      BY <2>1, <2>2 DEF my_sem_post, Missing, sys_sem_post
    <2>4. Kernel' = r
      <3>1. r \in Tables
        BY <1>1, <1>3, <2>2, WaitKept
      <3> HIDE DEF r
      <3> QED
        BY <2>3, <3>1, Stored
    <2>5. Team(r, pc', m) /\ Token(r, pc', m, full[m])
      BY <1>1, <1>2, <1>3, <2>1, PostTeam
    <2>6. Board(m)'
      BY <1>1, <1>3, <1>4, <2>1, BoardStays
    <2> HIDE DEF r
    <2> QED
      BY <2>1, <2>4, <2>5, <2>6 DEF Lone
  <1>11. CASE close_e(p) \/ close_f(p)
    <2>1. pc[p] \in {"close_e", "close_f"}
      BY <1>11 DEF close_e, close_f, Goto
    <2> QED
      BY <1>3, <2>1 DEF Outside, Half, Both
  <1>12. CASE exit(p)
    <2> DEFINE r == sem_cleanup_for_process(Kernel, p)
    <2>1. /\ pc[p] = "exit" /\ pc' = [pc EXCEPT ![p] = "done"] /\ Store(r)
          /\ UNCHANGED <<umvar_table, mv, full>>
      BY <1>12 DEF exit, Goto, Die
    <2>2. Team(r, pc', m) /\ Token(r, pc', m, full[m])
      BY <1>1, <1>2, <2>1, DeathTeam
    <2>3. Kernel' = r
      <3>1. r \in Tables
        BY <1>1, CleanupIs DEF CleanupStep
      <3> HIDE DEF r
      <3> QED
        BY <2>1, <3>1, Stored
    <2>4. Board(m)'
      BY <1>1, <1>3, <1>4, <2>1, BoardStays
    <2> HIDE DEF r
    <2> QED
      BY <2>1, <2>2, <2>3, <2>4 DEF Lone
  <1> QED
    BY <1>5, <1>6, <1>7, <1>8, <1>9, <1>10, <1>11, <1>12

\* At first there is one token, in "e", which is not open.
LEMMA InitLone == MInit => BInv
  <1> SUFFICES ASSUME MInit, NEW m \in Instances, Alone(m)  PROVE Lone(m)
    BY DEF BInv
  <1>1. /\ Init /\ pc = [p \in Pids |-> IF \E c \in cast.who : p = Command(Mine(c))
                                        THEN "create" ELSE "unborn"]
        /\ umvar_table = [i \in MVars |-> [name |-> NONE, in_use |-> FALSE, value |-> EMPTY]]
        /\ mv = [p \in Pids |-> NULL] /\ full = [x \in Instances |-> FALSE]
        /\ cast.who \subseteq Participants
    BY MVarAssumption DEF MInit
  <1>2. NInv /\ Kernel \in Tables /\ OneName(Kernel) /\ Roles(pc)
    BY InitKept DEF NInv, Kept
  <1>3. Open(Kernel) = {}
    BY <1>1, FreeSemType DEF Init, Open, Kernel
  <1>4. \A n : find_sem(Kernel, n) = NULL
    BY <1>3 DEF find_sem
  <1>5. Lines(Kernel) /\ Counted(Kernel) /\ Waiters(Kernel)
    BY <1>1, InitLines, InitCounted, InitWaiters
  <1>6. ASSUME NEW p \in Pids  PROVE Player(Kernel, p, pc[p], m)
    <2>1. pc[p] \in {"create", "unborn"}
      BY <1>1
    <2>2. Kernel.procs[p].state = "READY" /\ Kernel.procs[p].opened = {} /\ Kernel.procs[p].held = {}
      BY <1>1 DEF Init, Kernel
    <2>3. pc[p] # "unborn" => Mine(p) = m
      <3> SUFFICES ASSUME pc[p] # "unborn"  PROVE Mine(p) = m
        OBVIOUS
      <3>1. PICK c \in cast.who : p = Command(Mine(c))
        BY <1>1
      <3>2. Mine(c) = m
        BY DEF Alone
      <3> QED
        BY <3>1, <3>2 DEF Command, Mine
    <2> QED
      BY <2>1, <2>2, <2>3 DEF Player, Outside, Half, Both
  <1>7. Team(Kernel, pc, m)
    BY <1>3, <1>5, <1>6 DEF Team
  <1>8. Inside(Kernel, pc) = {}
    BY <1>1, ParticipantsArePids DEF Inside
  <1>9. Token(Kernel, pc, m, full[m])
    BY <1>1, <1>4, <1>8 DEF Token, Worth
  <1>10. Board(m)
    <2>1. \A p \in Participants : pc[p] = "unborn"
      BY <1>1, <1>2, ParticipantsArePids DEF Roles, CommandPlaces
    <2>2. pc[Command(m)] \in {"unborn", "create"}
      BY <1>1, ParticipantsArePids
    <2> QED
      BY <1>1, <2>1, <2>2 DEF Board
  <1> QED
    BY <1>7, <1>9, <1>10 DEF Lone

\* While one MVar is alone its table, its participants and the two semaphores
\* fit together, with one token among them, for any number of participants.
THEOREM TokenInvariance == MSpec => []BInv
  <1>1. MInit => BInv
    BY InitLone
  <1>2. NInv /\ NInv' /\ BInv /\ [MNext]_allVars => BInv'
    <2> SUFFICES ASSUME NInv, NInv', BInv, [MNext]_allVars, NEW m \in Instances, Alone(m)'
                 PROVE  Lone(m)'
      BY DEF BInv
    <2>1. CASE MNext
      <3>1. PICK p \in Pids : Step(p) \/ kill(p)
        BY <2>1 DEF MNext
      <3>2. Alone(m) /\ Step(p)
        BY <3>1, AloneBefore
      <3>3. Lone(m)
        BY <3>2 DEF BInv
      <3> QED
        BY <3>2, <3>3, CommandLone, ParticipantLone DEF Step
    <2>2. CASE UNCHANGED allVars
      <3>1. Kernel' = Kernel /\ UNCHANGED <<cast, umvar_table, pc, mv, full>>
        BY <2>2 DEF allVars, userVars, vars, Kernel
      <3>2. Alone(m) /\ Lone(m)
        BY <3>1 DEF Alone, BInv
      <3> QED
        BY <3>1, <3>2 DEF Lone, Board
    <2> QED
      BY <2>1, <2>2
  <1> QED
    BY <1>1, <1>2, MVarCounts, PTL DEF MSpec

\* An MVar that is left alone is a buffer of one, for any number of writers and
\* readers and of slots: no value is overwritten before a reader has taken it,
\* none is taken twice, and one participant at a time is at it.
THEOREM MVarIsBufferOfOne == MSpec => []BufferOfOneUndisturbed
  <1>1. NInv /\ BInv => BufferOfOneUndisturbed
    <2> SUFFICES ASSUME NInv, BInv, Undisturbed, NEW p \in Participants, pc[p] = "access", Runs(p)
                 PROVE  /\ full[Mine(p)] = (p[2] = "reader")
                        /\ p[2] = "reader" => umvar_table[mv[p]].value # EMPTY
                        /\ \A q \in Participants \ {p} :
                              ~(Mine(q) = Mine(p) /\ pc[q] = "access" /\ Runs(q))
      BY DEF BufferOfOneUndisturbed, BufferOfOne
    <2>1. p \in Pids /\ Mine(p) \in Instances /\ cast.who \subseteq Participants
      BY ParticipantsArePids, NameParts, MVarAssumption DEF NInv
    <2>2. Alone(Mine(p))
      <3>1. CASE cast.who = {}
        BY <3>1 DEF Undisturbed, Alone
      <3>2. CASE cast.who # {}
        <4>1. PICK c \in cast.who : TRUE
          BY <3>2
        <4>2. Mine(c) \in Instances /\ Alone(Mine(c))
          BY <2>1, <4>1, NameParts DEF Undisturbed, Alone
        <4>3. Team(Kernel, pc, Mine(c))
          BY <4>2 DEF BInv, Lone
        <4>4. Mine(p) = Mine(c)
          BY <2>1, <4>3 DEF Team, Player
        <4> QED
          BY <4>2, <4>4
      <3> QED
        BY <3>1, <3>2
    <2> DEFINE m == Mine(p)
    <2>3. m \in Instances /\ Token(Kernel, pc, m, full[m]) /\ Board(m) /\ Kernel.procs = process
      BY <2>1, <2>2 DEF BInv, Lone, Kernel
    <2>4. p \in Inside(Kernel, pc)
      BY <2>3 DEF Inside, Runs
    <2> HIDE DEF m
    <2>5. Inside(Kernel, pc) = {p} /\ (full[m] <=> p[2] = "reader")
      BY <2>3, <2>4, InsideHasToken
    <2>6. full[m] \in BOOLEAN
      BY <2>3 DEF Board
    <2>7. \A q \in Participants \ {p} : ~(pc[q] = "access" /\ Runs(q))
      BY <2>3, <2>5 DEF Inside, Runs
    <2>8. p[2] = "reader" => umvar_table[mv[p]].value # EMPTY
      BY <2>3, <2>5 DEF Board
    <2> QED
      BY <2>5, <2>6, <2>7, <2>8 DEF m
  <1> QED
    BY <1>1, MVarCounts, TokenInvariance, PTL
=============================================================================
