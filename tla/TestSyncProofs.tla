--------------------------- MODULE TestSyncProofs ---------------------------
(***************************************************************************)
(* test_sync loses no update (module TestSync), for any number of children *)
(* and iterations, whoever is killed when.                                 *)
(***************************************************************************)
EXTENDS TestSync, SemaphoresProofs

-----------------------------------------------------------------------------
(***************************************************************************)
(* The sum over the children, for the numbers c of iterations they have    *)
(* made.  It is a fold; the function that the fold defines exists, and a   *)
(* step of one child moves it by what the child adds.  Both by the         *)
(* smallest set of children that would be a counterexample.                *)
(***************************************************************************)
made(c) == FoldSet(LAMBDA p, sum : sum + inc(p) * c[p], 0, Pids)

\* What child p has added.
share(c, p) == inc(p) * c[p]

\* The child that the fold takes next.
pick(s) == CHOOSE p \in s : TRUE

\* f adds up the sets in D the way the fold does.
Adds(c, D, f) ==
    f = [s \in D |-> IF s = {} THEN 0 ELSE f[s \ {pick(s)}] + share(c, pick(s))]

\* The sets of at most n children.
Groups(n) == {s \in SUBSET Pids : Cardinality(s) <= n}

\* made is the value, for all children, of the function that the fold defines.
LEMMA MadeIs ==
    ASSUME NEW c
    PROVE  made(c) = (CHOOSE f : Adds(c, SUBSET Pids, f))[Pids]
  BY DEF made, FoldSet, MapThenFoldSet, Adds, pick, share

\* A child adds or takes away.
LEMMA ShareIs ==
    ASSUME NEW c \in [Pids -> Nat], NEW p \in Pids
    PROVE  share(c, p) \in Int /\ inc(p) \in Int /\ inc(p) * (c[p] + 1) = share(c, p) + inc(p)
  <1>1. c[p] \in Nat
    OBVIOUS
  <1> QED
    BY <1>1 DEF share, inc

\* The fold takes a child of the set and leaves a smaller set.
LEMMA PickLess ==
    ASSUME NEW s \in SUBSET Pids, s # {}
    PROVE  /\ pick(s) \in s /\ pick(s) \in Pids /\ s \ {pick(s)} \in SUBSET Pids
           /\ Cardinality(s) \in Nat /\ Cardinality(s) > 0
           /\ Cardinality(s \ {pick(s)}) = Cardinality(s) - 1
  <1>1. pick(s) \in s
    BY DEF pick
  <1>2. IsFiniteSet(s)
    BY FS_Subset, SemaphoresAssumption
  <1>3. Cardinality(s) \in Nat /\ Cardinality(s) # 0
    BY <1>2, FS_CardinalityType, FS_EmptySet
  <1>4. Cardinality(s \ {pick(s)}) = Cardinality(s) - 1
    BY <1>1, <1>2, FS_RemoveElement
  <1> QED
    BY <1>1, <1>3, <1>4

\* A function that adds up the sets of at most n children extends to n + 1.
LEMMA AdderUpTo ==
    ASSUME NEW c \in [Pids -> Nat], NEW n \in Nat,
           NEW f \in [Groups(n) -> Int], Adds(c, Groups(n), f)
    PROVE  \E g \in [Groups(n + 1) -> Int] : Adds(c, Groups(n + 1), g)
  <1> DEFINE D == Groups(n)
             E == Groups(n + 1)
             g == [s \in E |-> IF s = {} THEN 0 ELSE f[s \ {pick(s)}] + share(c, pick(s))]
  <1>1. D \subseteq E
    <2>1. \A s \in SUBSET Pids : Cardinality(s) \in Nat
      BY FS_Subset, FS_CardinalityType, SemaphoresAssumption
    <2> QED
      BY <2>1 DEF Groups
  <1>2. \A s \in E : s # {} => s \ {pick(s)} \in D /\ share(c, pick(s)) \in Int
    <2> SUFFICES ASSUME NEW s \in E, s # {}
                 PROVE  s \ {pick(s)} \in D /\ share(c, pick(s)) \in Int
      OBVIOUS
    <2>1. s \in SUBSET Pids /\ Cardinality(s) <= n + 1
      BY DEF Groups
    <2>2. /\ pick(s) \in Pids /\ s \ {pick(s)} \in SUBSET Pids /\ Cardinality(s) \in Nat
          /\ Cardinality(s \ {pick(s)}) = Cardinality(s) - 1
      BY <2>1, PickLess
    <2>3. share(c, pick(s)) \in Int
      BY <2>2, ShareIs
    <2> QED
      BY <2>1, <2>2, <2>3 DEF Groups
  <1>3. \A s \in D : g[s] = f[s]
    <2> SUFFICES ASSUME NEW s \in D  PROVE g[s] = f[s]
      OBVIOUS
    <2>1. f[s] = IF s = {} THEN 0 ELSE f[s \ {pick(s)}] + share(c, pick(s))
      <3> HIDE DEF D, E, g
      <3> QED
        BY DEF Adds, D
    <2> QED
      BY <2>1, <1>1
  <1>4. g \in [E -> Int]
    <2>1. \A s \in E : (IF s = {} THEN 0 ELSE f[s \ {pick(s)}] + share(c, pick(s))) \in Int
      <3> SUFFICES ASSUME NEW s \in E, s # {}  PROVE f[s \ {pick(s)}] + share(c, pick(s)) \in Int
        OBVIOUS
      <3>1. s \ {pick(s)} \in D /\ share(c, pick(s)) \in Int
        BY <1>2
      <3>2. f[s \ {pick(s)}] \in Int
        BY <3>1
      <3> QED
        BY <3>1, <3>2
    <2> QED
      BY <2>1
  <1>5. Adds(c, E, g)
    <2>1. \A s \in E : g[s] = IF s = {} THEN 0 ELSE g[s \ {pick(s)}] + share(c, pick(s))
      <3> SUFFICES ASSUME NEW s \in E
                   PROVE  g[s] = IF s = {} THEN 0 ELSE g[s \ {pick(s)}] + share(c, pick(s))
        OBVIOUS
      <3>1. g[s] = IF s = {} THEN 0 ELSE f[s \ {pick(s)}] + share(c, pick(s))
        OBVIOUS
      <3>2. s # {} => g[s \ {pick(s)}] = f[s \ {pick(s)}]
        <4> HIDE DEF g, D, E
        <4> QED
          BY <1>2, <1>3
      <3> HIDE DEF g, E
      <3> QED
        BY <3>1, <3>2
    <2>2. g = [s \in E |-> g[s]]
      OBVIOUS
    <2> HIDE DEF g, E
    <2>3. g = [s \in E |-> IF s = {} THEN 0 ELSE g[s \ {pick(s)}] + share(c, pick(s))]
      BY <2>1, <2>2
    <2> QED
      BY <2>3 DEF Adds
  <1> HIDE DEF g
  <1> QED
    BY <1>4, <1>5

\* Hence there is one for all sets of children: the fold is well defined.
LEMMA AdderExists ==
    ASSUME NEW c \in [Pids -> Nat]
    PROVE  \E f \in [SUBSET Pids -> Int] : Adds(c, SUBSET Pids, f)
  <1> DEFINE Has(n) == \E f \in [Groups(n) -> Int] : Adds(c, Groups(n), f)
             T == {n \in Nat : ~Has(n)}
  <1>0. Has(0)
    <2> DEFINE f == [s \in Groups(0) |-> 0]
    <2>1. \A s \in Groups(0) : s = {}
      <3> SUFFICES ASSUME NEW s \in Groups(0)  PROVE s = {}
        OBVIOUS
      <3>1. IsFiniteSet(s) /\ Cardinality(s) <= 0
        BY FS_Subset, SemaphoresAssumption DEF Groups
      <3> QED
        BY <3>1, FS_CardinalityType, FS_EmptySet
    <2>2. f = [s \in Groups(0) |-> IF s = {} THEN 0 ELSE f[s \ {pick(s)}] + share(c, pick(s))]
      BY <2>1
    <2>3. f \in [Groups(0) -> Int]
      OBVIOUS
    <2> HIDE DEF f
    <2> QED
      BY <2>2, <2>3 DEF Adds
  <1>1. \A n \in Nat : Has(n) => Has(n + 1)
    BY AdderUpTo
  <1>2. T = {}
    <2> SUFFICES ASSUME T # {}  PROVE FALSE
      OBVIOUS
    <2>1. PICK n \in T : \A m \in T : n <= m
      BY LeastNat
    <2>2. n # 0 /\ n - 1 \in Nat
      BY <1>0
    <2> HIDE DEF Has
    <2>3. Has(n - 1)
      BY <2>1, <2>2
    <2>4. Has((n - 1) + 1)
      BY <2>3, <2>2, <1>1
    <2> QED
      BY <2>4, <2>2
  <1>3. IsFiniteSet(Pids) /\ Cardinality(Pids) \in Nat
    BY FS_CardinalityType, SemaphoresAssumption
  <1>4. Groups(Cardinality(Pids)) = SUBSET Pids
    <2>1. \A s \in SUBSET Pids : Cardinality(s) <= Cardinality(Pids)
      BY <1>3, FS_Subset
    <2> QED
      BY <2>1 DEF Groups
  <1>5. Has(Cardinality(Pids))
    <2> HIDE DEF Has
    <2> QED
      BY <1>2, <1>3
  <1> QED
    BY <1>4, <1>5

\* One more iteration of p moves the sums over the sets that p is in.
LEMMA AdderMoves ==
    ASSUME NEW c \in [Pids -> Nat], NEW p \in Pids,
           NEW f \in [SUBSET Pids -> Int], Adds(c, SUBSET Pids, f),
           NEW d, share(d, p) = share(c, p) + inc(p),
           \A q \in Pids : q # p => share(d, q) = share(c, q),
           NEW g \in [SUBSET Pids -> Int], Adds(d, SUBSET Pids, g)
    PROVE  g[Pids] = f[Pids] + inc(p)
  <1> DEFINE Good(s) == g[s] = IF p \in s THEN f[s] + inc(p) ELSE f[s]
             T == {n \in Nat : \E s \in SUBSET Pids : Cardinality(s) = n /\ ~Good(s)}
  <1>2. inc(p) \in Int /\ \A q \in Pids : share(c, q) \in Int
    BY ShareIs
  <1>3. T = {}
    <2> SUFFICES ASSUME T # {}  PROVE FALSE
      OBVIOUS
    <2>1. PICK n \in T : \A m \in T : n <= m
      BY LeastNat
    <2>2. PICK s \in SUBSET Pids : Cardinality(s) = n /\ ~Good(s)
      OBVIOUS
    <2>3. /\ f[s] = IF s = {} THEN 0 ELSE f[s \ {pick(s)}] + share(c, pick(s))
          /\ g[s] = IF s = {} THEN 0 ELSE g[s \ {pick(s)}] + share(d, pick(s))
      BY DEF Adds
    <2>4. s # {}
      BY <2>2, <2>3
    <2>5. /\ pick(s) \in s /\ pick(s) \in Pids /\ s \ {pick(s)} \in SUBSET Pids
          /\ Cardinality(s \ {pick(s)}) = n - 1 /\ n > 0 /\ n \in Nat
      BY <2>2, <2>4, PickLess
    <2>6. Good(s \ {pick(s)})
      <3>1. n - 1 \notin T
        BY <2>1, <2>5
      <3> HIDE DEF Good
      <3> QED
        BY <2>5, <3>1
    <2> DEFINE u == s \ {pick(s)}
    <2>7. g[u] \in Int /\ f[u] \in Int
      BY <2>5
    <2>8. p \in u <=> p \in s /\ p # pick(s)
      OBVIOUS
    <2>9. f[s] = f[u] + share(c, pick(s)) /\ g[s] = g[u] + share(d, pick(s))
      BY <2>3, <2>4
    <2>10. g[u] = IF p \in u THEN f[u] + inc(p) ELSE f[u]
      BY <2>6
    <2>11. CASE p = pick(s)
      <3>1. p \in s /\ p \notin u /\ share(d, pick(s)) = share(c, pick(s)) + inc(p)
        BY <2>5, <2>8, <2>11
      <3>2. share(c, pick(s)) \in Int
        BY <1>2, <2>5
      <3> HIDE DEF u
      <3> QED
        BY <1>2, <2>2, <2>7, <2>9, <2>10, <3>1, <3>2
    <2>12. CASE p # pick(s)
      <3>1. (p \in s <=> p \in u) /\ share(d, pick(s)) = share(c, pick(s))
        BY <2>5, <2>8, <2>12
      <3>2. share(c, pick(s)) \in Int
        BY <1>2, <2>5
      <3> HIDE DEF u
      <3> QED
        BY <1>2, <2>2, <2>7, <2>9, <2>10, <3>1, <3>2
    <2> QED
      BY <2>11, <2>12
  <1>4. ASSUME NEW s \in SUBSET Pids  PROVE Good(s)
    <2>1. Cardinality(s) \in Nat
      BY FS_Subset, FS_CardinalityType, SemaphoresAssumption
    <2> HIDE DEF Good
    <2> QED
      BY <1>3, <2>1
  <1>5. Good(Pids)
    BY <1>4
  <1> QED
    BY <1>5

\* An iteration of p moves the sum by what p adds; before the first it is 0.
LEMMA MadeMoves ==
    ASSUME NEW c \in [Pids -> Nat]
    PROVE  /\ made(c) \in Int
           /\ \A p \in Pids : made([c EXCEPT ![p] = @ + 1]) = made(c) + inc(p)
  <1> DEFINE F(e) == CHOOSE f : Adds(e, SUBSET Pids, f)
  <1>1. ASSUME NEW e \in [Pids -> Nat]
        PROVE  F(e) \in [SUBSET Pids -> Int] /\ Adds(e, SUBSET Pids, F(e)) /\ made(e) = F(e)[Pids]
    <2>1. PICK f \in [SUBSET Pids -> Int] : Adds(e, SUBSET Pids, f)
      BY AdderExists
    <2>2. Adds(e, SUBSET Pids, F(e))
      BY <2>1
    <2>3. made(e) = F(e)[Pids]
      BY MadeIs
    <2>4. F(e) \in [SUBSET Pids -> Int]
      <3> DEFINE h == F(e)
                 T == {n \in Nat : \E s \in SUBSET Pids : Cardinality(s) = n /\ h[s] # f[s]}
      <3> HIDE DEF F
      <3>0. Adds(e, SUBSET Pids, h)
        BY <2>2
      <3> HIDE DEF h
      <3>1. T = {}
        <4> SUFFICES ASSUME T # {}  PROVE FALSE
          OBVIOUS
        <4>1. PICK n \in T : \A m \in T : n <= m
          BY LeastNat
        <4>2. PICK s \in SUBSET Pids : Cardinality(s) = n /\ h[s] # f[s]
          OBVIOUS
        <4>3. /\ f[s] = IF s = {} THEN 0 ELSE f[s \ {pick(s)}] + share(e, pick(s))
              /\ h[s] = IF s = {} THEN 0 ELSE h[s \ {pick(s)}] + share(e, pick(s))
          BY <2>1, <3>0 DEF Adds
        <4>4. s # {}
          BY <4>2, <4>3
        <4>5. /\ s \ {pick(s)} \in SUBSET Pids
              /\ Cardinality(s \ {pick(s)}) = n - 1 /\ n > 0 /\ n \in Nat
          BY <4>2, <4>4, PickLess
        <4>6. n - 1 \notin T
          BY <4>1, <4>5
        <4> QED
          BY <4>2, <4>3, <4>5, <4>6
      <3>2. \A s \in SUBSET Pids : h[s] = f[s]
        <4> SUFFICES ASSUME NEW s \in SUBSET Pids  PROVE h[s] = f[s]
          OBVIOUS
        <4>1. Cardinality(s) \in Nat
          BY FS_Subset, FS_CardinalityType, SemaphoresAssumption
        <4> QED
          BY <3>1, <4>1
      <3>3. h = [s \in SUBSET Pids |-> h[s]]
        BY <3>0 DEF Adds
      <3>4. h \in [SUBSET Pids -> Int]
        BY <2>1, <3>2, <3>3
      <3> QED
        BY <3>4 DEF h
    <2> HIDE DEF F
    <2> QED
      BY <2>2, <2>3, <2>4
  <1>2. Pids \in SUBSET Pids
    OBVIOUS
  <1>3. ASSUME NEW p \in Pids  PROVE made([c EXCEPT ![p] = @ + 1]) = made(c) + inc(p)
    <2> DEFINE d == [c EXCEPT ![p] = @ + 1]
    <2>1. d \in [Pids -> Nat]
      OBVIOUS
    <2> HIDE DEF F
    <2>2. /\ F(c) \in [SUBSET Pids -> Int] /\ Adds(c, SUBSET Pids, F(c)) /\ made(c) = F(c)[Pids]
          /\ F(d) \in [SUBSET Pids -> Int] /\ Adds(d, SUBSET Pids, F(d)) /\ made(d) = F(d)[Pids]
      <3> HIDE DEF d
      <3> QED
        BY <1>1, <2>1
    <2>3. F(d)[Pids] = F(c)[Pids] + inc(p)
      <3>1. /\ share(d, p) = share(c, p) + inc(p)
            /\ \A q \in Pids : q # p => share(d, q) = share(c, q)
        BY ShareIs DEF share
      <3> DEFINE fc == F(c)
                 fd == F(d)
      <3>2. /\ fc \in [SUBSET Pids -> Int] /\ Adds(c, SUBSET Pids, fc)
            /\ fd \in [SUBSET Pids -> Int] /\ Adds(d, SUBSET Pids, fd)
        BY <2>2
      <3> HIDE DEF d, fc, fd
      <3>3. fd[Pids] = fc[Pids] + inc(p)
        BY ONLY c \in [Pids -> Nat], p \in Pids, <3>1, <3>2, AdderMoves, Zenon
      <3> QED
        BY <3>3 DEF fc, fd
    <2> QED
      BY <2>2, <2>3
  <1>4. made(c) \in Int
    <2> HIDE DEF F
    <2> QED
      BY <1>1, <1>2
  <1> QED
    BY <1>3, <1>4

\* Nobody has added anything yet.
LEMMA MadeNothing == made([p \in Pids |-> 0]) = 0
  <1> DEFINE c == [p \in Pids |-> 0]
             f == [s \in SUBSET Pids |-> 0]
             h == CHOOSE f1 : Adds(c, SUBSET Pids, f1)
  <1>1. \A p \in Pids : share(c, p) = 0
    BY DEF share, inc
  <1>2. ASSUME NEW e, Adds(c, SUBSET Pids, e)  PROVE \A s \in SUBSET Pids : e[s] = 0
    <2> DEFINE T == {n \in Nat : \E s \in SUBSET Pids : Cardinality(s) = n /\ e[s] # 0}
    <2> HIDE DEF c
    <2>1. T = {}
      <3> SUFFICES ASSUME T # {}  PROVE FALSE
        OBVIOUS
      <3>1. PICK n \in T : \A m \in T : n <= m
        BY LeastNat
      <3>2. PICK s \in SUBSET Pids : Cardinality(s) = n /\ e[s] # 0
        OBVIOUS
      <3>3. e[s] = IF s = {} THEN 0 ELSE e[s \ {pick(s)}] + share(c, pick(s))
        BY <1>2 DEF Adds
      <3>4. s # {}
        BY <3>2, <3>3
      <3>5. /\ pick(s) \in Pids /\ s \ {pick(s)} \in SUBSET Pids
            /\ Cardinality(s \ {pick(s)}) = n - 1 /\ n > 0 /\ n \in Nat
        BY <3>2, <3>4, PickLess
      <3>6. n - 1 \notin T
        BY <3>1, <3>5
      <3>7. e[s \ {pick(s)}] = 0 /\ share(c, pick(s)) = 0
        BY <1>1, <3>5, <3>6
      <3> QED
        BY <3>2, <3>3, <3>4, <3>7
    <2> SUFFICES ASSUME NEW s \in SUBSET Pids  PROVE e[s] = 0
      OBVIOUS
    <2>2. Cardinality(s) \in Nat
      BY FS_Subset, FS_CardinalityType, SemaphoresAssumption
    <2> QED
      BY <2>1, <2>2
  <1>3. c \in [Pids -> Nat]
    OBVIOUS
  <1> HIDE DEF c
  <1>4. \E e : Adds(c, SUBSET Pids, e)
    BY <1>3, AdderExists
  <1>5. Adds(c, SUBSET Pids, h)
    BY <1>4
  <1> HIDE DEF h
  <1>6. h[Pids] = 0
    BY <1>2, <1>5
  <1> QED
    BY <1>6, MadeIs DEF h, c

-----------------------------------------------------------------------------
(***************************************************************************)
(* Where a child is says what it has open and holds, and one slot at most  *)
(* is open: the lock.                                                      *)
(***************************************************************************)
Lock(k) ==
    /\ \A j \in Open(k) : k.sems[j].name = SEM_ID /\ k.sems[j].initial = 1
    /\ \A j, l \in Open(k) : j = l

Places == {"open", "wait", "read", "write", "post", "close", "exit", "done"}

\* The child has one semaphore open.
HasOne(c) == \E j \in Sems : c.opened = {j}

\* A child c in my_process_inc: at "read" it may still sleep in its sem_wait.
Child(c, at) ==
    /\ at \in {"open", "exit"} => c.state = "READY" /\ c.opened = {} /\ c.held = {}
    /\ at \in {"wait", "close"} => c.state = "READY" /\ HasOne(c) /\ c.held = {}
    /\ at = "read" => /\ HasOne(c)
                      /\ \/ c.state = "READY" /\ c.held = c.opened
                         \/ c.state = "BLOCKED" /\ c.held = {} /\ c.waits \in c.opened
    /\ at \in {"write", "post"} => c.state = "READY" /\ HasOne(c) /\ c.held = c.opened
    /\ at = "done" => c.state = "FREE" /\ c.opened = {} /\ c.held = {}

Test(k, at) ==
    /\ k \in Tables /\ Books(k) /\ Lock(k)
    /\ at \in [Pids -> Places]
    /\ \A p \in Pids : Child(k.procs[p], at[p])

\* What a step of another child does to a child: nothing, or it hands over the
\* unit that the child sleeps for.
Waked(c, d) ==
    \/ d = c
    \/ /\ c.state = "BLOCKED" /\ c.waits \in c.opened
       /\ PCBIs(d, "READY", c.held \cup {c.waits}, c.opened, NULL)

\* A child that gets the unit is where one that did not have to wait is.
LEMMA WakedChild ==
    ASSUME NEW c, NEW d, NEW at \in Places, Child(c, at), Waked(c, d)
    PROVE  Child(d, at)
  <1>1. CASE d = c
    BY <1>1
  <1>2. CASE d # c
    <2>1. /\ c.state = "BLOCKED" /\ c.waits \in c.opened
          /\ PCBIs(d, "READY", c.held \cup {c.waits}, c.opened, NULL)
      BY <1>2 DEF Waked
    <2>2. at = "read"
      BY <2>1 DEF Child, Places
    <2>3. HasOne(c) /\ c.held = {}
      BY <2>1, <2>2 DEF Child
    <2>4. d.opened = c.opened /\ d.held = c.opened /\ d.state = "READY"
      BY <2>1, <2>3 DEF PCBIs, HasOne
    <2> QED
      BY <2>2, <2>3, <2>4 DEF Child, HasOne
  <1> QED
    BY <1>1, <1>2

\* The children after a step of p that leaves it at `to'.
LEMMA ChildrenAfter ==
    ASSUME NEW k, NEW at, Test(k, at), NEW r, r \in Tables, Books(r), Lock(r),
           NEW p \in Pids, NEW to \in Places, Child(r.procs[p], to),
           \A q \in Pids \ {p} : Waked(k.procs[q], r.procs[q])
    PROVE  Test(r, [at EXCEPT ![p] = to])
  <1>1. at \in [Pids -> Places] /\ \A q \in Pids : Child(k.procs[q], at[q])
    BY DEF Test
  <1>2. [at EXCEPT ![p] = to] \in [Pids -> Places]
    BY <1>1
  <1>3. ASSUME NEW q \in Pids  PROVE Child(r.procs[q], [at EXCEPT ![p] = to][q])
    <2>1. CASE q = p
      BY <1>1, <2>1
    <2>2. CASE q # p
      <3>1. Child(r.procs[q], at[q])
        BY <1>1, <2>2, WakedChild
      <3> QED
        BY <1>1, <2>2, <3>1
    <2> QED
      BY <2>1, <2>2
  <1> QED
    BY <1>2, <1>3 DEF Test

\* find_sem finds the lock, whoever has it open.
LEMMA FindLock ==
    ASSUME NEW k \in Tables, Lock(k)
    PROVE  /\ find_sem(k, SEM_ID) = NULL => Open(k) = {}
           /\ find_sem(k, SEM_ID) # NULL => find_sem(k, SEM_ID) \in Open(k)
           /\ \A j \in Open(k) : find_sem(k, SEM_ID) = j
  <1>1. \/ find_sem(k, SEM_ID) = NULL /\ \A j \in Open(k) : k.sems[j].name # SEM_ID
        \/ find_sem(k, SEM_ID) \in Open(k)
    BY FindSem
  <1>2. NULL \notin Open(k)
    BY SemsAreNat DEF Open
  <1> QED
    BY <1>1, <1>2 DEF Lock

\* The lock of a child that has the semaphore open.
LEMMA MyLock ==
    ASSUME NEW k, NEW at, Test(k, at), NEW p \in Pids, HasOne(k.procs[p])
    PROVE  /\ find_sem(k, SEM_ID) \in Open(k) /\ find_sem(k, SEM_ID) \in Sems
           /\ k.procs[p].opened = {find_sem(k, SEM_ID)}
           /\ find_sem(k, SEM_ID) # NULL
  <1>1. PICK j \in Sems : k.procs[p].opened = {j}
    BY DEF HasOne
  <1>2. k \in Tables /\ Lock(k) /\ Counted(k)
    BY DEF Test, Books
  <1>3. j \in Open(k)
    BY <1>1, <1>2, OpenedIsOpen
  <1>4. find_sem(k, SEM_ID) = j
    BY <1>2, <1>3, FindLock
  <1> QED
    BY <1>1, <1>3, <1>4, SemsAreNat

\* The lock stays the lock when no other slot is opened.
LEMMA LockStays ==
    ASSUME NEW k, Lock(k), NEW r,
           \A j \in Open(r) : /\ j \in Open(k)
                              /\ r.sems[j].name = k.sems[j].name
                              /\ r.sems[j].initial = k.sems[j].initial
    PROVE  Lock(r)
  BY DEF Lock

\* At most one child is between its sem_wait and its sem_post.
LEMMA OneInside ==
    ASSUME NEW k, NEW at, Test(k, at), NEW p \in Pids, NEW q \in Pids,
           at[p] \in {"write", "post"}, at[q] \in {"write", "post"}
    PROVE  p = q
  <1> DEFINE j == find_sem(k, SEM_ID)
  <1>1. /\ HasOne(k.procs[p]) /\ k.procs[p].held = k.procs[p].opened
        /\ HasOne(k.procs[q]) /\ k.procs[q].held = k.procs[q].opened
    BY DEF Test, Child
  <1>2. j \in Open(k) /\ j \in Sems /\ j \in k.procs[p].held /\ j \in k.procs[q].held
    BY <1>1, MyLock
  <1> HIDE DEF j
  <1>3. k \in Tables /\ Lines(k) /\ Units(k) /\ Lock(k)
    BY DEF Test, Books
  <1>4. units(k, j) = 1
    BY <1>2, <1>3 DEF Units, Lock
  <1>5. /\ k.sems[j].value \in Int /\ Len(k.sems[j].queue) \in Nat
        /\ Cardinality(Keepers(k, j)) \in Nat
    BY <1>2, <1>3, UnitTypes
  <1>6. Len(k.sems[j].queue) = IF k.sems[j].value < 0 THEN -k.sems[j].value ELSE 0
    BY <1>2, <1>3 DEF Lines, Balanced
  <1>7. Cardinality(Keepers(k, j)) <= 1
    BY <1>4, <1>5, <1>6 DEF units
  <1>8. {p, q} \subseteq Keepers(k, j) /\ IsFiniteSet(Keepers(k, j))
    BY <1>2, FS_Subset, SemaphoresAssumption DEF Keepers
  <1>9. CASE p # q
    <2>1. IsFiniteSet({p, q}) /\ Cardinality({p, q}) <= Cardinality(Keepers(k, j))
      BY <1>8, FS_Subset
    <2>2. Cardinality({p, q}) = 2
      <3>1. IsFiniteSet({p}) /\ Cardinality({p}) = 1
        BY FS_Singleton
      <3>2. Cardinality({p} \cup {q}) = 2
        BY <1>9, <3>1, FS_AddElement
      <3>3. {p} \cup {q} = {p, q}
        OBVIOUS
      <3> QED
        BY <3>2, <3>3
    <2> QED
      BY <1>5, <1>7, <2>1, <2>2
  <1> QED
    BY <1>9

-----------------------------------------------------------------------------
(***************************************************************************)
(* The steps, between two pairs of tables.                                 *)
(***************************************************************************)

\* sem_open of a child that has nothing open.
LEMMA OpenTest ==
    ASSUME NEW k, NEW at, Test(k, at), NEW p \in Pids, at[p] = "open",
           find_sem(k, SEM_ID) # NULL \/ FreeSlots(k) # {}
    PROVE  Test(sem_open(k, p, SEM_ID, 1), [at EXCEPT ![p] = "wait"])
  <1> DEFINE r == sem_open(k, p, SEM_ID, 1)
             j == opened_slot(k, SEM_ID)
  <1>1. /\ k \in Tables /\ Lines(k) /\ Counted(k) /\ Waiters(k) /\ Holding(k) /\ Units(k) /\ Lock(k)
        /\ k.procs[p].state = "READY" /\ k.procs[p].opened = {} /\ k.procs[p].held = {}
    BY DEF Test, Books, Child
  <1>2. SEM_ID \in Names /\ 1 \in InitialValues /\ Truncate[SEM_ID] = SEM_ID
    BY TestSyncAssumption
  <1>3. find_sem(k, SEM_ID) \notin k.procs[p].opened
    BY <1>1
  <1>4. Books(r)
    BY <1>1, <1>2, <1>3, OpenLines, OpenCounted, OpenWaiters, OpenUnits DEF Books
  <1>5. OpenStep(k, r, p, SEM_ID, 1)
    BY <1>1, <1>2, OpenIs
  <1>6. j \in Sems /\ (find_sem(k, SEM_ID) # NULL => j \in Open(k))
    BY <1>1, OpenedSlot
  <1> HIDE DEF r, j
  <1>7. /\ r \in Tables
        /\ \A l \in Sems \ {j} : r.sems[l] = k.sems[l]
        /\ \A q \in Pids \ {p} : r.procs[q] = k.procs[q]
        /\ PCBIs(r.procs[p], "READY", {}, {j}, k.procs[p].waits)
    BY <1>1, <1>5 DEF OpenStep, Only, j
  <1>8. Lock(r)
    <2>1. CASE find_sem(k, SEM_ID) # NULL
      <3>1. r.sems[j].name = k.sems[j].name /\ r.sems[j].initial = k.sems[j].initial
        BY <1>5, <2>1 DEF OpenStep, SlotIs, j
      <3> QED
        BY <1>1, <1>6, <1>7, <2>1, <3>1, LockStays DEF Open
    <2>2. CASE find_sem(k, SEM_ID) = NULL
      <3>1. r.sems[j].name = SEM_ID /\ r.sems[j].initial = 1
        BY <1>2, <1>5, <2>2 DEF OpenStep, SlotIs, j
      <3>2. Open(k) = {}
        BY <1>1, <2>2, FindLock
      <3>3. Open(r) \subseteq {j}
        BY <1>7, <3>2 DEF Open
      <3> QED
        BY <3>1, <3>3 DEF Lock
    <2> QED
      BY <2>1, <2>2
  <1>9. Child(r.procs[p], "wait")
    BY <1>6, <1>7 DEF Child, PCBIs, HasOne
  <1>10. \A q \in Pids \ {p} : Waked(k.procs[q], r.procs[q])
    BY <1>7 DEF Waked
  <1>11. "wait" \in Places
    BY DEF Places
  <1>12. Test(r, [at EXCEPT ![p] = "wait"])
    BY <1>4, <1>7, <1>8, <1>9, <1>10, <1>11, ChildrenAfter
  <1> QED
    BY <1>12 DEF r

\* sem_wait of a child that does not hold the lock: it gets it or sleeps.
LEMMA WaitTest ==
    ASSUME NEW k, NEW at, Test(k, at), NEW p \in Pids, at[p] = "wait"
    PROVE  Test(sem_wait(k, p, find_sem(k, SEM_ID)), [at EXCEPT ![p] = "read"])
  <1> DEFINE j == find_sem(k, SEM_ID)
             r == sem_wait(k, p, j)
  <1>1. /\ k \in Tables /\ Lines(k) /\ Counted(k) /\ Waiters(k) /\ Holding(k) /\ Units(k) /\ Lock(k)
        /\ k.procs[p].state = "READY" /\ HasOne(k.procs[p]) /\ k.procs[p].held = {}
    BY DEF Test, Books, Child
  <1>2. j \in Open(k) /\ j \in Sems /\ k.procs[p].opened = {j}
    BY <1>1, MyLock
  <1> HIDE DEF j
  <1>3. Books(r)
    BY <1>1, <1>2, WaitLines, WaitCounted, WaitWaiters, WaitUnits DEF Books
  <1>4. WaitStep(k, r, p, j)
    BY <1>1, <1>2, WaitIs
  <1> HIDE DEF r
  <1>5. r \in Tables /\ \A q \in Pids \ {p} : r.procs[q] = k.procs[q]
    BY <1>4 DEF WaitStep, Only
  <1>6. \A l \in Sems : /\ r.sems[l].name = k.sems[l].name
                        /\ r.sems[l].initial = k.sems[l].initial
                        /\ r.sems[l].open_count = k.sems[l].open_count
    BY <1>4 DEF WaitStep, Only, SlotIs
  <1>7. Lock(r)
    BY <1>1, <1>6, LockStays DEF Open
  <1>8. Child(r.procs[p], "read")
    <2>1. /\ k.sems[j].value - 1 < 0 => PCBIs(r.procs[p], "BLOCKED", {}, {j}, j)
          /\ ~(k.sems[j].value - 1 < 0) => PCBIs(r.procs[p], "READY", {j}, {j}, k.procs[p].waits)
      BY <1>1, <1>2, <1>4 DEF WaitStep
    <2> QED
      BY <1>2, <2>1 DEF Child, PCBIs, HasOne
  <1>9. \A q \in Pids \ {p} : Waked(k.procs[q], r.procs[q])
    BY <1>5 DEF Waked
  <1>10. "read" \in Places
    BY DEF Places
  <1>11. Test(r, [at EXCEPT ![p] = "read"])
    BY <1>3, <1>5, <1>7, <1>8, <1>9, <1>10, ChildrenAfter
  <1> QED
    BY <1>11 DEF r, j

\* sem_post of the child that has the lock: the first in line gets it.
LEMMA PostTest ==
    ASSUME NEW k, NEW at, Test(k, at), NEW p \in Pids, at[p] = "post",
           NEW to \in {"wait", "close"}
    PROVE  Test(sem_post(k, p, find_sem(k, SEM_ID)), [at EXCEPT ![p] = to])
  <1> DEFINE j == find_sem(k, SEM_ID)
             r == sem_post(k, p, j)
  <1>1. /\ k \in Tables /\ Lines(k) /\ Counted(k) /\ Waiters(k) /\ Holding(k) /\ Units(k) /\ Lock(k)
        /\ k.procs[p].state = "READY" /\ HasOne(k.procs[p])
        /\ k.procs[p].held = k.procs[p].opened
    BY DEF Test, Books, Child
  <1>2. j \in Open(k) /\ j \in Sems /\ k.procs[p].opened = {j} /\ j \in k.procs[p].held
    BY <1>1, MyLock
  <1> HIDE DEF j
  <1>3. Books(r)
    BY <1>1, <1>2, PostLines, PostCounted, PostWaiters, PostUnits DEF Books
  <1>4. PICK d : DropStep(k, d, p, j) /\ r = give(d, j)
    BY <1>1, <1>2, PostIs
  <1>5. d \in Tables /\ GiveStep(d, r, j) /\ Lines(d)
    BY <1>1, <1>2, <1>4, GiveIs, DropLines DEF DropStep
  <1> HIDE DEF r
  <1>6. /\ d.sems = k.sems /\ \A q \in Pids \ {p} : d.procs[q] = k.procs[q]
        /\ PCBIs(d.procs[p], "READY", {}, {j}, k.procs[p].waits)
    <2>1. k.procs[p].held \ {j} = {}
      BY <1>1, <1>2
    <2> QED
      BY <1>1, <1>2, <1>4, <2>1 DEF DropStep
  <1>7. ASSUME Hands(d.sems[j])
        PROVE  /\ Head(d.sems[j].queue) \in Pids
               /\ d.procs[Head(d.sems[j].queue)].state = "BLOCKED"
               /\ d.procs[Head(d.sems[j].queue)].waits = j
    BY <1>2, <1>5, <1>7, FirstSleeps
  <1>8. r \in Tables /\ r.procs[p] = d.procs[p]
    BY <1>5, <1>6, <1>7 DEF GiveStep, PCBIs
  <1>9. ASSUME NEW q \in Pids \ {p}  PROVE Waked(k.procs[q], r.procs[q])
    <2>1. CASE Hands(d.sems[j]) /\ q = Head(d.sems[j].queue)
      <3>1. d.procs[q].state = "BLOCKED" /\ d.procs[q].waits = j /\ d.procs[q] = k.procs[q]
        BY <1>6, <1>7, <2>1
      <3>2. r.procs[q] = handed(d.procs[q], j)
        BY <1>5, <2>1, <3>1 DEF GiveStep
      <3>3. d.procs[q] \in PCB
        BY <1>5 DEF Tables
      <3>4. PCBIs(r.procs[q], "READY", d.procs[q].held \cup {j}, d.procs[q].opened, NULL)
        BY <1>2, <3>1, <3>2, <3>3, HandedType DEF PCBIs
      <3>5. k.procs[q].waits \in k.procs[q].opened
        BY <1>1, <1>2, <3>1, SemsAreNat DEF Waiters, Waiting_ok
      <3> QED
        BY <3>1, <3>4, <3>5 DEF Waked
    <2>2. CASE ~(Hands(d.sems[j]) /\ q = Head(d.sems[j].queue))
      <3>1. r.procs[q] = k.procs[q]
        BY <1>5, <1>6, <2>2 DEF GiveStep
      <3> QED
        BY <3>1 DEF Waked
    <2> QED
      BY <2>1, <2>2
  <1>10. \A l \in Sems : /\ r.sems[l].name = k.sems[l].name
                         /\ r.sems[l].initial = k.sems[l].initial
                         /\ r.sems[l].open_count = k.sems[l].open_count
    BY <1>5, <1>6 DEF GiveStep, SlotIs
  <1>11. Lock(r)
    BY <1>1, <1>10, LockStays DEF Open
  <1>12. Child(r.procs[p], to)
    BY <1>2, <1>6, <1>8 DEF Child, PCBIs, HasOne
  <1>13. to \in Places
    BY DEF Places
  <1>14. Test(r, [at EXCEPT ![p] = to])
    BY <1>3, <1>8, <1>9, <1>11, <1>12, <1>13, ChildrenAfter
  <1> QED
    BY <1>14 DEF r, j

\* sem_close of a child that has given the lock back.
LEMMA CloseTest ==
    ASSUME NEW k, NEW at, Test(k, at), NEW p \in Pids, at[p] = "close"
    PROVE  Test(sem_close(k, p, find_sem(k, SEM_ID)), [at EXCEPT ![p] = "exit"])
  <1> DEFINE j == find_sem(k, SEM_ID)
             r == sem_close(k, p, j)
  <1>1. /\ k \in Tables /\ Lines(k) /\ Counted(k) /\ Waiters(k) /\ Holding(k) /\ Units(k) /\ Lock(k)
        /\ k.procs[p].state = "READY" /\ HasOne(k.procs[p]) /\ k.procs[p].held = {}
    BY DEF Test, Books, Child
  <1>2. j \in Open(k) /\ j \in Sems /\ k.procs[p].opened = {j}
    BY <1>1, MyLock
  <1> HIDE DEF j
  <1>3. Books(r)
    BY <1>1, <1>2, CloseLines, CloseCounted, CloseWaiters, CloseUnits DEF Books
  <1>4. CloseStep(k, r, p, j)
    BY <1>1, <1>2, CloseIs
  <1> HIDE DEF r
  <1>5. /\ r \in Tables /\ \A q \in Pids \ {p} : r.procs[q] = k.procs[q]
        /\ \A l \in Sems \ {j} : r.sems[l] = k.sems[l]
        /\ PCBIs(r.procs[p], "READY", {}, {}, k.procs[p].waits)
    <2>1. k.procs[p].held \ {j} = {} /\ k.procs[p].opened \ {j} = {}
      BY <1>1, <1>2
    <2> QED
      BY <1>1, <1>4, <2>1 DEF CloseStep, Only
  <1>6. j \in Open(r) => /\ r.sems[j].name = k.sems[j].name
                         /\ r.sems[j].initial = k.sems[j].initial
    BY <1>4, FreeSemType DEF CloseStep, SlotIs, Open
  <1>7. Lock(r)
    <2>1. ASSUME NEW l \in Open(r)
          PROVE  /\ l \in Open(k) /\ r.sems[l].name = k.sems[l].name
                 /\ r.sems[l].initial = k.sems[l].initial
      <3>1. CASE l = j
        BY <1>2, <1>6, <2>1, <3>1
      <3>2. CASE l # j
        BY <1>5, <2>1, <3>2 DEF Open
      <3> QED
        BY <3>1, <3>2
    <2> QED
      BY <1>1, <2>1, LockStays
  <1>8. Child(r.procs[p], "exit")
    BY <1>5 DEF Child, PCBIs
  <1>9. \A q \in Pids \ {p} : Waked(k.procs[q], r.procs[q])
    BY <1>5 DEF Waked
  <1>10. "exit" \in Places
    BY DEF Places
  <1>11. Test(r, [at EXCEPT ![p] = "exit"])
    BY <1>3, <1>5, <1>7, <1>8, <1>9, <1>10, ChildrenAfter
  <1> QED
    BY <1>11 DEF r, j

\* The exit or the killing of a child, wherever it is: its lock goes to the
\* first in line.
LEMMA DeathTest ==
    ASSUME NEW k, NEW at, Test(k, at), NEW p \in Pids
    PROVE  Test(sem_cleanup_for_process(k, p), [at EXCEPT ![p] = "done"])
  <1> DEFINE r == sem_cleanup_for_process(k, p)
  <1>1. k \in Tables /\ Lines(k) /\ Counted(k) /\ Waiters(k) /\ Holding(k) /\ Units(k) /\ Lock(k)
    BY DEF Test, Books
  <1>2. Books(r)
    BY <1>1, DeathLines, DeathCounted, DeathWaiters, DeathUnits DEF Books
  <1>3. DeathStep(k, r, p)
    BY <1>1, DeathIs
  <1> HIDE DEF r
  <1>4. r \in Tables /\ PCBIs(r.procs[p], "FREE", {}, {}, NULL)
    BY <1>3 DEF DeathStep
  <1>5. ASSUME NEW q \in Pids \ {p}  PROVE Waked(k.procs[q], r.procs[q])
    <2>1. CASE Heir(k, p, q)
      <3>1. PCBIs(r.procs[q], "READY", k.procs[q].held \cup {k.procs[q].waits},
                  k.procs[q].opened, NULL)
        BY <1>3, <2>1 DEF DeathStep
      <3>2. k.procs[q].state = "BLOCKED"
        BY <1>1, <2>1, InheritedIs
      <3>3. k.procs[q].waits \in Sems
        BY <2>1 DEF Heir
      <3>4. k.procs[q].waits \in k.procs[q].opened
        BY <1>1, <3>3, SemsAreNat DEF Waiters, Waiting_ok
      <3> QED
        BY <3>1, <3>2, <3>4 DEF Waked
    <2>2. CASE ~Heir(k, p, q)
      BY <1>3, <2>2 DEF DeathStep, Waked
    <2> QED
      BY <2>1, <2>2
  <1>6. ASSUME NEW j \in Open(r)
        PROVE  /\ j \in Open(k) /\ r.sems[j].name = k.sems[j].name
               /\ r.sems[j].initial = k.sems[j].initial
    <2>1. j \in Sems /\ r.sems[j].open_count > 0 /\ FreeSem.open_count = 0
      BY <1>6, FreeSemType DEF Open
    <2>2. r.sems[j] # FreeSem
      BY <2>1
    <2>3. j \in Open(k) /\ references(k, p, j) # 0
      BY <1>3, <2>1, <2>2 DEF DeathStep
    <2> QED
      BY <1>3, <2>1, <2>3 DEF DeathStep, SlotIs
  <1>7. Lock(r)
    BY <1>1, <1>6, LockStays
  <1>8. Child(r.procs[p], "done")
    BY <1>4 DEF Child, PCBIs
  <1>9. "done" \in Places
    BY DEF Places
  <1>10. Test(r, [at EXCEPT ![p] = "done"])
    BY <1>2, <1>4, <1>5, <1>7, <1>8, <1>9, ChildrenAfter
  <1> QED
    BY <1>10 DEF r

\* A step in user code, of a child that has the CPU.
LEMMA RunTest ==
    ASSUME NEW k, NEW at, Test(k, at), NEW p \in Pids, k.procs[p].state = "READY",
           NEW to, \/ at[p] = "read" /\ to = "write"
                   \/ at[p] = "write" /\ to = "post"
    PROVE  Test(k, [at EXCEPT ![p] = to])
  <1>1. k \in Tables /\ Books(k) /\ Lock(k) /\ Child(k.procs[p], at[p])
    BY DEF Test
  <1>2. to \in Places
    BY DEF Places
  <1>3. Child(k.procs[p], to)
    BY <1>1 DEF Child
  <1>4. \A q \in Pids \ {p} : Waked(k.procs[q], k.procs[q])
    BY DEF Waked
  <1> QED
    BY <1>1, <1>2, <1>3, <1>4, ChildrenAfter

-----------------------------------------------------------------------------
(***************************************************************************)
(* The invariant: the test, and what the child between its read and its    *)
(* write has read is still what global is.                                 *)
(***************************************************************************)
Tally ==
    /\ global \in Int /\ i \in [Pids -> Nat] /\ aux \in [Pids -> Int]
    /\ global = made(i)
    /\ \A p \in Pids : pc[p] = "write" => aux[p] = global

TInv == Test(Kernel, pc) /\ Tally

\* What a syscall stores are the new tables.
LEMMA StoreIs ==
    ASSUME NEW k \in Tables, Store(k)
    PROVE  Kernel' = k
  BY DEF Store, Kernel, Tables

\* The tally does not change when nobody adds and nobody reads.
LEMMA TallyStays ==
    ASSUME TInv, NEW p \in Pids, NEW to, to # "write", pc' = [pc EXCEPT ![p] = to],
           UNCHANGED <<aux, i, global>>
    PROVE  Tally'
  <1>1. pc \in [Pids -> Places]
    BY DEF TInv, Test
  <1>2. \A q \in Pids : pc'[q] = "write" => pc[q] = "write"
    BY <1>1
  <1> QED
    BY <1>2 DEF TInv, Tally

\* A step of a child.
LEMMA StepTInv ==
    ASSUME TInv, NEW p \in Pids, Step(p)
    PROVE  TInv'
  <1>0. /\ Test(Kernel, pc) /\ Kernel.procs = process /\ Kernel.sems = sem_table
        /\ pc \in [Pids -> Places]
    BY DEF TInv, Test, Kernel
  <1>1. CASE open(p)
    <2> DEFINE r == sem_open(Kernel, p, SEM_ID, 1)
    <2>1. /\ pc[p] = "open" /\ pc' = [pc EXCEPT ![p] = "wait"] /\ Store(r)
          /\ find_sem(Kernel, SEM_ID) # NULL \/ FreeSlots(Kernel) # {}
          /\ UNCHANGED <<aux, i, global>>
      BY <1>1 DEF open, Goto, sys_sem_open
    <2>2. Test(r, pc')
      BY <1>0, <2>1, OpenTest
    <2> HIDE DEF r
    <2>3. Kernel' = r
      BY <2>1, <2>2, StoreIs DEF Test
    <2> QED
      BY <2>1, <2>2, <2>3, TallyStays DEF TInv
  <1>2. CASE wait(p)
    <2> DEFINE r == sem_wait(Kernel, p, find_sem(Kernel, SEM_ID))
    <2>1. /\ pc[p] = "wait" /\ pc' = [pc EXCEPT ![p] = "read"] /\ Store(r)
          /\ UNCHANGED <<aux, i, global>>
      BY <1>2 DEF wait, Goto, sys_sem_wait
    <2>2. Test(r, pc')
      BY <1>0, <2>1, WaitTest
    <2> HIDE DEF r
    <2>3. Kernel' = r
      BY <2>1, <2>2, StoreIs DEF Test
    <2> QED
      BY <2>1, <2>2, <2>3, TallyStays DEF TInv
  <1>3. CASE slowInc_read(p)
    <2>1. /\ pc[p] = "read" /\ pc' = [pc EXCEPT ![p] = "write"] /\ process[p].state = "READY"
          /\ aux' = [aux EXCEPT ![p] = global] /\ UNCHANGED <<vars, i, global>>
      BY <1>3 DEF slowInc_read, Goto, Runs
    <2>2. Kernel' = Kernel
      BY <2>1 DEF vars, Kernel
    <2>3. Test(Kernel, pc')
      BY <1>0, <2>1, RunTest
    <2>4. Tally'
      BY <1>0, <2>1 DEF TInv, Tally
    <2> QED
      BY <2>2, <2>3, <2>4 DEF TInv
  <1>4. CASE slowInc_write(p)
    <2>1. /\ pc[p] = "write" /\ pc' = [pc EXCEPT ![p] = "post"] /\ process[p].state = "READY"
          /\ global' = aux[p] + inc(p) /\ i' = [i EXCEPT ![p] = @ + 1]
          /\ UNCHANGED <<vars, aux>>
      BY <1>4 DEF slowInc_write, Goto, Runs
    <2>2. Kernel' = Kernel
      BY <2>1 DEF vars, Kernel
    <2>3. Test(Kernel, pc')
      BY <1>0, <2>1, RunTest
    <2>4. /\ global \in Int /\ i \in [Pids -> Nat] /\ aux \in [Pids -> Int]
          /\ global = made(i) /\ aux[p] = global /\ inc(p) \in Int
      BY <2>1 DEF TInv, Tally, inc
    <2>5. made(i') = made(i) + inc(p)
      BY <2>1, <2>4, MadeMoves
    <2>6. global' \in Int /\ i' \in [Pids -> Nat] /\ global' = made(i')
      BY <2>1, <2>4, <2>5
    <2>7. \A q \in Pids : pc'[q] # "write"
      <3> SUFFICES ASSUME NEW q \in Pids, pc'[q] = "write"  PROVE FALSE
        OBVIOUS
      <3>1. q # p /\ pc[q] = "write"
        BY <1>0, <2>1
      <3> QED
        BY <1>0, <2>1, <3>1, OneInside
    <2> QED
      BY <2>1, <2>2, <2>3, <2>4, <2>6, <2>7 DEF TInv, Tally
  <1>5. CASE post(p)
    <2> DEFINE r == sem_post(Kernel, p, find_sem(Kernel, SEM_ID))
               to == IF i[p] < Iterations THEN "wait" ELSE "close"
    <2>1. /\ pc[p] = "post" /\ pc' = [pc EXCEPT ![p] = to] /\ Store(r)
          /\ UNCHANGED <<aux, i, global>>
      BY <1>5 DEF post, Goto, sys_sem_post
    <2>2. to \in {"wait", "close"} /\ to # "write"
      OBVIOUS
    <2> HIDE DEF to
    <2>3. Test(r, pc')
      BY <1>0, <2>1, <2>2, PostTest
    <2> HIDE DEF r
    <2>4. Kernel' = r
      BY <2>1, <2>3, StoreIs DEF Test
    <2> QED
      BY <2>1, <2>2, <2>3, <2>4, TallyStays DEF TInv
  <1>6. CASE close(p)
    <2> DEFINE r == sem_close(Kernel, p, find_sem(Kernel, SEM_ID))
    <2>1. /\ pc[p] = "close" /\ pc' = [pc EXCEPT ![p] = "exit"] /\ Store(r)
          /\ UNCHANGED <<aux, i, global>>
      BY <1>6 DEF close, Goto, sys_sem_close
    <2>2. Test(r, pc')
      BY <1>0, <2>1, CloseTest
    <2> HIDE DEF r
    <2>3. Kernel' = r
      BY <2>1, <2>2, StoreIs DEF Test
    <2> QED
      BY <2>1, <2>2, <2>3, TallyStays DEF TInv
  <1>7. CASE exit(p)
    <2> DEFINE r == sem_cleanup_for_process(Kernel, p)
    <2>1. /\ pc' = [pc EXCEPT ![p] = "done"] /\ Store(r) /\ UNCHANGED <<aux, i, global>>
      BY <1>7 DEF exit, Goto, Die
    <2>2. Test(r, pc')
      BY <1>0, <2>1, DeathTest
    <2> HIDE DEF r
    <2>3. Kernel' = r
      BY <2>1, <2>2, StoreIs DEF Test
    <2> QED
      BY <2>1, <2>2, <2>3, TallyStays DEF TInv
  <1> QED
    BY <1>1, <1>2, <1>3, <1>4, <1>5, <1>6, <1>7 DEF Step

\* Somebody kills a child, inside the critical section too.
LEMMA KillTInv ==
    ASSUME TInv, NEW p \in Pids, kill(p)
    PROVE  TInv'
  <1> DEFINE r == sem_cleanup_for_process(Kernel, p)
  <1>1. /\ pc' = [pc EXCEPT ![p] = "done"] /\ Store(r) /\ UNCHANGED <<aux, i, global>>
    BY DEF kill, Die
  <1>2. Test(r, pc')
    BY <1>1, DeathTest DEF TInv
  <1> HIDE DEF r
  <1>3. Kernel' = r
    BY <1>1, <1>2, StoreIs DEF Test
  <1> QED
    BY <1>1, <1>2, <1>3, TallyStays DEF TInv

\* The children start with nothing open.
LEMMA InitTInv == TInit => TInv
  <1> SUFFICES ASSUME TInit  PROVE TInv
    OBVIOUS
  <1>1. Init /\ pc = [p \in Pids |-> "open"] /\ global = 0
        /\ aux = [p \in Pids |-> 0] /\ i = [p \in Pids |-> 0]
    BY DEF TInit
  <1>2. Kernel \in Tables
    <2>1. TypeOK
      BY <1>1, FreeSemType DEF Init, TypeOK, PCB
    <2> QED
      BY <2>1, TypeIsTables
  <1>3. Books(Kernel)
    BY <1>1, InitBooks
  <1>4. Open(Kernel) = {}
    BY <1>1, FreeSemType DEF Init, Open, Kernel
  <1>5. Lock(Kernel)
    BY <1>4 DEF Lock
  <1>6. \A p \in Pids : Child(Kernel.procs[p], pc[p])
    BY <1>1 DEF Init, Kernel, Child
  <1>7. pc \in [Pids -> Places]
    BY <1>1 DEF Places
  <1>8. Tally
    BY <1>1, MadeNothing DEF Tally
  <1> QED
    BY <1>2, <1>3, <1>5, <1>6, <1>7, <1>8 DEF TInv, Test

\* Where each child of test_sync is, what it has of the semaphore and what it
\* has read fit together, whoever is killed and however often the slot is closed
\* and opened again: one child at a time is inside slowInc.
THEOREM TestSyncInvariance == TSpec => []TInv
  <1>1. TInit => TInv
    BY InitTInv
  <1>2. TInv /\ [TNext]_allVars => TInv'
    <2> SUFFICES ASSUME TInv, [TNext]_allVars  PROVE TInv'
      OBVIOUS
    <2>1. CASE TNext
      BY <2>1, StepTInv, KillTInv DEF TNext
    <2>2. CASE UNCHANGED allVars
      <3>1. Kernel' = Kernel /\ UNCHANGED <<pc, aux, i, global>>
        BY <2>2 DEF allVars, vars, Kernel
      <3> QED
        BY <3>1 DEF TInv, Tally
    <2> QED
      BY <2>1, <2>2
  <1> QED
    BY <1>1, <1>2, PTL DEF TSpec

\* test_sync with semaphores loses no update, for any number of children and
\* iterations: global is what the increments and decrements add up to.
THEOREM SemaphoreGuardsGlobal == TSpec => []NoUpdateLost
  <1>1. TInv => NoUpdateLost
    BY DEF TInv, Tally, NoUpdateLost, made
  <1> QED
    BY <1>1, TestSyncInvariance, PTL
=============================================================================
