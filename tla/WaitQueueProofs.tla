-------------------------- MODULE WaitQueueProofs --------------------------
(***************************************************************************)
(* Facts about wait queues that the proofs about semaphores and pipes use. *)
(***************************************************************************)
EXTENDS WaitQueue, FiniteSetTheorems, WellFoundedInduction, TLAPS

-----------------------------------------------------------------------------
(***************************************************************************)
(* Least elements.                                                         *)
(***************************************************************************)

\* A set of naturals that is not empty has a least element.  The induction
\* below is by this lemma: the least counterexample is none.
LEMMA LeastNat ==
    ASSUME NEW T \in SUBSET Nat, T # {}
    PROVE  \E x \in T : \A y \in T : x <= y
  <1> DEFINE R == OpToRel(<, Nat)
  <1>1. IsWellFoundedOn(R, Nat)
    BY NatLessThanWellFounded
  <1>2. \E x \in T : \A y \in T : ~(<<y, x>> \in R)
    BY <1>1, WFMin
  <1>3. \E x \in T : \A y \in T : ~(y < x)
    BY <1>2 DEF OpToRel
  <1> HIDE DEF R
  <1> QED
    BY <1>3

-----------------------------------------------------------------------------
(***************************************************************************)
(* Queues in which nobody is twice.                                        *)
(***************************************************************************)

LEMMA UpTo ==
    ASSUME NEW n \in Nat
    PROVE  IsFiniteSet(1..n) /\ Cardinality(1..n) = n
  <1>1. 1 \in Int /\ n \in Int
    OBVIOUS
  <1>2. IsFiniteSet(1..n) /\ Cardinality(1..n) = IF 1 > n THEN 0 ELSE n - 1 + 1
    BY <1>1, FS_Interval
  <1> QED
    BY <1>2

\* Such a queue is as long as the set of its elements is large.
LEMMA DistinctLen ==
    ASSUME NEW S, NEW q \in Seq(S), Distinct(q)
    PROVE  /\ IsFiniteSet(Elements(q))
           /\ Cardinality(Elements(q)) = Len(q)
  <1>1. q \in Surjection(1..Len(q), Elements(q))
    BY DEF Surjection, Elements
  <1>2. q \in Injection(1..Len(q), Elements(q))
    BY <1>1 DEF Injection, IsInjective, Surjection, Distinct
  <1>3. IsFiniteSet(1..Len(q)) /\ Cardinality(1..Len(q)) = Len(q)
    <2>1. Len(q) \in Nat
      OBVIOUS
    <2> QED
      BY <2>1, UpTo
  <1> QED
    BY <1>1, <1>2, <1>3, FS_Surjection

\* Who is in no queue of distinct members of S finds room for one more.
LEMMA RoomFor ==
    ASSUME NEW S, IsFiniteSet(S), NEW q \in Seq(S), Distinct(q),
           NEW p \in S, p \notin Elements(q)
    PROVE  Len(q) < Cardinality(S)
  <1>1. Elements(q) \in SUBSET (S \ {p})
    BY DEF Elements
  <1>2. IsFiniteSet(S \ {p}) /\ Cardinality(S \ {p}) = Cardinality(S) - 1
        /\ Cardinality(S) \in Nat
    BY FS_RemoveElement, FS_CardinalityType
  <1>3. Cardinality(Elements(q)) <= Cardinality(S \ {p})
    BY <1>1, <1>2, FS_Subset
  <1> QED
    BY <1>2, <1>3, DistinctLen

LEMMA AppendQueue ==
    ASSUME NEW S, NEW q \in Seq(S), NEW p \in S
    PROVE  /\ Append(q, p) \in Seq(S)
           /\ Len(Append(q, p)) = Len(q) + 1
           /\ Elements(Append(q, p)) = Elements(q) \cup {p}
           /\ Distinct(q) /\ p \notin Elements(q) => Distinct(Append(q, p))
  <1>1. /\ Append(q, p) \in Seq(S) /\ Len(q) \in Nat /\ Len(Append(q, p)) = Len(q) + 1
        /\ \A j \in 1..Len(q) : Append(q, p)[j] = q[j]
        /\ Append(q, p)[Len(q) + 1] = p
    OBVIOUS
  <1>2. Elements(Append(q, p)) = Elements(q) \cup {p}
    <2>1. 1..(Len(q) + 1) = (1..Len(q)) \cup {Len(q) + 1}
      BY <1>1
    <2> QED
      BY <1>1, <2>1 DEF Elements
  <1>3. ASSUME Distinct(q), p \notin Elements(q)
        PROVE  Distinct(Append(q, p))
    BY <1>1, <1>3 DEF Distinct, Elements
  <1> QED
    BY <1>1, <1>2, <1>3

LEMMA TailQueue ==
    ASSUME NEW S, NEW q \in Seq(S), q # <<>>
    PROVE  /\ Tail(q) \in Seq(S) /\ Head(q) \in S
           /\ Len(Tail(q)) = Len(q) - 1
           /\ Head(q) \in Elements(q)
           /\ Distinct(q) => /\ Distinct(Tail(q))
                             /\ Elements(Tail(q)) = Elements(q) \ {Head(q)}
  <1>1. Len(q) \in Nat \ {0} /\ Tail(q) \in Seq(S) /\ Len(Tail(q)) = Len(q) - 1
        /\ Head(q) = q[1] /\ \A j \in 1..Len(Tail(q)) : Tail(q)[j] = q[j + 1]
    OBVIOUS
  <1>2. Head(q) \in Elements(q) /\ Head(q) \in S
    BY <1>1 DEF Elements
  <1>3. ASSUME Distinct(q)
        PROVE  Distinct(Tail(q))
    BY <1>1, <1>3 DEF Distinct
  <1>4. ASSUME Distinct(q)
        PROVE  Elements(Tail(q)) = Elements(q) \ {Head(q)}
    <2>1. ASSUME NEW x \in Elements(Tail(q))
          PROVE  x \in Elements(q) \ {Head(q)}
      BY <1>1, <1>4, <2>1 DEF Elements, Distinct
    <2>2. ASSUME NEW x \in Elements(q) \ {Head(q)}
          PROVE  x \in Elements(Tail(q))
      <3>1. PICK j \in 1..Len(q) : q[j] = x
        BY <2>2 DEF Elements
      <3>2. j - 1 \in 1..Len(Tail(q)) /\ Tail(q)[j - 1] = x
        BY <1>1, <2>2, <3>1
      <3> QED
        BY <3>2 DEF Elements
    <2> QED
      BY <2>1, <2>2
  <1> QED
    BY <1>1, <1>2, <1>3, <1>4

-----------------------------------------------------------------------------
(***************************************************************************)
(* queue_remove_pid.                                                       *)
(***************************************************************************)

LEMMA OthersFinite ==
    ASSUME NEW S, NEW q \in Seq(S), NEW x
    PROVE  /\ Others(q, x) \in SUBSET (1..Len(q))
           /\ IsFiniteSet(Others(q, x))
           /\ Cardinality(Others(q, x)) \in Nat
  <1>1. Others(q, x) \in SUBSET (1..Len(q)) /\ IsFiniteSet(1..Len(q))
    BY FS_Interval DEF Others
  <1> QED
    BY <1>1, FS_Subset, FS_CardinalityType

\* The loop has copied nothing before the first place, everything after the
\* last, and one more exactly at the places it copies.
LEMMA CopiedSteps ==
    ASSUME NEW S, NEW q \in Seq(S), NEW x
    PROVE  /\ \A j \in 0..Len(q) : Copied(q, x, j) \in Nat
           /\ Copied(q, x, 0) = 0
           /\ Copied(q, x, Len(q)) = Cardinality(Others(q, x))
           /\ \A j \in 1..Len(q) :
                 Copied(q, x, j) = IF j \in Others(q, x) THEN Copied(q, x, j - 1) + 1
                                   ELSE Copied(q, x, j - 1)
  <1> DEFINE O == Others(q, x)
             upto(j) == {h \in O : h <= j}
  <1>1. O \in SUBSET (1..Len(q)) /\ IsFiniteSet(O)
    BY OthersFinite
  <1>2. ASSUME NEW j \in 0..Len(q)
        PROVE  IsFiniteSet(upto(j)) /\ Cardinality(upto(j)) \in Nat
    BY <1>1, FS_Subset, FS_CardinalityType
  <1>3. upto(0) = {} /\ upto(Len(q)) = O
    BY <1>1
  <1>4. ASSUME NEW j \in 1..Len(q)
        PROVE  Cardinality(upto(j)) = IF j \in O THEN Cardinality(upto(j - 1)) + 1
                                      ELSE Cardinality(upto(j - 1))
    <2>1. j - 1 \in 0..Len(q) /\ j \notin upto(j - 1)
      BY <1>1
    <2>2. IsFiniteSet(upto(j - 1))
      BY <1>2, <2>1
    <2>3. CASE j \in O
      <3>1. upto(j) = upto(j - 1) \cup {j}
        BY <1>1, <2>3
      <3> HIDE DEF upto
      <3> QED
        BY <2>1, <2>2, <2>3, <3>1, FS_AddElement
    <2>4. CASE j \notin O
      <3>1. upto(j) = upto(j - 1)
        BY <1>1, <2>4
      <3> QED
        BY <2>4, <3>1
    <2> QED
      BY <2>3, <2>4
  <1>5. Cardinality({}) = 0
    BY FS_EmptySet
  <1> QED
    BY <1>2, <1>3, <1>4, <1>5 DEF Copied

\* A queue that is copied up to place m has every number from 1 to
\* Copied(q, x, m) at one of the places copied.
LEMMA CopiedOnto ==
    ASSUME NEW S, NEW q \in Seq(S), NEW x
    PROVE  \A n \in 1..Cardinality(Others(q, x)) :
              \E j \in Others(q, x) : Copied(q, x, j) = n
  <1> DEFINE O == Others(q, x)
             C(j) == Copied(q, x, j)
             Bad == {m \in 0..Len(q) : \E n \in 1..C(m) : \A j \in O : C(j) # n}
  <1>1. O \in SUBSET (1..Len(q)) /\ Len(q) \in Nat
    BY OthersFinite
  <1>2. /\ \A j \in 0..Len(q) : C(j) \in Nat
        /\ C(0) = 0
        /\ C(Len(q)) = Cardinality(O)
        /\ \A j \in 1..Len(q) : C(j) = IF j \in O THEN C(j - 1) + 1 ELSE C(j - 1)
    BY CopiedSteps
  <1> HIDE DEF O, C
  <1>3. Bad = {}
    <2> SUFFICES ASSUME Bad # {} PROVE FALSE
      OBVIOUS
    <2>1. Bad \in SUBSET Nat
      BY <1>1
    <2>2. PICK m \in Bad : \A y \in Bad : m <= y
      BY <2>1, LeastNat
    <2>3. PICK n \in 1..C(m) : \A j \in O : C(j) # n
      OBVIOUS
    <2>4. m # 0
      BY <1>2, <2>3
    <2>5. m \in 1..Len(q) /\ m - 1 \in 0..Len(q) /\ m - 1 \notin Bad
      BY <1>1, <2>2, <2>4
    <2>6. n \notin 1..C(m - 1)
      BY <2>3, <2>5
    <2>7. C(m) = C(m - 1) + 1 /\ m \in O
      BY <1>2, <2>3, <2>5, <2>6
    <2>8. C(m - 1) \in Nat
      BY <1>2, <2>5
    <2>9. n = C(m)
      BY <2>3, <2>6, <2>7, <2>8
    <2> QED
      BY <2>3, <2>7, <2>9
  <1>4. \A n \in 1..C(Len(q)) : \E j \in O : C(j) = n
    BY <1>1, <1>3
  <1> QED
    BY <1>2, <1>4 DEF O, C

\* Different places get different numbers.
LEMMA CopiedOneToOne ==
    ASSUME NEW S, NEW q \in Seq(S), NEW x,
           NEW j \in Others(q, x), NEW l \in Others(q, x)
    PROVE  /\ Copied(q, x, j) \in 1..Cardinality(Others(q, x))
           /\ Copied(q, x, j) = Copied(q, x, l) => j = l
  <1> DEFINE O == Others(q, x)
             upto(i) == {h \in O : h <= i}
  <1>1. O \in SUBSET (1..Len(q)) /\ IsFiniteSet(O) /\ Cardinality(O) \in Nat
    BY OthersFinite
  <1>2. \A i \in O : /\ upto(i) \in SUBSET O /\ IsFiniteSet(upto(i))
                     /\ Cardinality(upto(i)) \in Nat /\ Cardinality(upto(i)) <= Cardinality(O)
    BY <1>1, FS_Subset, FS_CardinalityType
  <1>3. Cardinality(upto(j)) # 0
    <2>1. j \in upto(j)
      BY <1>1
    <2> QED
      BY <1>2, <2>1, FS_EmptySet
  <1>4. ASSUME NEW a \in O, NEW b \in O, a < b
        PROVE  Cardinality(upto(a)) # Cardinality(upto(b))
    <2>1. upto(a) \in SUBSET upto(b) /\ b \in upto(b) /\ b \notin upto(a)
      BY <1>1, <1>4
    <2>2. IsFiniteSet(upto(b))
      BY <1>2
    <2> HIDE DEF upto
    <2> QED
      BY <2>1, <2>2, FS_Subset
  <1>5. j \in Nat /\ l \in Nat
    BY <1>1
  <1>6. Copied(q, x, j) = Cardinality(upto(j)) /\ Copied(q, x, l) = Cardinality(upto(l))
    BY DEF Copied
  <1>7. Cardinality(upto(j)) \in Nat /\ Cardinality(upto(j)) <= Cardinality(O)
    BY <1>2
  <1> HIDE DEF upto, O
  <1>8. Cardinality(upto(j)) = Cardinality(upto(l)) => j = l
    BY <1>4, <1>5 DEF O
  <1> QED
    BY <1>1, <1>3, <1>6, <1>7, <1>8 DEF O

\* What queue_remove_pid leaves: every element stands for a place of the queue
\* before that is another's, and every such place for an element.
LEMMA RemovedPlaces ==
    ASSUME NEW S, NEW q \in Seq(S), NEW x
    PROVE  LET r == queue_remove_pid(q, x)
           IN  /\ r \in Seq(S)
               /\ Len(r) = Cardinality(Others(q, x))
               /\ \A n \in 1..Len(r) : \E j \in Others(q, x) :
                     Copied(q, x, j) = n /\ r[n] = q[j]
               /\ \A j \in Others(q, x) :
                     Copied(q, x, j) \in 1..Len(r) /\ r[Copied(q, x, j)] = q[j]
  <1> DEFINE O == Others(q, x)
             N == Cardinality(O)
             at(n) == CHOOSE j \in O : Copied(q, x, j) = n
             r == queue_remove_pid(q, x)
  <1>1. O \in SUBSET (1..Len(q)) /\ N \in Nat
    BY OthersFinite
  <1>2. ASSUME NEW n \in 1..N
        PROVE  at(n) \in O /\ Copied(q, x, at(n)) = n
    <2>1. \E j \in O : Copied(q, x, j) = n
      BY CopiedOnto
    <2> QED
      BY <2>1
  <1>3. r = [n \in 1..N |-> q[at(n)]]
    BY DEF queue_remove_pid
  <1> HIDE DEF at, r
  <1>4. \A n \in 1..N : q[at(n)] \in S
    BY <1>1, <1>2
  <1>5. r \in Seq(S) /\ Len(r) = N
    BY <1>1, <1>3, <1>4
  <1>6. \A n \in 1..N : r[n] = q[at(n)]
    BY <1>3
  <1>7. ASSUME NEW j \in O
        PROVE  Copied(q, x, j) \in 1..N /\ r[Copied(q, x, j)] = q[j]
    <2>1. Copied(q, x, j) \in 1..N
      BY CopiedOneToOne
    <2>2. at(Copied(q, x, j)) = j
      BY <1>2, <2>1, CopiedOneToOne
    <2> QED
      BY <1>6, <2>1, <2>2
  <1>8. \A n \in 1..N : \E j \in O : Copied(q, x, j) = n /\ r[n] = q[j]
    BY <1>2, <1>6
  <1> QED
    BY <1>5, <1>7, <1>8 DEF r

\* Everybody else is still there, x is not, and nobody is there twice who was
\* not before.
LEMMA RemovedQueue ==
    ASSUME NEW S, NEW q \in Seq(S), NEW x
    PROVE  LET r == queue_remove_pid(q, x)
           IN  /\ r \in Seq(S)
               /\ Elements(r) = Elements(q) \ {x}
               /\ Distinct(q) => Distinct(r)
               /\ Distinct(q) => Len(r) = IF x \in Elements(q) THEN Len(q) - 1 ELSE Len(q)
  <1> DEFINE O == Others(q, x)
             C(j) == Copied(q, x, j)
             r == queue_remove_pid(q, x)
  <1>1. /\ r \in Seq(S)
        /\ Len(r) = Cardinality(O)
        /\ \A n \in 1..Len(r) : \E j \in O : C(j) = n /\ r[n] = q[j]
        /\ \A j \in O : C(j) \in 1..Len(r) /\ r[C(j)] = q[j]
    BY RemovedPlaces
  <1>2. O = {j \in 1..Len(q) : q[j] # x}
    BY DEF Others
  <1> HIDE DEF r, C, O
  <1>3. Elements(r) = Elements(q) \ {x}
    <2>1. ASSUME NEW y \in Elements(r)
          PROVE  y \in Elements(q) \ {x}
      BY <1>1, <1>2, <2>1 DEF Elements
    <2>2. ASSUME NEW y \in Elements(q) \ {x}
          PROVE  y \in Elements(r)
      <3>1. PICK j \in 1..Len(q) : q[j] = y
        BY <2>2 DEF Elements
      <3>2. j \in O
        BY <1>2, <2>2, <3>1
      <3> QED
        BY <1>1, <3>1, <3>2 DEF Elements
    <2> QED
      BY <2>1, <2>2
  <1>4. ASSUME Distinct(q)
        PROVE  Distinct(r)
    BY <1>1, <1>2, <1>4 DEF Distinct
  <1>5. ASSUME Distinct(q)
        PROVE  Len(r) = IF x \in Elements(q) THEN Len(q) - 1 ELSE Len(q)
    <2>1. Cardinality(Elements(q)) = Len(q) /\ IsFiniteSet(Elements(q))
      BY <1>5, DistinctLen
    <2>2. Cardinality(Elements(r)) = Len(r)
      BY <1>1, <1>4, <1>5, DistinctLen
    <2> QED
      BY <1>3, <2>1, <2>2, FS_RemoveElement
  <1> QED
    BY <1>1, <1>3, <1>4, <1>5 DEF r

LEMMA RemovedElements ==
    ASSUME NEW S, NEW q \in Seq(S), NEW x
    PROVE  Elements(queue_remove_pid(q, x)) = Elements(q) \ {x}
  BY RemovedQueue

\* A queue without x stays as it is.
LEMMA RemoveStranger ==
    ASSUME NEW S, NEW q \in Seq(S), NEW x, x \notin Elements(q)
    PROVE  queue_remove_pid(q, x) = q
  <1> DEFINE r == queue_remove_pid(q, x)
             C(j) == Copied(q, x, j)
             Bad == {j \in 0..Len(q) : C(j) # j}
  <1>1. Others(q, x) = 1..Len(q)
    BY DEF Others, Elements
  <1>2. /\ C(0) = 0
        /\ \A j \in 1..Len(q) : C(j) = IF j \in Others(q, x) THEN C(j - 1) + 1 ELSE C(j - 1)
    BY CopiedSteps
  <1>3. /\ r \in Seq(S) /\ Len(r) = Cardinality(1..Len(q))
        /\ \A j \in 1..Len(q) : r[C(j)] = q[j]
    BY <1>1, RemovedPlaces
  <1>4. Len(r) = Len(q)
    <2>1. Len(q) \in Nat
      OBVIOUS
    <2>2. Cardinality(1..Len(q)) = Len(q)
      BY <2>1, UpTo
    <2>3. Len(r) = Cardinality(1..Len(q))
      BY <1>3
    <2> HIDE DEF r
    <2> QED
      BY <2>2, <2>3
  <1> HIDE DEF r, C
  <1>5. Bad = {}
    <2> SUFFICES ASSUME Bad # {} PROVE FALSE
      OBVIOUS
    <2>1. Bad \in SUBSET Nat
      OBVIOUS
    <2>2. PICK m \in Bad : \A y \in Bad : m <= y
      BY <2>1, LeastNat
    <2>3. m \in 1..Len(q) /\ m - 1 \in 0..Len(q) /\ m - 1 \notin Bad
      BY <1>2, <2>2
    <2> QED
      BY <1>1, <1>2, <2>3
  <1>6. \A j \in 1..Len(q) : r[j] = q[j]
    BY <1>3, <1>5
  <1>7. q \in [1..Len(q) -> S] /\ r \in [1..Len(q) -> S]
    BY <1>3, <1>4
  <1> QED
    BY <1>6, <1>7 DEF r

\* Those behind the one that leaves move up.
LEMMA RemoveOne ==
    ASSUME NEW S, NEW q \in Seq(S), Distinct(q), NEW x, NEW j \in 1..Len(q), q[j] = x
    PROVE  queue_remove_pid(q, x) = [n \in 1..(Len(q) - 1) |-> q[IF n < j THEN n ELSE n + 1]]
  <1> DEFINE r == queue_remove_pid(q, x)
             C(l) == Copied(q, x, l)
             D(l) == IF l < j THEN l ELSE l - 1
             Bad == {l \in 0..Len(q) : C(l) # D(l)}
  <1>1. \A l \in 1..Len(q) : l \in Others(q, x) <=> l # j
    BY DEF Others, Distinct
  <1>2. /\ C(0) = 0
        /\ \A l \in 1..Len(q) : C(l) = IF l \in Others(q, x) THEN C(l - 1) + 1 ELSE C(l - 1)
    BY CopiedSteps
  <1>3. /\ r \in Seq(S)
        /\ \A l \in Others(q, x) : r[C(l)] = q[l]
    BY RemovedPlaces
  <1>4. Len(r) = Len(q) - 1
    <2>1. x \in Elements(q)
      BY DEF Elements
    <2> QED
      BY <2>1, RemovedQueue
  <1> HIDE DEF r, C
  <1>5. Bad = {}
    <2> SUFFICES ASSUME Bad # {} PROVE FALSE
      OBVIOUS
    <2>1. Bad \in SUBSET Nat
      OBVIOUS
    <2>2. PICK m \in Bad : \A y \in Bad : m <= y
      BY <2>1, LeastNat
    <2>3. m \in 1..Len(q) /\ m - 1 \in 0..Len(q) /\ m - 1 \notin Bad
      BY <1>2, <2>2
    <2>4. C(m - 1) = D(m - 1) /\ C(m) # D(m)
      BY <2>2, <2>3
    <2>5. CASE m = j
      BY <1>1, <1>2, <2>3, <2>4, <2>5
    <2>6. CASE m # j
      BY <1>1, <1>2, <2>3, <2>4, <2>6
    <2> QED
      BY <2>5, <2>6
  <1>6. ASSUME NEW n \in 1..(Len(q) - 1)
        PROVE  r[n] = q[IF n < j THEN n ELSE n + 1]
    <2>1. CASE n < j
      <3>1. n \in 1..Len(q) /\ n # j /\ C(n) = n
        BY <1>5, <2>1
      <3> QED
        BY <1>1, <1>3, <2>1, <3>1
    <2>2. CASE ~(n < j)
      <3>1. n + 1 \in 1..Len(q) /\ n + 1 # j /\ ~(n + 1 < j)
        BY <2>2
      <3>2. C(n + 1) = n
        BY <1>5, <3>1
      <3>3. r[n] = q[n + 1]
        BY <1>1, <1>3, <3>1, <3>2
      <3> QED
        BY <2>2, <3>3
    <2> QED
      BY <2>1, <2>2
  <1>7. r \in [1..(Len(q) - 1) -> S]
    BY <1>3, <1>4
  <1> QED
    BY <1>6, <1>7 DEF r
=============================================================================
