-------------------------- MODULE FirstFitProofs ----------------------------
(***************************************************************************)
(* Theorems about module FirstFit, for every HEAP_SIZE, Sizes and Word that*)
(* FirstFitAssumption allows.                                              *)
(*                                                                         *)
(* The sums of mm_status are folds over sets.  The first part proves their *)
(* equations: the function that a fold defines exists and is unique, by    *)
(* taking a subset of least cardinality that would be a counterexample.    *)
(***************************************************************************)
EXTENDS FirstFit, FiniteSetTheorems, WellFoundedInduction, TLAPS

\* A non-empty set of naturals has a least element: what the first match of a
\* loop is, and the way an induction over the blocks is written here.
LEMMA MinExists ==
  ASSUME NEW T \in SUBSET Nat, T # {}
  PROVE  \E n \in T : \A m \in T : n <= m
<1> DEFINE R == OpToRel(<, Nat)
<1>1. IsWellFoundedOn(R, Nat)
  BY NatLessThanWellFounded
<1>2. PICK n \in T : \A m \in T : ~(<<m, n>> \in R)
  <2> HIDE DEF R
  <2> QED BY <1>1, WFMin
<1>3. \A m \in T : ~(m < n)
  BY <1>2 DEF OpToRel
<1> QED BY <1>3

\* The block that the fold takes next, what a block adds, and the sets that can
\* be added up.
pick(s) == CHOOSE b \in s : TRUE
bytes(h, b) == HDR + h[b].size
Counted(h, S) == IsFiniteSet(S) /\ \A b \in S : bytes(h, b) \in Nat

\* f adds up the subsets in D the way the fold does
Adds(h, D, f) == f = [s \in D |-> IF s = {} THEN 0 ELSE bytes(h, pick(s)) + f[s \ {pick(s)}]]

\* The subsets of at most n blocks.
UpTo(S, n) == {s \in SUBSET S : Cardinality(s) <= n}

\* Total is the value, at the whole set, of the function that the fold defines.
LEMMA TotalIs ==
  ASSUME NEW h, NEW S
  PROVE  Total(h, S) = (CHOOSE f : Adds(h, SUBSET S, f))[S]
BY DEF Total, MapThenSumSet, MapThenFoldSet, Adds, pick, bytes

\* The fold takes a block of the set ...
LEMMA PickIn ==
  ASSUME NEW s, s # {}
  PROVE  pick(s) \in s
BY DEF pick

\* ... and leaves a smaller one.
LEMMA PickLess ==
  ASSUME NEW S, IsFiniteSet(S), NEW s \in SUBSET S, s # {}
  PROVE  /\ pick(s) \in s /\ s \ {pick(s)} \in SUBSET S
         /\ Cardinality(s) \in Nat /\ Cardinality(s) > 0
         /\ IsFiniteSet(s)
         /\ Cardinality(s \ {pick(s)}) = Cardinality(s) - 1
<1>1. pick(s) \in s
  BY PickIn
<1>2. IsFiniteSet(s)
  BY FS_Subset
<1>3. Cardinality(s) \in Nat /\ Cardinality(s) # 0
  BY <1>2, FS_CardinalityType, FS_EmptySet
<1>4. Cardinality(s \ {pick(s)}) = Cardinality(s) - 1
  BY <1>1, <1>2, FS_RemoveElement
<1>5. s \ {pick(s)} \in SUBSET S
  OBVIOUS
<1> QED BY <1>1, <1>2, <1>3, <1>4, <1>5

\* A function that adds up the subsets of up to n blocks extends to n + 1.
LEMMA AdderUpTo ==
  ASSUME NEW h, NEW S, Counted(h, S), NEW n \in Nat,
         NEW f \in [UpTo(S, n) -> Nat], Adds(h, UpTo(S, n), f)
  PROVE  \E g \in [UpTo(S, n + 1) -> Nat] : Adds(h, UpTo(S, n + 1), g)
<1> DEFINE D == UpTo(S, n)
           E == UpTo(S, n + 1)
           g == [s \in E |-> IF s = {} THEN 0 ELSE bytes(h, pick(s)) + f[s \ {pick(s)}]]
<1>1. D \subseteq E
  <2>1. \A s \in SUBSET S : Cardinality(s) \in Nat
    BY FS_Subset, FS_CardinalityType DEF Counted
  <2> QED BY <2>1 DEF UpTo
<1>2. \A s \in E : s # {} => s \ {pick(s)} \in D /\ bytes(h, pick(s)) \in Nat
  <2> TAKE s \in E
  <2> HAVE s # {}
  <2>1. s \in SUBSET S /\ Cardinality(s) <= n + 1
    BY DEF UpTo
  <2>2. pick(s) \in s /\ s \ {pick(s)} \in SUBSET S /\ Cardinality(s) \in Nat /\ Cardinality(s \ {pick(s)}) = Cardinality(s) - 1
    BY <2>1, PickLess DEF Counted
  <2> QED BY <2>1, <2>2 DEF UpTo, Counted
<1>3. \A s \in D : g[s] = f[s]
  <2> TAKE s \in D
  <2>1. f[s] = IF s = {} THEN 0 ELSE bytes(h, pick(s)) + f[s \ {pick(s)}]
    <3> HIDE DEF D, E, g
    <3> QED BY DEF Adds, D
  <2> QED BY <2>1, <1>1
<1>4. \A s \in E : s # {} => g[s \ {pick(s)}] = f[s \ {pick(s)}]
  <2> HIDE DEF g, D, E
  <2> QED BY <1>2, <1>3
<1>5. g \in [E -> Nat]
  <2>1. \A s \in D : f[s] \in Nat
    OBVIOUS
  <2>2. \A s \in E : (IF s = {} THEN 0 ELSE bytes(h, pick(s)) + f[s \ {pick(s)}]) \in Nat
    <3> TAKE s \in E
    <3>1. CASE s = {}
      BY <3>1
    <3>2. CASE s # {}
      <4>1. s \ {pick(s)} \in D /\ bytes(h, pick(s)) \in Nat
        BY <3>2, <1>2
      <4>2. f[s \ {pick(s)}] \in Nat
        BY <4>1, <2>1
      <4> QED BY <3>2, <4>1, <4>2
    <3> QED BY <3>1, <3>2
  <2> QED BY <2>2
<1>6. Adds(h, E, g)
  <2>1. \A s \in E : g[s] = IF s = {} THEN 0 ELSE bytes(h, pick(s)) + g[s \ {pick(s)}]
    <3> TAKE s \in E
    <3>1. g[s] = IF s = {} THEN 0 ELSE bytes(h, pick(s)) + f[s \ {pick(s)}]
      OBVIOUS
    <3> HIDE DEF g, E
    <3> QED BY <3>1, <1>4
  <2>2. g = [s \in E |-> g[s]]
    OBVIOUS
  <2> HIDE DEF g, E
  <2>3. g = [s \in E |-> IF s = {} THEN 0 ELSE bytes(h, pick(s)) + g[s \ {pick(s)}]]
    BY <2>1, <2>2
  <2> QED BY <2>3 DEF Adds
<1> HIDE DEF g
<1> QED BY <1>5, <1>6

\* Hence there is one for all the subsets: the recursion of the fold is sound.
LEMMA AdderExists ==
  ASSUME NEW h, NEW S, Counted(h, S)
  PROVE  \E f \in [SUBSET S -> Nat] : Adds(h, SUBSET S, f)
<1> DEFINE Has(n) == \E f \in [UpTo(S, n) -> Nat] : Adds(h, UpTo(S, n), f)
           T == {n \in Nat : ~Has(n)}
<1>0. Has(0)
  <2> DEFINE f == [s \in UpTo(S, 0) |-> 0]
  <2>1. \A s \in UpTo(S, 0) : s = {}
    <3> TAKE s \in UpTo(S, 0)
    <3>1. IsFiniteSet(s) /\ Cardinality(s) <= 0
      BY FS_Subset DEF Counted, UpTo
    <3> QED BY <3>1, FS_CardinalityType, FS_EmptySet
  <2>2. f = [s \in UpTo(S, 0) |-> IF s = {} THEN 0 ELSE bytes(h, pick(s)) + f[s \ {pick(s)}]]
    BY <2>1
  <2>3. f \in [UpTo(S, 0) -> Nat]
    OBVIOUS
  <2> HIDE DEF f
  <2> QED BY <2>2, <2>3 DEF Adds
<1>1. \A n \in Nat : Has(n) => Has(n + 1)
  BY AdderUpTo
<1>2. T = {}
  <2> SUFFICES ASSUME T # {} PROVE FALSE
    OBVIOUS
  <2>1. PICK n \in T : \A m \in T : n <= m
    BY MinExists
  <2>2. n # 0 /\ n - 1 \in Nat
    BY <1>0
  <2> HIDE DEF Has
  <2>3. Has(n - 1)
    BY <2>1, <2>2
  <2>4. Has((n - 1) + 1)
    BY <2>3, <2>2, <1>1
  <2> QED BY <2>4, <2>2
<1>3. UpTo(S, Cardinality(S)) = SUBSET S
  <2>1. \A s \in SUBSET S : Cardinality(s) <= Cardinality(S)
    BY FS_Subset DEF Counted
  <2> QED BY <2>1 DEF UpTo
<1>4. Cardinality(S) \in Nat
  BY FS_CardinalityType DEF Counted
<1>5. Has(Cardinality(S))
  <2> HIDE DEF Has
  <2> QED BY <1>2, <1>4
<1> QED BY <1>5, <1>3

\* Two functions that add up agree, when the blocks weigh the same.
LEMMA AdderUnique ==
  ASSUME NEW h, NEW g, NEW S, Counted(h, S), NEW Z, S \subseteq Z,
         \A b \in S : bytes(h, b) = bytes(g, b),
         NEW f1, NEW f2, Adds(h, SUBSET S, f1), Adds(g, SUBSET Z, f2)
  PROVE  f1[S] = f2[S]
<1> DEFINE T == {n \in Nat : \E s \in SUBSET S : Cardinality(s) = n /\ f1[s] # f2[s]}
<1>1. T = {}
  <2> SUFFICES ASSUME T # {} PROVE FALSE
    OBVIOUS
  <2>1. PICK n \in T : \A m \in T : n <= m
    BY MinExists
  <2>2. PICK s \in SUBSET S : Cardinality(s) = n /\ f1[s] # f2[s]
    OBVIOUS
  <2>3. /\ f1[s] = IF s = {} THEN 0 ELSE bytes(h, pick(s)) + f1[s \ {pick(s)}]
        /\ f2[s] = IF s = {} THEN 0 ELSE bytes(g, pick(s)) + f2[s \ {pick(s)}]
    BY DEF Adds
  <2>4. s # {}
    BY <2>2, <2>3
  <2>5. /\ pick(s) \in s /\ s \ {pick(s)} \in SUBSET S
        /\ Cardinality(s \ {pick(s)}) = n - 1 /\ n > 0 /\ n \in Nat
    BY <2>2, <2>4, PickLess DEF Counted
  <2>6. bytes(h, pick(s)) = bytes(g, pick(s))
    BY <2>5
  <2>7. n - 1 \notin T
    BY <2>5, <2>1
  <2>8. f1[s \ {pick(s)}] = f2[s \ {pick(s)}]
    BY <2>7, <2>5
  <2> QED BY <2>2, <2>3, <2>4, <2>6, <2>8
<1>2. Cardinality(S) \in Nat
  BY FS_CardinalityType DEF Counted
<1> QED BY <1>1, <1>2

\* The equations of the sum that mm_status and mm_free make.
LEMMA TotalUnfolds ==
  ASSUME NEW h, NEW S, Counted(h, S)
  PROVE  /\ Total(h, S) \in Nat
         /\ S = {} => Total(h, S) = 0
         /\ S # {} => Total(h, S) = bytes(h, pick(S)) + Total(h, S \ {pick(S)})
<1> DEFINE f == CHOOSE f : Adds(h, SUBSET S, f)
<1>1. Adds(h, SUBSET S, f)
  BY AdderExists
<1>2. PICK e \in [SUBSET S -> Nat] : Adds(h, SUBSET S, e)
  BY AdderExists
<1> HIDE DEF f
<1>3. Total(h, S) = f[S]
  BY TotalIs DEF f
<1>4. f[S] = e[S]
  BY <1>1, <1>2, AdderUnique
<1>5. f[S] = IF S = {} THEN 0 ELSE bytes(h, pick(S)) + f[S \ {pick(S)}]
  BY <1>1 DEF Adds
<1>6. ASSUME S # {} PROVE f[S \ {pick(S)}] = Total(h, S \ {pick(S)})
  <2> DEFINE R == S \ {pick(S)}
             r == CHOOSE r : Adds(h, SUBSET R, r)
  <2>1. R \subseteq S /\ Counted(h, R)
    BY FS_Subset DEF Counted
  <2>2. Adds(h, SUBSET R, r)
    <3> HIDE DEF R
    <3> QED BY <2>1, AdderExists
  <2>3. Total(h, R) = r[R]
    <3> HIDE DEF R
    <3> QED BY TotalIs
  <2> HIDE DEF R, r
  <2>4. r[R] = f[R]
    BY <2>1, <2>2, <1>1, AdderUnique
  <2> QED BY <2>3, <2>4 DEF R
<1> QED BY <1>3, <1>4, <1>5, <1>6

\* Blocks that agree make the same total.
LEMMA TotalSame ==
  ASSUME NEW h, NEW g, NEW S, Counted(h, S), \A b \in S : bytes(h, b) = bytes(g, b)
  PROVE  Total(h, S) = Total(g, S)
<1>1. Counted(g, S)
  BY DEF Counted
<1> DEFINE f1 == CHOOSE f : Adds(h, SUBSET S, f)
           f2 == CHOOSE f : Adds(g, SUBSET S, f)
<1>2. Adds(h, SUBSET S, f1)
  BY AdderExists
<1>3. Adds(g, SUBSET S, f2)
  BY <1>1, AdderExists
<1>4. Total(h, S) = f1[S] /\ Total(g, S) = f2[S]
  BY TotalIs
<1> HIDE DEF f1, f2
<1>5. f1[S] = f2[S]
  BY <1>2, <1>3, AdderUnique
<1> QED BY <1>4, <1>5

\* Part of what can be added up can be added up.
LEMMA SubCounted ==
  ASSUME NEW h, NEW S, Counted(h, S), NEW R \in SUBSET S
  PROVE  Counted(h, R) /\ Total(h, R) \in Nat /\ Cardinality(R) \in Nat
<1>1. Counted(h, R)
  BY FS_Subset DEF Counted
<1> QED BY <1>1, TotalUnfolds, FS_CardinalityType DEF Counted

\* Taking any block away takes its bytes.
LEMMA TotalRemove ==
  ASSUME NEW h, NEW S, Counted(h, S), NEW x \in S
  PROVE  Total(h, S) = bytes(h, x) + Total(h, S \ {x})
<1> DEFINE Holds(s) == \A y \in s : Total(h, s) = bytes(h, y) + Total(h, s \ {y})
           T == {n \in Nat : \E s \in SUBSET S : Cardinality(s) = n /\ ~Holds(s)}
<1>1. T = {}
  <2> SUFFICES ASSUME T # {} PROVE FALSE
    OBVIOUS
  <2>1. PICK n \in T : \A m \in T : n <= m
    BY MinExists
  <2>2. PICK s \in SUBSET S : Cardinality(s) = n /\ ~Holds(s)
    OBVIOUS
  <2>3. PICK y \in s : Total(h, s) # bytes(h, y) + Total(h, s \ {y})
    BY <2>2
  <2> DEFINE p == pick(s)
  <2>4. s # {} /\ p \in s /\ s \ {p} \in SUBSET S /\ Cardinality(s \ {p}) = n - 1 /\ n > 0
    BY <2>2, <2>3, PickLess DEF Counted
  <2>5. Counted(h, s)
    BY SubCounted
  <2> HIDE DEF p
  <2>6. Total(h, s) = bytes(h, p) + Total(h, s \ {p})
    BY <2>4, <2>5, TotalUnfolds DEF p
  <2>7. p # y
    BY <2>3, <2>6
  <2>8. n - 1 \in Nat /\ n - 1 \notin T
    BY <2>1, <2>4
  <2>9. Holds(s \ {p})
    <3> HIDE DEF Holds
    <3> QED BY <2>8, <2>4
  <2>10. Cardinality(s \ {y}) = n - 1
    BY <2>2, <2>5, FS_RemoveElement DEF Counted
  <2>11. Holds(s \ {y})
    <3> HIDE DEF Holds
    <3> QED BY <2>8, <2>10
  <2>12. /\ Total(h, s \ {p}) = bytes(h, y) + Total(h, (s \ {p}) \ {y})
         /\ Total(h, s \ {y}) = bytes(h, p) + Total(h, (s \ {y}) \ {p})
    BY <2>4, <2>7, <2>9, <2>11
  <2>13. (s \ {p}) \ {y} = (s \ {y}) \ {p}
    OBVIOUS
  <2>14. bytes(h, y) \in Nat /\ bytes(h, p) \in Nat
    BY <2>4 DEF Counted
  <2>15. Total(h, (s \ {y}) \ {p}) \in Nat
    BY SubCounted
  <2> HIDE DEF Holds, T
  <2> QED BY <2>3, <2>6, <2>12, <2>13, <2>14, <2>15
<1>2. Cardinality(S) \in Nat
  BY SubCounted
<1> QED BY <1>1, <1>2

\* The total of two sets that share no block.
LEMMA TotalUnion ==
  ASSUME NEW h, NEW P, NEW Q, Counted(h, P), Counted(h, Q), P \cap Q = {}
  PROVE  Total(h, P \cup Q) = Total(h, P) + Total(h, Q)
<1> DEFINE T == {n \in Nat : \E s \in SUBSET P : Cardinality(s) = n /\ Total(h, s \cup Q) # Total(h, s) + Total(h, Q)}
<1>0. Counted(h, P \cup Q)
  BY FS_Union DEF Counted
<1>1. T = {}
  <2> SUFFICES ASSUME T # {} PROVE FALSE
    OBVIOUS
  <2>1. PICK n \in T : \A m \in T : n <= m
    BY MinExists
  <2>2. PICK s \in SUBSET P : Cardinality(s) = n /\ Total(h, s \cup Q) # Total(h, s) + Total(h, Q)
    OBVIOUS
  <2>3. Counted(h, s) /\ Counted(h, s \cup Q) /\ Total(h, Q) \in Nat /\ Total(h, s) \in Nat
    BY <1>0, SubCounted
  <2>4. s # {}
    <3> SUFFICES ASSUME s = {} PROVE FALSE
      OBVIOUS
    <3>1. Total(h, s) = 0 /\ s \cup Q = Q
      BY <2>3, TotalUnfolds
    <3> QED BY <3>1, <2>2, <2>3
  <2>5. PICK y \in s : TRUE
    BY <2>4
  <2>6. Cardinality(s \ {y}) = n - 1 /\ n - 1 \in Nat
    <3>1. Cardinality(s \ {y}) = n - 1
      BY <2>2, <2>3, FS_RemoveElement DEF Counted
    <3>2. IsFiniteSet(s \ {y})
      BY <2>3, FS_Subset DEF Counted
    <3> QED BY <3>1, <3>2, FS_CardinalityType
  <2>7. n - 1 \notin T
    <3> HIDE DEF T
    <3>1. n \in Nat
      BY <2>6, <2>2, <2>3, FS_CardinalityType DEF Counted
    <3> QED BY <2>1, <2>6, <3>1
  <2>8. Total(h, (s \ {y}) \cup Q) = Total(h, s \ {y}) + Total(h, Q)
    BY <2>7, <2>6
  <2>9. Total(h, s) = bytes(h, y) + Total(h, s \ {y})
    BY <2>3, TotalRemove
  <2>10. Total(h, s \cup Q) = bytes(h, y) + Total(h, (s \cup Q) \ {y})
    BY <2>3, TotalRemove
  <2>11. (s \cup Q) \ {y} = (s \ {y}) \cup Q
    OBVIOUS
  <2>12. bytes(h, y) \in Nat /\ Total(h, s \ {y}) \in Nat
    BY <2>3, SubCounted DEF Counted
  <2> HIDE DEF T
  <2> QED BY <2>2, <2>3, <2>8, <2>9, <2>10, <2>11, <2>12
<1>2. Cardinality(P) \in Nat
  BY SubCounted
<1> QED BY <1>1, <1>2

-----------------------------------------------------------------------------
(***************************************************************************)
(* Lists that tile the heap, and the three ways in which the code changes  *)
(* one: a split, a fusion, a flag.                                         *)
(***************************************************************************)

\* Where the block b of the list h ends.
Stop(h, b) == b + HDR + h[b].size

\* The list h covers the heap from 0 to HEAP_SIZE, block after block.
Tiles(h) ==
    /\ IsFiniteSet(DOMAIN h)
    /\ h \in [DOMAIN h -> MemBlock]
    /\ DOMAIN h \subseteq Nat
    /\ 0 \in DOMAIN h
    /\ \A b \in DOMAIN h : h[b].size > 0 /\ Stop(h, b) <= HEAP_SIZE
    /\ \A b \in DOMAIN h : IF h[b].next = NULL THEN Stop(h, b) = HEAP_SIZE
                           ELSE h[b].next \in DOMAIN h /\ h[b].next = Stop(h, b)
    /\ \A b, c \in DOMAIN h : b < c => Stop(h, b) <= c
    /\ Total(h, DOMAIN h) = HEAP_SIZE

\* No free block is followed by a free block, other than the ones of Z.
FusedBut(h, Z) == \A b \in DOMAIN h :
    (h[b].is_free /\ h[b].next # NULL /\ h[b].next \notin Z) => ~h[h[b].next].is_free

\* The fields of a header.
LEMMA BlockFields ==
  ASSUME NEW r \in MemBlock
  PROVE  /\ r.size \in Nat /\ r.is_free \in BOOLEAN /\ r.is_kernel \in BOOLEAN /\ r.next \in Int
BY DEF MemBlock

\* What the tiling says of one block.
LEMMA TilesFacts ==
  ASSUME NEW h, Tiles(h), NEW b \in DOMAIN h
  PROVE  /\ b \in Nat /\ h[b] \in MemBlock
         /\ h[b].size \in Nat /\ h[b].size > 0 /\ h[b].next \in Int
         /\ h[b].is_free \in BOOLEAN /\ h[b].is_kernel \in BOOLEAN
         /\ bytes(h, b) = HDR + h[b].size /\ bytes(h, b) \in Nat
         /\ Stop(h, b) \in Nat /\ Stop(h, b) > b + HDR /\ Stop(h, b) <= HEAP_SIZE
         /\ h[b].next = NULL => Stop(h, b) = HEAP_SIZE
         /\ h[b].next # NULL => h[b].next \in DOMAIN h /\ h[b].next = Stop(h, b)
<1>1. b \in Nat /\ h[b] \in MemBlock
  BY DEF Tiles
<1>2. h[b].size \in Nat /\ h[b].next \in Int /\ h[b].is_free \in BOOLEAN /\ h[b].is_kernel \in BOOLEAN
  BY <1>1, BlockFields
<1>3. h[b].size > 0 /\ Stop(h, b) <= HEAP_SIZE
  BY DEF Tiles
<1>4. /\ h[b].next = NULL => Stop(h, b) = HEAP_SIZE
      /\ h[b].next # NULL => h[b].next \in DOMAIN h /\ h[b].next = Stop(h, b)
  BY DEF Tiles
<1>5. Stop(h, b) = b + HDR + h[b].size /\ bytes(h, b) = HDR + h[b].size
  BY DEF Stop, bytes
<1>6. HDR = 24
  BY DEF HDR
<1> QED BY <1>1, <1>2, <1>3, <1>4, <1>5, <1>6

\* Blocks do not overlap.
LEMMA Disjoint ==
  ASSUME NEW h, Tiles(h), NEW b \in DOMAIN h, NEW c \in DOMAIN h, b < c
  PROVE  Stop(h, b) <= c
BY DEF Tiles

\* The blocks of a tiling can be added up.
LEMMA TilesCounted ==
  ASSUME NEW h, Tiles(h)
  PROVE  Counted(h, DOMAIN h)
BY TilesFacts DEF Counted, Tiles

\* Two blocks taken apart
LEMMA TotalTwo ==
  ASSUME NEW h, NEW S, Counted(h, S), NEW x \in S, NEW y \in S, x # y
  PROVE  /\ Total(h, S) = bytes(h, x) + bytes(h, y) + Total(h, S \ {x, y})
         /\ bytes(h, x) \in Nat /\ bytes(h, y) \in Nat /\ Total(h, S \ {x, y}) \in Nat
         /\ Counted(h, S \ {x, y})
<1>1. Total(h, S) = bytes(h, x) + Total(h, S \ {x})
  BY TotalRemove
<1>2. Counted(h, S \ {x}) /\ Counted(h, S \ {x, y}) /\ Total(h, S \ {x, y}) \in Nat
  BY SubCounted
<1>3. Total(h, S \ {x}) = bytes(h, y) + Total(h, (S \ {x}) \ {y})
  BY <1>2, TotalRemove
<1>4. (S \ {x}) \ {y} = S \ {x, y}
  OBVIOUS
<1>5. bytes(h, x) \in Nat /\ bytes(h, y) \in Nat
  BY DEF Counted
<1> QED BY <1>1, <1>2, <1>3, <1>4, <1>5

\* The block p absorbs q, which follows it.
Fuse(h, p, q) ==
    [c \in DOMAIN h \ {q} |->
        IF c = p THEN [h[p] EXCEPT !.size = @ + HDR + h[q].size, !.next = h[q].next]
        ELSE h[c]]

\* A block follows at most one block.
LEMMA OneNext ==
  ASSUME NEW h, Tiles(h), NEW b \in DOMAIN h, NEW c \in DOMAIN h,
         h[b].next # NULL, h[c].next = h[b].next
  PROVE  b = c
<1>1. Stop(h, b) = Stop(h, c) /\ b \in Nat /\ c \in Nat /\ Stop(h, b) > b /\ Stop(h, c) > c
      /\ Stop(h, b) \in Nat /\ HDR = 24
  <2>1. HDR = 24
    BY DEF HDR
  <2> QED BY TilesFacts, <2>1
<1>2. b < c => Stop(h, b) <= c
  BY Disjoint
<1>3. c < b => Stop(h, c) <= b
  BY Disjoint
<1> QED BY <1>1, <1>2, <1>3

\* What that leaves as it was.
Absorbed(h, g, p, q) ==
    /\ p # q /\ p \in DOMAIN h /\ q \in DOMAIN h /\ DOMAIN g = DOMAIN h \ {q}
    /\ g[p].next = h[q].next /\ g[p].is_free = h[p].is_free
    /\ \A c \in DOMAIN g \ {p} : g[c] = h[c]

\* A fusion loses no byte.
LEMMA FuseTiles ==
  ASSUME NEW h, Tiles(h), NEW p \in DOMAIN h, NEW q, h[p].next = q, q # NULL
  PROVE  Tiles(Fuse(h, p, q)) /\ Absorbed(h, Fuse(h, p, q), p, q)
<1> DEFINE g == Fuse(h, p, q)
           D == DOMAIN h
           E == DOMAIN h \ {q}
<1>1. q \in D /\ q = Stop(h, p) /\ p \in Nat /\ q \in Nat /\ p < q /\ HDR = 24
  <2>1. HDR = 24
    BY DEF HDR
  <2> QED BY TilesFacts, <2>1
<1>2. DOMAIN g = E /\ p \in E /\ E \subseteq D
  BY <1>1 DEF Fuse
<1>3. h[p] \in MemBlock /\ h[q] \in MemBlock
  BY <1>1, TilesFacts
<1>4. /\ g[p] \in MemBlock
      /\ g[p].size = h[p].size + HDR + h[q].size /\ g[p].next = h[q].next
      /\ g[p].is_free = h[p].is_free /\ g[p].is_kernel = h[p].is_kernel
  <2>1. g[p] = [h[p] EXCEPT !.size = @ + HDR + h[q].size, !.next = h[q].next]
    BY <1>2 DEF Fuse
  <2>3. h[p].size + HDR + h[q].size \in Nat /\ h[q].next \in Int
    BY <1>1, TilesFacts
  <2>4. g[p] = [h[p] EXCEPT !.size = h[p].size + HDR + h[q].size, !.next = h[q].next]
    BY <2>1, <1>3
  <2> DEFINE r == h[p]
             n == h[p].size + HDR + h[q].size
             x == h[q].next
             w == g[p]
  <2>5. r \in MemBlock /\ n \in Nat /\ x \in Int /\ w = [r EXCEPT !.size = n, !.next = x]
    BY <2>3, <2>4, <1>3
  <2> HIDE DEF r, n, x, w
  <2>6. w \in MemBlock /\ w.size = n /\ w.next = x /\ w.is_free = r.is_free /\ w.is_kernel = r.is_kernel
    BY ONLY <2>5 DEF MemBlock
  <2> QED BY <2>6 DEF r, n, x, w
<1>5. \A c \in E \ {p} : g[c] = h[c]
  BY DEF Fuse
<1>6. Stop(g, p) = Stop(h, q) /\ \A c \in E \ {p} : Stop(g, c) = Stop(h, c)
  <2>1. Stop(g, p) = p + HDR + g[p].size /\ Stop(h, q) = q + HDR + h[q].size /\ Stop(h, p) = p + HDR + h[p].size
    BY DEF Stop
  <2>2. h[p].size \in Nat /\ h[q].size \in Nat
    BY <1>1, TilesFacts
  <2>3. Stop(g, p) = Stop(h, q)
    BY <2>1, <2>2, <1>1, <1>4
  <2> HIDE DEF g
  <2> QED BY <2>3, <1>5 DEF Stop
<1> HIDE DEF g
<1>7. IsFiniteSet(E) /\ E \subseteq Nat /\ 0 \in E
  <2>1. IsFiniteSet(D) /\ D \subseteq Nat /\ 0 \in D
    BY DEF Tiles
  <2>2. IsFiniteSet(E)
    BY <2>1, FS_Subset
  <2> QED BY <2>1, <2>2, <1>1
<1>8. g \in [E -> MemBlock]
  <2>1. \A c \in E : g[c] \in MemBlock
    BY <1>4, <1>5, <1>2, TilesFacts
  <2>2. g = [c \in E |-> g[c]]
    BY <1>2 DEF g, Fuse
  <2> QED BY <2>1, <2>2
<1>9. \A c \in E : g[c].size > 0 /\ Stop(g, c) <= HEAP_SIZE
  <2>1. \A c \in E \ {p} : g[c].size > 0 /\ Stop(g, c) <= HEAP_SIZE
    BY <1>5, <1>6, TilesFacts
  <2>2. g[p].size > 0 /\ Stop(g, p) <= HEAP_SIZE
    <3>1. h[p].size \in Nat /\ h[q].size \in Nat /\ h[p].size > 0
      BY <1>1, TilesFacts
    <3>2. Stop(h, q) <= HEAP_SIZE
      BY <1>1, TilesFacts
    <3> QED BY <3>1, <3>2, <1>4, <1>6, <1>1
  <2> QED BY <2>1, <2>2
<1>10. \A c \in E : IF g[c].next = NULL THEN Stop(g, c) = HEAP_SIZE
                    ELSE g[c].next \in E /\ g[c].next = Stop(g, c)
  <2>1. ASSUME NEW c \in E \ {p}
        PROVE  IF g[c].next = NULL THEN Stop(g, c) = HEAP_SIZE
               ELSE g[c].next \in E /\ g[c].next = Stop(g, c)
    <3>1. g[c] = h[c] /\ Stop(g, c) = Stop(h, c) /\ c \in D /\ c # p
      BY <1>5, <1>6
    <3>2. h[c].next # q
      BY <3>1, OneNext
    <3> QED BY <3>1, <3>2, TilesFacts
  <2>2. IF g[p].next = NULL THEN Stop(g, p) = HEAP_SIZE
        ELSE g[p].next \in E /\ g[p].next = Stop(g, p)
    <3>1. Stop(h, q) > q /\ Stop(h, q) \in Nat
      BY <1>1, TilesFacts
    <3> QED BY <3>1, <1>1, <1>4, <1>6, TilesFacts
  <2> QED BY <2>1, <2>2
<1>11. \A b, c \in E : b < c => Stop(g, b) <= c
  <2> TAKE b, c \in E
  <2> HAVE b < c
  <2>1. CASE b = p
    <3>1. Stop(h, p) <= c
      BY <2>1, Disjoint
    <3>2. q < c
      BY <3>1, <1>1, <1>7
    <3> QED BY <3>2, <2>1, <1>1, <1>6, Disjoint
  <2>2. CASE b # p
    BY <2>2, <1>6, Disjoint
  <2> QED BY <2>1, <2>2
<1>12. Total(g, E) = HEAP_SIZE
  <2>1. Counted(h, D) /\ Total(h, D) = HEAP_SIZE
    BY TilesCounted DEF Tiles
  <2>2. /\ Total(h, D) = bytes(h, p) + bytes(h, q) + Total(h, D \ {p, q})
        /\ bytes(h, p) \in Nat /\ bytes(h, q) \in Nat /\ Total(h, D \ {p, q}) \in Nat
        /\ Counted(h, D \ {p, q})
    BY <2>1, <1>1, TotalTwo
  <2>3. bytes(g, p) = bytes(h, p) + bytes(h, q)
    <3>1. h[p].size \in Nat /\ h[q].size \in Nat
      BY <1>1, TilesFacts
    <3> QED BY <1>4, <3>1, <1>1 DEF bytes
  <2>4. Counted(g, E)
    <3>1. \A c \in E : g[c].size \in Nat
      BY <1>8, BlockFields
    <3> QED BY <3>1, <1>7, <1>1 DEF Counted, bytes
  <2>5. Total(g, E) = bytes(g, p) + Total(g, E \ {p})
    BY <2>4, <1>2, TotalRemove
  <2>6. E \ {p} = D \ {p, q}
    OBVIOUS
  <2>7. Total(h, D \ {p, q}) = Total(g, D \ {p, q})
    BY <2>2, <1>5, TotalSame DEF bytes
  <2> QED BY <2>1, <2>2, <2>3, <2>5, <2>6, <2>7
<1>13. Tiles(g)
  BY <1>2, <1>7, <1>8, <1>9, <1>10, <1>11, <1>12 DEF Tiles
<1> QED BY <1>13, <1>1, <1>2, <1>4, <1>5 DEF g, Absorbed

\* Flags
LEMMA ReflagTiles ==
  ASSUME NEW h, Tiles(h), NEW g \in [DOMAIN h -> MemBlock],
         \A c \in DOMAIN h : g[c].size = h[c].size /\ g[c].next = h[c].next
  PROVE  Tiles(g)
<1>1. DOMAIN g = DOMAIN h
  OBVIOUS
<1>2. \A c \in DOMAIN h : Stop(g, c) = Stop(h, c) /\ bytes(g, c) = bytes(h, c)
  BY DEF Stop, bytes
<1>3. Total(h, DOMAIN h) = Total(g, DOMAIN h)
  BY <1>2, TilesCounted, TotalSame
<1> QED BY <1>1, <1>2, <1>3 DEF Tiles

\* The block b gives n bytes and the rest becomes a block of its own.
Split(h, b, n, k) ==
    LET s == b + HDR + n
    IN  [c \in DOMAIN h \cup {s} |->
           IF c = b
             THEN [size |-> n, is_free |-> FALSE, is_kernel |-> k, next |-> s]
           ELSE IF c = s
             THEN [size |-> h[b].size - n - HDR, is_free |-> TRUE,
                   is_kernel |-> FALSE, next |-> h[b].next]
           ELSE h[c]]

\* What the split makes of b and of the rest.
SplitOff(h, g, b, s, n, k) ==
    /\ DOMAIN g = DOMAIN h \cup {s} /\ s \notin DOMAIN h /\ s # NULL
    /\ g[b].size = n /\ g[b].is_free = FALSE /\ g[b].is_kernel = k /\ g[b].next = s
    /\ g[s].is_free = TRUE /\ g[s].next = h[b].next
    /\ \A c \in DOMAIN h \ {b} : g[c] = h[c]

\* A split loses no byte.
LEMMA SplitTiles ==
  ASSUME NEW h, Tiles(h), NEW b \in DOMAIN h, NEW n \in Nat, n > 0,
         h[b].size >= n + MIN_SPLIT, NEW k \in BOOLEAN,
         NEW s, s = b + HDR + n,
         NEW g, g = Split(h, b, n, k)
  PROVE  Tiles(g) /\ SplitOff(h, g, b, s, n, k)
<1> DEFINE D == DOMAIN h
           E == D \cup {s}
<1>1. /\ HDR = 24 /\ MIN_SPLIT = 32 /\ NULL = -1
  BY DEF HDR, MIN_SPLIT, NULL
<1>2. /\ b \in Nat /\ s \in Nat /\ s > b + HDR /\ s # b /\ s # NULL
      /\ h[b].size \in Nat /\ h[b].next \in Int
      /\ Stop(h, b) = b + HDR + h[b].size /\ Stop(h, b) > s + HDR
      /\ Stop(h, b) \in Nat /\ Stop(h, b) <= HEAP_SIZE
  <2>1. b \in Nat /\ h[b].size \in Nat /\ h[b].next \in Int
        /\ Stop(h, b) \in Nat /\ Stop(h, b) <= HEAP_SIZE
    BY TilesFacts
  <2> QED BY <2>1, <1>1 DEF Stop
<1>3. s \notin D
  BY <1>2, <1>1, Disjoint
<1>4. DOMAIN g = E
  BY DEF Split
<1>5. /\ g[b] = [size |-> n, is_free |-> FALSE, is_kernel |-> k, next |-> s]
      /\ g[s] = [size |-> h[b].size - n - HDR, is_free |-> TRUE, is_kernel |-> FALSE, next |-> h[b].next]
      /\ \A c \in D \ {b} : g[c] = h[c]
  BY <1>2, <1>3 DEF Split
<1>6. h[b].size - n - HDR \in Nat /\ h[b].size - n - HDR > 0
  BY <1>1, <1>2
<1>7. g \in [E -> MemBlock]
  <2>1. g[b] \in MemBlock
    BY ONLY <1>5, <1>2, n \in Nat, k \in BOOLEAN DEF MemBlock
  <2>2. g[s] \in MemBlock
    BY ONLY <1>5, <1>2, <1>6 DEF MemBlock
  <2>3. \A c \in E : g[c] \in MemBlock
    BY <2>1, <2>2, <1>5, TilesFacts
  <2>4. g = [c \in E |-> g[c]]
    BY DEF Split
  <2> QED BY <2>3, <2>4
<1>8. /\ g[b].size = n /\ g[b].next = s /\ g[b].is_free = FALSE /\ g[b].is_kernel = k
      /\ g[s].size = h[b].size - n - HDR /\ g[s].next = h[b].next /\ g[s].is_free = TRUE
  BY ONLY <1>5
<1>9. Stop(g, b) = s /\ Stop(g, s) = Stop(h, b) /\ \A c \in D \ {b} : Stop(g, c) = Stop(h, c)
  <2>1. Stop(g, b) = s
    BY <1>8 DEF Stop
  <2>2. Stop(g, s) = s + HDR + (h[b].size - n - HDR)
    BY <1>8 DEF Stop
  <2>3. Stop(g, s) = Stop(h, b)
    BY <2>2, <1>1, <1>2
  <2>4. \A c \in D \ {b} : Stop(g, c) = Stop(h, c)
    BY <1>5 DEF Stop
  <2> QED BY <2>1, <2>3, <2>4
<1>10. /\ IsFiniteSet(D) /\ D \subseteq Nat /\ 0 \in D
  BY DEF Tiles
<1>11. IsFiniteSet(E)
  BY <1>10, FS_AddElement
<1>12. \A c \in E : g[c].size > 0 /\ Stop(g, c) <= HEAP_SIZE
  <2>1. \A c \in D \ {b} : g[c].size > 0 /\ Stop(g, c) <= HEAP_SIZE
    BY <1>5, <1>9, TilesFacts
  <2>2. g[b].size > 0 /\ Stop(g, b) <= HEAP_SIZE
    <3>1. HEAP_SIZE \in Nat
      BY FirstFitAssumption
    <3> QED BY <1>1, <1>2, <1>8, <1>9, <3>1
  <2>3. g[s].size > 0 /\ Stop(g, s) <= HEAP_SIZE
    BY <1>2, <1>6, <1>8, <1>9
  <2> QED BY <2>1, <2>2, <2>3
<1>13. \A c \in E : IF g[c].next = NULL THEN Stop(g, c) = HEAP_SIZE
                    ELSE g[c].next \in E /\ g[c].next = Stop(g, c)
  <2>1. \A c \in D \ {b} : IF g[c].next = NULL THEN Stop(g, c) = HEAP_SIZE
                    ELSE g[c].next \in E /\ g[c].next = Stop(g, c)
    BY ONLY <1>5, <1>9, TilesFacts, Tiles(h)
  <2>2. CASE TRUE
    BY <2>1, <1>2, <1>8, <1>9, TilesFacts
  <2> QED BY <2>2
<1>14. \A x, y \in E : x < y => Stop(g, x) <= y
  <2> TAKE x, y \in E
  <2> HAVE x < y
  <2>0. x \in Nat /\ y \in Nat
    BY <1>10, <1>2
  <2>1. CASE x = b /\ y = s
    BY <2>1, <1>9, <1>2
  <2>2. CASE x = b /\ y # s
    <3>1. Stop(h, b) <= y
      BY <2>2, Disjoint
    <3> QED BY <3>1, <2>2, <2>0, <1>9, <1>2, <1>1
  <2>3. CASE x = s
    <3>1. y \in D /\ b < y
      BY <2>3, <2>0, <1>2, <1>1
    <3>2. Stop(h, b) <= y
      BY <3>1, Disjoint
    <3> QED BY <3>2, <2>3, <1>9
  <2>4. CASE x \in D \ {b} /\ y = s
    <3>1. ~(b < x)
      <4> SUFFICES ASSUME b < x PROVE FALSE
        OBVIOUS
      <4>1. Stop(h, b) <= x
        BY <2>4, Disjoint
      <4> QED BY <4>1, <2>4, <2>0, <1>2, <1>1
    <3>2. x < b
      BY <3>1, <2>4, <2>0, <1>2
    <3>3. Stop(h, x) <= b /\ Stop(h, x) \in Nat
      BY <3>2, <2>4, Disjoint, TilesFacts
    <3>4. Stop(g, x) = Stop(h, x)
      BY <2>4, <1>9
    <3> QED BY ONLY <3>3, <3>4, <2>4, <1>2, <1>1
  <2>5. CASE x \in D \ {b} /\ y \in D
    BY ONLY <2>5, <1>9, Disjoint, Tiles(h), x < y, x \in E, y \in E
  <2> QED BY <2>1, <2>2, <2>3, <2>4, <2>5
<1>15. Total(g, E) = HEAP_SIZE
  <2>1. Counted(h, D) /\ Total(h, D) = HEAP_SIZE
    BY TilesCounted DEF Tiles
  <2>2. Total(h, D) = bytes(h, b) + Total(h, D \ {b}) /\ Counted(h, D \ {b}) /\ Total(h, D \ {b}) \in Nat
    BY <2>1, TotalRemove, SubCounted
  <2>3. bytes(h, b) = bytes(g, b) + bytes(g, s) /\ bytes(h, b) \in Nat
    <3>1. bytes(h, b) = HDR + h[b].size /\ bytes(g, b) = HDR + n /\ bytes(g, s) = HDR + (h[b].size - n - HDR)
      BY <1>8 DEF bytes
    <3> QED BY <3>1, <1>1, <1>2
  <2>4. Counted(g, E)
    <3>1. \A c \in E : g[c].size \in Nat
      BY <1>7, BlockFields
    <3> QED BY ONLY <3>1, <1>11, <1>1 DEF Counted, bytes
  <2>5. /\ Total(g, E) = bytes(g, b) + bytes(g, s) + Total(g, E \ {b, s})
    BY <2>4, <1>2, TotalTwo
  <2>6. E \ {b, s} = D \ {b}
    BY <1>3
  <2>7. Total(h, D \ {b}) = Total(g, D \ {b})
    BY <2>2, <1>5, TotalSame DEF bytes
  <2> QED BY <2>1, <2>2, <2>3, <2>5, <2>6, <2>7
<1>16. Tiles(g)
  BY <1>2, <1>4, <1>7, <1>10, <1>11, <1>12, <1>13, <1>14, <1>15 DEF Tiles
<1> QED BY <1>16, <1>2, <1>3, <1>4, <1>5, <1>8 DEF SplitOff

-----------------------------------------------------------------------------
(***************************************************************************)
(* malloc_impl and mm_free.                                                *)
(***************************************************************************)

\* The invariant: the list tiles the heap and has no two free blocks in a row.
\* The second part makes the loop of mm_free stop after one fusion, and makes the
\* search honest.
Inv == Tiles(heap) /\ FusedBut(heap, {})

\* 64 bits: sizes do not wrap
LEMMA AlignedUp ==
  ASSUME NEW size \in Sizes
  PROVE  /\ size \in Nat /\ aligned(size) \in Nat /\ aligned(size) >= size
         /\ size # 0 => aligned(size) > 0
<1>1. size \in Nat /\ Word \in Nat /\ size + 7 \in 0..(Word - 1) /\ Word > 0
  BY FirstFitAssumption
<1>2. (size + 7) % Word = size + 7
  BY <1>1
<1> DEFINE n == size + 7
<1>3. n \in Nat /\ n = 8 * (n \div 8) + (n % 8) /\ n % 8 \in 0..7 /\ n \div 8 \in Nat
  BY <1>1
<1>4. aligned(size) = (n \div 8) * 8
  BY <1>2 DEF aligned
<1> QED BY <1>1, <1>3, <1>4

\* The comparison with size + MIN_SPLIT does not wrap around for a block that
\* the search accepts.
LEMMA SplitDoesNotWrap ==
  ASSUME Tiles(heap), NEW size \in Nat, NEW b \in Candidates(size)
  PROVE  (splits(b, size) <=> heap[b].size >= size + MIN_SPLIT)
<1>1. b \in DOMAIN heap /\ heap[b].size >= size
  BY DEF Candidates, Blocks
<1>2. heap[b].size \in Nat /\ Stop(heap, b) <= HEAP_SIZE /\ b \in Nat
  BY <1>1, TilesFacts
<1>3. HDR = 24 /\ MIN_SPLIT = 32
  BY DEF HDR, MIN_SPLIT
<1>4. size <= HEAP_SIZE /\ HEAP_SIZE \in Nat
  BY <1>1, <1>2, <1>3, FirstFitAssumption DEF Stop
<1>5. size + MIN_SPLIT \in 0..(Word - 1) /\ Word \in Nat /\ Word > 0
  BY <1>3, <1>4, FirstFitAssumption
<1>6. (size + MIN_SPLIT) % Word = size + MIN_SPLIT
  BY <1>5
<1> QED BY <1>6 DEF splits

\* The search ends at a block when there is one.
LEMMA FirstCandidate ==
  ASSUME Tiles(heap), NEW size \in Nat, Candidates(size) # {}
  PROVE  Min(Candidates(size)) \in Candidates(size)
<1>1. Candidates(size) \in SUBSET Nat
  BY TilesFacts DEF Candidates, Blocks
<1>2. \E n \in Candidates(size) : \A m \in Candidates(size) : n <= m
  BY <1>1, MinExists
<1> QED BY <1>2 DEF Min

\* What a step does to the blocks in use
Used(h) == {b \in DOMAIN h : ~h[b].is_free}

\* malloc_impl hands out one free block, at least as big as was asked, and keeps
\* the invariant; the blocks in use stay as they are.
LEMMA MallocStep ==
  ASSUME Inv, NEW size \in Sizes, NEW k \in BOOLEAN, malloc_impl(size, k)
  PROVE  /\ Inv'
         /\ \E b \in DOMAIN heap :
              /\ heap[b].is_free /\ b \in DOMAIN heap'
              /\ ~heap'[b].is_free /\ heap'[b].is_kernel = k
              /\ heap'[b].size >= size /\ Stop(heap', b) <= Stop(heap, b)
              /\ Used(heap') = Used(heap) \cup {b}
              /\ \A c \in Used(heap) : heap'[c] = heap[c]
<1> DEFINE n == aligned(size)
           b == Min(Candidates(n))
<1>1. size \in Nat /\ n \in Nat /\ n >= size /\ n > 0 /\ Candidates(n) # {} /\ heap' = taken(b, n, k)
  BY AlignedUp DEF malloc_impl
<1> HIDE DEF n
<1>2. b \in Candidates(n) /\ Tiles(heap)
  BY <1>1, FirstCandidate DEF Inv
<1> HIDE DEF b
<1>3. b \in DOMAIN heap /\ heap[b].is_free /\ heap[b].size >= n
  BY <1>2 DEF Candidates, Blocks
<1>4. splits(b, n) <=> heap[b].size >= n + MIN_SPLIT
  BY <1>1, <1>2, SplitDoesNotWrap
<1>5. \A c \in DOMAIN heap : heap[c].is_free /\ heap[c].next # NULL => ~heap[heap[c].next].is_free
  BY DEF Inv, FusedBut
<1>6. CASE splits(b, n)
  <2> DEFINE s == b + HDR + n
             g == heap'
  <2>1. g = Split(heap, b, n, k)
    BY <1>1, <1>6 DEF taken, Split, Blocks
  <2>2. heap[b].size >= n + MIN_SPLIT
    BY <1>4, <1>6
  <2> HIDE DEF s, g
  <2>3. /\ Tiles(g) /\ DOMAIN g = DOMAIN heap \cup {s} /\ s \notin DOMAIN heap /\ s # NULL
        /\ g[b].size = n /\ g[b].is_free = FALSE /\ g[b].is_kernel = k /\ g[b].next = s
        /\ g[s].is_free = TRUE /\ g[s].next = heap[b].next
        /\ \A c \in DOMAIN heap \ {b} : g[c] = heap[c]
    <3>1. s = b + HDR + n
      BY DEF s
    <3>2. Tiles(heap) /\ b \in DOMAIN heap /\ n \in Nat /\ n > 0 /\ k \in BOOLEAN
      BY <1>1, <1>2, <1>3
    <3>3. Tiles(g) /\ SplitOff(heap, g, b, s, n, k)
      BY <3>1, <3>2, <2>1, <2>2, SplitTiles
    <3> QED BY ONLY <3>3 DEF SplitOff
  <2>4. FusedBut(g, {})
    <3> SUFFICES ASSUME NEW c \in DOMAIN g, g[c].is_free, g[c].next # NULL
                 PROVE  ~g[g[c].next].is_free
      BY DEF FusedBut
    <3>1. c # b
      BY <2>3
    <3>2. PICK a \in DOMAIN heap : heap[a].is_free /\ g[c].next = heap[a].next
      BY ONLY <3>1, <2>3, <1>3, c \in DOMAIN g, g[c].is_free
    <3>3. heap[a].next \in DOMAIN heap /\ ~heap[heap[a].next].is_free
      BY <3>2, <1>2, <1>5, TilesFacts
    <3>4. heap[a].next # b
      BY <3>3, <1>3
    <3> QED BY <3>2, <3>3, <3>4, <2>3
  <2>5. Stop(g, b) <= Stop(heap, b)
    <3>1. b \in Nat /\ heap[b].size \in Nat /\ HDR = 24
      BY <1>2, <1>3, TilesFacts DEF HDR
    <3> QED BY <3>1, <1>1, <1>3, <2>3 DEF Stop
  <2>6. Used(g) = Used(heap) \cup {b}
    BY <2>3, <1>3 DEF Used
  <2>7. \A c \in Used(heap) : g[c] = heap[c]
    BY <2>3, <1>3 DEF Used
  <2>8. Inv'
    BY <2>3, <2>4 DEF Inv, g
  <2> QED BY <2>3, <2>5, <2>6, <2>7, <2>8, <1>1, <1>3 DEF g
<1>7. CASE ~splits(b, n)
  <2> DEFINE g == heap'
  <2>1. g = [heap EXCEPT ![b].is_free = FALSE, ![b].is_kernel = k]
    BY <1>1, <1>7 DEF taken
  <2> HIDE DEF g
  <2>2. heap \in [DOMAIN heap -> MemBlock]
    BY <1>2 DEF Tiles
  <2>3. DOMAIN g = DOMAIN heap /\ \A c \in DOMAIN heap \ {b} : g[c] = heap[c]
    BY <2>1, <2>2
  <2>4. /\ g[b] \in MemBlock /\ g[b].is_free = FALSE /\ g[b].is_kernel = k
        /\ g[b].size = heap[b].size /\ g[b].next = heap[b].next
    <3> DEFINE r == heap[b]
               w == g[b]
    <3>1. r \in MemBlock /\ w = [r EXCEPT !.is_free = FALSE, !.is_kernel = k]
      BY <2>1, <2>2, <1>3
    <3> HIDE DEF r, w
    <3>2. /\ w \in MemBlock /\ w.is_free = FALSE /\ w.is_kernel = k
          /\ w.size = r.size /\ w.next = r.next
      BY ONLY <3>1, k \in BOOLEAN DEF MemBlock
    <3> QED BY <3>2 DEF r, w
  <2>5. g \in [DOMAIN heap -> MemBlock]
    <3>1. \A c \in DOMAIN heap : g[c] \in MemBlock
      BY <2>2, <2>3, <2>4
    <3>2. g = [c \in DOMAIN heap |-> g[c]]
      BY <2>1, <2>2
    <3> QED BY <3>1, <3>2
  <2>6. \A c \in DOMAIN heap : g[c].size = heap[c].size /\ g[c].next = heap[c].next
    BY <2>3, <2>4
  <2>7. Tiles(g)
    BY <1>2, <2>5, <2>6, ReflagTiles
  <2>8. FusedBut(g, {})
    <3> SUFFICES ASSUME NEW c \in DOMAIN g, g[c].is_free, g[c].next # NULL
                 PROVE  ~g[g[c].next].is_free
      BY DEF FusedBut
    <3>1. c # b /\ g[c] = heap[c] /\ c \in DOMAIN heap
      BY <2>3, <2>4
    <3>2. heap[c].next \in DOMAIN heap /\ ~heap[heap[c].next].is_free
      BY <3>1, <1>2, <1>5, TilesFacts
    <3> QED BY <3>1, <3>2, <2>3, <1>3
  <2>9. Stop(g, b) = Stop(heap, b) /\ Stop(heap, b) \in Nat
    BY <2>4, <1>2, <1>3, TilesFacts DEF Stop
  <2>10. Used(g) = Used(heap) \cup {b}
    BY <2>3, <2>4, <1>3 DEF Used
  <2>11. \A c \in Used(heap) : g[c] = heap[c]
    BY <2>3, <1>3 DEF Used
  <2>12. Inv'
    BY <2>7, <2>8 DEF Inv, g
  <2>13. g[b].size >= size
    <3>1. heap[b].size \in Nat
      BY <1>2, <1>3, TilesFacts
    <3> QED BY <3>1, <2>4, <1>1, <1>3
  <2> QED BY <2>3, <2>4, <2>9, <2>10, <2>11, <2>12, <2>13, <1>3 DEF g
<1> QED BY <1>6, <1>7

\* Under the invariant the loop absorbs the block after b, if it is free.
LEMMA AfterIsNext ==
  ASSUME Inv, NEW b \in DOMAIN heap
  PROVE  after(b) = IF heap[b].next # NULL /\ heap[heap[b].next].is_free
                      THEN {heap[b].next} ELSE {}
<1> DEFINE q == heap[b].next
<1>1. Tiles(heap) /\ FusedBut(heap, {}) /\ HDR = 24
  BY DEF Inv, HDR
<1>2. /\ b \in Nat /\ Stop(heap, b) \in Nat /\ Stop(heap, b) > b
      /\ q = NULL => Stop(heap, b) = HEAP_SIZE
      /\ q # NULL => q \in DOMAIN heap /\ q = Stop(heap, b)
  BY <1>1, TilesFacts
<1>3. \A c \in DOMAIN heap : c > b => c \in Nat /\ c >= Stop(heap, b) /\ c < HEAP_SIZE
  <2> TAKE c \in DOMAIN heap
  <2> HAVE c > b
  <2>1. c \in Nat /\ Stop(heap, c) > c + HDR /\ Stop(heap, c) <= HEAP_SIZE /\ Stop(heap, c) \in Nat
    BY <1>1, TilesFacts
  <2>2. Stop(heap, b) <= c
    BY <1>1, <1>2, <2>1, Disjoint
  <2>3. HEAP_SIZE \in Nat
    BY FirstFitAssumption
  <2> QED BY <2>1, <2>2, <2>3, <1>1, <1>2
<1>4. CASE q = NULL
  <2>1. after(b) = {}
    <3>1. \A c \in DOMAIN heap : ~(c > b)
      BY <1>2, <1>3, <1>4
    <3> QED BY <3>1 DEF after, Blocks
  <2> QED BY <2>1, <1>4
<1>5. CASE q # NULL /\ ~heap[q].is_free
  <2>1. q \in DOMAIN heap /\ b < q /\ \A c \in DOMAIN heap : c > b => q <= c
    BY <1>2, <1>3, <1>5
  <2>2. after(b) = {}
    BY <2>1, <1>5 DEF after, Blocks
  <2> QED BY <2>2, <1>5
<1>6. CASE q # NULL /\ heap[q].is_free
  <2>1. q \in DOMAIN heap /\ q \in Nat /\ b < q /\ \A c \in DOMAIN heap : c > b => q <= c
    BY <1>2, <1>3, <1>6
  <2>2. \A d \in DOMAIN heap : (b < d /\ d <= q) => d = q
    <3> TAKE d \in DOMAIN heap
    <3> HAVE b < d /\ d <= q
    <3>1. d \in Nat
      BY <1>1, TilesFacts
    <3>2. q <= d
      BY <2>1, <3>1, <1>2
    <3> QED BY <3>1, <3>2, <2>1
  <2>3. q \in after(b)
    <3>1. \A d \in DOMAIN heap : (b < d /\ d <= q) => heap[d].is_free
      BY <2>2, <1>6
    <3>2. q > b
      BY <2>1, <1>2
    <3> QED BY <3>1, <3>2, <2>1 DEF after, Blocks
  <2>4. ASSUME NEW c \in after(b) PROVE c = q
    <3>0. c \in DOMAIN heap /\ c > b /\ \A d \in DOMAIN heap : (b < d /\ d <= c) => heap[d].is_free
      BY DEF after, Blocks
    <3>1. c \in Nat /\ q <= c /\ c < HEAP_SIZE
      BY <2>1, <1>3, <3>0
    <3>2. SUFFICES ASSUME q < c PROVE FALSE
      BY <2>1, <3>1
    <3> DEFINE r == heap[q].next
    <3>3. /\ Stop(heap, q) <= c /\ Stop(heap, q) \in Nat /\ Stop(heap, q) > q
          /\ r = NULL => Stop(heap, q) = HEAP_SIZE
          /\ r # NULL => r \in DOMAIN heap /\ r = Stop(heap, q)
      BY <1>1, <2>1, <3>0, <3>2, TilesFacts, Disjoint
    <3>4. HEAP_SIZE \in Nat
      BY FirstFitAssumption
    <3>5. r # NULL
      BY <3>1, <3>3, <3>4
    <3>6. ~heap[r].is_free
      BY <1>1, <1>6, <2>1, <3>5 DEF FusedBut
    <3>7. r \in DOMAIN heap /\ b < r /\ r <= c
      BY <3>3, <3>5, <2>1, <1>2
    <3> QED BY <3>6, <3>7, <3>0
  <2>5. after(b) = {q}
    BY <2>3, <2>4
  <2> QED BY <2>5, <1>6
<1> QED BY <1>4, <1>5, <1>6

\* One block adds what it weighs.
LEMMA TotalOne ==
  ASSUME NEW h, NEW x, bytes(h, x) \in Nat
  PROVE  Total(h, {x}) = bytes(h, x)
<1>1. IsFiniteSet({x}) /\ IsFiniteSet({})
  BY FS_Singleton, FS_EmptySet
<1>2. Counted(h, {x}) /\ Counted(h, {})
  BY <1>1 DEF Counted
<1>3. Total(h, {x}) = bytes(h, x) + Total(h, {x} \ {x})
  BY <1>2, TotalRemove
<1>4. {x} \ {x} = {} /\ Total(h, {}) = 0
  BY <1>2, TotalUnfolds
<1> QED BY <1>3, <1>4

\* b is marked free
Freed(h, b) == [h EXCEPT ![b].is_free = TRUE]

\* Marking a block free moves no byte.
LEMMA FreedTiles ==
  ASSUME NEW h, Tiles(h), NEW b \in DOMAIN h
  PROVE  /\ Tiles(Freed(h, b)) /\ DOMAIN Freed(h, b) = DOMAIN h
         /\ Freed(h, b)[b] = [h[b] EXCEPT !.is_free = TRUE]
         /\ Freed(h, b)[b].is_free = TRUE /\ Freed(h, b)[b].next = h[b].next
         /\ Freed(h, b)[b].size = h[b].size
         /\ \A c \in DOMAIN h \ {b} : Freed(h, b)[c] = h[c]
<1> DEFINE g == Freed(h, b)
<1>1. h \in [DOMAIN h -> MemBlock]
  BY DEF Tiles
<1>2. DOMAIN g = DOMAIN h /\ \A c \in DOMAIN h \ {b} : g[c] = h[c]
  BY <1>1 DEF Freed
<1>3. g[b] = [h[b] EXCEPT !.is_free = TRUE]
  BY <1>1 DEF Freed
<1>4. g = [c \in DOMAIN h |-> g[c]]
  BY <1>1 DEF Freed
<1>5. /\ g[b] \in MemBlock /\ g[b].is_free = TRUE
      /\ g[b].size = h[b].size /\ g[b].next = h[b].next
  <2> DEFINE r == h[b]
             w == g[b]
  <2>1. r \in MemBlock /\ w = [r EXCEPT !.is_free = TRUE]
    BY <1>1, <1>3
  <2> HIDE DEF r, w
  <2>2. w \in MemBlock /\ w.is_free = TRUE /\ w.size = r.size /\ w.next = r.next
    BY ONLY <2>1 DEF MemBlock
  <2> QED BY <2>2 DEF r, w
<1> HIDE DEF g
<1>6. g \in [DOMAIN h -> MemBlock]
  <2>1. \A c \in DOMAIN h : g[c] \in MemBlock
    BY <1>1, <1>2, <1>5
  <2> QED BY <2>1, <1>4
<1>7. \A c \in DOMAIN h : g[c].size = h[c].size /\ g[c].next = h[c].next
  BY <1>2, <1>5
<1>8. Tiles(g)
  BY <1>6, <1>7, ReflagTiles
<1> QED BY <1>2, <1>3, <1>5, <1>8 DEF g

\* The first loop of mm_free is at most one fusion, with the block after b.
LEMMA ForwardIs ==
  ASSUME Inv, NEW b \in DOMAIN heap
  PROVE  LET q == heap[b].next
         IN  forward(b) = IF q # NULL /\ heap[q].is_free THEN Fuse(Freed(heap, b), b, q)
                          ELSE Freed(heap, b)
<1> DEFINE q == heap[b].next
           h == Freed(heap, b)
<1>1. Tiles(heap) /\ HDR = 24
  BY DEF Inv, HDR
<1>2. CASE q # NULL /\ heap[q].is_free
  <2>1. after(b) = {q} /\ after(b) # {}
    BY <1>2, AfterIsNext
  <2>2. q \in DOMAIN heap /\ q \in Nat /\ q # b /\ b \in Nat
    <3>1. q \in DOMAIN heap /\ q = Stop(heap, b) /\ Stop(heap, b) > b + HDR /\ b \in Nat
      BY <1>1, <1>2, TilesFacts
    <3> QED BY <3>1, <1>1, TilesFacts
  <2>3. Max({q}) = q
    BY <2>2 DEF Max
  <2>4. Total(heap, {q}) = HDR + heap[q].size /\ heap[q].size \in Nat
    <3>1. bytes(heap, q) = HDR + heap[q].size /\ bytes(heap, q) \in Nat /\ heap[q].size \in Nat
      BY <1>1, <2>2, TilesFacts
    <3> QED BY <3>1, TotalOne
  <2>5. /\ DOMAIN h = DOMAIN heap /\ h[b] = [heap[b] EXCEPT !.is_free = TRUE]
        /\ \A c \in DOMAIN heap \ {b} : h[c] = heap[c]
    <3>1. heap \in [DOMAIN heap -> MemBlock]
      BY <1>1 DEF Tiles
    <3> QED BY <3>1 DEF Freed
  <2> HIDE DEF h
  <2> DEFINE t == Total(heap, {q})
             n == heap[q].size
             x == heap[q].next
             r == heap[b]
             u == [r EXCEPT !.is_free = TRUE, !.size = @ + t, !.next = x]
             v == [h[b] EXCEPT !.size = @ + HDR + h[q].size, !.next = h[q].next]
  <2>6. u = v
    <3>1. r \in MemBlock
      BY <1>1, TilesFacts
    <3>2. h[q].size = n /\ h[q].next = x /\ h[b] = [r EXCEPT !.is_free = TRUE]
      BY <2>5, <2>2
    <3>3. t = HDR + n /\ n \in Nat /\ r.size \in Nat
      BY <2>4, <3>1, BlockFields
    <3> HIDE DEF t, n, x, r
    <3>4. r.size + t = r.size + HDR + n
      BY <3>3, <1>1
    <3>5. u = [r EXCEPT !.is_free = TRUE, !.size = r.size + t, !.next = x]
      BY ONLY <3>1 DEF MemBlock
    <3>6. v = [[r EXCEPT !.is_free = TRUE] EXCEPT !.size = r.size + HDR + n, !.next = x]
      BY ONLY <3>1, <3>2 DEF MemBlock
    <3>7. [[r EXCEPT !.is_free = TRUE] EXCEPT !.size = r.size + t, !.next = x] = [r EXCEPT !.is_free = TRUE, !.size = r.size + t, !.next = x]
      BY ONLY <3>1 DEF MemBlock
    <3> QED BY ONLY <3>4, <3>5, <3>6, <3>7
  <2>7. forward(b) = [c \in DOMAIN heap \ {q} |-> IF c = b THEN u ELSE heap[c]]
    <3>1. forward(b) = [c \in Blocks \ after(b) |->
              IF c = b
                THEN [heap[b] EXCEPT
                        !.is_free = TRUE,
                        !.size = @ + Total(heap, after(b)),
                        !.next = heap[Max(after(b))].next]
                ELSE heap[c]]
      BY <2>1 DEF forward
    <3> QED BY ONLY <3>1, <2>1, <2>3 DEF Blocks
  <2>8. Fuse(h, b, q) = [c \in DOMAIN heap \ {q} |-> IF c = b THEN v ELSE h[c]]
    BY <2>5 DEF Fuse
  <2> HIDE DEF u, v, q
  <2>9. forward(b) = Fuse(h, b, q)
    BY <2>5, <2>6, <2>7, <2>8
  <2> QED BY <2>9, <1>2 DEF h, q
<1>3. CASE ~(q # NULL /\ heap[q].is_free)
  <2>1. after(b) = {}
    BY <1>3, AfterIsNext
  <2> QED BY <2>1, <1>3 DEF forward, Freed
<1> QED BY <1>2, <1>3

\* After the first loop only the block before b may be free next to a free one.
LEMMA ForwardStep ==
  ASSUME Inv, NEW b \in DOMAIN heap, ~heap[b].is_free, NEW g, g = forward(b)
  PROVE  /\ Tiles(g) /\ FusedBut(g, {b}) /\ b \in DOMAIN g /\ g[b].is_free
         /\ Used(g) = Used(heap) \ {b} /\ \A c \in Used(g) : g[c] = heap[c]
<1> DEFINE q == heap[b].next
           h == Freed(heap, b)
<1>1. Tiles(heap) /\ \A c \in DOMAIN heap : heap[c].is_free /\ heap[c].next # NULL => ~heap[heap[c].next].is_free
  BY DEF Inv, FusedBut
<1>2. /\ Tiles(h) /\ DOMAIN h = DOMAIN heap
      /\ h[b].is_free = TRUE /\ h[b].next = q
      /\ \A c \in DOMAIN heap \ {b} : h[c] = heap[c]
  BY <1>1, FreedTiles
<1>3. \A c \in DOMAIN heap : heap[c].next # NULL => heap[c].next \in DOMAIN heap
  BY <1>1, TilesFacts
<1> HIDE DEF h
<1>4. CASE q # NULL /\ heap[q].is_free
  <2>1. g = Fuse(h, b, q)
    BY <1>4, ForwardIs DEF h
  <2>2. Tiles(g) /\ Absorbed(h, g, b, q)
    BY <1>2, <1>4, <2>1, FuseTiles
  <2>3. /\ b # q /\ b \in DOMAIN heap /\ q \in DOMAIN heap /\ DOMAIN g = DOMAIN heap \ {q}
        /\ g[b].next = heap[q].next /\ g[b].is_free = TRUE
        /\ \A c \in DOMAIN g \ {b} : g[c] = heap[c]
    BY <2>2, <1>2 DEF Absorbed
  <2>4. FusedBut(g, {b})
    <3> SUFFICES ASSUME NEW c \in DOMAIN g, g[c].is_free, g[c].next # NULL, g[c].next # b
                 PROVE  ~g[g[c].next].is_free
      BY DEF FusedBut
    <3>1. PICK a \in DOMAIN heap : heap[a].is_free /\ g[c].next = heap[a].next
      BY <2>3, <1>4
    <3>2. heap[a].next \in DOMAIN heap /\ ~heap[heap[a].next].is_free
      BY <3>1, <1>1, <1>3
    <3> QED BY <3>1, <3>2, <2>3, <1>4
  <2>5. Used(g) = Used(heap) \ {b}
    BY <2>3, <1>4 DEF Used
  <2>6. \A c \in Used(g) : g[c] = heap[c]
    BY <2>3 DEF Used
  <2> QED BY <2>2, <2>3, <2>4, <2>5, <2>6
<1>5. CASE ~(q # NULL /\ heap[q].is_free)
  <2>1. g = h
    BY <1>5, ForwardIs DEF h
  <2>2. FusedBut(g, {b})
    <3> SUFFICES ASSUME NEW c \in DOMAIN g, g[c].is_free, g[c].next # NULL, g[c].next # b
                 PROVE  ~g[g[c].next].is_free
      BY DEF FusedBut
    <3>1. g[c].next = heap[c].next /\ c \in DOMAIN heap
      BY <2>1, <1>2
    <3>2. heap[c].next \in DOMAIN heap /\ ~heap[heap[c].next].is_free
      BY <3>1, <2>1, <1>1, <1>2, <1>3, <1>5
    <3> QED BY <3>1, <3>2, <2>1, <1>2
  <2>3. Used(g) = Used(heap) \ {b}
    BY <2>1, <1>2 DEF Used
  <2>4. \A c \in Used(g) : g[c] = heap[c]
    BY <2>1, <1>2 DEF Used
  <2> QED BY <2>1, <2>2, <2>3, <2>4, <1>2
<1> QED BY <1>4, <1>5

\* The end of mm_free fuses that pair too.
LEMMA BackwardStep ==
  ASSUME NEW h, Tiles(h), NEW b \in DOMAIN h, FusedBut(h, {b}), h[b].is_free, NEW g, g = backward(h, b)
  PROVE  /\ Tiles(g) /\ FusedBut(g, {})
         /\ Used(g) = Used(h) /\ \A c \in Used(g) : g[c] = h[c]
<1> DEFINE prev == {c \in DOMAIN h : h[c].next = b /\ h[c].is_free}
<1>1. b # NULL /\ \A c \in DOMAIN h : h[c].next # NULL => h[c].next \in DOMAIN h
  <2>1. b \in Nat /\ NULL = -1
    BY TilesFacts DEF NULL
  <2> QED BY <2>1, TilesFacts
<1>2. \A c \in DOMAIN h : (h[c].is_free /\ h[c].next # NULL /\ h[c].next # b) => ~h[h[c].next].is_free
  BY DEF FusedBut
<1>3. CASE prev = {}
  <2>1. g = [c \in DOMAIN h |-> h[c]]
    <3>1. g = [c \in DOMAIN h \ {} |-> IF c \in {}
             THEN [h[c] EXCEPT !.size = @ + HDR + h[b].size, !.next = h[b].next]
             ELSE h[c]]
      BY <1>3 DEF backward
    <3> QED BY <3>1
  <2>2. g = h
    BY <2>1 DEF Tiles
  <2>3. FusedBut(g, {})
    BY <2>2, <1>2, <1>3 DEF FusedBut
  <2> QED BY <2>2, <2>3
<1>4. CASE prev # {}
  <2>1. PICK p \in DOMAIN h : h[p].next = b /\ h[p].is_free
    BY <1>4
  <2>2. prev = {p}
    BY <2>1, <1>1, OneNext
  <2>3. g = Fuse(h, p, b)
    <3>1. g = [c \in DOMAIN h \ {b} |-> IF c \in {p}
             THEN [h[c] EXCEPT !.size = @ + HDR + h[b].size, !.next = h[b].next]
             ELSE h[c]]
      BY <2>2, <1>4 DEF backward
    <3> QED BY <3>1 DEF Fuse
  <2>4. Tiles(g) /\ Absorbed(h, g, p, b)
    BY <2>1, <2>3, <1>1, FuseTiles
  <2>5. /\ p # b /\ DOMAIN g = DOMAIN h \ {b}
        /\ g[p].next = h[b].next /\ g[p].is_free = h[p].is_free
        /\ \A c \in DOMAIN g \ {p} : g[c] = h[c]
    BY <2>4 DEF Absorbed
  <2>6. FusedBut(g, {})
    <3> SUFFICES ASSUME NEW c \in DOMAIN g, g[c].is_free, g[c].next # NULL
                 PROVE  ~g[g[c].next].is_free
      BY DEF FusedBut
    <3>1. PICK a \in DOMAIN h : h[a].is_free /\ g[c].next = h[a].next /\ a # p
      BY <2>5, <2>1
    <3>2. h[a].next # b
      BY <3>1, <2>1, <1>1, OneNext
    <3>3. h[a].next \in DOMAIN h /\ ~h[h[a].next].is_free
      BY <3>1, <3>2, <1>1, <1>2
    <3> QED BY <3>1, <3>2, <3>3, <2>5, <2>1
  <2>7. Used(g) = Used(h)
    BY <2>5, <2>1 DEF Used
  <2>8. \A c \in Used(g) : g[c] = h[c]
    BY <2>5, <2>1 DEF Used
  <2> QED BY <2>4, <2>6, <2>7, <2>8
<1> QED BY <1>3, <1>4

\* mm_free takes one block from the ones in use and keeps the invariant.
LEMMA FreeStep ==
  ASSUME Inv, NEW b \in DOMAIN heap, ~heap[b].is_free, mm_free(b)
  PROVE  /\ Inv'
         /\ Used(heap') = Used(heap) \ {b}
         /\ \A c \in Used(heap') : heap'[c] = heap[c]
<1> DEFINE h == forward(b)
           g == heap'
<1>1. g = backward(h, b)
  BY DEF mm_free
<1> HIDE DEF h, g
<1>2. /\ Tiles(h) /\ FusedBut(h, {b}) /\ b \in DOMAIN h /\ h[b].is_free
      /\ Used(h) = Used(heap) \ {b} /\ \A c \in Used(h) : h[c] = heap[c]
  BY ForwardStep DEF h
<1>3. /\ Tiles(g) /\ FusedBut(g, {})
      /\ Used(g) = Used(h) /\ \A c \in Used(g) : g[c] = h[c]
  BY <1>1, <1>2, BackwardStep
<1>4. Inv'
  BY <1>3 DEF Inv, g
<1> QED BY <1>2, <1>3, <1>4 DEF g

-----------------------------------------------------------------------------
(***************************************************************************)
(* The theorems.                                                           *)
(***************************************************************************)

\* mm_init makes one free block of the whole heap.
LEMMA InitHolds ==
  ASSUME Init
  PROVE  Inv /\ Used(heap) = {}
<1> DEFINE r == [size |-> HEAP_SIZE - HDR, is_free |-> TRUE, is_kernel |-> FALSE, next |-> NULL]
<1>1. heap = [b \in {0} |-> r]
  BY DEF Init, mm_init
<1>2. HEAP_SIZE \in Nat /\ HDR = 24 /\ NULL = -1 /\ HEAP_SIZE - HDR \in Nat /\ HEAP_SIZE - HDR > 0
  BY FirstFitAssumption DEF HDR, NULL
<1>3. r \in MemBlock
  BY ONLY <1>2 DEF MemBlock
<1>4. r.size = HEAP_SIZE - HDR /\ r.is_free = TRUE /\ r.next = NULL
  OBVIOUS
<1> HIDE DEF r
<1>5. DOMAIN heap = {0} /\ heap[0] = r /\ heap \in [{0} -> MemBlock]
  BY <1>1, <1>3
<1>6. Stop(heap, 0) = HEAP_SIZE /\ bytes(heap, 0) = HEAP_SIZE
  BY <1>2, <1>4, <1>5 DEF Stop, bytes
<1>7. Total(heap, {0}) = HEAP_SIZE
  BY <1>2, <1>6, TotalOne
<1>8. IsFiniteSet({0})
  BY FS_Singleton
<1>9. \A b \in DOMAIN heap : b = 0
  BY <1>5
<1>10. Tiles(heap)
  <2>1. \A b \in DOMAIN heap : heap[b].size > 0 /\ Stop(heap, b) <= HEAP_SIZE
    BY <1>2, <1>4, <1>5, <1>6
  <2>2. \A b \in DOMAIN heap : IF heap[b].next = NULL THEN Stop(heap, b) = HEAP_SIZE
                           ELSE heap[b].next \in DOMAIN heap /\ heap[b].next = Stop(heap, b)
    BY <1>4, <1>5, <1>6
  <2>3. \A b, c \in DOMAIN heap : b < c => Stop(heap, b) <= c
    BY <1>5
  <2> QED BY <1>5, <1>7, <1>8, <2>1, <2>2, <2>3 DEF Tiles
<1>11. FusedBut(heap, {})
  BY <1>4, <1>5, <1>9 DEF FusedBut
<1> QED BY <1>4, <1>5, <1>9, <1>10, <1>11 DEF Inv, Used

\* Every call keeps the invariant.
LEMMA NextKeepsInv ==
  ASSUME Inv, [Next]_heap
  PROVE  Inv'
<1>1. ASSUME NEW size \in Sizes, NEW k \in BOOLEAN, malloc_impl(size, k)
      PROVE  Inv'
  BY <1>1, MallocStep
<1>2. ASSUME NEW b \in Blocks, ~heap[b].is_free, mm_free(b)
      PROVE  Inv'
  BY <1>2, FreeStep DEF Blocks
<1>3. CASE UNCHANGED heap
  BY <1>3 DEF Inv
<1> QED BY <1>1, <1>2, <1>3 DEF Next

\* The three kinds of blocks are all of them, so mm_status adds up.
LEMMA StatusFromInv ==
  ASSUME Inv
  PROVE  StatusAddsUp
<1> DEFINE F == {b \in Blocks : heap[b].is_free}
           U == {b \in Blocks : ~heap[b].is_free /\ ~heap[b].is_kernel}
           K == {b \in Blocks : ~heap[b].is_free /\ heap[b].is_kernel}
<1>1. Counted(heap, Blocks) /\ Total(heap, Blocks) = HEAP_SIZE
  BY TilesCounted DEF Inv, Tiles, Blocks
<1>2. \A b \in Blocks : heap[b].is_free \in BOOLEAN /\ heap[b].is_kernel \in BOOLEAN
  BY TilesFacts DEF Inv, Blocks
<1>3. F \cup U \cup K = Blocks /\ F \cap U = {} /\ (F \cup U) \cap K = {}
  BY <1>2
<1>4. F \in SUBSET Blocks /\ U \in SUBSET Blocks /\ K \in SUBSET Blocks /\ F \cup U \in SUBSET Blocks
  OBVIOUS
<1>5. /\ mm_status.total = Total(heap, Blocks) /\ mm_status.free = Total(heap, F)
      /\ mm_status.used = Total(heap, U) /\ mm_status.used_kernel = Total(heap, K)
  BY DEF mm_status
<1> HIDE DEF F, U, K
<1>6. /\ Counted(heap, F) /\ Counted(heap, U) /\ Counted(heap, K) /\ Counted(heap, F \cup U)
  BY <1>1, <1>4, SubCounted
<1>7. Total(heap, F \cup U) = Total(heap, F) + Total(heap, U)
  BY <1>3, <1>6, TotalUnion
<1>8. Total(heap, (F \cup U) \cup K) = Total(heap, F \cup U) + Total(heap, K)
  BY <1>3, <1>6, TotalUnion
<1> QED BY <1>1, <1>3, <1>5, <1>7, <1>8 DEF StatusAddsUp

\* The invariant says what Tiling says, and more.
LEMMA TilingFromInv ==
  ASSUME Inv
  PROVE  Tiling
<1>1. \A b \in Blocks : End(b) = Stop(heap, b)
  BY DEF End, Stop
<1>2. StatusAddsUp
  BY StatusFromInv
<1> QED BY <1>1, <1>2 DEF Inv, Tiles, Tiling, Blocks

\* Free bytes in a row are never spread over two blocks, so a search that looks
\* at one block at a time misses nothing.
LEMMA HonestFromInv ==
  ASSUME Inv
  PROVE  RefusalIsHonest
<1> SUFFICES ASSUME NEW size \in Sizes, size # 0, Candidates(aligned(size)) = {},
                    NEW a \in {End(b) : b \in {c \in Blocks : ~heap[c].is_free}} \cup {0}
             PROVE  Min({b \in Blocks : b >= a /\ ~heap[b].is_free} \cup {HEAP_SIZE}) - a
                      < HDR + aligned(size)
  BY DEF RefusalIsHonest
<1> DEFINE n == aligned(size)
           T == {b \in Blocks : b >= a /\ ~heap[b].is_free} \cup {HEAP_SIZE}
<1>1. n \in Nat /\ n > 0 /\ HDR = 24 /\ HEAP_SIZE \in Nat /\ Tiles(heap)
  BY AlignedUp, FirstFitAssumption DEF HDR, Inv
<1>2. \A b \in Blocks : ~(heap[b].is_free /\ heap[b].size >= n)
  BY DEF Candidates
<1> HIDE DEF n
<1>3. T \in SUBSET Nat /\ HEAP_SIZE \in T
  BY <1>1, TilesFacts DEF Blocks
<1>4. Min(T) \in T /\ \A e \in T : Min(T) <= e
  <2> HIDE DEF T
  <2>1. \E e \in T : \A m \in T : e <= m
    BY <1>3, MinExists
  <2> QED BY <2>1 DEF Min
<1>5. a \in Nat /\ (a \in Blocks \/ a = HEAP_SIZE)
  <2>1. CASE a = 0
    BY <2>1, <1>1 DEF Tiles, Blocks
  <2>2. CASE a # 0
    <3>1. PICK b \in Blocks : a = End(b)
      BY <2>2
    <3>2. a = Stop(heap, b) /\ b \in DOMAIN heap
      BY <3>1 DEF End, Stop, Blocks
    <3> QED BY <3>2, <1>1, TilesFacts DEF Blocks
  <2> QED BY <2>1, <2>2
<1>6. \E e \in T : e - a < HDR + n
  <2>1. CASE a = HEAP_SIZE
    <3>1. HEAP_SIZE - a < HDR + n
      BY <2>1, <1>1
    <3> QED BY <3>1, <1>3
  <2>2. CASE a \in Blocks /\ ~heap[a].is_free
    <3>1. a \in T
      BY <2>2, <1>5
    <3>2. a - a < HDR + n
      BY <1>1, <1>5
    <3> QED BY <3>1, <3>2
  <2>3. CASE a \in Blocks /\ heap[a].is_free
    <3>1. a \in DOMAIN heap /\ heap[a].size \in Nat /\ Stop(heap, a) = a + HDR + heap[a].size
      BY <2>3, <1>1, TilesFacts DEF Blocks, Stop
    <3>2. heap[a].size < n
      BY <2>3, <3>1, <1>1, <1>2
    <3>3. Stop(heap, a) - a < HDR + n
      BY <3>1, <3>2, <1>1, <1>5
    <3>4. Stop(heap, a) \in T
      <4>1. CASE heap[a].next = NULL
        BY <4>1, <3>1, <1>1, <1>3, TilesFacts
      <4>2. CASE heap[a].next # NULL
        <5>1. heap[a].next \in Blocks /\ heap[a].next = Stop(heap, a) /\ Stop(heap, a) \in Nat
          BY <4>2, <3>1, <1>1, TilesFacts DEF Blocks
        <5>2. ~heap[heap[a].next].is_free
          BY <4>2, <2>3, <3>1 DEF Inv, FusedBut
        <5>3. Stop(heap, a) >= a
          BY <3>1, <1>1, <1>5
        <5> QED BY <5>1, <5>2, <5>3
      <4> QED BY <4>1, <4>2
    <3> QED BY <3>3, <3>4
  <2> QED BY <2>1, <2>2, <2>3, <1>5
<1>7. PICK e \in T : e - a < HDR + n
  BY <1>6
<1>8. Min(T) \in Nat /\ e \in Nat /\ Min(T) <= e
  BY <1>3, <1>4
<1>9. Min(T) - a < HDR + n
  <2> HIDE DEF T
  <2> QED BY <1>1, <1>5, <1>7, <1>8
<1> QED BY <1>9 DEF n

\* The list always covers the heap and holds no two free neighbours: the
\* invariant that split and coalescing keep (memoryManagerFF.c, malloc_impl and
\* mm_free).
THEOREM HeapInvariance == Spec => []Inv
<1>1. Init => Inv
  BY InitHolds
<1>2. Inv /\ [Next]_heap => Inv'
  BY NextKeepsInv
<1> QED BY <1>1, <1>2, PTL DEF Spec

\* For every heap size and every sequence of mm_malloc and mm_free, the blocks
\* follow each other from heap_start to the end of the heap, and the sums of
\* mm_status are right.
THEOREM HeapIsTiled == Spec => []Tiling
<1>1. Inv => Tiling
  BY TilingFromInv
<1> QED BY <1>1, HeapInvariance, PTL

\* mm_malloc returns NULL only when no gap between allocated blocks holds the
\* block and its header.
THEOREM RefusalsAreHonest == Spec => []RefusalIsHonest
<1>1. Inv => RefusalIsHonest
  BY HonestFromInv
<1> QED BY <1>1, HeapInvariance, PTL

\* The bytes that the owner of block b got.
region(h, b) == [addr |-> b + HDR, len |-> h[b].size, is_kernel |-> h[b].is_kernel]

\* Regions by the blocks in use.
LEMMA RegionsAre ==
  /\ Regions = {region(heap, b) : b \in Used(heap)}
  /\ Regions' = {region(heap', b) : b \in Used(heap')}
BY DEF Regions, region, Used, Blocks

\* Different blocks are different regions.
LEMMA SameRegion ==
  ASSUME NEW h, NEW b \in Nat, NEW g, NEW c \in Nat, region(h, b) = region(g, c)
  PROVE  b = c
<1>1. region(h, b).addr = b + HDR /\ region(g, c).addr = c + HDR /\ HDR = 24
  BY DEF region, HDR
<1>2. b + 24 = c + 24
  BY <1>1
<1> QED BY <1>2

\* A successful malloc_impl is an mm_malloc of the abstract allocator.
LEMMA MallocRefines ==
  ASSUME Inv, NEW size \in Sizes, NEW k \in BOOLEAN, malloc_impl(size, k)
  PROVE  A!mm_malloc(size, k)
<1>1. PICK b \in DOMAIN heap :
              /\ heap[b].is_free /\ b \in DOMAIN heap'
              /\ ~heap'[b].is_free /\ heap'[b].is_kernel = k
              /\ heap'[b].size >= size /\ Stop(heap', b) <= Stop(heap, b)
              /\ Used(heap') = Used(heap) \cup {b}
              /\ \A c \in Used(heap) : heap'[c] = heap[c]
  BY MallocStep
<1> DEFINE h == heap
           g == heap'
           r == region(g, b)
<1>2. Tiles(h) /\ Tiles(g)
  BY MallocStep DEF Inv
<1>3. \A c \in Used(h) : region(g, c) = region(h, c)
  BY <1>1 DEF region
<1>4. Regions = {region(h, c) : c \in Used(h)} /\ Regions' = {region(g, c) : c \in Used(g)}
  BY RegionsAre
<1>5. Regions' = Regions \cup {r}
  BY <1>1, <1>3, <1>4
<1>6. b \notin Used(h) /\ Used(h) \subseteq DOMAIN h
  BY <1>1 DEF Used
<1> HIDE DEF h, g, r
<1>7. r \notin Regions
  <2> SUFFICES ASSUME NEW c \in Used(h), r = region(h, c) PROVE FALSE
    BY <1>4
  <2>1. b \in Nat /\ c \in Nat
    BY <1>1, <1>2, <1>6, TilesFacts DEF h
  <2>2. b = c
    BY <2>1, SameRegion DEF r
  <2> QED BY <2>2, <1>6
<1>8. HDR = 24 /\ HEAP_SIZE \in Nat
  BY FirstFitAssumption DEF HDR
<1>9. /\ b \in Nat /\ g[b].size \in Nat /\ g[b].size > 0 /\ Stop(g, b) = b + HDR + g[b].size
      /\ Stop(g, b) <= HEAP_SIZE /\ Stop(h, b) \in Nat /\ Stop(g, b) <= Stop(h, b)
      /\ g[b].is_kernel = k /\ g[b].size >= size /\ b \in DOMAIN h
  <2>1. b \in DOMAIN h /\ b \in DOMAIN g /\ Stop(g, b) <= Stop(h, b) /\ g[b].is_kernel = k /\ g[b].size >= size
    BY <1>1 DEF h, g
  <2> QED BY <2>1, <1>2, TilesFacts DEF Stop
<1>10. r.addr = b + HDR /\ r.len = g[b].size /\ r.is_kernel = k
  BY <1>9 DEF r, region
<1>11. r \in A!Region
  <2>1. b + HDR \in 0..(HEAP_SIZE - 1) /\ g[b].size \in 1..HEAP_SIZE
    BY <1>8, <1>9
  <2>2. r = [addr |-> b + HDR, len |-> g[b].size, is_kernel |-> k]
    BY <1>9 DEF r, region
  <2> QED BY ONLY <2>1, <2>2, k \in BOOLEAN DEF A!Region
<1>12. ASSUME NEW other \in Regions PROVE A!Bytes(r) \cap A!Bytes(other) = {}
  <2>1. PICK c \in Used(h) : other = region(h, c)
    BY <1>4
  <2>2. c \in DOMAIN h /\ c # b /\ c \in Nat /\ h[c].size \in Nat /\ Stop(h, c) = c + HDR + h[c].size
    BY <2>1, <1>2, <1>6, TilesFacts DEF Stop
  <2>3. other.addr = c + HDR /\ other.len = h[c].size
    BY <2>1 DEF region
  <2>4. Stop(h, b) <= c \/ Stop(h, c) <= b
    <3>1. b < c \/ c < b
      BY <2>2, <1>9
    <3> QED BY <3>1, <2>2, <1>2, <1>9, Disjoint
  <2>5. /\ A!Bytes(r) = (b + HDR)..(b + HDR + g[b].size - 1)
        /\ A!Bytes(other) = (c + HDR)..(c + HDR + h[c].size - 1)
    BY <1>10, <2>3 DEF A!Bytes
  <2>6. b + HDR + g[b].size <= c \/ c + HDR + h[c].size <= b
    BY <2>2, <2>4, <1>8, <1>9
  <2>7. ASSUME NEW x \in A!Bytes(r), x \in A!Bytes(other) PROVE FALSE
    <3>1. x \in (b + HDR)..(b + HDR + g[b].size - 1) /\ x \in (c + HDR)..(c + HDR + h[c].size - 1)
      BY <2>5, <2>7
    <3>2. x \in Int /\ b + 24 <= x /\ x < b + 24 + g[b].size /\ c + 24 <= x /\ x < c + 24 + h[c].size
      BY ONLY <3>1, <2>2, <1>8, <1>9
    <3> QED BY ONLY <3>2, <2>2, <2>6, <1>8, <1>9
  <2> QED BY <2>7
<1>13. A!Fits(r)
  <2>1. r.addr + r.len <= HEAP_SIZE
    BY <1>8, <1>9, <1>10
  <2> QED BY <2>1, <1>11, <1>12 DEF A!Fits
<1>14. r \in Regions' \ Regions
  BY <1>5, <1>7
<1> QED BY <1>5, <1>9, <1>10, <1>13, <1>14 DEF A!mm_malloc

\* mm_free gives back one region of the abstract allocator.
LEMMA FreeRefines ==
  ASSUME Inv, NEW b \in DOMAIN heap, ~heap[b].is_free, mm_free(b)
  PROVE  \E r \in Regions : A!mm_free(r)
<1> DEFINE h == heap
           g == heap'
           r == region(h, b)
<1>1. Used(g) = Used(h) \ {b} /\ \A c \in Used(g) : g[c] = h[c]
  BY FreeStep
<1>2. \A c \in Used(g) : region(g, c) = region(h, c)
  BY <1>1 DEF region
<1>3. Regions = {region(h, c) : c \in Used(h)} /\ Regions' = {region(g, c) : c \in Used(g)}
  BY RegionsAre
<1>4. b \in Used(h) /\ \A c \in Used(h) : c \in Nat
  BY TilesFacts DEF Used, Inv
<1> HIDE DEF h, g
<1>5. \A c \in Used(h) : region(h, c) = r => c = b
  BY <1>4, SameRegion
<1> HIDE DEF r
<1>6. r \in Regions
  BY <1>3, <1>4 DEF r
<1>7. Regions' = Regions \ {r}
  BY <1>1, <1>2, <1>3, <1>5 DEF r
<1> QED BY <1>6, <1>7 DEF A!mm_free

\* The first-fit manager implements Allocator: no two owners share a byte, each
\* has what it asked for inside the heap, and a call changes nobody else's region.
THEOREM FirstFitIsAllocator == Spec => ImplementsAllocator
<1>1. Init => Regions = {}
  BY InitHolds, RegionsAre
<1>2. Inv /\ [Next]_heap =>
        [\/ \E size \in Sizes, is_kernel \in BOOLEAN : A!mm_malloc(size, is_kernel)
         \/ \E r \in Regions : A!mm_free(r)]_Regions
  <2> SUFFICES ASSUME Inv, [Next]_heap
               PROVE  \/ \E size \in Sizes, is_kernel \in BOOLEAN : A!mm_malloc(size, is_kernel)
                      \/ \E r \in Regions : A!mm_free(r)
                      \/ Regions' = Regions
    OBVIOUS
  <2>1. ASSUME NEW size \in Sizes, NEW k \in BOOLEAN, malloc_impl(size, k)
        PROVE  \E s \in Sizes, is_kernel \in BOOLEAN : A!mm_malloc(s, is_kernel)
    BY <2>1, MallocRefines
  <2>2. ASSUME NEW b \in Blocks, ~heap[b].is_free, mm_free(b)
        PROVE  \E r \in Regions : A!mm_free(r)
    BY <2>2, FreeRefines DEF Blocks
  <2>3. CASE UNCHANGED heap
    BY <2>3 DEF Regions, Blocks
  <2> QED BY <2>1, <2>2, <2>3 DEF Next
<1>3. Inv /\ [Next]_heap =>
        [\A size \in Sizes, is_kernel \in BOOLEAN :
            malloc_impl(size, is_kernel) => A!mm_malloc(size, is_kernel)]_heap
  BY MallocRefines
<1> QED BY <1>1, <1>2, <1>3, HeapInvariance, PTL DEF Spec, ImplementsAllocator, A!ASpec
=============================================================================
