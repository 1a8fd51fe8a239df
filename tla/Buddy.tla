------------------------------- MODULE Buddy -------------------------------
(***************************************************************************)
(* Kernel/c/memoryManager/memoryManagerBuddy.c, the manager of MM=BUDDY.   *)
(*                                                                         *)
(* hdr holds the headers of the blocks, by offset from heap_base.  A header*)
(* that is inside a bigger block, or under somebody's data, is not in hdr: *)
(* the code would read garbage there, HeadersWhereRead says that it never  *)
(* looks.                                                                  *)
(*                                                                         *)
(* The loops are written by what they do: a split leaves one free buddy of *)
(* each order between the one asked and the one found; the fusion climbs   *)
(* to the first order whose buddy is not free and whole.                   *)
(***************************************************************************)
EXTENDS Integers, Sequences, FiniteSets, FiniteSetsExt

CONSTANTS MIN_ORDER, MAX_ORDER,
          HeapSizes,    \* what mm_init is called with
          Sizes,        \* what callers ask for
          Word          \* 2^64: sizes are uint64_t

HDR == 8                        \* sizeof(BlockHdr)
NULL == -1

ASSUME BuddyAssumption ==
    /\ MIN_ORDER \in Nat /\ 2^MIN_ORDER > HDR
    /\ MAX_ORDER \in Nat /\ MAX_ORDER >= MIN_ORDER
    /\ Word \in Nat /\ Word > 2^(MAX_ORDER + 1)
    /\ \A size \in HeapSizes : /\ size \in 1..(2^(MAX_ORDER + 1) - 1)
                               /\ size % 2^MIN_ORDER = 0
    /\ Sizes \subseteq 0..(Word - 1 - HDR)

Orders == MIN_ORDER..MAX_ORDER

VARIABLES heap_total, alloc_count, free_lists, hdr

vars == <<heap_total, alloc_count, free_lists, hdr>>

Blocks == DOMAIN hdr

BlockHdr == [order : Orders, is_free : BOOLEAN, is_kernel : BOOLEAN]

\* Mutant: the biggest order that is not bigger than size.
size_to_order_down(size) ==
    LET little == {o \in Orders : 2^o <= size}
    IN  IF size > 2^MAX_ORDER THEN NULL
        ELSE IF little = {} THEN MIN_ORDER ELSE Max(little)

\* The smallest order whose blocks hold size bytes, NULL when none does.
size_to_order(size) ==
    LET enough == {o \in Orders : 2^o >= size}
    IN  IF enough = {} THEN NULL ELSE Min(enough)

\* Mutant: the end of the heap is not looked at.
get_buddy_anywhere(off, order) ==
    IF (off \div 2^order) % 2 = 0 THEN off + 2^order ELSE off - 2^order

\* off with bit `order' flipped, NULL when that block would not be in the heap.
get_buddy(off, order) ==
    LET buddy == IF (off \div 2^order) % 2 = 0 THEN off + 2^order ELSE off - 2^order
    IN  IF buddy + 2^order > heap_total THEN NULL ELSE buddy

\* Mutant: whoever is first is taken out.
list_remove_head(list, target) == IF list = <<>> THEN list ELSE Tail(list)

list_remove(list, target) ==
    IF \E i \in 1..Len(list) : list[i] = target
      THEN LET i == Min({j \in 1..Len(list) : list[j] = target})
           IN  SubSeq(list, 1, i - 1) \o SubSeq(list, i + 1, Len(list))
      ELSE list

\* alloc_count counts the blocks of users only.
counted(is_kernel) == IF is_kernel THEN 0 ELSE 1

\* The orders in which there is a block big enough.
Found(order) == {o \in Orders : o >= order /\ free_lists[o] # <<>>}

malloc_impl(size, is_kernel) ==
    LET order == size_to_order((size + HDR) % Word)
        found == Min(Found(order))
        block == Head(free_lists[found])
        halves == order..(found - 1)            \* what the splits leave
    IN  /\ size # 0
        /\ order # NULL
        /\ Found(order) # {}
        /\ free_lists' = [o \in Orders |->
              IF o = found THEN Tail(free_lists[o])
              ELSE IF o \in halves THEN <<block + 2^o>> \o free_lists[o]
              ELSE free_lists[o]]
        /\ hdr' = [b \in Blocks \cup {block + 2^o : o \in halves} |->
              IF b = block THEN [order |-> order, is_free |-> FALSE, is_kernel |-> is_kernel]
              ELSE IF b \in Blocks THEN hdr[b]
              ELSE [order |-> CHOOSE o \in halves : b = block + 2^o,
                    is_free |-> TRUE, is_kernel |-> FALSE]]
        /\ alloc_count' = alloc_count + counted(is_kernel)
        /\ UNCHANGED heap_total

\* Where the block of this order that holds off begins: the fusion goes on from
\* the lower address of the two.
base(off, order) == (off \div 2^order) * 2^order

\* Mutant: only the buddy above is absorbed.
merges_above(off, order) ==
    LET buddy == get_buddy(base(off, order), order)
    IN  buddy # NULL /\ buddy > off /\ hdr[buddy].is_free /\ hdr[buddy].order = order

\* The buddy that the fusion would absorb at this order is free and whole.
merges(off, order) ==
    LET buddy == get_buddy(base(off, order), order)
    IN  buddy # NULL /\ hdr[buddy].is_free /\ hdr[buddy].order = order

\* The order at which the loop stops.
top(off) == Min({o \in hdr[off].order..MAX_ORDER :
                    o = MAX_ORDER \/ ~merges(off, o)})

mm_free(off) ==
    LET order == hdr[off].order
        block == base(off, top(off))
        buddy(o) == get_buddy(base(off, o), o)
        merged == order..(top(off) - 1)
        gone == {buddy(o) : o \in merged} \cup {off}
    IN  /\ free_lists' = [o \in Orders |->
              IF o \in merged THEN list_remove(free_lists[o], buddy(o))
              ELSE IF o = top(off) THEN <<block>> \o free_lists[o]
              ELSE free_lists[o]]
        /\ hdr' = [b \in (Blocks \ gone) \cup {block} |->
              IF b = block THEN [hdr[b] EXCEPT !.order = top(off), !.is_free = TRUE]
              ELSE hdr[b]]
        /\ alloc_count' = alloc_count - counted(hdr[off].is_kernel)
        /\ UNCHANGED heap_total

\* The greedy decomposition: a block of each order that still fits.
chunk(size, order) == (size \div 2^order) % 2 = 1
chunk_start(size, order) == (size \div 2^(order + 1)) * 2^(order + 1)

mm_init(size) ==
    LET orders == {o \in Orders : chunk(size, o)}
    IN  /\ heap_total = size
        /\ alloc_count = 0
        /\ free_lists = [o \in Orders |->
              IF o \in orders THEN <<chunk_start(size, o)>> ELSE <<>>]
        /\ hdr = [b \in {chunk_start(size, o) : o \in orders} |->
              [order |-> CHOOSE o \in orders : b = chunk_start(size, o),
               is_free |-> TRUE, is_kernel |-> FALSE]]

\* mm_status, which walks from header to header.
Bytes(S) == MapThenSumSet(LAMBDA b : 2^(hdr[b].order), S)
Used(is_kernel) == {b \in Blocks : ~hdr[b].is_free /\ hdr[b].is_kernel = is_kernel}
mm_status == [total |-> heap_total,
              free |-> Bytes({b \in Blocks : hdr[b].is_free}),
              used |-> Bytes(Used(FALSE)),
              used_kernel |-> Bytes(Used(TRUE)),
              alloc_count |-> alloc_count]

Init == \E size \in HeapSizes : mm_init(size)

Next == \/ \E size \in Sizes, is_kernel \in BOOLEAN : malloc_impl(size, is_kernel)
        \/ \E off \in Blocks : ~hdr[off].is_free /\ mm_free(off)

Spec == Init /\ [][Next]_vars

-----------------------------------------------------------------------------
(***************************************************************************)
(* Properties.                                                             *)
(***************************************************************************)

\* The headers lead from one to the next through the whole heap; free_lists and
\* the is_free flags agree: a block is in the list of its order, once, when it is
\* free, and in no list when it is not.  A fusion that forgets a list hands the
\* same bytes out twice.  Hence what mm_status promises, "Invariante: total ==
\* free + used + used_kernel", and alloc_count, which malloc and free keep by
\* hand, is the number of blocks of users.
HeapIsWhole ==
    /\ hdr \in [Blocks -> BlockHdr]
    /\ 0 \in Blocks
    /\ \A b \in Blocks : b + 2^(hdr[b].order) \in Blocks \cup {heap_total}
    /\ \A o \in Orders :
        /\ {free_lists[o][i] : i \in 1..Len(free_lists[o])}
             = {b \in Blocks : hdr[b].is_free /\ hdr[b].order = o}
        /\ \A i, j \in 1..Len(free_lists[o]) :
              free_lists[o][i] = free_lists[o][j] => i = j
    /\ mm_status.total = mm_status.free + mm_status.used + mm_status.used_kernel
    /\ mm_status.alloc_count = Cardinality(Used(FALSE))

\* Where mm_free looks for a buddy, at the order of the block and at every order
\* that the fusion may reach, there is a header: never user data.
HeadersWhereRead ==
    \A b \in Blocks : \A o \in hdr[b].order..(MAX_ORDER - 1) :
        (\A p \in hdr[b].order..(o - 1) : merges(b, p))
            => get_buddy(base(b, o), o) \in Blocks \cup {NULL}

\* "Retorna NULL si no hay espacio", and only then: when no list has a block,
\* there is no aligned block of free bytes of the order needed.
RefusalIsHonest ==
    \A size \in Sizes :
        LET order == size_to_order(size + HDR)
            owned(off) == \E b \in Blocks : /\ ~hdr[b].is_free
                                           /\ b < off + 2^order
                                           /\ off < b + 2^(hdr[b].order)
        IN  (size # 0 /\ order # NULL /\ Found(order) = {}) =>
                \A i \in 0..(heap_total \div 2^order - 1) : owned(i * 2^order)

Regions == {[addr |-> b + HDR, len |-> 2^(hdr[b].order) - HDR,
             is_kernel |-> hdr[b].is_kernel] : b \in {c \in Blocks : ~hdr[c].is_free}}

A == INSTANCE Allocator WITH HEAP_SIZE <- Max(HeapSizes), allocated <- Regions

\* The manager is an allocator: nobody gets bytes of a block that somebody has,
\* or fewer than it asked for, and a free changes nobody else's region.
ImplementsAllocator ==
    /\ A!ASpec
    /\ [][\A size \in Sizes, is_kernel \in BOOLEAN :
            malloc_impl(size, is_kernel) => A!mm_malloc(size, is_kernel)]_vars
=============================================================================
