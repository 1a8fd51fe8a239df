----------------------------- MODULE FirstFit ------------------------------
(***************************************************************************)
(* Kernel/c/memoryManager/memoryManagerFF.c, the default manager.          *)
(*                                                                         *)
(* heap holds the MemBlock headers that the list links, by address (bytes  *)
(* from heap_start).  split inserts a block after another one in memory and*)
(* mm_free takes out the block that follows, so the list is in address     *)
(* order: the property Tiling says so, and the loops over the list are     *)
(* written as the least or greatest address that satisfies a test.         *)
(*                                                                         *)
(* The callers are sys_malloc and sys_free (USER) and process_create and   *)
(* the releases of process.c (KERNEL).  They free what they were given.    *)
(***************************************************************************)
EXTENDS Integers, FiniteSets, FiniteSetsExt

CONSTANTS HEAP_SIZE,    \* a multiple of 8, as kernel.c's
          Sizes,        \* what callers ask for
          Word          \* 2^64: sizes are uint64_t

HDR == 24                       \* sizeof(MemBlock)
MIN_SPLIT == HDR + 8
NULL == -1

ASSUME FirstFitAssumption ==
    /\ HEAP_SIZE \in Nat /\ HEAP_SIZE > HDR /\ HEAP_SIZE % 8 = 0
    /\ Word \in Nat /\ Word % 8 = 0 /\ Word > HEAP_SIZE + MIN_SPLIT
    /\ Sizes \subseteq 0..(Word - 8)

MemBlock == [size : Nat, is_free : BOOLEAN, is_kernel : BOOLEAN, next : Int]

VARIABLE heap

Blocks == DOMAIN heap

\* Mutant: rounded down.
aligned_down(size) == (size \div 8) * 8

\* size rounded up to 8 bytes, in 64 bits.
aligned(size) == (((size + 7) % Word) \div 8) * 8

\* The blocks that the search accepts; it takes the first.
Candidates(size) == {b \in Blocks : heap[b].is_free /\ heap[b].size >= size}

splits(b, size) == heap[b].size >= (size + MIN_SPLIT) % Word

\* Mutant: the new block does not pay for its header.
taken_free_header(b, size, is_kernel) ==
    LET split == b + HDR + size
    IN  [c \in Blocks \cup {split} |->
           IF c = b
             THEN [size |-> size, is_free |-> FALSE,
                   is_kernel |-> is_kernel, next |-> split]
           ELSE IF c = split
             THEN [size |-> heap[b].size - size, is_free |-> TRUE,
                   is_kernel |-> FALSE, next |-> heap[b].next]
           ELSE heap[c]]

taken(b, size, is_kernel) ==
    IF splits(b, size)
      THEN LET split == b + HDR + size
           IN  [c \in Blocks \cup {split} |->
                  IF c = b
                    THEN [size |-> size, is_free |-> FALSE,
                          is_kernel |-> is_kernel, next |-> split]
                  ELSE IF c = split
                    THEN [size |-> heap[b].size - size - HDR, is_free |-> TRUE,
                          is_kernel |-> FALSE, next |-> heap[b].next]
                  ELSE heap[c]]
      ELSE [heap EXCEPT ![b].is_free = FALSE, ![b].is_kernel = is_kernel]

\* A size of 0 and a heap without a block that fits return NULL.
malloc_impl(size, is_kernel) ==
    /\ size # 0
    /\ Candidates(aligned(size)) # {}
    /\ heap' = taken(Min(Candidates(aligned(size))), aligned(size), is_kernel)

\* The bytes of the blocks of S in the list h, headers included.
Total(h, S) == MapThenSumSet(LAMBDA b : HDR + h[b].size, S)

\* The free blocks right after b: the first loop absorbs them.
after(b) == {c \in Blocks : c > b /\ \A d \in Blocks : (b < d /\ d <= c) => heap[d].is_free}

forward(b) ==
    IF after(b) = {}
      THEN [heap EXCEPT ![b].is_free = TRUE]
      ELSE [c \in Blocks \ after(b) |->
              IF c = b
                THEN [heap[b] EXCEPT
                        !.is_free = TRUE,
                        !.size = @ + Total(heap, after(b)),
                        !.next = heap[Max(after(b))].next]
                ELSE heap[c]]

\* Mutant: the block before b is not looked at.
backward_none(h, b) == h

\* The block before b absorbs it when it is free.
backward(h, b) ==
    LET prev == {c \in DOMAIN h : h[c].next = b /\ h[c].is_free}
    IN  [c \in DOMAIN h \ (IF prev = {} THEN {} ELSE {b}) |->
           IF c \in prev
             THEN [h[c] EXCEPT !.size = @ + HDR + h[b].size, !.next = h[b].next]
             ELSE h[c]]

mm_free(b) == heap' = backward(forward(b), b)

mm_init == heap = [b \in {0} |-> [size |-> HEAP_SIZE - HDR, is_free |-> TRUE,
                                  is_kernel |-> FALSE, next |-> NULL]]

\* mm_status: every block counts with its header.
mm_status ==
    LET users == {b \in Blocks : ~heap[b].is_free /\ ~heap[b].is_kernel}
    IN  [total |-> Total(heap, Blocks),
         free |-> Total(heap, {b \in Blocks : heap[b].is_free}),
         used |-> Total(heap, users),
         used_kernel |-> Total(heap, {b \in Blocks : ~heap[b].is_free /\ heap[b].is_kernel}),
         alloc_count |-> Cardinality(users)]

Init == mm_init

Next == \/ \E size \in Sizes, is_kernel \in BOOLEAN : malloc_impl(size, is_kernel)
        \/ \E b \in Blocks : ~heap[b].is_free /\ mm_free(b)

Spec == Init /\ [][Next]_heap

-----------------------------------------------------------------------------
(***************************************************************************)
(* Properties.                                                             *)
(***************************************************************************)

End(b) == b + HDR + heap[b].size

\* mm_status tells the truth: the parts make the whole, and the whole is the
\* heap, headers included.
StatusAddsUp ==
    /\ mm_status.total = mm_status.free + mm_status.used + mm_status.used_kernel
    /\ mm_status.total = HEAP_SIZE

\* The list is the heap: the headers have their types, from heap_start each
\* block ends where the next one begins, the last at the end of the heap, and
\* what mm_status counts is the heap.  A split or a fusion that loses or
\* overlaps a byte breaks it, many operations before anybody notices.
Tiling ==
    /\ heap \in [Blocks -> MemBlock]
    /\ 0 \in Blocks
    /\ \A b \in Blocks : IF heap[b].next = NULL THEN End(b) = HEAP_SIZE
                         ELSE heap[b].next \in Blocks /\ heap[b].next = End(b)
    /\ \A b, c \in Blocks : b < c => End(b) <= c
    /\ StatusAddsUp

\* "Retorna NULL si no hay espacio", and only then: when the search fails there
\* are no bytes in a row, outside the allocated blocks, for the block and its
\* header.
RefusalIsHonest ==
    \A size \in Sizes :
        (size # 0 /\ Candidates(aligned(size)) = {}) =>
            \A a \in {End(b) : b \in {c \in Blocks : ~heap[c].is_free}} \cup {0} :
                LET stop == Min({b \in Blocks : b >= a /\ ~heap[b].is_free}
                                    \cup {HEAP_SIZE})
                IN  stop - a < HDR + aligned(size)

Regions == {[addr |-> b + HDR, len |-> heap[b].size, is_kernel |-> heap[b].is_kernel] :
              b \in {c \in Blocks : ~heap[c].is_free}}

A == INSTANCE Allocator WITH allocated <- Regions

\* The manager is an allocator: nobody gets bytes of a block that somebody has,
\* or fewer than it asked for, and a free changes nobody else's region.
ImplementsAllocator ==
    /\ A!ASpec
    /\ [][\A size \in Sizes, is_kernel \in BOOLEAN :
            malloc_impl(size, is_kernel) => A!mm_malloc(size, is_kernel)]_heap
=============================================================================
