----------------------------- MODULE Allocator -----------------------------
(***************************************************************************)
(* What memoryManager.h promises of either manager: mm_malloc returns a    *)
(* region of at least the size asked that nobody else has, inside the heap,*)
(* or NULL; mm_free gives back one region; neither touches the regions of  *)
(* others.                                                                 *)
(***************************************************************************)
EXTENDS Naturals

CONSTANTS HEAP_SIZE,    \* bytes of [start, start + size)
          Sizes         \* what programs ask for

VARIABLE allocated      \* the regions handed out and not given back

Region == [addr : 0..(HEAP_SIZE - 1), len : 1..HEAP_SIZE, is_kernel : BOOLEAN]

Bytes(r) == r.addr..(r.addr + r.len - 1)

Fits(r) == /\ r \in Region
           /\ r.addr + r.len <= HEAP_SIZE
           /\ \A other \in allocated : Bytes(r) \cap Bytes(other) = {}

mm_malloc(size, is_kernel) ==
    \E r \in allocated' \ allocated :
        /\ Fits(r) /\ r.len >= size /\ r.is_kernel = is_kernel
        /\ allocated' = allocated \cup {r}

mm_free(r) == allocated' = allocated \ {r}

ASpec == /\ allocated = {}
         /\ [][ \/ \E size \in Sizes, is_kernel \in BOOLEAN : mm_malloc(size, is_kernel)
                \/ \E r \in allocated : mm_free(r) ]_allocated
=============================================================================
