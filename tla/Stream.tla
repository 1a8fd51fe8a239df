------------------------------- MODULE Stream -------------------------------
(***************************************************************************)
(* What a pipe promises the processes that hold its ends: a queue of at    *)
(* most `capacity' bytes.  Bytes leave at the front in the order in which  *)
(* they entered at the back, they enter only while somebody can read them, *)
(* and they stay until they are read or the last end is gone.              *)
(***************************************************************************)
EXTENDS Naturals, Sequences

CONSTANTS Bytes, capacity

VARIABLES contents,     \* the bytes written and not read
          readable,     \* somebody holds the read end
          writable      \* somebody holds the write end

SInit == contents = <<>> /\ readable = FALSE /\ writable = FALSE

Write ==
    /\ readable /\ writable
    /\ \E n \in 1..(capacity - Len(contents)) : \E bytes \in [1..n -> Bytes] :
          contents' = contents \o bytes
    /\ UNCHANGED <<readable, writable>>

Read ==
    /\ readable
    /\ \E n \in 1..Len(contents) : contents' = SubSeq(contents, n + 1, Len(contents))
    /\ UNCHANGED <<readable, writable>>

\* Ends come and go; nothing is left for the next user of the slot.
Ends ==
    /\ readable' \in BOOLEAN /\ writable' \in BOOLEAN
    /\ contents' = IF readable' \/ writable' THEN contents ELSE <<>>

SSpec == SInit /\ [][Write \/ Read \/ Ends]_<<contents, readable, writable>>
=============================================================================
