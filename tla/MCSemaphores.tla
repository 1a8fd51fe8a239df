--------------------------- MODULE MCSemaphores ---------------------------
(***************************************************************************)
(* Semaphores for TLC.                                                     *)
(***************************************************************************)
EXTENDS NamedSemaphore

\* Short names are stored as they are.
Short == [n \in Names |-> n]
=============================================================================
