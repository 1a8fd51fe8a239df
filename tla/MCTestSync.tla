---------------------------- MODULE MCTestSync ----------------------------
(* TestSync for TLC. *)
EXTENDS TestSync

Short == [name \in Names |-> name]
=============================================================================
