---------------------------- MODULE MCTestProcs ----------------------------
(* TestProcs for TLC. *)
EXTENDS TestProcs
=============================================================================
