------------------------------ MODULE MCPipes ------------------------------
(* Pipes for TLC. *)
EXTENDS Pipes

OneByte == {<<0>>}
=============================================================================
