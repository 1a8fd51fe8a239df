------------------------------ MODULE MCShell ------------------------------
(***************************************************************************)
(* Shell for TLC.                                                          *)
(***************************************************************************)
EXTENDS Shell, TLC

\* The keys that are pressed: A, B, C, D, Enter, Backspace.
Small == (30 :> 97) @@ (48 :> 98) @@ (46 :> 99) @@ (32 :> 100) @@ (28 :> 10) @@ (14 :> 8)
Capital == (30 :> 65) @@ (48 :> 66) @@ (46 :> 67) @@ (32 :> 68) @@ (28 :> 10) @@ (14 :> 8)

\* a; with Shift held B B, where the second finds the line full; erase; B, Enter;
\* with Caps Lock too b b; Ctrl.
Typing == <<30, L_SHIFT, 48, 48, 14, 48, 28, CAPS_LOCK, 48, 48, L_CONTROL>>

\* What sys_write may be given is what Left has read.
NoBuffers == {}
=============================================================================
