------------------------- MODULE CountingSemaphore -------------------------
(***************************************************************************)
(* What a named semaphore promises the programs that use it as a lock on   *)
(* `initial' units of a resource: nobody gets a unit that another one has, *)
(* waiters are served in order of arrival, and the death of a process      *)
(* gives back what it had and takes it out of the line.                    *)
(***************************************************************************)
EXTENDS Naturals, Sequences

CONSTANTS Users, initial

VARIABLES available,        \* units nobody has
          holders,          \* who has a unit
          waiting           \* who waits for one, in order of arrival

InLine == {waiting[i] : i \in 1..Len(waiting)}

CInit == available = initial /\ holders = {} /\ waiting = <<>>

\* A unit is given back: to the first in line, if there is one.
Release(p) ==
    /\ p \in holders
    /\ \/ /\ waiting = <<>>
          /\ available' = available + 1
          /\ holders' = holders \ {p}
          /\ UNCHANGED waiting
       \/ /\ waiting # <<>>
          /\ holders' = (holders \ {p}) \cup {Head(waiting)}
          /\ waiting' = Tail(waiting)
          /\ UNCHANGED available

Acquire(p) ==
    /\ p \notin holders /\ p \notin InLine
    /\ available > 0
    /\ available' = available - 1
    /\ holders' = holders \cup {p}
    /\ UNCHANGED waiting

Enter(p) ==
    /\ p \notin holders /\ p \notin InLine
    /\ available = 0
    /\ waiting' = Append(waiting, p)
    /\ UNCHANGED <<available, holders>>

\* p dies in the line, and those behind it move up; a holder that dies releases.
Leave(p) ==
    /\ \E j \in 1..Len(waiting) :
          /\ waiting[j] = p
          /\ waiting' = [n \in 1..(Len(waiting) - 1) |->
                           waiting[IF n < j THEN n ELSE n + 1]]
    /\ UNCHANGED <<available, holders>>

CNext == \E p \in Users : Release(p) \/ Acquire(p) \/ Enter(p) \/ Leave(p)

CSpec == CInit /\ [][CNext]_<<available, holders, waiting>>
=============================================================================
