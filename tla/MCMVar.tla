------------------------------ MODULE MCMVar ------------------------------
(* MVar for TLC. *)
EXTENDS MVar

Short == [name \in Names |-> name]

SemNames == Instances \X {"e", "f"}

\* Two writers and two readers of one MVar.
Two == {"m1"} \X {"writer", "reader"} \X {1, 2}

\* A writer of one MVar and a reader of another.
Strangers == {<<"m1", "writer", 1>>, <<"m2", "reader", 1>>}

FirstWriter == {<<"m1", "writer", 1>>}

Everybody == Two \cup Strangers
EveryPid == Everybody \cup {<<m, "mvar", 0>> : m \in Instances}

\* One MVar, undisturbed; two for one slot, and a writer may be killed.
TwoCasts == {[who |-> Two, killed |-> {}], [who |-> Strangers, killed |-> FirstWriter]}

OneIsKilled == {[who |-> Two, killed |-> FirstWriter]}
=============================================================================
