----------------------------- MODULE MCProcess -----------------------------
(***************************************************************************)
(* Process for TLC: the choice of the next process against a direct        *)
(* account of the loops of scheduler_next_ready.                           *)
(***************************************************************************)
EXTENDS Process

\* The positions in the order in which a pass of scheduler_next_ready visits
\* them: queue_idx = (queue_idx + 1) % queue_size, queue_size times.
Visit(k) == [n \in 1..Len(k.queue) |-> ((k.idx + n) % Len(k.queue)) + 1]

\* The visits of a pass whose test accepts the positions in wanted.
Matches(k, wanted) == {n \in 1..Len(k.queue) : Visit(k)[n] \in wanted}

\* A pass returns the process at its first match.
ReturnsFirst(k, wanted, p) ==
    \E n \in Matches(k, wanted) : /\ \A m \in Matches(k, wanted) : n <= m
                                  /\ p = k.queue[Visit(k)[n]]

\* The first foreground process in visiting order whose effective priority no
\* READY process exceeds, else the first process of that priority, else idle.
FirstInTurn(k, p) ==
    LET process(i) == k.table[k.queue[i]]
        ready == {i \in 1..Len(k.queue) : process(i).state = "READY"}
        highest == {i \in ready : \A j \in ready : eff(process(j)) <= eff(process(i))}
        front == {i \in highest : process(i).foreground}
    IN  IF Matches(k, front) # {} THEN ReturnsFirst(k, front, p)
        ELSE IF Matches(k, highest) # {} THEN ReturnsFirst(k, highest, p)
        ELSE p = idle_pcb

\* scheduler_next_ready is its two passes, in every state in which it may be
\* called: processes of the same rank take turns from queue_idx on.
ChoiceIsFirstInTurn == FirstInTurn(Kernel, scheduler_next_ready(Kernel).next)
=============================================================================
