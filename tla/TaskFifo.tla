------------------------------- MODULE TaskFifo -------------------------------
(***************************************************************************)
(* What the group queue promises about scheduled tasks: each group has a   *)
(* first-in first-out queue without duplicates.  The oldest task is the    *)
(* one being run or the next to run, and it leaves when its run ends.      *)
(***************************************************************************)
EXTENDS Sequences, Naturals

CONSTANTS Groups, TaskIds

VARIABLE queue  \* queue[g]: the accepted tasks of g not yet finished

Init == queue = [g \in Groups |-> <<>>]

Has(g, t) == \E i \in 1..Len(queue[g]) : queue[g][i] = t

Submit(g, t) ==
  /\ ~Has(g, t)
  /\ queue' = [queue EXCEPT ![g] = Append(@, t)]

Complete(g) ==
  /\ queue[g] # <<>>
  /\ queue' = [queue EXCEPT ![g] = Tail(@)]

Next == \E g \in Groups : Complete(g) \/ \E t \in TaskIds : Submit(g, t)

Spec == Init /\ [][Next]_queue

=============================================================================
