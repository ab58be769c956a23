----------------------------- MODULE MCGroupQueue -----------------------------
(***************************************************************************)
(* TLC instances of GroupQueue.  MCSpec takes the arrivals of work from a  *)
(* budget, so that liveness is judged once the groups stop bringing work.  *)
(***************************************************************************)
EXTENDS GroupQueue, TLC

CONSTANT Budget  \* model bound: enqueue calls in a behaviour

VARIABLE budget

Symmetry == Permutations(Groups) \cup Permutations(TaskIds)

mcVars == <<vars, budget>>

MCInit == Init /\ budget = Budget

Budgeted(g) == budget > 0 /\ budget' = budget - 1 /\ Arrive(g)

Unbudgeted(g) ==
  /\ UNCHANGED budget
  /\ \/ RunEnds(g)
     \/ TimerFires(g)
     \/ CooldownExpires(g)
     \/ RegisterProcess(g)
     \/ NotifyIdle(g)
     \/ SendMessage(g)
     \/ CloseStdin(g)

MCNext ==
  \/ \E g \in Groups : Budgeted(g) \/ Unbudgeted(g)
  \/ UNCHANGED budget /\ Shutdown

MCSpec == MCInit /\ [][MCNext]_mcVars

FairMCSpec == MCSpec /\ Fairness

\* Every accepted task starts, and so does every owed message check, unless the
\* process shuts down: parking, retries, cooldowns and other groups only delay it.
TasksServed ==
  \A g \in Groups : \A t \in TaskIds :
    Queued(g, t) ~> (~Queued(g, t) \/ shuttingDown)

MessagesServed ==
  \A g \in Groups : pendingMessages[g] ~> (~pendingMessages[g] \/ shuttingDown)

\* Whatever was accepted is served in the end.
AllServed == TasksServed /\ MessagesServed

=============================================================================
