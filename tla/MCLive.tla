------------------------------- MODULE MCLive -------------------------------
(***************************************************************************)
(* TLC instance for what must eventually happen to the messages of a chat  *)
(* and to the work of the group queue.  They share no state here: a        *)
(* behaviour exercises one of them and leaves the other as it starts,      *)
(* where nothing is due.                                                   *)
(***************************************************************************)
EXTENDS ChatMessages

CONSTANTS
  Groups, TaskIds, NoTask, MaxConcurrent, MaxTimers, Budget  \* of the queue

VARIABLES  \* of the queue, and the component of this behaviour
  active, idleWaiting, isTaskContainer, runningTaskId, pendingMessages, pendingTasks,
  registered, retryCount, cooling, deferred, timers, activeCount, waitingGroups,
  shuttingDown, inflight, closeSent, budget, part

queueVars == <<active, idleWaiting, isTaskContainer, runningTaskId, pendingMessages,
               pendingTasks, registered, retryCount, cooling, deferred, timers, activeCount,
               waitingGroups, shuttingDown, inflight, closeSent, budget>>

Queue == INSTANCE MCGroupQueue

\* One start is enough for a chat that stands still.
LiveInit ==
  /\ part \in {"queue", "chat"}
  /\ Queue!MCInit /\ Init
  /\ part # "chat" => kind = [m \in Messages |-> "request"]

LiveNext ==
  /\ UNCHANGED part
  /\ \/ part = "queue" /\ Queue!MCNext /\ UNCHANGED vars
     \/ part = "chat" /\ Next /\ UNCHANGED queueVars

LiveSpec ==
  /\ LiveInit /\ [][LiveNext]_<<part, vars, queueVars>>
  /\ Fairness /\ Queue!Fairness

\* Every accepted task starts, and so does every owed check (MCGroupQueue).
AllServed == Queue!AllServed

=============================================================================
