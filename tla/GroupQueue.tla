------------------------------ MODULE GroupQueue ------------------------------
(***************************************************************************)
(* The per-group work queue of the control plane (src/src/group-queue.ts). *)
(*                                                                         *)
(* Every chat group owns at most one running container, and the process    *)
(* as a whole at most MaxConcurrent.  A group's work is either a "message  *)
(* check" (drain the chat's unread messages through the agent) or a        *)
(* scheduled task.  All methods run on one event loop, so a method up to   *)
(* its first await, and a continuation after one, is a single action here. *)
(* Time is abstract: a retry backoff or a cooldown ends at some point.     *)
(***************************************************************************)
EXTENDS Naturals, Sequences, FiniteSets

CONSTANTS
  Groups,         \* the chat groups, named by their jid
  TaskIds,        \* ids of a group's scheduled tasks
  NoTask,         \* runningTaskId = null
  MaxConcurrent,  \* MAX_CONCURRENT_CONTAINERS
  MaxRetries,     \* MAX_RETRIES
  MaxTimers       \* model bound: outstanding setTimeout calls per group

ASSUME GroupQueueAssumption ==
  /\ IsFiniteSet(Groups)
  /\ NoTask \notin TaskIds
  /\ MaxConcurrent \in Nat \ {0}
  /\ MaxRetries \in Nat
  /\ MaxTimers \in Nat \ {0}

VARIABLES
  active,           \* active[g]: g holds a container slot
  idleWaiting,      \* idleWaiting[g]: its container finished and waits for input
  isTaskContainer,  \* isTaskContainer[g]: the slot runs a scheduled task
  runningTaskId,    \* runningTaskId[g]: that task, or NoTask
  pendingMessages,  \* pendingMessages[g]: a message check is owed to g
  pendingTasks,     \* pendingTasks[g]: queued tasks, oldest first
  registered,       \* registered[g]: groupFolder # null, set once spawned
  retryCount,       \* retryCount[g]: failures since the last success
  cooling,          \* cooling[g]: cooldownUntil is in the future
  deferred,         \* deferred[g]: timers armed to fire once cooldown is over
  timers,           \* timers[g]: armed timers that may fire any time
  activeCount,      \* slots in use
  waitingGroups,    \* groups parked for a slot, oldest first
  shuttingDown,
  inflight,         \* inflight[g]: runForGroup/runTask calls awaiting their work
  closeSent         \* closeSent[g]: the _close sentinel was written for this run

slotVars  == <<active, isTaskContainer, runningTaskId, activeCount, inflight>>
retryVars == <<retryCount, cooling>>
timerVars == <<deferred, timers>>
vars == <<slotVars, idleWaiting, pendingMessages, pendingTasks, registered,
          retryVars, timerVars, waitingGroups, shuttingDown, closeSent>>

-----------------------------------------------------------------------------
(***************************************************************************)
(* State predicates.  An operator X_Y is X with a bug Y planted in it: the *)
(* runs are known to notice the bug when X_Y takes the place of X.         *)
(***************************************************************************)

Waiting(g) == \E i \in 1..Len(waitingGroups) : waitingGroups[i] = g
Queued(g, t) == \E i \in 1..Len(pendingTasks[g]) : pendingTasks[g][i] = t
HasWork(g) == pendingTasks[g] # <<>> \/ pendingMessages[g]

\* enqueueTask refuses a task that is queued or running.
Known_QueuedOnly(g, t) == Queued(g, t)
Known(g, t) == runningTaskId[g] = t \/ Queued(g, t)

\* No slot is free.
Full_OffByOne == activeCount > MaxConcurrent
Full == activeCount >= MaxConcurrent

\* drainGroup serves a task of g before its messages.
TaskFirst_MessagesFirst(g) == pendingTasks[g] # <<>> /\ ~pendingMessages[g]
TaskFirst(g) == pendingTasks[g] # <<>>

CanArm(g) == timers[g] + deferred[g] < MaxTimers

-----------------------------------------------------------------------------
Init ==
  /\ active = [g \in Groups |-> FALSE]
  /\ idleWaiting = [g \in Groups |-> FALSE]
  /\ isTaskContainer = [g \in Groups |-> FALSE]
  /\ runningTaskId = [g \in Groups |-> NoTask]
  /\ pendingMessages = [g \in Groups |-> FALSE]
  /\ pendingTasks = [g \in Groups |-> <<>>]
  /\ registered = [g \in Groups |-> FALSE]
  /\ retryCount = [g \in Groups |-> 0]
  /\ cooling = [g \in Groups |-> FALSE]
  /\ deferred = [g \in Groups |-> 0]
  /\ timers = [g \in Groups |-> 0]
  /\ activeCount = 0
  /\ waitingGroups = <<>>
  /\ shuttingDown = FALSE
  /\ inflight = [g \in Groups |-> 0]
  /\ closeSent = [g \in Groups |-> FALSE]

-----------------------------------------------------------------------------
(***************************************************************************)
(* Slots.  Switch(F, M, T, task) ends the run of every group in F, then    *)
(* starts a message run in every group of M and the task task[g] in every  *)
(* group g of T: the synchronous heads of runForGroup and runTask and      *)
(* their finally blocks.  A new container removes a stale sentinel before  *)
(* it looks for one.                                                       *)
(***************************************************************************)
Switch(F, M, T, task) ==
  /\ active' = [g \in Groups |-> g \in M \cup T \/ (active[g] /\ g \notin F)]
  /\ idleWaiting' = [g \in Groups |-> idleWaiting[g] /\ g \notin M \cup T]
  /\ isTaskContainer' =
       [g \in Groups |-> g \in T \/ (isTaskContainer[g] /\ g \notin F \cup M)]
  /\ runningTaskId' =
       [g \in Groups |-> IF g \in T THEN task[g]
                         ELSE IF g \in F THEN NoTask ELSE runningTaskId[g]]
  /\ pendingMessages' = [g \in Groups |-> pendingMessages[g] /\ g \notin M]
  /\ registered' = [g \in Groups |-> registered[g] /\ g \notin F]
  /\ closeSent' = [g \in Groups |-> closeSent[g] /\ g \notin M \cup T]
  /\ inflight' = [g \in Groups |-> (inflight[g] - (IF g \in F THEN 1 ELSE 0))
                                   + (IF g \in M \cup T THEN 1 ELSE 0)]
  /\ activeCount' = (activeCount - Cardinality(F)) + Cardinality(M \cup T)

NoTasks == [g \in Groups |-> NoTask]
HeadTasks == [g \in Groups |-> IF pendingTasks[g] = <<>> THEN NoTask
                               ELSE Head(pendingTasks[g])]

\* The parked groups among the first k that a drain would start.
Startable(k) == {i \in 1..k : HasWork(waitingGroups[i])}

\* How many parked groups the while loop of drainWaiting shifts off when n
\* slots are in use: it stops at an empty list or when the slots are full.
Popped_None(n) == 0
Popped(n) ==
  CHOOSE k \in 0..Len(waitingGroups) :
    /\ k = Len(waitingGroups) \/ n + Cardinality(Startable(k)) >= MaxConcurrent
    /\ \A j \in 0..(k-1) : n + Cardinality(Startable(j)) < MaxConcurrent

\* drainWaiting, called when the run of g ended and g has nothing queued.
DrainWaiting(g) ==
  LET k == Popped(activeCount - 1)
      S == {waitingGroups[i] : i \in Startable(k)}
      T == {h \in S : pendingTasks[h] # <<>>}
  IN  /\ Switch({g}, S \ T, T, HeadTasks)
      /\ pendingTasks' = [h \in Groups |-> IF h \in T THEN Tail(pendingTasks[h])
                                           ELSE pendingTasks[h]]
      /\ waitingGroups' = SubSeq(waitingGroups, k + 1, Len(waitingGroups))

\* The finally block of a run of g, with drainGroup: the group's own tasks
\* first, then its own messages, and only then the parked groups.
EndRun(g) ==
  \/ /\ shuttingDown
     /\ Switch({g}, {}, {}, NoTasks)
     /\ UNCHANGED <<pendingTasks, waitingGroups>>
  \/ /\ ~shuttingDown
     /\ TaskFirst(g)
     /\ Switch({g}, {}, {g}, HeadTasks)
     /\ pendingTasks' = [pendingTasks EXCEPT ![g] = Tail(@)]
     /\ UNCHANGED waitingGroups
  \/ /\ ~shuttingDown
     /\ ~TaskFirst(g)
     /\ pendingMessages[g]
     /\ Switch({g}, {g}, {}, NoTasks)
     /\ UNCHANGED <<pendingTasks, waitingGroups>>
  \/ /\ ~shuttingDown
     /\ ~HasWork(g)
     /\ DrainWaiting(g)

\* A group joins the parked ones once, at the end.
Park_Forgets(g) == UNCHANGED waitingGroups
Park_Twice(g) == waitingGroups' = Append(waitingGroups, g)
Park(g) ==
  waitingGroups' = IF Waiting(g) THEN waitingGroups ELSE Append(waitingGroups, g)

-----------------------------------------------------------------------------
(* Message checks *)

\* enqueueMessageCheck past its shutdown test; the caller accounts for timers.
MessageCheck(g) ==
  \/ /\ cooling[g]
     /\ pendingMessages' = [pendingMessages EXCEPT ![g] = TRUE]
     /\ deferred' = [deferred EXCEPT ![g] = @ + 1]
     /\ UNCHANGED <<slotVars, idleWaiting, registered, closeSent, waitingGroups>>
  \/ /\ ~cooling[g]
     /\ active[g]
     /\ pendingMessages' = [pendingMessages EXCEPT ![g] = TRUE]
     /\ UNCHANGED <<slotVars, idleWaiting, registered, closeSent, waitingGroups,
                    deferred>>
  \/ /\ ~cooling[g]
     /\ ~active[g]
     /\ Full
     /\ pendingMessages' = [pendingMessages EXCEPT ![g] = TRUE]
     /\ Park(g)
     /\ UNCHANGED <<slotVars, idleWaiting, registered, closeSent, deferred>>
  \/ /\ ~cooling[g]
     /\ ~active[g]
     /\ ~Full
     /\ Switch({}, {g}, {}, NoTasks)
     /\ UNCHANGED <<waitingGroups, deferred>>

\* A new message, or startup recovery, asks for a check of g.
EnqueueMessageCheck(g) ==
  /\ ~shuttingDown
  /\ cooling[g] => CanArm(g)
  /\ MessageCheck(g)
  /\ UNCHANGED <<pendingTasks, retryVars, timers, shuttingDown>>

\* A retry or cooldown timer of g fires.
TimerFires(g) ==
  /\ timers[g] > 0
  /\ timers' = [timers EXCEPT ![g] = @ - 1]
  /\ \/ /\ ~shuttingDown
        /\ MessageCheck(g)
     \/ /\ shuttingDown
        /\ UNCHANGED <<slotVars, idleWaiting, pendingMessages, registered,
                       closeSent, waitingGroups, deferred>>
  /\ UNCHANGED <<pendingTasks, retryVars, shuttingDown>>

\* Date.now() passes cooldownUntil: the deferred checks become due.
CooldownExpires(g) ==
  /\ cooling[g]
  /\ cooling' = [cooling EXCEPT ![g] = FALSE]
  /\ timers' = [timers EXCEPT ![g] = @ + deferred[g]]
  /\ deferred' = [deferred EXCEPT ![g] = 0]
  /\ UNCHANGED <<slotVars, idleWaiting, pendingMessages, pendingTasks,
                 registered, retryCount, waitingGroups, shuttingDown, closeSent>>

\* scheduleRetry: back off, or give up for a cooldown.  Entering a cooldown
\* again moves its end; timers armed for the earlier end then fire before it.
ScheduleRetry_KeepsCount(g) ==
  /\ CanArm(g)
  /\ retryCount' = [retryCount EXCEPT ![g] = @ + 1]
  /\ IF retryCount[g] + 1 > MaxRetries
     THEN /\ cooling' = [cooling EXCEPT ![g] = TRUE]
          /\ UNCHANGED timerVars
     ELSE /\ timers' = [timers EXCEPT ![g] = @ + 1]
          /\ UNCHANGED <<cooling, deferred>>
ScheduleRetry(g) ==
  IF retryCount[g] + 1 > MaxRetries
  THEN /\ retryCount' = [retryCount EXCEPT ![g] = 0]
       /\ cooling' = [cooling EXCEPT ![g] = TRUE]
       /\ timers' = [timers EXCEPT ![g] = @ + deferred[g]]
       /\ deferred' = [deferred EXCEPT ![g] = 0]
  ELSE /\ CanArm(g)
       /\ retryCount' = [retryCount EXCEPT ![g] = @ + 1]
       /\ timers' = [timers EXCEPT ![g] = @ + 1]
       /\ UNCHANGED <<cooling, deferred>>

\* processMessagesFn settles: TRUE resets the retries, FALSE or a throw retries.
MessagesSucceed(g) ==
  /\ inflight[g] > 0
  /\ ~isTaskContainer[g]
  /\ retryCount' = [retryCount EXCEPT ![g] = 0]
  /\ EndRun(g)
  /\ UNCHANGED <<cooling, timerVars, shuttingDown>>

MessagesFail(g) ==
  /\ inflight[g] > 0
  /\ ~isTaskContainer[g]
  /\ ScheduleRetry(g)
  /\ EndRun(g)
  /\ UNCHANGED shuttingDown

-----------------------------------------------------------------------------
(* Tasks *)

\* closeStdin: the sentinel is written only for a run with a known folder.
Close_TasksOnly(g) ==
  closeSent' = [closeSent EXCEPT
    ![g] = @ \/ (active[g] /\ registered[g] /\ isTaskContainer[g])]
Close(g) ==
  closeSent' = [closeSent EXCEPT ![g] = @ \/ (active[g] /\ registered[g])]

EnqueueTask(g, t) ==
  /\ ~shuttingDown
  /\ ~Known(g, t)
  /\ \/ /\ active[g]
        /\ pendingTasks' = [pendingTasks EXCEPT ![g] = Append(@, t)]
        /\ IF idleWaiting[g] THEN Close(g) ELSE UNCHANGED closeSent
        /\ UNCHANGED <<slotVars, idleWaiting, pendingMessages, registered,
                       waitingGroups>>
     \/ /\ ~active[g]
        /\ Full
        /\ pendingTasks' = [pendingTasks EXCEPT ![g] = Append(@, t)]
        /\ Park(g)
        /\ UNCHANGED <<slotVars, idleWaiting, pendingMessages, registered,
                       closeSent>>
     \/ /\ ~active[g]
        /\ ~Full
        /\ Switch({}, {}, {g}, [NoTasks EXCEPT ![g] = t])
        /\ UNCHANGED <<pendingTasks, waitingGroups>>
  /\ UNCHANGED <<retryVars, timerVars, shuttingDown>>

\* task.fn() settles; a throw is logged and dropped.
TaskEnds(g) ==
  /\ inflight[g] > 0
  /\ isTaskContainer[g]
  /\ EndRun(g)
  /\ UNCHANGED <<retryVars, timerVars, shuttingDown>>

-----------------------------------------------------------------------------
(* The running container *)

RegisterProcess(g) ==
  /\ inflight[g] > 0
  /\ ~registered[g]
  /\ registered' = [registered EXCEPT ![g] = TRUE]
  /\ UNCHANGED <<slotVars, idleWaiting, pendingMessages, pendingTasks, retryVars,
                 timerVars, waitingGroups, shuttingDown, closeSent>>

NotifyIdle(g) ==
  /\ registered[g]
  /\ idleWaiting' = [idleWaiting EXCEPT ![g] = TRUE]
  /\ IF pendingTasks[g] # <<>> THEN Close(g) ELSE UNCHANGED closeSent
  /\ UNCHANGED <<slotVars, pendingMessages, pendingTasks, registered, retryVars,
                 timerVars, waitingGroups, shuttingDown>>

\* sendMessage, whether or not the input file could be written: the flag is
\* cleared before the write is tried.
SendMessage(g) ==
  /\ active[g]
  /\ registered[g]
  /\ ~isTaskContainer[g]
  /\ idleWaiting' = [idleWaiting EXCEPT ![g] = FALSE]
  /\ UNCHANGED <<slotVars, pendingMessages, pendingTasks, registered, retryVars,
                 timerVars, waitingGroups, shuttingDown, closeSent>>

\* The idle timer of a message run, or the close delay of a task run.
CloseStdin(g) ==
  /\ active[g]
  /\ registered[g]
  /\ Close(g)
  /\ UNCHANGED <<slotVars, idleWaiting, pendingMessages, pendingTasks,
                 registered, retryVars, timerVars, waitingGroups, shuttingDown>>

Shutdown ==
  /\ ~shuttingDown
  /\ shuttingDown' = TRUE
  /\ UNCHANGED <<slotVars, idleWaiting, pendingMessages, pendingTasks,
                 registered, retryVars, timerVars, waitingGroups, closeSent>>

-----------------------------------------------------------------------------
Arrive(g) == EnqueueMessageCheck(g) \/ \E t \in TaskIds : EnqueueTask(g, t)

RunEnds(g) == MessagesSucceed(g) \/ MessagesFail(g) \/ TaskEnds(g)

Next ==
  \/ \E g \in Groups :
       \/ Arrive(g)
       \/ RunEnds(g)
       \/ TimerFires(g)
       \/ CooldownExpires(g)
       \/ RegisterProcess(g)
       \/ NotifyIdle(g)
       \/ SendMessage(g)
       \/ CloseStdin(g)
  \/ Shutdown

Spec == Init /\ [][Next]_vars

(***************************************************************************)
(* Fairness.  A run ends because the container has a hard timeout          *)
(* (container-runner.ts); a setTimeout callback fires; time passes.        *)
(***************************************************************************)
Fairness ==
  \A g \in Groups : /\ WF_vars(RunEnds(g))
                    /\ WF_vars(TimerFires(g))
                    /\ WF_vars(CooldownExpires(g))

-----------------------------------------------------------------------------
(* Properties *)

\* The type invariant; a group never counts more failures than MAX_RETRIES,
\* because scheduleRetry resets the count when it gives up.
TypeOK ==
  /\ active \in [Groups -> BOOLEAN]
  /\ idleWaiting \in [Groups -> BOOLEAN]
  /\ isTaskContainer \in [Groups -> BOOLEAN]
  /\ runningTaskId \in [Groups -> TaskIds \cup {NoTask}]
  /\ pendingMessages \in [Groups -> BOOLEAN]
  /\ pendingTasks \in [Groups -> Seq(TaskIds)]
  /\ registered \in [Groups -> BOOLEAN]
  /\ retryCount \in [Groups -> 0..MaxRetries]
  /\ cooling \in [Groups -> BOOLEAN]
  /\ deferred \in [Groups -> Nat]
  /\ timers \in [Groups -> Nat]
  /\ activeCount \in Nat
  /\ waitingGroups \in Seq(Groups)
  /\ shuttingDown \in BOOLEAN
  /\ inflight \in [Groups -> Nat]
  /\ closeSent \in [Groups -> BOOLEAN]

\* The number of slots in use is the number of groups that hold one, and never
\* exceeds MAX_CONCURRENT_CONTAINERS, whichever of the five places that start
\* a run (two enqueues, three drains) the run came from.
SlotsRespected ==
  /\ activeCount = Cardinality({g \in Groups : active[g]})
  /\ activeCount <= MaxConcurrent

\* A group never has two containers: the calls of runForGroup and runTask that
\* still await their work are at most one per group, and `active` says so.
OneRunPerGroup == \A g \in Groups : inflight[g] = (IF active[g] THEN 1 ELSE 0)

\* Work that was accepted is never forgotten: a group without a slot that owes
\* a task or a message check is parked for a slot or has a timer that will come
\* back to it.  Tasks have no timer, so a group with a task must be parked.
NoLostWakeup ==
  ~shuttingDown =>
    \A g \in Groups : ~active[g] =>
      /\ pendingTasks[g] # <<>> => Waiting(g)
      /\ pendingMessages[g] => Waiting(g) \/ deferred[g] + timers[g] > 0

\* Parking is exact: no group is parked twice or while it holds a slot, every
\* parked group has work, and no slot stays free while a group is parked.
ParkedOnlyWhenFull ==
  /\ \A i, j \in 1..Len(waitingGroups) :
       waitingGroups[i] = waitingGroups[j] => i = j
  /\ \A i \in 1..Len(waitingGroups) :
       ~active[waitingGroups[i]] /\ HasWork(waitingGroups[i])
  /\ waitingGroups # <<>> /\ ~shuttingDown => activeCount = MaxConcurrent

\* Slots and runs are counted alike: per group and in all.
RunsCounted == SlotsRespected /\ OneRunPerGroup

\* Parking is neither too little nor too much.
ParkingCorrect == NoLostWakeup /\ ParkedOnlyWhenFull

\* A task that waits behind a container idling for input is never stuck behind
\* it: whichever came first, the task or the idleness, the sentinel was written
\* ("If tasks are pending, preempt the idle container immediately").
IdlePreempted ==
  \A g \in Groups :
    active[g] /\ registered[g] /\ idleWaiting[g] /\ pendingTasks[g] # <<>>
      => closeSent[g]

\* The step starts a message run of g.
MessageRunStarts(g) ==
  /\ active'[g]
  /\ ~isTaskContainer'[g]
  /\ \/ ~active[g]
     \/ isTaskContainer[g]
     \/ pendingMessages[g] /\ ~pendingMessages'[g]

\* "Tasks first": no message run starts in a group that has queued tasks, not
\* even from enqueueMessageCheck or a timer, which never look at the tasks.
TasksFirst ==
  [][\A g \in Groups : MessageRunStarts(g) => pendingTasks[g] = <<>>]_vars

\* The accepted tasks of each group that did not finish, the running one first.
TaskLine == [g \in Groups |-> IF runningTaskId[g] = NoTask THEN pendingTasks[g]
                              ELSE <<runningTaskId[g]>> \o pendingTasks[g]]

\* The tasks of a group run in the order they were accepted, none twice and
\* none dropped, whatever interleaves: the queue implements TaskFifo.
Fifo == INSTANCE TaskFifo WITH queue <- TaskLine
TasksInOrder == Fifo!Spec

=============================================================================
