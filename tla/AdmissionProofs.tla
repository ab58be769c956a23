--------------------------- MODULE AdmissionProofs ---------------------------
(***************************************************************************)
(* Proofs about what admits the runs of agents: GroupQueue, for any finite *)
(* set of groups, any tasks and any number of slots (its invariants, what  *)
(* a step never does, and that it implements the abstract queue of tasks   *)
(* of module TaskFifo); the pool of warm runner sessions, for any calls    *)
(* and any sizes of the pool; and TaskScheduler, for any finite set of     *)
(* tasks, any schedules and any interventions.                             *)
(***************************************************************************)
EXTENDS GroupQueue, HotRunnerPool, TaskScheduler, NumberLemmas, FiniteSetTheorems, TLAPS

-----------------------------------------------------------------------------
(* The group queue *)

Active == {g \in Groups : active[g]}

\* The inductive invariant.  The parts need each other: a free slot means that
\* nobody is parked (ParkedOnlyWhenFull), so an enqueue that finds one may start
\* a run without hurting a parked group; and a run that ends leaves exactly one
\* slot to the oldest parked group, which still has work.
IInv ==
  /\ TypeOK
  /\ SlotsRespected
  /\ OneRunPerGroup
  /\ NoLostWakeup
  /\ ParkedOnlyWhenFull

\* The part of the invariant that counts slots.
SlotInv ==
  /\ SlotsRespected
  /\ OneRunPerGroup

-----------------------------------------------------------------------------
(* Switch *)

\* The number of groups that hold a slot after a switch.
LEMMA ActiveAfterSwitch ==
  ASSUME TypeOK, SlotInv,
         NEW F \in SUBSET Active, NEW M, NEW T, NEW task,
         M \cup T \subseteq Groups, (M \cup T) \cap (Active \ F) = {},
         Switch(F, M, T, task)
  PROVE  /\ activeCount' = Cardinality(Active')
         /\ activeCount' \in Nat
         /\ OneRunPerGroup'
         /\ activeCount' = (activeCount - Cardinality(F)) + Cardinality(M \cup T)
<1> DEFINE B == M \cup T
           A2 == Active'
<1>1. A2 = (Active \ F) \cup B
  BY DEF Switch, Active
<1>2. IsFiniteSet(Active) /\ IsFiniteSet(B) /\ IsFiniteSet(F)
  <2>1. Active \in SUBSET Groups /\ B \in SUBSET Groups /\ F \in SUBSET Groups
    BY DEF Active
  <2>2. IsFiniteSet(Groups)
    BY GroupQueueAssumption
  <2> QED
    BY <2>1, <2>2, FS_Subset
<1>3. /\ IsFiniteSet(Active \ F)
      /\ Cardinality(Active \ F) = Cardinality(Active) - Cardinality(F)
  <2>1. Active \cap F = F
    OBVIOUS
  <2> QED
    BY <1>2, <2>1, FS_Difference
<1>4. /\ IsFiniteSet((Active \ F) \cup B)
      /\ Cardinality((Active \ F) \cup B)
           = Cardinality(Active \ F) + Cardinality(B)
  <2>1. (Active \ F) \cap B = {}
    OBVIOUS
  <2>2. Cardinality((Active \ F) \cap B) = 0
    BY <2>1, FS_EmptySet
  <2>3. Cardinality((Active \ F) \cup B)
          = Cardinality(Active \ F) + Cardinality(B) - Cardinality((Active \ F) \cap B)
    BY <1>2, <1>3, FS_Union
  <2>4. Cardinality(Active \ F) \in Nat /\ Cardinality(B) \in Nat
    BY <1>2, <1>3, FS_CardinalityType
  <2> QED
    BY <1>2, <1>3, <2>2, <2>3, <2>4, FS_Union
<1>5. activeCount' = (Cardinality(Active) - Cardinality(F)) + Cardinality(B)
  BY DEF Switch, SlotInv, SlotsRespected, Active
<1>6. activeCount' = Cardinality(A2)
  BY <1>1, <1>3, <1>4, <1>5
<1>7. Cardinality(A2) \in Nat
  BY <1>1, <1>4, FS_CardinalityType
<1>8. OneRunPerGroup'
  <2>1. SUFFICES ASSUME NEW g \in Groups
                 PROVE  inflight'[g] = IF active'[g] THEN 1 ELSE 0
    BY DEF OneRunPerGroup
  <2>2. inflight[g] = IF active[g] THEN 1 ELSE 0
    BY DEF SlotInv, OneRunPerGroup
  <2>3. active'[g] <=> (g \in B \/ (active[g] /\ g \notin F))
    BY Zenon DEF Switch
  <2>4. inflight'[g] = (inflight[g] - (IF g \in F THEN 1 ELSE 0))
                       + (IF g \in B THEN 1 ELSE 0)
    BY DEF Switch
  <2>5. /\ g \in F => active[g]
        /\ g \notin F /\ g \in B => ~active[g]
    BY DEF Active
  <2> QED
    BY <2>2, <2>3, <2>4, <2>5
<1>9. activeCount' = (activeCount - Cardinality(F)) + Cardinality(B)
  BY DEF Switch
<1> QED
  BY <1>1, <1>6, <1>7, <1>8, <1>9

\* A switch keeps the types of the variables it assigns.
SwitchTypes ==
  /\ active \in [Groups -> BOOLEAN]
  /\ idleWaiting \in [Groups -> BOOLEAN]
  /\ isTaskContainer \in [Groups -> BOOLEAN]
  /\ runningTaskId \in [Groups -> TaskIds \cup {NoTask}]
  /\ pendingMessages \in [Groups -> BOOLEAN]
  /\ registered \in [Groups -> BOOLEAN]
  /\ closeSent \in [Groups -> BOOLEAN]
  /\ inflight \in [Groups -> Nat]
  /\ activeCount \in Nat

LEMMA SwitchTyped ==
  ASSUME TypeOK, SlotInv,
         NEW F \in SUBSET Active, NEW M, NEW T,
         NEW task \in [Groups -> TaskIds \cup {NoTask}],
         M \cup T \subseteq Groups, (M \cup T) \cap (Active \ F) = {},
         Switch(F, M, T, task)
  PROVE  SwitchTypes'
<1>1. activeCount' \in Nat
  BY ActiveAfterSwitch
<1>2. /\ active' \in [Groups -> BOOLEAN]
      /\ idleWaiting' \in [Groups -> BOOLEAN]
      /\ isTaskContainer' \in [Groups -> BOOLEAN]
      /\ pendingMessages' \in [Groups -> BOOLEAN]
      /\ registered' \in [Groups -> BOOLEAN]
      /\ closeSent' \in [Groups -> BOOLEAN]
  BY Zenon DEF Switch
<1>3. runningTaskId' \in [Groups -> TaskIds \cup {NoTask}]
  BY DEF Switch, TypeOK
<1>4. inflight' \in [Groups -> Nat]
  <2>1. OneRunPerGroup'
    BY ActiveAfterSwitch
  <2>2. inflight' = [g \in Groups |-> inflight'[g]]
    BY DEF Switch
  <2>3. \A g \in Groups : inflight'[g] \in Nat
    BY <2>1 DEF OneRunPerGroup
  <2> QED
    BY <2>2, <2>3
<1> QED
  BY <1>1, <1>2, <1>3, <1>4 DEF SwitchTypes

LEMMA HeadTasksTyped ==
  ASSUME TypeOK
  PROVE  HeadTasks \in [Groups -> TaskIds \cup {NoTask}]
<1>1. ASSUME NEW g \in Groups, pendingTasks[g] # <<>>
      PROVE  Head(pendingTasks[g]) \in TaskIds
  BY <1>1 DEF TypeOK
<1> QED
  BY <1>1 DEF HeadTasks

LEMMA NoTasksTyped == NoTasks \in [Groups -> TaskIds \cup {NoTask}]
BY DEF NoTasks

-----------------------------------------------------------------------------
(* drainWaiting *)

LEMMA SlotsOf ==
  ASSUME IInv
  PROVE  SlotInv /\ TypeOK /\ MaxConcurrent \in Nat \ {0}
BY GroupQueueAssumption DEF IInv, SlotInv

\* With nobody parked the loop does not run.
LEMMA PoppedNone ==
  ASSUME waitingGroups = <<>>, NEW n
  PROVE  Popped(n) = 0 /\ Startable(0) = {}
<1>1. Len(waitingGroups) = 0 /\ 0..0 = {0} /\ 0..(0-1) = {}
  OBVIOUS
<1>2. Startable(0) = {}
  BY DEF Startable
<1>3. \A k \in 0..Len(waitingGroups) : k = 0
  BY <1>1
<1>4. \E k \in 0..Len(waitingGroups) :
        /\ k = Len(waitingGroups) \/ n + Cardinality(Startable(k)) >= MaxConcurrent
        /\ \A j \in 0..(k-1) : n + Cardinality(Startable(j)) < MaxConcurrent
  BY <1>1
<1>5. Popped(n) \in 0..Len(waitingGroups)
  BY <1>4, Zenon DEF Popped
<1> QED
  BY <1>2, <1>3, <1>5

\* With somebody parked, the one slot given back goes to the oldest.
LEMMA PoppedOne ==
  ASSUME IInv, ~shuttingDown, waitingGroups # <<>>
  PROVE  Popped(activeCount - 1) = 1 /\ Startable(1) = {1}
<1> DEFINE n == activeCount - 1
           Stops(k) ==
             /\ k = Len(waitingGroups) \/ n + Cardinality(Startable(k)) >= MaxConcurrent
             /\ \A j \in 0..(k-1) : n + Cardinality(Startable(j)) < MaxConcurrent
<1>1. Len(waitingGroups) \in Nat \ {0}
  BY DEF IInv, TypeOK
<1>2. n = MaxConcurrent - 1 /\ MaxConcurrent \in Nat \ {0}
  BY GroupQueueAssumption DEF IInv, ParkedOnlyWhenFull
<1>3. Startable(0) = {} /\ Cardinality(Startable(0)) = 0
  <2>1. 1..0 = {}
    OBVIOUS
  <2>2. Startable(0) = {}
    BY <2>1 DEF Startable
  <2> QED
    BY <2>2, FS_EmptySet
<1>4. Startable(1) = {1} /\ Cardinality(Startable(1)) = 1
  <2>1. HasWork(waitingGroups[1])
    BY <1>1 DEF IInv, ParkedOnlyWhenFull
  <2>2. 1..1 = {1}
    OBVIOUS
  <2>3. Startable(1) = {1}
    BY <2>1, <2>2 DEF Startable
  <2> QED
    BY <2>3, FS_Singleton
<1>5. Stops(1)
  BY <1>2, <1>3, <1>4
<1>6. ASSUME NEW k \in 0..Len(waitingGroups), Stops(k)
      PROVE  k = 1
  <2>1. k # 0
    BY <1>1, <1>2, <1>3, <1>6
  <2>2. ~(k > 1)
    <3>1. k > 1 => 1 \in 0..(k-1)
      OBVIOUS
    <3> QED
      BY <1>2, <1>4, <1>6, <3>1
  <2> QED
    BY <2>1, <2>2
<1>7. 1 \in 0..Len(waitingGroups)
  BY <1>1
<1>8. Popped(n) = CHOOSE k \in 0..Len(waitingGroups) : Stops(k)
  BY DEF Popped
<1> HIDE DEF Stops
<1>9. Popped(n) = 1
  BY <1>5, <1>6, <1>7, <1>8, Zenon
<1> QED
  BY <1>4, <1>9

-----------------------------------------------------------------------------
(* The end of a run *)

\* The effect of a switch on the two variables the parking discipline reads.
LEMMA SwitchFacts ==
  ASSUME NEW F, NEW M, NEW T, NEW task, Switch(F, M, T, task), NEW h \in Groups
  PROVE  /\ active'[h] <=> (h \in M \cup T \/ (active[h] /\ h \notin F))
         /\ pendingMessages'[h] <=> (pendingMessages[h] /\ h \notin M)
BY Zenon DEF Switch

TimersKept ==
  /\ deferred' \in [Groups -> Nat]
  /\ timers' \in [Groups -> Nat]
  /\ \A h \in Groups : deferred[h] + timers[h] > 0 => deferred'[h] + timers'[h] > 0

RetryTyped ==
  /\ retryCount \in [Groups -> 0..MaxRetries]
  /\ cooling \in [Groups -> BOOLEAN]

LEMMA EndRunPreserves ==
  ASSUME IInv, NEW g \in Groups, inflight[g] > 0, EndRun(g),
         TimersKept, RetryTyped', UNCHANGED shuttingDown
  PROVE  IInv'
<1> USE SlotsOf
<1>a. active[g] /\ {g} \in SUBSET Active
  BY DEF IInv, OneRunPerGroup, Active
<1>b. Cardinality({g}) = 1 /\ Cardinality({}) = 0
  BY FS_Singleton, FS_EmptySet
<1>c. activeCount \in Nat /\ activeCount <= MaxConcurrent /\ MaxConcurrent \in Nat
  BY DEF IInv, TypeOK, SlotsRespected
<1>d. HeadTasks \in [Groups -> TaskIds \cup {NoTask}]
  BY HeadTasksTyped
<1>e. NoTasks \in [Groups -> TaskIds \cup {NoTask}]
  BY NoTasksTyped
<1>f. shuttingDown' \in BOOLEAN
  BY DEF IInv, TypeOK
<1>1. CASE shuttingDown /\ Switch({g}, {}, {}, NoTasks)
           /\ UNCHANGED <<pendingTasks, waitingGroups>>
  <2>1. SwitchTypes' /\ OneRunPerGroup' /\ activeCount' = activeCount - 1
        /\ activeCount' = Cardinality(Active')
    BY <1>1, <1>a, <1>b, <1>c, <1>e, ActiveAfterSwitch, SwitchTyped
  <2>2. TypeOK'
    BY <1>1, <1>f, <2>1 DEF TypeOK, SwitchTypes, IInv, TimersKept, RetryTyped
  <2>3. SlotsRespected'
    BY <1>c, <2>1 DEF SlotsRespected, Active
  <2>4. NoLostWakeup'
    BY <1>1 DEF NoLostWakeup
  <2>5. ParkedOnlyWhenFull'
    <3>1. \A h \in Groups : ~active[h] => ~active'[h]
      BY <1>1, SwitchFacts
    <3>2. \A h \in Groups : HasWork(h) => HasWork(h)'
      BY <1>1, SwitchFacts DEF HasWork
    <3>3. waitingGroups \in Seq(Groups)
      BY DEF IInv, TypeOK
    <3> QED
      BY <1>1, <3>1, <3>2, <3>3 DEF ParkedOnlyWhenFull, IInv
  <2> QED
    BY <2>1, <2>2, <2>3, <2>4, <2>5 DEF IInv
<1>2. CASE ~shuttingDown /\ TaskFirst(g) /\ Switch({g}, {}, {g}, HeadTasks)
           /\ pendingTasks' = [pendingTasks EXCEPT ![g] = Tail(@)]
           /\ UNCHANGED waitingGroups
  <2>1. SwitchTypes' /\ OneRunPerGroup' /\ activeCount' = activeCount
        /\ activeCount' = Cardinality(Active')
    <3>1. {} \cup {g} = {g} /\ {g} \cap (Active \ {g}) = {} /\ {g} \subseteq Groups
      OBVIOUS
    <3>2. SwitchTypes'
      BY <1>2, <1>a, <1>d, <3>1, SwitchTyped
    <3>3. /\ OneRunPerGroup'
          /\ activeCount' = Cardinality(Active')
          /\ activeCount' = (activeCount - Cardinality({g})) + Cardinality({g})
      BY <1>2, <1>a, <3>1, ActiveAfterSwitch, ZenonT(30)
    <3> QED
      BY <1>b, <1>c, <3>2, <3>3
  <2>2. pendingTasks' \in [Groups -> Seq(TaskIds)]
    BY <1>2 DEF TaskFirst, IInv, TypeOK
  <2>3. TypeOK'
    BY <1>2, <1>f, <2>1, <2>2 DEF TypeOK, SwitchTypes, IInv, TimersKept, RetryTyped
  <2>4. SlotsRespected'
    BY <1>c, <2>1 DEF SlotsRespected, Active
  <2>5. \A h \in Groups : (active'[h] <=> active[h])
                          /\ (pendingMessages'[h] <=> pendingMessages[h])
    BY <1>2, <1>a, SwitchFacts
  <2>6. \A h \in Groups : h # g => pendingTasks'[h] = pendingTasks[h]
    BY <1>2 DEF IInv, TypeOK
  <2>7. NoLostWakeup'
    BY <1>2, <1>a, <2>5, <2>6 DEF NoLostWakeup, IInv, Waiting, TimersKept
  <2>8. ParkedOnlyWhenFull'
    <3>1. waitingGroups \in Seq(Groups)
      BY DEF IInv, TypeOK
    <3>2. ASSUME NEW i \in 1..Len(waitingGroups)
          PROVE  ~active'[waitingGroups[i]] /\ HasWork(waitingGroups[i])'
      <4>1. waitingGroups[i] \in Groups /\ ~active[waitingGroups[i]]
            /\ HasWork(waitingGroups[i])
        BY <3>1 DEF ParkedOnlyWhenFull, IInv
      <4> QED
        BY <1>2, <1>a, <2>5, <2>6, <4>1 DEF HasWork
    <3> QED
      BY <1>2, <2>1, <3>2 DEF ParkedOnlyWhenFull, IInv
  <2> QED
    BY <2>1, <2>3, <2>4, <2>7, <2>8 DEF IInv
<1>3. CASE ~shuttingDown /\ ~TaskFirst(g) /\ pendingMessages[g]
           /\ Switch({g}, {g}, {}, NoTasks)
           /\ UNCHANGED <<pendingTasks, waitingGroups>>
  <2>1. SwitchTypes' /\ OneRunPerGroup' /\ activeCount' = activeCount
        /\ activeCount' = Cardinality(Active')
    <3>1. {g} \cup {} = {g} /\ {g} \cap (Active \ {g}) = {} /\ {g} \subseteq Groups
      OBVIOUS
    <3> QED
      BY <1>3, <1>a, <1>b, <1>c, <1>e, <3>1, ActiveAfterSwitch, SwitchTyped
  <2>2. TypeOK'
    BY <1>3, <1>f, <2>1 DEF TypeOK, SwitchTypes, IInv, TimersKept, RetryTyped
  <2>3. SlotsRespected'
    BY <1>c, <2>1 DEF SlotsRespected, Active
  <2>4. \A h \in Groups : (active'[h] <=> active[h])
                          /\ (h # g => (pendingMessages'[h] <=> pendingMessages[h]))
    BY <1>3, <1>a, SwitchFacts
  <2>5. NoLostWakeup'
    BY <1>3, <1>a, <2>4 DEF NoLostWakeup, IInv, Waiting, TimersKept
  <2>6. ParkedOnlyWhenFull'
    <3>1. waitingGroups \in Seq(Groups)
      BY DEF IInv, TypeOK
    <3>2. ASSUME NEW i \in 1..Len(waitingGroups)
          PROVE  ~active'[waitingGroups[i]] /\ HasWork(waitingGroups[i])'
      <4>1. waitingGroups[i] \in Groups /\ ~active[waitingGroups[i]]
            /\ HasWork(waitingGroups[i])
        BY <3>1 DEF ParkedOnlyWhenFull, IInv
      <4> QED
        BY <1>3, <1>a, <2>4, <4>1 DEF HasWork
    <3> QED
      BY <1>3, <2>1, <3>2 DEF ParkedOnlyWhenFull, IInv
  <2> QED
    BY <2>1, <2>2, <2>3, <2>5, <2>6 DEF IInv
<1>4. CASE ~shuttingDown /\ ~HasWork(g) /\ DrainWaiting(g) /\ waitingGroups = <<>>
  <2>1. Switch({g}, {}, {}, HeadTasks) /\ waitingGroups' = <<>>
        /\ pendingTasks' = [h \in Groups |-> pendingTasks[h]]
    <3>1. Popped(activeCount - 1) = 0 /\ Startable(0) = {}
      BY <1>4, PoppedNone
    <3>2. SubSeq(waitingGroups, 0 + 1, Len(waitingGroups)) = <<>>
      BY <1>4
    <3>3. {waitingGroups[i] : i \in {}} = {}
      OBVIOUS
    <3> QED
      BY <1>4, <3>1, <3>2, <3>3 DEF DrainWaiting
  <2>2. SwitchTypes' /\ OneRunPerGroup' /\ activeCount' = activeCount - 1
        /\ activeCount' = Cardinality(Active')
    BY <2>1, <1>a, <1>b, <1>c, <1>d, ActiveAfterSwitch, SwitchTyped
  <2>3. pendingTasks' = pendingTasks
    <3>1. pendingTasks \in [Groups -> Seq(TaskIds)]
      BY DEF IInv, TypeOK
    <3> QED
      BY <2>1, <3>1, Zenon
  <2>4. TypeOK'
    <3>1. waitingGroups' \in Seq(Groups)
      BY <2>1
    <3> QED
      BY <1>f, <2>2, <2>3, <3>1 DEF TypeOK, SwitchTypes, IInv, TimersKept, RetryTyped
  <2>5. SlotsRespected'
    BY <1>c, <2>2 DEF SlotsRespected, Active
  <2>6. \A h \in Groups : (active'[h] <=> active[h] /\ h # g)
                          /\ (pendingMessages'[h] <=> pendingMessages[h])
    BY <2>1, SwitchFacts
  <2>7. NoLostWakeup'
    BY <1>4, <2>3, <2>6 DEF NoLostWakeup, IInv, Waiting, TimersKept, HasWork
  <2>8. ParkedOnlyWhenFull'
    BY <2>1 DEF ParkedOnlyWhenFull
  <2> QED
    BY <2>2, <2>4, <2>5, <2>7, <2>8 DEF IInv
<1>5. CASE ~shuttingDown /\ ~HasWork(g) /\ DrainWaiting(g) /\ waitingGroups # <<>>
  <2> DEFINE h0 == waitingGroups[1]
             M == IF pendingTasks[h0] = <<>> THEN {h0} ELSE {}
             T == IF pendingTasks[h0] = <<>> THEN {} ELSE {h0}
  <2>1. waitingGroups \in Seq(Groups) /\ Len(waitingGroups) \in Nat \ {0}
    BY <1>5 DEF IInv, TypeOK
  <2>2. h0 \in Groups /\ ~active[h0] /\ HasWork(h0) /\ h0 # g
    BY <1>a, <2>1 DEF IInv, ParkedOnlyWhenFull
  <2>3. /\ Switch({g}, M, T, HeadTasks)
        /\ pendingTasks' = [h \in Groups |-> IF h \in T THEN Tail(pendingTasks[h])
                                             ELSE pendingTasks[h]]
        /\ waitingGroups' = Tail(waitingGroups)
    <3> DEFINE S1 == {waitingGroups[i] : i \in {1}}
               T1 == {h \in S1 : pendingTasks[h] # <<>>}
    <3>1. Popped(activeCount - 1) = 1 /\ Startable(1) = {1}
      BY <1>5, PoppedOne
    <3>2. S1 = {h0}
      OBVIOUS
    <3>3. T1 = T /\ S1 \ T1 = M
      BY <3>2
    <3>4. SubSeq(waitingGroups, 1 + 1, Len(waitingGroups)) = Tail(waitingGroups)
      BY <2>1
    <3>5. /\ Switch({g}, S1 \ T1, T1, HeadTasks)
          /\ pendingTasks' = [h \in Groups |-> IF h \in T1 THEN Tail(pendingTasks[h])
                                               ELSE pendingTasks[h]]
          /\ waitingGroups' = SubSeq(waitingGroups, 1 + 1, Len(waitingGroups))
      BY <1>5, <3>1 DEF DrainWaiting
    <3> QED
      BY <3>3, <3>4, <3>5
  <2>4. M \cup T = {h0} /\ {h0} \cap (Active \ {g}) = {} /\ {h0} \subseteq Groups
        /\ Cardinality({h0}) = 1
    BY <2>2, FS_Singleton DEF Active
  <2>5. SwitchTypes' /\ OneRunPerGroup' /\ activeCount' = activeCount
        /\ activeCount' = Cardinality(Active')
    BY <2>3, <2>4, <1>a, <1>b, <1>c, <1>d, ActiveAfterSwitch, SwitchTyped
  <2>6. pendingTasks' \in [Groups -> Seq(TaskIds)]
    BY <2>3 DEF IInv, TypeOK
  <2>7. waitingGroups' \in Seq(Groups) /\ Len(waitingGroups') = Len(waitingGroups) - 1
        /\ \A i \in 1..Len(waitingGroups') : waitingGroups'[i] = waitingGroups[i+1]
    BY <2>1, <2>3
  <2>8. TypeOK'
    BY <1>f, <2>5, <2>6, <2>7 DEF TypeOK, SwitchTypes, IInv, TimersKept, RetryTyped
  <2>9. SlotsRespected'
    BY <1>c, <2>5 DEF SlotsRespected, Active
  <2>10. \A h \in Groups : (active'[h] <=> h = h0 \/ (active[h] /\ h # g))
                           /\ (h # h0 => (pendingMessages'[h] <=> pendingMessages[h]))
                           /\ (h # h0 => pendingTasks'[h] = pendingTasks[h])
    <3>1. \A h \in Groups : h \in M \cup T <=> h = h0
      BY <2>4
    <3>2. \A h \in Groups : h \in M => h = h0
      OBVIOUS
    <3>3. \A h \in Groups : h \in T => h = h0
      OBVIOUS
    <3> HIDE DEF M, T, h0
    <3> QED
      BY <2>3, <3>1, <3>2, <3>3, SwitchFacts
  <2>11. ASSUME NEW i \in 1..Len(waitingGroups')
         PROVE  /\ i + 1 \in 1..Len(waitingGroups)
                /\ waitingGroups'[i] = waitingGroups[i+1]
                /\ waitingGroups'[i] \in Groups
                /\ waitingGroups'[i] # h0
    BY <2>1, <2>7 DEF IInv, ParkedOnlyWhenFull
  <2>12. ParkedOnlyWhenFull'
    <3>1. ASSUME NEW i \in 1..Len(waitingGroups'), NEW j \in 1..Len(waitingGroups'),
                 waitingGroups'[i] = waitingGroups'[j]
          PROVE  i = j
      BY <2>11, <3>1 DEF IInv, ParkedOnlyWhenFull
    <3>2. ASSUME NEW i \in 1..Len(waitingGroups')
          PROVE  ~active'[waitingGroups'[i]] /\ HasWork(waitingGroups[i])'
      <4>1. ~active[waitingGroups[i+1]] /\ HasWork(waitingGroups[i+1])
        BY <2>11 DEF IInv, ParkedOnlyWhenFull
      <4> HIDE DEF h0
      <4> QED
        BY <2>10, <2>11, <4>1 DEF HasWork
    <3>3. activeCount' = MaxConcurrent
      BY <1>5, <2>5 DEF IInv, ParkedOnlyWhenFull
    <3> QED
      BY <3>1, <3>2, <3>3 DEF ParkedOnlyWhenFull
  <2>13. NoLostWakeup'
    <3>1. ASSUME NEW h \in Groups, ~active'[h]
          PROVE  /\ h # h0
                 /\ h # g => ~active[h]
                 /\ pendingTasks'[h] = pendingTasks[h]
                 /\ pendingMessages'[h] <=> pendingMessages[h]
      BY <2>10, <3>1
    <3>2. ASSUME NEW h \in Groups, h # h0, Waiting(h)
          PROVE  Waiting(h)'
      <4>1. PICK i \in 1..Len(waitingGroups) : waitingGroups[i] = h
        BY <3>2 DEF Waiting
      <4>2. i # 1 /\ i - 1 \in 1..Len(waitingGroups')
            /\ waitingGroups'[i - 1] = waitingGroups[i]
        BY <2>1, <2>7, <3>2, <4>1
      <4> QED
        BY <4>1, <4>2 DEF Waiting
    <3>3. ASSUME NEW h \in Groups, ~active'[h]
          PROVE  /\ pendingTasks'[h] # <<>> => Waiting(h)'
                 /\ pendingMessages'[h] => Waiting(h)' \/ deferred'[h] + timers'[h] > 0
      <4> HIDE DEF h0
      <4>1. CASE h = g
        BY <1>5, <3>1, <3>3, <4>1 DEF HasWork
      <4>2. CASE h # g
        BY <1>5, <3>1, <3>2, <3>3, <4>2 DEF IInv, NoLostWakeup, TimersKept
      <4> QED
        BY <4>1, <4>2
    <3> QED
      BY <3>3 DEF NoLostWakeup
  <2> QED
    BY <2>5, <2>8, <2>9, <2>12, <2>13 DEF IInv
<1> QED
  BY <1>1, <1>2, <1>3, <1>4, <1>5 DEF EndRun

-----------------------------------------------------------------------------
(* Starting and parking *)

\* While a slot is free and the process runs, nobody is parked.
LEMMA FreeMeansUnparked ==
  ASSUME IInv, ~shuttingDown, ~Full
  PROVE  waitingGroups = <<>>
BY SlotsOf DEF IInv, ParkedOnlyWhenFull, Full, SlotsRespected, TypeOK

\* An enqueue that finds a free slot starts a run.
LEMMA StartPreserves ==
  ASSUME IInv, ~shuttingDown, ~Full, NEW g \in Groups, ~active[g],
         NEW M, NEW T, M \cup T = {g},
         NEW task \in [Groups -> TaskIds \cup {NoTask}],
         Switch({}, M, T, task),
         UNCHANGED <<pendingTasks, waitingGroups, shuttingDown, deferred>>,
         timers' \in [Groups -> Nat],
         \A h \in Groups \ {g} : timers'[h] = timers[h],
         RetryTyped'
  PROVE  IInv'
<1>1. SwitchTypes' /\ OneRunPerGroup' /\ activeCount' = Cardinality(Active')
      /\ activeCount' = activeCount + 1
  <2>1. {} \in SUBSET Active /\ {g} \cap (Active \ {}) = {} /\ {g} \subseteq Groups
    BY DEF Active
  <2>2. Cardinality({}) = 0 /\ Cardinality({g}) = 1
    BY FS_Singleton, FS_EmptySet
  <2>3. activeCount \in Nat
    BY DEF IInv, TypeOK
  <2> QED
    BY <2>1, <2>2, <2>3, SlotsOf, ActiveAfterSwitch, SwitchTyped
<1>2. waitingGroups = <<>>
  BY FreeMeansUnparked
<1>3. TypeOK'
  BY <1>1 DEF TypeOK, SwitchTypes, IInv, RetryTyped
<1>4. SlotsRespected'
  BY <1>1, SlotsOf, SMTT(30) DEF SlotsRespected, Active, Full, IInv, TypeOK
<1>5. \A h \in Groups : (active'[h] <=> active[h] \/ h = g)
                        /\ (pendingMessages'[h] => pendingMessages[h])
  BY SwitchFacts
<1>6. NoLostWakeup'
  BY <1>2, <1>5 DEF NoLostWakeup, IInv, Waiting
<1>7. ParkedOnlyWhenFull'
  BY <1>2 DEF ParkedOnlyWhenFull
<1> QED
  BY <1>1, <1>3, <1>4, <1>6, <1>7 DEF IInv

\* A group that finds the slots full is parked with the work it brought.
LEMMA ParkKeeps ==
  ASSUME IInv, ~shuttingDown, Full, NEW g \in Groups, ~active[g], Park(g)
  PROVE  /\ waitingGroups' \in Seq(Groups)
         /\ Waiting(g)'
         /\ \A h \in Groups : Waiting(h) => Waiting(h)'
         /\ \A i, j \in 1..Len(waitingGroups') :
              waitingGroups'[i] = waitingGroups'[j] => i = j
         /\ \A i \in 1..Len(waitingGroups') :
              waitingGroups'[i] # g => \E j \in 1..Len(waitingGroups) :
                                         waitingGroups'[i] = waitingGroups[j]
         /\ activeCount = MaxConcurrent
<1>1. waitingGroups \in Seq(Groups)
  BY DEF IInv, TypeOK
<1>2. activeCount = MaxConcurrent
  BY SlotsOf DEF IInv, SlotsRespected, Full, TypeOK
<1>3. \A i, j \in 1..Len(waitingGroups) : waitingGroups[i] = waitingGroups[j] => i = j
  BY DEF IInv, ParkedOnlyWhenFull
<1>4. CASE Waiting(g)
  BY <1>1, <1>2, <1>3, <1>4 DEF Park, Waiting
<1>5. CASE ~Waiting(g)
  <2>1. /\ waitingGroups' \in Seq(Groups)
        /\ Len(waitingGroups') = Len(waitingGroups) + 1
        /\ \A i \in 1..Len(waitingGroups) : waitingGroups'[i] = waitingGroups[i]
        /\ waitingGroups'[Len(waitingGroups) + 1] = g
    BY <1>1, <1>5 DEF Park
  <2>2. Len(waitingGroups) \in Nat
    BY <1>1
  <2>3. \A i \in 1..Len(waitingGroups) : waitingGroups[i] # g
    BY <1>5 DEF Waiting
  <2>4. \A i \in 1..Len(waitingGroups') :
          i \in 1..Len(waitingGroups) \/ i = Len(waitingGroups) + 1
    BY <2>1, <2>2
  <2>5. Waiting(g)' /\ \A h \in Groups : Waiting(h) => Waiting(h)'
    BY <2>1, <2>2 DEF Waiting
  <2> QED
    BY <1>2, <1>3, <2>1, <2>2, <2>3, <2>4, <2>5
<1> QED
  BY <1>4, <1>5

-----------------------------------------------------------------------------
(* The actions *)

\* More work for a group leaves the parked groups as they are.
LEMMA ParkedStay ==
  ASSUME TypeOK, ParkedOnlyWhenFull,
         UNCHANGED <<active, activeCount, waitingGroups, shuttingDown>>,
         \A h \in Groups : HasWork(h) => HasWork(h)'
  PROVE  ParkedOnlyWhenFull'
<1>1. ASSUME NEW i \in 1..Len(waitingGroups)
      PROVE  ~active[waitingGroups[i]] /\ HasWork(waitingGroups[i])'
  <2>1. waitingGroups[i] \in Groups
    BY DEF TypeOK
  <2>2. ~active[waitingGroups[i]] /\ HasWork(waitingGroups[i])
    BY DEF ParkedOnlyWhenFull
  <2>3. HasWork(waitingGroups[i])'
    <3>1. ASSUME NEW h \in Groups, h = waitingGroups[i]
          PROVE  HasWork(waitingGroups[i])'
      BY <2>2, <3>1 DEF HasWork
    <3> QED
      BY <2>1, <3>1
  <2> QED
    BY <2>2, <2>3
<1> QED
  BY <1>1 DEF ParkedOnlyWhenFull

LEMMA MessageCheckPreserves ==
  ASSUME IInv, ~shuttingDown, NEW g \in Groups, MessageCheck(g),
         timers' \in [Groups -> Nat],
         \A h \in Groups \ {g} : timers'[h] = timers[h],
         UNCHANGED <<pendingTasks, retryVars, shuttingDown>>
  PROVE  IInv'
<1>t. TypeOK
  BY DEF IInv
<1>r. RetryTyped'
  BY <1>t DEF TypeOK, RetryTyped, retryVars
<1>1. CASE /\ cooling[g]
           /\ pendingMessages' = [pendingMessages EXCEPT ![g] = TRUE]
           /\ deferred' = [deferred EXCEPT ![g] = @ + 1]
           /\ UNCHANGED <<slotVars, idleWaiting, registered, closeSent, waitingGroups>>
  <2>1. TypeOK'
    BY <1>1, <1>t DEF TypeOK, slotVars, retryVars
  <2>2. NoLostWakeup'
    BY <1>1, <1>t, SMTT(30) DEF IInv, NoLostWakeup, Waiting, TypeOK, slotVars
  <2>3. SlotsRespected' /\ OneRunPerGroup'
    BY <1>1 DEF IInv, SlotsRespected, OneRunPerGroup, slotVars
  <2>4. ParkedOnlyWhenFull'
    <3>1. \A h \in Groups : HasWork(h) => HasWork(h)'
      BY <1>1, <1>t DEF HasWork, TypeOK
    <3> QED
      BY <1>1, <1>t, <3>1, ParkedStay DEF IInv, slotVars
  <2> QED
    BY <2>1, <2>2, <2>3, <2>4 DEF IInv
<1>2. CASE /\ ~cooling[g] /\ active[g]
           /\ pendingMessages' = [pendingMessages EXCEPT ![g] = TRUE]
           /\ UNCHANGED <<slotVars, idleWaiting, registered, closeSent,
                          waitingGroups, deferred>>
  <2>1. TypeOK'
    BY <1>2, <1>t DEF TypeOK, slotVars, retryVars
  <2>2. NoLostWakeup'
    BY <1>2, <1>t DEF IInv, NoLostWakeup, Waiting, TypeOK, slotVars
  <2>3. SlotsRespected' /\ OneRunPerGroup'
    BY <1>2 DEF IInv, SlotsRespected, OneRunPerGroup, slotVars
  <2>4. ParkedOnlyWhenFull'
    <3>1. \A h \in Groups : HasWork(h) => HasWork(h)'
      BY <1>2, <1>t DEF HasWork, TypeOK
    <3> QED
      BY <1>2, <1>t, <3>1, ParkedStay DEF IInv, slotVars
  <2> QED
    BY <2>1, <2>2, <2>3, <2>4 DEF IInv
<1>3. CASE /\ ~cooling[g] /\ ~active[g] /\ Full
           /\ pendingMessages' = [pendingMessages EXCEPT ![g] = TRUE]
           /\ Park(g)
           /\ UNCHANGED <<slotVars, idleWaiting, registered, closeSent, deferred>>
  <2>1. TypeOK'
    BY <1>3, <1>t, ParkKeeps DEF TypeOK, slotVars, retryVars
  <2>2. \A h \in Groups : h # g => pendingMessages'[h] = pendingMessages[h]
    BY <1>3, <1>t DEF TypeOK
  <2>3. pendingMessages'[g]
    BY <1>3, <1>t DEF TypeOK
  <2>4. NoLostWakeup'
    BY <1>3, <2>2, ParkKeeps DEF IInv, NoLostWakeup, slotVars
  <2>5. SlotsRespected' /\ OneRunPerGroup'
    BY <1>3 DEF IInv, SlotsRespected, OneRunPerGroup, slotVars
  <2>6. ParkedOnlyWhenFull'
    <3>1. ASSUME NEW i \in 1..Len(waitingGroups')
          PROVE  ~active[waitingGroups'[i]]
                 /\ (pendingTasks[waitingGroups'[i]] # <<>>
                       \/ pendingMessages'[waitingGroups'[i]])
      <4>1. CASE waitingGroups'[i] = g
        BY <1>3, <2>3, <4>1
      <4>2. CASE waitingGroups'[i] # g
        <5>1. PICK j \in 1..Len(waitingGroups) : waitingGroups'[i] = waitingGroups[j]
          BY <1>3, <4>2, ParkKeeps
        <5>2. waitingGroups[j] \in Groups
          BY <1>t DEF TypeOK
        <5> QED
          BY <2>2, <4>2, <5>1, <5>2 DEF IInv, ParkedOnlyWhenFull, HasWork
      <4> QED
        BY <4>1, <4>2
    <3>2. active' = active /\ activeCount' = activeCount /\ pendingTasks' = pendingTasks
      BY <1>3 DEF slotVars
    <3>3. activeCount = MaxConcurrent
          /\ \A i, j \in 1..Len(waitingGroups') :
               waitingGroups'[i] = waitingGroups'[j] => i = j
      BY <1>3, ParkKeeps
    <3> QED
      BY <3>1, <3>2, <3>3 DEF ParkedOnlyWhenFull, HasWork
  <2> QED
    BY <2>1, <2>4, <2>5, <2>6 DEF IInv
<1>4. CASE /\ ~cooling[g] /\ ~active[g] /\ ~Full
           /\ Switch({}, {g}, {}, NoTasks)
           /\ UNCHANGED <<waitingGroups, deferred>>
  <2>1. {g} \cup {} = {g}
    OBVIOUS
  <2> QED
    BY <1>4, <1>r, <2>1, NoTasksTyped, StartPreserves
<1> QED
  BY <1>1, <1>2, <1>3, <1>4 DEF MessageCheck

LEMMA EnqueueTaskPreserves ==
  ASSUME IInv, NEW g \in Groups, NEW t \in TaskIds, EnqueueTask(g, t)
  PROVE  IInv'
<1>t. TypeOK
  BY DEF IInv
<1>r. /\ ~shuttingDown
      /\ UNCHANGED <<retryCount, cooling, deferred, timers, shuttingDown>>
  BY DEF EnqueueTask, retryVars, timerVars
<1>a. /\ Append(pendingTasks[g], t) \in Seq(TaskIds)
      /\ Append(pendingTasks[g], t) # <<>>
  <2>1. pendingTasks[g] \in Seq(TaskIds)
    BY <1>t DEF TypeOK
  <2> QED
    BY <2>1
<1>1. CASE /\ active[g]
           /\ pendingTasks' = [pendingTasks EXCEPT ![g] = Append(@, t)]
           /\ IF idleWaiting[g] THEN Close(g) ELSE UNCHANGED closeSent
           /\ UNCHANGED <<slotVars, idleWaiting, pendingMessages, registered,
                          waitingGroups>>
  <2>1. closeSent' \in [Groups -> BOOLEAN]
    <3>1. CASE idleWaiting[g]
      BY <1>1, <1>t, <3>1 DEF TypeOK, Close
    <3>2. CASE ~idleWaiting[g]
      BY <1>1, <1>t, <3>2 DEF TypeOK
    <3> QED
      BY <3>1, <3>2
  <2>2. pendingTasks' \in [Groups -> Seq(TaskIds)]
        /\ \A h \in Groups : h # g => pendingTasks'[h] = pendingTasks[h]
        /\ pendingTasks'[g] # <<>>
    <3>1. pendingTasks \in [Groups -> Seq(TaskIds)]
      BY <1>t DEF TypeOK
    <3> QED
      BY <1>1, <1>a, <3>1
  <2>3. TypeOK'
    BY <1>1, <1>r, <1>t, <2>1, <2>2 DEF TypeOK, slotVars
  <2>4. NoLostWakeup'
    BY <1>1, <1>r, <2>2 DEF IInv, NoLostWakeup, Waiting, slotVars
  <2>5. SlotsRespected' /\ OneRunPerGroup'
    BY <1>1 DEF IInv, SlotsRespected, OneRunPerGroup, slotVars
  <2>6. ParkedOnlyWhenFull'
    <3>1. \A h \in Groups : HasWork(h) => HasWork(h)'
      BY <1>1, <1>a, <2>2 DEF HasWork
    <3> QED
      BY <1>1, <1>r, <1>t, <3>1, ParkedStay DEF IInv, slotVars
  <2> QED
    BY <2>3, <2>4, <2>5, <2>6 DEF IInv
<1>2. CASE /\ ~active[g] /\ Full
           /\ pendingTasks' = [pendingTasks EXCEPT ![g] = Append(@, t)]
           /\ Park(g)
           /\ UNCHANGED <<slotVars, idleWaiting, pendingMessages, registered,
                          closeSent>>
  <2>1. /\ pendingTasks' \in [Groups -> Seq(TaskIds)]
        /\ \A h \in Groups : h # g => pendingTasks'[h] = pendingTasks[h]
        /\ pendingTasks'[g] # <<>>
    <3>1. pendingTasks \in [Groups -> Seq(TaskIds)]
      BY <1>t DEF TypeOK
    <3> QED
      BY <1>2, <1>a, <3>1
  <2>2. TypeOK'
    BY <1>2, <1>r, <1>t, <2>1, ParkKeeps DEF TypeOK, slotVars
  <2>3. NoLostWakeup'
    BY <1>2, <1>r, <2>1, ParkKeeps DEF IInv, NoLostWakeup, slotVars
  <2>4. SlotsRespected' /\ OneRunPerGroup'
    BY <1>2 DEF IInv, SlotsRespected, OneRunPerGroup, slotVars
  <2>5. ParkedOnlyWhenFull'
    <3>1. ASSUME NEW i \in 1..Len(waitingGroups')
          PROVE  ~active[waitingGroups'[i]]
                 /\ (pendingTasks'[waitingGroups'[i]] # <<>>
                       \/ pendingMessages[waitingGroups'[i]])
      <4>1. CASE waitingGroups'[i] = g
        BY <1>2, <2>1, <4>1
      <4>2. CASE waitingGroups'[i] # g
        <5>1. PICK j \in 1..Len(waitingGroups) : waitingGroups'[i] = waitingGroups[j]
          BY <1>2, <1>r, <4>2, ParkKeeps
        <5>2. waitingGroups[j] \in Groups
          BY <1>t DEF TypeOK
        <5> QED
          BY <2>1, <4>2, <5>1, <5>2 DEF IInv, ParkedOnlyWhenFull, HasWork
      <4> QED
        BY <4>1, <4>2
    <3>2. active' = active /\ activeCount' = activeCount
          /\ pendingMessages' = pendingMessages
      BY <1>2 DEF slotVars
    <3>3. activeCount = MaxConcurrent
          /\ \A i, j \in 1..Len(waitingGroups') :
               waitingGroups'[i] = waitingGroups'[j] => i = j
      BY <1>2, <1>r, ParkKeeps
    <3> QED
      BY <3>1, <3>2, <3>3 DEF ParkedOnlyWhenFull, HasWork
  <2> QED
    BY <2>2, <2>3, <2>4, <2>5 DEF IInv
<1>3. CASE /\ ~active[g] /\ ~Full
           /\ Switch({}, {}, {g}, [NoTasks EXCEPT ![g] = t])
           /\ UNCHANGED <<pendingTasks, waitingGroups>>
  <2>1. {} \cup {g} = {g}
    OBVIOUS
  <2>2. [NoTasks EXCEPT ![g] = t] \in [Groups -> TaskIds \cup {NoTask}]
    BY NoTasksTyped
  <2>3. RetryTyped' /\ timers' \in [Groups -> Nat]
    BY <1>r, <1>t DEF TypeOK, RetryTyped
  <2> QED
    BY <1>3, <1>r, <2>1, <2>2, <2>3, StartPreserves
<1> QED
  BY <1>1, <1>2, <1>3 DEF EnqueueTask

LEMMA RetryKeeps ==
  ASSUME TypeOK, NEW g \in Groups, ScheduleRetry(g)
  PROVE  TimersKept /\ RetryTyped'
<1>1. MaxRetries \in Nat
  BY GroupQueueAssumption
<1>2. CASE retryCount[g] + 1 > MaxRetries
  <2>1. /\ retryCount' = [retryCount EXCEPT ![g] = 0]
        /\ cooling' = [cooling EXCEPT ![g] = TRUE]
        /\ timers' = [timers EXCEPT ![g] = @ + deferred[g]]
        /\ deferred' = [deferred EXCEPT ![g] = 0]
    BY <1>2 DEF ScheduleRetry
  <2>2. RetryTyped'
    BY <1>1, <2>1 DEF TypeOK, RetryTyped
  <2>3. deferred' \in [Groups -> Nat] /\ timers' \in [Groups -> Nat]
    BY <2>1 DEF TypeOK
  <2>4. ASSUME NEW h \in Groups, deferred[h] + timers[h] > 0
        PROVE  deferred'[h] + timers'[h] > 0
    <3>1. CASE h = g
      BY <2>1, <2>4, <3>1 DEF TypeOK
    <3>2. CASE h # g
      BY <2>1, <2>4, <3>2 DEF TypeOK
    <3> QED
      BY <3>1, <3>2
  <2> QED
    BY <2>2, <2>3, <2>4 DEF TimersKept
<1>3. CASE ~(retryCount[g] + 1 > MaxRetries)
  <2>1. /\ retryCount' = [retryCount EXCEPT ![g] = @ + 1]
        /\ timers' = [timers EXCEPT ![g] = @ + 1]
        /\ cooling' = cooling /\ deferred' = deferred
    BY <1>3 DEF ScheduleRetry
  <2>2. retryCount[g] + 1 \in 0..MaxRetries
    BY <1>1, <1>3 DEF TypeOK
  <2>3. RetryTyped'
    BY <2>1, <2>2 DEF TypeOK, RetryTyped
  <2>4. deferred' \in [Groups -> Nat] /\ timers' \in [Groups -> Nat]
    BY <2>1 DEF TypeOK
  <2>5. ASSUME NEW h \in Groups, deferred[h] + timers[h] > 0
        PROVE  deferred'[h] + timers'[h] > 0
    <3>1. CASE h = g
      BY <2>1, <2>5, <3>1 DEF TypeOK
    <3>2. CASE h # g
      BY <2>1, <2>5, <3>2 DEF TypeOK
    <3> QED
      BY <3>1, <3>2
  <2> QED
    BY <2>3, <2>4, <2>5 DEF TimersKept
<1> QED
  BY <1>2, <1>3

-----------------------------------------------------------------------------
(* The theorems *)

LEMMA InitInv == Init => IInv
<1> SUFFICES ASSUME Init PROVE IInv
  OBVIOUS
<1>1. TypeOK
  <2>1. /\ 0 \in 0..MaxRetries
        /\ NoTask \in TaskIds \cup {NoTask}
        /\ <<>> \in Seq(TaskIds) /\ <<>> \in Seq(Groups)
    BY GroupQueueAssumption
  <2>2. /\ active \in [Groups -> BOOLEAN] /\ idleWaiting \in [Groups -> BOOLEAN]
        /\ isTaskContainer \in [Groups -> BOOLEAN]
        /\ pendingMessages \in [Groups -> BOOLEAN]
        /\ registered \in [Groups -> BOOLEAN] /\ cooling \in [Groups -> BOOLEAN]
        /\ closeSent \in [Groups -> BOOLEAN] /\ shuttingDown \in BOOLEAN
    BY DEF Init
  <2>3. /\ runningTaskId \in [Groups -> TaskIds \cup {NoTask}]
        /\ pendingTasks \in [Groups -> Seq(TaskIds)]
        /\ retryCount \in [Groups -> 0..MaxRetries]
        /\ waitingGroups \in Seq(Groups)
    BY <2>1 DEF Init
  <2>4. /\ deferred \in [Groups -> Nat] /\ timers \in [Groups -> Nat]
        /\ inflight \in [Groups -> Nat] /\ activeCount \in Nat
    BY DEF Init
  <2> QED
    BY <2>2, <2>3, <2>4 DEF TypeOK
<1>2. SlotsRespected
  <2>1. {g \in Groups : active[g]} = {}
    BY DEF Init
  <2> QED
    <3>1. activeCount = 0 /\ 0 <= MaxConcurrent
      BY GroupQueueAssumption DEF Init
    <3>2. Cardinality({g \in Groups : active[g]}) = 0
      BY <2>1, FS_EmptySet
    <3> QED
      BY <3>1, <3>2 DEF SlotsRespected
<1>3. OneRunPerGroup /\ NoLostWakeup /\ ParkedOnlyWhenFull
  BY DEF Init, OneRunPerGroup, NoLostWakeup, ParkedOnlyWhenFull
<1> QED
  BY <1>1, <1>2, <1>3 DEF IInv

LEMMA NextInv == IInv /\ [Next]_vars => IInv'
<1> SUFFICES ASSUME IInv, [Next]_vars PROVE IInv'
  OBVIOUS
<1>t. TypeOK
  BY DEF IInv
\* The steps that leave the queue's own bookkeeping alone.
<1>q. ASSUME UNCHANGED <<slotVars, pendingMessages, pendingTasks, retryVars,
                         timerVars, waitingGroups, shuttingDown>>,
             idleWaiting' \in [Groups -> BOOLEAN],
             registered' \in [Groups -> BOOLEAN],
             closeSent' \in [Groups -> BOOLEAN]
      PROVE  IInv'
  <2>1. TypeOK'
    BY <1>t, <1>q DEF TypeOK, slotVars, retryVars, timerVars
  <2>2. SlotsRespected' /\ OneRunPerGroup'
    BY <1>q DEF IInv, SlotsRespected, OneRunPerGroup, slotVars
  <2>3. NoLostWakeup'
    BY <1>q DEF IInv, NoLostWakeup, Waiting, slotVars, timerVars
  <2>4. ParkedOnlyWhenFull'
    BY <1>q DEF IInv, ParkedOnlyWhenFull, HasWork, slotVars
  <2> QED
    BY <2>1, <2>2, <2>3, <2>4 DEF IInv
<1>1. ASSUME NEW g \in Groups, EnqueueMessageCheck(g)
      PROVE  IInv'
  <2>1. /\ ~shuttingDown /\ MessageCheck(g) /\ timers' = timers
        /\ UNCHANGED <<pendingTasks, retryVars, shuttingDown>>
    BY <1>1 DEF EnqueueMessageCheck
  <2>2. timers' \in [Groups -> Nat]
    BY <1>t, <2>1 DEF TypeOK
  <2> QED
    BY <2>1, <2>2, MessageCheckPreserves
<1>2. ASSUME NEW g \in Groups, NEW t \in TaskIds, EnqueueTask(g, t)
      PROVE  IInv'
  BY <1>2, EnqueueTaskPreserves
<1>3. ASSUME NEW g \in Groups, MessagesSucceed(g)
      PROVE  IInv'
  <2>1. TimersKept
    BY <1>t, <1>3 DEF MessagesSucceed, TimersKept, TypeOK, timerVars
  <2>2. RetryTyped'
    <3>1. 0 \in 0..MaxRetries
      BY GroupQueueAssumption
    <3>2. retryCount' = [retryCount EXCEPT ![g] = 0] /\ cooling' = cooling
      BY <1>3 DEF MessagesSucceed
    <3> QED
      BY <1>t, <3>1, <3>2 DEF RetryTyped, TypeOK
  <2> QED
    BY <1>3, <2>1, <2>2, EndRunPreserves DEF MessagesSucceed
<1>4. ASSUME NEW g \in Groups, MessagesFail(g)
      PROVE  IInv'
  BY <1>t, <1>4, RetryKeeps, EndRunPreserves DEF MessagesFail
<1>5. ASSUME NEW g \in Groups, TaskEnds(g)
      PROVE  IInv'
  <2>1. TimersKept /\ RetryTyped'
    BY <1>t, <1>5 DEF TaskEnds, TimersKept, RetryTyped, TypeOK, timerVars, retryVars
  <2> QED
    BY <1>5, <2>1, EndRunPreserves DEF TaskEnds
<1>6. ASSUME NEW g \in Groups, TimerFires(g)
      PROVE  IInv'
  <2>1. timers' \in [Groups -> Nat] /\ \A h \in Groups \ {g} : timers'[h] = timers[h]
    BY <1>t, <1>6 DEF TimerFires, TypeOK
  <2>2. CASE ~shuttingDown
    BY <1>6, <2>1, <2>2, MessageCheckPreserves DEF TimerFires
  <2>3. CASE shuttingDown
    <3>1. UNCHANGED <<slotVars, idleWaiting, pendingMessages, pendingTasks, registered,
                      closeSent, waitingGroups, deferred, retryVars, shuttingDown>>
      BY <1>6, <2>3 DEF TimerFires
    <3>2. TypeOK'
      BY <1>t, <2>1, <3>1 DEF TypeOK, slotVars, retryVars
    <3>3. SlotsRespected' /\ OneRunPerGroup'
      BY <3>1 DEF IInv, SlotsRespected, OneRunPerGroup, slotVars
    <3>4. NoLostWakeup'
      BY <2>3, <3>1 DEF NoLostWakeup
    <3>5. ParkedOnlyWhenFull'
      BY <3>1 DEF IInv, ParkedOnlyWhenFull, HasWork, slotVars
    <3> QED
      BY <3>2, <3>3, <3>4, <3>5 DEF IInv
  <2> QED
    BY <2>2, <2>3
<1>7. ASSUME NEW g \in Groups, CooldownExpires(g)
      PROVE  IInv'
  <2>1. /\ timers' = [timers EXCEPT ![g] = @ + deferred[g]]
        /\ deferred' = [deferred EXCEPT ![g] = 0]
        /\ cooling' = [cooling EXCEPT ![g] = FALSE]
        /\ UNCHANGED <<slotVars, idleWaiting, pendingMessages, pendingTasks, registered,
                       retryCount, waitingGroups, shuttingDown, closeSent>>
    BY <1>7 DEF CooldownExpires
  <2>2. TypeOK'
    BY <1>t, <2>1 DEF TypeOK, slotVars
  <2>3. SlotsRespected' /\ OneRunPerGroup'
    BY <2>1 DEF IInv, SlotsRespected, OneRunPerGroup, slotVars
  <2>4. \A h \in Groups : deferred[h] + timers[h] > 0 => deferred'[h] + timers'[h] > 0
    <3>1. ASSUME NEW h \in Groups, h # g
          PROVE  deferred'[h] = deferred[h] /\ timers'[h] = timers[h]
      BY <1>t, <2>1, <3>1 DEF TypeOK
    <3>2. deferred'[g] = 0 /\ timers'[g] = timers[g] + deferred[g]
      BY <1>t, <2>1 DEF TypeOK
    <3>3. \A h \in Groups : deferred[h] \in Nat /\ timers[h] \in Nat
      BY <1>t DEF TypeOK
    <3> QED
      BY <3>1, <3>2, <3>3
  <2>5. NoLostWakeup'
    BY <2>1, <2>4 DEF IInv, NoLostWakeup, Waiting, slotVars
  <2>6. ParkedOnlyWhenFull'
    BY <2>1 DEF IInv, ParkedOnlyWhenFull, HasWork, slotVars
  <2> QED
    BY <2>2, <2>3, <2>5, <2>6 DEF IInv
<1>8. ASSUME NEW g \in Groups, RegisterProcess(g)
      PROVE  IInv'
  BY <1>t, <1>8, <1>q DEF RegisterProcess, TypeOK
<1>9. ASSUME NEW g \in Groups, NotifyIdle(g)
      PROVE  IInv'
  <2>1. closeSent' \in [Groups -> BOOLEAN]
    <3>1. CASE pendingTasks[g] # <<>>
      BY <1>t, <1>9, <3>1 DEF NotifyIdle, Close, TypeOK
    <3>2. CASE pendingTasks[g] = <<>>
      BY <1>t, <1>9, <3>2 DEF NotifyIdle, TypeOK
    <3> QED
      BY <3>1, <3>2
  <2> QED
    BY <1>t, <1>9, <1>q, <2>1 DEF NotifyIdle, TypeOK
<1>10. ASSUME NEW g \in Groups, SendMessage(g)
       PROVE  IInv'
  BY <1>t, <1>10, <1>q DEF SendMessage, TypeOK
<1>11. ASSUME NEW g \in Groups, CloseStdin(g)
       PROVE  IInv'
  <2>1. closeSent' \in [Groups -> BOOLEAN]
    BY <1>t, <1>11 DEF CloseStdin, Close, TypeOK
  <2> QED
    BY <1>t, <1>11, <1>q, <2>1 DEF CloseStdin, TypeOK
<1>12. ASSUME Shutdown
       PROVE  IInv'
  <2>1. TypeOK'
    BY <1>t, <1>12 DEF TypeOK, Shutdown, slotVars, retryVars, timerVars
  <2>2. SlotsRespected' /\ OneRunPerGroup'
    BY <1>12 DEF IInv, SlotsRespected, OneRunPerGroup, Shutdown, slotVars
  <2>3. NoLostWakeup'
    BY <1>12 DEF NoLostWakeup, Shutdown
  <2>4. ParkedOnlyWhenFull'
    BY <1>12 DEF IInv, ParkedOnlyWhenFull, HasWork, Shutdown, slotVars
  <2> QED
    BY <2>1, <2>2, <2>3, <2>4 DEF IInv
<1>13. CASE UNCHANGED vars
  BY <1>t, <1>13, <1>q DEF vars, TypeOK
<1> QED
  BY <1>1, <1>2, <1>3, <1>4, <1>5, <1>6, <1>7, <1>8, <1>9, <1>10, <1>11, <1>12, <1>13
  DEF Next, Arrive, RunEnds

\* The inductive invariant holds in every reachable state of the queue.
THEOREM Invariant == Spec => []IInv
BY InitInv, NextInv, PTL DEF Spec

\* Every variable of the queue keeps its type, and a group's failure count never
\* passes MAX_RETRIES (scheduleRetry).
THEOREM TypeCorrect == Spec => []TypeOK
<1>1. IInv => TypeOK
  BY DEF IInv
<1> QED
  BY <1>1, Invariant, PTL

\* However many groups there are, the containers that run never outnumber the
\* slots, and activeCount counts them (runForGroup, runTask and their finally).
THEOREM SlotSafety == Spec => []SlotsRespected
<1>1. IInv => SlotsRespected
  BY DEF IInv
<1> QED
  BY <1>1, Invariant, PTL

\* No group ever runs two containers at a time.
THEOREM MutualExclusion == Spec => []OneRunPerGroup
<1>1. IInv => OneRunPerGroup
  BY DEF IInv
<1> QED
  BY <1>1, Invariant, PTL

\* Accepted work is never forgotten (enqueueTask, enqueueMessageCheck, drains).
THEOREM WorkRemembered == Spec => []NoLostWakeup
<1>1. IInv => NoLostWakeup
  BY DEF IInv
<1> QED
  BY <1>1, Invariant, PTL

\* Parked groups are parked once, with work, and only while the slots are full.
THEOREM ParkingExact == Spec => []ParkedOnlyWhenFull
<1>1. IInv => ParkedOnlyWhenFull
  BY DEF IInv
<1> QED
  BY <1>1, Invariant, PTL

\* The runs in progress are counted right, in all and per group (runForGroup, runTask
\* and their finally).
THEOREM RunsAreCounted == Spec => []RunsCounted
<1>1. IInv => RunsCounted
  BY DEF IInv, RunsCounted
<1> QED
  BY <1>1, Invariant, PTL

\* A group is parked exactly when it must be found again (drainWaiting).
THEOREM ParkingIsCorrect == Spec => []ParkingCorrect
<1>1. IInv => ParkingCorrect
  BY DEF IInv, ParkingCorrect
<1> QED
  BY <1>1, Invariant, PTL

-----------------------------------------------------------------------------
(* Tasks before messages *)

\* A switch starts message runs in the groups of M only.
LEMMA SwitchStarts ==
  ASSUME NEW F, NEW M, NEW T, NEW task, Switch(F, M, T, task),
         NEW g \in Groups, MessageRunStarts(g)
  PROVE  g \in M
<1>1. isTaskContainer'[g] <=> (g \in T \/ (isTaskContainer[g] /\ g \notin F \cup M))
  BY Zenon DEF Switch
<1> QED
  BY <1>1, SwitchFacts DEF MessageRunStarts

\* A step that keeps the slots and clears no owed check starts no message run.
LEMMA NoSwitchNoStart ==
  ASSUME UNCHANGED slotVars, NEW g \in Groups, pendingMessages[g] => pendingMessages'[g]
  PROVE  ~MessageRunStarts(g)
BY DEF MessageRunStarts, slotVars

LEMMA CheckStarts ==
  ASSUME IInv, ~shuttingDown, NEW h \in Groups, MessageCheck(h),
         NEW g \in Groups, MessageRunStarts(g)
  PROVE  pendingTasks[g] = <<>>
<1>1. ASSUME UNCHANGED slotVars, pendingMessages' = [pendingMessages EXCEPT ![h] = TRUE]
      PROVE  FALSE
  <2>1. pendingMessages[g] => pendingMessages'[g]
    BY <1>1 DEF IInv, TypeOK
  <2> QED
    BY <1>1, <2>1, NoSwitchNoStart
<1>2. ASSUME ~active[h], ~Full, Switch({}, {h}, {}, NoTasks)
      PROVE  pendingTasks[g] = <<>>
  <2>1. g = h
    BY <1>2, SwitchStarts
  <2>2. waitingGroups = <<>>
    BY <1>2, FreeMeansUnparked
  <2> QED
    BY <1>2, <2>1, <2>2 DEF IInv, NoLostWakeup, Waiting
<1> QED
  BY <1>1, <1>2 DEF MessageCheck

LEMMA EndRunStarts ==
  ASSUME NEW h \in Groups, EndRun(h), NEW g \in Groups, MessageRunStarts(g)
  PROVE  pendingTasks[g] = <<>>
<1>1. ASSUME Switch({h}, {}, {}, NoTasks)
      PROVE  FALSE
  BY <1>1, SwitchStarts
<1>2. ASSUME Switch({h}, {}, {h}, HeadTasks)
      PROVE  FALSE
  BY <1>2, SwitchStarts
<1>3. ASSUME ~TaskFirst(h), Switch({h}, {h}, {}, NoTasks)
      PROVE  pendingTasks[g] = <<>>
  BY <1>3, SwitchStarts DEF TaskFirst
<1>4. ASSUME DrainWaiting(h)
      PROVE  pendingTasks[g] = <<>>
  <2> DEFINE S == {waitingGroups[i] : i \in Startable(Popped(activeCount - 1))}
             T == {p \in S : pendingTasks[p] # <<>>}
  <2>1. Switch({h}, S \ T, T, HeadTasks)
    BY <1>4 DEF DrainWaiting
  <2> HIDE DEF S
  <2>2. g \in S \ T
    BY <2>1, SwitchStarts
  <2> QED
    BY <2>2
<1> QED
  BY <1>1, <1>2, <1>3, <1>4 DEF EndRun

\* A message run never starts in a group that has queued tasks, although no
\* check and no timer looks at the tasks (enqueueMessageCheck): a group with
\* tasks and no slot is parked, and then no slot is free.
THEOREM TasksBeforeMessages == Spec => TasksFirst
<1>1. ASSUME IInv, [Next]_vars, NEW g \in Groups, MessageRunStarts(g)
      PROVE  pendingTasks[g] = <<>>
  <2>q. ASSUME UNCHANGED <<slotVars, pendingMessages>>
        PROVE  FALSE
    BY <1>1, <2>q, NoSwitchNoStart DEF slotVars
  <2>1. ASSUME NEW h \in Groups, EnqueueMessageCheck(h) \/ TimerFires(h)
        PROVE  pendingTasks[g] = <<>>
    BY <1>1, <2>1, <2>q, CheckStarts DEF EnqueueMessageCheck, TimerFires
  <2>2. ASSUME NEW h \in Groups, NEW t \in TaskIds, EnqueueTask(h, t)
        PROVE  FALSE
    BY <1>1, <2>2, <2>q, SwitchStarts DEF EnqueueTask
  <2>3. ASSUME NEW h \in Groups, RunEnds(h)
        PROVE  pendingTasks[g] = <<>>
    BY <1>1, <2>3, EndRunStarts DEF RunEnds, MessagesSucceed, MessagesFail, TaskEnds
  <2>4. ASSUME NEW h \in Groups, CooldownExpires(h)
        PROVE  FALSE
    BY <2>4, <2>q DEF CooldownExpires
  <2>5. ASSUME NEW h \in Groups,
               RegisterProcess(h) \/ NotifyIdle(h) \/ SendMessage(h) \/ CloseStdin(h)
        PROVE  FALSE
    BY <2>5, <2>q DEF RegisterProcess, NotifyIdle, SendMessage, CloseStdin
  <2>6. ASSUME Shutdown
        PROVE  FALSE
    BY <2>6, <2>q DEF Shutdown
  <2>7. CASE UNCHANGED vars
    BY <2>7, <2>q DEF vars
  <2> QED
    BY <1>1, <2>1, <2>2, <2>3, <2>4, <2>5, <2>6, <2>7 DEF Next, Arrive
<1>2. IInv /\ [Next]_vars
        => [\A g \in Groups : MessageRunStarts(g) => pendingTasks[g] = <<>>]_vars
  BY <1>1
<1> QED
  BY <1>2, Invariant, PTL DEF Spec, TasksFirst

-----------------------------------------------------------------------------
(* Tasks and idle containers *)

\* A container is known to idle only when its process is known: a new run begins
\* with neither (runForGroup and runTask reset idleWaiting, their finally blocks
\* forget the process).
IdleInv ==
  /\ \A g \in Groups : active[g] /\ idleWaiting[g] => registered[g]
  /\ IdlePreempted

\* A switch with tasks taken from started groups only.
LEMMA SwitchIdle ==
  ASSUME IdleInv, NEW F, NEW M, NEW T, NEW task, Switch(F, M, T, task),
         \A g \in Groups : g \notin M \cup T => pendingTasks'[g] = pendingTasks[g]
  PROVE  IdleInv'
<1> SUFFICES ASSUME NEW g \in Groups, active'[g], idleWaiting'[g]
             PROVE  registered'[g] /\ (pendingTasks'[g] # <<>> => closeSent'[g])
  BY Zenon DEF IdleInv, IdlePreempted
<1>1. idleWaiting[g] /\ g \notin M \cup T
  BY Zenon DEF Switch
<1>2. active[g] /\ g \notin F
  BY <1>1, SwitchFacts
<1>3. registered[g] /\ (pendingTasks[g] # <<>> => closeSent[g])
  BY <1>1, <1>2 DEF IdleInv, IdlePreempted
<1>4. /\ registered'[g] <=> (registered[g] /\ g \notin F)
      /\ closeSent'[g] <=> (closeSent[g] /\ g \notin M \cup T)
  BY Zenon DEF Switch
<1> QED
  BY <1>1, <1>2, <1>3, <1>4

LEMMA EndRunIdle ==
  ASSUME IdleInv, TypeOK, NEW g \in Groups, EndRun(g)
  PROVE  IdleInv'
<1>1. CASE Switch({g}, {}, {}, NoTasks) /\ UNCHANGED pendingTasks
  BY <1>1, SwitchIdle
<1>2. CASE Switch({g}, {}, {g}, HeadTasks) /\ pendingTasks' = [pendingTasks EXCEPT ![g] = Tail(@)]
  <2>1. \A h \in Groups : h \notin {} \cup {g} => pendingTasks'[h] = pendingTasks[h]
    BY <1>2 DEF TypeOK
  <2> QED
    BY <1>2, <2>1, SwitchIdle
<1>3. CASE Switch({g}, {g}, {}, NoTasks) /\ UNCHANGED pendingTasks
  BY <1>3, SwitchIdle
<1>4. CASE DrainWaiting(g)
  <2> DEFINE S == {waitingGroups[i] : i \in Startable(Popped(activeCount - 1))}
             T == {h \in S : pendingTasks[h] # <<>>}
  <2>1. /\ Switch({g}, S \ T, T, HeadTasks)
        /\ pendingTasks' = [h \in Groups |-> IF h \in T THEN Tail(pendingTasks[h])
                                             ELSE pendingTasks[h]]
    BY <1>4 DEF DrainWaiting
  <2> HIDE DEF T
  <2>2. \A h \in Groups : h \notin (S \ T) \cup T => pendingTasks'[h] = pendingTasks[h]
    BY <2>1
  <2> HIDE DEF S
  <2> QED
    BY <2>1, <2>2, SwitchIdle
<1> QED
  BY <1>1, <1>2, <1>3, <1>4 DEF EndRun

\* The variables that the invariant reads stay, or only the tasks do not.
LEMMA NothingIdles ==
  ASSUME IdleInv,
         UNCHANGED <<active, idleWaiting, registered, closeSent, pendingTasks>>
  PROVE  IdleInv'
BY DEF IdleInv, IdlePreempted

LEMMA CheckIdle ==
  ASSUME IdleInv, NEW g \in Groups, MessageCheck(g), UNCHANGED pendingTasks
  PROVE  IdleInv'
<1>1. CASE UNCHANGED <<slotVars, idleWaiting, registered, closeSent>>
  BY <1>1, NothingIdles DEF slotVars
<1>2. CASE Switch({}, {g}, {}, NoTasks)
  BY <1>2, SwitchIdle
<1> QED
  BY <1>1, <1>2 DEF MessageCheck

LEMMA EnqueueIdle ==
  ASSUME IdleInv, TypeOK, NEW g \in Groups, NEW t \in TaskIds, EnqueueTask(g, t)
  PROVE  IdleInv'
<1>1. CASE /\ active[g]
           /\ pendingTasks' = [pendingTasks EXCEPT ![g] = Append(@, t)]
           /\ IF idleWaiting[g] THEN Close(g) ELSE UNCHANGED closeSent
           /\ UNCHANGED <<slotVars, idleWaiting, registered>>
  BY <1>1 DEF IdleInv, IdlePreempted, Close, TypeOK, slotVars
<1>2. CASE /\ ~active[g]
           /\ pendingTasks' = [pendingTasks EXCEPT ![g] = Append(@, t)]
           /\ UNCHANGED <<slotVars, idleWaiting, registered, closeSent>>
  BY <1>2 DEF IdleInv, IdlePreempted, TypeOK, slotVars
<1>3. CASE Switch({}, {}, {g}, [NoTasks EXCEPT ![g] = t]) /\ UNCHANGED pendingTasks
  BY <1>3, SwitchIdle
<1> QED
  BY <1>1, <1>2, <1>3 DEF EnqueueTask

LEMMA ProcessIdle ==
  ASSUME IdleInv, TypeOK, NEW g \in Groups,
         RegisterProcess(g) \/ NotifyIdle(g) \/ SendMessage(g) \/ CloseStdin(g)
  PROVE  IdleInv'
<1>1. CASE RegisterProcess(g)
  BY <1>1 DEF RegisterProcess, IdleInv, IdlePreempted, TypeOK, slotVars
<1>2. CASE NotifyIdle(g)
  BY <1>2 DEF NotifyIdle, Close, IdleInv, IdlePreempted, TypeOK, slotVars
<1>3. CASE SendMessage(g)
  BY <1>3 DEF SendMessage, IdleInv, IdlePreempted, TypeOK, slotVars
<1>4. CASE CloseStdin(g)
  BY <1>4 DEF CloseStdin, Close, IdleInv, IdlePreempted, TypeOK, slotVars
<1> QED
  BY <1>1, <1>2, <1>3, <1>4

LEMMA NextIdle == TypeOK /\ IdleInv /\ [Next]_vars => IdleInv'
<1> SUFFICES ASSUME TypeOK, IdleInv, [Next]_vars PROVE IdleInv'
  OBVIOUS
<1>1. ASSUME NEW g \in Groups, EnqueueMessageCheck(g)
      PROVE  IdleInv'
  BY <1>1, CheckIdle DEF EnqueueMessageCheck
<1>2. ASSUME NEW g \in Groups, TimerFires(g)
      PROVE  IdleInv'
  BY <1>2, CheckIdle, NothingIdles DEF TimerFires, slotVars
<1>3. ASSUME NEW g \in Groups, NEW t \in TaskIds, EnqueueTask(g, t)
      PROVE  IdleInv'
  BY <1>3, EnqueueIdle
<1>4. ASSUME NEW g \in Groups, RunEnds(g)
      PROVE  IdleInv'
  BY <1>4, EndRunIdle DEF RunEnds, MessagesSucceed, MessagesFail, TaskEnds
<1>5. ASSUME NEW g \in Groups, CooldownExpires(g)
      PROVE  IdleInv'
  BY <1>5, NothingIdles DEF CooldownExpires, slotVars
<1>6. ASSUME NEW g \in Groups,
             RegisterProcess(g) \/ NotifyIdle(g) \/ SendMessage(g) \/ CloseStdin(g)
      PROVE  IdleInv'
  BY <1>6, ProcessIdle
<1>7. CASE Shutdown
  BY <1>7, NothingIdles DEF Shutdown, slotVars
<1>8. CASE UNCHANGED vars
  BY <1>8, NothingIdles DEF vars, slotVars
<1> QED
  BY <1>1, <1>2, <1>3, <1>4, <1>5, <1>6, <1>7, <1>8 DEF Next, Arrive

\* "If tasks are pending, preempt the idle container immediately": a task is never
\* stuck behind a container that idles for input, whether enqueueTask found it idle
\* or notifyIdle found the task.
THEOREM IdleIsPreempted == Spec => []IdlePreempted
<1>1. Init => IdleInv
  BY DEF Init, IdleInv, IdlePreempted
<1>2. IdleInv => IdlePreempted
  BY DEF IdleInv
<1> QED
  BY <1>1, <1>2, NextIdle, TypeCorrect, PTL DEF Spec

-----------------------------------------------------------------------------
(* The queue implements TaskFifo: every step is a step of the abstract queue *)
(* of tasks, or leaves it alone.                                             *)

\* A group runs a task exactly while its slot is a task container's.
TaskInv ==
  \A g \in Groups : /\ isTaskContainer[g] => active[g]
                    /\ isTaskContainer[g] <=> runningTaskId[g] # NoTask

RInv == IInv /\ TaskInv

Line(g) == IF runningTaskId[g] = NoTask THEN pendingTasks[g]
           ELSE <<runningTaskId[g]>> \o pendingTasks[g]

LEMMA TaskLineIsLine == TaskLine = [g \in Groups |-> Line(g)]
BY DEF TaskLine, Line

-----------------------------------------------------------------------------
(* Sequences of tasks *)

LEMMA HeadThenTail ==
  ASSUME NEW S, NEW s \in Seq(S), s # <<>>
  PROVE  Head(s) \in S /\ <<Head(s)>> \o Tail(s) = s
<1>1. Len(s) \in Nat \ {0} /\ Head(s) \in S /\ Tail(s) \in Seq(S)
      /\ Len(Tail(s)) = Len(s) - 1
  OBVIOUS
<1>2. \A i \in 1..Len(Tail(s)) : Tail(s)[i] = s[i + 1]
  OBVIOUS
<1>3. <<Head(s)>> \in Seq(S) /\ Len(<<Head(s)>>) = 1 /\ <<Head(s)>>[1] = s[1]
  BY <1>1
<1>4. <<Head(s)>> \o Tail(s) \in Seq(S) /\ Len(<<Head(s)>> \o Tail(s)) = Len(s)
  BY <1>1, <1>3
<1>5. ASSUME NEW i \in 1..Len(s)
      PROVE  (<<Head(s)>> \o Tail(s))[i] = s[i]
  <2>1. CASE i = 1
    BY <1>1, <1>3, <2>1
  <2>2. CASE i # 1
    BY <1>1, <1>2, <1>3, <2>2
  <2> QED
    BY <2>1, <2>2
<1> QED
  BY <1>1, <1>4, <1>5

LEMMA TailAfterHead ==
  ASSUME NEW S, NEW s \in Seq(S), NEW e \in S
  PROVE  <<e>> \o s # <<>> /\ Tail(<<e>> \o s) = s
<1>1. <<e>> \in Seq(S) /\ Len(<<e>>) = 1
  OBVIOUS
<1>2. <<e>> \o s \in Seq(S) /\ Len(<<e>> \o s) = Len(s) + 1 /\ Len(s) \in Nat
  BY <1>1
<1>3. Tail(<<e>> \o s) \in Seq(S) /\ Len(Tail(<<e>> \o s)) = Len(s)
  BY <1>2
<1>4. ASSUME NEW i \in 1..Len(s)
      PROVE  Tail(<<e>> \o s)[i] = s[i]
  <2>1. Tail(<<e>> \o s)[i] = (<<e>> \o s)[i + 1]
    BY <1>2, <1>3
  <2>2. (<<e>> \o s)[i + 1] = s[i]
    BY <1>1, <1>2
  <2> QED
    BY <2>1, <2>2
<1> QED
  BY <1>2, <1>3, <1>4

LEMMA AppendAfterHead ==
  ASSUME NEW S, NEW s \in Seq(S), NEW e \in S, NEW t \in S
  PROVE  <<e>> \o Append(s, t) = Append(<<e>> \o s, t)
<1>1. <<e>> \in Seq(S) /\ Len(<<e>>) = 1 /\ Append(s, t) \in Seq(S)
      /\ Len(Append(s, t)) = Len(s) + 1 /\ Len(s) \in Nat
  OBVIOUS
<1>2. <<e>> \o s \in Seq(S) /\ Len(<<e>> \o s) = Len(s) + 1
  BY <1>1
<1>3. Append(<<e>> \o s, t) \in Seq(S) /\ Len(Append(<<e>> \o s, t)) = Len(s) + 2
  BY <1>2, <1>1
<1>4. <<e>> \o Append(s, t) \in Seq(S) /\ Len(<<e>> \o Append(s, t)) = Len(s) + 2
  BY <1>1
<1>5. ASSUME NEW i \in 1..(Len(s) + 2)
      PROVE  (<<e>> \o Append(s, t))[i] = Append(<<e>> \o s, t)[i]
  <2>1. CASE i = 1
    BY <1>1, <1>2, <2>1
  <2>2. CASE i \in 2..(Len(s) + 1)
    BY <1>1, <1>2, <2>2
  <2>3. CASE i = Len(s) + 2
    BY <1>1, <1>2, <2>3
  <2> QED
    BY <1>1, <2>1, <2>2, <2>3
<1> QED
  BY <1>3, <1>4, <1>5

\* A task that the queue does not know is not in the line.
LEMMA UnknownNotInLine ==
  ASSUME TypeOK, NEW g \in Groups, NEW t \in TaskIds, ~Known(g, t)
  PROVE  \A i \in 1..Len(Line(g)) : Line(g)[i] # t
<1>1. pendingTasks[g] \in Seq(TaskIds) /\ Len(pendingTasks[g]) \in Nat
  BY DEF TypeOK
<1>2. \A i \in 1..Len(pendingTasks[g]) : pendingTasks[g][i] # t
  BY DEF Known, Queued
<1>3. CASE runningTaskId[g] = NoTask
  BY <1>2, <1>3 DEF Line
<1>4. CASE runningTaskId[g] # NoTask
  <2>1. runningTaskId[g] \in TaskIds /\ runningTaskId[g] # t
    BY <1>4 DEF TypeOK, Known
  <2>2. Line(g) = <<runningTaskId[g]>> \o pendingTasks[g]
    BY <1>4 DEF Line
  <2>3. Len(Line(g)) = Len(pendingTasks[g]) + 1
    BY <1>1, <2>1, <2>2
  <2>4. ASSUME NEW i \in 1..Len(Line(g))
        PROVE  Line(g)[i] # t
    <3>1. CASE i = 1
      BY <1>1, <2>1, <2>2, <3>1
    <3>2. CASE i # 1
      <4>1. i - 1 \in 1..Len(pendingTasks[g])
        BY <1>1, <2>3, <3>2
      <4>2. Line(g)[i] = pendingTasks[g][i - 1]
        BY <1>1, <2>1, <2>2, <2>3, <3>2
      <4> QED
        BY <1>2, <4>1, <4>2
    <3> QED
      BY <3>1, <3>2
  <2> QED
    BY <2>4
<1> QED
  BY <1>3, <1>4

-----------------------------------------------------------------------------
(* Starting and ending runs *)

\* What a switch does to the running tasks.
LEMMA SwitchTasks ==
  ASSUME RInv, NEW F \in SUBSET Active, NEW M, NEW T, NEW task,
         M \cup T \subseteq Groups, M \cap T = {}, (M \cup T) \cap (Active \ F) = {},
         \A h \in T : task[h] \in TaskIds,
         Switch(F, M, T, task)
  PROVE  /\ TaskInv'
         /\ \A h \in Groups :
              runningTaskId'[h] = IF h \in T THEN task[h]
                                  ELSE IF h \in F THEN NoTask ELSE runningTaskId[h]
<1>1. ASSUME NEW h \in Groups
      PROVE  /\ active'[h] <=> (h \in M \cup T \/ (active[h] /\ h \notin F))
             /\ isTaskContainer'[h] <=> (h \in T \/ (isTaskContainer[h] /\ h \notin F \cup M))
             /\ runningTaskId'[h] = IF h \in T THEN task[h]
                                    ELSE IF h \in F THEN NoTask ELSE runningTaskId[h]
  BY Zenon DEF Switch
<1>2. ASSUME NEW h \in Groups
      PROVE  /\ isTaskContainer'[h] => active'[h]
             /\ isTaskContainer'[h] <=> runningTaskId'[h] # NoTask
  <2>1. /\ isTaskContainer[h] => active[h]
        /\ isTaskContainer[h] <=> runningTaskId[h] # NoTask
    BY DEF RInv, TaskInv
  <2>2. CASE h \in T
    BY <1>1, <2>2, GroupQueueAssumption
  <2>3. CASE h \notin T /\ h \in M /\ h \notin F
    <3>1. ~active[h]
      BY <2>3 DEF Active
    <3> QED
      BY <1>1, <2>1, <2>3, <3>1
  <2>4. CASE h \notin T /\ h \in F
    BY <1>1, <2>4
  <2>5. CASE h \notin T /\ h \notin M /\ h \notin F
    BY <1>1, <2>1, <2>5
  <2> QED
    BY <2>2, <2>3, <2>4, <2>5
<1> QED
  BY <1>1, <1>2 DEF TaskInv

\* Groups that start their oldest task keep their line; a group whose run ends is
\* left with what it has queued.
LEMMA SwitchLine ==
  ASSUME RInv, NEW g \in Groups, active[g], NEW M, NEW T,
         M \cup T \subseteq Groups, M \cap T = {},
         (M \cup T) \cap (Active \ {g}) = {},
         \A h \in T : pendingTasks[h] # <<>>,
         Switch({g}, M, T, HeadTasks),
         pendingTasks' = [h \in Groups |-> IF h \in T THEN Tail(pendingTasks[h])
                                           ELSE pendingTasks[h]]
  PROVE  /\ TaskInv'
         /\ Line(g)' = pendingTasks[g]
         /\ \A h \in Groups \ {g} : Line(h)' = Line(h)
<1>1. ASSUME NEW h \in T
      PROVE  /\ HeadTasks[h] = Head(pendingTasks[h])
             /\ HeadTasks[h] \in TaskIds
             /\ <<HeadTasks[h]>> \o Tail(pendingTasks[h]) = pendingTasks[h]
  <2>1. h \in Groups /\ pendingTasks[h] \in Seq(TaskIds) /\ pendingTasks[h] # <<>>
    BY DEF RInv, IInv, TypeOK
  <2>2. HeadTasks[h] = Head(pendingTasks[h])
    BY <2>1 DEF HeadTasks
  <2> QED
    BY <2>1, <2>2, HeadThenTail
<1>2. {g} \in SUBSET Active /\ \A h \in T : HeadTasks[h] \in TaskIds
  BY <1>1 DEF Active
<1>3. /\ TaskInv'
      /\ \A h \in Groups :
           runningTaskId'[h] = IF h \in T THEN HeadTasks[h]
                               ELSE IF h \in {g} THEN NoTask ELSE runningTaskId[h]
  <2> DEFINE F == {g}
             task == HeadTasks
  <2>1. F \in SUBSET Active /\ \A h \in T : task[h] \in TaskIds
    BY <1>2
  <2>2. Switch(F, M, T, task) /\ (M \cup T) \cap (Active \ F) = {}
    OBVIOUS
  <2> HIDE DEF F, task
  <2>3. /\ TaskInv'
        /\ \A h \in Groups :
             runningTaskId'[h] = IF h \in T THEN task[h]
                                 ELSE IF h \in F THEN NoTask ELSE runningTaskId[h]
    BY <2>1, <2>2, SwitchTasks
  <2> QED
    BY <2>3 DEF F, task
<1>4. ASSUME NEW h \in Groups, h \in T
      PROVE  Line(h)' = pendingTasks[h]
  <2>1. runningTaskId'[h] = HeadTasks[h] /\ HeadTasks[h] # NoTask
    BY <1>1, <1>3, <1>4, GroupQueueAssumption
  <2>2. pendingTasks'[h] = Tail(pendingTasks[h])
    BY <1>4
  <2> QED
    BY <1>1, <1>4, <2>1, <2>2 DEF Line
<1>5. ASSUME NEW h \in Groups, h \notin T
      PROVE  Line(h)' = IF h = g THEN pendingTasks[h] ELSE Line(h)
  BY <1>3, <1>5 DEF Line
<1>6. ASSUME NEW h \in Groups, h \in T, h # g
      PROVE  Line(h) = pendingTasks[h]
  <2>1. ~active[h]
    BY <1>6 DEF Active
  <2>2. runningTaskId[h] = NoTask
    BY <2>1 DEF RInv, TaskInv
  <2> QED
    BY <2>2 DEF Line
<1> QED
  BY <1>3, <1>4, <1>5, <1>6

\* The end of a run takes the running task, if any, out of its group's line.
LEMMA EndRunLine ==
  ASSUME RInv, NEW g \in Groups, inflight[g] > 0, EndRun(g)
  PROVE  /\ TaskInv'
         /\ Line(g)' = pendingTasks[g]
         /\ \A h \in Groups \ {g} : Line(h)' = Line(h)
<1>a. active[g]
  BY DEF RInv, IInv, OneRunPerGroup
<1>t. pendingTasks \in [Groups -> Seq(TaskIds)]
  BY DEF RInv, IInv, TypeOK
<1>n. ASSUME NEW M, Switch({g}, M, {}, NoTasks)
      PROVE  Switch({g}, M, {}, HeadTasks)
  BY <1>n DEF Switch
<1>k. ASSUME UNCHANGED pendingTasks
      PROVE  pendingTasks' = [h \in Groups |-> IF h \in {} THEN Tail(pendingTasks[h])
                                               ELSE pendingTasks[h]]
  BY <1>t, <1>k
<1>1. CASE Switch({g}, {}, {}, NoTasks) /\ UNCHANGED pendingTasks
  <2>1. /\ {} \cup {} \subseteq Groups /\ {} \cap {} = {}
        /\ ({} \cup {}) \cap (Active \ {g}) = {}
        /\ \A h \in {} : pendingTasks[h] # <<>>
    OBVIOUS
  <2> QED
    BY <1>1, <1>a, <1>k, <1>n, <2>1, SwitchLine, Zenon
<1>2. CASE /\ TaskFirst(g)
           /\ Switch({g}, {}, {g}, HeadTasks)
           /\ pendingTasks' = [pendingTasks EXCEPT ![g] = Tail(@)]
  <2>1. pendingTasks' = [h \in Groups |-> IF h \in {g} THEN Tail(pendingTasks[h])
                                          ELSE pendingTasks[h]]
    BY <1>2, <1>t
  <2>2. /\ {} \cup {g} \subseteq Groups /\ {} \cap {g} = {}
        /\ ({} \cup {g}) \cap (Active \ {g}) = {}
        /\ \A h \in {g} : pendingTasks[h] # <<>>
    BY <1>2 DEF TaskFirst
  <2> QED
    BY <1>2, <1>a, <2>1, <2>2, SwitchLine, Zenon
<1>3. CASE Switch({g}, {g}, {}, NoTasks) /\ UNCHANGED pendingTasks
  <2>1. /\ {g} \cup {} \subseteq Groups /\ {g} \cap {} = {}
        /\ ({g} \cup {}) \cap (Active \ {g}) = {}
        /\ \A h \in {} : pendingTasks[h] # <<>>
    OBVIOUS
  <2> QED
    BY <1>3, <1>a, <1>k, <1>n, <2>1, SwitchLine, Zenon
<1>4. CASE ~shuttingDown /\ DrainWaiting(g)
  <2> DEFINE k == Popped(activeCount - 1)
             S == {waitingGroups[i] : i \in Startable(k)}
             T == {h \in S : pendingTasks[h] # <<>>}
  <2>1. /\ Switch({g}, S \ T, T, HeadTasks)
        /\ pendingTasks' = [h \in Groups |-> IF h \in T THEN Tail(pendingTasks[h])
                                             ELSE pendingTasks[h]]
    BY <1>4 DEF DrainWaiting
  <2>2. S \subseteq Groups /\ S \cap Active = {}
    <3>1. CASE waitingGroups = <<>>
      <4>1. S = {}
        BY <3>1, PoppedNone
      <4> QED
        BY <4>1
    <3>2. CASE waitingGroups # <<>>
      <4>1. S = {waitingGroups[1]}
        BY <1>4, <3>2, PoppedOne DEF RInv
      <4>2. 1 \in 1..Len(waitingGroups)
        BY <3>2 DEF RInv, IInv, TypeOK
      <4>3. waitingGroups[1] \in Groups /\ ~active[waitingGroups[1]]
        BY <4>2, SMTT(30) DEF RInv, IInv, TypeOK, ParkedOnlyWhenFull
      <4> QED
        BY <4>1, <4>3 DEF Active
    <3> QED
      BY <3>1, <3>2
  <2> HIDE DEF S
  <2>3. /\ (S \ T) \cup T \subseteq Groups /\ (S \ T) \cap T = {}
        /\ ((S \ T) \cup T) \cap (Active \ {g}) = {}
        /\ \A h \in T : pendingTasks[h] # <<>>
    BY <2>2
  <2> HIDE DEF T
  <2> QED
    BY <1>a, <2>1, <2>3, SwitchLine
<1> QED
  BY <1>1, <1>2, <1>3, <1>4 DEF EndRun

-----------------------------------------------------------------------------
(* Steps of the abstract queue *)

LEMMA LineStutters ==
  ASSUME \A h \in Groups : Line(h)' = Line(h)
  PROVE  TaskLine' = TaskLine
<1>1. TaskLine' = [g \in Groups |-> Line(g)']
  BY DEF TaskLine, Line
<1> QED
  BY <1>1, TaskLineIsLine

LEMMA LineCompletes ==
  ASSUME NEW g \in Groups, Line(g) # <<>>, Line(g)' = Tail(Line(g)),
         \A h \in Groups \ {g} : Line(h)' = Line(h)
  PROVE  Fifo!Next
<1>1. TaskLine' = [h \in Groups |-> Line(h)']
  BY DEF TaskLine, Line
<1>2. TaskLine = [h \in Groups |-> Line(h)]
  BY TaskLineIsLine
<1>3. TaskLine[g] # <<>> /\ TaskLine' = [TaskLine EXCEPT ![g] = Tail(@)]
  BY <1>1, <1>2
<1> QED
  BY <1>3 DEF Fifo!Complete, Fifo!Next

LEMMA LineSubmits ==
  ASSUME NEW g \in Groups, NEW t \in TaskIds,
         \A i \in 1..Len(Line(g)) : Line(g)[i] # t,
         Line(g)' = Append(Line(g), t),
         \A h \in Groups \ {g} : Line(h)' = Line(h)
  PROVE  Fifo!Next
<1>1. TaskLine' = [h \in Groups |-> Line(h)']
  BY DEF TaskLine, Line
<1>2. TaskLine = [h \in Groups |-> Line(h)]
  BY TaskLineIsLine
<1>3. TaskLine' = [TaskLine EXCEPT ![g] = Append(@, t)]
  BY <1>1, <1>2
<1>4. ~Fifo!Has(g, t)
  BY <1>2 DEF Fifo!Has
<1> QED
  BY <1>3, <1>4 DEF Fifo!Submit, Fifo!Next

-----------------------------------------------------------------------------
(* The actions *)

FifoStep == TaskInv' /\ [Fifo!Next]_TaskLine

\* The steps that start and end no run and queue no task.
LEMMA QuietStep ==
  ASSUME TaskInv, UNCHANGED <<active, isTaskContainer, runningTaskId, pendingTasks>>
  PROVE  FifoStep
<1>1. TaskInv'
  BY DEF TaskInv
<1>2. TaskLine' = TaskLine
  BY DEF TaskLine
<1> QED
  BY <1>1, <1>2 DEF FifoStep

LEMMA EndRunStep ==
  ASSUME RInv, NEW g \in Groups, inflight[g] > 0, EndRun(g)
  PROVE  FifoStep
<1>1. /\ TaskInv'
      /\ Line(g)' = pendingTasks[g]
      /\ \A h \in Groups \ {g} : Line(h)' = Line(h)
  BY EndRunLine
<1>2. CASE runningTaskId[g] = NoTask
  <2>1. \A h \in Groups : Line(h)' = Line(h)
    BY <1>1, <1>2 DEF Line
  <2> QED
    BY <1>1, <2>1, LineStutters DEF FifoStep
<1>3. CASE runningTaskId[g] # NoTask
  <2>1. pendingTasks[g] \in Seq(TaskIds) /\ runningTaskId[g] \in TaskIds
    BY <1>3 DEF RInv, IInv, TypeOK
  <2>2. Line(g) = <<runningTaskId[g]>> \o pendingTasks[g]
    BY <1>3 DEF Line
  <2>3. Line(g) # <<>> /\ Tail(Line(g)) = pendingTasks[g]
    BY <2>1, <2>2, TailAfterHead
  <2> QED
    BY <1>1, <2>3, LineCompletes DEF FifoStep
<1> QED
  BY <1>2, <1>3

LEMMA CheckStep ==
  ASSUME RInv, NEW g \in Groups, MessageCheck(g), UNCHANGED pendingTasks
  PROVE  FifoStep
<1>1. CASE UNCHANGED slotVars
  BY <1>1, QuietStep DEF slotVars, RInv
<1>2. CASE ~active[g] /\ Switch({}, {g}, {}, NoTasks)
  <2> DEFINE F == {}
             M == {g}
             T == {}
             task == NoTasks
  <2>1. /\ F \in SUBSET Active /\ M \cup T \subseteq Groups /\ M \cap T = {}
        /\ (M \cup T) \cap (Active \ F) = {} /\ \A h \in T : task[h] \in TaskIds
        /\ Switch(F, M, T, task)
    BY <1>2 DEF Active
  <2>2. TaskInv' /\ \A h \in Groups : runningTaskId'[h] = runningTaskId[h]
    <3>1. F = {} /\ T = {}
      OBVIOUS
    <3> HIDE DEF F, M, T, task
    <3>2. /\ TaskInv'
          /\ \A h \in Groups :
               runningTaskId'[h] = IF h \in T THEN task[h]
                                   ELSE IF h \in F THEN NoTask ELSE runningTaskId[h]
      BY <2>1, SwitchTasks
    <3> QED
      BY <3>1, <3>2
  <2>3. \A h \in Groups : Line(h)' = Line(h)
    BY <2>2 DEF Line
  <2> QED
    BY <2>2, <2>3, LineStutters DEF FifoStep
<1> QED
  BY <1>1, <1>2 DEF MessageCheck

LEMMA EnqueueTaskStep ==
  ASSUME RInv, NEW g \in Groups, NEW t \in TaskIds, EnqueueTask(g, t)
  PROVE  FifoStep
<1>t. TypeOK /\ pendingTasks \in [Groups -> Seq(TaskIds)]
  BY DEF RInv, IInv, TypeOK
<1>u. \A i \in 1..Len(Line(g)) : Line(g)[i] # t
  BY <1>t, UnknownNotInLine DEF EnqueueTask
<1>1. ASSUME UNCHANGED slotVars, pendingTasks' = [pendingTasks EXCEPT ![g] = Append(@, t)]
      PROVE  FifoStep
  <2>1. TaskInv'
    BY <1>1 DEF RInv, TaskInv, slotVars
  <2>2. \A h \in Groups \ {g} : Line(h)' = Line(h)
    BY <1>1, <1>t DEF Line, slotVars
  <2>3. pendingTasks'[g] = Append(pendingTasks[g], t) /\ runningTaskId' = runningTaskId
    BY <1>1, <1>t DEF slotVars
  <2>4. Line(g)' = Append(Line(g), t)
    <3>1. CASE runningTaskId[g] = NoTask
      BY <2>3, <3>1 DEF Line
    <3>2. CASE runningTaskId[g] # NoTask
      <4>1. runningTaskId[g] \in TaskIds /\ pendingTasks[g] \in Seq(TaskIds)
        BY <1>t, <3>2 DEF TypeOK
      <4>2. <<runningTaskId[g]>> \o Append(pendingTasks[g], t)
              = Append(<<runningTaskId[g]>> \o pendingTasks[g], t)
        BY <4>1, AppendAfterHead
      <4> QED
        BY <2>3, <3>2, <4>2 DEF Line
    <3> QED
      BY <3>1, <3>2
  <2> QED
    BY <1>u, <2>1, <2>2, <2>4, LineSubmits DEF FifoStep
<1>2. CASE /\ ~active[g] /\ ~Full
           /\ Switch({}, {}, {g}, [NoTasks EXCEPT ![g] = t])
           /\ UNCHANGED pendingTasks
  <2> DEFINE F == {}
             M == {}
             T == {g}
             task == [NoTasks EXCEPT ![g] = t]
  <2>1. /\ F \in SUBSET Active /\ M \cup T \subseteq Groups /\ M \cap T = {}
        /\ (M \cup T) \cap (Active \ F) = {} /\ \A h \in T : task[h] \in TaskIds
        /\ Switch(F, M, T, task) /\ task[g] = t
    BY <1>2 DEF Active, NoTasks
  <2>2. g \in T /\ F = {} /\ \A h \in Groups \ {g} : h \notin T
    OBVIOUS
  <2> HIDE DEF F, M, T, task
  <2>3. /\ TaskInv'
        /\ \A h \in Groups :
             runningTaskId'[h] = IF h \in T THEN task[h]
                                 ELSE IF h \in F THEN NoTask ELSE runningTaskId[h]
    BY <2>1, SwitchTasks
  <2>4. runningTaskId'[g] = t /\ t # NoTask
    BY <2>1, <2>2, <2>3, GroupQueueAssumption
  <2>5. pendingTasks[g] = <<>>
    <3>1. ~shuttingDown
      BY DEF EnqueueTask
    <3>2. waitingGroups = <<>>
      BY <1>2, <3>1, FreeMeansUnparked DEF RInv
    <3> QED
      BY <1>2, <3>1, <3>2 DEF RInv, IInv, NoLostWakeup, Waiting
  <2>6. runningTaskId[g] = NoTask
    BY <1>2 DEF RInv, TaskInv
  <2>7. Line(g) = <<>> /\ Line(g)' = <<t>> \o <<>>
    BY <1>2, <2>4, <2>5, <2>6 DEF Line
  <2>8. Line(g)' = Append(Line(g), t)
    BY <2>7
  <2>9. \A h \in Groups \ {g} : Line(h)' = Line(h)
    BY <1>2, <2>2, <2>3 DEF Line
  <2> QED
    BY <1>u, <2>3, <2>8, <2>9, LineSubmits DEF FifoStep
<1> QED
  BY <1>1, <1>2 DEF EnqueueTask

LEMMA NextStep == RInv /\ [Next]_vars => FifoStep
<1> SUFFICES ASSUME RInv, [Next]_vars PROVE FifoStep
  OBVIOUS
<1>i. TaskInv
  BY DEF RInv
<1>1. ASSUME NEW g \in Groups, EnqueueMessageCheck(g) PROVE FifoStep
  BY <1>1, CheckStep DEF EnqueueMessageCheck
<1>2. ASSUME NEW g \in Groups, NEW t \in TaskIds, EnqueueTask(g, t) PROVE FifoStep
  BY <1>2, EnqueueTaskStep
<1>3. ASSUME NEW g \in Groups, RunEnds(g) PROVE FifoStep
  BY <1>3, EndRunStep DEF RunEnds, MessagesSucceed, MessagesFail, TaskEnds
<1>4. ASSUME NEW g \in Groups, TimerFires(g) PROVE FifoStep
  <2>1. CASE MessageCheck(g) /\ UNCHANGED pendingTasks
    BY <2>1, CheckStep
  <2>2. CASE UNCHANGED <<slotVars, pendingTasks>>
    BY <1>i, <2>2, QuietStep DEF slotVars
  <2> QED
    BY <1>4, <2>1, <2>2 DEF TimerFires
<1>5. ASSUME UNCHANGED <<slotVars, pendingTasks>> PROVE FifoStep
  BY <1>i, <1>5, QuietStep DEF slotVars
<1>6. ASSUME NEW g \in Groups,
             \/ CooldownExpires(g) \/ RegisterProcess(g) \/ NotifyIdle(g)
             \/ SendMessage(g) \/ CloseStdin(g)
      PROVE  FifoStep
  BY <1>5, <1>6
  DEF CooldownExpires, RegisterProcess, NotifyIdle, SendMessage, CloseStdin
<1>7. ASSUME Shutdown \/ UNCHANGED vars PROVE FifoStep
  BY <1>5, <1>7 DEF Shutdown, vars
<1> QED
  BY <1>1, <1>2, <1>3, <1>4, <1>6, <1>7 DEF Next, Arrive

LEMMA InitLine == Init => TaskInv /\ Fifo!Init
<1> SUFFICES ASSUME Init PROVE TaskInv /\ Fifo!Init
  OBVIOUS
<1>1. TaskInv
  BY DEF Init, TaskInv
<1>2. TaskLine = [g \in Groups |-> <<>>]
  BY DEF Init, TaskLine
<1> QED
  BY <1>1, <1>2 DEF Fifo!Init

\* The queue implements TaskFifo: the tasks of each group are run in the order
\* enqueueTask accepted them, none twice and none dropped, for any groups, slots,
\* tasks and retries.
THEOREM ImplementsFifo == Spec => TasksInOrder
<1>1. Init => RInv /\ Fifo!Init
  BY InitInv, InitLine DEF RInv
<1>2. RInv /\ [Next]_vars => RInv' /\ [Fifo!Next]_TaskLine
  BY NextInv, NextStep DEF RInv, FifoStep
<1> QED
  BY <1>1, <1>2, PTL DEF Spec, TasksInOrder, Fifo!Spec

-----------------------------------------------------------------------------
(* The pool of warm sessions: what Kept keeps *)

\* No member twice.
Distinct(s) == \A i, k \in 1..Len(s) : s[i] = s[k] => i = k

LEMMA KeptFacts ==
  ASSUME NEW D, NEW list \in Seq(D), NEW S
  PROVE  /\ Kept(list, S) \in Seq(D)
         /\ ToSet(Kept(list, S)) = ToSet(list) \cap S
         /\ Distinct(list) => Distinct(Kept(list, S))
<1> DEFINE kept == CHOOSE f : Filters(f, list, S)
<1>1. Filters(kept, list, S)
  BY FilterExists, Zenon
<1>2. Kept(list, S) = kept[Len(list)]
  BY DEF Kept, Filters
<1>3. PICK R : R = {d \in D \X D : d[1] # d[2]}
  OBVIOUS
<1>4. ASSUME NEW s \in Seq(D) PROVE Distinct(s) <=> Ordered(s, R)
  <2>1. \A i \in 1..Len(s) : s[i] \in D
    OBVIOUS
  <2>2. ASSUME NEW i \in 1..Len(s), NEW k \in 1..Len(s)
        PROVE  <<s[i], s[k]>> \in R <=> s[i] # s[k]
    BY <1>3, <2>1
  <2>3. ASSUME Distinct(s) PROVE Ordered(s, R)
    BY <2>2, <2>3 DEF Distinct, Ordered
  <2>4. ASSUME Ordered(s, R), NEW i \in 1..Len(s), NEW k \in 1..Len(s), s[i] = s[k]
        PROVE  i = k
    <3>1. ~(i < k) /\ ~(k < i)
      BY <2>2, <2>4 DEF Ordered
    <3> QED
      BY <3>1
  <2> QED
    BY <2>3, <2>4 DEF Distinct
<1> HIDE DEF kept
<1>5. PICK s : s = kept[Len(list)]
  OBVIOUS
<1>6. /\ s \in Seq(D)
      /\ {s[i] : i \in 1..Len(s)} = {list[i] : i \in 1..Len(list)} \cap S
      /\ Ordered(list, R) => Ordered(s, R)
  <2>1. PICK f : Filters(f, list, S) /\ s = f[Len(list)]
    BY <1>1, <1>5
  <2>2. PICK r : r = R
    OBVIOUS
  <2>3. /\ f[Len(list)] \in Seq(D) /\ Len(f[Len(list)]) <= Len(list)
        /\ {f[Len(list)][i] : i \in 1..Len(f[Len(list)])}
             = {list[i] : i \in 1..Len(list)} \cap S
        /\ Ordered(list, r) => Ordered(f[Len(list)], r)
    BY <2>1, FilterFacts, Zenon
  <2> QED
    BY <2>1, <2>2, <2>3
<1>7. ToSet(s) = {s[i] : i \in 1..Len(s)} /\ ToSet(list) = {list[i] : i \in 1..Len(list)}
  BY DEF ToSet
<1> QED
  BY <1>2, <1>4, <1>5, <1>6, <1>7

LEMMA WithoutFacts ==
  ASSUME NEW D, NEW list \in Seq(D), NEW x
  PROVE  /\ Without(list, x) \in Seq(D)
         /\ ToSet(Without(list, x)) = ToSet(list) \ {x}
         /\ Distinct(list) => Distinct(Without(list, x))
<1>1. PICK S : S = ToSet(list) \ {x}
  OBVIOUS
<1> QED
  BY <1>1, KeptFacts DEF Without

-----------------------------------------------------------------------------
(* Entries, waiters and sessions agree *)

\* A call that holds an entry has one, and the calls that wait are those the next finally
\* blocks wake, one each.
HoldersInv == \A c \in Calls : pc[c] \in {"got", "running"} => entry[c] \in Session
WaitingInv == Distinct(waiters) /\ \A i \in 1..Len(waiters) : pc[waiters[i]] = "waiting"

PoolInv == PoolCorrect /\ HoldersInv /\ WaitingInv

\* A round of the reaping loop moves at most one session from the map to the closed ones.
LEMMA ReapRoundFacts ==
  ASSUME PoolTypes, NEW c \in Calls, NEW list \in Seq(Session), NEW map \in Seq(Session), NEW old,
         NEW steps \in [Calls -> Steps], ReapRound(c, list, map, old, steps),
         Session = ToSet(map) \cup closed
  PROVE  /\ sessions' \in Seq(Session) /\ closed' \subseteq Session
         /\ Session = ToSet(sessions') \cup closed'
         /\ snapshot' \in [Calls -> Seq(Session)]
         /\ \E step \in {"reaping", "over"} : pc' = [steps EXCEPT ![c] = step]
<1>1. closed \subseteq Session /\ snapshot \in [Calls -> Seq(Session)] /\ MinIdle \in Nat
  BY HotRunnerPoolAssumption DEF PoolTypes
<1>2. CASE Len(list) > MinIdle /\ Head(list) \in old
  <2>1. Len(list) > 0
    BY <1>1, <1>2
  <2>2. PICK h \in Session : h = Head(list) /\ Tail(list) \in Seq(Session)
    BY <2>1
  <2>3. /\ sessions' = Without(map, h) /\ closed' = closed \cup {h}
        /\ snapshot' = [snapshot EXCEPT ![c] = Tail(list)]
        /\ pc' = [steps EXCEPT ![c] = "reaping"]
    BY <1>2, <2>2 DEF ReapRound
  <2>4. sessions' \in Seq(Session) /\ ToSet(sessions') = ToSet(map) \ {h}
    BY <2>3, WithoutFacts
  <2>5. ToSet(sessions') \cup closed' = Session
    BY <2>3, <2>4
  <2>6. closed' \subseteq Session
    BY <1>1, <2>3
  <2> QED
    BY <1>1, <2>2, <2>3, <2>4, <2>5, <2>6
<1>3. CASE ~(Len(list) > MinIdle /\ Head(list) \in old)
  <2>1. /\ sessions' = map /\ closed' = closed /\ snapshot' = [snapshot EXCEPT ![c] = <<>>]
        /\ pc' = [steps EXCEPT ![c] = "over"]
    BY <1>3 DEF ReapRound
  <2> QED
    BY <1>1, <2>1
<1> QED
  BY <1>2, <1>3

\* The parts of PoolInv, with what the pool and its calls are made of.
LEMMA PoolParts ==
  ASSUME PoolInv
  PROVE  /\ PoolTypes /\ BusyIsUsed /\ WaitersHaveWaker /\ NoSessionLeaks /\ HoldersInv /\ WaitingInv
         /\ created \in Nat /\ sessions \in Seq(Session) /\ waiters \in Seq(Calls)
         /\ pc \in [Calls -> Steps] /\ entry \in [Calls -> Session \cup {NoEntry}]
         /\ Session = Pool \cup closed /\ Pool = ToSet(sessions)
BY DEF PoolInv, PoolCorrect, PoolTypes, NoSessionLeaks, Pool

\* The steps of one call that touch no session.
LEMMA CallKeeps ==
  ASSUME PoolInv, NEW c \in Calls,
         Call(c) \/ TakeIdle(c) \/ Grow(c) \/ Wait(c) \/ WaiterTimesOut(c) \/ CreateFails(c)
  PROVE  PoolInv'
<1>1. /\ PoolTypes /\ BusyIsUsed /\ WaitersHaveWaker /\ NoSessionLeaks /\ HoldersInv /\ WaitingInv
      /\ created \in Nat /\ sessions \in Seq(Session) /\ waiters \in Seq(Calls)
      /\ pc \in [Calls -> Steps] /\ entry \in [Calls -> Session \cup {NoEntry}]
      /\ Session = Pool \cup closed /\ Pool = ToSet(sessions)
  BY PoolParts
<1>2. UNCHANGED <<created, sessions, busy, aged, closed, snapshot>>
  BY DEF Call, WarmUp, Goto, TakeIdle, Grow, Wait, WaiterTimesOut, CreateFails
<1>3. PICK step \in Steps \ {"new", "running"} : pc' = [pc EXCEPT ![c] = step]
  BY DEF Call, WarmUp, Goto, TakeIdle, Grow, Wait, WaiterTimesOut, CreateFails, Steps
<1>4. pc[c] \notin {"got", "running"} /\ (step = "got" => TakeIdle(c))
  BY <1>1, <1>3
  DEF Call, WarmUp, Goto, TakeIdle, Grow, Wait, WaiterTimesOut, CreateFails, Steps
<1>5. /\ pc' \in [Calls -> Steps] /\ pc'[c] = step
      /\ \A d \in Calls : d # c => pc'[d] = pc[d]
  BY <1>1, <1>3
<1>6. /\ entry' \in [Calls -> Session \cup {NoEntry}]
      /\ \A d \in Calls : d # c => entry'[d] = entry[d]
      /\ step = "got" => entry'[c] \in Session
  <2>1. CASE TakeIdle(c)
    <3>1. Idle \in SUBSET Nat /\ Idle # {} /\ Idle \subseteq Session
      BY <1>1, <2>1, SMTT(30) DEF TakeIdle, Idle, Session
    <3>2. PICK least \in Idle : \A t \in Idle : least <= t
      BY <3>1, LeastNumber
    <3>3. PICK s \in Session : entry' = [entry EXCEPT ![c] = s]
      BY <2>1, <3>1, <3>2 DEF TakeIdle
    <3> QED
      BY <1>1, <3>3
  <2>2. CASE ~TakeIdle(c)
    <3>1. entry' = entry
      BY <2>2 DEF Call, Grow, Wait, WaiterTimesOut, CreateFails
    <3> QED
      BY <1>1, <1>4, <2>2, <3>1
  <2> QED
    BY <2>1, <2>2
<1>7. /\ waiters' \in Seq(Calls) /\ WaitingInv'
      /\ waiters' # <<>> => waiters # <<>> \/ Wait(c)
  <2>1. CASE Wait(c)
    <3>1. waiters' = Append(waiters, c) /\ step = "waiting" /\ pc[c] = "warm"
      BY <1>1, <1>3, <1>5, <2>1 DEF Wait, Goto
    <3>2. \A i \in 1..Len(waiters) : waiters[i] # c
      BY <1>1, <3>1 DEF WaitingInv
    <3>3. waiters' \in Seq(Calls) /\ Len(waiters') = Len(waiters) + 1 /\ Len(waiters) \in Nat
          /\ (\A i \in 1..Len(waiters) : waiters'[i] = waiters[i])
          /\ waiters'[Len(waiters) + 1] = c
      BY <1>1, <3>1
    <3>4. Distinct(waiters')
      BY <1>1, <3>2, <3>3 DEF WaitingInv, Distinct
    <3>5. \A i \in 1..Len(waiters') : pc'[waiters'[i]] = "waiting"
      BY <1>1, <1>5, <3>1, <3>2, <3>3 DEF WaitingInv
    <3> QED
      BY <2>1, <3>3, <3>4, <3>5 DEF WaitingInv, Distinct
  <2>2. CASE WaiterTimesOut(c)
    <3>1. waiters' = Without(waiters, c)
      BY <2>2 DEF WaiterTimesOut
    <3>2. /\ waiters' \in Seq(Calls) /\ ToSet(waiters') = ToSet(waiters) \ {c} /\ Distinct(waiters')
      BY <1>1, <3>1, WithoutFacts DEF WaitingInv
    <3>3. \A i \in 1..Len(waiters') : pc'[waiters'[i]] = "waiting"
      <4>1. \A d \in ToSet(waiters) : pc[d] = "waiting" /\ d \in Calls
        BY <1>1 DEF WaitingInv, ToSet
      <4>2. \A i \in 1..Len(waiters') : waiters'[i] \in ToSet(waiters')
        BY <3>2 DEF ToSet
      <4> QED
        BY <1>5, <3>2, <4>1, <4>2
    <3>4. waiters' # <<>> => waiters # <<>>
      <4>1. waiters' # <<>> => ToSet(waiters') # {}
        BY <3>2 DEF ToSet
      <4>2. waiters = <<>> => ToSet(waiters) = {}
        BY DEF ToSet
      <4> QED
        BY <3>2, <4>1, <4>2
    <3> QED
      BY <3>2, <3>3, <3>4 DEF WaitingInv, Distinct
  <2>3. CASE ~Wait(c) /\ ~WaiterTimesOut(c)
    <3>1. waiters' = waiters
      BY <2>3 DEF Call, TakeIdle, Grow, CreateFails
    <3>2. pc[c] # "waiting"
      BY <2>3 DEF Call, TakeIdle, Grow, CreateFails
    <3>3. \A i \in 1..Len(waiters) : pc'[waiters[i]] = "waiting"
      BY <1>1, <1>5, <3>2 DEF WaitingInv
    <3> QED
      BY <1>1, <3>1, <3>3 DEF WaitingInv, Distinct
  <2> QED
    BY <2>1, <2>2, <2>3
<1>8. PoolTypes'
  BY <1>1, <1>2, <1>5, <1>6, <1>7 DEF PoolTypes, Session
<1>9. BusyIsUsed'
  BY <1>1, <1>2, <1>4, <1>5, <1>6 DEF BusyIsUsed
<1>10. WaitersHaveWaker'
  <2>1. CASE waiters' = <<>>
    BY <2>1 DEF WaitersHaveWaker
  <2>2. CASE waiters # <<>>
    <3>1. PICK d \in Calls : pc[d] \in {"got", "running"}
      BY <1>1, <2>2 DEF WaitersHaveWaker
    <3> QED
      BY <1>4, <1>5, <3>1 DEF WaitersHaveWaker
  <2>3. CASE Wait(c)
    <3>1. Idle = {} /\ Len(sessions) >= MaxSize /\ MaxSize \in Nat \ {0}
      BY <2>3, HotRunnerPoolAssumption DEF Wait
    <3>2. sessions[1] \in Pool
      BY <1>1, <3>1 DEF ToSet
    <3>3. sessions[1] \in busy
      BY <3>1, <3>2 DEF Idle
    <3>4. PICK d \in Calls : pc[d] = "running"
      BY <1>1, <3>3 DEF BusyIsUsed
    <3> QED
      BY <1>4, <1>5, <3>4 DEF WaitersHaveWaker
  <2> QED
    BY <1>7, <2>1, <2>2, <2>3
<1>11. NoSessionLeaks'
  BY <1>1, <1>2 DEF NoSessionLeaks, Session, Pool
<1>12. HoldersInv'
  BY <1>1, <1>2, <1>3, <1>5, <1>6 DEF HoldersInv, Session
<1> QED
  BY <1>7, <1>8, <1>9, <1>10, <1>11, <1>12 DEF PoolInv, PoolCorrect

\* The factory answers a call: its session is idle in the map.
LEMMA InsertKeeps ==
  ASSUME PoolInv, NEW c \in Calls, Warmed(c) \/ Grown(c)
  PROVE  PoolInv'
<1>1. /\ PoolTypes /\ BusyIsUsed /\ WaitersHaveWaker /\ NoSessionLeaks /\ HoldersInv /\ WaitingInv
      /\ created \in Nat /\ sessions \in Seq(Session) /\ waiters \in Seq(Calls)
      /\ pc \in [Calls -> Steps] /\ entry \in [Calls -> Session \cup {NoEntry}]
      /\ Session = Pool \cup closed /\ Pool = ToSet(sessions)
  BY PoolParts
<1>2. /\ UNCHANGED <<busy, aged, closed, waiters, snapshot>>
      /\ created' = created + 1 /\ sessions' = Append(sessions, created + 1)
  BY DEF Warmed, Grown, Insert
<1>3. PICK n : n = created + 1
  OBVIOUS
<1>4. /\ created' = n /\ n \in Nat /\ Session' = Session \cup {n} /\ n \notin Session
      /\ sessions' \in Seq(Session') /\ Pool' = Pool \cup {n}
  <2>1. n \in Nat /\ 1..n = (1..created) \cup {n} /\ n \notin 1..created
    BY <1>1, <1>3
  <2>2. Session' = Session \cup {n}
    BY <1>2, <1>3, <2>1 DEF Session
  <2>3. n \in Session' /\ sessions \in Seq(Session')
    BY <1>1, <2>2
  <2>4. sessions' \in Seq(Session') /\ ToSet(sessions') = ToSet(sessions) \cup {n}
    <3>1. PICK D : D = Session'
      OBVIOUS
    <3>2. sessions \in Seq(D) /\ n \in D /\ sessions' = Append(sessions, n)
      BY <1>2, <1>3, <2>3, <3>1
    <3> QED
      BY <3>1, <3>2, AppendFacts DEF ToSet
  <2> QED
    BY <1>1, <1>2, <1>3, <2>1, <2>2, <2>4 DEF Session, Pool
<1>6. PICK step \in {"warming", "warm", "got"} :
        /\ pc' = [pc EXCEPT ![c] = step]
        /\ pc[c] \in {"warming", "creating"}
        /\ (step = "got" /\ entry' = [entry EXCEPT ![c] = n])
             \/ (step # "got" /\ entry' = entry)
  BY <1>3 DEF Warmed, Grown, WarmUp, Goto
<1>7. /\ pc' \in [Calls -> Steps] /\ pc'[c] = step
      /\ \A d \in Calls : d # c => pc'[d] = pc[d] /\ entry'[d] = entry[d]
      /\ entry' \in [Calls -> Session' \cup {NoEntry}]
      /\ step = "got" => entry'[c] \in Session'
  BY <1>1, <1>4, <1>6 DEF Steps
<1>8. PoolTypes'
  <2>1. /\ busy \subseteq Session' /\ aged \subseteq Session' /\ closed \subseteq Session'
        /\ snapshot \in [Calls -> Seq(Session')]
    BY <1>1, <1>4 DEF PoolTypes
  <2> QED
    BY <1>1, <1>2, <1>4, <1>7, <2>1 DEF PoolTypes
<1>9. BusyIsUsed'
  BY <1>1, <1>2, <1>6, <1>7 DEF BusyIsUsed
<1>10. WaitersHaveWaker'
  BY <1>1, <1>2, <1>6, <1>7 DEF WaitersHaveWaker
<1>11. NoSessionLeaks'
  BY <1>1, <1>2, <1>4 DEF NoSessionLeaks
<1>12. HoldersInv'
  BY <1>1, <1>4, <1>6, <1>7 DEF HoldersInv
<1>13. WaitingInv'
  <2>1. \A i \in 1..Len(waiters) : pc'[waiters[i]] = "waiting"
    BY <1>1, <1>6, <1>7 DEF WaitingInv
  <2> QED
    BY <1>1, <1>2, <2>1 DEF WaitingInv, Distinct
<1> QED
  BY <1>8, <1>9, <1>10, <1>11, <1>12, <1>13 DEF PoolInv, PoolCorrect

LEMMA StartKeeps ==
  ASSUME PoolInv, NEW c \in Calls, Start(c)
  PROVE  PoolInv'
<1>1. /\ PoolTypes /\ BusyIsUsed /\ WaitersHaveWaker /\ NoSessionLeaks /\ HoldersInv /\ WaitingInv
      /\ created \in Nat /\ sessions \in Seq(Session) /\ waiters \in Seq(Calls)
      /\ pc \in [Calls -> Steps] /\ entry \in [Calls -> Session \cup {NoEntry}]
      /\ Session = Pool \cup closed /\ Pool = ToSet(sessions)
  BY PoolParts
<1>2. /\ UNCHANGED <<created, sessions, aged, closed, waiters, entry, snapshot>>
      /\ pc[c] = "got" /\ busy' = busy \cup {entry[c]} /\ pc' = [pc EXCEPT ![c] = "running"]
  BY DEF Start, Goto
<1>3. /\ pc' \in [Calls -> Steps] /\ pc'[c] = "running" /\ entry[c] \in Session
      /\ \A d \in Calls : d # c => pc'[d] = pc[d]
  BY <1>1, <1>2 DEF Steps, HoldersInv
<1>4. PoolTypes'
  BY <1>1, <1>2, <1>3 DEF PoolTypes, Session
<1>5. BusyIsUsed'
  BY <1>1, <1>2, <1>3 DEF BusyIsUsed
<1>6. WaitersHaveWaker' /\ NoSessionLeaks' /\ HoldersInv'
  BY <1>1, <1>2, <1>3 DEF WaitersHaveWaker, NoSessionLeaks, Session, Pool, HoldersInv
<1>7. WaitingInv'
  <2>1. \A i \in 1..Len(waiters) : pc'[waiters[i]] = "waiting"
    BY <1>1, <1>2, <1>3 DEF WaitingInv
  <2> QED
    BY <1>1, <1>2, <2>1 DEF WaitingInv, Distinct
<1> QED
  BY <1>4, <1>5, <1>6, <1>7 DEF PoolInv, PoolCorrect

\* A finally block: its entry is idle, the first waiter has it, and the oldest idle session
\* is reaped.
LEMMA FinishKeeps ==
  ASSUME PoolInv, NEW c \in Calls, Finish(c)
  PROVE  PoolInv'
<1>1. /\ PoolTypes /\ BusyIsUsed /\ WaitersHaveWaker /\ NoSessionLeaks /\ HoldersInv /\ WaitingInv
      /\ created \in Nat /\ sessions \in Seq(Session) /\ waiters \in Seq(Calls)
      /\ pc \in [Calls -> Steps] /\ entry \in [Calls -> Session \cup {NoEntry}]
      /\ Session = Pool \cup closed /\ Pool = ToSet(sessions)
  BY PoolParts
<1>2. PICK s, map, steps :
        /\ s = entry[c]
        /\ map = (IF s \in Pool THEN Append(Without(sessions, s), s) ELSE sessions)
        /\ steps = (IF waiters = <<>> THEN pc ELSE [pc EXCEPT ![Head(waiters)] = "got"])
  OBVIOUS
<1>3. /\ pc[c] = "running" /\ s \in Session /\ created' = created
      /\ busy' = busy \ {s} /\ aged' = aged \ {s}
      /\ IF waiters = <<>>
         THEN UNCHANGED <<waiters, entry>>
         ELSE waiters' = Tail(waiters) /\ entry' = [entry EXCEPT ![Head(waiters)] = s]
      /\ ReapRound(c, Kept(map, ToSet(map) \ busy'), map, aged', steps)
  BY <1>1, <1>2 DEF Finish, Woken, HoldersInv
<1>4. map \in Seq(Session) /\ ToSet(map) = Pool
  <2>1. CASE s \in Pool
    <3>1. PICK rest \in Seq(Session) : rest = Without(sessions, s) /\ ToSet(rest) = Pool \ {s}
      BY <1>1, WithoutFacts
    <3>2. map = Append(rest, s)
      BY <1>2, <2>1, <3>1
    <3>3. map \in Seq(Session) /\ ToSet(map) = ToSet(rest) \cup {s}
      BY <1>3, <3>2, AppendFacts DEF ToSet
    <3> QED
      BY <2>1, <3>1, <3>3
  <2>2. CASE s \notin Pool
    BY <1>1, <1>2, <2>2
  <2> QED
    BY <2>1, <2>2
<1>5. waiters # <<>> =>
        /\ Head(waiters) \in Calls /\ Head(waiters) # c /\ pc[Head(waiters)] = "waiting"
        /\ Tail(waiters) \in Seq(Calls) /\ Len(Tail(waiters)) = Len(waiters) - 1
        /\ \A i \in 1..Len(Tail(waiters)) :
             Tail(waiters)[i] = waiters[i + 1] /\ Tail(waiters)[i] # Head(waiters)
  <2> SUFFICES ASSUME waiters # <<>>
               PROVE  /\ Head(waiters) \in Calls /\ Head(waiters) # c
                      /\ pc[Head(waiters)] = "waiting"
                      /\ Tail(waiters) \in Seq(Calls) /\ Len(Tail(waiters)) = Len(waiters) - 1
                      /\ \A i \in 1..Len(Tail(waiters)) :
                           Tail(waiters)[i] = waiters[i + 1] /\ Tail(waiters)[i] # Head(waiters)
    OBVIOUS
  <2>1. /\ Head(waiters) = waiters[1] /\ Tail(waiters) \in Seq(Calls)
        /\ Len(waiters) \in Nat \ {0} /\ Len(Tail(waiters)) = Len(waiters) - 1
        /\ \A i \in 1..Len(Tail(waiters)) : Tail(waiters)[i] = waiters[i + 1]
    BY <1>1
  <2>2. Head(waiters) \in Calls /\ pc[Head(waiters)] = "waiting"
    BY <1>1, <2>1 DEF WaitingInv
  <2>3. \A i \in 1..Len(Tail(waiters)) : waiters[i + 1] # waiters[1]
    BY <1>1, <2>1 DEF WaitingInv, Distinct
  <2> QED
    BY <1>3, <2>1, <2>2, <2>3
<1>6. steps \in [Calls -> Steps]
  BY <1>1, <1>2, <1>5 DEF Steps
<1>7. PICK step \in {"reaping", "over"} :
        /\ sessions' \in Seq(Session) /\ closed' \subseteq Session
        /\ Session = ToSet(sessions') \cup closed'
        /\ snapshot' \in [Calls -> Seq(Session)]
        /\ pc' = [steps EXCEPT ![c] = step]
  <2>1. PICK list, old : list = Kept(map, ToSet(map) \ busy') /\ old = aged'
    OBVIOUS
  <2>2. list \in Seq(Session)
    <3>1. PICK S : S = ToSet(map) \ busy'
      OBVIOUS
    <3> QED
      BY <1>4, <2>1, <3>1, KeptFacts
  <2>3. ReapRound(c, list, map, old, steps) /\ Session = ToSet(map) \cup closed
    BY <1>1, <1>3, <1>4, <2>1
  <2> QED
    BY <1>1, <1>4, <1>6, <2>2, <2>3, ReapRoundFacts
<1>8. /\ pc' \in [Calls -> Steps] /\ pc'[c] = step
      /\ \A d \in Calls : d # c /\ (waiters = <<>> \/ d # Head(waiters)) => pc'[d] = pc[d]
      /\ waiters # <<>> => pc'[Head(waiters)] = "got" /\ entry'[Head(waiters)] = s
      /\ entry' \in [Calls -> Session \cup {NoEntry}]
      /\ \A d \in Calls : waiters = <<>> \/ d # Head(waiters) => entry'[d] = entry[d]
  <2>1. CASE waiters = <<>>
    BY <1>1, <1>2, <1>3, <1>6, <1>7, <2>1 DEF Steps
  <2>2. CASE waiters # <<>>
    BY <1>1, <1>2, <1>3, <1>5, <1>6, <1>7, <2>2, ZenonT(30) DEF Steps
  <2> QED
    BY <2>1, <2>2
<1>9. waiters' \in Seq(Calls) /\ (waiters' # <<>> => waiters # <<>>)
  BY <1>1, <1>3, <1>5
<1>10. PoolTypes'
  <2>1. busy' \subseteq Session /\ aged' \subseteq Session
    BY <1>1, <1>3 DEF PoolTypes
  <2> QED
    BY <1>1, <1>3, <1>7, <1>8, <1>9, <2>1 DEF PoolTypes, Session
<1>11. BusyIsUsed'
  <2> SUFFICES ASSUME NEW t \in busy'
               PROVE  \E d \in Calls : pc'[d] = "running" /\ entry'[d] = t
    BY DEF BusyIsUsed
  <2>1. PICK d \in Calls : pc[d] = "running" /\ entry[d] = t
    BY <1>1, <1>3 DEF BusyIsUsed
  <2>2. d # c /\ (waiters = <<>> \/ d # Head(waiters))
    BY <1>2, <1>3, <1>5, <2>1
  <2> QED
    BY <1>8, <2>1, <2>2
<1>12. WaitersHaveWaker'
  BY <1>5, <1>8, <1>9 DEF WaitersHaveWaker
<1>13. NoSessionLeaks'
  BY <1>3, <1>7 DEF NoSessionLeaks, Session, Pool
<1>14. HoldersInv'
  <2> SUFFICES ASSUME NEW d \in Calls, pc'[d] \in {"got", "running"}
               PROVE  entry'[d] \in Session
    BY <1>3 DEF HoldersInv, Session
  <2>1. CASE waiters # <<>> /\ d = Head(waiters)
    BY <1>3, <1>8, <2>1
  <2>2. CASE waiters = <<>> \/ d # Head(waiters)
    BY <1>1, <1>8, <2>2 DEF HoldersInv
  <2> QED
    BY <2>1, <2>2
<1>15. WaitingInv'
  <2>1. CASE waiters = <<>>
    BY <1>3, <2>1 DEF WaitingInv, Distinct
  <2>2. CASE waiters # <<>>
    <3>1. waiters' = Tail(waiters)
      BY <1>3, <2>2
    <3>2. \A i \in 1..Len(waiters') :
            waiters'[i] = waiters[i + 1] /\ i + 1 \in 1..Len(waiters) /\ waiters[i + 1] \in Calls
      BY <1>1, <1>5, <2>2, <3>1
    <3>3. Distinct(waiters')
      BY <1>1, <3>2 DEF WaitingInv, Distinct
    <3>4. \A i \in 1..Len(waiters') : pc'[waiters'[i]] = "waiting"
      <4>1. \A i \in 1..Len(waiters') :
              pc[waiters'[i]] = "waiting" /\ waiters'[i] # Head(waiters) /\ waiters'[i] # c
        BY <1>1, <1>3, <1>5, <2>2, <3>1, <3>2 DEF WaitingInv
      <4> QED
        BY <1>8, <3>2, <4>1
    <3> QED
      BY <3>3, <3>4 DEF WaitingInv, Distinct
  <2> QED
    BY <2>1, <2>2
<1> QED
  BY <1>10, <1>11, <1>12, <1>13, <1>14, <1>15 DEF PoolInv, PoolCorrect

LEMMA ReapOnKeeps ==
  ASSUME PoolInv, NEW c \in Calls, ReapOn(c)
  PROVE  PoolInv'
<1>1. /\ PoolTypes /\ BusyIsUsed /\ WaitersHaveWaker /\ NoSessionLeaks /\ HoldersInv /\ WaitingInv
      /\ created \in Nat /\ sessions \in Seq(Session) /\ waiters \in Seq(Calls)
      /\ pc \in [Calls -> Steps] /\ entry \in [Calls -> Session \cup {NoEntry}]
      /\ Session = Pool \cup closed /\ Pool = ToSet(sessions)
  BY PoolParts
<1>2. /\ UNCHANGED <<created, busy, aged, waiters, entry>>
      /\ pc[c] = "reaping" /\ ReapRound(c, snapshot[c], sessions, aged, pc)
  BY DEF ReapOn
<1>3. PICK step \in {"reaping", "over"} :
        /\ sessions' \in Seq(Session) /\ closed' \subseteq Session
        /\ Session = ToSet(sessions') \cup closed'
        /\ snapshot' \in [Calls -> Seq(Session)]
        /\ pc' = [pc EXCEPT ![c] = step]
  <2>1. PICK list, map, old, steps : list = snapshot[c] /\ map = sessions /\ old = aged /\ steps = pc
    OBVIOUS
  <2>2. /\ list \in Seq(Session) /\ map \in Seq(Session) /\ steps \in [Calls -> Steps]
        /\ ReapRound(c, list, map, old, steps) /\ Session = ToSet(map) \cup closed
    BY <1>1, <1>2, <2>1 DEF PoolTypes
  <2> QED
    BY <1>1, <2>1, <2>2, ReapRoundFacts
<1>4. /\ pc' \in [Calls -> Steps] /\ pc'[c] = step /\ \A d \in Calls : d # c => pc'[d] = pc[d]
  BY <1>1, <1>3 DEF Steps
<1>5. PoolTypes'
  BY <1>1, <1>2, <1>3, <1>4 DEF PoolTypes, Session
<1>6. BusyIsUsed' /\ WaitersHaveWaker' /\ HoldersInv'
  BY <1>1, <1>2, <1>4 DEF BusyIsUsed, WaitersHaveWaker, HoldersInv, Session
<1>7. NoSessionLeaks'
  BY <1>2, <1>3 DEF NoSessionLeaks, Session, Pool
<1>8. WaitingInv'
  <2>1. \A i \in 1..Len(waiters) : pc'[waiters[i]] = "waiting"
    BY <1>1, <1>2, <1>4 DEF WaitingInv
  <2> QED
    BY <1>1, <1>2, <2>1 DEF WaitingInv, Distinct
<1> QED
  BY <1>5, <1>6, <1>7, <1>8 DEF PoolInv, PoolCorrect

LEMMA AgeOrCloseKeeps ==
  ASSUME PoolInv, Age \/ ClosePool
  PROVE  PoolInv'
<1>1. /\ PoolTypes /\ BusyIsUsed /\ WaitersHaveWaker /\ NoSessionLeaks /\ HoldersInv /\ WaitingInv
      /\ created \in Nat /\ sessions \in Seq(Session) /\ waiters \in Seq(Calls)
      /\ pc \in [Calls -> Steps] /\ entry \in [Calls -> Session \cup {NoEntry}]
      /\ Session = Pool \cup closed /\ Pool = ToSet(sessions)
  BY PoolParts
<1>2. UNCHANGED <<created, busy, waiters, pc, entry, snapshot>>
  BY DEF Age, ClosePool
<1>3. /\ sessions' \in Seq(Session) /\ closed' \subseteq Session /\ aged' \subseteq Session
      /\ Session = ToSet(sessions') \cup closed'
  <2>1. CASE Age
    <3>1. PICK i \in 1..Len(sessions) : aged' = aged \cup {sessions[i]}
      BY <2>1 DEF Age
    <3> QED
      BY <1>1, <2>1, <3>1 DEF Age, PoolTypes
  <2>2. CASE ClosePool
    <3>1. sessions' = <<>> /\ closed' = closed \cup Pool /\ aged' = aged
      BY <2>2 DEF ClosePool
    <3>2. ToSet(sessions') = {} /\ sessions' \in Seq(Session)
      BY <3>1 DEF ToSet
    <3> QED
      BY <1>1, <3>1, <3>2 DEF PoolTypes
  <2> QED
    BY <2>1, <2>2
<1>4. PoolTypes'
  BY <1>1, <1>2, <1>3 DEF PoolTypes, Session
<1>5. BusyIsUsed' /\ WaitersHaveWaker' /\ HoldersInv' /\ WaitingInv'
  BY <1>1, <1>2 DEF BusyIsUsed, WaitersHaveWaker, HoldersInv, WaitingInv, Distinct, Session
<1>6. NoSessionLeaks'
  BY <1>2, <1>3 DEF NoSessionLeaks, Session, Pool
<1> QED
  BY <1>4, <1>5, <1>6 DEF PoolInv, PoolCorrect

\* However execute calls, failures, the watchdog, reaping and close meet: a busy entry has a
\* call that will free it, somebody is about to wake those who wait, and every session
\* that was created is in the map or closed (runner/common/hot-runner-pool.ts).
THEOREM PoolIsCorrect == PoolSpec => []PoolCorrect
<1>1. PoolInit => PoolInv
  BY DEF PoolInit, PoolInv, PoolCorrect, PoolTypes, BusyIsUsed, WaitersHaveWaker, NoSessionLeaks,
         HoldersInv, WaitingInv, Distinct, Session, Pool, ToSet, Steps, NoEntry
<1>2. ASSUME PoolInv, [PoolNext]_poolVars PROVE PoolInv'
  <2>1. CASE UNCHANGED poolVars
    <3>1. UNCHANGED <<created, sessions, busy, aged, closed, waiters, pc, entry, snapshot>>
      BY <2>1 DEF poolVars
    <3> QED
      BY <1>2, <3>1
      DEF PoolInv, PoolCorrect, PoolTypes, BusyIsUsed, WaitersHaveWaker, NoSessionLeaks,
          HoldersInv, WaitingInv, Distinct, Session, Pool
  <2> QED
    BY <1>2, <2>1, CallKeeps, InsertKeeps, StartKeeps, FinishKeeps, ReapOnKeeps, AgeOrCloseKeeps
    DEF PoolNext, Proceed, Acquire
<1>3. PoolInv => PoolCorrect
  BY DEF PoolInv
<1> QED
  BY <1>1, <1>2, <1>3, PTL DEF PoolSpec

-----------------------------------------------------------------------------
(* The task scheduler *)

\* A cron expression always has a period.
Written(r) == r.type = "cron" => r.value # 0

SameSchedule(r, s) == r.type = s.type /\ r.value = s.value /\ r.next = s.next

\* Once the schedule of a task has an anchor, only the run of a task, and not an
\* edit, has moved its next_run.
GridOf(t) ==
  /\ Written(row[t])
  /\ row[t].status = "unborn" => fired[t] = {}
  /\ row[t].type = "interval" /\ anchor[t] # Never =>
       /\ row[t].next # Never
       /\ row[t].value # 0 => (row[t].next - anchor[t]) % row[t].value = 0

Busy(t) == running /\ Head(queue).id = t

\* What the row of a task says is next was not run, the run in progress apart.
FiredOf(t) ==
  /\ fired[t] \subseteq 0..now
  /\ Exists(t) => row[t].next \notin
       (IF Busy(t) THEN fired[t] \ {Head(queue).row.next} ELSE fired[t])

\* A snapshot is that of a task that was created, and has the schedule of its row,
\* unless an edit came between; its next_run was not run.
SnapshotOf(s) ==
  /\ row[s.id].status # "unborn"
  /\ Written(s.row)
  /\ anchor[s.id] # Never => SameSchedule(s.row, row[s.id])

QueueInv ==
  /\ \A i, j \in 1..Len(queue) : queue[i].id = queue[j].id => i = j
  /\ \A i \in 1..Len(queue) : SnapshotOf(queue[i])
  /\ \A i \in 1..Len(queue) :
       (running => i # 1) => queue[i].row.next \notin fired[queue[i].id]

TasksInv == \A t \in Tasks : GridOf(t) /\ FiredOf(t)

SchedulerInv == SchedulerTypes /\ QueueInv /\ TasksInv

-----------------------------------------------------------------------------
(* Grids *)

\* A multiple has no remainder, and a number without one is a multiple.
LEMMA MultipleHasNoRest ==
  ASSUME NEW k \in Int, NEW v \in Nat \ {0}
  PROVE  (k * v) % v = 0
OBVIOUS

LEMMA NoRestIsMultiple ==
  ASSUME NEW a \in Int, NEW v \in Nat \ {0}, a % v = 0
  PROVE  \E k \in Int : a = k * v
<1>1. a \div v \in Int /\ a = v * (a \div v)
  OBVIOUS
<1>2. PICK k \in Int : k = a \div v
  BY <1>1
<1>3. a = k * v
  BY <1>1, <1>2
<1> QED
  BY <1>3

\* A point of the grid that is not over.
LEMMA NextOnGridFacts ==
  ASSUME now \in Nat, NEW start \in Nat, NEW step \in Nat \ {0}
  PROVE  /\ NextOnGrid(start, step) \in Nat /\ NextOnGrid(start, step) > now
         /\ \E k \in Nat : NextOnGrid(start, step) = start + k * step
<1>1. CASE start + step > now
  <2>1. NextOnGrid(start, step) = start + 1 * step
    BY <1>1 DEF NextOnGrid
  <2> QED
    BY <1>1, <2>1
<1>2. CASE ~(start + step > now)
  <2>1. PICK d \in Nat : d = now - start
    BY <1>2
  <2>2. d \div step \in Nat /\ d % step \in 0..(step - 1)
        /\ d = step * (d \div step) + (d % step)
    BY <2>1
  <2>3. PICK q \in Nat : q = d \div step
    BY <2>2
  <2>4. PICK k \in Nat : k = q + 1
    BY <2>3
  <2>5. NextOnGrid(start, step) = start + step * k
    BY <1>2, <2>1, <2>3, <2>4 DEF NextOnGrid
  <2>6. step * q \in Nat /\ step * k = step * q + step
    BY <2>3, <2>4
  <2>7. step * k > d
    BY <2>2, <2>3, <2>6
  <2>8. step * k \in Nat /\ k * step = step * k
    BY <2>4
  <2>9. start + step * k > now
    BY <2>1, <2>7, <2>8
  <2> QED
    BY <2>4, <2>5, <2>8, <2>9
<1> QED
  BY <1>1, <1>2

\* A step along the grid keeps the distance to the anchor a multiple.
LEMMA StaysOnGrid ==
  ASSUME NEW a \in Int, NEW x \in Int, NEW v \in Nat \ {0}, (x - a) % v = 0,
         NEW k \in Nat
  PROVE  ((x + k * v) - a) % v = 0
<1>1. PICK m \in Int : x - a = m * v
  BY NoRestIsMultiple
<1>2. PICK n \in Int : n = m + k
  OBVIOUS
<1>3. k * v \in Int /\ m * v \in Int /\ n * v = m * v + k * v
  BY <1>2
<1>4. (x + k * v) - a = n * v
  BY <1>1, <1>3
<1>5. (n * v) % v = 0
  BY MultipleHasNoRest
<1> QED
  BY <1>4, <1>5

\* What follows a run is not over, or nothing follows; an interval goes on from
\* where it was.
LEMMA NextRunFacts ==
  ASSUME now \in Nat, NEW r \in Rows, Written(r)
  PROVE  /\ NextRun(r) \in Times
         /\ NextRun(r) = Never \/ (NextRun(r) \in Nat /\ NextRun(r) > now)
         /\ r.type = "interval" => NextRun(r) # Never
         /\ r.type = "interval" /\ r.value # 0 /\ r.next # Never =>
              \E k \in Nat : NextRun(r) = r.next + k * r.value
<1>1. r.type \in TypeNames /\ r.value \in Nat /\ r.next \in Times
  <2>1. r.type \in TypeNames /\ r.value \in Values \cup {0} /\ r.next \in Times
    BY DEF Rows
  <2>2. Values \cup {0} \subseteq Nat
    BY TaskSchedulerAssumption
  <2>3. r.value \in Nat
    BY <2>1, <2>2
  <2> QED
    BY <2>1, <2>3
<1>2. CASE r.type = "once"
  BY <1>2 DEF NextRun, Never, Times
<1>3. CASE r.type = "cron"
  <2>1. r.value # 0
    BY <1>3 DEF Written
  <2>2. NextRun(r) = NextOnGrid(0, r.value)
    BY <1>3 DEF NextRun
  <2> QED
    BY <1>1, <1>3, <2>1, <2>2, NextOnGridFacts DEF Times, Never
<1>4. CASE r.type = "interval" /\ r.value = 0
  <2>1. NextRun(r) = now + 1
    BY <1>4 DEF NextRun
  <2> QED
    BY <1>4, <2>1 DEF Times, Never
<1>5. CASE r.type = "interval" /\ r.value # 0
  <2>1. PICK start \in Nat : start = IF r.next = Never THEN 0 ELSE r.next
    BY <1>1 DEF Times
  <2>2. NextRun(r) = NextOnGrid(start, r.value)
    BY <1>5, <2>1 DEF NextRun
  <2>3. PICK v \in Nat \ {0} : v = r.value
    BY <1>1, <1>5
  <2>4. NextRun(r) \in Nat /\ NextRun(r) > now
    BY <2>2, <2>3, NextOnGridFacts
  <2>5. \E k \in Nat : NextRun(r) = start + k * v
    <3>1. /\ now \in Nat
          /\ NextRun(r) = NextOnGrid(start, v)
      BY <2>2, <2>3
    <3>2. \E k \in Nat : NextOnGrid(start, v) = start + k * v
      BY <3>1, NextOnGridFacts
    <3> QED
      BY <3>1, <3>2
  <2>6. r.next # Never => start = r.next
    BY <2>1
  <2> QED
    BY <1>5, <2>3, <2>4, <2>5, <2>6 DEF Times, Never
<1> QED
  BY <1>1, <1>2, <1>3, <1>4, <1>5 DEF TypeNames

LEMMA FirstRunFacts ==
  ASSUME now \in Nat, NEW type \in Types, NEW value \in Values
  PROVE  /\ FirstRun(type, value) \in Nat
         /\ value \in Nat \ {0} /\ type \in TypeNames
<1>1. value \in Nat \ {0} /\ type \in TypeNames
  BY TaskSchedulerAssumption
<1>2. NextOnGrid(0, value) \in Nat
  BY <1>1, NextOnGridFacts
<1> QED
  BY <1>1, <1>2 DEF FirstRun, TypeNames

-----------------------------------------------------------------------------
(* The queue *)

LEMMA SchedulerParts ==
  ASSUME SchedulerInv
  PROVE  /\ now \in Nat /\ Len(queue) \in Nat /\ row \in [Tasks -> Rows]
         /\ queue \in Seq(Snapshots) /\ fired \in [Tasks -> SUBSET Times]
         /\ anchor \in [Tasks -> Times] /\ running \in BOOLEAN
         /\ \A i \in 1..Len(queue) :
              /\ queue[i] \in Snapshots /\ queue[i].id \in Tasks
              /\ queue[i].row \in Rows
<1>1. /\ now \in Nat /\ row \in [Tasks -> Rows] /\ queue \in Seq(Snapshots)
      /\ fired \in [Tasks -> SUBSET Times] /\ anchor \in [Tasks -> Times]
      /\ running \in BOOLEAN
  BY DEF SchedulerInv, SchedulerTypes
<1>2. Len(queue) \in Nat /\ \A i \in 1..Len(queue) : queue[i] \in Snapshots
  BY <1>1
<1>3. \A s \in Snapshots : s.id \in Tasks /\ s.row \in Rows
  BY DEF Snapshots
<1> QED
  BY <1>1, <1>2, <1>3

\* Snapshots of tasks the queue does not know join it.
LEMMA JoinKeeps ==
  ASSUME SchedulerInv, NEW new \in Seq(Snapshots),
         \A i \in 1..Len(new) : /\ Exists(new[i].id) /\ ~InQueue(new[i].id)
                                /\ new[i].row = row[new[i].id],
         \A i, j \in 1..Len(new) : new[i].id = new[j].id => i = j,
         queue' = queue \o new, now' = now, row' = row, running' = running,
         groupRegistered' = groupRegistered, anchor' = anchor, fired' = fired
  PROVE  SchedulerInv'
<1>1. /\ now \in Nat /\ Len(queue) \in Nat /\ row \in [Tasks -> Rows]
      /\ queue \in Seq(Snapshots)
      /\ \A i \in 1..Len(queue) : queue[i] \in Snapshots /\ queue[i].id \in Tasks
  BY SchedulerParts
<1>2. /\ queue' \in Seq(Snapshots) /\ Len(queue') = Len(queue) + Len(new)
      /\ Len(new) \in Nat /\ Len(queue') \in Nat
      /\ \A i \in 1..Len(queue) : queue'[i] = queue[i]
  BY <1>1
<1>3. \A i \in 1..Len(queue') : i \notin 1..Len(queue) =>
        /\ i - Len(queue) \in 1..Len(new)
        /\ queue'[i] = new[i - Len(queue)]
  BY <1>1, <1>2
<1>4. \A i \in 1..Len(new) : new[i] \in Snapshots /\ new[i].id \in Tasks
  <2>1. \A i \in 1..Len(new) : new[i] \in Snapshots
    OBVIOUS
  <2>2. \A s \in Snapshots : s.id \in Tasks
    BY DEF Snapshots
  <2> QED
    BY <2>1, <2>2
<1>5. running => 1 \in 1..Len(queue)
  BY <1>1 DEF SchedulerInv, SchedulerTypes
<1>6. ASSUME NEW i \in 1..Len(new), running
      PROVE  ~Busy(new[i].id)
  <2>1. queue[1] = Head(queue)
    BY <1>1, <1>5, <1>6
  <2>2. queue[1].id # new[i].id
    BY <1>5, <1>6 DEF InQueue
  <2> QED
    BY <2>1, <2>2 DEF Busy
<1>7. running => Head(queue') = Head(queue)
  BY <1>1, <1>2, <1>5
<1>8. SchedulerTypes'
  BY <1>1, <1>2, <1>5 DEF SchedulerInv, SchedulerTypes
<1>9. TasksInv'
  <2>1. \A t \in Tasks : Busy(t)' <=> Busy(t)
    BY <1>7 DEF Busy
  <2>2. \A t \in Tasks : running => Head(queue').row = Head(queue).row
    BY <1>7
  <2>3. \A t \in Tasks : GridOf(t) /\ FiredOf(t)
    BY DEF SchedulerInv, TasksInv
  <2>4. ASSUME NEW t \in Tasks
        PROVE  GridOf(t)' /\ FiredOf(t)'
    <3>1. GridOf(t)'
      BY <2>3 DEF GridOf
    <3>2. FiredOf(t) /\ (Busy(t)' <=> Busy(t)) /\ (Busy(t) => running)
      BY <2>1, <2>3 DEF Busy
    <3>3. CASE Busy(t)
      <4>1. Head(queue').row.next = Head(queue).row.next
        BY <3>2, <3>3, <2>2
      <4> QED
        BY <3>1, <3>2, <3>3, <4>1 DEF FiredOf, Exists
    <3>4. CASE ~Busy(t)
      BY <3>1, <3>2, <3>4 DEF FiredOf, Exists
    <3> QED
      BY <3>1, <3>3, <3>4
  <2> QED
    BY <2>4 DEF TasksInv
<1>10. \A i, j \in 1..Len(queue') : queue'[i].id = queue'[j].id => i = j
  <2>1. \A i, j \in 1..Len(queue) : queue[i].id = queue[j].id => i = j
    BY DEF SchedulerInv, QueueInv
  <2>2. \A i \in 1..Len(queue), j \in 1..Len(new) : queue[i].id # new[j].id
    BY DEF InQueue
  <2>3. ASSUME NEW i \in 1..Len(queue'), NEW j \in 1..Len(queue'),
               queue'[i].id = queue'[j].id
        PROVE  i = j
    <3>1. CASE i \in 1..Len(queue) /\ j \in 1..Len(queue)
      BY <3>1, <2>1, <2>3, <1>2
    <3>2. CASE i \in 1..Len(queue) /\ j \notin 1..Len(queue)
      BY <3>2, <2>2, <2>3, <1>2, <1>3
    <3>3. CASE i \notin 1..Len(queue) /\ j \in 1..Len(queue)
      BY <3>3, <2>2, <2>3, <1>2, <1>3
    <3>4. CASE i \notin 1..Len(queue) /\ j \notin 1..Len(queue)
      <4>1. i - Len(queue) = j - Len(queue)
        BY <3>4, <2>3, <1>3, SMTT(30)
      <4> QED
        BY <4>1, <1>1, <1>2
    <3> QED
      BY <3>1, <3>2, <3>3, <3>4
  <2> QED
    BY <2>3
<1>11. ASSUME NEW i \in 1..Len(queue')
       PROVE  /\ SnapshotOf(queue[i])'
              /\ (running => i # 1) => queue'[i].row.next \notin fired[queue'[i].id]
  <2>1. CASE i \in 1..Len(queue)
    BY <2>1, <1>2 DEF SchedulerInv, QueueInv, SnapshotOf
  <2>2. CASE i \notin 1..Len(queue)
    <3>1. PICK k \in 1..Len(new) : queue'[i] = new[k]
      BY <1>3, <2>2
    <3>2. /\ new[k].id \in Tasks /\ Exists(new[k].id)
          /\ new[k].row = row[new[k].id] /\ ~Busy(new[k].id)
      BY <1>4, <1>6 DEF Busy
    <3>3. PICK t \in Tasks : t = new[k].id
      BY <3>2
    <3>4. GridOf(t) /\ FiredOf(t)
      BY DEF SchedulerInv, TasksInv
    <3>5. row[t].status # "unborn"
      BY <3>2, <3>3 DEF Exists
    <3>6. SnapshotOf(queue[i])'
      BY <3>1, <3>2, <3>3, <3>4, <3>5 DEF SnapshotOf, GridOf, SameSchedule
    <3>7. new[k].row.next \notin fired[t]
      BY <3>2, <3>3, <3>4 DEF FiredOf
    <3> QED
      BY <3>1, <3>3, <3>6, <3>7
  <2> QED
    BY <2>1, <2>2
<1>12. QueueInv'
  BY <1>10, <1>11 DEF QueueInv
<1> QED
  BY <1>8, <1>9, <1>12 DEF SchedulerInv

\* The oldest snapshot leaves the queue; only its task may have changed, and what it
\* now says is next was not run.
LEMMA LeaveKeeps ==
  ASSUME SchedulerInv, queue # <<>>, NEW h \in Tasks, h = Head(queue).id,
         queue' = Tail(queue), running' = FALSE, now' = now,
         groupRegistered' \in BOOLEAN, anchor' = anchor,
         row' \in [Tasks -> Rows], fired' \in [Tasks -> SUBSET Times],
         \A t \in Tasks : t # h => row'[t] = row[t] /\ fired'[t] = fired[t],
         GridOf(h)',
         fired'[h] \subseteq 0..now,
         Exists(h)' => row'[h].next \notin fired'[h],
         row'[h].status # "unborn"
  PROVE  SchedulerInv'
<1>1. /\ now \in Nat /\ Len(queue) \in Nat /\ row \in [Tasks -> Rows]
      /\ queue \in Seq(Snapshots) /\ anchor \in [Tasks -> Times]
      /\ \A i \in 1..Len(queue) : queue[i] \in Snapshots /\ queue[i].id \in Tasks
  BY SchedulerParts
<1>2. /\ queue' \in Seq(Snapshots) /\ Len(queue') = Len(queue) - 1
      /\ Len(queue') \in Nat /\ 1 \in 1..Len(queue) /\ Head(queue) = queue[1]
      /\ \A i \in 1..Len(queue') : i + 1 \in 1..Len(queue) /\ queue'[i] = queue[i + 1]
  BY <1>1
<1>4. \A i, j \in 1..Len(queue) : queue[i].id = queue[j].id => i = j
  BY DEF SchedulerInv, QueueInv
<1>5. \A i \in 1..Len(queue') : queue'[i].id # h /\ queue'[i].id \in Tasks
  <2>1. ASSUME NEW i \in 1..Len(queue'), queue'[i].id = h
        PROVE  FALSE
    <3>1. queue[i + 1].id = queue[1].id
      BY <1>2, <2>1
    <3>2. i + 1 = 1
      BY <1>2, <1>4, <3>1
    <3> QED
      BY <3>2, <2>1
  <2> QED
    BY <2>1, <1>1, <1>2
<1>6. SchedulerTypes'
  BY <1>1, <1>2 DEF SchedulerInv, SchedulerTypes
<1>7. ASSUME NEW t \in Tasks
      PROVE  GridOf(t)' /\ FiredOf(t)'
  <2>1. GridOf(t) /\ FiredOf(t)
    BY DEF SchedulerInv, TasksInv
  <2>2. ~Busy(t)'
    BY DEF Busy
  <2>3. CASE t = h
    <3>1. GridOf(t)'
      BY <2>3
    <3>2. fired'[t] \subseteq 0..now /\ (Exists(t)' => row'[t].next \notin fired'[t])
      BY <2>3
    <3>3. FiredOf(t)'
      BY <2>2, <3>2 DEF FiredOf
    <3> QED
      BY <3>1, <3>3
  <2>4. CASE t # h
    <3>1. row'[t] = row[t] /\ fired'[t] = fired[t] /\ ~Busy(t)
      BY <2>4 DEF Busy
    <3>2. GridOf(t)'
      BY <2>1, <3>1 DEF GridOf
    <3>3. FiredOf(t)'
      BY <2>1, <2>2, <3>1 DEF FiredOf, Exists
    <3> QED
      BY <3>2, <3>3
  <2> QED
    BY <2>3, <2>4
<1>8. \A i, j \in 1..Len(queue') : queue'[i].id = queue'[j].id => i = j
  <2>1. ASSUME NEW i \in 1..Len(queue'), NEW j \in 1..Len(queue'),
               queue'[i].id = queue'[j].id
        PROVE  i = j
    <3>1. i + 1 = j + 1
      BY <1>2, <1>4, <2>1
    <3> QED
      BY <3>1, <1>2
  <2> QED
    BY <2>1
<1>9. ASSUME NEW i \in 1..Len(queue')
      PROVE  /\ SnapshotOf(queue[i])'
             /\ queue'[i].row.next \notin fired'[queue'[i].id]
  <2>1. PICK k \in 1..Len(queue) : k = i + 1
    BY <1>2
  <2>2. PICK t \in Tasks : t = queue[k].id
    BY <1>1
  <2>3. queue'[i] = queue[k] /\ k # 1 /\ t # h
    BY <1>2, <1>5, <2>1, <2>2
  <2>4. row'[t] = row[t] /\ fired'[t] = fired[t] /\ anchor'[t] = anchor[t]
    BY <2>3
  <2>5. SnapshotOf(queue[k]) /\ queue[k].row.next \notin fired[t]
    BY <2>2, <2>3 DEF SchedulerInv, QueueInv
  <2> QED
    BY <2>2, <2>3, <2>4, <2>5 DEF SnapshotOf
<1>10. QueueInv'
  BY <1>8, <1>9 DEF QueueInv
<1> QED
  BY <1>6, <1>7, <1>10 DEF SchedulerInv, TasksInv

\* The row of one task changes: what its snapshot says is next was not run, and, if
\* its schedule has an anchor, is what its row says.
LEMMA RowKeeps ==
  ASSUME SchedulerInv, NEW t \in Tasks,
         queue' = queue, running' = running, now' = now, groupRegistered' = groupRegistered,
         row' \in [Tasks -> Rows], fired' \in [Tasks -> SUBSET Times],
         anchor' \in [Tasks -> Times],
         \A u \in Tasks : u # t => /\ row'[u] = row[u] /\ fired'[u] = fired[u]
                                   /\ anchor'[u] = anchor[u],
         GridOf(t)', row'[t].status # "unborn",
         \/ fired'[t] = {}
         \/ fired'[t] = fired[t] /\ row'[t].next = row[t].next /\ Exists(t),
         InQueue(t) => \/ anchor'[t] = Never
                       \/ anchor'[t] = anchor[t] /\ SameSchedule(row[t], row'[t])
  PROVE  SchedulerInv'
<1>1. /\ now \in Nat /\ Len(queue) \in Nat /\ row \in [Tasks -> Rows]
      /\ queue \in Seq(Snapshots) /\ anchor \in [Tasks -> Times]
      /\ \A i \in 1..Len(queue) : queue[i] \in Snapshots /\ queue[i].id \in Tasks
  BY SchedulerParts
<1>2. SchedulerTypes'
  BY <1>1 DEF SchedulerInv, SchedulerTypes
<1>3. \A u \in Tasks : GridOf(u) /\ FiredOf(u)
  BY DEF SchedulerInv, TasksInv
<1>4. \A u \in Tasks : Busy(u)' <=> Busy(u)
  BY DEF Busy
<1>5. ASSUME NEW u \in Tasks
      PROVE  GridOf(u)' /\ FiredOf(u)'
  <2>1. CASE u # t
    <3>1. GridOf(u)'
      BY <1>3, <2>1 DEF GridOf
    <3>2. FiredOf(u)'
      BY <1>3, <1>4, <2>1 DEF FiredOf, Exists
    <3> QED
      BY <3>1, <3>2
  <2>2. CASE u = t /\ fired'[t] = {}
    <3>1. FiredOf(t)'
      BY <2>2 DEF FiredOf
    <3> QED
      BY <2>2, <3>1
  <2>3. CASE u = t /\ fired'[t] = fired[t] /\ row'[t].next = row[t].next /\ Exists(t)
    <3>1. FiredOf(t)'
      BY <1>3, <1>4, <2>3 DEF FiredOf
    <3> QED
      BY <2>3, <3>1
  <2> QED
    BY <2>1, <2>2, <2>3
<1>6. ASSUME NEW i \in 1..Len(queue)
      PROVE  /\ SnapshotOf(queue[i])'
             /\ (running => i # 1) => queue[i].row.next \notin fired'[queue[i].id]
  <2>1. PICK u \in Tasks : u = queue[i].id
    BY <1>1
  <2>2. /\ SnapshotOf(queue[i])
        /\ (running => i # 1) => queue[i].row.next \notin fired[u]
    BY <2>1 DEF SchedulerInv, QueueInv
  <2>3. CASE u # t
    <3>1. row'[u] = row[u] /\ fired'[u] = fired[u] /\ anchor'[u] = anchor[u]
      BY <2>3
    <3> QED
      BY <2>1, <2>2, <3>1 DEF SnapshotOf
  <2>4. CASE u = t
    <3>1. InQueue(t)
      BY <2>1, <2>4 DEF InQueue
    <3>2. fired'[t] \subseteq fired[t]
      OBVIOUS
    <3>3. anchor'[t] # Never => SameSchedule(queue[i].row, row'[t])
      BY <2>1, <2>2, <2>4, <3>1 DEF SnapshotOf, SameSchedule
    <3>4. SnapshotOf(queue[i])'
      BY <2>1, <2>2, <2>4, <3>3 DEF SnapshotOf
    <3> QED
      BY <2>1, <2>2, <2>4, <3>2, <3>4
  <2> QED
    BY <2>3, <2>4
<1>7. QueueInv'
  BY <1>6 DEF QueueInv, SchedulerInv
<1> QED
  BY <1>2, <1>5, <1>7 DEF SchedulerInv, TasksInv

-----------------------------------------------------------------------------
(* Steps *)

LEMMA TickKeeps == SchedulerInv /\ Tick => SchedulerInv'
<1> SUFFICES ASSUME SchedulerInv, Tick
             PROVE  SchedulerInv'
  OBVIOUS
<1> USE DEF Tick, history
<1>1. now \in Nat /\ now' = now + 1 /\ 0..now \subseteq 0..now'
  BY SchedulerParts
<1>2. SchedulerTypes'
  BY <1>1 DEF SchedulerInv, SchedulerTypes
<1>3. QueueInv'
  BY DEF SchedulerInv, QueueInv, SnapshotOf
<1>4. ASSUME NEW t \in Tasks
      PROVE  GridOf(t)' /\ FiredOf(t)'
  <2>1. GridOf(t) /\ FiredOf(t)
    BY DEF SchedulerInv, TasksInv
  <2> QED
    BY <1>1, <2>1 DEF GridOf, FiredOf, Busy, Exists
<1> QED
  BY <1>2, <1>3, <1>4 DEF SchedulerInv, TasksInv

LEMMA PollKeeps == SchedulerInv /\ Poll => SchedulerInv'
<1> SUFFICES ASSUME SchedulerInv, Poll
             PROVE  SchedulerInv'
  OBVIOUS
<1> DEFINE D == {t \in Tasks : Due(t) /\ ~InQueue(t)}
           N == Cardinality(D)
<1>1. N \in Nat
  BY TaskSchedulerAssumption, FS_Subset, FS_CardinalityType
<1>2. PICK due \in [1..N -> D] :
        /\ \A i, j \in DOMAIN due : i # j => due[i] # due[j]
        /\ queue' = queue \o [i \in DOMAIN due |-> Snapshot(due[i], "poll")]
  BY DEF Poll
<1>3. PICK new : new = [i \in DOMAIN due |-> Snapshot(due[i], "poll")]
  OBVIOUS
<1> HIDE DEF N
<1>4. DOMAIN due = 1..N /\ \A i \in 1..N : due[i] \in Tasks /\ Due(due[i]) /\ ~InQueue(due[i])
  BY <1>2
<1> HIDE DEF D
<1>5. ASSUME NEW t \in Tasks
      PROVE  Snapshot(t, "poll") \in Snapshots
  BY SchedulerParts DEF Snapshot, Snapshots
<1>6. new \in [1..N -> Snapshots]
  BY <1>3, <1>4, <1>5
<1>7. new \in Seq(Snapshots) /\ Len(new) = N
  BY <1>1, <1>6
<1>8. \A i \in 1..Len(new) : /\ Exists(new[i].id) /\ ~InQueue(new[i].id)
                             /\ new[i].row = row[new[i].id]
  BY <1>3, <1>4, <1>7 DEF Snapshot, Due, Exists
<1>9. \A i, j \in 1..Len(new) : new[i].id = new[j].id => i = j
  BY <1>2, <1>3, <1>4, <1>7 DEF Snapshot
<1>10. queue' = queue \o new
  BY <1>2, <1>3
<1> QED
  BY <1>7, <1>8, <1>9, <1>10, JoinKeeps DEF Poll, history

LEMMA RunTaskNowKeeps ==
  ASSUME SchedulerInv, NEW t \in Tasks, RunTaskNow(t)
  PROVE  SchedulerInv'
<1>1. PICK new : new = <<Snapshot(t, "now")>>
  OBVIOUS
<1>2. Snapshot(t, "now") \in Snapshots
  BY SchedulerParts DEF Snapshot, Snapshots
<1>3. /\ new \in Seq(Snapshots) /\ Len(new) = 1 /\ new[1] = Snapshot(t, "now")
      /\ queue' = queue \o new
  BY <1>1, <1>2, SchedulerParts DEF RunTaskNow
<1>4. \A i \in 1..Len(new) : i = 1 /\ new[i].id = t /\ new[i].row = row[t]
  BY <1>3 DEF Snapshot
<1> QED
  BY <1>3, <1>4, JoinKeeps DEF RunTaskNow, history

LEMMA TaskStartsKeeps == SchedulerInv /\ TaskStarts => SchedulerInv'
<1> SUFFICES ASSUME SchedulerInv, TaskStarts
             PROVE  SchedulerInv'
  OBVIOUS
<1> USE DEF TaskStarts
<1>1. /\ now \in Nat /\ Len(queue) \in Nat /\ row \in [Tasks -> Rows]
      /\ queue \in Seq(Snapshots) /\ fired \in [Tasks -> SUBSET Times]
      /\ \A i \in 1..Len(queue) : queue[i] \in Snapshots /\ queue[i].id \in Tasks
  BY SchedulerParts
<1>2. Len(queue) > 0 /\ Head(queue) = queue[1] /\ ~running
  BY <1>1
<1>3. PICK h \in Tasks : h = Head(queue).id
  BY <1>1, <1>2
<1>4. PICK n : n = Head(queue).row.next
  OBVIOUS
<1>5. /\ fired' = [fired EXCEPT ![h] = fired[h] \cup ({n} \cap 0..now)]
      /\ running' = TRUE /\ now' = now /\ row' = row /\ queue' = queue
      /\ groupRegistered' = groupRegistered /\ anchor' = anchor
  BY <1>3, <1>4 DEF Slot
<1>6. fired' \in [Tasks -> SUBSET Times]
  BY <1>1, <1>5 DEF Times
<1>7. SchedulerTypes'
  BY <1>5, <1>6 DEF SchedulerInv, SchedulerTypes
<1>8. ASSUME NEW t \in Tasks
      PROVE  GridOf(t)' /\ FiredOf(t)'
  <2>1. GridOf(t) /\ FiredOf(t) /\ ~Busy(t)
    BY <1>2 DEF SchedulerInv, TasksInv, Busy
  <2>2. CASE t = h
    <3>2. row[t].status # "unborn"
      BY <1>1, <1>2, <1>3, <2>2 DEF SchedulerInv, QueueInv, SnapshotOf
    <3>3. GridOf(t)'
      BY <1>5, <2>1, <3>2 DEF GridOf
    <3>4. Busy(t)' /\ Head(queue').row.next = n
      BY <1>3, <1>4, <1>5, <2>2 DEF Busy
    <3>5. fired'[t] = fired[t] \cup ({n} \cap 0..now)
      BY <1>1, <1>5, <2>2
    <3>6. FiredOf(t)'
      BY <1>5, <2>1, <3>4, <3>5 DEF FiredOf, Exists
    <3> QED
      BY <3>3, <3>6
  <2>3. CASE t # h
    <3>1. ~Busy(t)' /\ fired'[t] = fired[t]
      BY <1>1, <1>3, <1>5, <2>3 DEF Busy
    <3>2. GridOf(t)'
      BY <1>5, <2>1, <3>1 DEF GridOf
    <3>3. FiredOf(t)'
      BY <1>5, <2>1, <3>1 DEF FiredOf, Exists
    <3> QED
      BY <3>2, <3>3
  <2> QED
    BY <2>2, <2>3
<1>9. ASSUME NEW i \in 1..Len(queue), i # 1
      PROVE  queue[i].row.next \notin fired'[queue[i].id]
  <2>1. PICK t \in Tasks : t = queue[i].id
    BY <1>1
  <2>2. t # h /\ queue[i].row.next \notin fired[t]
    BY <1>1, <1>2, <1>3, <1>9, <2>1 DEF SchedulerInv, QueueInv
  <2> QED
    BY <1>1, <1>5, <2>1, <2>2
<1>10. \A i \in 1..Len(queue) : SnapshotOf(queue[i])'
  BY <1>5 DEF SchedulerInv, QueueInv, SnapshotOf
<1>11. QueueInv'
  BY <1>5, <1>9, <1>10 DEF QueueInv, SchedulerInv
<1> QED
  BY <1>7, <1>8, <1>11 DEF SchedulerInv, TasksInv

\* What a step that takes the oldest snapshot from the queue finds.
LEMMA HeadFacts ==
  ASSUME SchedulerInv, queue # <<>>
  PROVE  /\ Head(queue).id \in Tasks /\ Head(queue).row \in Rows
         /\ SnapshotOf(Head(queue))
         /\ ~running => Head(queue).row.next \notin fired[Head(queue).id]
<1>1. /\ Len(queue) \in Nat /\ queue \in Seq(Snapshots)
      /\ \A i \in 1..Len(queue) : queue[i].id \in Tasks /\ queue[i].row \in Rows
  BY SchedulerParts
<1>2. 1 \in 1..Len(queue) /\ Head(queue) = queue[1]
  BY <1>1
<1> QED
  BY <1>1, <1>2 DEF SchedulerInv, QueueInv

LEMMA StartInvalidKeeps == SchedulerInv /\ StartInvalid => SchedulerInv'
<1> SUFFICES ASSUME SchedulerInv, StartInvalid
             PROVE  SchedulerInv'
  OBVIOUS
<1>1. /\ row \in [Tasks -> Rows] /\ fired \in [Tasks -> SUBSET Times]
      /\ now \in Nat /\ queue # <<>> /\ ~running
  BY SchedulerParts DEF StartInvalid
<1>2. PICK h \in Tasks : h = Head(queue).id
  BY <1>1, HeadFacts
<1>3. row' = IF Exists(h) THEN [row EXCEPT ![h].status = "paused"] ELSE row
  BY <1>2 DEF StartInvalid
<1>4. row[h] \in Rows /\ [row[h] EXCEPT !.status = "paused"] \in Rows
  BY <1>1 DEF Rows
<1>5. /\ row' \in [Tasks -> Rows] /\ \A t \in Tasks : t # h => row'[t] = row[t]
      /\ row'[h] = row[h] \/ row'[h] = [row[h] EXCEPT !.status = "paused"]
      /\ Exists(h)' <=> Exists(h)
      /\ row'[h].status = "unborn" <=> row[h].status = "unborn"
      /\ SameSchedule(row'[h], row[h])
  BY <1>1, <1>3, <1>4 DEF Exists, Rows, SameSchedule
<1>6. fired' = fired /\ anchor' = anchor
  BY DEF StartInvalid, history
<1>7. GridOf(h) /\ FiredOf(h) /\ ~Busy(h) /\ row[h].status # "unborn"
  BY <1>1, <1>2, HeadFacts DEF SchedulerInv, TasksInv, Busy, SnapshotOf
<1>8. GridOf(h)'
  BY <1>5, <1>6, <1>7 DEF GridOf, SameSchedule, Written
<1>9. fired'[h] \subseteq 0..now /\ (Exists(h)' => row'[h].next \notin fired'[h])
  BY <1>5, <1>6, <1>7 DEF FiredOf, SameSchedule
<1>10. /\ queue' = Tail(queue) /\ running' = FALSE /\ now' = now
       /\ groupRegistered' \in BOOLEAN
  BY <1>1 DEF StartInvalid, SchedulerInv, SchedulerTypes
<1> QED
  BY <1>1, <1>2, <1>5, <1>6, <1>7, <1>8, <1>9, <1>10, LeaveKeeps

\* The head of the queue leaves and the table stays as it is.
LEMMA DropKeeps ==
  ASSUME SchedulerInv, queue # <<>>, queue' = Tail(queue), running' = FALSE, Unfire,
         now' = now, row' = row, groupRegistered' = groupRegistered, anchor' = anchor
  PROVE  SchedulerInv'
<1>1. /\ row \in [Tasks -> Rows] /\ fired \in [Tasks -> SUBSET Times] /\ now \in Nat
  BY SchedulerParts
<1>2. PICK h \in Tasks : h = Head(queue).id
  BY HeadFacts
<1>3. PICK n : n = Head(queue).row.next
  OBVIOUS
<1>4. fired' = IF running THEN [fired EXCEPT ![h] = fired[h] \ {n}] ELSE fired
  BY <1>2, <1>3 DEF Unfire
<1>5. /\ GridOf(h) /\ FiredOf(h) /\ (Busy(h) <=> running)
      /\ row[h].status # "unborn"
  BY <1>1, <1>2, HeadFacts DEF SchedulerInv, TasksInv, Busy, SnapshotOf
<1>6. /\ fired' \in [Tasks -> SUBSET Times]
      /\ \A t \in Tasks : t # h => fired'[t] = fired[t]
      /\ fired'[h] = IF running THEN fired[h] \ {n} ELSE fired[h]
  BY <1>1, <1>4
<1>7. GridOf(h)'
  BY <1>5 DEF GridOf
<1>8. fired'[h] \subseteq 0..now /\ (Exists(h)' => row'[h].next \notin fired'[h])
  BY <1>3, <1>5, <1>6 DEF FiredOf, Exists
<1>9. groupRegistered' \in BOOLEAN
  BY DEF SchedulerInv, SchedulerTypes
<1> QED
  BY <1>1, <1>2, <1>5, <1>6, <1>7, <1>8, <1>9, LeaveKeeps

LEMMA TaskFinishesKeeps == SchedulerInv /\ TaskFinishes => SchedulerInv'
<1> SUFFICES ASSUME SchedulerInv, TaskFinishes
             PROVE  SchedulerInv'
  OBVIOUS
<1>1. /\ row \in [Tasks -> Rows] /\ fired \in [Tasks -> SUBSET Times]
      /\ anchor \in [Tasks -> Times]
      /\ now \in Nat /\ queue # <<>> /\ running
  BY SchedulerParts DEF TaskFinishes, SchedulerInv, SchedulerTypes
<1>2. PICK h \in Tasks : h = Head(queue).id
  BY <1>1, HeadFacts
<1>3. PICK r \in Rows : r = Head(queue).row
  BY <1>1, HeadFacts
<1>4. /\ Written(r) /\ row[h].status # "unborn"
      /\ anchor[h] # Never => SameSchedule(r, row[h])
  BY <1>1, <1>2, <1>3, HeadFacts DEF SnapshotOf
<1>5. PICK n \in Times : n = NextRun(r)
  BY <1>1, <1>4, NextRunFacts
<1>6. row' = IF Exists(h) THEN [row EXCEPT ![h] = AfterRun(row[h], n)] ELSE row
  BY <1>2, <1>3, <1>5 DEF TaskFinishes
<1>7. row[h] \in Rows /\ AfterRun(row[h], n) \in Rows
      /\ AfterRun(row[h], n).next = n
      /\ AfterRun(row[h], n).type = row[h].type
      /\ AfterRun(row[h], n).value = row[h].value
      /\ AfterRun(row[h], n).status \in {row[h].status, "completed"}
  BY <1>1 DEF Rows, AfterRun
<1>8. /\ row' \in [Tasks -> Rows] /\ \A t \in Tasks : t # h => row'[t] = row[t]
      /\ row'[h].type = row[h].type /\ row'[h].value = row[h].value
      /\ row'[h].next = IF Exists(h) THEN n ELSE row[h].next
      /\ row'[h].status # "unborn"
      /\ Exists(h)' <=> Exists(h)
  BY <1>1, <1>4, <1>6, <1>7 DEF Exists
<1>9. fired' = fired /\ anchor' = anchor
  BY DEF TaskFinishes, history
<1>10. GridOf(h) /\ FiredOf(h)
  BY DEF SchedulerInv, TasksInv
<1>11. GridOf(h)'
  <2>1. CASE ~Exists(h)
    BY <1>8, <1>9, <1>10, <1>4, <2>1 DEF GridOf, Written
  <2>2. CASE Exists(h) /\ row[h].type = "interval" /\ anchor[h] # Never
    <3>1. /\ r.type = "interval" /\ r.value = row[h].value /\ r.next = row[h].next
          /\ r.next # Never
      BY <1>4, <1>10, <2>2 DEF GridOf, SameSchedule
    <3>2. n # Never
      BY <1>1, <1>4, <1>5, <3>1, NextRunFacts
    <3>3. ASSUME r.value # 0
          PROVE  (n - anchor[h]) % r.value = 0
      <4>1. PICK k \in Nat : n = r.next + k * r.value
        BY <1>1, <1>4, <1>5, <3>1, <3>3, NextRunFacts
      <4>2. r.value \in Values \cup {0} /\ r.next \in Times /\ anchor[h] \in Times
        BY <1>1 DEF Rows
      <4>3. Values \subseteq Nat \ {0} /\ Times \subseteq Int
        BY TaskSchedulerAssumption DEF Times, Never
      <4>4. PICK v \in Nat \ {0}, x \in Int, a \in Int :
              v = r.value /\ x = r.next /\ a = anchor[h]
        BY <3>3, <4>2, <4>3
      <4>5. (x - a) % v = 0
        BY <1>10, <2>2, <3>1, <3>3, <4>4 DEF GridOf
      <4>6. ((x + k * v) - a) % v = 0
        BY <4>5, StaysOnGrid
      <4> QED
        BY <4>1, <4>4, <4>6
    <3>4. GridOf(h)'
      BY <1>8, <1>9, <1>10, <2>2, <3>1, <3>2, <3>3 DEF GridOf, Written
    <3> QED
      BY <3>4
  <2>3. CASE ~(row[h].type = "interval" /\ anchor[h] # Never)
    BY <1>8, <1>9, <1>10, <2>3 DEF GridOf, Written
  <2> QED
    BY <2>1, <2>2, <2>3
<1>12. fired'[h] \subseteq 0..now
  BY <1>9, <1>10 DEF FiredOf
<1>13. n \notin 0..now
  BY <1>1, <1>4, <1>5, NextRunFacts DEF Never
<1>14. Exists(h)' => row'[h].next \notin fired'[h]
  BY <1>8, <1>12, <1>13
<1>15. /\ queue' = Tail(queue) /\ running' = FALSE /\ now' = now
       /\ groupRegistered' \in BOOLEAN
  BY DEF TaskFinishes, SchedulerInv, SchedulerTypes
<1> QED
  BY <1>1, <1>2, <1>8, <1>9, <1>11, <1>12, <1>14, <1>15, LeaveKeeps

LEMMA CrashKeeps == SchedulerInv /\ CrashAndRestart => SchedulerInv'
<1> SUFFICES ASSUME SchedulerInv, CrashAndRestart
             PROVE  SchedulerInv'
  OBVIOUS
<1> USE DEF CrashAndRestart
<1>1. /\ row \in [Tasks -> Rows] /\ fired \in [Tasks -> SUBSET Times] /\ now \in Nat
      /\ running => queue # <<>>
  BY SchedulerParts DEF SchedulerInv, SchedulerTypes
<1>2. /\ \A t \in Tasks : GridOf(t) /\ FiredOf(t)
      /\ running => Head(queue).id \in Tasks
  BY <1>1, HeadFacts DEF SchedulerInv, TasksInv
<1>3. PICK h, n : h = Head(queue).id /\ n = Head(queue).row.next
  OBVIOUS
<1>4. fired' = IF running THEN [fired EXCEPT ![h] = fired[h] \ {n}] ELSE fired
  BY <1>3 DEF Unfire
<1>5. fired' \in [Tasks -> SUBSET Times]
  BY <1>1, <1>2, <1>3, <1>4
<1>6. SchedulerTypes'
  <2>1. queue' \in Seq(Snapshots)
    OBVIOUS
  <2>2. /\ now' = now /\ row' = row /\ groupRegistered' = groupRegistered /\ anchor' = anchor
        /\ running' = FALSE
    OBVIOUS
  <2>3. SchedulerTypes
    BY DEF SchedulerInv
  <2> QED
    BY <1>5, <2>1, <2>2, <2>3 DEF SchedulerTypes
<1>7. QueueInv'
  BY DEF QueueInv
<1>8. ASSUME NEW t \in Tasks
      PROVE  GridOf(t)' /\ FiredOf(t)'
  <2>1. fired'[t] = IF Busy(t) THEN fired[t] \ {n} ELSE fired[t]
    BY <1>1, <1>2, <1>3, <1>4 DEF Busy
  <2>2. ~Busy(t)'
    BY DEF Busy
  <2>3. GridOf(t)'
    BY <1>2, <2>1 DEF GridOf
  <2>4. FiredOf(t)'
    BY <1>2, <1>3, <2>1, <2>2 DEF FiredOf, Exists
  <2> QED
    BY <2>3, <2>4
<1> QED
  BY <1>6, <1>7, <1>8 DEF SchedulerInv, TasksInv

LEMMA ScheduleKeeps ==
  ASSUME SchedulerInv, NEW t \in Tasks, NEW type \in Types, NEW value \in Values,
         Schedule(t, type, value)
  PROVE  SchedulerInv'
<1>1. /\ row \in [Tasks -> Rows] /\ fired \in [Tasks -> SUBSET Times]
      /\ anchor \in [Tasks -> Times] /\ now \in Nat
  BY SchedulerParts
<1>2. PICK n \in Nat : n = FirstRun(type, value)
  BY <1>1, FirstRunFacts
<1>3. /\ value \in Nat \ {0} /\ type \in TypeNames
  BY <1>1, FirstRunFacts
<1>4. PICK r : r = [status |-> "active", type |-> type, value |-> value, next |-> n]
  OBVIOUS
<1>5. /\ r \in Rows /\ r.status = "active" /\ r.type = type /\ r.value = value
      /\ r.next = n
  BY <1>2, <1>3, <1>4 DEF Rows, Times
<1>6. /\ row' = [row EXCEPT ![t] = r] /\ anchor' = [anchor EXCEPT ![t] = n]
      /\ queue' = queue /\ running' = running /\ now' = now /\ fired' = fired
      /\ groupRegistered' = groupRegistered /\ row[t].status = "unborn"
  BY <1>2, <1>4 DEF Schedule
<1>7. /\ row' \in [Tasks -> Rows] /\ row'[t] = r
      /\ anchor' \in [Tasks -> Times] /\ anchor'[t] = n
      /\ \A u \in Tasks : u # t => row'[u] = row[u] /\ anchor'[u] = anchor[u]
  BY <1>1, <1>2, <1>5, <1>6 DEF Times
<1>8. fired[t] = {}
  BY <1>6 DEF SchedulerInv, TasksInv, GridOf
<1>9. ~InQueue(t)
  BY <1>6 DEF InQueue, SchedulerInv, QueueInv, SnapshotOf
<1>10. GridOf(t)'
  <2>1. n # Never /\ n - n = 0
    BY <1>2 DEF Never
  <2>2. value \in Nat \ {0} => (n - n) % value = 0
    BY <2>1
  <2> QED
    BY <1>3, <1>5, <1>7, <2>1, <2>2 DEF GridOf, Written
<1> QED
  BY <1>1, <1>5, <1>6, <1>7, <1>8, <1>9, <1>10, RowKeeps

LEMMA SetStatusKeeps ==
  ASSUME SchedulerInv, NEW t \in Tasks,
         NEW status \in {"active", "paused", "deleted"}, SetStatus(t, status)
  PROVE  SchedulerInv'
<1>1. /\ row \in [Tasks -> Rows] /\ fired \in [Tasks -> SUBSET Times]
      /\ anchor \in [Tasks -> Times]
  BY SchedulerParts
<1>2. /\ row' = [row EXCEPT ![t] = [row[t] EXCEPT !.status = status]]
      /\ queue' = queue /\ running' = running /\ now' = now /\ fired' = fired
      /\ groupRegistered' = groupRegistered /\ anchor' = anchor /\ Exists(t)
  BY DEF SetStatus, history
<1>3. /\ row[t] \in Rows /\ [row[t] EXCEPT !.status = status] \in Rows
  BY <1>1 DEF Rows
<1>4. /\ row' \in [Tasks -> Rows] /\ row'[t].status = status
      /\ row'[t].type = row[t].type /\ row'[t].value = row[t].value
      /\ row'[t].next = row[t].next
      /\ \A u \in Tasks : u # t => row'[u] = row[u]
  BY <1>1, <1>2, <1>3 DEF Rows
<1>5. GridOf(t)
  BY DEF SchedulerInv, TasksInv
<1>6. GridOf(t)'
  BY <1>2, <1>4, <1>5 DEF GridOf, Written
<1> QED
  BY <1>1, <1>2, <1>4, <1>6, RowKeeps DEF SameSchedule

LEMMA UpdateTaskKeeps ==
  ASSUME SchedulerInv, NEW t \in Tasks, NEW type \in Types,
         NEW value \in Values \cup {0}, UpdateTask(t, type, value)
  PROVE  SchedulerInv'
<1>1. /\ row \in [Tasks -> Rows] /\ fired \in [Tasks -> SUBSET Times]
      /\ anchor \in [Tasks -> Times] /\ now \in Nat
  BY SchedulerParts
<1>2. PICK n : n = IF type = "once" \/ value = 0 THEN row[t].next
                   ELSE FirstRun(type, value)
  OBVIOUS
<1>3. /\ row' = [row EXCEPT ![t].type = type, ![t].value = value, ![t].next = n]
      /\ anchor' = [anchor EXCEPT ![t] = IF InQueue(t) THEN Never ELSE n]
      /\ fired' = [fired EXCEPT ![t] = {}]
      /\ queue' = queue /\ running' = running /\ now' = now
      /\ groupRegistered' = groupRegistered /\ Exists(t)
      /\ value = 0 => type = "interval"
  BY <1>2 DEF UpdateTask
<1>4. row[t] \in Rows /\ row[t].next \in Times
  BY <1>1 DEF Rows
<1>5. type \in TypeNames /\ value \in Values \cup {0} /\ n \in Times
  <2>1. type \in TypeNames
    BY TaskSchedulerAssumption
  <2>2. value # 0 => FirstRun(type, value) \in Times
    BY <1>1, FirstRunFacts DEF Times
  <2> QED
    BY <1>2, <1>4, <2>1, <2>2
<1>6. PICK r : r = [row[t] EXCEPT !.type = type, !.value = value, !.next = n]
  OBVIOUS
<1>7. /\ r \in Rows /\ r.type = type /\ r.value = value /\ r.next = n
      /\ r.status = row[t].status
  BY <1>4, <1>5, <1>6 DEF Rows
<1>8. row' = [row EXCEPT ![t] = r]
  BY <1>1, <1>3, <1>6
<1>9. /\ row' \in [Tasks -> Rows] /\ row'[t] = r
      /\ fired' \in [Tasks -> SUBSET Times] /\ fired'[t] = {}
      /\ anchor' \in [Tasks -> Times]
      /\ anchor'[t] = (IF InQueue(t) THEN Never ELSE n)
      /\ \A u \in Tasks : u # t => /\ row'[u] = row[u] /\ fired'[u] = fired[u]
                                   /\ anchor'[u] = anchor[u]
  <2>1. row' \in [Tasks -> Rows] /\ row'[t] = r
    BY <1>1, <1>7, <1>8
  <2>2. fired' \in [Tasks -> SUBSET Times] /\ fired'[t] = {}
    BY <1>1, <1>3
  <2>3. PICK a \in Times : a = IF InQueue(t) THEN Never ELSE n
    BY <1>5 DEF Times
  <2>4. anchor' = [anchor EXCEPT ![t] = a]
    BY <1>3, <2>3
  <2>5. anchor' \in [Tasks -> Times] /\ anchor'[t] = a
    BY <1>1, <2>4
  <2>6. ASSUME NEW u \in Tasks, u # t
        PROVE  /\ row'[u] = row[u] /\ fired'[u] = fired[u] /\ anchor'[u] = anchor[u]
    BY <1>1, <1>3, <1>8, <2>4, <2>6
  <2> QED
    BY <2>1, <2>2, <2>3, <2>5, <2>6
<1>10. r.status # "unborn"
  BY <1>3, <1>7 DEF Exists
<1>11. GridOf(t)'
  <2>1. anchor'[t] # Never => r.next # Never /\ r.next - anchor'[t] = 0
    BY <1>5, <1>7, <1>9 DEF Times, Never
  <2>2. value # 0 => value \in Nat \ {0}
    BY TaskSchedulerAssumption
  <2>3. ASSUME anchor'[t] # Never, r.value # 0
        PROVE  (r.next - anchor'[t]) % r.value = 0
    <3>1. value \in Nat \ {0} /\ r.next - anchor'[t] = 0
      BY <1>7, <2>1, <2>2, <2>3
    <3>2. 0 % value = 0
      BY <3>1
    <3> QED
      BY <1>7, <3>1, <3>2
  <2>4. Written(r)
    BY <1>3, <1>7 DEF Written
  <2> QED
    BY <1>9, <1>10, <2>1, <2>3, <2>4 DEF GridOf
<1> QED
  BY <1>3, <1>9, <1>10, <1>11, RowKeeps

LEMMA UnregisterKeeps == SchedulerInv /\ Unregister => SchedulerInv'
<1> SUFFICES ASSUME SchedulerInv, Unregister
             PROVE  SchedulerInv'
  OBVIOUS
<1> USE DEF Unregister, history
<1>1. SchedulerTypes'
  BY DEF SchedulerInv, SchedulerTypes
<1>2. QueueInv'
  BY DEF SchedulerInv, QueueInv, SnapshotOf
<1>3. TasksInv'
  BY DEF SchedulerInv, TasksInv, GridOf, FiredOf, Busy, Exists
<1> QED
  BY <1>1, <1>2, <1>3 DEF SchedulerInv

LEMMA InitKeeps == SchedulerInit => SchedulerInv
<1> SUFFICES ASSUME SchedulerInit
             PROVE  SchedulerInv
  OBVIOUS
<1> USE DEF SchedulerInit
<1>1. [status |-> "unborn", type |-> "once", value |-> 0, next |-> Never] \in Rows
  BY DEF Rows, TypeNames, Times, Never
<1>2. SchedulerTypes
  <2>1. queue \in Seq(Snapshots) /\ now \in Nat
    OBVIOUS
  <2>2. row \in [Tasks -> Rows] /\ running \in BOOLEAN /\ groupRegistered \in BOOLEAN
        /\ ~running
    BY <1>1
  <2>3. anchor \in [Tasks -> Times] /\ fired \in [Tasks -> SUBSET Times]
    BY DEF Times
  <2> QED
    BY <2>1, <2>2, <2>3 DEF SchedulerTypes
<1>3. QueueInv
  BY DEF QueueInv
<1>4. ASSUME NEW t \in Tasks
      PROVE  GridOf(t) /\ FiredOf(t)
  BY DEF GridOf, FiredOf, Written, Exists
<1> QED
  BY <1>2, <1>3, <1>4 DEF SchedulerInv, TasksInv

LEMMA StepKeeps == SchedulerInv /\ [SchedulerNext]_schedulerVars => SchedulerInv'
<1> SUFFICES ASSUME SchedulerInv, [SchedulerNext]_schedulerVars
             PROVE  SchedulerInv'
  OBVIOUS
<1>1. CASE Tick
  BY <1>1, TickKeeps
<1>2. CASE Poll
  BY <1>2, PollKeeps
<1>3. CASE RunNext
  <2>1. CASE StartUnregistered
    <3>1. running = FALSE /\ running' = FALSE
      BY <2>1 DEF StartUnregistered, SchedulerInv, SchedulerTypes
    <3> QED
      BY <2>1, <3>1, DropKeeps DEF StartUnregistered, history, Unfire
  <2> QED
    BY <1>3, <2>1, TaskStartsKeeps, StartInvalidKeeps, TaskFinishesKeeps DEF RunNext
<1>4. CASE Scheduled
  BY <1>4, ScheduleKeeps DEF Scheduled
<1>5. CASE Interventions
  <2>1. CASE FinishThrows
    <3>1. queue # <<>>
      BY <2>1 DEF FinishThrows, SchedulerInv, SchedulerTypes
    <3> QED
      BY <2>1, <3>1, DropKeeps DEF FinishThrows
  <2>2. ASSUME NEW t \in Tasks, Pause(t) \/ Resume(t) \/ Cancel(t)
        PROVE  SchedulerInv'
    BY <2>2, SetStatusKeeps DEF Pause, Resume, Cancel
  <2> QED
    BY <1>5, <2>1, <2>2, RunTaskNowKeeps, UpdateTaskKeeps, UnregisterKeeps, CrashKeeps
       DEF Interventions
<1>6. CASE UNCHANGED schedulerVars
  <2>1. SchedulerTypes'
    BY <1>6 DEF SchedulerInv, SchedulerTypes, schedulerVars
  <2>2. QueueInv'
    BY <1>6 DEF SchedulerInv, QueueInv, SnapshotOf, schedulerVars
  <2>3. TasksInv'
    BY <1>6 DEF SchedulerInv, TasksInv, GridOf, FiredOf, Busy, Exists, schedulerVars
  <2> QED
    BY <2>1, <2>2, <2>3 DEF SchedulerInv
<1> QED
  BY <1>1, <1>2, <1>3, <1>4, <1>5, <1>6 DEF SchedulerNext

\* The schedule, the queue and what was run agree in every state.
THEOREM SchedulerInvariant == SchedulerSpec => []SchedulerInv
BY InitKeeps, StepKeeps, PTL DEF SchedulerSpec

\* TasksOnGrid (updateTaskAfterRun and computeNextRun of task-scheduler.ts): rows and
\* snapshots are well formed, and a task with an interval keeps to the grid of its
\* first run, however late it is run, missed, run by hand or interrupted.
THEOREM TasksStayOnGrid == SchedulerSpec => []TasksOnGrid
<1>1. SchedulerInv => TasksOnGrid
  BY DEF SchedulerInv, TasksInv, GridOf, TasksOnGrid, OnGrid
<1> QED
  BY <1>1, SchedulerInvariant, PTL

-----------------------------------------------------------------------------
(* What a step never does *)

LEMMA StartTakesNewSlot == SchedulerInv /\ [SchedulerNext]_schedulerVars => NoSlotTwice
<1> SUFFICES ASSUME SchedulerInv, [SchedulerNext]_schedulerVars, ~running, running'
             PROVE  Slot(Head(queue)) \cap fired[Head(queue).id] = {}
  BY DEF NoSlotTwice
<1>1. TaskStarts
  BY ZenonT(30) DEF SchedulerNext, RunNext, Scheduled, Interventions, Tick, Poll, StartInvalid,
         StartUnregistered, TaskFinishes, FinishThrows, Schedule, RunTaskNow, Pause, Resume,
         Cancel, SetStatus, UpdateTask, Unregister, CrashAndRestart, schedulerVars
<1>2. Head(queue).row.next \notin fired[Head(queue).id]
  BY <1>1, HeadFacts DEF TaskStarts
<1> QED
  BY <1>2 DEF Slot

LEMMA StopsAreKept == SchedulerInv /\ [SchedulerNext]_schedulerVars => StopsStick
<1> SUFFICES ASSUME SchedulerInv, [SchedulerNext]_schedulerVars, NEW t \in Tasks
             PROVE  /\ row[t].status = "paused" /\ row'[t].status = "active" => Resume(t)
                    /\ row[t].status = "deleted" => row'[t].status = "deleted"
  BY DEF StopsStick
<1>1. row \in [Tasks -> Rows] /\ row[t] \in Rows
  BY SchedulerParts
<1>2. CASE UNCHANGED row
  BY <1>2
<1>3. CASE TaskFinishes
  <2>1. PICK h, n : /\ h = Head(queue).id /\ n = NextRun(Head(queue).row)
    OBVIOUS
  <2>2. row' = IF Exists(h) THEN [row EXCEPT ![h] = AfterRun(row[h], n)] ELSE row
    BY <1>3, <2>1 DEF TaskFinishes
  <2>3. row'[t] = row[t] \/ (row'[t] = AfterRun(row[t], n) /\ Exists(t))
    BY <1>1, <2>2
  <2>4. AfterRun(row[t], n).status \in {row[t].status, "completed"}
    BY <1>1 DEF AfterRun, Rows
  <2> QED
    BY <2>3, <2>4 DEF Exists
<1>4. CASE StartInvalid
  <2>1. PICK h : h = Head(queue).id
    OBVIOUS
  <2>2. row' = IF Exists(h) THEN [row EXCEPT ![h] = [row[h] EXCEPT !.status = "paused"]]
               ELSE row
    BY <1>4, <2>1 DEF StartInvalid
  <2>3. \/ row'[t] = row[t]
        \/ row'[t] = [row[t] EXCEPT !.status = "paused"] /\ Exists(t)
    BY <1>1, <2>2
  <2> QED
    BY <1>1, <2>3 DEF Exists, Rows
<1>5. ASSUME NEW u \in Tasks, NEW type, NEW value, Schedule(u, type, value)
      PROVE  row'[t] = row[t] \/ row[t].status = "unborn"
  BY <1>1, <1>5 DEF Schedule
<1>6. ASSUME NEW u \in Tasks, NEW status, SetStatus(u, status)
      PROVE  row'[t] = row[t] \/ (u = t /\ Exists(t) /\ row'[t].status = status)
  BY <1>1, <1>6 DEF SetStatus, Rows
<1>7. ASSUME NEW u \in Tasks, NEW type, NEW value, UpdateTask(u, type, value)
      PROVE  row'[t].status = row[t].status
  BY <1>1, <1>7 DEF UpdateTask, Rows
<1>8. CASE Scheduled
  <2>1. PICK u \in Tasks, type \in Types, value \in Values : Schedule(u, type, value)
    BY <1>8 DEF Scheduled
  <2> QED
    BY <1>5, <2>1
<1>9. ASSUME NEW u \in Tasks, Pause(u) \/ Resume(u) \/ Cancel(u)
      PROVE  /\ row[t].status = "paused" /\ row'[t].status = "active" => Resume(t)
             /\ row[t].status = "deleted" => row'[t].status = "deleted"
  BY <1>6, <1>9 DEF Pause, Resume, Cancel, Exists
<1>10. CASE Interventions /\ ~UNCHANGED row
  <2>1. PICK u \in Tasks :
          \/ Pause(u) \/ Resume(u) \/ Cancel(u)
          \/ \E type \in Types, value \in Values \cup {0} : UpdateTask(u, type, value)
    BY <1>10 DEF Interventions, RunTaskNow, FinishThrows, Unregister, CrashAndRestart
  <2> QED
    BY <1>7, <1>9, <2>1
<1>11. UNCHANGED row \/ TaskFinishes \/ StartInvalid \/ Scheduled \/ Interventions
  BY DEF SchedulerNext, RunNext, Tick, Poll, TaskStarts, StartUnregistered, schedulerVars
<1> QED
  BY <1>2, <1>3, <1>4, <1>8, <1>10, <1>11

\* RunsRespectRows (enqueueTask of group-queue.ts and updateTaskAfterRun of db.ts): a
\* due next_run is run again only if its run was lost, and the end of a run does not
\* undo a pause or a cancellation made meanwhile.
THEOREM RunsAlwaysRespectRows == SchedulerSpec => RunsRespectRows
<1>1. SchedulerInv /\ [SchedulerNext]_schedulerVars => [NoSlotTwice /\ StopsStick]_schedulerVars
  BY StartTakesNewSlot, StopsAreKept
<1> QED
  BY <1>1, SchedulerInvariant, PTL DEF SchedulerSpec, RunsRespectRows

=============================================================================
