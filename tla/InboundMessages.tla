--------------------------- MODULE InboundMessages ---------------------------
(***************************************************************************)
(* The way of a chat's messages into the database and to the agent, where  *)
(* messages overtake one another: the receive paths of a channel           *)
(* (src/src/channels/signal.ts), the host's callback (src/src/index.ts)    *)
(* with its awaits for commands, approvals and the guard, and the two      *)
(* cursors, which compare timestamps.  What a run does with the messages   *)
(* it was given is module ChatMessages.                                    *)
(***************************************************************************)
EXTENDS Integers, FiniteSets, FiniteSetsExt

CONSTANTS
  InboundIds,     \* the messages
  InboundStamps,  \* model bound: their timestamps, a subset of Nat \ {0}
  InboundCopies,  \* model bound: times that one message is delivered, 1..n
  InboundCrashes  \* model bound: crashes of the host

ASSUME InboundAssumption ==
  /\ IsFiniteSet(InboundIds)
  /\ InboundStamps \subseteq Nat \ {0}
  /\ InboundCopies # {}

Routes == {"direct", "guarded", "reply", "command"}
Deliveries == InboundIds \X InboundCopies

VARIABLES
  route,       \* what message m is: one of the controller's ("direct"), one for the
               \* guard, perhaps an answer to an approval, or a command
  stamp,       \* its timestamp, given by the sender
  remembers,   \* the channel suppresses ids it has seen: Signal does, Slack does not
  delivery,    \* stage of each delivery: "coming", "decision", "guard" or "over"
  seenIds,     \* seenMessageIds
  rows,        \* messages in the database
  lastTimestamp,    \* lastTimestamp
  agentCursor, \* lastAgentTimestamp of the chat
  checkOwed,   \* the group queue owes the chat a message check
  given,       \* messages that were given to the agent
  runGiven,    \* those of the current run; {} between runs
  runPrev,     \* previousCursor of the current run
  crashes,     \* counts crashes
  handled,     \* history: handled[m]: times m was carried out as a command or answer
  blocked,     \* history: messages the guard blocked
  faulted,     \* history: messages of which a delivery was lost, and to what: "store",
               \* "receive", "decision" or "crash"
  late         \* history: messages stored when a run had already gone past them

inboundVars == <<route, stamp, remembers, delivery, seenIds, rows, lastTimestamp,
                 agentCursor, checkOwed, given, runGiven, runPrev, crashes, handled,
                 blocked, faulted, late>>

InboundInit ==
  /\ route \in [InboundIds -> Routes]
  /\ stamp \in [InboundIds -> InboundStamps]
  /\ remembers \in BOOLEAN
  /\ delivery = [d \in Deliveries |-> "coming"]
  /\ seenIds = {}
  /\ rows = {}
  /\ lastTimestamp = 0
  /\ agentCursor = 0
  /\ checkOwed = FALSE
  /\ given = {}
  /\ runGiven = {}
  /\ runPrev = 0
  /\ crashes = 0
  /\ handled = [m \in InboundIds |-> 0]
  /\ blocked = {}
  /\ faulted = {}
  /\ late = {}

-----------------------------------------------------------------------------
(* Storing.  Nothing is awaited between the two steps of storeInboundMessage's *)
(* end: the row and the check of the queue.                                    *)

\* storeMessageIfNew, and a check for what is new.
IsNew(m) == m \notin rows
OwedAfterStore_Poll(m) == checkOwed
OwedAfterStore(m) == checkOwed \/ IsNew(m)
Store(d) ==
  LET m == d[1] IN
    /\ delivery' = [delivery EXCEPT ![d] = "over"]
    /\ rows' = rows \cup {m}
    /\ checkOwed' = OwedAfterStore(m)
    /\ late' = IF IsNew(m) /\ stamp[m] <= agentCursor THEN late \cup {m} ELSE late
    /\ UNCHANGED faulted

\* An error on the way: it is logged, and the delivery is lost.
LoseDelivery(d, why) ==
  /\ delivery' = [delivery EXCEPT ![d] = "over"]
  /\ faulted' = faulted \cup {<<d[1], why>>}
  /\ UNCHANGED <<rows, checkOwed, late>>

\* storeInboundMessage up to its first await: the guard is awaited, but not for the
\* controller's messages, to which some commands and answers belong.
StoreInbound(d) ==
  \/ route[d[1]] # "guarded" /\ (Store(d) \/ LoseDelivery(d, "store"))
  \/ /\ route[d[1]] # "direct"
     /\ delivery' = [delivery EXCEPT ![d] = "guard"]
     /\ UNCHANGED <<rows, checkOwed, late, faulted>>

\* The guard has decided; a guard that throws is replaced by the built-in one.
GuardPasses(d) ==
  /\ delivery[d] = "guard"
  /\ Store(d) \/ LoseDelivery(d, "store")
  /\ UNCHANGED <<route, stamp, remembers, seenIds, lastTimestamp, agentCursor, given,
                 runGiven, runPrev, crashes, handled, blocked>>

GuardBlocks(d) ==
  /\ delivery[d] = "guard"
  /\ delivery' = [delivery EXCEPT ![d] = "over"]
  /\ blocked' = blocked \cup {d[1]}
  /\ UNCHANGED <<route, stamp, remembers, seenIds, rows, lastTimestamp, agentCursor,
                 checkOwed, given, runGiven, runPrev, crashes, handled, faulted, late>>

-----------------------------------------------------------------------------
(* The channel and onMessage *)

Known(m) == m \in seenIds
SeenAfter_Unchanged(m) == seenIds
SeenAfter(m) == IF remembers THEN seenIds \cup {m} ELSE seenIds

\* A delivery whose id the channel has seen.
Repeated(d) ==
  /\ delivery[d] = "coming"
  /\ Known(d[1])
  /\ delivery' = [delivery EXCEPT ![d] = "over"]
  /\ UNCHANGED <<route, stamp, remembers, seenIds, rows, lastTimestamp, agentCursor,
                 checkOwed, given, runGiven, runPrev, crashes, handled, blocked,
                 faulted, late>>

\* Commands and possible answers to approvals are decided first.
Receive(d) ==
  /\ delivery[d] = "coming"
  /\ ~Known(d[1])
  /\ seenIds' = SeenAfter(d[1])
  /\ \/ /\ route[d[1]] \in {"command", "reply"}
        /\ delivery' = [delivery EXCEPT ![d] = "decision"]
        /\ UNCHANGED <<rows, checkOwed, late, faulted>>
     \/ /\ route[d[1]] \in {"direct", "guarded"}
        /\ StoreInbound(d)
  /\ UNCHANGED <<route, stamp, remembers, lastTimestamp, agentCursor, given, runGiven,
                 runPrev, crashes, handled, blocked>>

\* onMessage throws (a chat cannot be registered): the rest of the payload is lost
\* with the message, where a payload has many.
ReceiveThrows(d) ==
  /\ delivery[d] = "coming"
  /\ ~Known(d[1])
  /\ seenIds' = SeenAfter(d[1])
  /\ \E rest \in SUBSET {e \in Deliveries : delivery[e] = "coming"} :
       /\ d \in rest
       /\ remembers \/ rest = {d}
       /\ delivery' = [e \in Deliveries |-> IF e \in rest THEN "over" ELSE delivery[e]]
       /\ faulted' = faulted \cup {<<e[1], "receive">> : e \in rest}
  /\ UNCHANGED <<route, stamp, remembers, rows, lastTimestamp, agentCursor, checkOwed,
                 given, runGiven, runPrev, crashes, handled, blocked, late>>

\* The command was carried out, or the answer applied: it is no message any more.
DecisionHandles(d) ==
  /\ delivery[d] = "decision"
  /\ delivery' = [delivery EXCEPT ![d] = "over"]
  /\ handled' = [handled EXCEPT ![d[1]] = @ + 1]
  /\ UNCHANGED <<route, stamp, remembers, seenIds, rows, lastTimestamp, agentCursor,
                 checkOwed, given, runGiven, runPrev, crashes, blocked, faulted, late>>

DecisionPasses(d) ==
  /\ delivery[d] = "decision"
  /\ StoreInbound(d)
  /\ UNCHANGED <<route, stamp, remembers, seenIds, lastTimestamp, agentCursor, given,
                 runGiven, runPrev, crashes, handled, blocked>>

\* An error in the decision stores the reply anyway, but loses a command.
AfterError_Loses(d) == LoseDelivery(d, "decision")
AfterError(d) ==
  IF route[d[1]] = "reply" THEN StoreInbound(d) ELSE LoseDelivery(d, "decision")
DecisionFails(d) ==
  /\ delivery[d] = "decision"
  /\ AfterError(d)
  /\ UNCHANGED <<route, stamp, remembers, seenIds, lastTimestamp, agentCursor, given,
                 runGiven, runPrev, crashes, handled, blocked>>

-----------------------------------------------------------------------------
(* The polling loop and the runs *)

After(c) == {m \in rows : stamp[m] > c}
NewestStamp(S) == Max({stamp[m] : m \in S})
Running == runGiven # {}

\* The polling loop pipes into a run, or asks for one.
ToPipe == IF After(agentCursor) # {} THEN After(agentCursor) ELSE After(lastTimestamp)
CursorAfterAsking_Moves == NewestStamp(ToPipe)
CursorAfterAsking == agentCursor
PollPending ==
  /\ After(lastTimestamp) # {}
  /\ lastTimestamp' = NewestStamp(After(lastTimestamp))
  /\ \/ /\ Running
        /\ agentCursor' = NewestStamp(ToPipe)
        /\ given' = given \cup ToPipe
        /\ UNCHANGED checkOwed
     \/ /\ ~Running
        /\ checkOwed' = TRUE
        /\ agentCursor' = CursorAfterAsking
        /\ UNCHANGED given
  /\ UNCHANGED <<route, stamp, remembers, delivery, seenIds, rows, runGiven, runPrev,
                 crashes, handled, blocked, faulted, late>>

\* processGroupMessages up to the agent's start.
CheckStarts ==
  /\ checkOwed /\ ~Running
  /\ checkOwed' = FALSE
  /\ \/ /\ After(agentCursor) = {}
        /\ UNCHANGED <<agentCursor, given, runGiven, runPrev>>
     \/ /\ After(agentCursor) # {}
        /\ runPrev' = agentCursor
        /\ agentCursor' = NewestStamp(After(agentCursor))
        /\ runGiven' = After(agentCursor)
        /\ given' = given \cup After(agentCursor)
  /\ UNCHANGED <<route, stamp, remembers, delivery, seenIds, rows, lastTimestamp,
                 crashes, handled, blocked, faulted, late>>

\* A run ends well, or badly after it replied.
RunSettles ==
  /\ Running
  /\ runGiven' = {}
  /\ UNCHANGED <<route, stamp, remembers, delivery, seenIds, rows, lastTimestamp,
                 agentCursor, checkOwed, given, runPrev, crashes, handled, blocked,
                 faulted, late>>

\* It fails: the cursor is rolled back, for a retry unless it was the last.
RunRollsBack ==
  /\ Running
  /\ agentCursor' = runPrev
  /\ runGiven' = {}
  /\ checkOwed' \in {checkOwed, TRUE}
  /\ UNCHANGED <<route, stamp, remembers, delivery, seenIds, rows, lastTimestamp, given,
                 runPrev, crashes, handled, blocked, faulted, late>>

\* The process goes and recoverPendingMessages looks for what is left.
OwedAfterRestart_Never == FALSE
OwedAfterRestart == After(agentCursor) # {}
InFlight == {d \in Deliveries : delivery[d] \in {"decision", "guard"}}
HostCrashes ==
  /\ crashes < InboundCrashes
  /\ crashes' = crashes + 1
  /\ delivery' = [d \in Deliveries |-> IF d \in InFlight THEN "over" ELSE delivery[d]]
  /\ faulted' = faulted \cup {<<d[1], "crash">> : d \in InFlight}
  /\ seenIds' = {}
  /\ checkOwed' = OwedAfterRestart
  /\ runGiven' = {}
  /\ UNCHANGED <<route, stamp, remembers, rows, lastTimestamp, agentCursor, given,
                 runPrev, handled, blocked, late>>

InboundNext ==
  \/ \E d \in Deliveries :
       \/ Repeated(d) \/ Receive(d) \/ ReceiveThrows(d)
       \/ DecisionHandles(d) \/ DecisionPasses(d) \/ DecisionFails(d)
       \/ GuardPasses(d) \/ GuardBlocks(d)
  \/ PollPending \/ CheckStarts \/ RunSettles \/ RunRollsBack \/ HostCrashes

-----------------------------------------------------------------------------
(* Properties *)

\* A stored message that no run was given yet, and that is newer than what runs were
\* given, is not forgotten: a check is owed, or the polling loop will see it.
StoredIsNoticed ==
  \A m \in rows \ given :
    stamp[m] > agentCursor => checkOwed \/ stamp[m] > lastTimestamp

\* The cursor of the runs goes past a message that they were not given only if that
\* message came late: it was stored after one that carries the same or a later time.
PassedOverOnlyLate ==
  \A m \in rows \ given : stamp[m] > agentCursor \/ m \in late

\* What is delivered twice by a channel that remembers acts once, as long as the
\* host runs: a command or an answer is carried out once and then is no message.
ActsOnce ==
  remembers /\ crashes = 0 =>
    \A m \in InboundIds : handled[m] + (IF m \in rows THEN 1 ELSE 0) <= 1

\* No message disappears without the guard's verdict, a crash or an error, and an
\* error of the decision costs a command and nothing else.
NothingVanishes ==
  \A m \in InboundIds :
    (\A k \in InboundCopies : delivery[<<m, k>>] = "over")
      => \/ m \in rows \cup blocked
         \/ handled[m] > 0
         \/ \E f \in faulted : f[1] = m /\ (f[2] = "decision" => route[m] = "command")

InboundCorrect == StoredIsNoticed /\ PassedOverOnlyLate /\ ActsOnce /\ NothingVanishes

=============================================================================
