---------------------------- MODULE ContainerRun ----------------------------
(***************************************************************************)
(* One batch of messages given to a container, and given again while the   *)
(* host rolls its cursor back: src/container-runner.ts (runContainerAgent) *)
(* and the end of processGroupMessages in src/index.ts.  ChatMessages      *)
(* forgets a run once it has ended; here its late results are followed:    *)
(* the chain of streamed results goes on being handled, and the requests   *)
(* of the agent being carried out, after the run was settled.              *)
(*                                                                         *)
(* Attempt a is one call of runContainerAgent.  Bounds: ContainerAttempts  *)
(* (MAX_RETRIES of the queue) and ContainerOutputs, the results a          *)
(* container prints.                                                       *)
(***************************************************************************)
EXTENDS Naturals, Sequences

CONSTANTS ContainerAttempts, ContainerOutputs

ASSUME ContainerAssumption ==
  /\ ContainerAttempts \in Nat \ {0}
  /\ ContainerOutputs \in Nat

Attempts == 1..ContainerAttempts
Results == {"answer", "silent", "error"}   \* what handleAgentOutput tells apart

VARIABLES
  container,  \* "none", "running", "stopping", "exited" (its pipes still open), "closed"
  exitCode,   \* 0 or 1, once it exited
  hardTimer,  \* the timeout of the attempt is armed
  timedOut,
  printed,    \* results parsed so far; hadStreamingOutput is printed > 0
  chain,      \* outputChain: results not yet handled
  sending,    \* the head of the chain is in channel.sendMessage
  wedged,     \* the chain was rejected
  verdict,    \* what the promise of the attempt resolved to, or "open"
  settled,    \* "no", "done", "kept" (no rollback) or "rolledBack"
  sentToUser, \* outputSentToUser
  errorSeen,  \* hadError
  request,    \* the agent's mutating request: "no", "waiting", "done"
  mark,       \* groupsWithSideEffects holds the group
  replies,    \* history: replies the chat got from the attempt
  overtaken,  \* history: the verdict came before the chain was done
  unseen      \* history: the request was waiting when the attempt was settled

containerVars ==
  <<container, exitCode, hardTimer, timedOut, printed, chain, sending, wedged,
    verdict, settled, sentToUser, errorSeen, request, mark, replies, overtaken,
    unseen>>

ContainerInit ==
  /\ container = [a \in Attempts |-> "none"]
  /\ exitCode = [a \in Attempts |-> 0]
  /\ hardTimer = [a \in Attempts |-> FALSE]
  /\ timedOut = [a \in Attempts |-> FALSE]
  /\ printed = [a \in Attempts |-> 0]
  /\ chain = [a \in Attempts |-> <<>>]
  /\ sending = [a \in Attempts |-> FALSE]
  /\ wedged = [a \in Attempts |-> FALSE]
  /\ verdict = [a \in Attempts |-> "open"]
  /\ settled = [a \in Attempts |-> "no"]
  /\ sentToUser = [a \in Attempts |-> FALSE]
  /\ errorSeen = [a \in Attempts |-> FALSE]
  /\ request = [a \in Attempts |-> "no"]
  /\ mark \in BOOLEAN      \* an earlier run that succeeded leaves its mark
  /\ replies = [a \in Attempts |-> 0]
  /\ overtaken = [a \in Attempts |-> FALSE]
  /\ unseen = [a \in Attempts |-> FALSE]

-----------------------------------------------------------------------------
(* An operator X_Y is X with a bug Y planted in it. *)

(* The container and its timer *)

Launched(a) == a > 1 => settled[a - 1] = "rolledBack"

SpawnContainer(a) ==
  /\ container[a] = "none" /\ verdict[a] = "open" /\ Launched(a)
  /\ container' = [container EXCEPT ![a] = "running"]
  /\ hardTimer' = [hardTimer EXCEPT ![a] = TRUE]
  /\ UNCHANGED <<exitCode, timedOut, printed, chain, sending, wedged, verdict, settled,
                 sentToUser, errorSeen, request, mark, replies, overtaken, unseen>>

\* The 'error' event of a process that could not be started.
SpawnBreaks(a) ==
  /\ container[a] = "none" /\ verdict[a] = "open" /\ Launched(a)
  /\ container' = [container EXCEPT ![a] = "closed"]
  /\ verdict' = [verdict EXCEPT ![a] = "error"]
  /\ UNCHANGED <<exitCode, hardTimer, timedOut, printed, chain, sending, wedged,
                 settled, sentToUser, errorSeen, request, mark, replies, overtaken,
                 unseen>>

\* A complete pair of markers: the timer starts again, the result is chained.
ResetTimeout_Clears(a) == hardTimer' = [hardTimer EXCEPT ![a] = FALSE]
ResetTimeout(a) == hardTimer' = [hardTimer EXCEPT ![a] = TRUE]

Prints(a) ==
  /\ container[a] \in {"running", "stopping", "exited"}
  /\ printed[a] < ContainerOutputs
  /\ printed' = [printed EXCEPT ![a] = @ + 1]
  /\ \E r \in Results : chain' = [chain EXCEPT ![a] = Append(@, r)]
  /\ ResetTimeout(a)
  /\ UNCHANGED <<container, exitCode, timedOut, sending, wedged, verdict, settled,
                 sentToUser, errorSeen, request, mark, replies, overtaken, unseen>>

\* killOnTimeout; the process may have exited with its pipes still open.
KillOnTimeout(a) ==
  /\ hardTimer[a]
  /\ hardTimer' = [hardTimer EXCEPT ![a] = FALSE]
  /\ timedOut' = [timedOut EXCEPT ![a] = TRUE]
  /\ container' = [container EXCEPT ![a] = IF @ = "running" THEN "stopping" ELSE @]
  /\ UNCHANGED <<exitCode, printed, chain, sending, wedged, verdict, settled,
                 sentToUser, errorSeen, request, mark, replies, overtaken, unseen>>

Exits(a) ==
  /\ container[a] \in {"running", "stopping"}
  /\ container' = [container EXCEPT ![a] = "exited"]
  /\ \E code \in {0, 1} : exitCode' = [exitCode EXCEPT ![a] = code]
  /\ UNCHANGED <<hardTimer, timedOut, printed, chain, sending, wedged, verdict, settled,
                 sentToUser, errorSeen, request, mark, replies, overtaken, unseen>>

\* The 'close' event: a timeout without output and an exit code fail at once, the
\* rest waits for the chain.
FailsAtOnce(a) == IF timedOut[a] THEN printed[a] = 0 ELSE exitCode[a] # 0

StreamsClose(a) ==
  /\ container[a] = "exited"
  /\ container' = [container EXCEPT ![a] = "closed"]
  /\ hardTimer' = [hardTimer EXCEPT ![a] = FALSE]
  /\ IF FailsAtOnce(a)
     THEN /\ verdict' = [verdict EXCEPT ![a] = "error"]
          /\ overtaken' = [overtaken EXCEPT ![a] = chain[a] # <<>>]
     ELSE UNCHANGED <<verdict, overtaken>>
  /\ UNCHANGED <<exitCode, timedOut, printed, chain, sending, wedged, settled,
                 sentToUser, errorSeen, request, mark, replies, unseen>>

ChainDone_Always(a) == TRUE
ChainDone(a) == chain[a] = <<>> /\ ~wedged[a]

ResolvesSuccess(a) ==
  /\ container[a] = "closed" /\ verdict[a] = "open"
  /\ ChainDone(a)
  /\ verdict' = [verdict EXCEPT ![a] = "success"]
  /\ UNCHANGED <<container, exitCode, hardTimer, timedOut, printed, chain, sending,
                 wedged, settled, sentToUser, errorSeen, request, mark, replies,
                 overtaken, unseen>>

-----------------------------------------------------------------------------
(* handleAgentOutput, one result after the other *)

Handling(a) == chain[a] # <<>> /\ ~wedged[a] /\ ~sending[a]

\* No text for the chat; an error is remembered.
HandlesSilently(a) ==
  /\ Handling(a)
  /\ Head(chain[a]) # "answer"
  /\ errorSeen' = [errorSeen EXCEPT ![a] = @ \/ Head(chain[a]) = "error"]
  /\ chain' = [chain EXCEPT ![a] = Tail(@)]
  /\ UNCHANGED <<container, exitCode, hardTimer, timedOut, printed, sending, wedged,
                 verdict, settled, sentToUser, request, mark, replies, overtaken,
                 unseen>>

\* setTyping, one second, channel.sendMessage.
SendsReply(a) ==
  /\ Handling(a)
  /\ Head(chain[a]) = "answer"
  /\ sending' = [sending EXCEPT ![a] = TRUE]
  /\ UNCHANGED <<container, exitCode, hardTimer, timedOut, printed, chain, wedged,
                 verdict, settled, sentToUser, errorSeen, request, mark, replies,
                 overtaken, unseen>>

ReplyDelivered(a) ==
  /\ sending[a]
  /\ sending' = [sending EXCEPT ![a] = FALSE]
  /\ sentToUser' = [sentToUser EXCEPT ![a] = TRUE]
  /\ replies' = [replies EXCEPT ![a] = @ + 1]
  /\ chain' = [chain EXCEPT ![a] = Tail(@)]
  /\ UNCHANGED <<container, exitCode, hardTimer, timedOut, printed, wedged, verdict,
                 settled, errorSeen, request, mark, overtaken, unseen>>

\* The rejection reaches nobody: results after it are never handled.
ReplyThrows(a) ==
  /\ sending[a]
  /\ sending' = [sending EXCEPT ![a] = FALSE]
  /\ wedged' = [wedged EXCEPT ![a] = TRUE]
  /\ UNCHANGED <<container, exitCode, hardTimer, timedOut, printed, chain, verdict,
                 settled, sentToUser, errorSeen, request, mark, replies, overtaken,
                 unseen>>

-----------------------------------------------------------------------------
(* The agent's request and the IPC watcher *)

AgentRequests(a) ==
  /\ container[a] \in {"running", "stopping"}
  /\ request[a] = "no"
  /\ request' = [request EXCEPT ![a] = "waiting"]
  /\ UNCHANGED <<container, exitCode, hardTimer, timedOut, printed, chain, sending,
                 wedged, verdict, settled, sentToUser, errorSeen, mark, replies,
                 overtaken, unseen>>

\* At any later time; the file does not go away with its run.
WatcherCarriesOut(a) ==
  /\ request[a] = "waiting"
  /\ request' = [request EXCEPT ![a] = "done"]
  /\ mark' = TRUE
  /\ UNCHANGED <<container, exitCode, hardTimer, timedOut, printed, chain, sending,
                 wedged, verdict, settled, sentToUser, errorSeen, replies, overtaken,
                 unseen>>

-----------------------------------------------------------------------------
(* The end of processGroupMessages *)

Bad(a) == verdict[a] = "error" \/ errorSeen[a]

Keeps_IgnoresReply(a) == mark
Keeps_IgnoresEffect(a) == sentToUser[a]
Keeps(a) == sentToUser[a] \/ mark

Settles(a) ==
  /\ verdict[a] # "open" /\ settled[a] = "no"
  /\ settled' = [settled EXCEPT ![a] =
                   IF ~Bad(a) THEN "done" ELSE IF Keeps(a) THEN "kept" ELSE "rolledBack"]
  /\ mark' = (mark /\ ~Bad(a))      \* consumeIpcSideEffect, on an error only
  /\ unseen' = [unseen EXCEPT ![a] = request[a] = "waiting"]
  /\ UNCHANGED <<container, exitCode, hardTimer, timedOut, printed, chain, sending,
                 wedged, verdict, sentToUser, errorSeen, request, replies, overtaken>>

-----------------------------------------------------------------------------
ContainerNext ==
  \E a \in Attempts :
    \/ SpawnContainer(a) \/ SpawnBreaks(a) \/ Prints(a) \/ KillOnTimeout(a)
    \/ Exits(a) \/ StreamsClose(a) \/ ResolvesSuccess(a)
    \/ HandlesSilently(a) \/ SendsReply(a) \/ ReplyDelivered(a) \/ ReplyThrows(a)
    \/ AgentRequests(a) \/ WatcherCarriesOut(a) \/ Settles(a)

-----------------------------------------------------------------------------
(* Properties *)

\* "wait for output chain to settle": an attempt that succeeded has no result left
\* to handle, whatever its exit, its timeout and its chain did in which order.
NothingAfterSuccess == \A a \in Attempts : verdict[a] = "success" => chain[a] = <<>>

\* "the user got their response and re-processing would send duplicates": what was
\* rolled back sent no reply, before or after, unless the container failed while
\* results were still being handled; those the rollback cannot see.
ReplyOrRetry ==
  \A a \in Attempts : settled[a] = "rolledBack" /\ replies[a] > 0 => overtaken[a]

\* "retrying would duplicate the side effects": what was rolled back had no request
\* carried out, unless it was still waiting when the attempt was settled.
EffectOrRetry ==
  \A a \in Attempts : settled[a] = "rolledBack" /\ request[a] = "done" => unseen[a]

\* A container is watched until its pipes close: either the timer runs or it was
\* told to stop; and no timer is left behind to stop a later container by name.
TimerFollowsContainer ==
  \A a \in Attempts :
    /\ container[a] = "running" => hardTimer[a]
    /\ container[a] \in {"none", "closed"} => ~hardTimer[a]

\* Verdict, cursor and timer agree with what the container did: see the four above.
RunCorrect == NothingAfterSuccess /\ ReplyOrRetry /\ EffectOrRetry /\ TimerFollowsContainer

=============================================================================
