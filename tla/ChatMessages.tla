----------------------------- MODULE ChatMessages -----------------------------
(***************************************************************************)
(* The way of one chat's messages from the database through the agent      *)
(* (src/src/index.ts with the container side of agent-runner): the polling *)
(* loop, the two cursors, piping into a live container, rollback, the      *)
(* streamed replies, crash and recovery.                                   *)
(*                                                                         *)
(* A message is its timestamp.  The group queue is reduced to what module  *)
(* GroupQueue establishes about it: one run at a time, and an owed check   *)
(* eventually starts one.                                                  *)
(***************************************************************************)
EXTENDS Integers, Sequences

CONSTANTS
  LastMessage,   \* model bound: messages are 1..LastMessage
  Kinds,         \* what the chat writes: subset of KindNames
  NeedsTrigger,  \* the group is woken by "request" messages only
  PromptLimit,   \* MAX_MESSAGES_PER_PROMPT
  MaxRetries,    \* MAX_RETRIES of the group queue
  Faults         \* what may go wrong: "agent", "timeout", "close", "effect",
                 \* "write", "send", "crash"

\* A "command" is answered by the process itself: /research, or the reply to
\* a research job's question.
KindNames == {"request", "chatter", "ack", "command"}

ASSUME ChatMessagesAssumption ==
  /\ LastMessage \in Nat \ {0}
  /\ Kinds \subseteq KindNames
  /\ NeedsTrigger \in BOOLEAN
  /\ PromptLimit \in Nat \ {0}
  /\ MaxRetries \in Nat
  /\ Faults \subseteq {"agent", "timeout", "close", "effect", "write", "send", "crash"}

Messages == 1..LastMessage

VARIABLES
  kind,       \* kind[m]: what message m is
  stored,     \* how many messages the channel has stored so far
  seen,       \* lastTimestamp: newest message the polling loop has seen
  cursor,     \* lastAgentTimestamp of the chat
  inbox,      \* messages in the container's input directory
  closing,    \* the _close sentinel is in that directory
  owed,       \* the queue owes the chat a message check
  failures,   \* retryCount
  run,        \* phase of the current run
  prev,       \* previousCursor of the run
  turn,       \* messages of the agent's current or last turn
  streamed,   \* hadStreamingOutput
  outputs,    \* outputChain: results of the run not handled yet, oldest first
  rejected,   \* sending a result threw: the chain is stuck
  replied,    \* outputSentToUser
  hadError,
  asked,      \* a mutating request lies in the group's IPC directory:
              \* "no", "now" (of the current run) or "before" (of an earlier one)
  ipcCall,    \* the watcher awaits its effect: "none", "made" or "effective"
  effect,     \* groupsWithSideEffects has the group
  acted,      \* history: a request of the current run took effect
  loose,      \* history: one of those is over and was not marked
  served,     \* history: messages of turns the agent completed
  answered,   \* history: messages whose turn's reply was sent to the chat
  dropped     \* history: messages the code gave up on

runVars == <<run, prev, turn, streamed, outputs, rejected, replied, hadError, acted, loose>>
ipcVars == <<asked, ipcCall, effect>>
history == <<served, answered, dropped>>
vars == <<kind, stored, seen, cursor, inbox, closing, owed, failures, runVars,
          ipcVars, history>>

Stored == 1..stored
Phases == {"none", "command", "launching", "booting", "working", "idle",
           "exited", "failed", "killed"}

-----------------------------------------------------------------------------
Init ==
  /\ kind \in [Messages -> Kinds]
  /\ stored = 0
  /\ seen = 0
  /\ cursor = 0
  /\ inbox = {}
  /\ closing = FALSE
  /\ owed = FALSE
  /\ failures = 0
  /\ run = "none"
  /\ prev = 0
  /\ turn = {}
  /\ streamed = FALSE
  /\ outputs = <<>>
  /\ rejected = FALSE
  /\ replied = FALSE
  /\ hadError = FALSE
  /\ asked = "no"
  /\ ipcCall = "none"
  /\ effect = FALSE
  /\ acted = FALSE
  /\ loose = FALSE
  /\ served = {}
  /\ answered = {}
  /\ dropped = {}

-----------------------------------------------------------------------------
(* An operator X_Y is X with a bug Y planted in it (see GroupQueue). *)

\* getMessagesSince: the most recent messages after c, at most PromptLimit.
Since(c) == {m \in Stored : m > c /\ m > stored - PromptLimit}

Newest(S) == CHOOSE m \in S : \A n \in S : n <= m

HasTrigger(S) == NeedsTrigger => \E m \in S : kind[m] = "request"
AllAcks(S) == \A m \in S : kind[m] = "ack"
IsCommand(S) == S # {} /\ kind[Newest(S)] = "command"

\* A container takes piped input from the moment its process is registered
\* until the run is over.
Piping == run \notin {"none", "command", "launching"}

\* What the code stops caring for: not completed, not waiting in the directory.
Passed(last) == {m \in Stored : m > cursor /\ m <= last}
Drop(S) == dropped' = dropped \cup (S \ (served \cup inbox \cup dropped))

-----------------------------------------------------------------------------
(* The channel and the polling loop *)

Arrive ==
  /\ stored < LastMessage
  /\ stored' = stored + 1
  /\ UNCHANGED <<kind, seen, cursor, inbox, closing, owed, failures, runVars,
                 ipcVars, history>>

\* One group's share of startMessageLoop: ignore, skip acknowledgments, pipe
\* into the live container, or ask the queue for a check.
PollIgnores(new) ==
  /\ ~HasTrigger(new)
  /\ UNCHANGED <<cursor, inbox, owed, dropped>>

PollSkipsAcks(new) ==
  /\ HasTrigger(new)
  /\ AllAcks(new)
  /\ cursor' = Newest(new)
  /\ Drop(Passed(Newest(new)) \ turn)
  /\ UNCHANGED <<inbox, owed>>

\* Everything past the cursor goes, context included.
ToSend_NewOnly(new) == new
ToSend(new) == LET pending == Since(cursor) IN IF pending # {} THEN pending ELSE new

PollPipes_AdvancesBeforeWrite(new) ==
  /\ HasTrigger(new) /\ ~AllAcks(new)
  /\ cursor' = Newest(ToSend(new))
  /\ inbox' = IF Piping THEN inbox \cup ToSend(new) ELSE inbox
  /\ owed' = (owed \/ ~Piping)
  /\ UNCHANGED dropped
PollPipes(new) ==
  /\ HasTrigger(new) /\ ~AllAcks(new)
  /\ Piping
  /\ cursor' = Newest(ToSend(new))
  /\ inbox' = inbox \cup ToSend(new)
  /\ Drop(Passed(Newest(ToSend(new))) \ ToSend(new))
  /\ UNCHANGED owed

\* There is no container to take the messages, or the write failed.
PollEnqueues(new) ==
  /\ HasTrigger(new) /\ ~AllAcks(new)
  /\ ~Piping \/ "write" \in Faults
  /\ owed' = TRUE
  /\ UNCHANGED <<cursor, inbox, dropped>>

Poll ==
  LET new == {m \in Stored : m > seen} IN
  /\ new # {}
  /\ seen' = Newest(new)
  /\ \/ PollIgnores(new)
     \/ PollSkipsAcks(new)
     \/ PollPipes(new)
     \/ PollEnqueues(new)
  /\ UNCHANGED <<kind, stored, closing, failures, runVars, ipcVars,
                 served, answered>>

-----------------------------------------------------------------------------
(* A run: processGroupMessages and its container *)

\* The queue starts a check that finds nothing to do.
CheckFindsNothing ==
  /\ owed /\ run = "none"
  /\ LET missed == Since(cursor)
     IN missed = {} \/ (~IsCommand(missed) /\ ~HasTrigger(missed))
  /\ owed' = FALSE
  /\ failures' = 0
  /\ UNCHANGED <<kind, stored, seen, cursor, inbox, closing, runVars, ipcVars, history>>

\* The cursor moves past the messages before the agent runs.
Begin(missed) ==
  /\ cursor' = Newest(missed)
  /\ prev' = cursor
  /\ turn' = missed
  /\ Drop(Passed(Newest(missed)) \ missed)
  /\ run' = "launching"
  /\ streamed' = FALSE
  /\ outputs' = <<>>
  /\ rejected' = FALSE
  /\ replied' = FALSE
  /\ hadError' = FALSE
  /\ acted' = FALSE
  /\ loose' = FALSE

StartRun ==
  /\ owed /\ run = "none"
  /\ LET missed == Since(cursor) IN
       /\ missed # {} /\ ~IsCommand(missed) /\ HasTrigger(missed)
       /\ Begin(missed)
  /\ owed' = FALSE
  /\ UNCHANGED <<kind, stored, seen, inbox, closing, failures, ipcVars, served, answered>>

\* A command is looked for in the newest message only.
StartCommand ==
  /\ owed /\ run = "none"
  /\ IsCommand(Since(cursor))
  /\ turn' = Since(cursor)
  /\ owed' = FALSE
  /\ run' = "command"
  /\ UNCHANGED <<kind, stored, seen, cursor, inbox, closing, failures, prev,
                 streamed, outputs, replied, hadError, rejected, acted, loose, ipcVars, history>>

\* The research service cannot take the reply: normal routing after all.
CommandFallsBack ==
  /\ "agent" \in Faults
  /\ run = "command"
  /\ HasTrigger(turn)
  /\ Begin(turn)
  /\ UNCHANGED <<kind, stored, seen, inbox, closing, owed, failures, ipcVars, served, answered>>

\* onProcess: the process is registered with the queue.
Spawn ==
  /\ run = "launching"
  /\ run' = "booting"
  /\ UNCHANGED <<kind, stored, seen, cursor, inbox, closing, owed, failures, prev,
                 turn, streamed, outputs, replied, hadError, rejected, acted, loose,
                 ipcVars, history>>

\* The container removes a stale sentinel and adds waiting input to its prompt.
Boot_ClearsInput ==
  /\ run = "booting"
  /\ run' = "working"
  /\ closing' = FALSE
  /\ turn' = turn
  /\ inbox' = {}
  /\ UNCHANGED <<kind, stored, seen, cursor, owed, failures, prev, streamed,
                 outputs, replied, hadError, rejected, acted, loose, ipcVars,
                 history>>
Boot ==
  /\ run = "booting"
  /\ run' = "working"
  /\ closing' = FALSE
  /\ turn' = turn \cup inbox
  /\ inbox' = {}
  /\ UNCHANGED <<kind, stored, seen, cursor, owed, failures, prev, streamed,
                 outputs, replied, hadError, rejected, acted, loose, ipcVars,
                 history>>

\* The agent writes a mutating request into the group's IPC directory.
AgentAsks ==
  /\ "effect" \in Faults
  /\ run = "working"
  /\ asked = "no"
  /\ asked' = "now"
  /\ UNCHANGED <<kind, stored, seen, cursor, inbox, closing, owed, failures,
                 runVars, ipcCall, effect, history>>

\* The IPC watcher takes the request up, whatever became of the run.  It creates a
\* task and marks the group in one step.
WatcherSchedules ==
  /\ asked # "no" /\ ipcCall = "none"
  /\ asked' = "no"
  /\ effect' = TRUE
  /\ acted' = (acted \/ asked = "now")
  /\ UNCHANGED <<kind, stored, seen, cursor, inbox, closing, owed, failures, run,
                 prev, turn, streamed, outputs, replied, hadError, rejected, loose,
                 ipcCall, history>>

\* It marks nothing when a task is changed, paused, resumed or cancelled, or a
\* group is registered.
WatcherActsUnmarked ==
  /\ asked # "no" /\ ipcCall = "none"
  /\ asked' = "no"
  /\ acted' = (acted \/ asked = "now")
  /\ loose' = (loose \/ asked = "now")
  /\ UNCHANGED <<kind, stored, seen, cursor, inbox, closing, owed, failures, run,
                 prev, turn, streamed, outputs, replied, hadError, rejected,
                 ipcCall, effect, history>>

\* It awaits the calendar or an integration; the request's file stays until then.
WatcherCalls ==
  /\ asked # "no" /\ ipcCall = "none"
  /\ ipcCall' = "made"
  /\ UNCHANGED <<kind, stored, seen, cursor, inbox, closing, owed, failures,
                 runVars, asked, effect, history>>

CallTakesEffect ==
  /\ ipcCall = "made"
  /\ ipcCall' = "effective"
  /\ acted' = (acted \/ asked = "now")
  /\ UNCHANGED <<kind, stored, seen, cursor, inbox, closing, owed, failures, run,
                 prev, turn, streamed, outputs, replied, hadError, rejected, loose,
                 asked, effect, history>>

\* The call has returned: the group is marked only now.
WatcherMarks ==
  /\ ipcCall = "effective"
  /\ asked' = "no"
  /\ ipcCall' = "none"
  /\ effect' = TRUE
  /\ UNCHANGED <<kind, stored, seen, cursor, inbox, closing, owed, failures,
                 runVars, history>>

\* The call throws, perhaps after it took effect: an error answer and no mark.
CallThrows ==
  /\ ipcCall # "none"
  /\ asked' = "no"
  /\ ipcCall' = "none"
  /\ loose' = (loose \/ (asked = "now" /\ ipcCall = "effective"))
  /\ UNCHANGED <<kind, stored, seen, cursor, inbox, closing, owed, failures, run,
                 prev, turn, streamed, outputs, replied, hadError, rejected, acted,
                 effect, history>>

\* The turn's result is written to stdout; then the sentinel is looked at.
TurnCompletes ==
  /\ run = "working"
  /\ run' = IF closing THEN "exited" ELSE "idle"
  /\ closing' = FALSE
  /\ streamed' = TRUE
  /\ outputs' = Append(outputs, [msgs |-> turn, ok |-> TRUE])
  /\ served' = served \cup turn
  /\ turn' = {}
  /\ UNCHANGED <<kind, stored, seen, cursor, inbox, owed, failures, prev, replied,
                 hadError, rejected, acted, loose, ipcVars, answered,
                 dropped>>

\* The agent throws: an error result, and exit code 1.
TurnFails ==
  /\ "agent" \in Faults
  /\ run = "working"
  /\ run' = "failed"
  /\ streamed' = TRUE
  /\ outputs' = Append(outputs, [msgs |-> {}, ok |-> FALSE])
  /\ UNCHANGED <<kind, stored, seen, cursor, inbox, closing, owed, failures, prev,
                 turn, replied, hadError, rejected, acted, loose, ipcVars,
                 history>>

\* waitForIpcMessage: the sentinel wins over input.
IdleExits ==
  /\ run = "idle"
  /\ closing
  /\ run' = "exited"
  /\ closing' = FALSE
  /\ UNCHANGED <<kind, stored, seen, cursor, inbox, owed, failures, prev, turn,
                 streamed, outputs, replied, hadError, rejected, acted, loose, ipcVars, history>>

IdleResumes ==
  /\ run = "idle"
  /\ ~closing
  /\ inbox # {}
  /\ run' = "working"
  /\ turn' = inbox
  /\ inbox' = {}
  /\ UNCHANGED <<kind, stored, seen, cursor, closing, owed, failures, prev,
                 streamed, outputs, replied, hadError, rejected, acted, loose, ipcVars, history>>

\* closeStdin, by the idle timer (armed by a result) or a queued task.
Close ==
  /\ "close" \in Faults
  /\ run \in {"working", "idle"}
  /\ streamed
  /\ closing' = TRUE
  /\ UNCHANGED <<kind, stored, seen, cursor, inbox, owed, failures, runVars, ipcVars, history>>

\* killOnTimeout.
TimesOut ==
  /\ "timeout" \in Faults
  /\ run \in {"booting", "working", "idle"}
  /\ run' = "killed"
  /\ UNCHANGED <<kind, stored, seen, cursor, inbox, closing, owed, failures, prev,
                 turn, streamed, outputs, replied, hadError, rejected, acted, loose,
                 ipcVars, history>>

\* handleAgentOutput for the oldest result; a result may have no visible text.
HandleOutput ==
  /\ outputs # <<>>
  /\ ~rejected
  /\ LET r == Head(outputs) IN
       \/ /\ r.ok
          /\ replied' = TRUE
          /\ answered' = answered \cup r.msgs
          /\ UNCHANGED hadError
       \/ /\ hadError' = (hadError \/ ~r.ok)
          /\ UNCHANGED <<replied, answered>>
  /\ outputs' = Tail(outputs)
  /\ UNCHANGED <<kind, stored, seen, cursor, inbox, closing, owed, failures, run,
                 prev, turn, streamed, rejected, acted, loose, ipcVars,
                 served, dropped>>

\* Sending the reply throws: nobody catches it, and what is chained never runs.
SendFails ==
  /\ "send" \in Faults
  /\ outputs # <<>> /\ Head(outputs).ok
  /\ ~rejected
  /\ rejected' = TRUE
  /\ UNCHANGED <<kind, stored, seen, cursor, inbox, closing, owed, failures, run,
                 prev, turn, streamed, outputs, replied, hadError, acted, loose, ipcVars, history>>

-----------------------------------------------------------------------------
(* The end of a run *)

\* Exit code 0 and a kill after output wait for the chain; a failure does not.
Succeeded == outputs = <<>> /\ (run = "exited" \/ (run = "killed" /\ streamed))
Failed == run = "failed" \/ (run = "killed" /\ ~streamed)

Reset ==
  /\ run' = "none"
  /\ prev' = 0
  /\ turn' = {}
  /\ streamed' = FALSE
  /\ outputs' = <<>>
  /\ rejected' = FALSE
  /\ replied' = FALSE
  /\ hadError' = FALSE
  /\ acted' = FALSE
  /\ loose' = FALSE
  /\ asked' = IF asked = "now" THEN "before" ELSE asked

\* The run counts as a success for the queue.
RunSucceeds ==
  /\ Succeeded
  /\ ~hadError
  /\ failures' = 0
  /\ Drop(turn)
  /\ Reset
  /\ UNCHANGED <<kind, stored, seen, cursor, inbox, closing, owed, ipcCall, effect, served,
                 answered>>

Broken == Failed \/ (Succeeded /\ hadError)

\* An error, but retrying might repeat a reply or a side effect.
Unrepeatable_IgnoresEffect == replied
Unrepeatable_IgnoresReply == effect
Unrepeatable == replied \/ effect

RunGivesUp ==
  /\ Broken
  /\ Unrepeatable
  /\ effect' = FALSE
  /\ failures' = 0
  /\ Drop(turn)
  /\ Reset
  /\ UNCHANGED <<kind, stored, seen, cursor, inbox, closing, owed, ipcCall, served,
                 answered>>

\* An error: the cursor moves back and the queue retries, or cools down.
CanRetry_OffByOne == failures <= MaxRetries
CanRetry == failures < MaxRetries
CountFailure ==
  IF CanRetry
  THEN failures' = failures + 1 /\ owed' = TRUE
  ELSE failures' = 0 /\ UNCHANGED owed

RunRetries ==
  /\ Broken
  /\ ~Unrepeatable
  /\ cursor' = prev
  /\ CountFailure
  /\ Drop({m \in turn : m <= cursor'})
  /\ Reset
  /\ UNCHANGED <<kind, stored, seen, inbox, closing, ipcCall, effect, served, answered>>

\* The command was carried out; a reply is made of all messages, /research of
\* the newest one.
CommandServed ==
  /\ run = "command"
  /\ cursor' = Newest(turn)
  /\ \E taken \in {turn, {Newest(turn)}} :
       /\ served' = served \cup taken
       /\ Drop((Passed(Newest(turn)) \cup turn) \ taken)
  /\ failures' = 0
  /\ Reset
  /\ UNCHANGED <<kind, stored, seen, inbox, closing, owed, ipcCall, effect, answered>>

\* processGroupMessages throws before it moves the cursor; the polling loop may
\* have moved it past the command in the meantime.
CommandThrows ==
  /\ "agent" \in Faults
  /\ run = "command"
  /\ CountFailure
  /\ Drop({m \in turn : m <= cursor})
  /\ Reset
  /\ UNCHANGED <<kind, stored, seen, cursor, inbox, closing, ipcCall, effect, served,
                 answered>>

-----------------------------------------------------------------------------
\* The process dies with its containers and starts again: the database and the IPC
\* directories survive, a request that was being carried out included, and
\* recoverPendingMessages looks past the cursor.
CrashAndRecover ==
  /\ "crash" \in Faults
  /\ owed' = (Since(cursor) # {})
  /\ failures' = 0
  /\ Drop(turn)
  /\ effect' = FALSE
  /\ ipcCall' = "none"
  /\ Reset
  /\ UNCHANGED <<kind, stored, seen, cursor, inbox, closing, served, answered>>

-----------------------------------------------------------------------------
Run == \/ Spawn \/ Boot \/ TurnCompletes \/ IdleExits \/ IdleResumes
       \/ RunSucceeds \/ RunGivesUp \/ RunRetries \/ CommandServed

Check == CheckFindsNothing \/ StartRun \/ StartCommand

Next == \/ Arrive \/ Poll \/ Check \/ Run
        \/ CommandFallsBack \/ CommandThrows
        \/ AgentAsks \/ WatcherSchedules \/ WatcherActsUnmarked \/ WatcherCalls
        \/ CallTakesEffect \/ WatcherMarks \/ CallThrows \/ TurnFails \/ Close \/ TimesOut
        \/ HandleOutput \/ SendFails
        \/ CrashAndRecover

Spec == Init /\ [][Next]_vars

(***************************************************************************)
(* Fairness.  The loop polls for ever, the queue serves an owed check, a   *)
(* container boots, answers and looks at its directory; the idle timer and *)
(* the exit of the container process end every run.                        *)
(***************************************************************************)
Fairness ==
  /\ WF_vars(Poll) /\ WF_vars(Check)
  /\ WF_vars(Run) /\ WF_vars(HandleOutput) /\ WF_vars(Close)

FairSpec == Spec /\ Fairness

-----------------------------------------------------------------------------
(* Properties *)

Results == [msgs : SUBSET Stored, ok : BOOLEAN]

TypeOK ==
  /\ kind \in [Messages -> Kinds]
  /\ stored \in 0..LastMessage
  /\ seen \in 0..stored
  /\ cursor \in 0..stored
  /\ inbox \subseteq Stored
  /\ closing \in BOOLEAN
  /\ owed \in BOOLEAN
  /\ failures \in 0..MaxRetries
  /\ run \in Phases
  /\ prev \in 0..stored
  /\ turn \subseteq Stored
  /\ streamed \in BOOLEAN
  /\ rejected \in BOOLEAN
  /\ outputs \in Seq(Results)
  /\ replied \in BOOLEAN
  /\ hadError \in BOOLEAN
  /\ asked \in {"no", "now", "before"}
  /\ ipcCall \in {"none", "made", "effective"}
  /\ effect \in BOOLEAN
  /\ acted \in BOOLEAN
  /\ loose \in BOOLEAN
  /\ served \subseteq Stored
  /\ answered \subseteq served
  /\ dropped \subseteq Stored

\* A message is still before the cursor, in the hands of the agent, in its
\* directory, or was taken through a completed turn.
Accounted(m) == m > cursor \/ m \in turn \cup inbox \cup served

\* No interleaving of polling, piping, runs, rollbacks, kills and crashes loses
\* a message outside the places that write it off (Drop): acknowledgments, the
\* prompt limit, an unrepeatable error, a kill after output, a crash, input that
\* a failed run took over from an earlier one, and what a /research hides.
NoOtherLoss == \A m \in Stored : Accounted(m) \/ m \in dropped

\* With a healthy agent and no kill every stored message that asks for an
\* answer is accounted for; nothing may be written off.
NothingDropped == dropped = {}

\* A run never takes a message whose reply already went to the chat: the
\* rollback on error spares runs that replied ("re-processing would send
\* duplicates").  A result that is handled only after its run has failed is not
\* followed: it is sent although the rollback has been decided.
RunStartsFresh ==
  [][run # "launching" /\ run' = "launching" => turn' \cap answered = {}]_vars

\* A run is rolled back after one of its requests took effect ("retrying would
\* duplicate the side effects") only if the group is not marked, and then that effect is
\* one the mark misses: the watcher still awaits its call, the call threw, or it is of a
\* kind the watcher never marks.
Missable == loose \/ (asked = "now" /\ ipcCall = "effective")
RepeatsUnmarkedOnly == [][cursor' < cursor /\ acted => ~effect /\ Missable]_vars

\* Every message that wakes the agent is taken through a turn, or lies in the
\* directory of a container that was closed before it looked.
Settled ==
  \A m \in Messages :
    (m <= stored /\ kind[m] = "request") ~> (m \in served \cup inbox)

\* "wait for output chain to settle, return completion marker": once the container
\* is gone its run ends.
RunEnds == run \in {"exited", "failed", "killed"} ~> run = "none"

=============================================================================
