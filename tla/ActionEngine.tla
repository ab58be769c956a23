----------------------------- MODULE ActionEngine -----------------------------
(***************************************************************************)
(* The action engine (src/src/core/tasks/action-engine.ts) between the     *)
(* message loop of one chat (src/src/index.ts) and the agent.              *)
(*                                                                         *)
(* processGroupMessages moves the chat's cursor, awaits the typing sign,   *)
(* hands the messages to the engine, awaits the typing sign again and      *)
(* returns: it does not await the engine, whose promise lies beside it.    *)
(* The agent's run goes on after the queue's slot is free, a next one may  *)
(* start beside it, and its end changes the engine's records alone.  What  *)
(* the loop still sees is an output that comes while it awaits.            *)
(*                                                                         *)
(* The engine remembers every message it was given and every request that  *)
(* succeeded, in the database, and answers "duplicate" for those.          *)
(***************************************************************************)
EXTENDS Integers, FiniteSets, Sequences

CONSTANTS
  EngineMessages, \* model bound: messages 1..EngineMessages arrive
  EngineTexts,    \* what a message may say
  EngineRuns,     \* model bound: the engine runs the agent EngineRuns times
  EngineCrashes   \* model bound: restarts

VARIABLES
  chatMessages, \* the messages of the chat, in order
  engCursor,  \* lastAgentTimestamp
  engTurn,    \* processGroupMessages, between its awaits, with its hadError and outputSentToUser
  engFolder,  \* the queue knows the folder of an agent: what it pipes goes there
  engMark,    \* groupsWithSideEffects has the group
  engLive,    \* the agent's runs under way, by action
  events,     \* cp_inbound_events
  acts,       \* cp_actions, with the cp_runs row of each: [id, from, to, status]
  leases,     \* cp_action_leases, by action
  ran,        \* history: <<id, message>> of the runs that were started
  known,      \* history: runs whose turn, when it ended, knew of an output or effect of theirs
  rewound,    \* history: runs whose turn moved the cursor back
  piped,      \* history: messages that went to an agent beside the engine
  sameAs,     \* history: messages dropped because an equal request had succeeded
  crashes,    \* restarts so far
  cutShort    \* history: messages of a turn or a run that a restart ended

engineVars == <<chatMessages, engCursor, engTurn, engFolder, engMark, engLive, events, acts, leases,
                ran, known, rewound, piped, sameAs, crashes, cutShort>>

NoTurn == [at |-> "none", from |-> 0, to |-> 0, id |-> 0, sent |-> FALSE, failed |-> FALSE]

EngineInit ==
  /\ chatMessages = << >> /\ engCursor = 0
  /\ engTurn = NoTurn
  /\ engFolder = FALSE /\ engMark = FALSE
  /\ engLive = {}
  /\ events = {} /\ acts = {} /\ leases = {}
  /\ ran = {} /\ known = {} /\ rewound = {} /\ piped = {} /\ sameAs = {}
  /\ crashes = 0 /\ cutShort = {}

-----------------------------------------------------------------------------
(* An operator X_Y is X with a bug Y planted in it. *)

MessageSaid(t) ==
  /\ Len(chatMessages) < EngineMessages
  /\ chatMessages' = Append(chatMessages, t)
  /\ UNCHANGED <<engCursor, engTurn, engFolder, engMark, engLive, events, acts, leases, ran,
                 known, rewound, piped, sameAs, crashes, cutShort>>

\* The messages after the cursor, and those of a turn or of an action.
Missed == (engCursor + 1)..Len(chatMessages)
Batch(a) == a.from..a.to

\* processGroupMessages up to the first typing sign.
TurnStarts ==
  /\ engTurn = NoTurn /\ Missed # {}
  /\ engTurn' = [NoTurn EXCEPT !.at = "starting", !.from = engCursor + 1, !.to = Len(chatMessages)]
  /\ engCursor' = Len(chatMessages)
  /\ UNCHANGED <<chatMessages, engFolder, engMark, engLive, events, acts, leases, ran, known,
                 rewound, piped, sameAs, crashes, cutShort>>

\* The message loop pipes what follows, while the queue takes an agent to be running.
Pipes ==
  /\ engTurn # NoTurn /\ engFolder /\ Missed # {}
  /\ engCursor' = Len(chatMessages)
  /\ piped' = piped \cup Missed
  /\ UNCHANGED <<chatMessages, engTurn, engFolder, engMark, engLive, events, acts, leases, ran,
                 known, rewound, sameAs, crashes, cutShort>>

\* registerEvent is true for one that was not recorded before: one is enough to go on.
AllSeen_Any(batch) == batch \cap events # {}
AllSeen_Never(batch) == FALSE
AllSeen(batch) == batch \subseteq events

\* findSucceededActionBySemanticKey: the same prompt, word for word.
Equal(a, b) == [i \in 1..Cardinality(Batch(a)) |-> chatMessages[a.from + i - 1]]
                 = [i \in 1..Cardinality(Batch(b)) |-> chatMessages[b.from + i - 1]]
Answerable_Failed(b) == \E a \in acts : Equal(a, b)
Answerable(b) == \E a \in acts : a.status = "succeeded" /\ Equal(a, b)

\* processInbound up to the first await of the executor, and processGroupMessages up
\* to the second typing sign.
AnswersDuplicate ==
  /\ engTurn.at = "starting"
  /\ AllSeen(Batch(engTurn))
  /\ engTurn' = [engTurn EXCEPT !.at = "ending"]
  /\ UNCHANGED <<chatMessages, engCursor, engFolder, engMark, engLive, events, acts, leases, ran,
                 known, rewound, piped, sameAs, crashes, cutShort>>

AnswersEqual ==
  /\ engTurn.at = "starting"
  /\ ~AllSeen(Batch(engTurn))
  /\ events' = events \cup Batch(engTurn)
  /\ Answerable(engTurn)
  /\ sameAs' = sameAs \cup Batch(engTurn)
  /\ engTurn' = [engTurn EXCEPT !.at = "ending"]
  /\ UNCHANGED <<chatMessages, engCursor, engFolder, engMark, engLive, acts, leases, ran, known,
                 rewound, piped, crashes, cutShort>>

RunStarts ==
  /\ engTurn.at = "starting"
  /\ ~AllSeen(Batch(engTurn)) /\ ~Answerable(engTurn)
  /\ Cardinality(acts) < EngineRuns
  /\ events' = events \cup Batch(engTurn)
  /\ LET id == Cardinality(acts) + 1 IN
       /\ acts' = acts \cup {[id |-> id, from |-> engTurn.from, to |-> engTurn.to, status |-> "executing"]}
       /\ leases' = leases \cup {id}
       /\ engLive' = engLive \cup {id}
       /\ ran' = ran \cup {<<id, m>> : m \in Batch(engTurn)}
       /\ engTurn' = [engTurn EXCEPT !.at = "ending", !.id = id]
  /\ UNCHANGED <<chatMessages, engCursor, engFolder, engMark, known, rewound, piped,
                 sameAs, crashes, cutShort>>

\* The queue learns of the agent's process, also after it has given the slot away.
Registers ==
  /\ engLive # {} /\ ~engFolder
  /\ engFolder' = TRUE
  /\ UNCHANGED <<chatMessages, engCursor, engTurn, engMark, engLive, events, acts, leases, ran,
                 known, rewound, piped, sameAs, crashes, cutShort>>

\* handleAgentOutput of the run's turn: only while that turn lasts does anyone read its flags.
OutputSent(id) ==
  /\ id \in engLive /\ engTurn.id = id
  /\ engTurn' = [engTurn EXCEPT !.sent = TRUE]
  /\ known' = known \cup {id}
  /\ UNCHANGED <<chatMessages, engCursor, engFolder, engMark, engLive, events, acts, leases, ran,
                 rewound, piped, sameAs, crashes, cutShort>>

OutputFails(id) ==
  /\ id \in engLive /\ engTurn.id = id
  /\ engTurn' = [engTurn EXCEPT !.failed = TRUE]
  /\ UNCHANGED <<chatMessages, engCursor, engFolder, engMark, engLive, events, acts, leases, ran,
                 known, rewound, piped, sameAs, crashes, cutShort>>

\* The watcher carries out, and marks, a request that a run has left: the mark is the group's.
EffectMarked(id) ==
  /\ \E m \in 1..Len(chatMessages) : <<id, m>> \in ran
  /\ engMark' = TRUE
  /\ known' = IF engTurn.id = id THEN known \cup {id} ELSE known
  /\ UNCHANGED <<chatMessages, engCursor, engTurn, engFolder, engLive, events, acts, leases, ran,
                 rewound, piped, sameAs, crashes, cutShort>>

\* processGroupMessages after the second typing sign, and the queue's finally: what the
\* engine's promise will say is not there yet.
GoesBack_Sent == engTurn.failed /\ ~engMark
GoesBack_Marked == engTurn.failed /\ ~engTurn.sent
GoesBack == engTurn.failed /\ ~engTurn.sent /\ ~engMark
TurnEnds ==
  /\ engTurn.at = "ending"
  /\ IF GoesBack
     THEN engCursor' = engTurn.from - 1 /\ rewound' = rewound \cup {engTurn.id}
     ELSE UNCHANGED <<engCursor, rewound>>
  /\ engMark' = (engMark /\ ~engTurn.failed)
  /\ engTurn' = NoTurn
  /\ engFolder' = FALSE
  /\ UNCHANGED <<chatMessages, engLive, events, acts, leases, ran, known, piped,
                 sameAs, crashes, cutShort>>

\* The engine's last words on the action and its run, and the finally.
WithStatus(id, status) == {IF a.id = id THEN [a EXCEPT !.status = status] ELSE a : a \in acts}

RunSucceeds(id) ==
  /\ id \in engLive
  /\ acts' = WithStatus(id, "succeeded")
  /\ leases' = leases \ {id} /\ engLive' = engLive \ {id}
  /\ UNCHANGED <<chatMessages, engCursor, engTurn, engFolder, engMark, events, ran, known, rewound,
                 piped, sameAs, crashes, cutShort>>

\* The executor answers "error" (failed_retryable) or throws (outcome_unknown): nothing
\* tells the two apart, and nobody reads either.
RunFails(id) ==
  /\ id \in engLive
  /\ acts' = WithStatus(id, "failed")
  /\ leases' = leases \ {id} /\ engLive' = engLive \ {id}
  /\ UNCHANGED <<chatMessages, engCursor, engTurn, engFolder, engMark, events, ran, known,
                 rewound, piped, sameAs, crashes, cutShort>>

EngineRestarts ==
  /\ crashes < EngineCrashes
  /\ engTurn # NoTurn \/ engLive # {}
  /\ cutShort' = cutShort \cup {m \in 1..Len(chatMessages) :
                     \/ engTurn.at = "starting" /\ m \in Batch(engTurn)
                     \/ \E id \in engLive : <<id, m>> \in ran}
  /\ engTurn' = NoTurn /\ engFolder' = FALSE /\ engMark' = FALSE /\ engLive' = {}
  /\ crashes' = crashes + 1
  /\ UNCHANGED <<chatMessages, engCursor, events, acts, leases, ran, known, rewound, piped,
                 sameAs>>

EngineNext ==
  \/ \E t \in EngineTexts : MessageSaid(t)
  \/ TurnStarts \/ Pipes \/ AnswersDuplicate \/ AnswersEqual \/ RunStarts \/ Registers \/ TurnEnds
  \/ \E id \in 1..EngineRuns :
       \/ OutputSent(id) \/ OutputFails(id) \/ EffectMarked(id) \/ RunSucceeds(id) \/ RunFails(id)
  \/ EngineRestarts

-----------------------------------------------------------------------------
\* Two runs have a message in common only when the turn of the first moved the cursor
\* back and the second has a newer message too: a list of messages is acted on once.
SharedOnlyRewound ==
  \A a, b \in acts : a.id < b.id /\ Batch(a) \cap Batch(b) # {} =>
    a.id \in rewound /\ a.to < b.to

\* The cursor does not go back for a run of which an output has reached the user, or an
\* effect was marked, before the turn ended.
KnownStays == known \cap rewound = {}

\* A message the cursor has passed is about to be handed over, or in a run; or it was
\* piped, dropped as the equal of an answered request or cut short by a restart.
PassedIsAccounted ==
  \A m \in 1..engCursor :
    \/ engTurn.at = "starting" /\ m \in Batch(engTurn)
    \/ m \in piped \cup sameAs \cup cutShort
    \/ \E a \in acts : <<a.id, m>> \in ran /\ (a.status = "executing" => a.id \in engLive)

\* A request is dropped as already answered only when one with the same words has been.
AnsweredOnce ==
  \A m \in sameAs : \E a \in acts :
    a.status = "succeeded" /\ \E n \in Batch(a) : n # m /\ chatMessages[n] = chatMessages[m]

\* The records follow the runs: a run under way has the lease of an action that is
\* executing, and an action left executing is one that a restart cut short.
RecordsFollow ==
  /\ engLive \subseteq leases
  /\ \A a \in acts : a.status = "executing" => a.id \in engLive \/ Batch(a) \subseteq cutShort
  /\ \A id \in engLive : \E a \in acts : a.id = id /\ a.status = "executing"

\* Dedupe, records and cursor together: no list of messages is acted on twice, and no
\* message is passed over unaccounted for or taken for an answered one.
EngineCorrect == SharedOnlyRewound /\ KnownStays /\ PassedIsAccounted /\ AnsweredOnce /\ RecordsFollow

=============================================================================
