# Verification of selfhosted-claw

TLA+ specifications of the control plane under `src/src`, checked with TLC, and
proofs checked with TLAPS.  Definitions are named after the code; `PROJECT.json`
maps each of them to its lines, and lists components, runs, planted bugs,
disagreements between code and documentation, hazards and theorems.

## 1. The system

The control plane is one Node.js process.  Channels (Signal, WhatsApp, Slack, SMS,
phone voice) write incoming messages to a SQLite database; a polling loop hands
the messages of each registered chat group to an agent in a Docker container; the
container streams results back on stdout and writes requests into an IPC directory
that the process watches.  Everything runs on one event loop: a function runs
undisturbed up to its next `await`, and all that is difficult here happens between
two such stretches, or between the process, its containers and a crash.

### Inventory

| Component | State | Operations | Talks to | Hard part | Correct when |
|---|---|---|---|---|---|
| Group queue (`group-queue.ts`) | per group: active, idle, running task, pending work, retries, cooldown; slots, parked groups | enqueue a check or task, end of a run, retry timers, pipe input, close, shut down | message routing, scheduler, container | five places start a run; wakeups; timers | slots exact, one run per group, no lost work, tasks first and in order |
| Message routing and run (`index.ts`, `agent-runner`) | two cursors, input directory, container phase, chained outputs, side-effect mark | poll, pipe, run, stream, roll back, recover | database, queue, container, IPC, research | cursors move before the work; crash, kill, late results | no message lost or answered twice, marked effects not repeated, runs end |
| Inbound path (`index.ts`, `channels/signal.ts`, `inbound-guard.ts`) | rows, cursors, seen ids, decisions under way | receive, guard, command or reply, store, poll | channels, guard, control commands | messages overtake each other; redelivery; errors | what is stored is noticed, a command acts once |
| Container runner (`container-runner.ts`) | process, timer, chain of outputs, verdict | spawn, stdout, timeout, exit, reply | queue, routing | late output, kill races, results after the verdict | verdict, cursor and timer agree with the container |
| Agent's history (`agent-runner`) | history file, summary, archive | turn, tool round, trim, compact, start | model backend | kill between a tool and the save; compaction cut short | effects remembered, nothing forgotten, calls answered |
| Hot runner pool (`hot-runner-pool.ts`) | sessions, status, waiters | prewarm, execute, reap, close | run-spec dispatcher, Docker | stale choices across awaits | entries come back, waiters are woken, no session leaks |
| Task scheduler (`task-scheduler.ts`, `ipc.ts`, `db.ts`) | task table, snapshots in the queue | poll, run, run now, create, pause, resume, cancel, edit | queue, container, admin server, IPC | rows change while their snapshot waits or runs | drift-free, no slot twice, stops stick, due tasks run |
| IPC watcher (`ipc.ts`) | request files, dirty flag, sweep | file event, sweep, carry out, unlink, echo filter | agents, scheduler, routing | writes during a sweep; crash between effect and unlink | every request found, once, no echo |
| Deep research (`research/service.ts`) | jobs, slots, pending questions | start, execute, ask, answer, cancel, restart | routing, providers | executions of one job overlap | slots exact, users told once, answers kept |
| Action engine (`core/tasks/action-engine.ts`) | events, actions, leases, dedupe keys | process an inbound batch, execute, retry | routing, database | a run nobody awaits, dedupe, restarts | no list of messages acts twice, none is passed over unaccounted for |
| Control actions (`control-actions.ts`, `control-store.ts`) | pending approvals, Signal profile | preview, approve, reject, natural reply | channels, admin server | an approval awaits its action | an approved action runs once, decisions are final |
| Service monitor (`integrations/service-manager.ts`) | health object, attempts, breaker | check, start, stop, reset | Docker | overlapping checks, replaced health objects | restarts bounded and spaced, breaker holds |
| Voice runner (`voice-runner/live-runner.ts`) | session, turns, response, claimed transcript | audio, partials, finals, speech, end | routing, speech services | barge-in, late speech, four sources of transcripts | only the active response speaks, turns end |
| Voice runner's process (`voice-runner/controller.ts`) | child process, pending requests | spawn, request, exit, shut down | live runner | late exit events | no process lost, no request waits for the dead |
| Phone voice (`integrations/phone-voice.ts`, `phone-voice-ws.ts`) | gateway socket, call tables, handoffs, browser sessions | dial, call events, handoff, drain, stream | gateway, voice runner | handlers across awaits, repeated events | line comes back, tables agree, events once in order |
| Streaming recognizer (`scripts/phone-voice-stt/server_stream_stt.py`) | buffer, utterance, lock, tasks | audio, flush, end, partial, final | voice runner | audio while a final is generated | what was said is in one final |
| SMS channel (`integrations/sms-socket.ts`) | sockets, connection generation, attempt, reconnect timer, last seen time, seen messages | connect, send, disconnect, callbacks of each socket | phone gateway, routing | callbacks of stale sockets, rehydration | each SMS once, none skipped, stops hold, reconnects |
| WhatsApp channel (`integrations/whatsapp.ts`) | library sockets, outgoing queue | connect, reconnect, send, flush | routing | queue at reconnect, late closes | one line, messages once and in order |
| Slack channel, channel registry (`integrations/slack.ts`, `channel-runtime.ts`, `admin-server.ts`) | instances, sockets, timers, list | activate, deactivate, reconnect, startup | routing, owner | overlapping requests and retries | one reachable connection, stops hold |
| Remote control (`remote-control.ts`) | detached process, state file, output file | start, poll, stop, restore | owner | overlapping starts, restart of the host | no stray process, its own URL |
| Google tokens (`integrations/google-contacts.ts`, `calendar*.ts`, `control-actions.ts`) | two token stores, login state | refresh, log in | Google | a refresh writes back what it read before an await | pairs match, the newest grant is kept |
| Agent's turn (`agent-runner/src/index.ts`, `response-fallback.ts`) | history, tools and tokens of the request, trims, rounds | ask, refused, ask for less, trim, call a tool, fall back | model backend | two nested retry loops on an estimate | no request twice, the most history kept, one reply |
| Streams of the model (`parseEventStream`, `readSseData`, `generateTurn`) | buffers, tool calls by index, thought filter, phrases | a piece, the end, an interruption | model backend, synthesis | cuts anywhere | every event whole and in order, thoughts never spoken |
| Container runtime (`container-runtime.ts`) | running containers, what queue and pool know of them | clean up, start, stop, reap | Docker, queue, pool | crashes; ages as words; two owners | live runs are spared, strays are stopped |
| Research providers (`research/providers.ts`) | breaker per provider, shared by all jobs | search, fetch, open, close | search services, research | chains that run side by side | a breaker is open for cause, no chain fails untried |
| Log (`logger/sqlite-stream.ts`, `pruner.ts`) | buffer, table, file | write, flush, prune, exit | everyone | refused batches, an exit between flushes | entries in order, oldest pruned |
| Run-spec dispatcher, database, settings, memory, contacts | tables and files | read, write | all | none: synchronous, or one awaited call | modelled inside their users |
| Policy, skills, text egress, configuration, admin UI, setup | tables, text | decisions, formatting | all | none | table tests |

## 2. Modules

| Module | Models | State corresponds to |
|---|---|---|
| `GroupQueue` | `src/src/group-queue.ts` | one variable per field of `GroupState` and of the class; `inflight` counts the `runForGroup`/`runTask` calls that await their work, `timers` and `deferred` the armed `setTimeout`s |
| `TaskFifo` | the promise of the queue about tasks: first in, first out, no duplicates | `queue[g]`: accepted tasks not yet finished |
| `ChatMessages` | one chat's way through `src/src/index.ts`, `container-runner.ts`, the watcher's mark in `ipc.ts` and the input loop of `agent-runner` | `seen` and `cursor` are `lastTimestamp` and `lastAgentTimestamp`; `run` is the phase of container and `processGroupMessages`; `served`, `answered`, `dropped` are history |
| `InboundMessages` | the receive path of a channel, `onMessage` and `storeInboundMessage` of `index.ts`, the guard, and the two cursors by timestamp | `delivery` says at which `await` a delivery is; `rows` is the table; `given` is history |
| `ContainerRun` | `runContainerAgent` of `container-runner.ts` and the end of `processGroupMessages`, over the attempts of one batch | `container`, `chain`, `hardTimer`, `verdict` per attempt; what a settled attempt still does |
| `AgentHistory` | `runConversationTurn`, `saveHistory`, trimming and compaction of `agent-runner` | `saved` is the history file, `summary` and `archive` the others; `effects`, `cutRound`, `everSaved` are history |
| `HotRunnerPool` | `src/src/runner/common/hot-runner-pool.ts` | `sessions` in map order, `busy`, `waiters`; `pc[c]` says at which `await` a call is |
| `TaskScheduler` | `src/src/task-scheduler.ts`, the task table of `db.ts`, the task requests of `ipc.ts` | `row` is the table, `queue` holds the captured rows; `anchor` and `fired` are history |
| `IpcWatcher` | the sweep of `ipc.ts`, its file events, the duplicate cache, and the waiting side in `agent-runner` | `spool` is the directories, `dirty`, `todo`, `listed`, `current` the sweep |
| `ResearchJobs` | `research/service.ts` | `job` is the row of `cp_actions`, `exec[e]` an execution and its `await`, `pendingJob` the chat's question |
| `ActionEngine` | `processInbound` with its records, dedupe and lease, and the turn of `processGroupMessages` that calls it without awaiting it | `acts`, `events`, `engCursor`; `engTurn` is the turn, `engLive` the runs |
| `ControlApprovals` | pending actions in `control-actions.ts` and `control-store.ts`, by command, admin UI and plain reply | `row` is `pending-actions.json`, `calls` the approvals at their `await` |
| `ServiceHealth` | `service-manager.ts` | `health[o]` the health objects, of which the newest is current; `checks` under way |
| `VoiceTurns` | one call of `voice-runner/live-runner.ts` | `speaking` is `activeResponse`, `handled` is `streamingFinalHandled`, `turnAt` the `await` of each turn |
| `VoiceSidecar` | `VoiceRunnerSidecarClient` of `voice-runner/controller.ts` | `child`, `kid`, the pending requests |
| `PhoneGateway` | the gateway connection of `phone-voice.ts` | `wire` per socket, `opening` the `await` of its `onopen`, `promise` is `connectPromise` |
| `PhoneCallTable` | the tables of calls and handoffs of `phone-voice.ts` | one variable per map; each handler's `await` |
| `BrowserVoice` | browser voice sessions, their queue and WebSockets (`phone-voice-ws.ts`) | `events`, the streams and what each got |
| `SpeechStream` | one connection to `server_stream_stt.py` | one variable per field of `StreamSession`; `loop`, `partialAt` say who has or awaits `infer_lock` |
| `WhatsAppLine` | connection and outgoing queue of `whatsapp.ts` | the sockets, `outgoing`, the flush and the direct sends at their `await` |
| `SmsSocket` | `src/src/integrations/sms-socket.ts` | `phase`, `gen`, `asked`, `since`, `link` per socket; the fields of the channel; `pc[c]` per send |
| `SlackChannels` | `slack.ts`, `channel-runtime.ts`, the startup of `index.ts` and the admin requests about a channel | `channels` is the registry; each instance's timer, each attempt's stage and who awaits it |
| `RemoteControl` | `remote-control.ts` | `session`, `stateFile`, the processes, the polling starts |
| `GoogleTokens` | both token stores of `google-contacts.ts`, the refreshes of `calendar-runtime.ts`, `calendar.ts` and `control-actions.ts`, both logins | `own`, `legacy`; `asking[c]` is what a refresh read before its `await` |
| `TurnReply` | `runConversationTurn` with `createChatCompletion`, trimming and `recoverSilentTurnReply` of `agent-runner`, `response-fallback.ts` | `history` is `workingHistory` with sizes, `limit` is `max_tokens`; `asked` (the requests made) is history |
| `EventStream` | `parseEventStream` of `agent-runner` and `readSseData` of `live-runner.ts`, on the same bytes | one variable per buffer; `textRead` and `toolCalls` are what the agent has |
| `AnswerStream` | `generateTurn`, the thought filter and `splitReadyVoicePhrases` of `live-runner.ts` | `held` and `inThink` are the filter's, `pending` is `pendingPhrase`, `uttered` what was given to `emitTextDelta` |
| `ContainerReaper` | `container-runtime.ts`, with the containers of `group-queue.ts` and `hot-runner-pool.ts` | `alive` and `age` are `docker ps`, `inQueue` is `getActiveContainerNames`, `pool` the sessions of a lane |
| `ProviderChain` | `ChainProvider` and the breakers of `research/providers.ts` | `breaker` is `breakerStates`, `at[j]` the provider a chain awaits |
| `LogStore` | `sqlite-stream.ts`, `pruner.ts` and the exit of `logger.ts` | `unwritten` is the buffer; `rows`, and `pages`, the size of the file |
| `AdmissionProofs` | proofs about what admits the runs of agents: `GroupQueue`, with its refinement of `TaskFifo`, `HotRunnerPool` and `TaskScheduler` | |
| `ChannelsProofs` | proofs about the modules that `MCChannels` puts together | |
| `LinesProofs` | proofs about the modules that `MCLines` puts together, but for `VoiceTurns`, and about `ChatMessages` | |
| `ServicesProofs` | proofs about modules of `MCServices`: the container's run and its reaper, providers, tokens, the watcher, the action engine, the log | |
| `WorkProofs` | the same for `AgentHistory`, `ControlApprovals`, `ResearchJobs` and `ServiceHealth` | |
| `StreamProofs` | sequences joined and cut, recursion on them, and the invariants of `EventStream` and `AnswerStream` | |
| `ReplyProofs` | proofs about `TurnReply`, `VoiceTurns` and `SpeechStream`; `RepliesCorrect` of `MCServices` from them and from `StreamProofs` | |
| `NumberLemmas` | induction over `Nat`, least and greatest numbers, what `Append`, `SubSeq` and `\o` do | |
| `MC...` | the instances for TLC: bounds, symmetry, fairness | |

An action is everything the code does between two `await`s, or in one callback:
nothing else runs on the event loop meanwhile.  Settling a promise and the
continuations of those who await it are one step where no other callback can come
between.  better-sqlite3 is synchronous, so a statement is part of its action.
Where a function awaits with a decision already taken (the pool, the scheduler's
captured row, a research execution, a token refresh), the decision is kept in the state
and used later as the code does.

**How the modules fit together.**  `InboundMessages` ends with a stored message and a
check that is owed; `ChatMessages` begins there (`Arrive`) and takes from `GroupQueue`
that a group has one run at a time and that an owed check starts one, if its slot comes
(`OneRunPerGroup`, `MessagesServed`).  `ContainerRun` looks closer at what `ChatMessages`
keeps in one phase: the results and requests of a run that was already settled.
`IpcWatcher` carries out the requests of both; `AgentHistory` is the memory of the agent
inside.  `TaskScheduler` takes the queue as `TaskFifo`, which `GroupQueue` is proved to
implement (`ImplementsFifo`).  `SmsSocket`, `WhatsAppLine`, `SlackChannels` end where
`onMessage` is called.  A call goes through `PhoneGateway` (the line), `PhoneCallTable`
(its session), `VoiceSidecar` (the process), `SpeechStream` (the transcripts) and
`VoiceTurns` (the turns), whose finals and partials come as late as `SpeechStream` sends them.

Below them, `TurnReply` is what `AgentHistory` keeps of a turn, seen from the model's side;
`EventStream` reads what both it and `AnswerStream` are given, and the texts of `AnswerStream`
are the sentences of `VoiceTurns`.  `ContainerReaper` looks at the containers of `GroupQueue` and
`HotRunnerPool` from outside, and `ProviderChain` is inside an execution of `ResearchJobs`.

An operator named `X_Y` is `X` with a plausible bug `Y`: the properties are known to
notice each of them (`PROJECT.json`, `mutants`).

## 3. Runs

| Run | Instance | Distinct states | Question |
|---|---|---|---|
| `groupqueue_safety` | 3 groups, 2 slots, 2 tasks, 1 retry, 1 timer per group, 4 arrivals | 182 045 | slots, one run per group, no lost wakeup, parking, preemption, tasks first, FIFO |
| `messages_safety` | 3 messages of 3 kinds, prompt limit 2, 1 retry, all 7 faults | 4 487 771 | no loss but the listed ones, no run on answered messages, only unmarked effects are repeated |
| `live` | queue: 2 groups, 1 slot, 1 task, 4 arrivals; chat: 4 messages, trigger needed, closing and failing pipes | 81 554 | accepted work starts, every request is taken, nothing is written off |
| `messages_send` | a send that throws | violation | the run of a dead container never ends |
| `pool` | 3 calls, 2 sessions, failures, one close | 311 705 | entries come back, waiters are woken, no leak, calls end |
| `pool_shared` | 2 calls, no faults | violation | two jobs on one session |
| `scheduler` | 2 tasks, one malformed, 3 types, 4 polls, 3 interventions | 850 907 | grid, no slot twice, stops stick, due tasks run |
| `scheduler_stale` | 2 tasks, pause and cancel | violation | a paused task runs |
| `lines` | WhatsApp line, phone gateway, call tables, sidecar, browser session, a call of two utterances | 712 086 | see section 4 |
| `services` | container, watcher, history, research, engine, approvals, monitor, a call of one utterance, recognizer, tokens; turn with its model, streams, spoken answer, container reaper, log, providers | 1 214 076 | see section 4 |
| `channels` | SMS socket, Slack, inbound messages, remote control | 3 802 345 | see section 4 |
| `sms_reconnect` | 2 sockets, 1 send | violation | a failed send ends the reconnecting |

The runs `live`, `lines`, `services` and `channels` check several components that share
no state.  A variable `part` chooses one of them in the initial state and never changes;
the others keep one initial state.  So the states of such a run are the disjoint union of
those of its components, as if each had a run of its own, and a property that conjoins
promises of several components is decided for each on its own states.

`CHECK_DEADLOCK FALSE` everywhere: the program idles when nothing arrives, and bounded
instances run out of arrivals, messages or sockets.

### Why the bounds are enough

- *GroupQueue.*  Three groups on two slots is the smallest instance in which one group
  runs, one waits and a third competes for the freed slot, and in which two slots can be
  given back in either order; two tasks per group show order and duplicates.  Four arrivals
  let a group be enqueued while it runs, cools down and is parked.  Groups and tasks are
  interchangeable, so symmetry is sound; the liveness run uses none.  For safety the bounds
  do not matter: section 5.  `MaxTimers` limits the armed timers of a group: an
  enqueue that would arm one too many is not considered, nor a failure that would.
- *ChatMessages.*  Three messages with prompt limit two give one that is cut off, one in the
  prompt and one that arrives during the run; a retry and its last failure both occur.
  To keep the instance small, `MCInit` begins with a request and has one acknowledgment or one
  command at most, second or third.  A message is its timestamp: timestamps in the code
  are distinct per chat except for equal clock values, which are not modelled.
- *HotRunnerPool.*  Three calls on two sessions is the smallest instance with a waiter and,
  in that, with growth past the maximum, reaping across an await and a close in between.
- *TaskScheduler.*  The clock runs to four with a period of two, so that a slot is missed,
  run late and run by hand; three interventions combine, for example, an edit, a crash and a
  run by hand.  `Values = {2}`, or 0 for a value that is not a number.
- *SmsSocket.*  Three sockets are one that was forgotten, one that is closing and one being
  dialled.  Three messages are one before the loss of the connection, one during it and one
  after.
- *InboundMessages.*  Two messages, each delivered up to twice, on two clock values: they
  overtake each other (the first was sent no later than the second), carry the same time, and are
  redelivered around a crash.  At most one is a command or an answer, as two of them meet nowhere.
- *ContainerRun.*  Two attempts of one result each: the second meets the late results of the first.
- *AgentHistory.*  Two turns of up to two rounds of up to two calls, with a window of four: trimming,
  compaction and archiving all occur, and three starts let a kill interrupt each of them and fall between
  two calls of a round.
- *IpcWatcher.*  Two directories, one of a message and one of a tool request, and one break: a write
  falls before, into and behind a sweep's listing of its own and of the other directory.
- *ResearchJobs.*  Two jobs in one chat (a given one starts first, as they are alike), one slot,
  three executions: a job overlaps with itself, and the
  other asks in between.
- *ActionEngine.*  Three messages of two texts (which are alike: the first
  message has a given one), two runs and a restart: a run whose turn goes back and the one
  beside it, an equal text, and a message that is piped.
- *ControlApprovals.*  Two actions and two approvals under way.
- *ServiceHealth.*  Seven ticks and a threshold of four reach each backoff up to the maximum and the open
  circuit; two health objects are an old and a new one.
- *WhatsAppLine, PhoneGateway, VoiceSidecar, SlackChannels.*  Three sockets, processes or instances: an old
  one whose callback is late, the current one and one being made; four attempts in `SlackChannels`, as two
  instances may each try twice.
- *PhoneCallTable.*  Two calls of two numbers and two runner sessions: the same number twice, or two at once.
- *VoiceTurns.*  In `lines`, two utterances of plain speech with answers of two sentences, for barge-in; in
  `services`, one utterance of any content, or of speech after a greeting, with every source of transcripts
  and an answer of one sentence.
- *SpeechStream.*  Four frames on a window of two: an utterance longer than the window, a final with audio
  behind it and two utterances.
- *TurnReply.*  Three histories with prompts of three sizes in a window of twelve tokens: a request fits, fits
  with fewer tokens for its answer, fits after trimming, or not at all; two rounds, so that a second
  request is larger than one that fitted.
- *EventStream.*  All streams of three events of five kinds with three kinds of line ends, and what may follow
  without a blank line, cut into all pieces.
- *AnswerStream.*  All answers of four blocks (word, sentence, comma, tags, beginning of a tag) in all pieces, with
  tags of two and three characters and phrases of three: a tag, a sentence and a phrase are cut everywhere.
- *ContainerReaper.*  Two agents' containers, one lane of two sessions, two starts: one start finds what the
  other left. Another lane has names and sessions of its own, and meets the first only in being there at a start.
- *ProviderChain.*  Two jobs on two providers: one opens a breaker the other is about to meet; two failures and a
  cooldown of two ticks in a clock of three let it open, end and open again.
- *LogStore.*  Six entries, flushed by two, in a table of three: the file grows too large twice; three days are one
  more than the retention.
- *GoogleTokens.*  Two refreshes and two logins of the contacts, with those of the calendar, on three tokens.

### Fairness

- `GroupQueue`: `WF` of the end of a run (the container has a hard timeout, so
  `processMessagesFn` and `task.fn` settle, the case of `messages_send` apart), of timers
  (`setTimeout`) and of time.  No fairness of arrivals or of the container's reports.
- `ChatMessages`: `WF` of the polling loop, of the queue serving an owed check (from
  `GroupQueue`), of the container's own progress (it boots, answers, looks at its directory:
  its timeout ends it otherwise), of the handling of outputs and of the idle timer that
  closes the input.  Nothing is assumed of the watcher or of faults.
- `HotRunnerPool`: `WF` of each call's progress; the watchdog of the waiters is not counted on.
- `TaskScheduler`: `WF` of the polling loop and of the queue.
- `VoiceTurns` (`VoiceFairness`): `WF` of each turn's next step.  Model, synthesis and recognizer
  settle: each request has a timeout or an abort signal; the callbacks of the host answer over the
  sidecar's pipe.  Nothing is assumed of the caller, and nothing of streams and finals.
- The other modules state no liveness; their properties say instead that the means are there:
  `KeepsReconnecting`, `PhoneComesBack`, `NeverGivesUp`, `QueueMoves`, `NotOverlooked`,
  `StoredIsNoticed`, `ExecutingIsRun` and `NobodyWaitsForTheDead` name the timer, the attempt, the
  socket or the event that will go on, without which the component would stand still for ever.

## 4. What the properties say

- **GroupQueue.**  `RunsCounted` (`SlotsRespected`, `OneRunPerGroup`): five places start a run, and all of
  them count exactly.  `ParkingCorrect` (`NoLostWakeup`, `ParkedOnlyWhenFull`): work accepted by a group
  without a slot has a parked entry or a timer (a task has no timer), a parked group is parked once, has
  work and no slot is free meanwhile.  `IdlePreempted`: task and idleness may come in
  either order and the `_close` sentinel is written.  `TasksFirst`: message runs never
  overtake a group's tasks, although `enqueueMessageCheck` does not look at them.
  `TasksInOrder`: the refinement of `TaskFifo`.  `AllServed` (`TasksServed`, `MessagesServed`): under a
  bounded number of arrivals, since a group that keeps bringing work is drained before the
  parked ones.
- **ChatMessages.**  `NoOtherLoss`: a stored message is ahead of the cursor, with the agent,
  in its directory, served, or was written off at one of the places the property names.
  `NothingDropped` and `Settled`: without kills, errors and crashes nothing is written off and
  every request is taken through a turn or lies in the directory of a container that closed
  first.  `RunStartsFresh`: no run takes messages answered before.  `RepeatsUnmarkedOnly`:
  a rollback follows a request of the run that took effect only while nothing is marked, and the request is
  of a kind that is never marked, its call threw, or the watcher still awaits it.
- **InboundMessages.**  `MessagesCorrect`: `StoredIsNoticed` (a stored message will be looked at),
  `PassedOverOnlyLate` (the cursor passes only messages that came late), `ActsOnce` (redelivery),
  `NothingVanishes` (only guard, crash and error end a message).
- **ContainerRun.**  `RunCorrect`: `NothingAfterSuccess`, `ReplyOrRetry`, `EffectOrRetry` (a rollback
  neither repeats a reply nor an effect, but for those it cannot see), `TimerFollowsContainer`.
- **AgentHistory.**  `HistoryCorrect`: `EffectsRemembered` (but for the round a kill ended), `NothingForgotten`,
  `SummaryCovers`, `CallsAnswered` (never a tool call without all its results, which a backend refuses for
  good: a save after each call instead of each round would break it).
- **HotRunnerPool.**  `PoolCorrect` (`PoolTypes`, `BusyIsUsed`, `WaitersHaveWaker`, `NoSessionLeaks`) and `CallsEnd`
  hold although `ExclusiveUse` does not.
- **TaskScheduler.**  `TasksOnGrid` (`SchedulerTypes`, `OnGrid`): interval tasks do not drift.  `RunsRespectRows`: a due time is
  run again only if its run was lost (`NoSlotTwice`), and a run that ends does not undo what a user
  did meanwhile (`StopsStick`).  `DueRuns`: the set of due tasks is worked off.
- **IpcWatcher and GoogleTokens.**  `ToolsCorrect`: `RequestsCorrect` (`NotOverlooked`: no request waits
  for the slow sweep; `CarriedOutOnce`; `NoEcho`) and `TokensCorrect` (`PairsMatch`: an access token is
  kept with its own grant; `NewestGrantKept`; `LoginCanComplete`; `StaysConnected`).
- **ResearchJobs.**  `JobsCorrect`: `SlotsCounted`, `ToldOnce`, `ExecutingIsRun`, `QuestionReachable`,
  `PendingWaits`, `AnswersKept`, `SucceededDelivered`.
- **ActionEngine.**  `EngineCorrect`: `SharedOnlyRewound` (two runs share a message only when the turn of the first
  went back and the second has a newer one), `KnownStays` (a turn that knows of an output or an effect of its
  run does not go back), `PassedIsAccounted`, `AnsweredOnce`, `RecordsFollow`.
- **ControlApprovals.**  `ApprovalsCorrect`: `AppliedOnce`, `ProfileInStep`, `DecisionHolds`,
  `ReplyIsUnambiguous`.
- **ServiceHealth.**  `MonitorCorrect`: `BackedOff`, `BreakerHolds`, `OpenUntilReset`.
- **VoiceTurns and SpeechStream.**  `SpeechCorrect`: sentences in order (`SpokenInOrder`), nobody but
  the active response is heard (`OnlyActiveSpeaks`), the history holds what was spoken
  (`RecordedWasSpoken`).  `TurnsEnd`: liveness.  `TranscriptsCorrect`: `HearingCorrect`
  (`DeafOnlyDuringTurn`: the claimed transcript is freed) and `StreamCorrect` (`VoiceIsTranscribed`:
  what is said is in a final; `FinalsApart`; `LateByOne`, `OneLatePartial`: how late a partial may be).
- **VoiceSidecar.**  `SidecarCorrect`: `NoLostSidecar`, `OwnExitOnly`, `NobodyWaitsForTheDead`.
- **PhoneGateway and PhoneCallTable.**  `PhoneCorrect`: `PhoneComesBack`, `NoSelfWait` (the attempt that asks
  its questions must not wait for itself), `NoTimerWhenStopped`; `ActiveHasSession`, `HandedOnce`,
  `HandoffsWait`.
- **BrowserVoice.**  `EventsCorrect`: `NoEventLost`, `InOrderPerStream`.
- **WhatsAppLine.**  `LineCorrect`: `OneLine`, `AcceptedIsKept`, `QueuedInOrder`, `QueueMoves`.
- **SmsSocket.**  `SmsCorrect`: `DeliveredOnce` (pushes, histories and forgotten sockets overlap, and each
  SMS is handed over once), `NoGap` (no SMS is skipped while histories precede events: `early`
  is the exception, see below), `KeepsReconnecting`.  `StopHolds`.
- **SlackChannels.**  `ConnectionsCorrect`: `SlackCorrect` with `OneReachable` (what is connected can be stopped, and is one),
  `NeverGivesUp`, `HaltHolds`, `OnlineIsOpen`.
- **RemoteControl.**  `ConnectionsCorrect`: `RemoteCorrect` with `NoStray`, `UrlIsItsOwn`, `FoundAgain`.

- **TurnReply.**  `RepliesCorrect`: `TurnCorrect` with `NeverAskedTwice` (every refusal changes the next request, so both loops
  end), `FitsIsAnswered`, `RoomIsUsed` (no answer is cut shorter than it must be), `KeepsMost` (trimming
  drops no more than it must), `SendIsKnown` (no "dead end" after a send).
- **EventStream and AnswerStream.**  `RepliesCorrect`: `EventStreamCorrect`: both readers get every event, however the bytes
  are cut (`AgentPutsTogether`, `VoiceHasAll`), and as soon as it is there (`VoiceInTime`).
  `AnswerCorrect`: against a reference definition of what is to be said (`Said`), `HeardInOrder`,
  `OnlyTheEndMissing`, `RecordedIsHeard`, `SpokenInTime`.
- **ContainerReaper.**  `HostCorrect`: `ContainersCorrect`: `TrackedSpared`, `ZombiesGo`.
- **ProviderChain.**  `HostCorrect`: `ChainsCorrect`: `OpenForCause`, `FailsTried` (although `allOpen` is read once and breakers
  open while the chain runs), `EveryoneConsidered`.
- **LogStore.**  `HostCorrect`: `LogCorrect`: `EntriesAccounted`, `OldestPruned`, `BufferBounded`.

Where the code breaks a promise in some situation, the property excepts exactly that situation by a
history variable (`crossed`, `late`, `loose`, `overlapped`, ...) that the step sets which brings it about;
section 6 says what happens then.  Without its exception each of these properties is violated.

## 5. Proofs

`tlapm` checks these for every value of the constants (any finite set of groups, any
number of slots, retries, tasks, sockets, messages, ...).  Each safety property that a passing run
checks is a theorem.  The only assumptions are those on
the constants, one named `...Assumption` in each module that declares some: bounds are numbers, sets
that are counted are finite, markers are not values of what they mark.  TLC evaluates each of them
in the runs of its module.  A theorem about one part of an instance (`ServicesSpec => ...`) holds
of every behaviour in which the other parts do anything at all, since they share no state.

**GroupQueue** (`AdmissionProofs`).  The inductive invariant is
`IInv == TypeOK /\ SlotsRespected /\ OneRunPerGroup /\ NoLostWakeup /\ ParkedOnlyWhenFull`.
No part is inductive alone.  An enqueue that finds a free slot must not leave another group
parked beside it: `ParkedOnlyWhenFull` gives `FreeMeansUnparked`.  A run that ends gives back
one slot, and `drainWaiting` must use exactly it: since the slots were full and every parked
group has work and no run, its loop takes the oldest group and stops (`PoppedOne`); with nobody
parked it does nothing (`PoppedNone`).  That no group is parked while active needs
`OneRunPerGroup`, and that the count stays exact needs that the started groups were inactive
(`ActiveAfterSwitch`, by the cardinality theorems).  From `Invariant` follow `TypeCorrect`,
`SlotSafety`, `MutualExclusion`, `WorkRemembered` and `ParkingExact`, and with them `RunsAreCounted`
(`RunsCounted`) and `ParkingIsCorrect` (`ParkingCorrect`), the forms the run checks; `TasksBeforeMessages`
proves the action property `TasksFirst` from it: an inactive group with a task is parked, so no
slot is free and no message run starts.

`IdleIsPreempted` adds that a group whose container idles has had its tasks looked at: a task that
came to an idle container closed its input, and one that was there when it went idle did too.

**Refinement** (`AdmissionProofs`).  `ImplementsFifo` proves `Spec => TasksInOrder`, that is
`Fifo!Spec` under the mapping `TaskLine` (the running task, then the pending ones).  It adds
`TaskInv` (a task is running exactly in an active task container) to `IInv`.  The end of a run
removes the head of its own line, or nothing if it was a message run; a group that starts its
oldest task moves it from one part of the line to the other (`SwitchLine`); a task that is
accepted and started at once finds an empty line, again by `FreeMeansUnparked`.

**ChatMessages** (`LinesProofs`).  The four safety properties of the run
`messages_safety` are theorems: `TypeCorrect`, `NothingElseLost` (`NoOtherLoss`), `FreshRuns`
(`RunStartsFresh`) and `OnlyUnmarkedRepeated` (`RepeatsUnmarkedOnly`), for any number of messages, any
prompt limit and retries and every set of faults.  `NoOtherLoss` is not inductive: a rollback
puts the cursor back to `prev`, so what lies between `prev` and the cursor must be with the
agent, in its directory, served or dropped, and the same must hold of what is piped while the
run goes on (`RunInv`).  `RunInv` also says that a run which has not replied has no answered
message beyond `prev`, so its rollback cannot expose one; `AnsweredInv` says that every answered
message is before the cursor, which a new run starts after.  A command is read before an await
and its cursor is written after it, while the loop may have moved the cursor past it: then the
write moves the cursor *back*, and `CommandInv` (the newest message of the command is above
everything piped or answered) keeps that harmless.  `EffectInv` ties a request that took effect
to the mark that forbids a retry or to what let it go unmarked, and says that a command never has one.

`NothingWrittenOff` is about a healthy agent only (`Healthy`: pipes may fail and containers may be
closed, no message is a command or an acknowledgment, the prompt limit is not exceeded; the run
`live` is such an instance): then `dropped` stays empty, as each of the places that write a message
off needs a fault, a kind or a limit which is not there.

**SMS** (`ChannelsProofs`).  `StoppedStaysStopped` proves `StopHolds`: `SInv` adds that a
socket being dialled is the current one and the only attempt, that a socket in its handshake is
the attempt, and that a stopped channel has none; so disconnect, which cuts the current socket
and rejects the handshakes, leaves no callback that could connect.  `SmsIsCorrect` rests on three
more.  `DeliveryInv`: what was passed on and is no longer in `seen` is on no link and not asked for, so no
history brings it again.  `GapInv`: while histories precede events, everything up to `lastSeen` was
passed on, and a connection that has its history carries what is above.  `ReconnectInv`: only a
socket of the current generation is dialled or asked.

**Remote control, Slack, inbound messages** (`ChannelsProofs`).  `RemoteInv` says that a process which
runs is the session's or that of a start under way, unless starts overlapped or the host went
during one.  `SlackInv` counts: each attempt has an owner and at most one caller (`CallersInv`), who is online
has an open socket or one that closes (`LivelyInv`), and as long as nothing is `loose` an instance has one
attempt or one armed timer and one instance of all is lively (`OrderInv`).  `InboundInv` has the order of the two cursors with
a run's `runPrev` (`CursorInv`), one delivery in flight per message on a channel that remembers (`OnceInv`),
and where each message has got to (`KeptInv`).

**Lines** (`LinesProofs`).  `SidecarIsCorrect`: the child, and the process of each request that waits, runs or is
cut, as the exit event of either ends what refers to it (`SidecarInv`).  `EventsAreCorrect`: what each stream got rises, and
what is queued is above it (`BrowserInv`).  `PhoneIsCorrect`: for the gateway (`GatewayInv`), as long as nothing crossed, an `onopen`
under way is of the current socket and nothing is dialled beside it, so it does not wait for itself
(`OnopenInv`); for the tables, a session that has begun belongs to its call (`BornInv`), the active call of a
number has one (`ActiveInv`), a session in the table is its call's (`KnownInv`), a handoff belongs to one session
(`DeferInv`), and two handlers of one end are told apart (`EndersInv`), so only a session that ended twice
could hand it twice.  `LineIsCorrect`: what connects the line is one socket, one attempt or one timer
(`WireInv`), each accepted message is in one place (`PlaceInv`) once (`OnceInv`), and what is queued is the
end of what was queued, the rest having arrived (`BacklogInv`).

**HotRunnerPool** (`AdmissionProofs`).  `PoolInv` adds to `PoolCorrect` that a call that runs has its
entry (`HoldersInv`) and that those who wait are registered once (`WaitingInv`): so the `finally` of a
call, which shifts one waiter, wakes one that is still there.

**TaskScheduler** (`AdmissionProofs`).  `TasksStayOnGrid`: once a schedule has an anchor only a run has moved its `next`
(`GridOf`), and what a run writes back comes from its snapshot, which has the schedule of its row
unless an edit came between (`SnapshotOf`).  `RunsAlwaysRespectRows` proves the action property
`RunsRespectRows`: what a row says is next was not run, the run in progress apart (`FiredOf`), nor was what a
waiting snapshot says (`QueueInv`).

**Services** (`ServicesProofs`; `WorkProofs` for `AgentHistory`, `ControlApprovals`, `ResearchJobs` and
`ServiceHealth`; `ReplyProofs` for `VoiceTurns` and `SpeechStream`).  One section each:

- `ContainerRun`: a verdict comes with the container's end, and only a failure at once leaves results
  (`VerdictInv`); an attempt begins when those before it were rolled back (`AttemptInv`); and what a rollback
  did not see came after it (`RollbackInv`).
- `IpcWatcher`: a file that is there was carried out no more often than there were interruptions and its own
  effect (`EffectInv`); the echoes shown are those pardoned or in the window (`EchoInv`).
- `GoogleTokens`: in the stores, and in what a refresh read before its await, a token is that of the grant (`StoresInv`); without an
  overlapped login a refresh writes back the grant of a last login (`GrantsInv`) and the state of the
  login that is awaited (`AwaitedInv`).
- `AgentHistory`: what was saved is in the file, the archives, trimmed or replaced (`KeptInv`), and what the turn and the
  compaction under way will write still has it (`HistoryUnderWay`).  A round under way is its calls and the results so
  far (`OpenRound`), so that all calls are answered when it is saved; an effect is saved, was cut off by a kill or
  is among those of the round (`EffectsKept`).
- `ResearchJobs`: a job that executes has an execution past its question, or the host stopped (`ExecutingInv`);
  one that did not overlap has one execution, with its answers (`AloneInv`).
- `ActionEngine`: actions are numbered, and their messages are in the events (`ActsInv`); a turn that runs an agent is about
  the messages of its action, which the cursor has passed, and its flags tell of no other run (`EngTurnInv`).  No turn
  begins below where an earlier one began (`Floor`), and an action that reaches that far up is the turn's own or one whose
  turn went back (`FloorInv`): the next to meet it has a newer message, or the engine answers `duplicate`.  `PassedInv` accounts for every message before the cursor also
  when a turn moves it back over messages that were piped meanwhile.
- `ControlApprovals`: uncontested, an applied action waits no more but for the approval that will mark it
  (`AppliedInv`); one update at a time keeps both profiles apart only between its steps (`InStepInv`).
- `ServiceHealth`: a state remembers its last restart and a backoff longer than all before (`StateInv`).
- `VoiceTurns`: a claimed transcript has a turn that will free it (`FlagInv`); sentences are voiced in
  order (`SoundInv`), and what is still unvoiced belongs to the active response or a displaced one
  (`ActiveInv`); what is being closed has been spoken (`ClosedInv`).
- `SpeechStream`: the buffer is the consecutive frames up to the last received; there is voice in it exactly when
  a voiced frame is not yet past (`HeldInv`); the lock has one holder (`LockInv`); the final under way is that of the buffer
  (`FinalInv`); what was sent has each past voiced frame in a final or too old for one, the finals apart (`SentOf`),
  and a partial that waits is of frames behind all of them (`PartialInv`).
- `ContainerReaper`: what the reaper could not stop is stuck, and what is a day old could not be stopped
  or had a run (`ReaperInv`).  `LogStore`: table, buffer, losses and prunings share the entries out (`Placed`), with
  rows in order and the oldest pruned (`LogOf`).  `ProviderChain`: a breaker counts no more failures than there were in
  a row (`BreakerInv`); a chain has tried or skipped each provider up to the one it awaits (`WalkInv`).

**Replies** (`StreamProofs`, `ReplyProofs`).  `RepliesAreCorrect` puts three theorems together.

- `TurnIsCorrect` is `TurnCorrect`.  The requests of a turn rise in an order of four parts: more
  rounds, less history, no tools, fewer tokens (`AskedBefore`, `TwiceInv`); `NeverAskedTwice` is that this order has
  no loop.  `FitInv`: a history that was refused although it could be read is beyond the target, so a turn
  that gives up has nothing left to drop (`NothingFits`).  `PromptInv`: the prompt is where the
  rounds since say, unless it was trimmed away, and a send is behind it.
- `EventStreamIsCorrect` is `EventStreamCorrect`.  The invariant `EventInv` says that what a reader has read is what it
  took, up to a blank line, and then a buffer in which no blank line is (`HasRead`); `ReadOn`: that stays so when a
  piece is added, because a line end split between buffer and piece is found in the next one.  The voice has passed on the
  data lines of the first part; the agent, which reads the same without carriage returns
  (`StrippedFacts`), has collected what those lines say (`Collected`: the texts in order, each call once with
  all its pieces), which `LineTaken` keeps line by line; and `ByIndexIs` shows that a list of calls with
  different indices has an order by index, so the sort at the end exists and loses nothing.
- `AnswerIsCorrect` is `AnswerCorrect`.  The invariant `AnswerInv` divides an answer that comes in pieces (`InPieces`):
  what is to be said of it is what is recorded and what is still to be said, of what the filter holds back
  and of what has not come, from inside of a thought or outside of one (`StillToSay`); and what is recorded is what is
  spoken, what waits behind the first phrase and what is pending.  `FilterIsRight`: for every text and whatever follows it,
  the filter passes on the start of what is to be said and holds back less than the tag it looks for;
  `SplitIsRight`: for every text the phrases and the rest are the text but for spaces, and no sentence ends in the
  rest.  An answer that came at once is compared with `Said` directly (`AtOnceIs`), a thought without an end apart.

`EventStream` and `AnswerStream` define functions on texts of any length by recursion.  `RecursionExists` proves, for a measure in `Nat`, that a
function whose value at `s` depends on smaller arguments only exists, so `Said`, `WithoutThoughts`,
`ThinkFilter` and `SplitReady`, which TLA+ defines by `CHOOSE`, are what their definitions say (`SaidIs`, `WithoutIs`,
`FilterIs`, `SplitIs`).  What is then shown of them by induction on the length is the inclusion of `Seq(V)` in
the set of the texts of which it holds (`ShorterFirst`, `ByOneMore`).

**Induction.**  What an operator of the models does to a sequence of any length is proved with
`UpTo` of `NumberLemmas`, from `LeastNumber`: a set of numbers with 0 that is closed under the next one has all
of them up to a bound.  `SizeOf` of `TurnReply`, `Kept` of `HotRunnerPool`, `Young` of `LogStore` and `Taken` and `OfKind` of
`EventStream` are therefore recursive functions, not folds, and `Listings` of `IpcWatcher` a function.

**Only model-checked:** liveness under fairness (`CallsEnd`, `DueRuns`, `AllServed`, `Settled`, `TurnsEnd`), as the
prover has no backend for `WF` and `ENABLED`; and the properties of the runs that expect a violation.


## 6. Where code and documentation disagree

Shown by a run (`PROJECT.json`, `findings`):

- `messages_send`: `container-runner.ts:690` chains outputs without a rejection handler; a send
  that throws leaves the run and its slot open for ever.
- `pool_shared`: `hot-runner-pool.ts:406` gives an idle session to two calls.
- `scheduler_stale`: `task-scheduler.ts:277` promises a re-check that cannot see a pause made
  while the task waits.
- `sms_reconnect`: `sms-socket.ts:389` clears the timer for a send and nothing arms it again when
  the send's attempt fails (`src/README.md:257`).

Met while modelling; the models follow the code and the properties except the case:

- `index.ts:455`: the cursor is saved before the agent runs; a crash loses the messages, where
  `docs/SPEC.md:652` says "Recovers any unprocessed messages from before shutdown".
- `index.ts:884`: acknowledgments that are skipped never become context (comment at 871-872).
- `index.ts:893`: the prompt limit drops the oldest messages (comment at 891-892).
- `index.ts:899`: a message a run already took can be piped into it a second time (452-453).
- `index.ts:901`: `/research` written while a container lives is piped to the agent
  (`src/README.md:348`).
- `index.ts:700`, `index.ts:719`: the `outputSentToUser` flag spans the turns of a run, so an error
  in a later turn writes its messages off; the rollback does not cover input that was left in
  the directory by an earlier run (comments at 698-699 and 718).
- `index.ts:711`: a request that still waits for the watcher when its run fails is carried out by
  both attempts, and a mark set late counts for the next run (`ipc.ts:216-219`).
- `container-runner.ts:680`: a result still in the chain when its container exits with an error is
  sent after the rollback was decided, and the messages are answered twice (`index.ts:698-699`).
- `docs/DEBUG_CHECKLIST.md:12` describes a timeout as losing messages; the code rolls back.
- `group-queue.ts:328`: a message that arrived during the last failing attempt is served at once,
  without the cooldown (`group-queue.ts:17`).
- `hot-runner-pool.ts:441`, `:445`: the reaping list is read once; an entry that was taken since is
  closed under its job (`docs/architecture-refactor.md:90`).
- `voice-runner/live-runner.ts:480`: nobody asks the thought filter for what it holds when the stream has ended, so up to
  six characters at the end of every streamed answer of a filtered model are neither spoken nor recorded (comment at
  559-561; `OnlyTheEndMissing`).
- `agent-runner/src/index.ts:2154`: a turn without text asks the model for a reply also after a send, where
  `response-fallback.ts:160-165` says any text would be a duplicate.
- `index.ts:1989`: the reaper is told the queue's containers only; the pool's are stopped after 45 minutes, and their
  sessions fail every job they get (`docs/architecture-refactor.md:88-90`).
- `logger/pruner.ts:113`: rows deleted for the file's size do not count towards the VACUUM, so the file stays too large and
  each round deletes another fifth of the log (comments at 105 and 112).
- `research/providers.ts:622`: when the last provider fails, those passed over for an open breaker were never called, and
  the failure says "Every provider failed" (comments at 558 and 618).
- `hot-runner-pool.ts:250`: the name of a runner container is cut off before what makes it unique; a second
  session of a lane cannot start beside the first, whatever `HOT_RUNNER_POOL_MAX_SIZE` says.
- `container-runtime.ts:200`: an age in days reads as nothing, so a container whose run was over only then is never
  reaped (`grewOld`).
- `agent-runner/src/index.ts:970`: trimming may leave a tool result without its call, which a strict backend refuses; a context
  error worded the second way (`:944`) is never answered by fewer tokens (`worded`).
- `voice-runner/live-runner.ts:502`: an answer that comes at once and ends within a thought is spoken with it
  (`ThoughtSpoken`; comment at 448-449).
- `agent-runner/src/index.ts:843`: an event that is not closed by a blank line is dropped at the end of the stream; the voice
  runner takes it.
- `logger/sqlite-stream.ts:249`: `beforeExit` does not run on `process.exit`, so what is buffered then is lost.
- `task-scheduler.ts:249`: a run overwrites the schedule of an `update_task` made meanwhile;
  `ipc.ts:720`: the time of an updated once task is not recomputed (`docs/SPEC.md:629`).
- `sms-socket.ts:613`, `:655`: any event moves `lastSeenTimestamp`; one that is handled before a
  history that then fails hides what came in while the connection was down (`src/README.md:258`).
- `index.ts:660`, `core/tasks/action-engine.ts`: the engine branch is not awaited, so `output` is a promise and never
  `'error'` (`:697`): the slot is freed and the next run starts beside the first, follow-ups are piped to
  whichever agent of the group looks into its directory first, and a run that fails is not retried, although its record says `failed_retryable` and its
  summary "failed and can retry".  An output with an error that comes while the turn still awaits its typing
  sign moves the cursor back, and the messages wait there for a newer one: with theirs alone the engine would
  answer `duplicate`.  The exits of `processInbound` at `:152-161` (the same list of messages: its events are then
  known and `:146` has returned), `:227-252` (the policy refuses what no principal of this path is) and `:299-313` (a
  lease on a fresh id) are reached by no state.  The engine is off by default.
- `ipc.ts:214-219`, `index.ts:708-710`: "retries don't duplicate side effects" holds for what is marked.  The calendar's and the
  integrations' requests are marked after their await (`ipc.ts:1023-1033`, `:1193-1210`), not at all if it throws
  (`:1219`); `pause_task`, `resume_task`, `cancel_task`, `update_task` (`:614-735`), `register_group` and messages are never
  marked.  A run that fails in between is rolled back and may do them again (`Missable` in `ChatMessages`).
- `agent-runner/src/index.ts:2174-2181`: the history is saved after the last call of a round.  A kill during a later
  call forgets the effects of the earlier ones too, which the comment at 2178 wants to survive (`cutRound` in
  `AgentHistory`); the result of a call alone could not be saved, as its round would have calls without results.
- `integrations/calendar.ts:632`: a calendar login may get no refresh token; if that is the first token there is, `startAuth`
  of the contacts copies it into their store and later over the legacy file, even if that has a refresh token
  by then (`Ungranted` in `GoogleTokens`).
- `index.ts:1478`: a message stored after one with the same or a later time lies behind the runs' cursor and
  is never given to a run (`late` in `InboundMessages`).  `db.ts:692`: the duplicate check of `storeMessageIfNew`
  comes after commands were intercepted, so on a channel that keeps no seen ids (Slack) a redelivered
  command runs twice.  `index.ts:1591`: an error of the decision drops the command it was about.
- `channels/signal.ts:769`: an id is marked as seen before `onMessage`; a redelivery after an error is suppressed,
  and an error in one envelope of a payload loses those behind it.
- `ipc.ts:268`: the folder cache is not refreshed by the event its comment names; a new directory waits for the
  slow sweep.  `ipc.ts:48`: the echo filter
  remembers a text before it is sent, so a failed send is also suppressed when repeated.
- `agent-runner`: when the summary completion fails, the old summary is replaced and what was archived is told by
  nothing (`untold`); an archive of the same name is overwritten (`replaced`).
- `research/service.ts:1846`: cancelling does not stop an execution, which may still deliver.  `:1782`: an answer to a job
  that is running starts a second execution, which loses answers (`overlapped`).  `:1037`: the end of any job
  clears the chat's question (`displaced`).  After a restart a job stays `executing` (`stranded`).
- `control-actions.ts:1338`: the row is settled after the await of the action; a second approval meanwhile executes
  it again, and a rejection is overwritten (`contested`); two profile updates at once lose a field (`raced`).
- `index.ts:1117`, `:1154`, `:1176`, `:1215` preview `outbound.*` actions that no handler of `control-actions.ts` executes;
  `ApprovalService.requireApproval` has no caller; `AgentSendFinalizer` never answers `duplicate`.
- `integrations/service-manager.ts`: stopping a service does not disable its monitor; a successful `compose up` resets
  the breaker before the service is healthy, and overlapping checks may restart it on a new health object.
- `integrations/whatsapp.ts:256`: a reconnect that fails twice in a row ends the reconnecting (`lost`; `:831` says
  "auto-reconnect"); `:477`: disconnect() closes the socket, and the close dials again.  `:718`: a flush that failed while
  connected waits for the next reconnect (`stalled`).
- `integrations/phone-voice.ts:1248`: a late `onclose` of an old socket clears the new one's `connected`, and the attempt that
  asks its questions then waits for itself (`crossed`).  `:1515`: a call announced again, or whose end is
  reported twice, has its table entry and its handoffs taken by the other handler (`replaced`, `doubled`); a
  failed `startSession` leaves the call without session; disconnect() drops waiting handoffs (`cleared`).
- `integrations/phone-voice-ws.ts:177`: events drained for a socket that has gone are lost (`lateDrain`).
- `voice-runner/controller.ts:272`: the exit event of an old process clears whatever child there is (`usurped`).
- `voice-runner/live-runner.ts:1533`: a claimed transcript that is dropped before the `try` leaves the flag set (`leaked`).
  `:975`: audio in an encoded container "falls back to batch STT", which the streaming provider answers with an empty
  text (`media-providers.ts`, `transcribe`).
- `scripts/phone-voice-stt/server_stream_stt.py:287`: of an utterance longer than the window (5 s) only the end is in its final; a
  partial that waited for the lock is sent after its final and may barge into the answer to it; a `flush` without
  voice is answered by nothing, so `transcribe` of silence settles only when it is aborted.
- `integrations/slack.ts:372`, `channel-runtime.ts:45`, `index.ts:1666`: the startup connects disabled integrations; its retry may overlap
  the instance's own timer and open a second socket; an activation whose first connection fails leaves an instance
  outside the list that goes on trying; one during an outage replaces an instance without stopping it; a stop
  during connect() leaves a connected instance behind (`loose`).
- `remote-control.ts:150`: all processes print to one file; two starts at once take the same URL, and one process is
  left running unknown (`crowded`); so is one whose start a restart of the host cut short (`deserted`).
- `integrations/google-contacts.ts:205`, `calendar-runtime.ts:118`: a refresh writes back what it read before its await; a login
  completed meanwhile is undone, and one started meanwhile cannot be completed (`overlappedLogin`, `clean`).
  The calendar's login writes the legacy file only; the next refresh of the contacts puts their own record over it.
  `google-contacts.ts:137`: the own store is said to be connected only after its own login, but `startAuth` and a
  refresh copy the legacy tokens into it.

## 7. Not modelled

- *GroupQueue:* late `notifyIdle` calls of a group that is no longer registered; the process handles
  and container names (a container stopped by `shutdown` ends like any other run).
- *ChatMessages:* results still in the chain when a run fails (`ContainerRun` has them); equal timestamps
  (`InboundMessages` has them); the text of replies and prompts; typing indicators.
- *HotRunnerPool:* the Docker session's `execute` is synchronous today, while the pool is written
  for, and modelled with, an asynchronous one; `maxSize` is no bound on the sessions, by code.
- *TaskScheduler:* the script of a task, its result and its message; the task of an unregistered
  group stays due for ever (`DueRuns` excepts it).
- *VoiceTurns:* finals that are still on their way when their stream fails or their session goes (the model drops them); an `onTranscriptFinal` that throws; the second apology of a batch turn whose own response fails;
  the client side of the recognizer and of the synthesis (`media-providers.ts`): one request, one socket.  A
  `transcribe` aborted while its socket opens leaves that socket open.
- *SpeechStream:* resampling; the hops of 20 ms within a frame; the cap of the buffer at twice the window (of which a final
  has only the end anyway); a second `start` on one connection; the threads behind the model's own lock.
- *Speech synthesis* (`server_tts.py`): one lock, held until a text is finished even if its listener has gone: a delay,
  but no state beyond it.
- *TurnReply:* the limits of tool calls per turn, and the cap on trims, which is never reached (a second trim finds nothing to
  drop).  *EventStream:* bytes that split a character (the decoders keep them); a cut inside a line, which
  both readers keep back until its end as they do the whole line.  *AnswerStream:* `;`, `:`, `!` and `?`,
  which the code treats like `,` and `.`.
- *LogStore:* entries below the level; the JSONL file that stands in when SQLite cannot be opened.
- *GoogleTokens:* tokens given by the environment; scopes; the expiry as a time (a token may expire at any moment).
- *SmsSocket:* the limit of a history and the 512 entries of the seen set; a missing API key; the
  retry in `sendMessage` and the cancelled branch of `onopen`, which no callback order reaches; the
  new channel object that a settings change makes; that a forgotten socket is never closed.
- *SlackChannels, Signal, WhatsApp:* lookups of names, profiles, groups, receipts, attachments and formatting; Signal's HTTP
  fallback, whose loop holds no state besides `connected` and `stopped`.
- *Most of the remaining lines* are tables and their statements (`db.ts`), HTTP routes (`admin-server.ts`), forms and views
  (`admin-ui`), settings, prompts, search providers, PDF layout, parsers and formatters: synchronous
  code whose states are those of one call.  A model of it would restate it.
- The components with status `not_modelled` in `PROJECT.json`, with the reasons given there.

## 8. Plan

Done: 1 `GroupQueue`, `TaskFifo` and their proofs; 2 `ChatMessages` and its proofs; 3 `HotRunnerPool`;
4 `TaskScheduler`; 5 `SmsSocket`; 6 the voice path (`VoiceTurns`, `VoiceSidecar`, `PhoneGateway`, `PhoneCallTable`,
`BrowserVoice`, `SpeechStream`); 7 the services (`ContainerRun`, `IpcWatcher`, `AgentHistory`, `ResearchJobs`,
`ActionEngine`, `ControlApprovals`, `ServiceHealth`, `GoogleTokens`); 8 the channels (`WhatsAppLine`, `SlackChannels`,
`InboundMessages`, `RemoteControl`); 9 what they rest on (`TurnReply`, `EventStream`, `AnswerStream`,
`ContainerReaper`, `ProviderChain`, `LogStore`).

Proved: every safety property that a passing run checks (section 5).

Left: the parts listed in section 7.
