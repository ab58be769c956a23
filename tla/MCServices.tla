----------------------------- MODULE MCServices -----------------------------
(***************************************************************************)
(* TLC instance of the services that do one piece of work each: a          *)
(* container's run, the watcher of agents' requests, an agent's history,   *)
(* deep research and its providers, the action engine, approvals, the      *)
(* health monitor, the Google tokens, the streaming recognizer and, with   *)
(* all that may be heard, a call of one utterance; an agent's turn with    *)
(* its model, the readers of the model's stream and the way of an answer   *)
(* to the voice; the containers with their reaper, and the log.            *)
(* They share no state: a behaviour exercises one of them and leaves the   *)
(* others as they start.                                                   *)
(***************************************************************************)
EXTENDS ContainerRun, IpcWatcher, AgentHistory, ResearchJobs, ActionEngine,
        ControlApprovals, ServiceHealth, VoiceTurns, SpeechStream, GoogleTokens,
        TurnReply, EventStream, AnswerStream, ContainerReaper, LogStore, ProviderChain

VARIABLE part  \* the component of this behaviour

Parts == {"container", "ipc", "history", "research", "engine", "approvals", "health", "voice",
          "recognizer", "tokens", "turn", "events", "answer", "reaper", "log", "chain"}

\* A group writes to its user, and another one asks for a tool.
TwoRequests == {[dir |-> "d1", kind |-> "message"], [dir |-> "d2", kind |-> "tool"]}

(* The agent's turn: a prompt of some size, alone, after a short exchange or after one *)
(* with a tool.                                                                        *)

Prompt(size) == Message("user", size)
Exchange == <<Prompt(2), Message("reply", 3)>>
SentBefore ==
  <<Prompt(1), Message("calls", 1), [Message("tool", 3) EXCEPT !.sent = TRUE], Message("reply", 1)>>
SomeHistories == {h \o <<Prompt(size)>> : h \in {<<>>, Exchange, SentBefore}, size \in {1, 5, 10}}

(* Streams of three events, with any line ends, and what may follow them. *)

Text(t) == [is |-> "text", text |-> t]
Call(i, a) == [is |-> "call", index |-> i, arg |-> a]
DataMarks == {Text("a"), Call(0, "x"), Call(1, "y"), [is |-> "comment"], [is |-> "done"]}
LineEnds == {<<LF, LF>>, <<CR, LF, CR, LF>>, <<LF>>}
Followers == {<<>>, <<Text("b")>>, <<Text("b"), LF>>, <<Call(1, "z"), LF, LF>>}
SomeStreams ==
  {FlattenSeq([i \in 1..3 |-> <<marks[i]>> \o ends]) \o follower :
     marks \in [1..3 -> DataMarks], ends \in LineEnds, follower \in Followers}

(* Answers of words, sentences, commas, tags and what looks like the beginning of one. *)

ThinkOpen == <<"<", "t">>
ThinkClose == <<"<", "/", "t">>
Blocks == {<<"w">>, <<"w", ".", " ">>, <<",">>, ThinkOpen, ThinkClose, <<"<">>}
SomeAnswers == {a \o b \o c \o d : a, b, c, d \in Blocks}

TwoProviders == <<"exa", "brave">>

(* Two jobs, and two texts, are alike: one of them may be taken to come first.         *)

FirstOf(S) == CHOOSE x \in S : TRUE
FirstJob == (\E j \in ResearchJobs : job'[j].status # "none") => job'[FirstOf(ResearchJobs)].status # "none"
FirstText == chatMessages' # <<>> => chatMessages'[1] = FirstOf(EngineTexts)

\* One start is enough for a component that stands still; chosen before the others are.
OneStart ==
  /\ IF part # "container" THEN mark = FALSE ELSE TRUE
  /\ IF part # "research"
     THEN staged = FALSE /\ chatOf = [j \in ResearchJobs |-> CHOOSE c \in ResearchChats : TRUE]
     ELSE TRUE
  /\ IF part # "approvals"
     THEN /\ changes = [p \in Actions |-> CHOOSE f \in Fields : TRUE]
          /\ inMain = [p \in Actions |-> TRUE]
     ELSE TRUE
  /\ IF part # "health" THEN enabled = TRUE /\ up = TRUE ELSE TRUE
  /\ IF part # "voice"
     THEN /\ stream = CHOOSE s \in Streams : TRUE
          /\ content = [i \in 1..Utterances |-> CHOOSE c \in Contents : TRUE]
          /\ speaking = NoResponse
     ELSE TRUE
  /\ IF part # "tokens" THEN legacy = NotConnected ELSE TRUE
  /\ IF part # "turn"
     THEN /\ backend = [autoTools |-> TRUE, strict |-> TRUE, worded |-> TRUE] /\ exactly = TRUE
          /\ history = <<Prompt(1)>>
     ELSE TRUE
  /\ IF part # "events" THEN bytes = CHOOSE b \in SomeStreams : TRUE ELSE TRUE
  /\ IF part # "answer" THEN answer = <<"w", "w", "w", "w">> /\ filters = TRUE ELSE TRUE

\* A call that greets hears speech; the others, whatever there is.
GreetsBeforeSpeech ==
  part = "voice" /\ speaking # NoResponse => \A i \in 1..Utterances : content[i] = "speech"

ServicesInit ==
  /\ part \in Parts
  /\ OneStart
  /\ ContainerInit /\ IpcInit /\ AgentHistoryInit /\ ResearchInit /\ EngineInit
  /\ ApprovalsInit /\ HealthInit /\ VoiceInit /\ StreamInit /\ TokensInit
  /\ TurnReplyInit /\ EventsInit /\ AnswerInit /\ ReaperInit /\ LogInit /\ ChainInit
  /\ GreetsBeforeSpeech

ServicesNext ==
  /\ UNCHANGED part
  /\ IF part = "container" THEN ContainerNext ELSE UNCHANGED containerVars
  /\ IF part = "ipc" THEN IpcNext ELSE UNCHANGED ipcVars
  /\ IF part = "history" THEN AgentHistoryNext ELSE UNCHANGED agentHistoryVars
  /\ IF part = "research" THEN ResearchNext /\ FirstJob ELSE UNCHANGED researchVars
  /\ IF part = "engine" THEN EngineNext /\ FirstText ELSE UNCHANGED engineVars
  /\ IF part = "approvals" THEN ApprovalsNext ELSE UNCHANGED approvalVars
  /\ IF part = "health" THEN HealthNext ELSE UNCHANGED healthVars
  /\ IF part = "voice" THEN VoiceNext ELSE UNCHANGED voiceVars
  /\ IF part = "recognizer" THEN StreamNext ELSE UNCHANGED streamVars
  /\ IF part = "tokens" THEN TokensNext ELSE UNCHANGED tokenVars
  /\ IF part = "turn" THEN TurnReplyNext ELSE UNCHANGED turnReplyVars
  /\ IF part = "events" THEN EventsNext ELSE UNCHANGED eventVars
  /\ IF part = "answer" THEN AnswerNext ELSE UNCHANGED answerVars
  /\ IF part = "reaper" THEN ReaperNext ELSE UNCHANGED containerSetVars
  /\ IF part = "log" THEN LogNext ELSE UNCHANGED logVars
  /\ IF part = "chain" THEN ChainNext ELSE UNCHANGED chainVars

servicesVars ==
  <<part, containerVars, ipcVars, agentHistoryVars, researchVars, engineVars, approvalVars,
    healthVars, voiceVars, streamVars, tokenVars, turnReplyVars, eventVars, answerVars,
    containerSetVars, logVars, chainVars>>

ServicesSpec == ServicesInit /\ [][ServicesNext]_servicesVars

\* Agents' requests are carried out once, with the tokens of the last login.
ToolsCorrect ==
  /\ part = "ipc" => RequestsCorrect
  /\ part = "tokens" => TokensCorrect

\* What is said is transcribed once, and the call hears it.
TranscriptsCorrect ==
  /\ part = "voice" => HearingCorrect
  /\ part = "recognizer" => StreamCorrect

\* A turn ends in one reply, which arrives whole at those who read it and say it.
RepliesCorrect ==
  /\ part = "turn" => TurnCorrect
  /\ part = "events" => EventStreamCorrect
  /\ part = "answer" => AnswerCorrect

\* What the host keeps of containers, its log and its providers agrees with what they are.
HostCorrect ==
  /\ part = "reaper" => ContainersCorrect
  /\ part = "log" => LogCorrect
  /\ part = "chain" => ChainsCorrect

=============================================================================
