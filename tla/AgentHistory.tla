---------------------------- MODULE AgentHistory ----------------------------
(***************************************************************************)
(* The conversation the agent keeps in its state directory, of             *)
(* container/agent-runner/src/index.ts (runConversationTurn, saveHistory,  *)
(* trimHistoryToFitContext, fastCompactHistory, archiveAndCompactHistory   *)
(* and main): the history file, its summary and its archive, while turns   *)
(* are trimmed and compacted and the container is killed at any moment.    *)
(*                                                                         *)
(* A message is its turn, its round, its role and a number: of the calls   *)
(* it asks for, or of the call it answers.  Its size is 1, and so is the   *)
(* summary's.  The calls of a round are made one after the other, and the  *)
(* history is saved after the last.  Bounds: AgentTurns, ToolRounds        *)
(* (MAX_TOOL_ROUNDS), CallsPerRound, AgentStarts.  KeepMessages is         *)
(* MAX_HISTORY_KEEP_MESSAGES, HostWindow OPENAI_CONTEXT_WINDOW and         *)
(* ModelWindow what the backend really takes.                              *)
(***************************************************************************)
EXTENDS Naturals, Sequences, SequencesExt

CONSTANTS AgentTurns, ToolRounds, CallsPerRound, AgentStarts, KeepMessages, HostWindow, ModelWindow

ASSUME AgentHistoryAssumption ==
  /\ AgentTurns \in Nat /\ ToolRounds \in Nat /\ CallsPerRound \in Nat /\ AgentStarts \in Nat
  /\ KeepMessages \in Nat /\ HostWindow \in Nat /\ ModelWindow \in Nat

Entry(n, i, role, k) == [turn |-> n, round |-> i, role |-> role, call |-> k]

VARIABLES
  phase,      \* "down", "ready", "asking", "tools", "ended", "summarized"
  starts,     \* containers so far
  turnNo,     \* turns so far
  roundNo,
  callNo,     \* calls of the round that have returned
  working,    \* workingHistory of the turn
  saved,      \* HISTORY_FILE
  summary,    \* what SUMMARY_FILE tells of; {} is no file
  archive,    \* the files in CONVERSATIONS_DIR, each the set of entries it holds
  retained,   \* what a compaction under way will write
  effects,    \* history: the results of the tool calls that took effect
  cutRound,   \* history: those of a round that a kill ended
  everSaved,  \* history: all entries ever saved
  trimmedOff, \* history: entries dropped to fit the backend
  replaced,   \* history: entries in an archive another one took the name of
  untold      \* history: entries a failed summarization dropped from the summary

agentHistoryVars ==
  <<phase, starts, turnNo, roundNo, callNo, working, saved, summary, archive, retained,
    effects, cutRound, everSaved, trimmedOff, replaced, untold>>

AgentHistoryInit ==
  /\ phase = "down" /\ starts = 0 /\ turnNo = 0 /\ roundNo = 0 /\ callNo = 0
  /\ working = <<>> /\ saved = <<>> /\ retained = <<>>
  /\ summary = {} /\ archive = {}
  /\ effects = {} /\ cutRound = {} /\ everSaved = {} /\ trimmedOff = {} /\ replaced = {} /\ untold = {}

-----------------------------------------------------------------------------
(* An operator X_Y is X with a bug Y planted in it. *)

Size(h) == Len(h) + (IF summary = {} THEN 0 ELSE 1)
LastOnes(h, n) == SubSeq(h, Len(h) - n + 1, Len(h))

\* saveHistory: a temporary file and a rename, so never half a file.
SaveHistory(h) ==
  /\ saved' = h
  /\ everSaved' = everSaved \cup ToSet(h)

Archived_OneLess(h) == SubSeq(h, 1, Len(h) - KeepMessages - 1)
Archived(h) == SubSeq(h, 1, Len(h) - KeepMessages)

\* The archive's name is the day and the first letters of the summary: it is new, or
\* that of an earlier archive, which is overwritten.
WriteArchive(past) ==
  \/ archive' = archive \cup {past} /\ UNCHANGED replaced
  \/ \E f \in archive :
       /\ archive' = (archive \ {f}) \cup {past}
       /\ replaced' = replaced \cup f

-----------------------------------------------------------------------------
(* The container starts *)

MustCompact == \/ Len(saved) > 4 * KeepMessages
               \/ Len(saved) > KeepMessages /\ Size(saved) > HostWindow

AgentStartsUp ==
  /\ phase = "down" /\ starts < AgentStarts
  /\ ~MustCompact
  /\ starts' = starts + 1
  /\ phase' = "ready"
  /\ UNCHANGED <<turnNo, roundNo, callNo, working, saved, summary, archive, replaced, retained,
                 effects, cutRound, everSaved, trimmedOff, untold>>

\* fastCompactHistory: archive and summary are written, then the history.
Merged_Replaces(old, new) == new
Merged(old, new) == old \cup new

FastCompacts ==
  /\ phase = "down" /\ starts < AgentStarts
  /\ MustCompact
  /\ starts' = starts + 1
  /\ LET past == ToSet(Archived(saved)) IN
       /\ WriteArchive(past)
       /\ summary' = Merged(summary, past)
  /\ retained' = LastOnes(saved, KeepMessages)
  /\ phase' = "summarized"
  /\ UNCHANGED <<turnNo, roundNo, callNo, working, saved, effects, cutRound, everSaved, trimmedOff,
                 untold>>

-----------------------------------------------------------------------------
(* A turn *)

TurnBegins ==
  /\ phase = "ready" /\ turnNo < AgentTurns
  /\ turnNo' = turnNo + 1
  /\ roundNo' = 0 /\ callNo' = 0
  /\ working' = Append(saved, Entry(turnNo', 0, "user", 0))
  /\ phase' = "asking"
  /\ UNCHANGED <<starts, saved, summary, archive, replaced, retained, effects, cutRound,
                 everSaved, trimmedOff, untold>>

Fits == Size(working) <= ModelWindow

\* The backend refuses: the oldest entries go until the rest fits.
Trims ==
  /\ phase = "asking" /\ roundNo < ToolRounds /\ ~Fits
  /\ LET room == ModelWindow - Size(<<>>) IN
       /\ room >= 1
       /\ working' = LastOnes(working, room)
       /\ trimmedOff' = trimmedOff \cup ToSet(SubSeq(working, 1, Len(working) - room))
  /\ UNCHANGED <<phase, starts, turnNo, roundNo, callNo, saved, summary, archive, replaced,
                 retained, effects, cutRound, everSaved, untold>>

AsksForTools(n) ==
  /\ phase = "asking" /\ Fits /\ roundNo < ToolRounds
  /\ working' = Append(working, Entry(turnNo, roundNo, "calls", n))
  /\ phase' = "tools"
  /\ UNCHANGED <<starts, turnNo, roundNo, callNo, saved, summary, archive, replaced, retained,
                 effects, cutRound, everSaved, trimmedOff, untold>>

\* executeToolCall: a call takes effect, and then its result is awaited (one that is
\* refused is the same with nothing to remember).
ToolActs ==
  /\ phase = "tools"
  /\ Entry(turnNo, roundNo, "tool", callNo + 1) \notin effects
  /\ effects' = effects \cup {Entry(turnNo, roundNo, "tool", callNo + 1)}
  /\ UNCHANGED <<phase, starts, turnNo, roundNo, callNo, working, saved, summary, archive, replaced,
                 retained, cutRound, everSaved, trimmedOff, untold>>

\* "Save history after each tool round so context survives container kills."
RoundEnds == callNo + 1 = working[Len(working) - callNo].call
SavesRound_AtEnd(h) == UNCHANGED <<saved, everSaved>>
SavesRound_EachCall(h) == SaveHistory(h)
SavesRound(h) == IF RoundEnds THEN SaveHistory(h) ELSE UNCHANGED <<saved, everSaved>>

ToolReturns ==
  /\ phase = "tools"
  /\ Entry(turnNo, roundNo, "tool", callNo + 1) \in effects
  /\ working' = Append(working, Entry(turnNo, roundNo, "tool", callNo + 1))
  /\ SavesRound(working')
  /\ IF RoundEnds
     THEN callNo' = 0 /\ roundNo' = roundNo + 1 /\ phase' = "asking"
     ELSE callNo' = callNo + 1 /\ UNCHANGED <<roundNo, phase>>
  /\ UNCHANGED <<starts, turnNo, summary, archive, replaced, retained, effects, cutRound, trimmedOff,
                 untold>>

\* The final text, or the fallback when the rounds are used up.
Concludes ==
  /\ phase = "asking"
  /\ roundNo < ToolRounds => Fits
  /\ working' = Append(working, Entry(turnNo, roundNo, "reply", 0))
  /\ SaveHistory(working')
  /\ phase' = "ended"
  /\ UNCHANGED <<starts, turnNo, roundNo, callNo, summary, archive, replaced, retained,
                 effects, cutRound, trimmedOff, untold>>

\* A request that fails, or cannot be trimmed, ends the process with exit code 1.
TurnThrows ==
  /\ phase = "asking" /\ roundNo < ToolRounds
  /\ phase' = "down"
  /\ working' = <<>>
  /\ UNCHANGED <<starts, turnNo, roundNo, callNo, saved, summary, archive, replaced, retained,
                 effects, cutRound, everSaved, trimmedOff, untold>>

-----------------------------------------------------------------------------
(* archiveAndCompactHistory *)

TooLarge == Size(saved) > HostWindow /\ Len(saved) > KeepMessages

Summarizes ==
  /\ phase = "ended" /\ TooLarge
  /\ LET past == ToSet(Archived(saved)) IN
       /\ WriteArchive(past)
       /\ \/ /\ summary' = Merged(summary, past)
             /\ UNCHANGED untold
          \/ /\ summary' = past      \* the completion failed: fallbackSummary replaces
             /\ untold' = untold \cup (summary \ past)
  /\ retained' = LastOnes(saved, KeepMessages)
  /\ phase' = "summarized"
  /\ UNCHANGED <<starts, turnNo, roundNo, callNo, working, saved, effects, cutRound, everSaved,
                 trimmedOff>>

WritesRetained ==
  /\ phase = "summarized"
  /\ SaveHistory(retained)
  /\ retained' = <<>>
  /\ phase' = "ready"
  /\ working' = <<>>
  /\ UNCHANGED <<starts, turnNo, roundNo, callNo, summary, archive, replaced, effects, cutRound,
                 trimmedOff, untold>>

KeepsAll ==
  /\ phase = "ended" /\ ~TooLarge
  /\ phase' = "ready"
  /\ working' = <<>>
  /\ UNCHANGED <<starts, turnNo, roundNo, callNo, saved, summary, archive, replaced, retained,
                 effects, cutRound, everSaved, trimmedOff, untold>>

\* The container is killed, or closed while it waits.
ThisRound == {e \in effects : phase = "tools" /\ e.turn = turnNo /\ e.round = roundNo}

Killed ==
  /\ phase # "down"
  /\ phase' = "down"
  /\ callNo' = 0 /\ working' = <<>> /\ retained' = <<>>
  /\ cutRound' = cutRound \cup ThisRound
  /\ UNCHANGED <<starts, turnNo, roundNo, saved, summary, archive, replaced, effects,
                 everSaved, trimmedOff, untold>>

AgentHistoryNext ==
  \/ AgentStartsUp \/ FastCompacts \/ TurnBegins \/ Trims
  \/ \E n \in 1..CallsPerRound : AsksForTools(n)
  \/ ToolActs \/ ToolReturns \/ Concludes \/ TurnThrows \/ Summarizes
  \/ WritesRetained \/ KeepsAll \/ Killed

-----------------------------------------------------------------------------
(* Properties *)

Archives == UNION archive
Remembered == ToSet(saved) \cup Archives \cup trimmedOff

\* "a kill between sending a message (via IPC tool) and the final text response
\* loses the entire turn from history": once a tool call took effect, no kill makes the
\* agent forget it, but for the calls of a round that is under way or was when killed.
EffectsRemembered == effects \subseteq Remembered \cup replaced \cup ThisRound \cup cutRound

\* What was saved is in the file or in the archive, whatever compaction a kill cut
\* short; only trimming for the backend drops entries, and an archive of the same name.
NothingForgotten == everSaved \subseteq Remembered \cup replaced

\* An archived entry no longer in the history is told by the summary, unless the
\* completion that should have summarized failed.
SummaryCovers == Archives \subseteq summary \cup untold \cup ToSet(saved)

\* The file never holds a tool call without its result, which a backend refuses for
\* good: neither a kill between the calls of a round nor trimming separates them that way.
CallsAnswered ==
  \A i \in 1..Len(saved) : saved[i].role = "calls" =>
    \A k \in 1..saved[i].call :
      /\ i + k <= Len(saved)
      /\ saved[i + k] = Entry(saved[i].turn, saved[i].round, "tool", k)

\* History, summary and archive together keep what happened, across kills, trimming
\* and compaction.
HistoryCorrect == EffectsRemembered /\ NothingForgotten /\ SummaryCovers /\ CallsAnswered

=============================================================================
