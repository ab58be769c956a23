----------------------------- MODULE TurnReply -----------------------------
(***************************************************************************)
(* One turn of the agent against its model (runConversationTurn,           *)
(* createChatCompletion, deriveRetryMaxTokens, trimHistoryToFitContext,    *)
(* recoverSilentTurnReply of container/agent-runner/src/index.ts, and      *)
(* buildSilentTurnFallback of response-fallback.ts): requests a backend    *)
(* refuses are repeated with fewer tokens for the answer, without tools or *)
(* with less history, and an answer without text is made up for.           *)
(*                                                                         *)
(* Sizes are tokens, scaled down.  Bounds: TurnRounds is MAX_TOOL_ROUNDS,  *)
(* TrimLimit MAX_TRIM_ATTEMPTS, OutputTokens OPENAI_MAX_TOKENS, Reserve    *)
(* 64, LeastTokens 256; the same 256 and 512 are what trimming leaves      *)
(* free and aims at.                                                       *)
(***************************************************************************)
EXTENDS Integers, Sequences, SequencesExt, FiniteSetsExt

CONSTANTS
  Histories,    \* histories with the prompt at the end
  ResultSizes,  \* of a tool's result
  Window,       \* the context of the model
  SystemSize, ToolsSize, OutputTokens, PlainTokens, Reserve, LeastTokens,
  TurnRounds, TrimLimit

TurnEntries == [role : {"user", "reply", "calls", "tool"}, size : Nat, sent : BOOLEAN]

\* A history ends with the prompt of the turn, and the window has room for a target
\* beside the least answer.
ASSUME TurnReplyAssumption ==
  /\ {SystemSize, ToolsSize, OutputTokens, PlainTokens, Reserve, LeastTokens, Window} \subseteq Nat
  /\ ResultSizes \subseteq Nat
  /\ TurnRounds \in Nat \ {0} /\ TrimLimit \in Nat \ {0}
  /\ 3 * LeastTokens <= Window
  /\ \A h \in Histories : h # <<>> /\ h \in Seq(TurnEntries) /\ h[Len(h)].role = "user"

Message(role, size) == [role |-> role, size |-> size, sent |-> FALSE]

VARIABLES
  backend,   \* autoTools: it takes tools; strict: it refuses a result without its call;
             \* worded: its refusals are worded as deriveRetryMaxTokens reads them
  exactly,   \* the estimate (characters / 4) counts what the backend counts
  history,   \* workingHistory
  tooled,    \* this request has tools
  limit,     \* max_tokens of this request
  trims, rounds,
  turn,      \* "asking", "refused", "silent", "done" or "failed"
  cause,     \* why it failed: "size", "orphan", "other"
  reply,     \* the returned text
  sentOne,   \* history: a send tool succeeded in this turn
  shortened,      \* history: of this turn, something was trimmed away
  asked      \* history: the requests made, and how often

turnReplyVars ==
  <<backend, exactly, history, tooled, limit, trims, rounds, turn, cause, reply, sentOne,
    shortened, asked>>

TurnReplyInit ==
  /\ backend \in [autoTools : BOOLEAN, strict : BOOLEAN, worded : BOOLEAN]
  /\ exactly \in BOOLEAN
  /\ history \in Histories
  /\ tooled = TRUE
  /\ limit = OutputTokens
  /\ trims = 0 /\ rounds = 0
  /\ turn = "asking" /\ cause = "" /\ reply = ""
  /\ sentOne = FALSE /\ shortened = FALSE
  /\ asked = <<>>

-----------------------------------------------------------------------------
(* Sizes.  An operator X_Y is X with a bug Y planted in it. *)

Least(a, b) == IF a < b THEN a ELSE b
Greatest(a, b) == IF a < b THEN b ELSE a

SizeOf(h) ==
  LET sizes[i \in 0..Len(h)] == IF i = 0 THEN SystemSize ELSE sizes[i - 1] + h[i].size
  IN sizes[Len(h)]
Input == SizeOf(history) + (IF tooled THEN ToolsSize ELSE 0)

\* The estimate knows nothing of the tools.
Estimate(h) == IF exactly THEN SizeOf(h) ELSE SystemSize + Len(h)

\* deriveRetryMaxTokens
Derived_NoFloor(input, tokens) == Least(tokens - 1, Window - input - Reserve)
Derived_Same(input, tokens) == tokens
Derived(input, tokens) ==
  IF Window - input - Reserve <= 0 THEN Least(tokens, LeastTokens)
  ELSE Greatest(LeastTokens, Least(tokens - 1, Window - input - Reserve))

-----------------------------------------------------------------------------
(* A request *)

Request == [history |-> history, tooled |-> tooled, limit |-> limit, round |-> rounds]
AsksModel == turn = "asking" /\ asked' = Append(asked, Request)

\* "tool choice requires --enable-auto-tool-choice": once more, from the start, without.
WithoutTools_Kept == UNCHANGED tooled
WithoutTools == tooled' = FALSE
ToolsRefused ==
  /\ AsksModel
  /\ tooled /\ ~backend.autoTools
  /\ WithoutTools
  /\ limit' = OutputTokens
  /\ UNCHANGED <<backend, exactly, history, trims, rounds, turn, cause, reply, sentOne,
                 shortened>>

Heeded == tooled => backend.autoTools
Orphan == Head(history).role = "tool"

OrphanRefused ==
  /\ AsksModel /\ Heeded
  /\ backend.strict /\ Orphan
  /\ turn' = "failed" /\ cause' = "orphan"
  /\ UNCHANGED <<backend, exactly, history, tooled, limit, trims, rounds, reply,
                 sentOne, shortened>>

Considered == Heeded /\ ~(backend.strict /\ Orphan)

\* It is too long with its answer: fewer tokens, if that is fewer.
TooLong ==
  /\ AsksModel /\ Considered
  /\ Input + limit > Window
  /\ IF backend.worded /\ Derived(Input, limit) < limit
     THEN limit' = Derived(Input, limit) /\ UNCHANGED turn
     ELSE turn' = "refused" /\ UNCHANGED limit
  /\ UNCHANGED <<backend, exactly, history, tooled, trims, rounds, cause, reply,
                 sentOne, shortened>>

RequestFails ==
  /\ AsksModel
  /\ turn' = "failed" /\ cause' = "other"
  /\ UNCHANGED <<backend, exactly, history, tooled, limit, trims, rounds, reply,
                 sentOne, shortened>>

Accepted == AsksModel /\ Considered /\ Input + limit <= Window

-----------------------------------------------------------------------------
(* The history is trimmed *)

Target == Greatest(2 * LeastTokens, Window - LeastTokens)

\* The longest end of the history that should fit; none when even the last entry does not.
Trimmed_Shortest(h) == {SubSeq(h, Len(h), Len(h))}
Trimmed(h) ==
  LET fitting == {s \in Suffixes(h) \ {<<>>} : Estimate(s) <= Target}
  IN IF Len(h) <= 1 THEN {} ELSE {s \in fitting : \A t \in fitting : Len(t) <= Len(s)}

\* The tools and the tokens are what they were at first again.
AskAgain == tooled' = TRUE /\ limit' = OutputTokens

TrimsHistory ==
  /\ turn = "refused" /\ trims < TrimLimit
  /\ \E h \in Trimmed(history) :
       /\ Len(h) < Len(history)
       /\ history' = h
       /\ shortened' = (shortened \/ Len(h) < 2 * rounds + 1)
  /\ trims' = trims + 1
  /\ turn' = "asking"
  /\ AskAgain
  /\ UNCHANGED <<backend, exactly, rounds, cause, reply, sentOne, asked>>

TurnGivesUp ==
  /\ turn = "refused"
  /\ trims = TrimLimit \/ ~\E h \in Trimmed(history) : Len(h) < Len(history)
  /\ turn' = "failed" /\ cause' = "size"
  /\ UNCHANGED <<backend, exactly, history, tooled, limit, trims, rounds, reply,
                 sentOne, shortened, asked>>

-----------------------------------------------------------------------------
(* An answer *)

\* It asks for a tool, whose result is appended; the last round has its own text.
AnswersCall(size, sent) ==
  /\ Accepted
  /\ history' = history \o <<Message("calls", 1), [Message("tool", size) EXCEPT !.sent = sent]>>
  /\ sentOne' = (sentOne \/ sent)
  /\ rounds' = rounds + 1
  /\ trims' = 0
  /\ AskAgain
  /\ IF rounds' = TurnRounds THEN turn' = "done" /\ reply' = "limit" ELSE UNCHANGED <<
                                                                                      turn,
                                                                                      reply>>
  /\ UNCHANGED <<backend, exactly, cause, shortened>>

AnswersText ==
  /\ Accepted
  /\ turn' = "done" /\ reply' = "text"
  /\ UNCHANGED <<backend, exactly, history, tooled, limit, trims, rounds, cause,
                 sentOne, shortened>>

AnswersNothing ==
  /\ Accepted
  /\ turn' = "silent"
  /\ limit' = PlainTokens
  /\ UNCHANGED <<backend, exactly, history, tooled, trims, rounds, cause, reply,
                 sentOne, shortened>>

\* getCurrentTurnMessages: from the last prompt on, or else all but the first.
LastPrompt == Max({i \in 1..Len(history) : history[i].role = "user"} \cup {1})
ThisTurn_All == ToSet(history)
ThisTurn == ToSet(SubSeq(history, LastPrompt + 1, Len(history)))

\* buildSilentTurnFallback: nothing is said after a send.
Fallback_Always == "dead end"
Fallback == IF \E m \in ThisTurn : m.sent THEN "" ELSE "dead end"

\* recoverSilentTurnReply: the model is asked to put the turn into words; with no prompt
\* left, or when that fails or says nothing, the fallback is the reply.
Recovers ==
  /\ turn = "silent"
  /\ turn' = "done"
  /\ \/ reply' = "recovered" /\ history[LastPrompt].role = "user"
     \/ reply' = Fallback
  /\ UNCHANGED <<backend, exactly, history, tooled, limit, trims, rounds, cause,
                 sentOne, shortened, asked>>

TurnReplyNext ==
  \/ ToolsRefused \/ OrphanRefused \/ TooLong \/ RequestFails
  \/ TrimsHistory \/ TurnGivesUp
  \/ \E size \in ResultSizes, sent \in BOOLEAN : AnswersCall(size, sent)
  \/ AnswersText \/ AnswersNothing \/ Recovers

TurnReplySpec == TurnReplyInit /\ [][TurnReplyNext]_turnReplyVars

-----------------------------------------------------------------------------
(* Properties *)

\* No request is repeated as it was: every refusal changes the next one, and the turn ends.
NeverAskedTwice == \A i, j \in 1..Len(asked) : asked[i] = asked[j] => i = j

\* A turn fails for its size only if what must be sent does not fit, where the estimate
\* counts all that the backend counts and the refusal can be read by both its readers: the
\* last entry alone is beyond the target.
FitsIsAnswered ==
  turn = "failed" /\ cause = "size" /\ exactly /\ backend.worded /\ ~tooled =>
    Estimate(<<history[Len(history)]>>) > Target

\* No answer is cut to fewer tokens than it could have.
RoomIsUsed ==
  turn \in {"asking", "refused"} /\ limit < OutputTokens =>
    limit >= LeastTokens /\ limit + Reserve >= Window - Input

\* The newest part of the history is what is kept, and the most of it that should fit.
KeepsMost ==
  turn = "asking" /\ asked # <<>> =>
    LET before == asked[Len(asked)].history
    IN Len(before) > Len(history) =>
         /\ Estimate(history) <= Target
         /\ Estimate(SubSeq(before, Len(before) - Len(history), Len(before))) > Target

\* A message that was sent is not followed by a text that says nothing was done, unless
\* trimming took it out of the turn; and no other turn is without a text.
SendIsKnown ==
  turn = "done" /\ ~shortened => (sentOne => reply # "dead end") /\ (reply = "" => sentOne)

TurnCorrect == NeverAskedTwice /\ FitsIsAnswered /\ RoomIsUsed /\ KeepsMost /\ SendIsKnown

=============================================================================
