---------------------------- MODULE EventStream ----------------------------
(***************************************************************************)
(* The model's answer as a stream of events, cut into pieces anywhere, as  *)
(* its two readers take it: the agent in the container (parseEventStream,  *)
(* container/agent-runner/src/index.ts), which puts the tool calls         *)
(* together, and the voice runner (readSseData, voice-runner/              *)
(* live-runner.ts).  Both get the same bytes in the same pieces here.      *)
(*                                                                         *)
(* A byte is a record with a field is: "lf", "cr", or a whole line: "text" *)
(* and "call" (data lines, with what they carry), "done" (data: [DONE])    *)
(* and "comment".                                                          *)
(***************************************************************************)
EXTENDS Naturals, Sequences, SequencesExt

CONSTANT Bytes  \* the streams a backend may send

\* A stream is made of the bytes above; a piece of a call says which call it is of.
ASSUME EventStreamAssumption ==
  \A b \in Bytes :
    /\ b \in Seq(ToSet(b))
    /\ \A i \in 1..Len(b) : b[i].is = "call" => b[i].index \in Nat

LF == [is |-> "lf"]
CR == [is |-> "cr"]

VARIABLES
  bytes,      \* what the backend sends
  unread,     \* what of it has not arrived
  agentBuf,   \* the agent's buffer
  textRead,   \* the texts it has put together
  toolCalls,  \* in the order of their first piece: index and arguments
  voiceBuf,   \* the voice runner's buffer
  yielded,    \* the data lines it has passed on
  agentRead,  \* "reading", "returned" or "failed"
  voiceRead   \* "reading", "ended" or "failed"

eventVars == <<bytes, unread, agentBuf, textRead, toolCalls, voiceBuf, yielded, agentRead, voiceRead>>

EventsInit ==
  /\ bytes \in Bytes
  /\ unread = bytes
  /\ agentBuf = <<>> /\ textRead = <<>> /\ toolCalls = <<>>
  /\ voiceBuf = <<>> /\ yielded = <<>>
  /\ agentRead = "reading" /\ voiceRead = "reading"

-----------------------------------------------------------------------------
(* An operator X_Y is X with a bug Y planted in it. *)

\* What of s is of these kinds, in its order; a first-order SelectSeq.
OfKind(s, kinds) ==
  LET chosen[i \in 0..Len(s)] ==
        IF i = 0 THEN <<>>
        ELSE IF s[i].is \in kinds THEN Append(chosen[i - 1], s[i]) ELSE chosen[i - 1]
  IN chosen[Len(s)]

Data == {"text", "call", "done"}
Plain == {"lf", "comment"} \cup Data
DataLines(s) == OfKind(s, Data)
BlankLines(s) == {i \in 1..(Len(s) - 1) : s[i] = LF /\ s[i + 1] = LF}

\* Up to the last blank line, all of s is events; the rest may grow.
LastBlank(s) == CHOOSE i \in BlankLines(s) : \A j \in BlankLines(s) : j <= i
Complete(s) == IF BlankLines(s) = {} THEN <<>> ELSE SubSeq(s, 1, LastBlank(s) + 1)
Incomplete_Dropped(s) == IF BlankLines(s) = {} THEN s ELSE <<>>
Incomplete(s) == SubSeq(s, Len(Complete(s)) + 1, Len(s))

-----------------------------------------------------------------------------
(* The agent *)

Stripped_Not(s) == s
Stripped(s) == OfKind(s, Plain)

AddedTo_Replaces(list, m) ==
  Append(SelectSeq(list, LAMBDA c : c.index # m.index), [index |-> m.index, args |-> <<m.arg>>])
AddedTo(list, m) ==
  IF \E c \in ToSet(list) : c.index = m.index
  THEN [i \in 1..Len(list) |-> IF list[i].index = m.index
                               THEN [list[i] EXCEPT !.args = Append(@, m.arg)] ELSE list[i]]
  ELSE Append(list, [index |-> m.index, args |-> <<m.arg>>])

\* One data line after the other, until [DONE].
TakenLine(r, m) ==
  IF r.done THEN r
  ELSE IF m.is = "done" THEN [r EXCEPT !.done = TRUE]
  ELSE IF m.is = "text" THEN [r EXCEPT !.textRead = Append(@, m.text)]
  ELSE [r EXCEPT !.toolCalls = AddedTo(@, m)]
Taken(lines) ==
  LET taken[i \in 0..Len(lines)] ==
        IF i = 0 THEN [textRead |-> textRead, toolCalls |-> toolCalls, done |-> FALSE]
        ELSE TakenLine(taken[i - 1], lines[i])
  IN taken[Len(lines)]

ByIndex_Arrival(list) == list
ByIndex(list) ==
  CHOOSE s \in [1..Len(list) -> ToSet(list)] :
    /\ ToSet(s) = ToSet(list)
    /\ \A i, j \in 1..Len(list) : i < j => s[i].index < s[j].index

AgentTakes(piece) ==
  LET all == agentBuf \o Stripped(piece)
      result == Taken(DataLines(Complete(all)))
  IN /\ textRead' = result.textRead
     /\ toolCalls' = IF result.done THEN ByIndex(result.toolCalls) ELSE result.toolCalls
     /\ agentBuf' = Incomplete(all)
     /\ agentRead' = IF result.done THEN "returned" ELSE "reading"

-----------------------------------------------------------------------------
(* The voice runner *)

VoiceTakes(piece) ==
  LET all == voiceBuf \o piece
  IN /\ yielded' = yielded \o DataLines(Complete(all))
     /\ voiceBuf' = Incomplete(all)

-----------------------------------------------------------------------------
(* A piece arrives. *)
Piece(n) ==
  /\ n \in 1..Len(unread)
  /\ "reading" \in {agentRead, voiceRead}
  /\ unread' = SubSeq(unread, n + 1, Len(unread))
  /\ IF agentRead = "reading" THEN AgentTakes(SubSeq(unread, 1, n))
     ELSE UNCHANGED <<textRead, toolCalls, agentBuf, agentRead>>
  /\ IF voiceRead = "reading" THEN VoiceTakes(SubSeq(unread, 1, n))
     ELSE UNCHANGED <<yielded, voiceBuf>>
  /\ UNCHANGED <<bytes, voiceRead>>

\* The stream ends; the voice runner takes what is left as an event.
Leftover_None == <<>>
Leftover == DataLines(voiceBuf)
Ends ==
  /\ unread = <<>>
  /\ voiceRead = "reading"
  /\ voiceRead' = "ended"
  /\ yielded' = yielded \o Leftover
  /\ voiceBuf' = <<>>
  /\ agentRead' = IF agentRead = "reading" THEN "returned" ELSE agentRead
  /\ toolCalls' = IF agentRead = "reading" THEN ByIndex(toolCalls) ELSE toolCalls
  /\ UNCHANGED <<bytes, unread, agentBuf, textRead>>

\* The connection fails: both readers throw, unless they have returned.
Breaks ==
  /\ voiceRead = "reading"
  /\ voiceRead' = "failed"
  /\ agentRead' = IF agentRead = "reading" THEN "failed" ELSE agentRead
  /\ UNCHANGED <<bytes, unread, agentBuf, textRead, toolCalls, voiceBuf, yielded>>

EventsNext == (\E n \in 1..Len(unread) : Piece(n)) \/ Ends \/ Breaks

EventsSpec == EventsInit /\ [][EventsNext]_eventVars

-----------------------------------------------------------------------------
(* Properties *)

Lines == DataLines(bytes)
BeforeDone ==
  IF \E m \in ToSet(Lines) : m.is = "done"
  THEN SubSeq(Lines, 1, (CHOOSE i \in 1..Len(Lines) :
                           Lines[i].is = "done" /\ \A j \in 1..(i - 1) : Lines[j].is # "done") - 1)
  ELSE Lines
TextsOf(s) ==
  LET texts == OfKind(s, {"text"}) IN [i \in 1..Len(texts) |-> texts[i].text]
ArgsOf(s, k) ==
  LET args[i \in 0..Len(s)] ==
        IF i = 0 THEN <<>>
        ELSE IF s[i].is = "call" /\ s[i].index = k THEN Append(args[i - 1], s[i].arg)
        ELSE args[i - 1]
  IN args[Len(s)]

\* The events the stream closes with a blank line, whichever line ends it uses.
Closed == DataLines(Complete(OfKind(bytes, Plain)))
ForAgent == SubSeq(BeforeDone, 1, IF Len(Closed) < Len(BeforeDone) THEN Len(Closed) ELSE Len(BeforeDone))

\* However the stream is cut, the agent has of it every text in order and the calls by
\* index, each with all its pieces in order; only an event whose blank line never came
\* is left out.
AgentPutsTogether ==
  agentRead = "returned" =>
    /\ textRead = TextsOf(ForAgent)
    /\ \A i \in 1..Len(toolCalls) :
         /\ toolCalls[i].args = ArgsOf(ForAgent, toolCalls[i].index)
         /\ i > 1 => toolCalls[i - 1].index < toolCalls[i].index
    /\ \A m \in ToSet(ForAgent) : m.is = "call" => \E c \in ToSet(toolCalls) : c.index = m.index

\* The voice runner has every data line, the last one without a blank line too.
VoiceHasAll == voiceRead = "ended" => yielded = Lines

\* No event waits that is complete: with bare line feeds it is passed on as it comes.
\* (With carriage returns it waits for the end of the stream.)
VoiceInTime ==
  ~(\E m \in ToSet(bytes) : m = CR) /\ voiceRead = "reading" =>
    yielded = DataLines(Complete(SubSeq(bytes, 1, Len(bytes) - Len(unread))))

EventStreamCorrect == AgentPutsTogether /\ VoiceHasAll /\ VoiceInTime

=============================================================================
