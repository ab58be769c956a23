------------------------------ MODULE VoiceTurns ------------------------------
(***************************************************************************)
(* One call of the voice runner (src/src/voice-runner/live-runner.ts):     *)
(* what the caller says becomes transcripts, a transcript starts a turn, a *)
(* turn thinks and speaks, and the caller may interrupt it.                *)
(*                                                                         *)
(* Every await is a point where other callbacks run: a turn waits for      *)
(* onTranscriptFinal, the model, its audio and onFinalizedAgentTurn, and   *)
(* transcripts come from the streaming recognizer, the phone gateway, the  *)
(* batch recognizer and a timer.  Recognizers, model, speech synthesis and *)
(* callbacks are external: they answer, fail, or answer late.              *)
(***************************************************************************)
EXTENDS Integers, Sequences

CONSTANTS
  Utterances,  \* model bound: the caller speaks 1..Utterances
  Turns,       \* model bound: turns 1..Turns are processed
  Chunks,      \* model bound: sentences of an answer
  GatewayHears, \* model bound: utterances the gateway may send a final for
  Streams,     \* whether there is a streaming recognizer: "opening", "failed"
  Greets,      \* whether the call is answered with a greeting: a subset of BOOLEAN
  Contents     \* what an utterance may be: see content

ASSUME VoiceTurnsAssumption ==
  /\ Greets \subseteq BOOLEAN
  /\ Streams \subseteq {"opening", "failed"}
  /\ GatewayHears \subseteq 1..Utterances
  /\ Utterances \in Nat /\ Turns \in Nat /\ Chunks \in Nat \ {0}
  /\ Contents \subseteq {"speech", "word", "noise", "unclear"}

VARIABLES
  call,     \* the session: in `sessions`, its stream being ended, deleted
  stream,   \* session.streamingStt: opening, open, failed or closed
  content,  \* what utterance u is: "speech" of some words, one "word", "noise"
            \* (empty or a typical hallucination), or "unclear" to the recognizer
  spoken,   \* utterances 1..spoken have begun
  ended,    \* utterances 1..ended have ended
  partial,  \* session.partialText: the utterance it is of, or 0
  finals,   \* finals under way: <<utterance, source>>; that of the batch recognizer
            \* is session.activeTranscription
  fallbacks, \* fallback timers that are armed
  handled,  \* session.streamingFinalHandled
  lastUser, \* the last user turn in session.history
  speaking, \* session.activeResponse, or NoResponse
  resp,     \* the responses
  turnAt,   \* where processTranscriptFinal is in each turn; turn 0 is the greeting
  said,     \* the utterance and the source of a transcript being announced
  fixed,    \* where emitFixedResponse is, in each turn
  orphans,  \* history: responses that lost activeResponse without being cancelled
  leaked,   \* history: a claimed final ended outside the try that frees the flag
  late      \* history: responses that began after the session was ended

callVars == <<call, stream, content>>
heardVars == <<spoken, ended, partial, finals, fallbacks>>
turnVars == <<handled, lastUser, speaking, resp, turnAt, said, fixed>>
voiceHistory == <<orphans, leaked, late>>
voiceVars == <<callVars, heardVars, turnVars, voiceHistory>>

TurnIds == 1..Turns
Speakers == 0..Turns
NoResponse == 0
\* A turn has up to two responses: its answer, and a fixed sentence.
Answer(i) == i
Fixed(i) == Turns + 1 + i
Responses == 1..(2 * Turns + 1)
NoText == <<0, "none">>
Silent == [text |-> 0, voiced |-> <<>>, tail |-> "whole"]

\* startSession, with a greeting (its emitFixedResponse has begun).
VoiceInit ==
  /\ call = "open"
  /\ stream \in Streams
  /\ content \in [1..Utterances -> Contents]
  /\ spoken = 0
  /\ ended = 0
  /\ partial = 0
  /\ finals = {}
  /\ fallbacks = {}
  /\ handled = FALSE
  /\ lastUser = 0
  /\ \E greeted \in Greets :
       /\ speaking = IF greeted THEN Fixed(0) ELSE NoResponse
       /\ turnAt = [i \in Speakers |-> IF i > 0 THEN "idle" ELSE IF greeted THEN "plain" ELSE "done"]
       /\ fixed = [i \in Speakers |-> IF i = 0 /\ greeted THEN "playing" ELSE "none"]
  /\ resp = [r \in Responses |-> IF r = speaking THEN [Silent EXCEPT !.text = 1] ELSE Silent]
  /\ said = [i \in Speakers |-> NoText]
  /\ orphans = {}
  /\ leaked = FALSE
  /\ late = {}

-----------------------------------------------------------------------------
(* Responses.  An operator X_Y is X with a bug Y planted in it. *)

\* cancelActiveResponse: the signal is aborted and the response is let go.  What is
\* left of its playback tail ends without a sound.
Aborted == IF speaking = NoResponse THEN resp ELSE [resp EXCEPT ![speaking].tail = "aborted"]

\* r becomes activeResponse, in the place of whatever was there.
Install(r, sentences) ==
  /\ speaking' = r
  /\ resp' = [resp EXCEPT ![r].text = sentences]
  /\ orphans' = orphans \cup ({speaking} \ {NoResponse})
  /\ late' = IF call = "open" THEN late ELSE late \cup {r}

\* The next sentence of r is synthesized and goes to the caller: sentences wait for
\* those before them (playbackTail), and those of an aborted response are not spoken.
Playable_NoTail(r) ==
  {k \in 1..resp[r].text : resp[r].tail = "whole" /\ \A n \in 1..Len(resp[r].voiced) : resp[r].voiced[n] # k}
Playable_NoSignal(r) == {k \in 1..resp[r].text : resp[r].tail # "broken" /\ k = Len(resp[r].voiced) + 1}
Playable_Past(r) == IF resp[r].tail = "whole" THEN {Len(resp[r].voiced) + 1} ELSE {}
Playable(r) == {k \in 1..resp[r].text : resp[r].tail = "whole" /\ k = Len(resp[r].voiced) + 1}
Plays(r) ==
  \E k \in Playable(r) :
    /\ resp' = [resp EXCEPT ![r].voiced = Append(@, k)]
    /\ UNCHANGED <<callVars, heardVars, handled, lastUser, speaking, turnAt, said,
                   fixed, voiceHistory>>

\* The synthesis of a sentence fails: its tail rejects, and with it all that follow.
SynthesisFails(r) ==
  /\ resp[r].tail = "whole"
  /\ Len(resp[r].voiced) < resp[r].text
  /\ resp' = [resp EXCEPT ![r].tail = "broken"]
  /\ UNCHANGED <<callVars, heardVars, handled, lastUser, speaking, turnAt, said, fixed,
                 voiceHistory>>

TailSettled_Sound(r) == Len(resp[r].voiced) = resp[r].text
TailSettled(r) == resp[r].tail # "whole" \/ Len(resp[r].voiced) = resp[r].text

-----------------------------------------------------------------------------
(* From speech to transcripts *)

StreamActive == stream = "open"

\* The caller begins to speak; partials of utterance `spoken` may follow.
Speaks ==
  /\ call # "ended"
  /\ spoken = ended
  /\ spoken < Utterances
  /\ spoken' = spoken + 1
  /\ UNCHANGED <<callVars, ended, partial, finals, fallbacks, turnVars, voiceHistory>>

\* onPartial of the stream, and handleTranscriptPartial of the gateway: the first
\* interrupts only for two words or more that are no hallucination.
BargesIn(src) == src = "gateway" \/ content[spoken] \in {"speech", "unclear"}
PartialArrives(src) ==
  /\ call # "ended"
  /\ spoken > 0
  /\ src = "stream" => stream = "open"
  /\ partial' = spoken
  /\ resp' = IF BargesIn(src) THEN Aborted ELSE resp
  /\ speaking' = IF BargesIn(src) THEN NoResponse ELSE speaking
  /\ UNCHANGED <<callVars, spoken, ended, finals, fallbacks, handled, lastUser, turnAt,
                 said, fixed, voiceHistory>>

\* The end of an utterance: the stream is flushed and a timer stands by; without a
\* stream the batch recognizer gets the audio, and forgets what it worked on.  The
\* gateway may send a final of its own.
EndOfTurn(sources) ==
  /\ call # "ended"
  /\ ended < spoken
  /\ ended' = spoken
  /\ IF StreamActive
     THEN /\ finals' = finals \cup ({spoken} \X (sources \cup {"stream"}))
          /\ fallbacks' = fallbacks \cup {spoken}
     ELSE /\ finals' = {f \in finals : f[2] # "batch"} \cup ({spoken} \X (sources \cup {"batch"}))
          /\ UNCHANGED fallbacks
  /\ UNCHANGED <<callVars, spoken, partial, turnVars, voiceHistory>>

Starts(i) == turnAt[i] = "idle" /\ \A j \in TurnIds : j < i => turnAt[j] # "idle"

\* The first part of processTranscriptFinal, for turn i: transcripts that say
\* nothing new are dropped; a response in progress is cancelled.
Dropped(u) == content[u] = "noise" \/ u = lastUser
Process(i, u, src) ==
  /\ partial' = 0
  /\ IF Dropped(u)
     THEN /\ leaked' = (leaked \/ src # "batch")
          /\ UNCHANGED <<speaking, resp, turnAt, said>>
     ELSE /\ Starts(i)
          /\ resp' = Aborted
          /\ speaking' = NoResponse
          /\ turnAt' = [turnAt EXCEPT ![i] = "announcing"]
          /\ said' = [said EXCEPT ![i] = <<u, src>>]
          /\ UNCHANGED leaked
  /\ UNCHANGED <<lastUser, fixed, orphans, late>>

\* onFinal and handleTranscriptFinal: the first final claims the flag.
FinalArrives(u, src) ==
  /\ call # "ended"
  /\ <<u, src>> \in finals
  /\ finals' = finals \ {<<u, src>>}
  /\ IF handled
     THEN UNCHANGED <<partial, turnVars, voiceHistory>>
     ELSE handled' = TRUE /\ \E i \in TurnIds : Process(i, u, src)
  /\ UNCHANGED <<callVars, spoken, ended, fallbacks>>

\* The fallback timer takes the last partial for the final.
TimerFallsBack(u) ==
  /\ call # "ended"
  /\ u \in fallbacks
  /\ fallbacks' = fallbacks \ {u}
  /\ IF handled \/ partial = 0
     THEN UNCHANGED <<partial, turnVars, voiceHistory>>
     ELSE handled' = TRUE /\ \E i \in TurnIds : Process(i, partial, "stream")
  /\ UNCHANGED <<callVars, spoken, ended, finals>>

\* flushAudioInput has its transcript; the flag is not asked.
BatchAnswers(u) ==
  /\ <<u, "batch">> \in finals
  /\ finals' = finals \ {<<u, "batch">>}
  /\ UNCHANGED handled
  /\ \E i \in TurnIds : Process(i, u, "batch")
  /\ UNCHANGED <<callVars, spoken, ended, fallbacks>>

-----------------------------------------------------------------------------
(* A turn *)

\* The `finally` of processTranscriptFinal.
Finally_KeepsFlag(i) ==
  /\ speaking' = IF speaking = Answer(i) THEN NoResponse ELSE speaking
  /\ UNCHANGED handled
  /\ turnAt' = [turnAt EXCEPT ![i] = "done"]
Finally(i) ==
  /\ speaking' = IF speaking = Answer(i) THEN NoResponse ELSE speaking
  /\ handled' = FALSE
  /\ turnAt' = [turnAt EXCEPT ![i] = "done"]

\* emitFixedResponse in turn i, at once over when the session is gone: it cancels
\* nothing, and takes the place of what is active.
StartFixed(i, as) ==
  /\ Install(Fixed(i), 1)
  /\ fixed' = [fixed EXCEPT ![i] = "playing"]
  /\ turnAt' = [turnAt EXCEPT ![i] = as]

\* The batch recognizer fails: the caller is asked again.
BatchFails(u) ==
  /\ <<u, "batch">> \in finals
  /\ finals' = finals \ {<<u, "batch">>}
  /\ \E i \in TurnIds : Starts(i) /\ StartFixed(i, "plain")
  /\ UNCHANGED <<callVars, spoken, ended, partial, fallbacks, handled, lastUser, said,
                 leaked>>

\* onTranscriptFinal has returned: ask again, or ask the model.
Unclear(i) == content[said[i][1]] = "unclear" /\ said[i][2] # "stream"
Announced(i) ==
  /\ turnAt[i] = "announcing"
  /\ lastUser' = said[i][1]
  /\ said' = [said EXCEPT ![i] = NoText]
  /\ \/ /\ ~Unclear(i)
        /\ Install(Answer(i), 0)
        /\ turnAt' = [turnAt EXCEPT ![i] = "thinking"]
        /\ UNCHANGED <<fixed, leaked>>
     \/ /\ Unclear(i)
        /\ leaked' = (leaked \/ said[i][2] # "batch")
        /\ IF call = "ended"
           THEN /\ turnAt' = [turnAt EXCEPT ![i] = "done"]
                /\ UNCHANGED <<speaking, resp, fixed, orphans, late>>
           ELSE StartFixed(i, "plain")
  /\ UNCHANGED <<callVars, heardVars, handled>>

\* emitTextDelta from the model, or the filler while nothing was said.
Says(i) ==
  /\ turnAt[i] = "thinking"
  /\ resp[Answer(i)].text < Chunks
  /\ resp' = [resp EXCEPT ![Answer(i)].text = @ + 1]
  /\ UNCHANGED <<callVars, heardVars, handled, lastUser, speaking, turnAt, said, fixed,
                 voiceHistory>>

\* generateTurn returns; its actions and handoffs are passed on if the turn is active.
ModelAnswers(i) ==
  /\ turnAt[i] = "thinking"
  /\ IF speaking = Answer(i)
     THEN turnAt' = [turnAt EXCEPT ![i] = "settling"] /\ UNCHANGED <<speaking, handled>>
     ELSE Finally(i)
  /\ UNCHANGED <<callVars, heardVars, lastUser, resp, said, fixed, voiceHistory>>

\* The abort ends generateTurn.
ModelAborted(i) ==
  /\ turnAt[i] = "thinking"
  /\ resp[Answer(i)].tail = "aborted"
  /\ Finally(i)
  /\ UNCHANGED <<callVars, heardVars, lastUser, resp, said, fixed, voiceHistory>>

\* The model or a callback fails: an apology, inside the try.
ModelFails(i) ==
  /\ turnAt[i] \in {"thinking", "settling", "closing"}
  /\ IF call = "ended"
     THEN /\ Finally(i)
          /\ orphans' = orphans \cup ({speaking} \cap {Answer(i)})
          /\ UNCHANGED <<resp, fixed, late>>
     ELSE StartFixed(i, "sorry") /\ UNCHANGED handled
  /\ UNCHANGED <<callVars, heardVars, lastUser, said, leaked>>

\* All is spoken: the answer goes into the history and to onFinalizedAgentTurn.
CanFinalize_Early(i) == speaking = Answer(i)
CanFinalize(i) == TailSettled(Answer(i)) /\ speaking = Answer(i)
Spoken(i) ==
  /\ turnAt[i] = "settling"
  /\ CanFinalize(i)
  /\ turnAt' = [turnAt EXCEPT ![i] = "closing"]
  /\ UNCHANGED <<callVars, heardVars, handled, lastUser, speaking, resp, said, fixed,
                 voiceHistory>>

Interrupted(i) ==
  /\ turnAt[i] = "settling"
  /\ TailSettled(Answer(i))
  /\ speaking # Answer(i)
  /\ Finally(i)
  /\ UNCHANGED <<callVars, heardVars, lastUser, resp, said, fixed, voiceHistory>>

ReplyCloses(i) ==
  /\ turnAt[i] = "closing"
  /\ Finally(i)
  /\ UNCHANGED <<callVars, heardVars, lastUser, resp, said, fixed, voiceHistory>>

\* A fixed sentence is spoken, and onFinalizedAgentTurn is awaited ...
FixedSpoken(i) ==
  /\ fixed[i] = "playing"
  /\ TailSettled(Fixed(i)) /\ resp[Fixed(i)].tail # "broken"
  /\ fixed' = [fixed EXCEPT ![i] = "closing"]
  /\ UNCHANGED <<callVars, heardVars, handled, lastUser, speaking, resp, turnAt, said,
                 voiceHistory>>

\* ... then activeResponse is let go, whichever it is.
FixedCloses(i) ==
  /\ fixed[i] = "closing"
  /\ fixed' = [fixed EXCEPT ![i] = "none"]
  /\ orphans' = orphans \cup ({speaking} \ {NoResponse, Fixed(i)})
  /\ speaking' = NoResponse
  /\ handled' = (handled /\ turnAt[i] # "sorry")
  /\ turnAt' = [turnAt EXCEPT ![i] = "done"]
  /\ UNCHANGED <<callVars, heardVars, lastUser, resp, said, leaked, late>>

\* Its audio fails, on its own or by an abort: a response that was not cancelled
\* stays activeResponse.
FixedBreaks(i) ==
  /\ fixed[i] = "playing"
  /\ resp[Fixed(i)].tail # "whole"
  /\ fixed' = [fixed EXCEPT ![i] = "none"]
  /\ IF turnAt[i] = "sorry" THEN Finally(i)
     ELSE turnAt' = [turnAt EXCEPT ![i] = "done"] /\ UNCHANGED <<speaking, handled>>
  /\ UNCHANGED <<callVars, heardVars, lastUser, resp, said, voiceHistory>>

-----------------------------------------------------------------------------
(* The session *)

\* openStreamingStt, and the ways the stream is lost.
StreamOpens ==
  /\ stream = "opening"
  /\ stream' = "open"
  /\ UNCHANGED <<call, content, heardVars, turnVars, voiceHistory>>

StreamFails ==
  /\ stream \in {"opening", "open"}
  /\ stream' = "failed"
  /\ finals' = {f \in finals : f[2] # "stream"}
  /\ UNCHANGED <<call, content, spoken, ended, partial, fallbacks, turnVars,
                 voiceHistory>>

\* The session is out of `sessions`: its stream, timers and finals mean nothing.
Delete ==
  /\ call' = "ended"
  /\ stream' = "failed"
  /\ finals' = {}
  /\ fallbacks' = {}
  /\ partial' = 0

\* endSession, up to the await of the stream, and what follows it.
EndSession ==
  /\ call = "open"
  /\ resp' = Aborted
  /\ speaking' = NoResponse
  /\ IF stream = "open"
     THEN /\ call' = "ending"
          /\ finals' = {f \in finals : f[2] # "batch"}
          /\ UNCHANGED <<stream, fallbacks, partial>>
     ELSE Delete
  /\ UNCHANGED <<content, spoken, ended, handled, lastUser, turnAt, said, fixed,
                 voiceHistory>>

SessionDeleted ==
  /\ call = "ending"
  /\ Delete
  /\ UNCHANGED <<content, spoken, ended, turnVars, voiceHistory>>

-----------------------------------------------------------------------------
Hears ==
  \/ Speaks \/ EndOfTurn({})
  \/ spoken \in GatewayHears /\ EndOfTurn({"gateway"})
  \/ \E src \in {"stream", "gateway"} : PartialArrives(src)
  \/ \E u \in 1..Utterances, src \in {"stream", "gateway"} : FinalArrives(u, src)
  \/ \E u \in 1..Utterances : TimerFallsBack(u) \/ BatchAnswers(u) \/ BatchFails(u)

Thinks(i) ==
  \/ Announced(i) \/ ModelAnswers(i) \/ ModelAborted(i)
  \/ Spoken(i) \/ Interrupted(i) \/ ReplyCloses(i)

FixedSteps(i) == FixedSpoken(i) \/ FixedCloses(i) \/ FixedBreaks(i)

VoiceNext ==
  \/ Hears
  \/ \E i \in TurnIds : Says(i) \/ Thinks(i) \/ ModelFails(i)
  \/ \E i \in Speakers : FixedSteps(i)
  \/ \E r \in Responses : Plays(r) \/ SynthesisFails(r)
  \/ StreamOpens \/ StreamFails \/ EndSession \/ SessionDeleted

VoiceSpec == VoiceInit /\ [][VoiceNext]_voiceVars

\* The model, the speech synthesis and the callbacks answer at some time; no turn
\* is counted on to fail.
VoiceFairness ==
  /\ \A i \in TurnIds : WF_voiceVars(Thinks(i))
  /\ \A i \in Speakers : WF_voiceVars(FixedSteps(i))
  /\ \A r \in Responses : WF_voiceVars(Plays(r))

-----------------------------------------------------------------------------
(* Properties *)

VoiceTypeOK ==
  /\ call \in {"open", "ending", "ended"}
  /\ stream \in {"opening", "open", "failed"}
  /\ partial \in 0..spoken /\ ended \in 0..spoken /\ spoken \in 0..Utterances
  /\ fallbacks \subseteq 1..ended
  /\ finals \subseteq (1..ended) \X {"stream", "gateway", "batch"}
  /\ speaking \in Responses \cup {NoResponse}
  /\ \A r \in Responses : Len(resp[r].voiced) <= resp[r].text
  /\ \A i \in Speakers : turnAt[i] \in {"idle", "announcing", "thinking", "settling", "closing",
                                      "sorry", "plain", "done"}
  /\ \A i \in Speakers : fixed[i] # "none" <=> turnAt[i] \in {"sorry", "plain"}

\* Barge-in silences: audio goes out only for the active response, or for one that
\* was displaced without being cancelled; and after the end of the call only for
\* such a one or for one that a turn still being announced began later.
OnlyActiveSpeaks ==
  \A r \in Responses :
    resp'[r].voiced # resp[r].voiced =>
      \/ r \in orphans
      \/ r = speaking /\ (call # "open" => r \in late)

\* Sentences are spoken in the order they were said, although their syntheses
\* overlap and end in any order.
SpokenInOrder ==
  \A r \in Responses : \A n \in 1..Len(resp[r].voiced) : resp[r].voiced[n] = n

\* An answer goes into the history only if all of it was spoken, or its audio failed.
RecordedWasSpoken ==
  \A i \in TurnIds : turnAt'[i] = "closing" /\ turnAt[i] # "closing" =>
    resp[i].tail = "broken" \/ Len(resp[i].voiced) = resp[i].text

\* While streamingFinalHandled makes the call deaf to finals, a turn is in
\* progress whose end frees it, unless a claimed final was dropped on the way.
DeafOnlyDuringTurn ==
  handled /\ ~leaked => \E i \in TurnIds : turnAt[i] \notin {"idle", "done"}

\* The session is well formed, and hears whenever no turn is in progress.
HearingCorrect == VoiceTypeOK /\ DeafOnlyDuringTurn

\* Every turn ends, whoever interrupts it and whatever fails.
TurnsEnd == \A i \in TurnIds : (turnAt[i] \notin {"idle", "done"}) ~> (turnAt[i] = "done")

\* What is heard, said and recorded agree, in every state a step leads to and at the
\* step.
SpeechCorrect == [][SpokenInOrder' /\ OnlyActiveSpeaks /\ RecordedWasSpoken]_voiceVars

=============================================================================
