----------------------------- MODULE SpeechStream -----------------------------
(***************************************************************************)
(* One connection to the streaming recognizer                              *)
(* (src/scripts/phone-voice-stt/server_stream_stt.py): the receive loop    *)
(* collects audio and awaits finals, tasks of their own generate partials, *)
(* and one lock lets only one of both use the model.                       *)
(*                                                                         *)
(* Audio is a sequence of frames, each voiced or silent; a text is the     *)
(* voiced frames of the window it was generated from.  One event loop runs *)
(* all; generate runs in a worker thread, so a task that was created       *)
(* begins before an answer of the model is seen.  `_emit` does not wait.   *)
(***************************************************************************)
EXTENDS Integers, Sequences, SequencesExt

CONSTANTS
  StreamFrames,  \* model bound: frames 1..StreamFrames are sent
  WindowFrames,  \* STREAM_WINDOW_MS, in frames
  StepFrames,    \* STREAM_PARTIAL_STEP_MS, in frames
  EndpointFrames \* endpointSilenceMs, in frames

ASSUME SpeechStreamAssumption ==
  /\ StreamFrames \in Nat
  /\ WindowFrames \in Nat \ {0} /\ StepFrames \in Nat \ {0} /\ EndpointFrames \in Nat \ {0}

VARIABLES
  voicedFrames, \* which of the frames received so far are voiced
  received,     \* frames 1..received have been received
  buffer,       \* session.buffer
  sincePartial, \* session.samples_since_partial
  silence,      \* session.trailing_silent_samples
  hasVoice,     \* session.has_voice
  awaiting,     \* session.awaiting_next_utterance
  lastText,     \* session.last_partial_text
  loop,         \* the receive loop: receiving, in emit_final (before or after it has
                \* infer_lock), or left
  lastFinal,    \* this final is that of an `end`
  finalWindow,  \* its window_copy, and the first frame of its utterance
  created,      \* tasks of emit_partial_if_changed that have not begun
  partialAt,    \* the partial in flight: none, waiting for infer_lock, generating
  partialWindow, \* its window_copy
  sent          \* what the client was sent, and the finals that failed

audioVars == <<voicedFrames, received, buffer, sincePartial, silence, hasVoice, awaiting>>
finalVars == <<loop, lastFinal, finalWindow>>
partialVars == <<created, partialAt, partialWindow, lastText>>
streamVars == <<audioVars, finalVars, partialVars, sent>>

NoWindow == [from |-> 0, window |-> <<>>]

StreamInit ==
  /\ voicedFrames = {}
  /\ received = 0
  /\ buffer = <<>>
  /\ sincePartial = 0
  /\ silence = 0
  /\ hasVoice = FALSE
  /\ awaiting = FALSE
  /\ lastText = {}
  /\ loop = "receiving"
  /\ lastFinal = FALSE
  /\ finalWindow = NoWindow
  /\ created = 0
  /\ partialAt = "none"
  /\ partialWindow = <<>>
  /\ sent = <<>>

-----------------------------------------------------------------------------
(* An operator X_Y is X with a bug Y planted in it. *)

\* window_slice: the end of the buffer.
WindowSlice_Start(frames) ==
  SubSeq(frames, 1, IF Len(frames) < WindowFrames THEN Len(frames) ELSE WindowFrames)
WindowSlice(frames) ==
  SubSeq(frames, IF Len(frames) < WindowFrames THEN 1 ELSE Len(frames) - WindowFrames + 1,
         Len(frames))

Words(window) == {f \in ToSet(window) : f \in voicedFrames}

\* reset_after_final.
ResetAfterFinal_KeepsAudio ==
  /\ buffer' = buffer
  /\ sincePartial' = 0 /\ silence' = 0
  /\ hasVoice' = FALSE
  /\ lastText' = {}
  /\ awaiting' = TRUE
ResetAfterFinal ==
  /\ buffer' = <<>>
  /\ sincePartial' = 0 /\ silence' = 0
  /\ hasVoice' = FALSE
  /\ lastText' = {}
  /\ awaiting' = TRUE

\* The loop handles one message at a time: it awaits emit_final.
Receiving_Always == loop # "left"
Receiving == loop = "receiving"

\* emit_final up to the model: the window is copied, then infer_lock is needed.
GoesToModel(ends, frames) ==
  /\ finalWindow' = [from |-> Head(frames), window |-> WindowSlice(frames)]
  /\ loop' = IF partialAt = "generating" THEN "waiting" ELSE "generating"
  /\ lastFinal' = ends

\* A binary frame: voice activity, buffer, then a final or the creation of a partial.
EndpointReached == hasVoice' /\ ~awaiting' /\ silence' >= EndpointFrames
PartialDue == hasVoice' /\ ~awaiting' /\ sincePartial + 1 >= StepFrames
AudioArrives(isVoiced) ==
  /\ Receiving
  /\ received < StreamFrames
  /\ received' = received + 1
  /\ voicedFrames' = IF isVoiced THEN voicedFrames \cup {received + 1} ELSE voicedFrames
  /\ hasVoice' = (hasVoice \/ isVoiced)
  /\ silence' = IF isVoiced THEN 0 ELSE silence + 1
  /\ awaiting' = (awaiting /\ ~isVoiced)
  /\ buffer' = Append(buffer, received + 1)
  /\ IF EndpointReached
     THEN GoesToModel(FALSE, buffer') /\ sincePartial' = sincePartial + 1 /\ UNCHANGED created
     ELSE /\ sincePartial' = IF PartialDue THEN 0 ELSE sincePartial + 1
          /\ created' = IF PartialDue THEN created + 1 ELSE created
          /\ UNCHANGED finalVars
  /\ UNCHANGED <<partialAt, partialWindow, lastText, sent>>

\* `flush`: without voice nothing is transcribed, and nothing is answered.
Flush ==
  /\ Receiving
  /\ IF hasVoice
     THEN /\ GoesToModel(FALSE, buffer)
          /\ UNCHANGED <<buffer, sincePartial, silence, hasVoice, awaiting, lastText>>
     ELSE ResetAfterFinal /\ UNCHANGED finalVars
  /\ UNCHANGED <<voicedFrames, received, created, partialAt, partialWindow, sent>>

\* `end`: a final for what is left, and the loop is left; or the client goes away.
End ==
  /\ Receiving
  /\ IF hasVoice /\ ~awaiting
     THEN GoesToModel(TRUE, buffer)
     ELSE loop' = "left" /\ UNCHANGED <<lastFinal, finalWindow>>
  /\ UNCHANGED <<audioVars, partialVars, sent>>

Disconnects ==
  /\ Receiving
  /\ loop' = "left"
  /\ UNCHANGED <<audioVars, lastFinal, finalWindow, partialVars, sent>>

\* The final has its text, or the error; the lock goes to a partial that waits.
Record(kind, w) == [kind |-> kind, from |-> w.from, window |-> w.window]
FinalReturns(kind) ==
  /\ loop = "generating"
  /\ created = 0
  /\ sent' = Append(sent, Record(kind, finalWindow))
  /\ finalWindow' = NoWindow
  /\ ResetAfterFinal
  /\ loop' = IF lastFinal THEN "left" ELSE "receiving"
  /\ partialAt' = IF partialAt = "waiting" THEN "generating" ELSE partialAt
  /\ UNCHANGED <<voicedFrames, received, lastFinal, created, partialWindow>>

\* emit_partial_if_changed: one at a time, others are skipped.  The lock is fair.
PartialBegins ==
  /\ created > 0
  /\ created' = created - 1
  /\ IF partialAt # "none" \/ buffer = <<>>
     THEN UNCHANGED <<partialAt, partialWindow>>
     ELSE /\ partialAt' = IF loop \in {"waiting", "generating"} THEN "waiting" ELSE "generating"
          /\ partialWindow' = WindowSlice(buffer)
  /\ UNCHANGED <<audioVars, finalVars, lastText, sent>>

\* Its text is sent if it is new, to a client that is still there; the lock goes to
\* a final that waits.  A failure sends an error and changes nothing else.
Fresh(text) == text \notin {{}, lastText}
PartialReturns(ok) ==
  /\ partialAt = "generating"
  /\ created = 0
  /\ partialAt' = "none"
  /\ partialWindow' = <<>>
  /\ loop' = IF loop = "waiting" THEN "generating" ELSE loop
  /\ IF ok /\ Fresh(Words(partialWindow))
     THEN /\ lastText' = Words(partialWindow)
          /\ sent' = IF loop = "left" THEN sent
                     ELSE Append(sent, Record("partial", [from |-> Head(partialWindow),
                                                          window |-> partialWindow]))
     ELSE UNCHANGED <<lastText, sent>>
  /\ UNCHANGED <<audioVars, lastFinal, finalWindow, created>>

StreamNext ==
  \/ \E isVoiced \in BOOLEAN : AudioArrives(isVoiced)
  \/ Flush \/ End \/ Disconnects \/ PartialBegins
  \/ \E kind \in {"final", "failed"} : FinalReturns(kind)
  \/ \E ok \in BOOLEAN : PartialReturns(ok)

-----------------------------------------------------------------------------
(* Properties *)

FinalsIn(m) == {k \in 1..m : sent[k].kind \in {"final", "failed"}}

\* What the caller said is transcribed: every voiced frame is still in the buffer, or
\* went into the window of a final, or was too old for the window of the final of its
\* utterance.  Frames that come while a final is generated wait for the reset.
VoiceIsTranscribed ==
  \A f \in voicedFrames :
    \/ f \in ToSet(buffer)
    \/ \E k \in FinalsIn(Len(sent)) :
         \/ f \in ToSet(sent[k].window)
         \/ Len(sent[k].window) = WindowFrames /\ sent[k].from <= f /\ f < Head(sent[k].window)

\* No word is in two finals, and finals come in the order of the speech.
FinalsApart ==
  \A k, n \in FinalsIn(Len(sent)) : k < n => Last(sent[k].window) < sent[n].from

\* A partial speaks of the utterance that goes on or of the one just ended: one that
\* waited for the lock behind the final of its utterance comes after it.
LateByOne ==
  \A m \in 1..Len(sent) : sent[m].kind = "partial" =>
    \A k, n \in FinalsIn(m) : k < n => Last(sent[k].window) < Head(sent[m].window)

\* ... and after each final at most one such partial comes, however many were due.
OneLatePartial ==
  \A m, n \in 1..Len(sent) :
    m < n /\ sent[m].kind = "partial" /\ sent[n].kind = "partial" =>
      \A k \in FinalsIn(m) : Last(sent[n].window) > Last(sent[k].window)

\* The transcripts of a connection, of which VoiceTurns makes turns.
StreamCorrect == VoiceIsTranscribed /\ FinalsApart /\ LateByOne /\ OneLatePartial

=============================================================================
