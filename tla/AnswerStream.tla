---------------------------- MODULE AnswerStream ----------------------------
(***************************************************************************)
(* The spoken answer of a phone call on its way from the model to the      *)
(* synthesis (generateTurn of OpenAiVoiceBackend, src/src/voice-runner/    *)
(* live-runner.ts): it comes in pieces cut anywhere, the model's thoughts  *)
(* are filtered out, and the rest is split into phrases.  The first phrase *)
(* is spoken at once, the others together when the answer has ended.       *)
(***************************************************************************)
EXTENDS Integers, Sequences, SequencesExt

CONSTANTS
  SpokenAnswers,  \* the answers a model may give, as sequences of characters
  OpenTag,        \* "<think>", in as many characters as the instance can afford
  CloseTag,       \* "</think>"
  PhraseLimit,    \* 90: from this length on a phrase is split at a comma or a space
  PhraseFloor     \* 24: but no piece gets shorter than this

\* The tags are words, and what is said is made of characters.
ASSUME AnswerStreamAssumption ==
  /\ \A a \in SpokenAnswers : a \in Seq(ToSet(a))
  /\ \A tag \in {OpenTag, CloseTag} : tag \in Seq(ToSet(tag)) /\ tag # <<>> /\ " " \notin ToSet(tag)
  /\ PhraseLimit \in Nat /\ PhraseFloor \in Nat

Space == " "
SentenceEnds == {"."}
Pauses == {",", Space}
Letters == UNION {ToSet(a) : a \in SpokenAnswers}

VARIABLES
  answer,    \* what the model says
  filters,   \* the model is one whose thoughts are filtered (shouldDisableThinking)
  rest,      \* what of the answer has not arrived
  held,      \* the filter's buffer
  inThink,   \* the filter is inside a thought
  text,      \* the text that is recorded
  pending,   \* pendingPhrase
  tail,      \* phrases that wait for the end
  uttered,   \* the texts given to emitTextDelta
  answering  \* "receiving", "closing", "done", "whole" (at once) or "aborted"

answerVars == <<answer, filters, rest, held, inThink, text, pending, tail, uttered, answering>>

AnswerInit ==
  /\ answer \in SpokenAnswers
  /\ filters \in BOOLEAN
  /\ rest = answer
  /\ held = <<>>
  /\ inThink = FALSE
  /\ text = <<>>
  /\ pending = <<>>
  /\ tail = <<>>
  /\ uttered = <<>>
  /\ answering = "receiving"

-----------------------------------------------------------------------------
(* Strings *)

Bigger(a, b) == IF a < b THEN b ELSE a
Begins(s, pat) == {i \in 1..(Len(s) - Len(pat) + 1) : SubSeq(s, i, i + Len(pat) - 1) = pat}
First(S) == CHOOSE i \in S : \A j \in S : i <= j
Final(S) == CHOOSE i \in S : \A j \in S : j <= i
Before(s, pat) == SubSeq(s, 1, First(Begins(s, pat)) - 1)
After(s, pat) == SubSeq(s, First(Begins(s, pat)) + Len(pat), Len(s))
From(s, i) == SubSeq(s, i, Len(s))

Solid(s) == {i \in 1..Len(s) : s[i] # Space}
TrimStart(s) == IF Solid(s) = {} THEN <<>> ELSE From(s, First(Solid(s)))
Trim(s) == IF Solid(s) = {} THEN <<>> ELSE SubSeq(s, First(Solid(s)), Final(Solid(s)))
NonSpace(s) ==
  LET solid[i \in 0..Len(s)] ==
        IF i = 0 THEN <<>>
        ELSE IF s[i] # Space THEN Append(solid[i - 1], s[i]) ELSE solid[i - 1]
  IN solid[Len(s)]

\* Runs of white space become one space.
Collapsed(s) ==
  LET collapsed[i \in 0..Len(s)] ==
        IF i = 0 THEN <<>>
        ELSE IF s[i] = Space /\ i > 1 /\ s[i - 1] = Space THEN collapsed[i - 1]
        ELSE Append(collapsed[i - 1], s[i])
  IN collapsed[Len(s)]

-----------------------------------------------------------------------------
(* The filter: what it lets through of its buffer, and what it keeps.  An end *)
(* that may be the beginning of a tag is held back until more comes.          *)

KeepThought_Nothing(b) == <<>>
KeepThought(b) == SubSeq(b, Bigger(1, Len(b) - Len(CloseTag) + 2), Len(b))
SafeLength_All(b) == Len(b)
SafeLength(b) == Bigger(0, Len(b) - (Len(OpenTag) - 1))

ThinkFilter[b \in Seq(Letters)] == [thinking \in BOOLEAN |->
  IF thinking
  THEN IF Begins(b, CloseTag) = {}
       THEN [out |-> <<>>, kept |-> KeepThought(b), thinking |-> TRUE]
       ELSE ThinkFilter[After(b, CloseTag)][FALSE]
  ELSE IF Begins(b, OpenTag) = {}
       THEN [out |-> SubSeq(b, 1, SafeLength(b)),
             kept |-> From(b, SafeLength(b) + 1), thinking |-> FALSE]
       ELSE LET inside == ThinkFilter[After(b, OpenTag)][TRUE]
            IN [inside EXCEPT !.out = Before(b, OpenTag) \o @]]

Through(delta) ==
  IF filters THEN ThinkFilter[held \o delta][inThink]
  ELSE [out |-> delta, kept |-> held, thinking |-> inThink]

-----------------------------------------------------------------------------
(* splitReadyVoicePhrases *)

EndsOfSentence(s) == {i \in 1..(Len(s) - 1) : s[i] \in SentenceEnds /\ s[i + 1] = Space}
Splits(s) == {i \in 1..Len(s) : i <= PhraseLimit + 1 /\ s[i] \in Pauses}
LastSplit(s) == IF Splits(s) = {} THEN 0 ELSE Final(Splits(s))

\* Where the next phrase of s ends, or 0.
Cut(s) ==
  IF EndsOfSentence(s) # {} THEN First(EndsOfSentence(s))
  ELSE IF Len(s) >= PhraseLimit /\ LastSplit(s) > PhraseFloor + 1 THEN LastSplit(s)
  ELSE 0

RestAfter_SkipsOne(s) == TrimStart(From(s, Cut(s) + 2))
RestAfter(s) == TrimStart(From(s, Cut(s) + 1))

SplitReady[s \in Seq(Letters)] ==
  IF Solid(s) # {} /\ Cut(s) # 0
  THEN LET more == SplitReady[RestAfter(s)]
       IN [more EXCEPT !.phrases = <<Trim(SubSeq(s, 1, Cut(s)))>> \o @]
  ELSE [phrases |-> <<>>, remaining |-> s]

\* With force, the remainder is a phrase too.
Forced(split) ==
  IF Solid(split.remaining) = {} THEN split.phrases
  ELSE Append(split.phrases, Trim(split.remaining))

\* enqueue, for each phrase in turn: the first of the answer is spoken.
UtteredOf_None(phrases) == uttered
UtteredOf(phrases) == IF uttered = <<>> /\ phrases # <<>> THEN <<Head(phrases)>> ELSE uttered
TailOf(phrases) ==
  IF uttered = <<>> /\ phrases # <<>> THEN tail \o Tail(phrases) ELSE tail \o phrases

-----------------------------------------------------------------------------
\* A piece of the answer arrives.
Receive(n) ==
  /\ answering = "receiving"
  /\ n \in 1..Len(rest)
  /\ rest' = From(rest, n + 1)
  /\ LET passed == Through(SubSeq(rest, 1, n))
         split == SplitReady[Collapsed(pending \o passed.out)]
     IN /\ held' = passed.kept
        /\ inThink' = passed.thinking
        /\ IF passed.out = <<>>
           THEN UNCHANGED <<text, pending, tail, uttered>>
           ELSE /\ text' = text \o passed.out
                /\ pending' = split.remaining
                /\ uttered' = UtteredOf(split.phrases)
                /\ tail' = TailOf(split.phrases)
  /\ UNCHANGED <<answer, filters, answering>>

\* The stream ends: what is pending is a phrase now.
StreamEnds ==
  /\ answering = "receiving"
  /\ rest = <<>>
  /\ LET phrases == Forced(SplitReady[Collapsed(pending)])
     IN /\ uttered' = UtteredOf(phrases)
        /\ tail' = TailOf(phrases)
  /\ pending' = <<>>
  /\ answering' = "closing"
  /\ UNCHANGED <<answer, filters, rest, held, inThink, text>>

\* tail.join(' '), spoken as one.
Joined_Head(phrases) == IF phrases = <<>> THEN <<>> ELSE Head(phrases)
Joined(phrases) ==
  LET joined[i \in 0..Len(phrases)] ==
        IF i = 0 THEN <<>>
        ELSE IF i = 1 THEN phrases[i] ELSE joined[i - 1] \o <<Space>> \o phrases[i]
  IN joined[Len(phrases)]
SpeakTail ==
  /\ answering = "closing"
  /\ uttered' = IF tail = <<>> THEN uttered ELSE Append(uttered, Joined(tail))
  /\ tail' = <<>>
  /\ answering' = "done"
  /\ UNCHANGED <<answer, filters, rest, held, inThink, text, pending>>

\* A backend that does not stream gives the answer at once; only thoughts that
\* end are removed from it.
WithoutThoughts[s \in Seq(Letters)] ==
  IF Begins(s, OpenTag) = {} \/ Begins(After(s, OpenTag), CloseTag) = {} THEN s
  ELSE Before(s, OpenTag) \o WithoutThoughts[TrimStart(After(After(s, OpenTag), CloseTag))]
AnswersAtOnce ==
  /\ answering = "receiving"
  /\ rest = answer
  /\ LET whole == Trim(IF filters THEN WithoutThoughts[Trim(answer)] ELSE answer)
     IN /\ text' = whole
        /\ uttered' = IF whole = <<>> THEN <<>> ELSE <<whole>>
  /\ rest' = <<>>
  /\ answering' = "whole"
  /\ UNCHANGED <<answer, filters, held, inThink, pending, tail>>

\* The caller interrupts: throwIfAborted, before anything more is spoken.
AnswerInterrupted ==
  /\ answering \in {"receiving", "closing"}
  /\ answering' = "aborted"
  /\ UNCHANGED <<answer, filters, rest, held, inThink, text, pending, tail, uttered>>

AnswerNext ==
  \/ \E n \in 1..Len(rest) : Receive(n)
  \/ StreamEnds \/ SpeakTail \/ AnswersAtOnce \/ AnswerInterrupted

AnswerSpec == AnswerInit /\ [][AnswerNext]_answerVars

-----------------------------------------------------------------------------
(* Properties *)

\* What should be said of an answer: all of it but the thoughts, of which the last
\* may be without an end.
Said[s \in Seq(Letters)] ==
  IF Begins(s, OpenTag) = {} THEN s
  ELSE Before(s, OpenTag)
       \o (IF Begins(After(s, OpenTag), CloseTag) = {} THEN <<>>
           ELSE Said[After(After(s, OpenTag), CloseTag)])
ToSay == NonSpace(IF filters THEN Said[answer] ELSE answer)
Heard == NonSpace(FlattenSeq(uttered))

\* A thought without an end, in an answer that came at once, is spoken.
ThoughtSpoken == answering = "whole" /\ ThinkFilter[answer][FALSE].thinking

\* Nothing is heard that was not to be said, nothing is left out in between, and the
\* phrases come in order, however the answer was cut into pieces.
HeardInOrder == IsPrefix(Heard, ToSay) \/ ThoughtSpoken

\* Of an answer that has ended, at most the few characters are missing that the
\* filter holds back: nobody asks for them at the end.
OnlyTheEndMissing ==
  /\ answering = "done" => Len(ToSay) - Len(Heard) < IF filters THEN Len(OpenTag) ELSE 1
  /\ answering = "whole" => Len(Heard) >= Len(ToSay)

\* The history of the call holds what was heard.
RecordedIsHeard == answering \in {"done", "whole"} => NonSpace(text) = Heard

\* The caller waits for no sentence that is complete: it is spoken, or behind the
\* first phrase.
SpokenInTime == answering = "receiving" => EndsOfSentence(pending) = {}

AnswerCorrect == HeardInOrder /\ OnlyTheEndMissing /\ RecordedIsHeard /\ SpokenInTime

=============================================================================
