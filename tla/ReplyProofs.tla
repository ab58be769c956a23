---------------------------- MODULE ReplyProofs ----------------------------
(***************************************************************************)
(* Proofs about the replies of agents in MCServices: a turn with the       *)
(* model, for any histories and limits; from the invariants of             *)
(* StreamProofs, what arrives of a reply at those who read it and at the   *)
(* voice; a call (VoiceTurns) and its recognizer (SpeechStream), for any   *)
(* turns and frames, and what is heard of a call.                          *)
(***************************************************************************)
EXTENDS MCServices, StreamProofs, TLAPS

-----------------------------------------------------------------------------
(* The agent's turn with its model *)

\* What SizeOf counts is a number of tokens.
SizesOf(f, h) ==
  f = [i \in 0..Len(h) |-> IF i = 0 THEN SystemSize ELSE f[i - 1] + h[i].size]

LEMMA SizesExist ==
  ASSUME NEW h \in Seq(TurnEntries)
  PROVE  \E f : SizesOf(f, h)
<1> DEFINE Body(f, i) == IF i = 0 THEN SystemSize ELSE f[i - 1] + h[i].size
           T == {n \in 0..Len(h) : \E f : f = [i \in 0..n |-> Body(f, i)]}
<1>0. Len(h) \in Nat
  OBVIOUS
<1>1. 0 \in T
  <2>1. PICK f : f = [i \in 0..0 |-> SystemSize]
    OBVIOUS
  <2>2. f = [i \in 0..0 |-> Body(f, i)]
    BY <2>1
  <2> QED
    BY <1>0, <2>2
<1>2. ASSUME NEW n \in 0..Len(h), n < Len(h), n \in T
      PROVE  n + 1 \in T
  <2>1. PICK f : f = [i \in 0..n |-> Body(f, i)]
    BY <1>2
  <2>2. PICK g : g = [i \in 0..(n + 1) |-> IF i <= n THEN f[i] ELSE Body(f, i)]
    OBVIOUS
  <2>3. \A i \in 0..n : f[i] = Body(f, i)
    BY <2>1
  <2>4. \A i \in 0..n : g[i] = f[i]
    BY <2>2
  <2>5. ASSUME NEW i \in 0..(n + 1) PROVE g[i] = Body(g, i)
    <3>1. Body(g, i) = Body(f, i)
      <4>1. CASE i = 0
        BY <4>1
      <4>2. CASE i # 0
        <5>1. i - 1 \in 0..n
          BY <1>2, <4>2
        <5> QED
          BY <2>4, <5>1
      <4> QED
        BY <4>1, <4>2
    <3>2. g[i] = Body(f, i)
      BY <2>2, <2>3
    <3> QED
      BY <3>1, <3>2
  <2>6. g = [i \in 0..(n + 1) |-> Body(g, i)]
    <3> HIDE DEF Body
    <3> QED
      BY <2>2, <2>5
  <2>7. n + 1 \in 0..Len(h)
    <3> HIDE DEF Body, T
    <3> QED
      BY <1>0, <1>2
  <2>8. \E e : e = [i \in 0..(n + 1) |-> Body(e, i)]
    <3> HIDE DEF Body
    <3> QED
      BY <2>6, Zenon
  <2> QED
    <3> HIDE DEF Body
    <3> QED
      BY <2>7, <2>8, Zenon
<1>3. Len(h) \in T
  <2>1. \A n \in 0..Len(h) : n < Len(h) /\ n \in T => n + 1 \in T
    BY <1>2
  <2> HIDE DEF T
  <2>2. \A n \in 0..Len(h) : n \in T
    BY <1>0, <1>1, <2>1, UpTo
  <2> QED
    BY <1>0, <2>2
<1> QED
  BY <1>3 DEF SizesOf

LEMMA SizeIsNumber ==
  ASSUME NEW h \in Seq(TurnEntries)
  PROVE  SizeOf(h) \in Nat
<1> DEFINE sizes == CHOOSE f : SizesOf(f, h)
           T == {n \in 0..Len(h) : sizes[n] \in Nat}
<1>0. Len(h) \in Nat /\ SystemSize \in Nat
  BY TurnReplyAssumption
<1>1. SizesOf(sizes, h)
  BY SizesExist, Zenon
<1>2. SizeOf(h) = sizes[Len(h)]
  BY DEF SizeOf, SizesOf
<1> HIDE DEF sizes
<1>3. 0 \in T
  BY <1>0, <1>1 DEF SizesOf
<1>4. ASSUME NEW n \in 0..Len(h), n < Len(h), n \in T
      PROVE  n + 1 \in T
  <2>1. n + 1 \in 1..Len(h) /\ n + 1 \in 0..Len(h) /\ (n + 1) - 1 = n /\ n + 1 # 0
    BY <1>0, <1>4
  <2>2. \A i \in 0..Len(h) : i # 0 => sizes[i] = sizes[i - 1] + h[i].size
    BY <1>1, Zenon DEF SizesOf
  <2>3. sizes[n + 1] = sizes[n] + h[n + 1].size
    BY <2>1, <2>2
  <2>4. h[n + 1] \in TurnEntries
    BY <2>1
  <2> QED
    BY <1>4, <2>1, <2>3, <2>4 DEF TurnEntries
<1>5. \A n \in 0..Len(h) : n < Len(h) /\ n \in T => n + 1 \in T
  BY <1>4
<1> HIDE DEF T
<1>6. Len(h) \in T
  <2>1. \A n \in 0..Len(h) : n \in T
    BY <1>0, <1>3, <1>5, UpTo
  <2> QED
    BY <1>0, <2>1
<1> QED
  BY <1>2, <1>6 DEF T

Requests == [history : Seq(TurnEntries), tooled : BOOLEAN, limit : Int, round : Nat]

ReplyTypes ==
  /\ backend \in [autoTools : BOOLEAN, strict : BOOLEAN, worded : BOOLEAN]
  /\ exactly \in BOOLEAN /\ tooled \in BOOLEAN /\ sentOne \in BOOLEAN /\ shortened \in BOOLEAN
  /\ history \in Seq(TurnEntries) /\ history # <<>>
  /\ limit \in Int /\ trims \in Nat /\ rounds \in Nat
  /\ turn \in {"asking", "refused", "silent", "done", "failed"}
  /\ asked \in Seq(Requests)

\* Each request differs from those after it in one of these, in this order of weight:
\* more rounds, less history, no tools, fewer tokens.
AskedBefore(q, r) ==
  \/ q.round < r.round
  \/ q.round = r.round /\ Len(q.history) > Len(r.history)
  \/ /\ q.round = r.round /\ q.history = r.history
     /\ (q.tooled /\ ~r.tooled) \/ (q.tooled = r.tooled /\ q.limit > r.limit)

\* A request with this history, or with more of it, or of an earlier round.
NotAfter(q, n, h) == q.round < n \/ (q.round = n /\ Len(q.history) >= Len(h))

TwiceInv ==
  /\ \A i, j \in 1..Len(asked) : i < j => AskedBefore(asked[i], asked[j])
  /\ turn = "asking" => \A i \in 1..Len(asked) : AskedBefore(asked[i], Request)
  /\ turn = "refused" => \A i \in 1..Len(asked) : NotAfter(asked[i], rounds, history)

\* What was refused does not fit the target, and what was trimmed should.
FitInv ==
  /\ turn = "refused" /\ exactly /\ backend.worded /\ ~tooled => SizeOf(history) > Target
  /\ turn \in {"asking", "refused"} /\ trims > 0 => Estimate(history) <= Target
  /\ turn = "refused" => asked # <<>> /\ asked[Len(asked)].history = history

\* The prompt of the turn is where the rounds since say, with the turn behind it.
PromptAt(p) ==
  /\ p \in 1..Len(history) /\ p + 2 * rounds = Len(history)
  /\ history[p].role = "user"
  /\ \A i \in (p + 1)..Len(history) : history[i].role # "user"
  /\ sentOne <=> \E i \in (p + 1)..Len(history) : history[i].sent

PromptInv == ~shortened => \E p \in 1..Len(history) : PromptAt(p)

TurnInv == ReplyTypes /\ TwiceInv /\ FitInv /\ PromptInv /\ TurnCorrect

-----------------------------------------------------------------------------
(* Tokens *)

LEMMA SizesFit ==
  ASSUME ReplyTypes
  PROVE  /\ Window \in Nat /\ LeastTokens \in Nat /\ Reserve \in Nat /\ OutputTokens \in Nat
         /\ Target = Window - LeastTokens /\ Target \in Nat
         /\ Input \in Nat /\ (~tooled => Input = SizeOf(history))
<1>1. /\ Window \in Nat /\ LeastTokens \in Nat /\ Reserve \in Nat /\ OutputTokens \in Nat
      /\ ToolsSize \in Nat /\ 3 * LeastTokens <= Window
  BY TurnReplyAssumption
<1>2. SizeOf(history) \in Nat
  BY SizeIsNumber DEF ReplyTypes
<1>3. Target = Window - LeastTokens /\ Target \in Nat
  BY <1>1 DEF Target, Greatest
<1>4. Input \in Nat /\ (~tooled => Input = SizeOf(history))
  BY <1>1, <1>2 DEF Input
<1> QED
  BY <1>1, <1>3, <1>4

LEMMA EstimateIsNumber ==
  ASSUME ReplyTypes, NEW h \in Seq(TurnEntries)
  PROVE  Estimate(h) \in Nat
BY SizeIsNumber, TurnReplyAssumption DEF Estimate

LEMMA DerivedFacts ==
  ASSUME NEW i \in Nat, NEW t \in Int, i + t > Window
  PROVE  /\ Derived(i, t) \in Int
         /\ Derived(i, t) < t => Derived(i, t) >= LeastTokens /\ Derived(i, t) + Reserve >= Window - i
         /\ ~(Derived(i, t) < t) => t <= LeastTokens
<1>1. Window \in Nat /\ LeastTokens \in Nat /\ Reserve \in Nat
  BY TurnReplyAssumption
<1>2. CASE Window - i - Reserve <= 0
  <2>1. Derived(i, t) = Least(t, LeastTokens)
    BY <1>2 DEF Derived
  <2> QED
    BY <1>1, <1>2, <2>1 DEF Least
<1>3. CASE ~(Window - i - Reserve <= 0)
  <2>1. Derived(i, t) = Greatest(LeastTokens, Least(t - 1, Window - i - Reserve))
    BY <1>3 DEF Derived
  <2> QED
    BY <1>1, <1>3, <2>1 DEF Least, Greatest
<1> QED
  BY <1>2, <1>3

-----------------------------------------------------------------------------
(* The end of a history *)

\* h is what is left of the history from its entry k on.
EndFrom(h, k) ==
  /\ k \in 1..Len(history)
  /\ h = SubSeq(history, k, Len(history))
  /\ h \in Seq(TurnEntries) /\ h # <<>> /\ Len(h) = Len(history) - k + 1
  /\ \A i \in 1..Len(h) : h[i] = history[k - 1 + i]

LEMMA EndFacts ==
  ASSUME ReplyTypes, NEW k \in 1..Len(history)
  PROVE  EndFrom(SubSeq(history, k, Len(history)), k)
<1>1. history \in Seq(TurnEntries) /\ Len(history) \in Nat
  BY DEF ReplyTypes
<1>2. PICK l \in Nat : l = Len(history)
  BY <1>1
<1>3. PICK h : h = SubSeq(history, k, l)
  OBVIOUS
<1>4. /\ h \in Seq(TurnEntries) /\ Len(h) = l - k + 1
      /\ \A i \in 1..Len(h) : h[i] = history[k - 1 + i]
  BY <1>1, <1>2, <1>3
<1>5. h # <<>>
  BY <1>2, <1>4
<1> QED
  BY <1>2, <1>3, <1>4, <1>5 DEF EndFrom

LEMMA TrimmedFacts ==
  ASSUME ReplyTypes, NEW h \in Trimmed(history)
  PROVE  \E k \in 1..Len(history) :
           /\ EndFrom(h, k) /\ Estimate(h) <= Target
           /\ k > 1 => Estimate(SubSeq(history, k - 1, Len(history))) > Target
<1>1. PICK fitting : fitting = {s \in Suffixes(history) \ {<<>>} : Estimate(s) <= Target}
  OBVIOUS
<1>2. h \in fitting /\ \A t \in fitting : Len(t) <= Len(h)
  <2>1. ~(Len(history) <= 1)
    BY DEF Trimmed
  <2> QED
    BY <1>1, <2>1 DEF Trimmed
<1>3. PICK k \in 1..Len(history) : h = SubSeq(history, k, Len(history))
  BY <1>1, <1>2 DEF Suffixes
<1>4. EndFrom(h, k) /\ Estimate(h) <= Target
  BY <1>1, <1>2, <1>3, EndFacts
<1>5. ASSUME k > 1 PROVE Estimate(SubSeq(history, k - 1, Len(history))) > Target
  <2>1. Len(history) \in Nat /\ k - 1 \in 1..Len(history)
    BY <1>5 DEF ReplyTypes
  <2>2. PICK m : m = k - 1
    OBVIOUS
  <2>3. EndFrom(SubSeq(history, m, Len(history)), m)
    BY <2>1, <2>2, EndFacts
  <2>4. PICK t \in Seq(TurnEntries) : t = SubSeq(history, m, Len(history))
    BY <2>3 DEF EndFrom
  <2>5. Len(t) > Len(h) /\ t # <<>> /\ Len(t) \in Nat /\ Len(h) \in Nat
    BY <1>3, <1>4, <2>1, <2>2, <2>3, <2>4 DEF EndFrom
  <2>6. t \in Suffixes(history)
    BY <2>1, <2>2, <2>4 DEF Suffixes
  <2>7. ~(Estimate(t) <= Target)
    BY <1>1, <1>2, <2>5, <2>6
  <2>8. Estimate(t) \in Nat /\ Target \in Nat
    BY EstimateIsNumber, SizesFit
  <2> QED
    BY <2>2, <2>4, <2>7, <2>8
<1> QED
  BY <1>4, <1>5

\* A history that is beyond the target and cannot be shortened ends with an entry that is.
LEMMA NothingFits ==
  ASSUME ReplyTypes, Estimate(history) > Target, ~\E h \in Trimmed(history) : Len(h) < Len(history)
  PROVE  Estimate(<<history[Len(history)]>>) > Target
<1>1. PICK l \in Nat : l = Len(history)
  BY DEF ReplyTypes
<1>2. l >= 1 /\ l \in 1..l
  BY <1>1 DEF ReplyTypes
<1>3. PICK s : s = SubSeq(history, l, l)
  OBVIOUS
<1>4. EndFrom(s, l)
  BY <1>1, <1>2, <1>3, EndFacts
<1>5. s = <<history[l]>> /\ s \in Seq(TurnEntries) /\ Len(s) = 1
  <2>1. s \in Seq(TurnEntries) /\ Len(s) = 1 /\ s[1] = history[l]
    BY <1>1, <1>2, <1>4 DEF EndFrom
  <2> QED
    BY <2>1
<1>6. Estimate(s) \in Nat /\ Target \in Nat /\ Estimate(history) \in Nat
  BY <1>5, EstimateIsNumber, SizesFit DEF ReplyTypes
<1>7. CASE l = 1
  <2>1. s = history
    <3>1. /\ history \in Seq(TurnEntries) /\ Len(history) = Len(s)
          /\ \A i \in 1..Len(s) : s[i] = history[i]
      BY <1>1, <1>5, <1>7 DEF ReplyTypes
    <3> QED
      BY <1>5, <3>1, SameSequence
  <2> QED
    BY <1>1, <1>5, <2>1
<1>8. CASE l # 1
  <2>1. SUFFICES ASSUME Estimate(s) <= Target PROVE FALSE
    BY <1>1, <1>5, <1>6
  <2>2. PICK fitting : fitting = {t \in Suffixes(history) \ {<<>>} : Estimate(t) <= Target}
    OBVIOUS
  <2>3. s \in fitting
    BY <1>1, <1>2, <1>3, <1>5, <2>1, <2>2 DEF Suffixes
  <2>4. \A t \in fitting : Len(t) \in 0..l
    <3>1. ASSUME NEW t \in fitting PROVE Len(t) \in 0..l
      <4>1. PICK k \in 1..l : t = SubSeq(history, k, l)
        BY <1>1, <2>2 DEF Suffixes
      <4>2. EndFrom(t, k)
        BY <1>1, <4>1, EndFacts
      <4> QED
        BY <1>1, <4>1, <4>2 DEF EndFrom
    <3> QED
      BY <3>1
  <2>5. PICK t \in fitting : \A u \in fitting : Len(u) <= Len(t)
    <3>1. PICK T : T = {Len(u) : u \in fitting}
      OBVIOUS
    <3>2. T \in SUBSET (0..l) /\ T # {}
      BY <2>3, <2>4, <3>1
    <3>3. PICK x \in T : \A y \in T : y <= x
      BY <1>1, <3>2, GreatestNumber
    <3> QED
      BY <3>1, <3>3
  <2>6. t \in Trimmed(history)
    <3>1. ~(Len(history) <= 1)
      BY <1>1, <1>2, <1>8
    <3> QED
      BY <2>2, <2>5, <3>1 DEF Trimmed
  <2>7. ~(Len(t) < l)
    BY <1>1, <2>6
  <2>8. PICK k \in 1..l : t = SubSeq(history, k, l)
    BY <1>1, <2>2, <2>5 DEF Suffixes
  <2>9. EndFrom(t, k)
    BY <1>1, <2>8, EndFacts
  <2>10. k = 1
    BY <1>1, <2>7, <2>8, <2>9 DEF EndFrom
  <2>11. t = history
    BY <1>1, <2>9, <2>10 DEF EndFrom, ReplyTypes
  <2> QED
    BY <1>6, <2>2, <2>5, <2>11
<1> QED
  BY <1>7, <1>8

-----------------------------------------------------------------------------
(* No request is made twice *)

LEMMA AskedTransitive ==
  ASSUME NEW q \in Requests, NEW r \in Requests, NEW s \in Requests,
         AskedBefore(q, r), AskedBefore(r, s)
  PROVE  AskedBefore(q, s)
<1>1. /\ q.round \in Nat /\ r.round \in Nat /\ s.round \in Nat
      /\ q.limit \in Int /\ r.limit \in Int /\ s.limit \in Int
      /\ Len(q.history) \in Nat /\ Len(r.history) \in Nat /\ Len(s.history) \in Nat
      /\ q.tooled \in BOOLEAN /\ r.tooled \in BOOLEAN /\ s.tooled \in BOOLEAN
  BY DEF Requests
<1> QED
  BY <1>1 DEF AskedBefore

LEMMA PairsDiffer ==
  ASSUME NEW s \in Seq(Requests),
         \A i, j \in 1..Len(s) : i < j => AskedBefore(s[i], s[j])
  PROVE  \A i, j \in 1..Len(s) : s[i] = s[j] => i = j
<1>1. \A q \in Requests : ~AskedBefore(q, q)
  BY DEF AskedBefore, Requests
<1>2. \A i \in 1..Len(s) : s[i] \in Requests
  OBVIOUS
<1>3. ASSUME NEW i \in 1..Len(s), NEW j \in 1..Len(s), s[i] = s[j] PROVE ~(i < j)
  BY <1>1, <1>2, <1>3
<1>4. ASSUME NEW i \in 1..Len(s), NEW j \in 1..Len(s), s[i] = s[j] PROVE i = j
  BY <1>3, <1>4
<1> QED
  BY <1>4

LEMMA RequestTyped == ASSUME ReplyTypes PROVE Request \in Requests
BY DEF ReplyTypes, Request, Requests

\* What a request adds to those made.
LEMMA AskFacts ==
  ASSUME ReplyTypes, TwiceInv, AsksModel
  PROVE  /\ turn = "asking"
         /\ asked' \in Seq(Requests) /\ asked' # <<>> /\ asked'[Len(asked')] = Request
         /\ \A i, j \in 1..Len(asked') : i < j => AskedBefore(asked'[i], asked'[j])
         /\ \A i \in 1..Len(asked') :
              asked'[i] \in Requests /\ (asked'[i] = Request \/ AskedBefore(asked'[i], Request))
<1>1. turn = "asking" /\ asked' = Append(asked, Request) /\ asked \in Seq(Requests)
  BY DEF AsksModel, ReplyTypes
<1>2. PICK r \in Requests : r = Request
  BY RequestTyped
<1>3. PICK l \in Nat : l = Len(asked)
  BY <1>1
<1>4. PICK s : s = Append(asked, r)
  OBVIOUS
<1>5. /\ s \in Seq(Requests) /\ Len(s) = l + 1 /\ s[l + 1] = r
      /\ \A i \in 1..l : s[i] = asked[i] /\ s[i] \in Requests
  BY <1>1, <1>3, <1>4
<1>6. \A i \in 1..l : AskedBefore(s[i], r)
  BY <1>1, <1>2, <1>3, <1>5 DEF TwiceInv
<1>7. \A i \in 1..(l + 1) : i \in 1..l \/ i = l + 1
  BY <1>3
<1>8. ASSUME NEW i \in 1..(l + 1), NEW j \in 1..(l + 1), i < j
      PROVE  AskedBefore(s[i], s[j])
  <2>1. i \in 1..l
    BY <1>8
  <2>2. CASE j \in 1..l
    BY <1>3, <1>5, <1>8, <2>1, <2>2 DEF TwiceInv
  <2>3. CASE j = l + 1
    BY <1>5, <1>6, <2>1, <2>3
  <2> QED
    BY <1>7, <2>2, <2>3
<1>9. \A i \in 1..(l + 1) : s[i] \in Requests /\ (s[i] = r \/ AskedBefore(s[i], r))
  BY <1>2, <1>5, <1>6, <1>7
<1>10. s # <<>>
  BY <1>5
<1> QED
  BY <1>1, <1>2, <1>4, <1>5, <1>8, <1>9, <1>10

\* A request that is followed by another one later in the order.
LEMMA AsksOn ==
  ASSUME ReplyTypes, TwiceInv, AsksModel, ReplyTypes', AskedBefore(Request, Request'),
         turn' # "refused"
  PROVE  TwiceInv' /\ NeverAskedTwice'
<1>1. PICK q \in Requests, r \in Requests : q = Request /\ r = Request'
  <2>1. Request' \in Requests
    BY DEF ReplyTypes, Request, Requests
  <2> QED
    BY <2>1, RequestTyped
<1>2. AskedBefore(q, r)
  BY <1>1
<1>3. \A i \in 1..Len(asked') : asked'[i] \in Requests /\ (asked'[i] = q \/ AskedBefore(asked'[i], q))
  BY <1>1, AskFacts
<1>4. \A i \in 1..Len(asked') : AskedBefore(asked'[i], r)
  <2>1. ASSUME NEW i \in 1..Len(asked') PROVE AskedBefore(asked'[i], r)
    <3>1. PICK s \in Requests : s = asked'[i] /\ (s = q \/ AskedBefore(s, q))
      BY <1>3
    <3>2. AskedBefore(s, r)
      BY <1>2, <3>1, AskedTransitive
    <3> QED
      BY <3>1, <3>2
  <2> QED
    BY <2>1
<1>5. \A i \in 1..Len(asked') : AskedBefore(asked'[i], Request')
  BY <1>1, <1>4
<1>6. \A i, j \in 1..Len(asked') : i < j => AskedBefore(asked'[i], asked'[j])
  BY AskFacts
<1>7. NeverAskedTwice'
  <2>1. PICK s \in Seq(Requests) : s = asked'
    BY AskFacts
  <2>2. \A i, j \in 1..Len(s) : s[i] = s[j] => i = j
    BY <1>6, <2>1, PairsDiffer
  <2> QED
    BY <2>1, <2>2 DEF NeverAskedTwice
<1> QED
  BY <1>5, <1>6, <1>7 DEF TwiceInv

\* A request after which the turn waits or ends.
LEMMA AsksLast ==
  ASSUME ReplyTypes, TwiceInv, AsksModel, turn' # "asking",
         turn' = "refused" => UNCHANGED <<rounds, history>>
  PROVE  TwiceInv' /\ NeverAskedTwice'
<1>1. \A i, j \in 1..Len(asked') : i < j => AskedBefore(asked'[i], asked'[j])
  BY AskFacts
<1>2. NeverAskedTwice'
  <2>1. PICK s \in Seq(Requests) : s = asked'
    BY AskFacts
  <2>2. \A i, j \in 1..Len(s) : s[i] = s[j] => i = j
    BY <1>1, <2>1, PairsDiffer
  <2> QED
    BY <2>1, <2>2 DEF NeverAskedTwice
<1>3. ASSUME turn' = "refused", NEW i \in 1..Len(asked')
      PROVE  NotAfter(asked'[i], rounds', history')
  <2>1. PICK q \in Requests : q = asked'[i] /\ (q = Request \/ AskedBefore(q, Request))
    BY AskFacts
  <2>2. Request.round = rounds /\ Request.history = history /\ Len(history) \in Nat /\ rounds \in Nat
    BY DEF Request, ReplyTypes
  <2>3. q.round \in Nat /\ Len(q.history) \in Nat
    BY <2>1 DEF Requests
  <2>4. NotAfter(q, rounds, history)
    BY <2>1, <2>2, <2>3 DEF AskedBefore, NotAfter
  <2> QED
    BY <1>3, <2>1, <2>4
<1> QED
  BY <1>1, <1>2, <1>3 DEF TwiceInv

-----------------------------------------------------------------------------
(* The steps of a turn *)

LEMMA PromptStays ==
  ASSUME PromptInv, UNCHANGED <<history, rounds, sentOne, shortened>>
  PROVE  PromptInv'
BY DEF PromptInv, PromptAt

LEMMA ToolsRefusedKeeps == TurnInv /\ ToolsRefused => TurnInv'
<1> SUFFICES ASSUME TurnInv, ToolsRefused PROVE TurnInv'
  OBVIOUS
<1> USE DEF TurnInv
<1>1. /\ AsksModel /\ turn = "asking" /\ turn' = turn /\ tooled /\ tooled' = FALSE
      /\ limit' = OutputTokens
      /\ UNCHANGED <<backend, exactly, history, trims, rounds, cause, reply, sentOne, shortened>>
  BY DEF ToolsRefused, WithoutTools, AsksModel
<1>2. ReplyTypes'
  <2>1. OutputTokens \in Nat /\ asked' \in Seq(Requests)
    BY <1>1, AskFacts, SizesFit
  <2>2. limit' \in Int
    BY <1>1, <2>1
  <2>4. tooled' \in BOOLEAN
    BY <1>1, Zenon
  <2>3. turn' \in {"asking", "refused", "silent", "done", "failed"}
    BY <1>1
  <2> QED
    BY <1>1, <2>1, <2>2, <2>3, <2>4 DEF ReplyTypes
<1>3. AskedBefore(Request, Request')
  BY <1>1 DEF AskedBefore, Request
<1>4. TwiceInv' /\ NeverAskedTwice'
  BY <1>1, <1>2, <1>3, AsksOn
<1>5. asked'[Len(asked')] = Request /\ Request.history = history
  BY <1>1, AskFacts DEF Request
<1>6. FitInv'
  BY <1>1 DEF FitInv, Estimate, Target
<1>7. RoomIsUsed' /\ FitsIsAnswered' /\ SendIsKnown'
  BY <1>1, SizesFit DEF RoomIsUsed, FitsIsAnswered, SendIsKnown
<1>8. KeepsMost'
  BY <1>1, <1>5 DEF KeepsMost, ReplyTypes
<1> QED
  BY <1>1, <1>2, <1>4, <1>6, <1>7, <1>8, PromptStays DEF TurnCorrect

LEMMA TooLongKeeps == TurnInv /\ TooLong => TurnInv'
<1> SUFFICES ASSUME TurnInv, TooLong PROVE TurnInv'
  OBVIOUS
<1> USE DEF TurnInv
<1>1. /\ AsksModel /\ turn = "asking" /\ Input + limit > Window
      /\ UNCHANGED <<backend, exactly, history, tooled, trims, rounds, cause, reply, sentOne, shortened>>
  BY DEF TooLong, AsksModel
<1>2. PICK i \in Nat, t \in Int : i = Input /\ t = limit
  <2>1. Input \in Nat
    BY SizesFit
  <2>2. limit \in Int
    BY DEF ReplyTypes
  <2> QED
    BY <2>1, <2>2
<1>3. /\ Derived(i, t) \in Int
      /\ Derived(i, t) < t => Derived(i, t) >= LeastTokens /\ Derived(i, t) + Reserve >= Window - i
      /\ ~(Derived(i, t) < t) => t <= LeastTokens
  BY <1>1, <1>2, DerivedFacts
<1>4. asked'[Len(asked')] = Request /\ Request.history = history /\ asked' # <<>>
  BY <1>1, AskFacts DEF Request
<1>5. Input' = Input
  BY <1>1 DEF Input
<1>6. CASE backend.worded /\ Derived(i, t) < t
  <2>1. limit' = Derived(i, t) /\ turn' = turn
    BY <1>2, <1>6 DEF TooLong
  <2>2. ReplyTypes'
    BY <1>1, <1>3, <2>1, AskFacts DEF ReplyTypes
  <2>3. AskedBefore(Request, Request')
    BY <1>1, <1>2, <1>6, <2>1 DEF AskedBefore, Request
  <2>4. TwiceInv' /\ NeverAskedTwice'
    BY <1>1, <2>1, <2>2, <2>3, AsksOn
  <2>5. FitInv'
    BY <1>1, <2>1 DEF FitInv, Estimate, Target
  <2>6. RoomIsUsed' /\ FitsIsAnswered' /\ SendIsKnown'
    BY <1>1, <1>2, <1>3, <1>5, <1>6, <2>1 DEF RoomIsUsed, FitsIsAnswered, SendIsKnown
  <2>7. KeepsMost'
    BY <1>1, <1>4, <2>1 DEF KeepsMost, ReplyTypes
  <2> QED
    BY <1>1, <2>2, <2>4, <2>5, <2>6, <2>7, PromptStays DEF TurnCorrect
<1>7. CASE ~(backend.worded /\ Derived(i, t) < t)
  <2>1. limit' = limit /\ turn' = "refused"
    BY <1>2, <1>7 DEF TooLong
  <2>2. ReplyTypes'
    BY <1>1, <2>1, AskFacts DEF ReplyTypes
  <2>3. TwiceInv' /\ NeverAskedTwice'
    BY <1>1, <2>1, AsksLast
  <2>4. FitInv'
    <3>1. ASSUME backend.worded, ~tooled PROVE SizeOf(history) > Target
      BY <1>1, <1>2, <1>3, <1>7, <3>1, SizesFit
    <3> QED
      BY <1>1, <1>4, <2>1, <3>1 DEF FitInv, Estimate, Target
  <2>5. RoomIsUsed' /\ FitsIsAnswered' /\ SendIsKnown' /\ KeepsMost'
    BY <1>1, <1>5, <2>1 DEF RoomIsUsed, FitsIsAnswered, SendIsKnown, KeepsMost, TurnCorrect
  <2> QED
    BY <1>1, <2>2, <2>3, <2>4, <2>5, PromptStays DEF TurnCorrect
<1> QED
  BY <1>6, <1>7

\* The request fails, or gets an answer without a call.
LEMMA AskEndsKeeps ==
  TurnInv /\ (OrphanRefused \/ RequestFails \/ AnswersText \/ AnswersNothing) => TurnInv'
<1> SUFFICES ASSUME TurnInv, OrphanRefused \/ RequestFails \/ AnswersText \/ AnswersNothing
             PROVE  TurnInv'
  OBVIOUS
<1> USE DEF TurnInv
<1>1. /\ AsksModel /\ turn' \in {"failed", "done", "silent"} /\ (turn' = "failed" => cause' # "size")
      /\ (turn' = "done" => reply' = "text") /\ limit' \in {limit, PlainTokens}
      /\ UNCHANGED <<backend, exactly, history, tooled, trims, rounds, sentOne, shortened>>
  BY DEF OrphanRefused, RequestFails, AnswersText, AnswersNothing, Accepted
<1>2. ReplyTypes'
  <2>1. PlainTokens \in Int
    BY TurnReplyAssumption
  <2> QED
    BY <1>1, <2>1, AskFacts DEF ReplyTypes
<1>3. TwiceInv' /\ NeverAskedTwice'
  BY <1>1, AsksLast
<1>4. FitInv' /\ RoomIsUsed' /\ FitsIsAnswered' /\ SendIsKnown' /\ KeepsMost'
  BY <1>1 DEF FitInv, RoomIsUsed, FitsIsAnswered, SendIsKnown, KeepsMost
<1> QED
  BY <1>1, <1>2, <1>3, <1>4, PromptStays DEF TurnCorrect

LEMMA TurnGivesUpKeeps == TurnInv /\ TurnGivesUp => TurnInv'
<1> SUFFICES ASSUME TurnInv, TurnGivesUp PROVE TurnInv'
  OBVIOUS
<1> USE DEF TurnInv
<1>1. /\ turn = "refused" /\ turn' = "failed"
      /\ trims = TrimLimit \/ ~\E h \in Trimmed(history) : Len(h) < Len(history)
      /\ UNCHANGED <<backend, exactly, history, tooled, limit, trims, rounds, reply, sentOne,
                     shortened, asked>>
  BY DEF TurnGivesUp
<1>2. ReplyTypes' /\ TwiceInv' /\ FitInv' /\ NeverAskedTwice'
  BY <1>1 DEF ReplyTypes, TwiceInv, FitInv, TurnCorrect, NeverAskedTwice
<1>3. ASSUME exactly, backend.worded, ~tooled
      PROVE  Estimate(<<history[Len(history)]>>) > Target
  <2>1. Estimate(history) > Target
    BY <1>1, <1>3 DEF FitInv, Estimate
  <2>2. Estimate(history) \in Nat /\ Target \in Nat
    BY EstimateIsNumber, SizesFit DEF ReplyTypes
  <2>3. ~(trims > 0)
    BY <1>1, <2>1, <2>2 DEF FitInv
  <2>4. trims # TrimLimit
    BY <2>3, TurnReplyAssumption
  <2> QED
    BY <1>1, <2>1, <2>4, NothingFits
<1>4. FitsIsAnswered'
  BY <1>1, <1>3 DEF FitsIsAnswered, Estimate, Target
<1>5. RoomIsUsed' /\ SendIsKnown' /\ KeepsMost'
  BY <1>1 DEF RoomIsUsed, SendIsKnown, KeepsMost
<1> QED
  BY <1>1, <1>2, <1>4, <1>5, PromptStays DEF TurnCorrect

LEMMA TrimsHistoryKeeps == TurnInv /\ TrimsHistory => TurnInv'
<1> SUFFICES ASSUME TurnInv, TrimsHistory PROVE TurnInv'
  OBVIOUS
<1>1. ReplyTypes /\ TwiceInv /\ FitInv /\ PromptInv /\ TurnCorrect
  BY DEF TurnInv
<1>2. PICK h \in Trimmed(history) :
        /\ Len(h) < Len(history) /\ history' = h
        /\ shortened' = (shortened \/ Len(h) < 2 * rounds + 1)
  BY DEF TrimsHistory
<1>3. /\ turn = "refused" /\ turn' = "asking" /\ trims' = trims + 1 /\ limit' = OutputTokens
      /\ tooled' = TRUE
      /\ UNCHANGED <<backend, exactly, rounds, cause, reply, sentOne, asked>>
  BY DEF TrimsHistory, AskAgain
<1>4. PICK k \in 1..Len(history) :
        /\ EndFrom(h, k) /\ Estimate(h) <= Target
        /\ k > 1 => Estimate(SubSeq(history, k - 1, Len(history))) > Target
  BY <1>1, TrimmedFacts
<1>5. PICK l \in Nat, n \in Nat, r \in Nat : l = Len(history) /\ n = Len(h) /\ r = rounds
  <2>1. Len(history) \in Nat /\ rounds \in Nat
    BY <1>1 DEF ReplyTypes
  <2>2. Len(h) \in Nat
    BY <1>4 DEF EndFrom
  <2> QED
    BY <2>1, <2>2
<1>6. k > 1 /\ n = l - k + 1 /\ n < l /\ k \in Nat
  BY <1>2, <1>4, <1>5 DEF EndFrom
<1>14. \A i \in 1..n : h[i] = history[k - 1 + i]
  BY <1>4, <1>5 DEF EndFrom
<1>7. ReplyTypes'
  <2>1. history' \in Seq(TurnEntries) /\ history' # <<>>
    BY <1>2, <1>4 DEF EndFrom
  <2>2. limit' \in Int /\ trims' \in Nat
    BY <1>1, <1>3, SizesFit DEF ReplyTypes
  <2>3. tooled' \in BOOLEAN /\ shortened' \in BOOLEAN
    BY <1>2, <1>3, Zenon
  <2>4. turn' \in {"asking", "refused", "silent", "done", "failed"}
    BY <1>3
  <2> QED
    BY <1>1, <1>3, <2>1, <2>2, <2>3, <2>4 DEF ReplyTypes
<1>8. TwiceInv'
  <2>1. ASSUME NEW i \in 1..Len(asked) PROVE AskedBefore(asked[i], Request')
    <3>1. PICK q \in Requests : q = asked[i]
      BY <1>1 DEF ReplyTypes
    <3>2. NotAfter(q, r, history)
      BY <1>1, <1>3, <1>5, <3>1 DEF TwiceInv
    <3>3. PICK s : s = Request' /\ s.round = r /\ s.history = h
      <4>1. Request' = [history |-> history', tooled |-> tooled', limit |-> limit', round |-> rounds']
        BY DEF Request
      <4>2. PICK s : s = [history |-> h, tooled |-> tooled', limit |-> limit', round |-> r]
        OBVIOUS
      <4>3. s = Request'
        BY <1>2, <1>3, <1>5, <4>1, <4>2
      <4>4. s.round = r /\ s.history = h
        BY <4>2
      <4> QED
        BY <4>3, <4>4
    <3>4. q.round \in Nat /\ Len(q.history) \in Nat
      BY <3>1 DEF Requests
    <3>5. q.round < s.round \/ (q.round = s.round /\ Len(q.history) > Len(s.history))
      <4>1. n < l /\ n = Len(s.history) /\ l = Len(history)
        BY <1>5, <1>6, <3>3
      <4> QED
        BY <3>2, <3>3, <3>4, <4>1 DEF NotAfter
    <3>6. AskedBefore(q, s)
      BY <3>5 DEF AskedBefore
    <3> QED
      BY <3>1, <3>3, <3>6
  <2>2. \A i, j \in 1..Len(asked) : i < j => AskedBefore(asked[i], asked[j])
    BY <1>1 DEF TwiceInv
  <2> QED
    BY <1>3, <2>1, <2>2 DEF TwiceInv
<1>9. Estimate(history)' = Estimate(h) /\ Target' = Target
  BY <1>2, <1>3 DEF Estimate, Target
<1>10. FitInv'
  BY <1>3, <1>4, <1>9 DEF FitInv
<1>11. NeverAskedTwice' /\ FitsIsAnswered' /\ RoomIsUsed' /\ SendIsKnown'
  <2>1. NeverAskedTwice'
    BY <1>1, <1>3 DEF TurnCorrect, NeverAskedTwice
  <2>2. ~(limit' < OutputTokens)
    BY <1>3, SizesFit, <1>1
  <2> QED
    BY <1>3, <2>1, <2>2 DEF FitsIsAnswered, RoomIsUsed, SendIsKnown
<1>12. KeepsMost'
  <2>1. asked[Len(asked)].history = history
    BY <1>1, <1>3 DEF FitInv
  <2>2. l - n = k - 1
    BY <1>5, <1>6
  <2>3. Estimate(SubSeq(history, l - n, l)) > Target
    BY <1>4, <1>5, <1>6, <2>2
  <2>4. (Estimate(SubSeq(asked[Len(asked)].history, Len(asked[Len(asked)].history) - Len(history),
                         Len(asked[Len(asked)].history))) > Target)'
    BY <1>2, <1>3, <1>5, <2>1, <2>3 DEF Estimate, Target
  <2> QED
    BY <1>4, <1>9, <2>4 DEF KeepsMost
<1>13. PromptInv'
  <2> SUFFICES ASSUME ~shortened' PROVE \E p \in 1..Len(history') : PromptAt(p)'
    BY DEF PromptInv
  <2>1. ~shortened /\ ~(n < 2 * r + 1)
    BY <1>2, <1>5
  <2>2. PICK p \in 1..Len(history) : PromptAt(p)
    BY <1>1, <2>1 DEF PromptInv
  <2>3. /\ p \in 1..l /\ p + 2 * r = l /\ history[p].role = "user"
        /\ \A i \in (p + 1)..l : history[i].role # "user"
        /\ sentOne <=> \E i \in (p + 1)..l : history[i].sent
    BY <1>5, <2>2 DEF PromptAt
  <2>4. PICK q \in 1..n : q = p - (k - 1)
    <3>1. p \in Nat /\ p + 2 * r = l
      BY <2>3
    <3>2. p - (k - 1) \in 1..n
      BY <1>6, <2>1, <3>1
    <3> QED
      BY <3>2
  <2>5. q + 2 * r = n /\ h[q] = history[p]
    <3>1. p \in Nat /\ q \in Nat /\ p + 2 * r = l
      BY <2>3
    <3>2. k - 1 + q = p /\ q + 2 * r = n
      BY <1>6, <2>4, <3>1
    <3>3. h[q] = history[k - 1 + q]
      BY <1>14
    <3> QED
      BY <3>2, <3>3
  <2>6. \A i \in (q + 1)..n : k - 1 + i \in (p + 1)..l /\ h[i] = history[k - 1 + i]
    BY <1>6, <1>14, <2>3, <2>4
  <2>7. \A i \in (p + 1)..l : i - (k - 1) \in (q + 1)..n /\ h[i - (k - 1)] = history[i]
    BY <1>6, <1>14, <2>3, <2>4
  <2>8. \A i \in (q + 1)..n : h[i].role # "user"
    BY <2>3, <2>6
  <2>9. (\E i \in (p + 1)..l : history[i].sent) <=> (\E i \in (q + 1)..n : h[i].sent)
    BY <2>6, <2>7
  <2>10. sentOne' <=> \E i \in (q + 1)..n : h[i].sent
    BY <1>3, <2>3, <2>9
  <2> QED
    BY <1>2, <1>3, <1>5, <2>3, <2>4, <2>5, <2>8, <2>10 DEF PromptAt
<1> QED
  BY <1>7, <1>8, <1>10, <1>11, <1>12, <1>13 DEF TurnInv, TurnCorrect

LEMMA AnswersCallKeeps ==
  TurnInv /\ (\E size \in ResultSizes, went \in BOOLEAN : AnswersCall(size, went)) => TurnInv'
<1> SUFFICES ASSUME TurnInv, NEW size \in ResultSizes, NEW went \in BOOLEAN,
                    AnswersCall(size, went)
             PROVE  TurnInv'
  OBVIOUS
<1>1. ReplyTypes /\ TwiceInv /\ FitInv /\ PromptInv /\ TurnCorrect
  BY DEF TurnInv
<1>2. PICK a, b :
        /\ a = Message("calls", 1) /\ b = [Message("tool", size) EXCEPT !.sent = went]
        /\ history' = history \o <<a, b>>
  BY DEF AnswersCall
<1>3. /\ a \in TurnEntries /\ a.role = "calls" /\ a.sent = FALSE
      /\ b \in TurnEntries /\ b.role = "tool" /\ b.sent = went
  <2>1. size \in Nat
    BY TurnReplyAssumption
  <2>2. b = [role |-> "tool", size |-> size, sent |-> went]
    BY <1>2 DEF Message
  <2> QED
    BY <1>2, <2>1, <2>2 DEF Message, TurnEntries
<1>4. /\ AsksModel /\ turn = "asking" /\ rounds' = rounds + 1 /\ trims' = 0
      /\ tooled' = TRUE /\ limit' = OutputTokens
      /\ sentOne' = (sentOne \/ went)
      /\ (turn' = "done" /\ reply' = "limit") \/ turn' = "asking"
      /\ UNCHANGED <<backend, exactly, cause, shortened>>
  BY DEF AnswersCall, Accepted, AsksModel, AskAgain
<1>5. PICK l \in Nat, r \in Nat : l = Len(history) /\ r = rounds
  BY <1>1 DEF ReplyTypes
<1>6. PICK h : h = history'
  OBVIOUS
<1>7. /\ h \in Seq(TurnEntries) /\ Len(h) = l + 2 /\ h[l + 1] = a /\ h[l + 2] = b
      /\ \A i \in 1..l : h[i] = history[i]
  <2>1. PICK g \in Seq(TurnEntries) : g = history
    BY <1>1 DEF ReplyTypes
  <2>2. <<a, b>> \in Seq(TurnEntries) /\ Len(<<a, b>>) = 2
    BY <1>3
  <2>3. h = g \o <<a, b>> /\ Len(g) = l
    BY <1>2, <1>5, <1>6, <2>1
  <2> QED
    BY <1>3, <1>5, <2>1, <2>2, <2>3
<1>8. h # <<>>
  BY <1>5, <1>7
<1>9. ReplyTypes'
  <2>1. limit' \in Int /\ trims' \in Nat
    BY <1>1, <1>4, SizesFit
  <2>2. rounds' \in Nat
    BY <1>1, <1>4 DEF ReplyTypes
  <2>3. tooled' \in BOOLEAN /\ sentOne' \in BOOLEAN
    BY <1>1, <1>4, Zenon
  <2>4. turn' \in {"asking", "refused", "silent", "done", "failed"}
    BY <1>4
  <2>5. asked' \in Seq(Requests)
    BY <1>1, <1>4, AskFacts
  <2> QED
    BY <1>1, <1>4, <1>6, <1>7, <1>8, <2>1, <2>2, <2>3, <2>4, <2>5 DEF ReplyTypes
<1>10. TwiceInv' /\ NeverAskedTwice'
  <2>1. AskedBefore(Request, Request')
    <3>1. Request.round = r
      BY <1>5 DEF Request
    <3>2. Request'.round = r + 1
      BY <1>4, <1>5 DEF Request
    <3> QED
      BY <3>1, <3>2 DEF AskedBefore
  <2> QED
    BY <1>1, <1>4, <1>9, <2>1, AsksOn
<1>11. FitInv'
  BY <1>4 DEF FitInv
<1>12. FitsIsAnswered' /\ RoomIsUsed' /\ SendIsKnown'
  <2>1. ~(limit' < OutputTokens)
    BY <1>1, <1>4, SizesFit
  <2> QED
    BY <1>4, <2>1 DEF FitsIsAnswered, RoomIsUsed, SendIsKnown
<1>13. KeepsMost'
  <2>1. asked'[Len(asked')].history = history
    BY <1>1, <1>4, AskFacts DEF Request
  <2>2. ~(Len(history) > Len(history'))
    BY <1>5, <1>6, <1>7
  <2> QED
    BY <2>1, <2>2 DEF KeepsMost
<1>14. PromptInv'
  <2> SUFFICES ASSUME ~shortened PROVE \E p \in 1..Len(history') : PromptAt(p)'
    BY <1>4 DEF PromptInv
  <2>1. PICK p \in 1..Len(history) : PromptAt(p)
    BY <1>1 DEF PromptInv
  <2>2. /\ p \in 1..l /\ p + 2 * r = l /\ history[p].role = "user"
        /\ \A i \in (p + 1)..l : history[i].role # "user"
        /\ sentOne <=> \E i \in (p + 1)..l : history[i].sent
    BY <1>5, <2>1 DEF PromptAt
  <2>3. p \in 1..(l + 2) /\ p + 2 * (r + 1) = l + 2 /\ h[p].role = "user"
    <3>1. p \in 1..(l + 2) /\ p + 2 * (r + 1) = l + 2
      <4>1. p \in 1..l /\ p + 2 * r = l
        BY <2>2
      <4> QED
        BY <4>1
    <3> QED
      BY <1>7, <2>2, <3>1
  <2>4. \A i \in (p + 1)..(l + 2) : i \in (p + 1)..l \/ i = l + 1 \/ i = l + 2
    BY <2>2
  <2>5. \A i \in (p + 1)..l : h[i] = history[i]
    BY <1>7, <2>2
  <2>6. \A i \in (p + 1)..(l + 2) : h[i].role # "user"
    BY <1>3, <1>7, <2>2, <2>4, <2>5
  <2>7. sentOne' <=> \E i \in (p + 1)..(l + 2) : h[i].sent
    <3>1. l + 2 \in (p + 1)..(l + 2) /\ \A i \in (p + 1)..l : i \in (p + 1)..(l + 2)
      BY <2>2
    <3>2. ASSUME sentOne' PROVE \E i \in (p + 1)..(l + 2) : h[i].sent
      BY <1>3, <1>4, <1>7, <2>2, <2>5, <3>1, <3>2
    <3>3. ASSUME NEW i \in (p + 1)..(l + 2), h[i].sent PROVE sentOne'
      BY <1>3, <1>4, <1>7, <2>2, <2>4, <2>5, <3>3
    <3> QED
      BY <3>2, <3>3
  <2> QED
    BY <1>4, <1>5, <1>6, <1>7, <2>3, <2>6, <2>7 DEF PromptAt
<1> QED
  BY <1>9, <1>10, <1>11, <1>12, <1>13, <1>14 DEF TurnInv, TurnCorrect

LEMMA RecoversKeeps == TurnInv /\ Recovers => TurnInv'
<1> SUFFICES ASSUME TurnInv, Recovers PROVE TurnInv'
  OBVIOUS
<1>1. ReplyTypes /\ TwiceInv /\ FitInv /\ PromptInv /\ TurnCorrect
  BY DEF TurnInv
<1>2. /\ turn = "silent" /\ turn' = "done"
      /\ reply' = "recovered" \/ reply' = Fallback
      /\ UNCHANGED <<backend, exactly, history, tooled, limit, trims, rounds, cause, sentOne,
                     shortened, asked>>
  BY DEF Recovers
<1>3. ReplyTypes' /\ TwiceInv' /\ FitInv' /\ NeverAskedTwice'
  BY <1>1, <1>2 DEF ReplyTypes, TwiceInv, FitInv, TurnCorrect, NeverAskedTwice
<1>4. FitsIsAnswered' /\ RoomIsUsed' /\ KeepsMost'
  BY <1>2 DEF FitsIsAnswered, RoomIsUsed, KeepsMost
<1>5. PromptInv'
  BY <1>1, <1>2, PromptStays
<1>6. ASSUME ~shortened, reply' = Fallback
      PROVE  (sentOne => reply' # "dead end") /\ (reply' = "" => sentOne)
  <2>1. PICK p \in 1..Len(history) : PromptAt(p)
    BY <1>1, <1>6 DEF PromptInv
  <2>2. PICK l \in Nat : l = Len(history)
    BY <1>1 DEF ReplyTypes
  <2>3. /\ p \in 1..l /\ history[p].role = "user"
        /\ \A i \in (p + 1)..l : history[i].role # "user"
        /\ sentOne <=> \E i \in (p + 1)..l : history[i].sent
    BY <2>1, <2>2 DEF PromptAt
  <2>4. LastPrompt = p
    <3>1. PICK S : S = {i \in 1..l : history[i].role = "user"} \cup {1}
      OBVIOUS
    <3>2. p \in S /\ S \subseteq 1..l
      BY <2>3, <3>1
    <3>3. \A i \in S : p >= i
      <4>1. ASSUME NEW i \in S, ~(p >= i) PROVE FALSE
        <5>1. i \in (p + 1)..l /\ i # 1
          BY <2>3, <3>2, <4>1
        <5>2. history[i].role = "user"
          BY <3>1, <5>1
        <5> QED
          BY <2>3, <5>1, <5>2
      <4> QED
        BY <4>1
    <3>4. \A x \in S : (\A i \in S : x >= i) => x = p
      BY <3>2, <3>3
    <3>5. Max(S) = p
      BY <3>2, <3>3, <3>4 DEF Max
    <3> QED
      BY <2>2, <3>1, <3>5 DEF LastPrompt
  <2>5. (\E m \in ThisTurn : m.sent) <=> \E i \in (p + 1)..l : history[i].sent
    <3>1. PICK g \in Seq(TurnEntries) : g = history /\ Len(g) = l
      BY <1>1, <2>2 DEF ReplyTypes
    <3>2. PICK t : t = SubSeq(g, p + 1, l)
      OBVIOUS
    <3>3. /\ Len(t) = l - p /\ Len(t) \in Nat
          /\ \A i \in 1..(l - p) : t[i] = g[p + i]
      BY <2>3, <3>1, <3>2
    <3>4. ThisTurn = {t[i] : i \in 1..(l - p)}
      <4>1. ThisTurn = ToSet(t)
        BY <2>2, <2>4, <3>1, <3>2, Zenon DEF ThisTurn
      <4>2. t \in Seq(TurnEntries)
        BY <2>3, <3>1, <3>2
      <4>3. DOMAIN t = 1..(l - p)
        BY <3>3, <4>2
      <4> QED
        BY <4>1, <4>3 DEF ToSet
    <3>5. ASSUME NEW m \in ThisTurn, m.sent PROVE \E i \in (p + 1)..l : history[i].sent
      <4>1. PICK i \in 1..(l - p) : m = t[i]
        BY <3>4
      <4>2. p + i \in (p + 1)..l /\ m = history[p + i]
        BY <2>3, <3>1, <3>3, <4>1
      <4> QED
        BY <3>5, <4>2
    <3>6. ASSUME NEW i \in (p + 1)..l, history[i].sent PROVE \E m \in ThisTurn : m.sent
      <4>1. PICK j \in 1..(l - p) : p + j = i
        <5>1. i - p \in 1..(l - p) /\ p + (i - p) = i
          BY <2>3
        <5> QED
          BY <5>1
      <4>2. t[j] \in ThisTurn /\ t[j] = history[i]
        BY <3>1, <3>3, <3>4, <4>1
      <4> QED
        BY <3>6, <4>2
    <3> QED
      BY <3>5, <3>6
  <2>6. reply' = IF sentOne THEN "" ELSE "dead end"
    BY <1>6, <2>3, <2>5 DEF Fallback
  <2> QED
    BY <2>6
<1>7. SendIsKnown'
  <2>1. CASE reply' = "recovered"
    BY <2>1 DEF SendIsKnown
  <2>2. CASE reply' = Fallback
    BY <1>2, <1>6, <2>2 DEF SendIsKnown
  <2> QED
    BY <1>2, <2>1, <2>2
<1> QED
  BY <1>3, <1>4, <1>5, <1>7 DEF TurnInv, TurnCorrect

LEMMA ReplyTurnStarts == TurnReplyInit => TurnInv
<1> SUFFICES ASSUME TurnReplyInit PROVE TurnInv
  OBVIOUS
<1>1. /\ history # <<>> /\ history \in Seq(TurnEntries) /\ history[Len(history)].role = "user"
      /\ OutputTokens \in Nat
  BY TurnReplyAssumption DEF TurnReplyInit
<1>2. ReplyTypes
  <2>1. tooled \in BOOLEAN /\ sentOne \in BOOLEAN /\ shortened \in BOOLEAN
    BY Zenon DEF TurnReplyInit
  <2>2. asked = <<>> /\ trims = 0 /\ rounds = 0 /\ limit = OutputTokens
    BY DEF TurnReplyInit
  <2>3. limit \in Int /\ trims \in Nat /\ rounds \in Nat /\ asked \in Seq(Requests)
    BY <1>1, <2>2
  <2> QED
    BY <1>1, <2>1, <2>3 DEF TurnReplyInit, ReplyTypes
<1>3. asked = <<>> /\ turn = "asking" /\ trims = 0 /\ rounds = 0 /\ limit = OutputTokens
  BY DEF TurnReplyInit
<1>4. TwiceInv /\ FitInv /\ NeverAskedTwice
  BY <1>3 DEF TwiceInv, FitInv, NeverAskedTwice
<1>5. FitsIsAnswered /\ RoomIsUsed /\ KeepsMost /\ SendIsKnown
  BY <1>1, <1>3 DEF FitsIsAnswered, RoomIsUsed, KeepsMost, SendIsKnown
<1>6. PromptInv
  <2>1. PICK l \in Nat : l = Len(history) /\ l >= 1
    BY <1>1
  <2>2. sentOne = FALSE
    BY DEF TurnReplyInit
  <2>3. l \in 1..l /\ ~\E i \in (l + 1)..l : TRUE
    BY <2>1
  <2> QED
    BY <1>1, <1>3, <2>1, <2>2, <2>3 DEF PromptInv, PromptAt
<1> QED
  BY <1>2, <1>4, <1>5, <1>6 DEF TurnInv, TurnCorrect

LEMMA TurnWaits == TurnInv /\ UNCHANGED turnReplyVars => TurnInv'
<1> SUFFICES ASSUME TurnInv, UNCHANGED turnReplyVars PROVE TurnInv'
  OBVIOUS
<1> USE DEF turnReplyVars
<1>1. ReplyTypes /\ TwiceInv /\ FitInv /\ PromptInv /\ TurnCorrect
  BY DEF TurnInv
<1>2. ReplyTypes'
  BY <1>1 DEF ReplyTypes
<1>3. TwiceInv'
  BY <1>1 DEF TwiceInv, AskedBefore, NotAfter, Request
<1>4. FitInv'
  BY <1>1 DEF FitInv, Estimate, Target
<1>5. PromptInv'
  BY <1>1, PromptStays
<1>6. NeverAskedTwice' /\ FitsIsAnswered' /\ SendIsKnown'
  BY <1>1 DEF TurnCorrect, NeverAskedTwice, FitsIsAnswered, Estimate, Target, SendIsKnown
<1>7. RoomIsUsed'
  BY <1>1 DEF TurnCorrect, RoomIsUsed, Input
<1>8. KeepsMost'
  BY <1>1 DEF TurnCorrect, KeepsMost, Estimate, Target
<1> QED
  BY <1>2, <1>3, <1>4, <1>5, <1>6, <1>7, <1>8 DEF TurnInv, TurnCorrect

LEMMA TurnSteps == TurnInv /\ [TurnReplyNext]_turnReplyVars => TurnInv'
BY ToolsRefusedKeeps, AskEndsKeeps, TooLongKeeps, TrimsHistoryKeeps, TurnGivesUpKeeps,
   AnswersCallKeeps, RecoversKeeps, TurnWaits DEF TurnReplyNext

\* The part of RepliesCorrect about a turn (TurnCorrect; runConversationTurn and its helpers
\* in container/agent-runner/src/index.ts): no request is made twice, a turn fails for its
\* size only if what must be sent does not fit, no answer is cut below the room there is,
\* trimming keeps the newest and the most, and a message that was sent is not denied.
THEOREM TurnIsCorrect == ServicesSpec => []TurnCorrect
<1>1. ServicesInit => TurnInv
  BY ReplyTurnStarts DEF ServicesInit
<1>2. TurnInv /\ [ServicesNext]_servicesVars => TurnInv'
  <2> SUFFICES ASSUME TurnInv, [ServicesNext]_servicesVars PROVE TurnInv'
    OBVIOUS
  <2>1. [TurnReplyNext]_turnReplyVars
    BY DEF ServicesNext, servicesVars
  <2> QED
    BY <2>1, TurnSteps
<1>3. TurnInv => TurnCorrect
  BY DEF TurnInv
<1> QED
  BY <1>1, <1>2, <1>3, PTL DEF ServicesSpec

-----------------------------------------------------------------------------
(* The stream and the answer *)

\* The part of RepliesCorrect about the model's stream (EventStreamCorrect; parseEventStream in
\* container/agent-runner/src/index.ts and readSseData in voice-runner/live-runner.ts): however
\* the bytes are cut and the lines end, the agent has every text in order and every call with all
\* its pieces, but for an event that was never closed; the voice runner has every data line, and
\* has it as soon as its event is closed.
THEOREM EventStreamIsCorrect == ServicesSpec => []EventStreamCorrect
<1>1. ServicesInit => EventInv
  BY EventsStart DEF ServicesInit
<1>2. EventInv /\ [ServicesNext]_servicesVars => EventInv'
  <2> SUFFICES ASSUME EventInv, [ServicesNext]_servicesVars PROVE EventInv'
    OBVIOUS
  <2>1. [EventsNext]_eventVars
    BY DEF ServicesNext, servicesVars
  <2> QED
    BY <2>1, EventSteps
<1>3. EventInv => EventStreamCorrect
  BY EventsCorrectNow
<1> QED
  BY <1>1, <1>2, <1>3, PTL DEF ServicesSpec

\* The part of RepliesCorrect about the answer that is spoken (AnswerCorrect; generateTurn,
\* createThinkFilter and splitReadyVoicePhrases in voice-runner/live-runner.ts): however it is
\* cut into pieces, what is heard is what was to be said, in order, nothing missing but what the
\* filter holds back at the end; it is what the history has, and no sentence waits.
THEOREM AnswerIsCorrect == ServicesSpec => []AnswerCorrect
<1>1. ServicesInit => AnswerInv
  BY AnswerStart DEF ServicesInit
<1>2. AnswerInv /\ [ServicesNext]_servicesVars => AnswerInv'
  <2> SUFFICES ASSUME AnswerInv, [ServicesNext]_servicesVars PROVE AnswerInv'
    OBVIOUS
  <2>1. [AnswerNext]_answerVars
    BY DEF ServicesNext, servicesVars
  <2> QED
    BY <2>1, AnswerSteps
<1>3. AnswerInv => AnswerCorrect
  BY AnswerCorrectNow
<1> QED
  BY <1>1, <1>2, <1>3, PTL DEF ServicesSpec

\* A turn ends in one reply, which arrives whole at those who read it and say it
\* (RepliesCorrect): the three theorems above together.
THEOREM RepliesAreCorrect == ServicesSpec => []RepliesCorrect
<1>1. TurnCorrect /\ EventStreamCorrect /\ AnswerCorrect => RepliesCorrect
  BY DEF RepliesCorrect
<1> QED
  BY <1>1, TurnIsCorrect, EventStreamIsCorrect, AnswerIsCorrect, PTL

-----------------------------------------------------------------------------
(* A call of the voice runner *)

TurnPlaces ==
  {"idle", "announcing", "thinking", "settling", "closing", "sorry", "plain", "done"}
Voicings == [text : Nat, voiced : Seq(Nat), tail : {"whole", "aborted", "broken"}]

HeardTypes ==
  /\ call \in {"open", "ending", "ended"} /\ stream \in {"opening", "open", "failed"}
  /\ spoken \in 0..Utterances /\ ended \in 0..spoken /\ partial \in 0..spoken
  /\ fallbacks \subseteq 1..ended
  /\ finals \subseteq (1..ended) \X {"stream", "gateway", "batch"}

TurnTypes ==
  /\ handled \in BOOLEAN /\ leaked \in BOOLEAN
  /\ turnAt \in [Speakers -> TurnPlaces]
  /\ fixed \in [Speakers -> {"none", "playing", "closing"}]
  /\ said \in [Speakers -> (0..Utterances) \X {"none", "stream", "gateway", "batch"}]
  /\ \A i \in Speakers : fixed[i] # "none" <=> turnAt[i] \in {"sorry", "plain"}

\* Turn i will free the flag, or has a transcript that claimed it.
Frees(i) ==
  \/ turnAt[i] \in {"thinking", "settling", "closing", "sorry"}
  \/ turnAt[i] = "announcing" /\ said[i][2] # "batch"

FlagInv == handled /\ ~leaked => \E i \in TurnIds : Frees(i)

SoundTypes ==
  /\ resp \in [Responses -> Voicings]
  /\ speaking \in Responses \cup {NoResponse}

\* Sentences are spoken one after the other, and no turn is before its answer begins.
SoundInv ==
  /\ \A r \in Responses :
       /\ Len(resp[r].voiced) <= resp[r].text
       /\ \A n \in 1..Len(resp[r].voiced) : resp[r].voiced[n] = n
  /\ \A i \in Speakers : resp[Fixed(i)].text <= 1
  /\ \A i \in TurnIds : turnAt[i] \in {"idle", "announcing"} => resp[i] = Silent

\* What may still sound is the active response, or was displaced.
Loose(r) == resp[r].tail # "whole" \/ r \in orphans \/ r = speaking

ActiveInv ==
  /\ \A r \in Responses : Len(resp[r].voiced) < resp[r].text => Loose(r)
  /\ \A i \in TurnIds : turnAt[i] = "thinking" => Loose(i)
  /\ \A i \in TurnIds :
       speaking = i => turnAt[i] \in {"thinking", "settling", "closing"} /\ resp[i].tail # "aborted"
  /\ call # "open" /\ speaking # NoResponse => speaking \in late

\* What is closed has been spoken.
ClosedInv ==
  /\ \A i \in TurnIds : turnAt[i] = "closing" => TailSettled(i)
  /\ \A i \in Speakers : fixed[i] = "closing" => TailSettled(Fixed(i))

VoiceInv ==
  /\ HeardTypes /\ TurnTypes /\ SoundTypes
  /\ FlagInv /\ SoundInv /\ ActiveInv /\ ClosedInv

LEMMA ResponseIds ==
  /\ \A i \in Speakers : Fixed(i) \in Responses
  /\ \A i \in TurnIds : i \in Responses /\ i \in Speakers /\ Answer(i) = i
  /\ \A i \in TurnIds, j \in Speakers : Fixed(j) # i
  /\ \A i, j \in Speakers : Fixed(i) = Fixed(j) => i = j
  /\ NoResponse \notin Responses /\ NoResponse \notin TurnIds
  /\ \A i \in Speakers : i \in TurnIds \/ Answer(i) = NoResponse
BY VoiceTurnsAssumption DEF Speakers, TurnIds, Responses, Fixed, Answer, NoResponse

\* What is heard keeps its type as long as a turn, a response or the history changes.
LEMMA HeardSame ==
  ASSUME HeardTypes, UNCHANGED <<callVars, heardVars>>
  PROVE  HeardTypes'
BY DEF HeardTypes, callVars, heardVars

\* cancelActiveResponse.
LEMMA SilencedKeeps ==
  ASSUME SoundTypes, SoundInv, ActiveInv, ClosedInv,
         resp' = Aborted, speaking' = NoResponse, UNCHANGED <<fixed, orphans, late>>,
         \A j \in TurnIds :
           turnAt'[j] # turnAt[j] => turnAt[j] = "idle" /\ turnAt'[j] = "announcing"
  PROVE  SoundTypes' /\ SoundInv' /\ ActiveInv' /\ ClosedInv'
<1>1. /\ resp' \in [Responses -> Voicings]
      /\ \A r \in Responses : /\ resp'[r].text = resp[r].text /\ resp'[r].voiced = resp[r].voiced
                              /\ r # speaking => resp'[r] = resp[r]
                              /\ r = speaking => resp'[r].tail = "aborted"
  <2>1. CASE speaking = NoResponse
    BY <2>1, ResponseIds DEF Aborted, SoundTypes
  <2>2. CASE speaking \in Responses
    <3>1. resp' = [resp EXCEPT ![speaking].tail = "aborted"]
      BY <2>2, ResponseIds DEF Aborted
    <3> QED
      BY <2>2, <3>1 DEF SoundTypes, Voicings
  <2> QED
    BY <2>1, <2>2 DEF SoundTypes
<1>2. SoundTypes'
  BY <1>1 DEF SoundTypes
<1>3. SoundInv'
  <2>1. \A j \in TurnIds : turnAt'[j] \in {"idle", "announcing"} => resp'[j] = Silent
    <3> SUFFICES ASSUME NEW j \in TurnIds, turnAt'[j] \in {"idle", "announcing"}
                 PROVE  resp'[j] = Silent
      OBVIOUS
    <3>1. turnAt[j] \in {"idle", "announcing"} /\ j \in Responses
      BY ResponseIds
    <3>2. resp[j] = Silent /\ speaking # j
      BY <3>1 DEF SoundInv, ActiveInv
    <3> QED
      BY <1>1, <3>1, <3>2
  <2>2. \A r \in Responses : /\ Len(resp'[r].voiced) <= resp'[r].text
                             /\ \A n \in 1..Len(resp'[r].voiced) : resp'[r].voiced[n] = n
    BY <1>1 DEF SoundInv
  <2>3. \A i \in Speakers : resp'[Fixed(i)].text <= 1
    BY <1>1, ResponseIds DEF SoundInv
  <2> QED
    BY <2>1, <2>2, <2>3 DEF SoundInv
<1>4. ASSUME NEW r \in Responses, Loose(r) PROVE Loose(r)'
  BY <1>1, <1>4 DEF Loose
<1>5. ActiveInv'
  <2>1. \A r \in Responses : Len(resp'[r].voiced) < resp'[r].text => Loose(r)'
    BY <1>1, <1>4 DEF ActiveInv
  <2>2. \A i \in TurnIds : turnAt'[i] = "thinking" => Loose(i)'
    BY <1>4, ResponseIds DEF ActiveInv
  <2> QED
    BY <2>1, <2>2, ResponseIds DEF ActiveInv
<1>6. ClosedInv'
  <2>1. \A r \in Responses : TailSettled(r) => TailSettled(r)'
    BY <1>1 DEF TailSettled
  <2>2. \A i \in TurnIds : turnAt'[i] = "closing" => turnAt[i] = "closing" /\ i \in Responses
    BY ResponseIds
  <2>3. \A i \in TurnIds : turnAt'[i] = "closing" => TailSettled(i)'
    BY <2>1, <2>2 DEF ClosedInv
  <2>4. \A i \in Speakers : fixed'[i] = "closing" => TailSettled(Fixed(i))'
    BY <2>1, ResponseIds DEF ClosedInv
  <2> QED
    BY <2>3, <2>4 DEF ClosedInv
<1> QED
  BY <1>2, <1>3, <1>5, <1>6

\* A response begins, and displaces the active one.
LEMMA InstallFacts ==
  ASSUME SoundTypes, SoundInv, ActiveInv, NEW r \in Responses, NEW s \in Nat, Install(r, s),
         UNCHANGED call, Len(resp[r].voiced) <= s
  PROVE  /\ SoundTypes' /\ speaking' = r
         /\ \A k \in Responses : k # r => resp'[k] = resp[k]
         /\ resp'[r].text = s /\ resp'[r].tail = resp[r].tail /\ resp'[r].voiced = resp[r].voiced
         /\ \A k \in Responses :
              /\ Len(resp'[k].voiced) <= resp'[k].text
              /\ \A n \in 1..Len(resp'[k].voiced) : resp'[k].voiced[n] = n
              /\ Loose(k) => Loose(k)'
              /\ Len(resp'[k].voiced) < resp'[k].text => Loose(k)'
         /\ call' # "open" => speaking' \in late'
<1>1. /\ resp' = [resp EXCEPT ![r].text = s] /\ speaking' = r
      /\ orphans' = orphans \cup ({speaking} \ {NoResponse})
      /\ late' = IF call = "open" THEN late ELSE late \cup {r}
  BY DEF Install
<1>2. /\ resp' \in [Responses -> Voicings]
      /\ \A k \in Responses : k # r => resp'[k] = resp[k]
      /\ resp'[r].text = s /\ resp'[r].tail = resp[r].tail /\ resp'[r].voiced = resp[r].voiced
  BY <1>1 DEF SoundTypes, Voicings
<1>3. \A k \in Responses : Loose(k) => Loose(k)'
  <2> SUFFICES ASSUME NEW k \in Responses, Loose(k) PROVE Loose(k)'
    OBVIOUS
  <2>1. resp'[k].tail = resp[k].tail /\ (k = speaking => k \in orphans')
    BY <1>1, <1>2, ResponseIds
  <2> QED
    BY <1>1, <2>1 DEF Loose
<1>4. \A k \in Responses : Len(resp'[k].voiced) < resp'[k].text => Loose(k)'
  <2> SUFFICES ASSUME NEW k \in Responses, Len(resp'[k].voiced) < resp'[k].text PROVE Loose(k)'
    OBVIOUS
  <2>1. CASE k = r
    BY <1>1, <2>1 DEF Loose
  <2>2. CASE k # r
    BY <1>2, <1>3, <2>2 DEF ActiveInv
  <2> QED
    BY <2>1, <2>2
<1>5. \A k \in Responses : /\ Len(resp'[k].voiced) <= resp'[k].text
                           /\ \A n \in 1..Len(resp'[k].voiced) : resp'[k].voiced[n] = n
  BY <1>2 DEF SoundInv
<1> QED
  BY <1>1, <1>2, <1>3, <1>4, <1>5 DEF SoundTypes

\* emitFixedResponse begins.
LEMMA FixedStarts ==
  ASSUME TurnTypes, SoundTypes, SoundInv, ActiveInv, ClosedInv,
         NEW i \in TurnIds, NEW as \in {"plain", "sorry"}, StartFixed(i, as),
         turnAt[i] \notin {"plain", "sorry"}, UNCHANGED call
  PROVE  SoundTypes' /\ SoundInv' /\ ActiveInv' /\ ClosedInv'
<1>1. PICK r \in Responses : r = Fixed(i) /\ i \in Speakers /\ \A j \in TurnIds : j # r
  BY ResponseIds
<1>2. /\ turnAt' = [turnAt EXCEPT ![i] = as] /\ fixed' = [fixed EXCEPT ![i] = "playing"]
      /\ Install(r, 1) /\ 1 \in Nat
  BY <1>1 DEF StartFixed
<1>3. Len(resp[r].voiced) <= 1
  <2>1. resp[r] \in Voicings
    BY DEF SoundTypes
  <2>2. resp[r].text \in Nat /\ Len(resp[r].voiced) \in Nat
    BY <2>1 DEF Voicings
  <2> QED
    BY <1>1, <2>2 DEF SoundInv
<1>4. /\ SoundTypes' /\ speaking' = r
      /\ \A k \in Responses : k # r => resp'[k] = resp[k]
      /\ resp'[r].text = 1 /\ resp'[r].tail = resp[r].tail /\ resp'[r].voiced = resp[r].voiced
      /\ \A k \in Responses :
           /\ Len(resp'[k].voiced) <= resp'[k].text
           /\ \A n \in 1..Len(resp'[k].voiced) : resp'[k].voiced[n] = n
           /\ Loose(k) => Loose(k)'
           /\ Len(resp'[k].voiced) < resp'[k].text => Loose(k)'
      /\ call' # "open" => speaking' \in late'
  BY <1>2, <1>3, InstallFacts
<1>5. /\ \A j \in Speakers : j # i => turnAt'[j] = turnAt[j] /\ fixed'[j] = fixed[j]
      /\ turnAt'[i] = as /\ fixed'[i] = "playing"
  BY <1>1, <1>2 DEF TurnTypes
<1>6. SoundInv'
  <2>1. \A j \in Speakers : resp'[Fixed(j)].text <= 1
    BY <1>4, ResponseIds DEF SoundInv
  <2>2. \A j \in TurnIds : turnAt'[j] \in {"idle", "announcing"} => resp'[j] = Silent
    BY <1>1, <1>4, <1>5, ResponseIds DEF SoundInv
  <2> QED
    BY <1>4, <2>1, <2>2 DEF SoundInv
<1>7. ActiveInv'
  <2>1. \A j \in TurnIds : turnAt'[j] = "thinking" => Loose(j)'
    BY <1>4, <1>5, ResponseIds DEF ActiveInv
  <2>2. \A j \in TurnIds : speaking' # j
    BY <1>1, <1>4
  <2> QED
    BY <1>4, <2>1, <2>2 DEF ActiveInv
<1>8. ClosedInv'
  <2>1. \A k \in Responses : k # r => (TailSettled(k) => TailSettled(k)')
    BY <1>4 DEF TailSettled
  <2>2. \A j \in TurnIds : turnAt'[j] = "closing" => TailSettled(j)'
    BY <1>1, <1>5, <2>1, ResponseIds DEF ClosedInv
  <2>3. \A j \in Speakers : fixed'[j] = "closing" => TailSettled(Fixed(j))'
    <3> SUFFICES ASSUME NEW j \in Speakers, fixed'[j] = "closing" PROVE TailSettled(Fixed(j))'
      OBVIOUS
    <3>1. j # i /\ fixed[j] = "closing"
      BY <1>5
    <3>2. Fixed(j) \in Responses /\ Fixed(j) # r
      BY <1>1, <3>1, ResponseIds
    <3> QED
      BY <2>1, <3>1, <3>2 DEF ClosedInv
  <2> QED
    BY <2>2, <2>3 DEF ClosedInv
<1> QED
  BY <1>4, <1>6, <1>7, <1>8

\* A turn ends: what was active goes on, was displaced, or has nothing left to say.
LEMMA TurnEndsSoundly ==
  ASSUME TurnTypes, SoundTypes, SoundInv, ActiveInv, ClosedInv, NEW i \in Speakers,
         turnAt' = [turnAt EXCEPT ![i] = "done"], UNCHANGED <<resp, call, late>>,
         fixed' \in {fixed, [fixed EXCEPT ![i] = "none"]}, orphans \subseteq orphans',
         speaking' \in {speaking, NoResponse}, speaking' # NoResponse => speaking' # i,
         speaking' # speaking =>
           \/ speaking \in orphans' \/ resp[speaking].tail # "whole"
           \/ TailSettled(speaking) /\ speaking \in {i, Fixed(i)}
  PROVE  SoundTypes' /\ SoundInv' /\ ActiveInv' /\ ClosedInv'
<1>1. /\ \A j \in Speakers : j # i => turnAt'[j] = turnAt[j]
      /\ turnAt'[i] = "done"
      /\ \A j \in Speakers : fixed'[j] # "none" => fixed'[j] = fixed[j]
  BY DEF TurnTypes
<1>2. SoundTypes'
  BY ResponseIds DEF SoundTypes
<1>3. SoundInv'
  <2>1. \A j \in TurnIds : turnAt'[j] \in {"idle", "announcing"} => resp'[j] = Silent
    BY <1>1, ResponseIds DEF SoundInv
  <2> QED
    BY <2>1 DEF SoundInv
<1>4. ASSUME NEW r \in Responses, Loose(r), r \notin {i, Fixed(i)} \/ ~TailSettled(r)
      PROVE  Loose(r)'
  BY <1>4, ResponseIds DEF Loose
<1>5. ActiveInv'
  <2>1. \A r \in Responses : Len(resp'[r].voiced) < resp'[r].text => Loose(r)'
    <3> SUFFICES ASSUME NEW r \in Responses, Len(resp[r].voiced) < resp[r].text PROVE Loose(r)'
      OBVIOUS
    <3>0. resp[r] \in Voicings
      BY DEF SoundTypes
    <3>1. Loose(r) /\ Len(resp[r].voiced) # resp[r].text
      BY <3>0 DEF ActiveInv, Voicings
    <3>2. CASE TailSettled(r)
      BY <3>1, <3>2 DEF TailSettled, Loose
    <3> QED
      BY <1>4, <3>1, <3>2
  <2>2. \A j \in TurnIds : turnAt'[j] = "thinking" => Loose(j)'
    <3> SUFFICES ASSUME NEW j \in TurnIds, turnAt'[j] = "thinking" PROVE Loose(j)'
      OBVIOUS
    <3>1. j # i /\ j # Fixed(i) /\ j \in Responses /\ Loose(j)
      BY <1>1, ResponseIds DEF ActiveInv
    <3> QED
      BY <1>4, <3>1
  <2>3. \A j \in TurnIds :
          speaking' = j => /\ turnAt'[j] \in {"thinking", "settling", "closing"}
                           /\ resp'[j].tail # "aborted"
    BY <1>1, ResponseIds DEF ActiveInv
  <2>4. call' # "open" /\ speaking' # NoResponse => speaking' \in late'
    BY DEF ActiveInv
  <2> QED
    BY <2>1, <2>2, <2>3, <2>4 DEF ActiveInv
<1>6. ClosedInv'
  BY <1>1, ResponseIds DEF ClosedInv, TailSettled
<1> QED
  BY <1>2, <1>3, <1>5, <1>6

LEMMA TurnEndsTyped ==
  ASSUME TurnTypes, NEW i \in Speakers, turnAt' = [turnAt EXCEPT ![i] = "done"],
         fixed' \in {fixed, [fixed EXCEPT ![i] = "none"]}, fixed'[i] = "none",
         said' \in {said, [said EXCEPT ![i] = NoText]},
         handled' \in BOOLEAN, leaked' \in BOOLEAN
  PROVE  TurnTypes'
<1>1. turnAt' \in [Speakers -> TurnPlaces] /\ fixed' \in [Speakers -> {"none", "playing", "closing"}]
  BY DEF TurnTypes, TurnPlaces
<1>2. said' \in [Speakers -> (0..Utterances) \X {"none", "stream", "gateway", "batch"}]
  <2>1. NoText \in (0..Utterances) \X {"none", "stream", "gateway", "batch"}
    BY VoiceTurnsAssumption DEF NoText
  <2> QED
    BY <2>1 DEF TurnTypes
<1>3. \A j \in Speakers : fixed'[j] # "none" <=> turnAt'[j] \in {"sorry", "plain"}
  BY DEF TurnTypes
<1> QED
  BY <1>1, <1>2, <1>3 DEF TurnTypes

\* The turn, its sounds and the history stay.
LEMMA TurnsSame ==
  ASSUME VoiceInv, UNCHANGED <<turnVars, voiceHistory>>, call' # "open" => call # "open"
  PROVE  TurnTypes' /\ FlagInv' /\ SoundTypes' /\ SoundInv' /\ ActiveInv' /\ ClosedInv'
<1> USE DEF VoiceInv, turnVars, voiceHistory
<1>1. TurnTypes' /\ FlagInv'
  BY DEF TurnTypes, FlagInv, Frees
<1>2. SoundTypes' /\ SoundInv' /\ ClosedInv'
  BY DEF SoundTypes, SoundInv, ClosedInv, TailSettled
<1>3. ActiveInv'
  BY DEF ActiveInv, Loose
<1> QED
  BY <1>1, <1>2, <1>3

-----------------------------------------------------------------------------
(* What is heard *)

\* The first part of processTranscriptFinal; a final that claims the flag is not of the
\* batch recognizer.
LEMMA ProcessKeeps ==
  ASSUME VoiceInv, NEW i \in TurnIds, NEW u \in 1..Utterances,
         NEW src \in {"stream", "gateway", "batch"}, Process(i, u, src),
         handled' \in BOOLEAN, handled' => handled \/ src # "batch", UNCHANGED call
  PROVE  /\ partial' = 0 /\ TurnTypes' /\ FlagInv'
         /\ SoundTypes' /\ SoundInv' /\ ActiveInv' /\ ClosedInv'
<1> USE DEF VoiceInv
<1>0. /\ partial' = 0 /\ UNCHANGED <<lastUser, fixed, orphans, late>>
      /\ i \in Speakers /\ TurnIds \subseteq Speakers
  BY ResponseIds DEF Process
<1>1. CASE Dropped(u)
  <2>1. leaked' = (leaked \/ src # "batch") /\ UNCHANGED <<speaking, resp, turnAt, said>>
    BY <1>1 DEF Process
  <2>2. TurnTypes'
    BY <1>0, <2>1 DEF TurnTypes
  <2>3. FlagInv'
    BY <2>1 DEF FlagInv, Frees
  <2>4. SoundTypes' /\ SoundInv' /\ ClosedInv'
    BY <1>0, <2>1 DEF SoundTypes, SoundInv, ClosedInv, TailSettled
  <2>5. ActiveInv'
    BY <1>0, <2>1 DEF ActiveInv, Loose
  <2> QED
    BY <1>0, <2>2, <2>3, <2>4, <2>5
<1>2. CASE ~Dropped(u)
  <2>1. /\ turnAt[i] = "idle" /\ turnAt' = [turnAt EXCEPT ![i] = "announcing"]
        /\ said' = [said EXCEPT ![i] = <<u, src>>] /\ leaked' = leaked
        /\ resp' = Aborted /\ speaking' = NoResponse
    BY <1>2 DEF Process, Starts
  <2>2. /\ \A j \in Speakers : j # i => turnAt'[j] = turnAt[j] /\ said'[j] = said[j]
        /\ turnAt'[i] = "announcing" /\ said'[i] = <<u, src>>
    BY <1>0, <2>1 DEF TurnTypes
  <2>3. TurnTypes'
    <3>1. <<u, src>> \in (0..Utterances) \X {"none", "stream", "gateway", "batch"}
      BY VoiceTurnsAssumption
    <3>2. said' \in [Speakers -> (0..Utterances) \X {"none", "stream", "gateway", "batch"}]
      BY <2>1, <3>1 DEF TurnTypes
    <3>3. turnAt' \in [Speakers -> TurnPlaces]
      BY <2>1 DEF TurnTypes, TurnPlaces
    <3>4. \A j \in Speakers : fixed'[j] # "none" <=> turnAt'[j] \in {"sorry", "plain"}
      BY <1>0, <2>1, <2>2 DEF TurnTypes
    <3> QED
      BY <1>0, <2>1, <3>2, <3>3, <3>4 DEF TurnTypes
  <2>4. FlagInv'
    <3> SUFFICES ASSUME handled', ~leaked PROVE \E j \in TurnIds : Frees(j)'
      BY <2>1 DEF FlagInv
    <3>1. CASE src # "batch"
      BY <2>2, <3>1 DEF Frees
    <3>2. CASE handled
      <4>1. PICK j \in TurnIds : Frees(j)
        BY <3>2 DEF FlagInv
      <4>2. j # i
        BY <2>1, <4>1 DEF Frees
      <4> QED
        BY <1>0, <2>2, <4>1, <4>2 DEF Frees
    <3> QED
      BY <3>1, <3>2
  <2>5. \A j \in TurnIds :
          turnAt'[j] # turnAt[j] => turnAt[j] = "idle" /\ turnAt'[j] = "announcing"
    BY <1>0, <2>1, <2>2
  <2>6. SoundTypes' /\ SoundInv' /\ ActiveInv' /\ ClosedInv'
    BY <1>0, <2>1, <2>5, SilencedKeeps
  <2> QED
    BY <1>0, <2>3, <2>4, <2>6
<1> QED
  BY <1>1, <1>2

LEMMA FinalArrivesKeeps ==
  ASSUME VoiceInv, NEW u \in 1..Utterances, NEW src \in {"stream", "gateway"},
         FinalArrives(u, src)
  PROVE  VoiceInv'
<1> USE DEF VoiceInv
<1>1. /\ finals' = finals \ {<<u, src>>}
      /\ UNCHANGED <<call, stream, content, spoken, ended, fallbacks>>
  BY DEF FinalArrives, callVars
<1>2. CASE handled
  <2>1. UNCHANGED <<partial, turnVars, voiceHistory>>
    BY <1>2 DEF FinalArrives
  <2>2. HeardTypes'
    BY <1>1, <2>1 DEF HeardTypes
  <2> QED
    BY <1>1, <2>1, <2>2, TurnsSame
<1>3. CASE ~handled
  <2>1. PICK i \in TurnIds : handled' = TRUE /\ Process(i, u, src)
    BY <1>3 DEF FinalArrives
  <2>2. /\ partial' = 0 /\ TurnTypes' /\ FlagInv'
        /\ SoundTypes' /\ SoundInv' /\ ActiveInv' /\ ClosedInv'
    BY <1>1, <2>1, ProcessKeeps
  <2>3. HeardTypes'
    BY <1>1, <2>2 DEF HeardTypes
  <2> QED
    BY <2>2, <2>3
<1> QED
  BY <1>2, <1>3

LEMMA TimerFallsBackKeeps ==
  ASSUME VoiceInv, NEW u \in 1..Utterances, TimerFallsBack(u)
  PROVE  VoiceInv'
<1> USE DEF VoiceInv
<1>1. /\ fallbacks' = fallbacks \ {u}
      /\ UNCHANGED <<call, stream, content, spoken, ended, finals>>
  BY DEF TimerFallsBack, callVars
<1>2. CASE handled \/ partial = 0
  <2>1. UNCHANGED <<partial, turnVars, voiceHistory>>
    BY <1>2 DEF TimerFallsBack
  <2>2. HeardTypes'
    BY <1>1, <2>1 DEF HeardTypes
  <2> QED
    BY <1>1, <2>1, <2>2, TurnsSame
<1>3. CASE ~(handled \/ partial = 0)
  <2>1. PICK i \in TurnIds : handled' = TRUE /\ Process(i, partial, "stream")
    BY <1>3 DEF TimerFallsBack
  <2>2. partial \in 1..Utterances
    BY <1>3, VoiceTurnsAssumption DEF HeardTypes
  <2>3. /\ partial' = 0 /\ TurnTypes' /\ FlagInv'
        /\ SoundTypes' /\ SoundInv' /\ ActiveInv' /\ ClosedInv'
    BY <1>1, <2>1, <2>2, ProcessKeeps
  <2>4. HeardTypes'
    BY <1>1, <2>3 DEF HeardTypes
  <2> QED
    BY <2>3, <2>4
<1> QED
  BY <1>2, <1>3

LEMMA BatchAnswersKeeps ==
  ASSUME VoiceInv, NEW u \in 1..Utterances, BatchAnswers(u)
  PROVE  VoiceInv'
<1> USE DEF VoiceInv
<1>1. /\ finals' = finals \ {<<u, "batch">>} /\ handled' = handled
      /\ UNCHANGED <<call, stream, content, spoken, ended, fallbacks>>
  BY DEF BatchAnswers, callVars
<1>2. PICK i \in TurnIds : Process(i, u, "batch")
  BY DEF BatchAnswers
<1>3. handled' \in BOOLEAN
  BY <1>1 DEF TurnTypes
<1>4. /\ partial' = 0 /\ TurnTypes' /\ FlagInv'
      /\ SoundTypes' /\ SoundInv' /\ ActiveInv' /\ ClosedInv'
  BY <1>1, <1>2, <1>3, ProcessKeeps
<1>5. HeardTypes'
  BY <1>1, <1>4 DEF HeardTypes
<1> QED
  BY <1>4, <1>5

\* A fixed sentence starts in turn i; no other turn changes.
LEMMA FixedStartsTyped ==
  ASSUME TurnTypes, NEW i \in TurnIds, NEW as \in {"plain", "sorry"}, StartFixed(i, as),
         said' \in {said, [said EXCEPT ![i] = NoText]}, handled' \in BOOLEAN, leaked' \in BOOLEAN
  PROVE  TurnTypes'
<1>0. i \in Speakers /\ NoText \in (0..Utterances) \X {"none", "stream", "gateway", "batch"}
  BY ResponseIds, VoiceTurnsAssumption DEF NoText
<1>1. /\ turnAt' \in [Speakers -> TurnPlaces]
      /\ fixed' \in [Speakers -> {"none", "playing", "closing"}]
  BY DEF StartFixed, TurnTypes, TurnPlaces
<1>2. \A j \in Speakers : fixed'[j] # "none" <=> turnAt'[j] \in {"sorry", "plain"}
  BY <1>0 DEF StartFixed, TurnTypes
<1>3. said' \in [Speakers -> (0..Utterances) \X {"none", "stream", "gateway", "batch"}]
  BY <1>0 DEF TurnTypes
<1> QED
  BY <1>1, <1>2, <1>3 DEF TurnTypes

LEMMA BatchFailsKeeps ==
  ASSUME VoiceInv, NEW u \in 1..Utterances, BatchFails(u)
  PROVE  VoiceInv'
<1> USE DEF VoiceInv
<1>1. /\ finals' = finals \ {<<u, "batch">>}
      /\ UNCHANGED <<call, stream, content, spoken, ended, partial, fallbacks, handled, said,
                     leaked>>
  BY DEF BatchFails, callVars
<1>2. PICK i \in TurnIds : Starts(i) /\ StartFixed(i, "plain")
  BY DEF BatchFails
<1>3. HeardTypes'
  BY <1>1 DEF HeardTypes
<1>4. TurnTypes'
  <2>1. handled' \in BOOLEAN /\ leaked' \in BOOLEAN
    BY <1>1 DEF TurnTypes
  <2> QED
    BY <1>1, <1>2, <2>1, FixedStartsTyped
<1>5. FlagInv'
  <2>1. \A j \in TurnIds : Frees(j) => Frees(j)'
    BY <1>1, <1>2, ResponseIds DEF Frees, Starts, StartFixed, TurnTypes
  <2> QED
    BY <1>1, <2>1 DEF FlagInv
<1>6. SoundTypes' /\ SoundInv' /\ ActiveInv' /\ ClosedInv'
  BY <1>1, <1>2, FixedStarts DEF Starts
<1> QED
  BY <1>3, <1>4, <1>5, <1>6

LEMMA PartialArrivesKeeps ==
  ASSUME VoiceInv, NEW src \in {"stream", "gateway"}, PartialArrives(src)
  PROVE  VoiceInv'
<1> USE DEF VoiceInv
<1>1. /\ partial' = spoken
      /\ UNCHANGED <<call, stream, content, spoken, ended, finals, fallbacks, handled, turnAt,
                     said, fixed, orphans, leaked, late>>
  BY DEF PartialArrives, callVars, voiceHistory
<1>2. HeardTypes'
  BY <1>1 DEF HeardTypes
<1>3. TurnTypes' /\ FlagInv'
  BY <1>1 DEF TurnTypes, FlagInv, Frees
<1>4. CASE BargesIn(src)
  <2>1. resp' = Aborted /\ speaking' = NoResponse
    BY <1>4 DEF PartialArrives
  <2> QED
    BY <1>1, <1>2, <1>3, <2>1, SilencedKeeps
<1>5. CASE ~BargesIn(src)
  <2>1. resp' = resp /\ speaking' = speaking /\ lastUser' = lastUser
    BY <1>5 DEF PartialArrives
  <2> QED
    BY <1>1, <1>2, <2>1, TurnsSame DEF turnVars, voiceHistory
<1> QED
  BY <1>4, <1>5

LEMMA EndOfTurnKeeps ==
  ASSUME VoiceInv, NEW sources \in SUBSET {"gateway"}, EndOfTurn(sources)
  PROVE  VoiceInv'
<1> USE DEF VoiceInv
<1>1. /\ ended < spoken /\ ended' = spoken
      /\ UNCHANGED <<call, stream, spoken, partial, turnVars, voiceHistory>>
  BY DEF EndOfTurn, callVars
<1>2. spoken \in 1..ended' /\ 1..ended \subseteq 1..ended'
  BY <1>1, VoiceTurnsAssumption DEF HeardTypes
<1>3. fallbacks' \subseteq 1..ended'
  BY <1>2 DEF EndOfTurn, HeardTypes
<1>4. finals' \subseteq (1..ended') \X {"stream", "gateway", "batch"}
  <2>1. \A s \in {"stream", "batch"} :
          {spoken} \X (sources \cup {s}) \subseteq (1..ended') \X {"stream", "gateway", "batch"}
    BY <1>2
  <2>2. finals \subseteq (1..ended') \X {"stream", "gateway", "batch"}
    BY <1>2 DEF HeardTypes
  <2>3. CASE StreamActive
    BY <2>1, <2>2, <2>3 DEF EndOfTurn
  <2>4. CASE ~StreamActive
    BY <2>1, <2>2, <2>4 DEF EndOfTurn
  <2> QED
    BY <2>3, <2>4
<1>5. HeardTypes'
  BY <1>1, <1>3, <1>4 DEF HeardTypes
<1> QED
  BY <1>1, <1>5, TurnsSame

LEMMA HearsKeeps ==
  ASSUME VoiceInv, Hears
  PROVE  VoiceInv'
<1>1. CASE Speaks
  <2>1. HeardTypes'
    BY <1>1, VoiceTurnsAssumption DEF Speaks, callVars, VoiceInv, HeardTypes
  <2> QED
    BY <1>1, <2>1, TurnsSame DEF Speaks, callVars, VoiceInv
<1>2. CASE EndOfTurn({}) \/ EndOfTurn({"gateway"})
  BY <1>2, EndOfTurnKeeps
<1> QED
  BY <1>1, <1>2, PartialArrivesKeeps, FinalArrivesKeeps, TimerFallsBackKeeps,
     BatchAnswersKeeps, BatchFailsKeeps DEF Hears

-----------------------------------------------------------------------------
(* A turn and its session *)

\* The `finally` of turn i.
LEMMA FinallyKeeps ==
  ASSUME VoiceInv, NEW i \in TurnIds, Finally(i), fixed[i] = "none",
         UNCHANGED <<callVars, heardVars, lastUser, resp, said, fixed, leaked, late>>,
         orphans \subseteq orphans',
         speaking = i => i \in orphans' \/ TailSettled(i)
  PROVE  VoiceInv'
<1> USE DEF VoiceInv
<1>0. i \in Speakers /\ Answer(i) = i /\ i # NoResponse
  BY ResponseIds
<1>1. /\ speaking' = (IF speaking = i THEN NoResponse ELSE speaking)
      /\ handled' = FALSE /\ turnAt' = [turnAt EXCEPT ![i] = "done"]
  BY <1>0 DEF Finally
<1>2. HeardTypes'
  BY HeardSame
<1>3. TurnTypes' /\ FlagInv'
  <2>1. leaked' \in BOOLEAN
    BY DEF TurnTypes
  <2> QED
    BY <1>0, <1>1, <2>1, TurnEndsTyped DEF FlagInv
<1>4. SoundTypes' /\ SoundInv' /\ ActiveInv' /\ ClosedInv'
  <2>1. speaking' \in {speaking, NoResponse} /\ (speaking' # NoResponse => speaking' # i)
    BY <1>1
  <2>2. speaking' # speaking => \/ speaking \in orphans' \/ resp[speaking].tail # "whole"
                                \/ TailSettled(speaking) /\ speaking \in {i, Fixed(i)}
    BY <1>1
  <2>3. UNCHANGED <<resp, call, late>> /\ fixed' = fixed
    BY DEF callVars
  <2> QED
    BY <1>0, <1>1, <2>1, <2>2, <2>3, TurnEndsSoundly
<1> QED
  BY <1>2, <1>3, <1>4

\* The answer of turn i begins.
LEMMA AnswerBegins ==
  ASSUME VoiceInv, NEW i \in TurnIds, turnAt[i] = "announcing", Install(Answer(i), 0),
         turnAt' = [turnAt EXCEPT ![i] = "thinking"], said' = [said EXCEPT ![i] = NoText],
         UNCHANGED <<callVars, heardVars, handled, fixed, leaked>>
  PROVE  VoiceInv'
<1> USE DEF VoiceInv
<1>0. i \in Speakers /\ i \in Responses /\ Answer(i) = i /\ i # NoResponse /\ UNCHANGED call
  BY ResponseIds DEF callVars
<1>1. /\ \A j \in Speakers : j # i => turnAt'[j] = turnAt[j] /\ said'[j] = said[j]
      /\ turnAt'[i] = "thinking"
  BY <1>0 DEF TurnTypes
<1>2. HeardTypes'
  BY HeardSame
<1>3. TurnTypes'
  <2>1. NoText \in (0..Utterances) \X {"none", "stream", "gateway", "batch"}
    BY VoiceTurnsAssumption DEF NoText
  <2>2. said' \in [Speakers -> (0..Utterances) \X {"none", "stream", "gateway", "batch"}]
    BY <2>1 DEF TurnTypes
  <2>3. turnAt' \in [Speakers -> TurnPlaces]
    BY DEF TurnTypes, TurnPlaces
  <2>4. \A j \in Speakers : fixed'[j] # "none" <=> turnAt'[j] \in {"sorry", "plain"}
    BY <1>0, <1>1 DEF TurnTypes
  <2> QED
    BY <2>2, <2>3, <2>4 DEF TurnTypes
<1>4. FlagInv'
  <2>1. \A j \in TurnIds : Frees(j) => Frees(j)'
    BY <1>1, ResponseIds DEF Frees
  <2> QED
    BY <2>1 DEF FlagInv
<1>5. resp[i] = Silent /\ Len(resp[i].voiced) <= 0
  <2>1. resp[i] = Silent
    BY DEF SoundInv
  <2> QED
    BY <2>1 DEF Silent
<1>6. /\ SoundTypes' /\ speaking' = i
      /\ \A k \in Responses : k # i => resp'[k] = resp[k]
      /\ resp'[i].text = 0 /\ resp'[i].tail = resp[i].tail /\ resp'[i].voiced = resp[i].voiced
      /\ \A k \in Responses :
           /\ Len(resp'[k].voiced) <= resp'[k].text
           /\ \A n \in 1..Len(resp'[k].voiced) : resp'[k].voiced[n] = n
           /\ Loose(k) => Loose(k)'
           /\ Len(resp'[k].voiced) < resp'[k].text => Loose(k)'
      /\ call' # "open" => speaking' \in late'
  <2>1. 0 \in Nat
    OBVIOUS
  <2>2. Install(i, 0)
    BY <1>0
  <2> QED
    BY <1>0, <1>5, <2>1, <2>2, InstallFacts
<1>7. SoundInv'
  <2>1. \A j \in Speakers : Fixed(j) # i /\ Fixed(j) \in Responses
    BY ResponseIds
  <2>2. \A j \in Speakers : resp'[Fixed(j)].text <= 1
    BY <1>6, <2>1 DEF SoundInv
  <2>3. \A j \in TurnIds : turnAt'[j] \in {"idle", "announcing"} => resp'[j] = Silent
    BY <1>1, <1>6, ResponseIds DEF SoundInv
  <2> QED
    BY <1>6, <2>2, <2>3 DEF SoundInv
<1>8. ActiveInv'
  <2>1. \A j \in TurnIds : turnAt'[j] = "thinking" => Loose(j)'
    <3>1. Loose(i)'
      BY <1>6 DEF Loose
    <3> QED
      BY <1>1, <1>6, <3>1, ResponseIds DEF ActiveInv
  <2>2. \A j \in TurnIds :
          speaking' = j => /\ turnAt'[j] \in {"thinking", "settling", "closing"}
                           /\ resp'[j].tail # "aborted"
    BY <1>1, <1>5, <1>6 DEF Silent
  <2> QED
    BY <1>6, <2>1, <2>2 DEF ActiveInv
<1>9. ClosedInv'
  <2>1. \A k \in Responses : k # i => (TailSettled(k) => TailSettled(k)')
    BY <1>6 DEF TailSettled
  <2>2. \A j \in TurnIds : turnAt'[j] = "closing" => TailSettled(j)'
    BY <1>1, <2>1, ResponseIds DEF ClosedInv
  <2>3. \A j \in Speakers : fixed'[j] = "closing" => TailSettled(Fixed(j))'
    BY <2>1, ResponseIds DEF ClosedInv
  <2> QED
    BY <2>2, <2>3 DEF ClosedInv
<1> QED
  BY <1>2, <1>3, <1>4, <1>6, <1>7, <1>8, <1>9

LEMMA AnnouncedKeeps ==
  ASSUME VoiceInv, NEW i \in TurnIds, Announced(i)
  PROVE  VoiceInv'
<1> USE DEF VoiceInv
<1>0. i \in Speakers /\ fixed[i] = "none"
  BY ResponseIds DEF Announced, TurnTypes
<1>1. /\ turnAt[i] = "announcing" /\ said' = [said EXCEPT ![i] = NoText]
      /\ UNCHANGED <<callVars, heardVars, handled>>
  BY DEF Announced
<1>2. CASE ~Unclear(i)
  <2>1. /\ Install(Answer(i), 0) /\ turnAt' = [turnAt EXCEPT ![i] = "thinking"]
        /\ UNCHANGED <<fixed, leaked>>
    BY <1>2 DEF Announced
  <2> QED
    BY <1>1, <2>1, AnswerBegins
<1>3. CASE Unclear(i)
  <2>1. leaked' = (leaked \/ said[i][2] # "batch") /\ HeardTypes' /\ UNCHANGED call
    BY <1>1, <1>3, HeardSame DEF Announced, callVars
  <2>2. handled' \in BOOLEAN /\ leaked' \in BOOLEAN
    BY <1>1, <2>1 DEF TurnTypes
  <2>3. ASSUME \A j \in Speakers : j # i => turnAt'[j] = turnAt[j] /\ said'[j] = said[j]
        PROVE  FlagInv'
    <3> SUFFICES ASSUME handled, ~leaked, said[i][2] = "batch" PROVE \E j \in TurnIds : Frees(j)'
      BY <1>1, <2>1 DEF FlagInv
    <3>1. PICK j \in TurnIds : Frees(j)
      BY DEF FlagInv
    <3>2. j # i
      BY <1>1, <3>1 DEF Frees
    <3> QED
      BY <2>3, <3>1, <3>2, ResponseIds DEF Frees
  <2>4. \A j \in Speakers : j # i => said'[j] = said[j]
    BY <1>1 DEF TurnTypes
  <2>5. CASE call = "ended"
    <3>1. /\ turnAt' = [turnAt EXCEPT ![i] = "done"]
          /\ UNCHANGED <<speaking, resp, fixed, orphans, late>>
      BY <1>3, <2>5 DEF Announced
    <3>2. TurnTypes'
      BY <1>0, <1>1, <2>2, <3>1, TurnEndsTyped
    <3>3. speaking # i
      BY <1>1 DEF ActiveInv
    <3>4. SoundTypes' /\ SoundInv' /\ ActiveInv' /\ ClosedInv'
      BY <1>0, <2>1, <3>1, <3>3, TurnEndsSoundly
    <3>5. \A j \in Speakers : j # i => turnAt'[j] = turnAt[j]
      BY <3>1 DEF TurnTypes
    <3> QED
      BY <2>1, <2>3, <2>4, <3>2, <3>4, <3>5
  <2>6. CASE call # "ended"
    <3>1. StartFixed(i, "plain")
      BY <1>3, <2>6 DEF Announced
    <3>2. TurnTypes'
      BY <1>1, <2>2, <3>1, FixedStartsTyped
    <3>3. SoundTypes' /\ SoundInv' /\ ActiveInv' /\ ClosedInv'
      BY <1>1, <2>1, <3>1, FixedStarts
    <3>4. \A j \in Speakers : j # i => turnAt'[j] = turnAt[j]
      BY <3>1 DEF StartFixed, TurnTypes
    <3> QED
      BY <2>1, <2>3, <2>4, <3>2, <3>3, <3>4
  <2> QED
    BY <2>5, <2>6
<1> QED
  BY <1>2, <1>3

\* In a turn that asks its model or speaks, no fixed sentence is on its way.
LEMMA NothingFixed ==
  ASSUME VoiceInv, NEW i \in TurnIds, turnAt[i] \in {"thinking", "settling", "closing"}
  PROVE  fixed[i] = "none" /\ Answer(i) = i /\ i \in Speakers
BY ResponseIds DEF VoiceInv, TurnTypes

\* turnAt goes from thinking to settling, or from settling to closing.
LEMMA TurnAdvances ==
  ASSUME VoiceInv, NEW i \in TurnIds, NEW p \in {"settling", "closing"},
         turnAt[i] \in {"thinking", "settling"}, turnAt' = [turnAt EXCEPT ![i] = p],
         p = "closing" => TailSettled(i),
         UNCHANGED <<callVars, heardVars, handled, lastUser, speaking, resp, said, fixed,
                     voiceHistory>>
  PROVE  VoiceInv'
<1> USE DEF VoiceInv, callVars, voiceHistory
<1>0. i \in Speakers
  BY ResponseIds
<1>1. (\A j \in Speakers : j # i => turnAt'[j] = turnAt[j]) /\ turnAt'[i] = p
  BY <1>0 DEF TurnTypes
<1>2. HeardTypes'
  BY HeardSame
<1>3. TurnTypes'
  <2>1. turnAt' \in [Speakers -> TurnPlaces]
    BY DEF TurnTypes, TurnPlaces
  <2>2. \A j \in Speakers : fixed'[j] # "none" <=> turnAt'[j] \in {"sorry", "plain"}
    BY <1>0, <1>1 DEF TurnTypes
  <2> QED
    BY <2>1, <2>2 DEF TurnTypes
<1>4. FlagInv'
  <2>1. \A j \in TurnIds : Frees(j) => Frees(j)'
    BY <1>1, ResponseIds DEF Frees
  <2> QED
    BY <2>1 DEF FlagInv
<1>5. SoundTypes'
  BY DEF SoundTypes
<1>6. SoundInv'
  BY <1>1, ResponseIds DEF SoundInv
<1>7. ActiveInv'
  BY <1>1, ResponseIds DEF ActiveInv, Loose
<1>8. ClosedInv'
  BY <1>1, ResponseIds DEF ClosedInv, TailSettled
<1> QED
  BY <1>2, <1>3, <1>4, <1>5, <1>6, <1>7, <1>8

\* One response changes its sentences or its tail, and is not the less silent for it.
LEMMA SoundChanges ==
  ASSUME VoiceInv, NEW r \in Responses, resp' \in [Responses -> Voicings],
         \A k \in Responses : k # r => resp'[k] = resp[k],
         UNCHANGED <<callVars, heardVars, handled, lastUser, speaking, turnAt, said, fixed,
                     voiceHistory>>,
         Len(resp'[r].voiced) <= resp'[r].text,
         \A n \in 1..Len(resp'[r].voiced) : resp'[r].voiced[n] = n,
         r \notin TurnIds => resp'[r].text = resp[r].text,
         r \in TurnIds => turnAt[r] \notin {"idle", "announcing"},
         Len(resp'[r].voiced) < resp'[r].text => Loose(r),
         resp'[r].tail # resp[r].tail => resp'[r].tail = "broken",
         TailSettled(r) => TailSettled(r)' \/ (r \in TurnIds /\ turnAt[r] # "closing")
  PROVE  VoiceInv'
<1> USE DEF VoiceInv, callVars, voiceHistory
<1>1. HeardTypes'
  BY HeardSame
<1>2. TurnTypes' /\ FlagInv' /\ SoundTypes'
  BY DEF TurnTypes, FlagInv, Frees, SoundTypes
<1>3. SoundInv'
  <2>1. \A k \in Responses : /\ Len(resp'[k].voiced) <= resp'[k].text
                             /\ \A n \in 1..Len(resp'[k].voiced) : resp'[k].voiced[n] = n
    <3> SUFFICES ASSUME NEW k \in Responses
                 PROVE  /\ Len(resp'[k].voiced) <= resp'[k].text
                        /\ \A n \in 1..Len(resp'[k].voiced) : resp'[k].voiced[n] = n
      OBVIOUS
    <3>1. CASE k = r
      BY <3>1
    <3>2. CASE k # r
      BY <3>2 DEF SoundInv
    <3> QED
      BY <3>1, <3>2
  <2>2. \A i \in Speakers : resp'[Fixed(i)].text = resp[Fixed(i)].text
    BY ResponseIds
  <2>3. \A i \in Speakers : resp'[Fixed(i)].text <= 1
    BY <2>2 DEF SoundInv
  <2>4. \A i \in TurnIds : turnAt'[i] \in {"idle", "announcing"} => resp'[i] = Silent
    BY ResponseIds DEF SoundInv
  <2> QED
    BY <2>1, <2>3, <2>4 DEF SoundInv
<1>4. ASSUME NEW k \in Responses, Loose(k) PROVE Loose(k)'
  <2>1. resp[k].tail # "whole" => resp'[k].tail # "whole"
    BY <1>4
  <2> QED
    BY <1>4, <2>1 DEF Loose
<1>5. ActiveInv'
  <2>1. \A k \in Responses : Len(resp'[k].voiced) < resp'[k].text => Loose(k)'
    <3> SUFFICES ASSUME NEW k \in Responses, Len(resp'[k].voiced) < resp'[k].text
                 PROVE  Loose(k)'
      OBVIOUS
    <3>1. CASE k = r
      BY <1>4, <3>1
    <3>2. CASE k # r
      BY <1>4, <3>2 DEF ActiveInv
    <3> QED
      BY <3>1, <3>2
  <2>2. \A i \in TurnIds : turnAt'[i] = "thinking" => Loose(i)'
    BY <1>4, ResponseIds DEF ActiveInv
  <2>3. \A i \in TurnIds :
          speaking' = i => /\ turnAt'[i] \in {"thinking", "settling", "closing"}
                           /\ resp'[i].tail # "aborted"
    <3> SUFFICES ASSUME NEW i \in TurnIds, speaking = i
                 PROVE  turnAt[i] \in {"thinking", "settling", "closing"} /\ resp'[i].tail # "aborted"
      OBVIOUS
    <3>1. /\ turnAt[i] \in {"thinking", "settling", "closing"} /\ resp[i].tail # "aborted"
          /\ i \in Responses
      BY ResponseIds DEF ActiveInv
    <3>2. CASE i = r
      BY <3>1, <3>2
    <3>3. CASE i # r
      BY <3>1, <3>3
    <3> QED
      BY <3>1, <3>2, <3>3
  <2>4. call' # "open" /\ speaking' # NoResponse => speaking' \in late'
    BY DEF ActiveInv
  <2> QED
    BY <2>1, <2>2, <2>3, <2>4 DEF ActiveInv
<1>6. ClosedInv'
  <2>1. \A k \in Responses : k # r => (TailSettled(k) => TailSettled(k)')
    BY DEF TailSettled
  <2>2. \A i \in TurnIds : turnAt'[i] = "closing" => TailSettled(i)'
    BY <2>1, ResponseIds DEF ClosedInv
  <2>3. \A i \in Speakers : fixed'[i] = "closing" => TailSettled(Fixed(i))'
    BY <2>1, ResponseIds DEF ClosedInv
  <2> QED
    BY <2>2, <2>3 DEF ClosedInv
<1> QED
  BY <1>1, <1>2, <1>3, <1>5, <1>6

LEMMA SaysKeeps ==
  ASSUME VoiceInv, NEW i \in TurnIds, Says(i)
  PROVE  VoiceInv'
<1>0. i \in Responses /\ Answer(i) = i
  BY ResponseIds
<1>1. /\ turnAt[i] = "thinking" /\ resp' = [resp EXCEPT ![i].text = @ + 1]
      /\ UNCHANGED <<callVars, heardVars, handled, lastUser, speaking, turnAt, said, fixed,
                     voiceHistory>>
  BY <1>0 DEF Says
<1>2. resp \in [Responses -> Voicings] /\ Loose(i) /\ Len(resp[i].voiced) <= resp[i].text
  BY <1>0, <1>1 DEF VoiceInv, SoundTypes, ActiveInv, SoundInv
<1>3. resp[i].text \in Nat /\ Len(resp[i].voiced) \in Nat /\ resp[i].text + 1 \in Nat
  BY <1>0, <1>2 DEF Voicings
<1>4. /\ resp' \in [Responses -> Voicings]
      /\ \A k \in Responses : k # i => resp'[k] = resp[k]
      /\ resp'[i].text = resp[i].text + 1 /\ resp'[i].voiced = resp[i].voiced
      /\ resp'[i].tail = resp[i].tail
  BY <1>0, <1>1, <1>2, <1>3 DEF Voicings
<1>5. \A n \in 1..Len(resp'[i].voiced) : resp'[i].voiced[n] = n
  BY <1>0, <1>4 DEF VoiceInv, SoundInv
<1>6. Len(resp'[i].voiced) <= resp'[i].text
  BY <1>2, <1>3, <1>4
<1> QED
  BY <1>0, <1>1, <1>2, <1>4, <1>5, <1>6, SoundChanges

LEMMA PlaysKeeps ==
  ASSUME VoiceInv, NEW r \in Responses, Plays(r)
  PROVE  VoiceInv'
<1>1. PICK k \in Playable(r) : resp' = [resp EXCEPT ![r].voiced = Append(@, k)]
  BY DEF Plays
<1>2. UNCHANGED <<callVars, heardVars, handled, lastUser, speaking, turnAt, said, fixed,
                  voiceHistory>>
  BY DEF Plays
<1>3. resp[r] \in Voicings /\ resp \in [Responses -> Voicings]
  BY DEF VoiceInv, SoundTypes
<1>4. /\ k \in 1..resp[r].text /\ resp[r].tail = "whole" /\ k = Len(resp[r].voiced) + 1
      /\ resp[r].text \in Nat /\ resp[r].voiced \in Seq(Nat)
  BY <1>3 DEF Playable, Voicings
<1>5. PICK v : v = Append(resp[r].voiced, k)
  OBVIOUS
<1>6. /\ v \in Seq(Nat) /\ Len(v) = k
      /\ \A n \in 1..Len(resp[r].voiced) : v[n] = resp[r].voiced[n]
      /\ v[k] = k
  BY <1>4, <1>5
<1>7. \A n \in 1..Len(v) : v[n] = n
  <2>1. \A n \in 1..Len(resp[r].voiced) : resp[r].voiced[n] = n
    BY DEF VoiceInv, SoundInv
  <2> SUFFICES ASSUME NEW n \in 1..k PROVE v[n] = n
    BY <1>6
  <2>2. CASE n = k
    BY <1>6, <2>2
  <2>3. CASE n # k
    <3>1. n \in 1..Len(resp[r].voiced)
      BY <1>4, <2>3
    <3> QED
      BY <1>6, <2>1, <3>1
  <2> QED
    BY <2>2, <2>3
<1>8. /\ resp' \in [Responses -> Voicings]
      /\ \A j \in Responses : j # r => resp'[j] = resp[j]
      /\ resp'[r].text = resp[r].text /\ resp'[r].voiced = v /\ resp'[r].tail = resp[r].tail
  BY <1>1, <1>3, <1>5, <1>6 DEF Voicings
<1>9. Len(resp[r].voiced) < resp[r].text /\ Loose(r)
  BY <1>4 DEF VoiceInv, ActiveInv
<1>10. r \in TurnIds => turnAt[r] \notin {"idle", "announcing"}
  BY <1>4 DEF VoiceInv, SoundInv, Silent
<1>11. ~TailSettled(r)
  BY <1>4 DEF TailSettled
<1>12. Len(resp'[r].voiced) <= resp'[r].text
  BY <1>4, <1>6, <1>8
<1> QED
  BY <1>2, <1>7, <1>8, <1>9, <1>10, <1>11, <1>12, SoundChanges

LEMMA SynthesisFailsKeeps ==
  ASSUME VoiceInv, NEW r \in Responses, SynthesisFails(r)
  PROVE  VoiceInv'
<1>1. /\ resp[r].tail = "whole" /\ Len(resp[r].voiced) < resp[r].text
      /\ resp' = [resp EXCEPT ![r].tail = "broken"]
      /\ UNCHANGED <<callVars, heardVars, handled, lastUser, speaking, turnAt, said, fixed,
                     voiceHistory>>
  BY DEF SynthesisFails
<1>2. resp \in [Responses -> Voicings]
  BY DEF VoiceInv, SoundTypes
<1>3. /\ resp' \in [Responses -> Voicings]
      /\ \A j \in Responses : j # r => resp'[j] = resp[j]
      /\ resp'[r].text = resp[r].text /\ resp'[r].voiced = resp[r].voiced
      /\ resp'[r].tail = "broken"
  BY <1>1, <1>2 DEF Voicings
<1>4. /\ Len(resp'[r].voiced) <= resp'[r].text
      /\ \A n \in 1..Len(resp'[r].voiced) : resp'[r].voiced[n] = n
  BY <1>3 DEF VoiceInv, SoundInv
<1>5. r \in TurnIds => turnAt[r] \notin {"idle", "announcing"}
  BY <1>1 DEF VoiceInv, SoundInv, Silent
<1>6. Loose(r) /\ TailSettled(r)'
  BY <1>1, <1>3 DEF VoiceInv, ActiveInv, TailSettled
<1> QED
  BY <1>1, <1>3, <1>4, <1>5, <1>6, SoundChanges

LEMMA ThinksKeeps ==
  ASSUME VoiceInv, NEW i \in TurnIds, Thinks(i)
  PROVE  VoiceInv'
<1>1. CASE ModelAnswers(i)
  <2>1. turnAt[i] = "thinking" /\ fixed[i] = "none" /\ Answer(i) = i
    BY <1>1, NothingFixed DEF ModelAnswers
  <2>2. CASE speaking = i
    BY <1>1, <2>1, <2>2, TurnAdvances DEF ModelAnswers
  <2>3. CASE speaking # i
    BY <1>1, <2>1, <2>3, FinallyKeeps DEF ModelAnswers, voiceHistory
  <2> QED
    BY <2>2, <2>3
<1>2. CASE ModelAborted(i)
  <2>1. turnAt[i] = "thinking" /\ fixed[i] = "none" /\ TailSettled(i)
    BY <1>2, NothingFixed DEF ModelAborted, TailSettled
  <2> QED
    BY <1>2, <2>1, FinallyKeeps DEF ModelAborted, voiceHistory
<1>3. CASE Spoken(i)
  <2>1. turnAt[i] = "settling" /\ Answer(i) = i /\ TailSettled(i)
    BY <1>3, NothingFixed DEF Spoken, CanFinalize
  <2> QED
    BY <1>3, <2>1, TurnAdvances DEF Spoken
<1>4. CASE Interrupted(i)
  <2>1. turnAt[i] = "settling" /\ fixed[i] = "none" /\ speaking # i
    BY <1>4, NothingFixed DEF Interrupted
  <2> QED
    BY <1>4, <2>1, FinallyKeeps DEF Interrupted, voiceHistory
<1>5. CASE ReplyCloses(i)
  <2>1. turnAt[i] = "closing" /\ fixed[i] = "none" /\ TailSettled(i)
    BY <1>5, NothingFixed DEF ReplyCloses, VoiceInv, ClosedInv
  <2> QED
    BY <1>5, <2>1, FinallyKeeps DEF ReplyCloses, voiceHistory
<1> QED
  BY <1>1, <1>2, <1>3, <1>4, <1>5, AnnouncedKeeps DEF Thinks

LEMMA ModelFailsKeeps ==
  ASSUME VoiceInv, NEW i \in TurnIds, ModelFails(i)
  PROVE  VoiceInv'
<1>0. fixed[i] = "none" /\ Answer(i) = i /\ i \in Speakers
  BY NothingFixed DEF ModelFails
<1>1. /\ turnAt[i] \in {"thinking", "settling", "closing"}
      /\ UNCHANGED <<callVars, heardVars, lastUser, said, leaked>>
  BY DEF ModelFails
<1>2. CASE call = "ended"
  <2>1. /\ Finally(i) /\ orphans' = orphans \cup ({speaking} \cap {i})
        /\ UNCHANGED <<resp, fixed, late>>
    BY <1>0, <1>2 DEF ModelFails
  <2> QED
    BY <1>0, <1>1, <2>1, FinallyKeeps
<1>3. CASE call # "ended"
  <2>1. StartFixed(i, "sorry") /\ handled' = handled /\ UNCHANGED call
    BY <1>1, <1>3 DEF ModelFails, callVars
  <2>2. HeardTypes'
    BY <1>1, HeardSame DEF VoiceInv
  <2>3. TurnTypes'
    <3>1. handled' \in BOOLEAN /\ leaked' \in BOOLEAN
      BY <1>1, <2>1 DEF VoiceInv, TurnTypes
    <3> QED
      BY <1>1, <2>1, <3>1, FixedStartsTyped DEF VoiceInv
  <2>4. FlagInv'
    <3>1. \A j \in TurnIds : Frees(j) => Frees(j)'
      BY <1>1, <2>1, ResponseIds DEF Frees, StartFixed, VoiceInv, TurnTypes
    <3> QED
      BY <1>1, <2>1, <3>1 DEF VoiceInv, FlagInv
  <2>5. SoundTypes' /\ SoundInv' /\ ActiveInv' /\ ClosedInv'
    BY <1>1, <2>1, FixedStarts DEF VoiceInv
  <2> QED
    BY <2>2, <2>3, <2>4, <2>5 DEF VoiceInv
<1> QED
  BY <1>2, <1>3

LEMMA FixedStepsKeep ==
  ASSUME VoiceInv, NEW i \in Speakers, FixedSteps(i)
  PROVE  VoiceInv'
<1> USE DEF VoiceInv
<1>1. CASE FixedSpoken(i)
  <2>1. /\ fixed[i] = "playing" /\ TailSettled(Fixed(i)) /\ fixed' = [fixed EXCEPT ![i] = "closing"]
        /\ UNCHANGED <<callVars, heardVars, handled, lastUser, speaking, resp, turnAt, said,
                       voiceHistory>>
    BY <1>1 DEF FixedSpoken
  <2>2. HeardTypes'
    BY <2>1, HeardSame
  <2>3. TurnTypes'
    BY <2>1 DEF TurnTypes, voiceHistory
  <2>4. FlagInv' /\ SoundTypes' /\ SoundInv'
    BY <2>1 DEF FlagInv, Frees, SoundTypes, SoundInv, voiceHistory
  <2>5. ActiveInv'
    BY <2>1 DEF ActiveInv, Loose, voiceHistory, callVars
  <2>6. ClosedInv'
    BY <2>1 DEF ClosedInv, TailSettled, TurnTypes
  <2> QED
    BY <2>2, <2>3, <2>4, <2>5, <2>6
<1>2. CASE FixedCloses(i)
  <2>1. /\ fixed[i] = "closing" /\ fixed' = [fixed EXCEPT ![i] = "none"]
        /\ orphans' = orphans \cup ({speaking} \ {NoResponse, Fixed(i)})
        /\ speaking' = NoResponse /\ handled' = (handled /\ turnAt[i] # "sorry")
        /\ turnAt' = [turnAt EXCEPT ![i] = "done"]
        /\ UNCHANGED <<callVars, heardVars, lastUser, resp, said, leaked, late>>
    BY <1>2 DEF FixedCloses
  <2>2. HeardTypes'
    BY <2>1, HeardSame
  <2>3. TurnTypes'
    <3>1. fixed'[i] = "none" /\ handled' \in BOOLEAN /\ leaked' \in BOOLEAN
      BY <2>1 DEF TurnTypes
    <3> QED
      BY <2>1, <3>1, TurnEndsTyped
  <2>4. FlagInv'
    <3>1. turnAt[i] \in {"sorry", "plain"}
      BY <2>1 DEF TurnTypes
    <3>2. turnAt[i] = "plain" => \A j \in TurnIds : Frees(j) => Frees(j)'
      BY <2>1, ResponseIds DEF Frees, TurnTypes
    <3> QED
      BY <2>1, <3>1, <3>2 DEF FlagInv
  <2>5. speaking # NoResponse => \/ speaking \in orphans'
                                 \/ TailSettled(speaking) /\ speaking \in {i, Fixed(i)}
    BY <2>1 DEF ClosedInv
  <2>6. SoundTypes' /\ SoundInv' /\ ActiveInv' /\ ClosedInv'
    BY <2>1, <2>5, TurnEndsSoundly DEF callVars
  <2> QED
    BY <2>2, <2>3, <2>4, <2>6
<1>3. CASE FixedBreaks(i)
  <2>1. /\ fixed[i] = "playing" /\ fixed' = [fixed EXCEPT ![i] = "none"]
        /\ UNCHANGED <<callVars, heardVars, lastUser, resp, said, voiceHistory>>
    BY <1>3 DEF FixedBreaks
  <2>2. turnAt[i] \in {"sorry", "plain"} /\ (speaking # NoResponse => speaking # i)
    <3>1. turnAt[i] \in {"sorry", "plain"}
      BY <2>1 DEF TurnTypes
    <3>2. i \in TurnIds => speaking # i
      BY <3>1 DEF ActiveInv
    <3>3. i \in TurnIds \/ i = NoResponse
      BY ResponseIds DEF Answer
    <3> QED
      BY <3>1, <3>2, <3>3
  <2>3. /\ turnAt' = [turnAt EXCEPT ![i] = "done"] /\ speaking' = speaking
        /\ handled' = (handled /\ turnAt[i] # "sorry")
    <3>1. CASE turnAt[i] = "sorry"
      BY <1>3, <2>2, <3>1 DEF FixedBreaks, Finally, Answer
    <3>2. CASE turnAt[i] # "sorry"
      BY <1>3, <3>2 DEF FixedBreaks, TurnTypes
    <3> QED
      BY <3>1, <3>2
  <2>4. HeardTypes'
    BY <2>1, HeardSame
  <2>5. TurnTypes'
    <3>1. fixed'[i] = "none" /\ handled' \in BOOLEAN /\ leaked' \in BOOLEAN
      BY <2>1, <2>3 DEF TurnTypes, voiceHistory
    <3> QED
      BY <2>1, <2>3, <3>1, TurnEndsTyped
  <2>6. FlagInv'
    <3>1. turnAt[i] = "plain" => \A j \in TurnIds : Frees(j) => Frees(j)'
      BY <2>1, <2>3, ResponseIds DEF Frees, TurnTypes
    <3> QED
      BY <2>1, <2>2, <2>3, <3>1 DEF FlagInv, voiceHistory
  <2>7. SoundTypes' /\ SoundInv' /\ ActiveInv' /\ ClosedInv'
    BY <2>1, <2>2, <2>3, TurnEndsSoundly DEF callVars, voiceHistory
  <2> QED
    BY <2>4, <2>5, <2>6, <2>7
<1> QED
  BY <1>1, <1>2, <1>3 DEF FixedSteps

LEMMA SessionKeeps ==
  ASSUME VoiceInv, StreamOpens \/ StreamFails \/ EndSession \/ SessionDeleted
  PROVE  VoiceInv'
<1> USE DEF VoiceInv
<1>1. HeardTypes'
  <2>1. CASE StreamOpens
    BY <2>1 DEF StreamOpens, heardVars, HeardTypes
  <2>2. CASE StreamFails
    BY <2>2 DEF StreamFails, HeardTypes
  <2>3. CASE EndSession
    <3>1. call' \in {"ending", "ended"} /\ stream' \in {"opening", "open", "failed"}
      BY <2>3 DEF EndSession, Delete, HeardTypes
    <3>2. spoken' = spoken /\ ended' = ended /\ partial' \in {partial, 0}
      BY <2>3 DEF EndSession, Delete
    <3>3. fallbacks' \subseteq fallbacks /\ finals' \subseteq finals
      BY <2>3 DEF EndSession, Delete
    <3>4. 0 \in 0..spoken
      BY VoiceTurnsAssumption DEF HeardTypes
    <3> QED
      BY <3>1, <3>2, <3>3, <3>4 DEF HeardTypes
  <2>4. CASE SessionDeleted
    BY <2>4 DEF SessionDeleted, Delete, HeardTypes
  <2> QED
    BY <2>1, <2>2, <2>3, <2>4
<1>2. CASE StreamOpens \/ StreamFails \/ SessionDeleted
  <2>1. UNCHANGED <<turnVars, voiceHistory>> /\ (call' # "open" => call # "open")
    BY <1>2 DEF StreamOpens, StreamFails, SessionDeleted
  <2> QED
    BY <1>1, <2>1, TurnsSame
<1>3. CASE EndSession
  <2>1. /\ resp' = Aborted /\ speaking' = NoResponse
        /\ UNCHANGED <<handled, lastUser, turnAt, said, fixed, orphans, leaked, late>>
    BY <1>3 DEF EndSession, voiceHistory
  <2>2. TurnTypes' /\ FlagInv'
    BY <2>1 DEF TurnTypes, FlagInv, Frees
  <2>3. SoundTypes' /\ SoundInv' /\ ActiveInv' /\ ClosedInv'
    BY <2>1, SilencedKeeps
  <2> QED
    BY <1>1, <2>2, <2>3
<1> QED
  BY <1>2, <1>3

LEMMA InitVoiceInv == VoiceInit => VoiceInv
<1> SUFFICES ASSUME VoiceInit PROVE VoiceInv
  OBVIOUS
<1>1. PICK greeted \in BOOLEAN :
        /\ speaking = IF greeted THEN Fixed(0) ELSE NoResponse
        /\ turnAt = [i \in Speakers |-> IF i > 0 THEN "idle" ELSE IF greeted THEN "plain" ELSE "done"]
        /\ fixed = [i \in Speakers |-> IF i = 0 /\ greeted THEN "playing" ELSE "none"]
  BY VoiceTurnsAssumption DEF VoiceInit
<1>2. /\ call = "open" /\ handled = FALSE /\ leaked = FALSE
      /\ resp = [r \in Responses |-> IF r = speaking THEN [Silent EXCEPT !.text = 1] ELSE Silent]
      /\ said = [i \in Speakers |-> NoText]
  BY DEF VoiceInit
<1>3. HeardTypes
  BY VoiceTurnsAssumption DEF VoiceInit, HeardTypes
<1>4. TurnTypes
  <2>1. NoText \in (0..Utterances) \X {"none", "stream", "gateway", "batch"}
    BY VoiceTurnsAssumption DEF NoText
  <2>2. /\ turnAt \in [Speakers -> TurnPlaces]
        /\ fixed \in [Speakers -> {"none", "playing", "closing"}]
    BY <1>1 DEF TurnPlaces
  <2>3. \A i \in Speakers : fixed[i] # "none" <=> turnAt[i] \in {"sorry", "plain"}
    BY <1>1 DEF Speakers
  <2> QED
    BY <1>2, <2>1, <2>2, <2>3 DEF TurnTypes
<1>5. FlagInv
  BY <1>2 DEF FlagInv
<1>6. <<>> \in Seq(Nat) /\ Len(<<>>) = 0
  OBVIOUS
<1>7. \A r \in Responses : /\ resp[r] \in Voicings /\ resp[r].voiced = <<>> /\ resp[r].tail = "whole"
                           /\ resp[r].text = IF r = speaking THEN 1 ELSE 0
                           /\ r # speaking => resp[r] = Silent
  <2>1. /\ [Silent EXCEPT !.text = 1] = [text |-> 1, voiced |-> <<>>, tail |-> "whole"]
        /\ Silent = [text |-> 0, voiced |-> <<>>, tail |-> "whole"]
    BY DEF Silent
  <2>2. /\ [text |-> 1, voiced |-> <<>>, tail |-> "whole"] \in Voicings
        /\ [text |-> 0, voiced |-> <<>>, tail |-> "whole"] \in Voicings
    BY <1>6 DEF Voicings
  <2> SUFFICES ASSUME NEW r \in Responses
               PROVE  /\ resp[r] \in Voicings /\ resp[r].voiced = <<>> /\ resp[r].tail = "whole"
                      /\ resp[r].text = IF r = speaking THEN 1 ELSE 0
                      /\ r # speaking => resp[r] = Silent
    OBVIOUS
  <2>3. CASE r = speaking
    <3>1. resp[r] = [text |-> 1, voiced |-> <<>>, tail |-> "whole"]
      BY <1>2, <2>1, <2>3
    <3> QED
      BY <2>2, <2>3, <3>1
  <2>4. CASE r # speaking
    <3>1. resp[r] = [text |-> 0, voiced |-> <<>>, tail |-> "whole"] /\ resp[r] = Silent
      BY <1>2, <2>1, <2>4
    <3> QED
      BY <2>2, <2>4, <3>1
  <2> QED
    BY <2>3, <2>4
<1>8. speaking \in Responses \cup {NoResponse} /\ \A i \in TurnIds : speaking # i
  <2>1. 0 \in Speakers
    BY VoiceTurnsAssumption DEF Speakers
  <2> QED
    BY <1>1, <2>1, ResponseIds
<1>9. SoundTypes
  BY <1>2, <1>7, <1>8 DEF SoundTypes
<1>10. SoundInv
  <2>1. \A r \in Responses : /\ Len(resp[r].voiced) <= resp[r].text
                             /\ \A n \in 1..Len(resp[r].voiced) : resp[r].voiced[n] = n
    BY <1>6, <1>7
  <2> QED
    BY <1>7, <1>8, <2>1, ResponseIds DEF SoundInv
<1>11. ActiveInv
  <2>1. \A r \in Responses : Len(resp[r].voiced) < resp[r].text => Loose(r)
    BY <1>6, <1>7 DEF Loose
  <2>2. \A i \in TurnIds : turnAt[i] # "thinking"
    BY <1>1, ResponseIds
  <2> QED
    BY <1>2, <1>8, <2>1, <2>2 DEF ActiveInv
<1>12. ClosedInv
  BY <1>1, ResponseIds DEF ClosedInv
<1> QED
  BY <1>3, <1>4, <1>5, <1>9, <1>10, <1>11, <1>12 DEF VoiceInv

LEMMA NextVoiceInv == VoiceInv /\ [VoiceNext]_voiceVars => VoiceInv'
<1> SUFFICES ASSUME VoiceInv, [VoiceNext]_voiceVars PROVE VoiceInv'
  OBVIOUS
<1>1. CASE UNCHANGED voiceVars
  <2>1. HeardTypes'
    BY <1>1, HeardSame DEF VoiceInv, voiceVars
  <2> QED
    BY <1>1, <2>1, TurnsSame DEF VoiceInv, voiceVars, callVars
<1> QED
  BY <1>1, HearsKeeps, SaysKeeps, ThinksKeeps, ModelFailsKeeps, FixedStepsKeep, PlaysKeeps,
     SynthesisFailsKeeps, SessionKeeps DEF VoiceNext

LEMMA VoiceInvHears == VoiceInv => HearingCorrect
<1> SUFFICES ASSUME VoiceInv PROVE HearingCorrect
  OBVIOUS
<1> USE DEF VoiceInv
<1>1. VoiceTypeOK
  <2>1. \A r \in Responses : Len(resp[r].voiced) <= resp[r].text
    BY DEF SoundInv
  <2>2. \A i \in Speakers : turnAt[i] \in TurnPlaces
    BY DEF TurnTypes
  <2>3. \A i \in Speakers : fixed[i] # "none" <=> turnAt[i] \in {"sorry", "plain"}
    BY DEF TurnTypes
  <2> QED
    BY <2>1, <2>2, <2>3 DEF VoiceTypeOK, HeardTypes, SoundTypes, TurnPlaces
<1>2. DeafOnlyDuringTurn
  BY DEF DeafOnlyDuringTurn, FlagInv, Frees
<1> QED
  BY <1>1, <1>2 DEF HearingCorrect

\* Who adds to what is heard of a response.
LEMMA SoundsOfActive == VoiceInv /\ [VoiceNext]_voiceVars => OnlyActiveSpeaks
<1> SUFFICES ASSUME VoiceInv, [VoiceNext]_voiceVars, NEW r \in Responses,
                    resp'[r].voiced # resp[r].voiced
             PROVE  r \in orphans \/ (r = speaking /\ (call # "open" => r \in late))
  BY DEF OnlyActiveSpeaks
<1> USE DEF VoiceInv
<1>1. resp \in [Responses -> Voicings]
  BY DEF SoundTypes
<1>2. resp' # resp
  OBVIOUS
<1>3. \A k \in Responses : \A x : resp' # [resp EXCEPT ![k].tail = x]
  <2> SUFFICES ASSUME NEW k \in Responses, NEW x PROVE [resp EXCEPT ![k].tail = x][r].voiced = resp[r].voiced
    OBVIOUS
  <2>1. CASE k = r
    <3>1. [resp EXCEPT ![k].tail = x][r] = [resp[r] EXCEPT !.tail = x] /\ resp[r] \in Voicings
      BY <1>1, <2>1
    <3> QED
      BY <3>1 DEF Voicings
  <2>2. CASE k # r
    BY <1>1, <2>2
  <2> QED
    BY <2>1, <2>2
<1>4. resp' # Aborted
  BY <1>2, <1>3 DEF Aborted, SoundTypes
<1>5. \A k \in Responses : \A n : resp' # [resp EXCEPT ![k].text = n]
  BY <1>1, SMTT(30) DEF Voicings
<1>6. ASSUME NEW k \in Responses, Plays(k)
      PROVE  r \in orphans \/ (r = speaking /\ (call # "open" => r \in late))
  <2>1. PICK n \in Playable(k) : resp' = [resp EXCEPT ![k].voiced = Append(@, n)]
    BY <1>6 DEF Plays
  <2>2. k = r
    BY <1>1, <2>1
  <2>3. resp[r].tail = "whole" /\ Len(resp[r].voiced) < resp[r].text
    BY <1>1, <2>1, <2>2 DEF Playable, Voicings
  <2>4. Loose(r)
    BY <2>3 DEF ActiveInv
  <2>5. r \in orphans \/ r = speaking
    BY <2>3, <2>4 DEF Loose
  <2> QED
    BY <2>5, ResponseIds DEF ActiveInv
<1>7. \A i, x : i \in Speakers => ~StartFixed(i, x)
  BY <1>5, ResponseIds DEF StartFixed, Install
<1>8. ~Hears
  <2>1. ~Speaks /\ ~EndOfTurn({}) /\ ~EndOfTurn({"gateway"})
    BY <1>2 DEF Speaks, EndOfTurn, turnVars
  <2>2. \A src : ~PartialArrives(src)
    BY <1>2, <1>4 DEF PartialArrives
  <2>3. \A u, src, i : ~Process(i, u, src)
    BY <1>2, <1>4 DEF Process
  <2>4. \A u : /\ \A src : ~FinalArrives(u, src)
               /\ ~TimerFallsBack(u) /\ ~BatchAnswers(u)
    BY <1>2, <2>3 DEF FinalArrives, TimerFallsBack, BatchAnswers, turnVars
  <2>5. \A u : ~BatchFails(u)
    BY <1>7, ResponseIds DEF BatchFails
  <2> QED
    BY <2>1, <2>2, <2>4, <2>5 DEF Hears
<1>9. \A i \in TurnIds : ~Says(i)
  BY <1>5, ResponseIds DEF Says
<1>10. \A i \in TurnIds : ~Thinks(i) /\ ~ModelFails(i)
  <2> SUFFICES ASSUME NEW i \in TurnIds PROVE ~Thinks(i) /\ ~ModelFails(i)
    OBVIOUS
  <2>1. ~Announced(i)
    BY <1>2, <1>5, <1>7, ResponseIds DEF Announced, Install
  <2>2. ~ModelFails(i)
    BY <1>2, <1>7, ResponseIds DEF ModelFails
  <2> QED
    BY <1>2, <2>1, <2>2
    DEF Thinks, ModelAnswers, ModelAborted, Spoken, Interrupted, ReplyCloses
<1>11. \A i \in Speakers : ~FixedSteps(i)
  BY <1>2 DEF FixedSteps, FixedSpoken, FixedCloses, FixedBreaks
<1>12. \A k \in Responses : ~SynthesisFails(k)
  BY <1>3 DEF SynthesisFails
<1>13. ~StreamOpens /\ ~StreamFails /\ ~EndSession /\ ~SessionDeleted
  BY <1>2, <1>4 DEF StreamOpens, StreamFails, EndSession, SessionDeleted, turnVars
<1>14. voiceVars' # voiceVars
  BY <1>2 DEF voiceVars, turnVars
<1> QED
  BY <1>6, <1>8, <1>9, <1>10, <1>11, <1>12, <1>13, <1>14 DEF VoiceNext

\* An answer is recorded when its audio has settled and it is still the active one.
LEMMA RecordsSpoken == VoiceInv /\ [VoiceNext]_voiceVars => RecordedWasSpoken
<1> SUFFICES ASSUME VoiceInv, [VoiceNext]_voiceVars, NEW i \in TurnIds,
                    turnAt'[i] = "closing", turnAt[i] # "closing"
             PROVE  resp[i].tail = "broken" \/ Len(resp[i].voiced) = resp[i].text
  BY DEF RecordedWasSpoken
<1> USE DEF VoiceInv
<1>1. i \in Speakers /\ Answer(i) = i /\ i \in Responses
  BY ResponseIds
<1>2. turnAt \in [Speakers -> TurnPlaces]
  BY DEF TurnTypes
<1>3. \A j, x : turnAt' = [turnAt EXCEPT ![j] = x] => x = "closing" /\ j = i
  BY <1>1, <1>2
<1>4. turnAt' # turnAt /\ \A j : ~Finally(j)
  BY <1>3 DEF Finally
<1>5. Spoken(i)
  <2>1. ~Hears
    <3>1. ~Speaks /\ ~EndOfTurn({}) /\ ~EndOfTurn({"gateway"}) /\ \A src : ~PartialArrives(src)
      BY <1>4 DEF Speaks, EndOfTurn, PartialArrives, turnVars
    <3>2. \A u, src, j : ~Process(j, u, src)
      BY <1>3, <1>4 DEF Process
    <3>3. \A u : /\ \A src : ~FinalArrives(u, src)
                 /\ ~TimerFallsBack(u) /\ ~BatchAnswers(u)
      BY <1>4, <3>2 DEF FinalArrives, TimerFallsBack, BatchAnswers, turnVars
    <3>4. \A u : ~BatchFails(u)
      BY <1>3 DEF BatchFails, StartFixed
    <3> QED
      BY <3>1, <3>3, <3>4 DEF Hears
  <2>2. \A j \in TurnIds : ~Says(j) /\ ~ModelFails(j)
    BY <1>3, <1>4 DEF Says, ModelFails, StartFixed
  <2>3. \A j \in TurnIds : ~Announced(j) /\ ~ModelAnswers(j) /\ ~ModelAborted(j)
    BY <1>3, <1>4 DEF Announced, ModelAnswers, ModelAborted, StartFixed
  <2>4. \A j \in TurnIds : ~Interrupted(j) /\ ~ReplyCloses(j)
    BY <1>4 DEF Interrupted, ReplyCloses
  <2>5. \A j \in TurnIds : Spoken(j) => j = i
    BY <1>3 DEF Spoken
  <2>6. \A j \in Speakers : ~FixedSteps(j)
    BY <1>3, <1>4 DEF FixedSteps, FixedSpoken, FixedCloses, FixedBreaks
  <2>7. \A r \in Responses : ~Plays(r) /\ ~SynthesisFails(r)
    BY <1>4 DEF Plays, SynthesisFails
  <2>8. ~StreamOpens /\ ~StreamFails /\ ~EndSession /\ ~SessionDeleted
    BY <1>4 DEF StreamOpens, StreamFails, EndSession, SessionDeleted, turnVars
  <2>9. voiceVars' # voiceVars
    BY <1>4 DEF voiceVars, turnVars
  <2> QED
    BY <2>1, <2>2, <2>3, <2>4, <2>5, <2>6, <2>7, <2>8, <2>9 DEF VoiceNext, Thinks
<1>6. TailSettled(i) /\ speaking = i
  BY <1>1, <1>5 DEF Spoken, CanFinalize
<1>7. resp[i].tail # "aborted" /\ resp[i] \in Voicings
  BY <1>1, <1>6 DEF ActiveInv, SoundTypes
<1> QED
  BY <1>6, <1>7 DEF TailSettled, Voicings

LEMMA VoiceStepsSpeak ==
  VoiceInv /\ VoiceInv' /\ [VoiceNext]_voiceVars => SpokenInOrder' /\ OnlyActiveSpeaks /\ RecordedWasSpoken
<1>1. VoiceInv => SpokenInOrder
  BY DEF VoiceInv, SoundInv, SpokenInOrder
<1>2. VoiceInv' => SpokenInOrder'
  BY <1>1, PTL
<1> QED
  BY <1>2, SoundsOfActive, RecordsSpoken

\* HearingCorrect (voice-runner/live-runner.ts): a call that is deaf to finals has a turn
\* under way that frees it, unless a claimed final was dropped on the way.
THEOREM HearingIsCorrect == VoiceSpec => []HearingCorrect
<1> QED
  BY InitVoiceInv, NextVoiceInv, VoiceInvHears, PTL DEF VoiceSpec

\* SpeechCorrect (voice-runner/live-runner.ts): sentences are spoken in their order, only
\* the active response sounds or one that was displaced without being cancelled, and an
\* answer is recorded only when all of it was spoken or its audio failed.
THEOREM SpeechIsCorrect == VoiceSpec => SpeechCorrect
<1> QED
  BY InitVoiceInv, NextVoiceInv, VoiceStepsSpeak, PTL DEF VoiceSpec, SpeechCorrect

-----------------------------------------------------------------------------
(* A connection to the streaming recognizer *)

\* The frames up to b.
Frames(w, b) ==
  /\ w \in Seq(Nat) /\ Len(w) <= b
  /\ \A n \in 1..Len(w) : w[n] = b - Len(w) + n

\* Frames up to PastFrames have left the buffer.
PastFrames == received - Len(buffer)

StreamTypes ==
  /\ received \in Nat /\ voicedFrames \subseteq 1..received
  /\ hasVoice \in BOOLEAN /\ awaiting \in BOOLEAN
  /\ Frames(buffer, received)
  /\ loop \in {"receiving", "waiting", "generating", "left"}
  /\ partialAt \in {"none", "waiting", "generating"}

HeldInv ==
  /\ hasVoice <=> \E f \in voicedFrames : f > PastFrames
  /\ awaiting => ~hasVoice

\* infer_lock: who waits, waits for the other one.
LockInv ==
  /\ loop = "waiting" => partialAt = "generating"
  /\ partialAt = "waiting" => loop = "generating"
  /\ loop = "generating" => partialAt # "generating"

\* The final in flight is that of the buffer.
FinalInv ==
  loop \in {"waiting", "generating"} =>
    /\ buffer # <<>>
    /\ finalWindow = [from |-> PastFrames + 1, window |-> WindowSlice(buffer)]

SentRecords ==
  [kind : {"final", "failed", "partial"}, from : Nat, window : {w \in Seq(Nat) : w # <<>>}]
IsFinal(s, k) == s[k].kind \in {"final", "failed"}
IsPartial(s, k) == s[k].kind = "partial"

\* What was sent, when frames up to b have left the buffer.
SentOf(s, b, voiced) ==
  /\ s \in Seq(SentRecords)
  /\ \A f \in voiced : f <= b =>
       \E k \in 1..Len(s) :
         /\ IsFinal(s, k)
         /\ \/ f \in ToSet(s[k].window)
            \/ Len(s[k].window) = WindowFrames /\ s[k].from <= f /\ f < Head(s[k].window)
  /\ \A k \in 1..Len(s) : IsFinal(s, k) => Last(s[k].window) <= b
  /\ \A k, n \in 1..Len(s) :
       IsFinal(s, k) /\ IsFinal(s, n) /\ k < n => Last(s[k].window) < s[n].from
  /\ \A k, n, m \in 1..Len(s) :
       IsFinal(s, k) /\ IsFinal(s, n) /\ IsPartial(s, m) /\ k < n /\ n <= m =>
         Last(s[k].window) < Head(s[m].window)
  /\ \A k, m, n \in 1..Len(s) :
       IsFinal(s, k) /\ IsPartial(s, m) /\ IsPartial(s, n) /\ k <= m /\ m < n =>
         Last(s[n].window) > Last(s[k].window)

\* A window w may still be sent: it is later than every final but the last one, and
\* later than every final that a partial followed.
MayFollow(s, w) ==
  /\ w \in Seq(Nat) /\ w # <<>>
  /\ \A k, n \in 1..Len(s) : IsFinal(s, k) /\ IsFinal(s, n) /\ k < n => Last(s[k].window) < Head(w)
  /\ \A k, m \in 1..Len(s) :
       IsFinal(s, k) /\ IsPartial(s, m) /\ k <= m => Last(s[k].window) < Last(w)

PartialInv ==
  /\ partialAt # "none" => MayFollow(sent, partialWindow)
  /\ partialAt = "waiting" =>
       \A k \in 1..Len(sent) : IsFinal(sent, k) => Last(sent[k].window) < Head(partialWindow)

StreamInv ==
  /\ StreamTypes /\ HeldInv /\ LockInv /\ FinalInv
  /\ SentOf(sent, PastFrames, voicedFrames) /\ PartialInv

LEMMA FramesFacts ==
  ASSUME NEW b \in Nat, NEW w, Frames(w, b), w # <<>>
  PROVE  /\ Len(w) \in 1..b
         /\ Head(w) = b - Len(w) + 1 /\ Last(w) = b
         /\ \A f : f \in ToSet(w) <=> f \in (b - Len(w) + 1)..b
<1>1. w \in Seq(Nat) /\ Len(w) \in Nat /\ Len(w) # 0 /\ Len(w) <= b
  BY DEF Frames
<1>2. 1 \in 1..Len(w) /\ Len(w) \in 1..Len(w)
  BY <1>1
<1>3. w[1] = b - Len(w) + 1 /\ w[Len(w)] = b
  BY <1>1, <1>2 DEF Frames
<1>4. ASSUME NEW f, f \in ToSet(w) PROVE f \in (b - Len(w) + 1)..b
  <2>1. PICK n \in 1..Len(w) : f = w[n]
    BY <1>1, <1>4 DEF ToSet
  <2>2. f = b - Len(w) + n
    BY <2>1 DEF Frames
  <2> QED
    BY <1>1, <2>1, <2>2
<1>5. ASSUME NEW f \in (b - Len(w) + 1)..b PROVE f \in ToSet(w)
  <2>1. f - (b - Len(w)) \in 1..Len(w) /\ f = b - Len(w) + (f - (b - Len(w)))
    BY <1>1, <1>5
  <2>2. w[f - (b - Len(w))] = f
    BY <1>1, <2>1 DEF Frames
  <2> QED
    BY <1>1, <2>1, <2>2 DEF ToSet
<1> QED
  BY <1>1, <1>3, <1>4, <1>5 DEF Last

LEMMA SliceFacts ==
  ASSUME NEW b \in Nat, NEW w, Frames(w, b), w # <<>>
  PROVE  /\ Frames(WindowSlice(w), b) /\ WindowSlice(w) # <<>>
         /\ Len(WindowSlice(w)) = Len(w) \/ (Len(WindowSlice(w)) = WindowFrames /\ WindowFrames < Len(w))
<1>1. PICK l \in Nat : l = Len(w) /\ l # 0 /\ l <= b /\ w \in Seq(Nat)
  BY DEF Frames
<1>2. PICK first \in Nat : /\ first = IF l < WindowFrames THEN 1 ELSE l - WindowFrames + 1
                           /\ first \in 1..l
                           /\ first = 1 \/ (l - first + 1 = WindowFrames /\ WindowFrames < l)
  <2>1. WindowFrames \in Nat /\ WindowFrames # 0
    BY SpeechStreamAssumption
  <2>2. CASE l <= WindowFrames
    <3>1. 1 = IF l < WindowFrames THEN 1 ELSE l - WindowFrames + 1
      BY <2>1, <2>2
    <3> QED
      BY <1>1, <3>1
  <2>3. CASE ~(l <= WindowFrames)
    <3>1. PICK first \in Nat : first = l - WindowFrames + 1
      BY <2>1, <2>3
    <3>2. first \in 1..l /\ l - first + 1 = WindowFrames /\ WindowFrames < l /\ ~(l < WindowFrames)
      BY <2>1, <2>3, <3>1
    <3> QED
      BY <3>1, <3>2
  <2> QED
    BY <2>2, <2>3
<1>3. \A n \in Nat : b - l + (first - 1 + n) = b - (l - first + 1) + n
  OBVIOUS
<1>4. WindowSlice(w) = SubSeq(w, first, l)
  BY <1>1, <1>2 DEF WindowSlice
<1>5. PICK v : v = SubSeq(w, first, l)
  OBVIOUS
<1>6. /\ v \in Seq(Nat) /\ Len(v) = l - first + 1
      /\ \A n \in 1..Len(v) : v[n] = w[first - 1 + n]
  BY <1>1, <1>2, <1>5, SMTT(30)
<1>7. \A n \in 1..Len(v) : v[n] = b - Len(v) + n
  <2> SUFFICES ASSUME NEW n \in 1..Len(v) PROVE v[n] = b - Len(v) + n
    OBVIOUS
  <2>1. first - 1 + n \in 1..l /\ v[n] = w[first - 1 + n]
    BY <1>2, <1>6
  <2>2. w[first - 1 + n] = b - l + (first - 1 + n)
    BY <1>1, <2>1 DEF Frames
  <2>3. n \in Nat /\ Len(v) = l - first + 1
    BY <1>2, <1>6
  <2>4. b - l + (first - 1 + n) = b - (l - first + 1) + n
    BY <2>3, <1>3
  <2> QED
    BY <2>1, <2>2, <2>3, <2>4
<1>8. Frames(v, b) /\ v # <<>>
  BY <1>1, <1>2, <1>6, <1>7 DEF Frames
<1>9. Len(v) = Len(w) \/ (Len(v) = WindowFrames /\ WindowFrames < Len(w))
  BY <1>1, <1>2, <1>6
<1> QED
  BY <1>4, <1>5, <1>8, <1>9

\* What is kept of a sequence of records when one is sent.
LEMMA SentAppend ==
  ASSUME NEW s \in Seq(SentRecords), NEW r \in SentRecords
  PROVE  /\ Append(s, r) \in Seq(SentRecords) /\ Len(Append(s, r)) = Len(s) + 1
         /\ \A k \in 1..Len(s) : Append(s, r)[k] = s[k]
         /\ Append(s, r)[Len(s) + 1] = r
         /\ Len(s) \in Nat
         /\ \A k \in 1..(Len(s) + 1) : k \in 1..Len(s) \/ k = Len(s) + 1
  OBVIOUS

LEMMA FinalSent ==
  ASSUME NEW s, NEW b \in Nat, NEW V, SentOf(s, b, V), NEW r \in Nat, NEW w, Frames(w, r), w # <<>>,
         b = r - Len(w), V \subseteq 1..r, NEW e, NEW kind \in {"final", "failed"},
         e = [kind |-> kind, from |-> b + 1, window |-> WindowSlice(w)]
  PROVE  e \in SentRecords /\ SentOf(Append(s, e), r, V)
<1>0. s \in Seq(SentRecords)
  BY DEF SentOf
<1>1. PICK v : v = WindowSlice(w)
  OBVIOUS
<1>2. /\ Frames(v, r) /\ v # <<>> /\ v \in Seq(Nat)
      /\ Len(v) = Len(w) \/ (Len(v) = WindowFrames /\ WindowFrames < Len(w))
  BY <1>1, SliceFacts DEF Frames
<1>3. /\ Head(v) = r - Len(v) + 1 /\ Last(v) = r /\ Len(v) \in 1..r /\ Len(w) \in 1..r
      /\ \A f : f \in ToSet(v) <=> f \in (r - Len(v) + 1)..r
  BY <1>2, FramesFacts
<1>4. e \in SentRecords /\ e.kind = kind /\ e.from = b + 1 /\ e.window = v
  BY <1>1, <1>2 DEF SentRecords
<1>5. PICK t : t = Append(s, e)
  OBVIOUS
<1>6. PICK l \in Nat : l = Len(s)
  BY <1>0
<1>7. /\ t \in Seq(SentRecords) /\ Len(t) = l + 1
      /\ \A k \in 1..l : t[k] = s[k]
      /\ t[l + 1] = e
      /\ \A k \in 1..(l + 1) : k \in 1..l \/ k = l + 1
  BY <1>0, <1>4, <1>5, <1>6, SentAppend
<1>8. IsFinal(t, l + 1) /\ ~IsPartial(t, l + 1)
  BY <1>4, <1>7 DEF IsFinal, IsPartial
<1>9. \A k \in 1..l : (IsFinal(t, k) <=> IsFinal(s, k)) /\ (IsPartial(t, k) <=> IsPartial(s, k))
  BY <1>7 DEF IsFinal, IsPartial
<1>10. \A k \in 1..l : IsFinal(t, k) => Last(t[k].window) <= b
  BY <1>6, <1>7, <1>9 DEF SentOf
<1>11. \A k \in 1..l : Last(t[k].window) \in Nat
  <2> SUFFICES ASSUME NEW k \in 1..l PROVE Last(t[k].window) \in Nat
    OBVIOUS
  <2>0. t[k] \in SentRecords
    BY <1>7
  <2>1. t[k].window \in Seq(Nat) /\ t[k].window # <<>>
    BY <2>0 DEF SentRecords
  <2> QED
    BY <2>1, SMTT(30) DEF Last
<1>12. \A f \in V : f <= r =>
        \E k \in 1..Len(t) :
          /\ IsFinal(t, k)
          /\ \/ f \in ToSet(t[k].window)
             \/ Len(t[k].window) = WindowFrames /\ t[k].from <= f /\ f < Head(t[k].window)
  <2> SUFFICES ASSUME NEW f \in V
               PROVE  \E k \in 1..Len(t) :
                        /\ IsFinal(t, k)
                        /\ \/ f \in ToSet(t[k].window)
                           \/ /\ Len(t[k].window) = WindowFrames
                              /\ t[k].from <= f /\ f < Head(t[k].window)
    OBVIOUS
  <2>0. f \in 1..r
    OBVIOUS
  <2>1. CASE f <= b
    <3>1. PICK k \in 1..l :
            /\ IsFinal(s, k)
            /\ \/ f \in ToSet(s[k].window)
               \/ Len(s[k].window) = WindowFrames /\ s[k].from <= f /\ f < Head(s[k].window)
      BY <1>6, <2>1 DEF SentOf
    <3> QED
      BY <1>7, <1>9, <3>1
  <2>2. CASE f > b
    <3>1. f \in ToSet(v) \/ (Len(v) = WindowFrames /\ b + 1 <= f /\ f < Head(v))
      BY <1>2, <1>3, <2>0, <2>2
    <3>2. l + 1 \in 1..Len(t)
      BY <1>7
    <3> QED
      BY <1>4, <1>7, <1>8, <3>1, <3>2
  <2> QED
    BY <2>0, <2>1, <2>2
<1>13. \A k \in 1..Len(t) : IsFinal(t, k) => Last(t[k].window) <= r
  <2> SUFFICES ASSUME NEW k \in 1..Len(t), IsFinal(t, k) PROVE Last(t[k].window) <= r
    OBVIOUS
  <2>1. CASE k \in 1..l
    BY <1>3, <1>10, <1>11, <2>1
  <2>2. CASE k = l + 1
    BY <1>3, <1>4, <1>7, <2>2
  <2> QED
    BY <1>7, <2>1, <2>2
<1>14. \A k, n \in 1..Len(t) :
        IsFinal(t, k) /\ IsFinal(t, n) /\ k < n => Last(t[k].window) < t[n].from
  <2> SUFFICES ASSUME NEW k \in 1..Len(t), NEW n \in 1..Len(t), IsFinal(t, k), IsFinal(t, n), k < n
               PROVE  Last(t[k].window) < t[n].from
    OBVIOUS
  <2>0. k \in 1..l
    BY <1>7
  <2>1. CASE n \in 1..l
    BY <1>6, <1>7, <1>9, <2>0, <2>1 DEF SentOf
  <2>2. CASE n = l + 1
    BY <1>4, <1>7, <1>10, <1>11, <2>0, <2>2
  <2> QED
    BY <1>7, <2>1, <2>2
<1>15. \A k, n, m \in 1..Len(t) :
        IsFinal(t, k) /\ IsFinal(t, n) /\ IsPartial(t, m) /\ k < n /\ n <= m =>
          Last(t[k].window) < Head(t[m].window)
  <2> SUFFICES ASSUME NEW k \in 1..Len(t), NEW n \in 1..Len(t), NEW m \in 1..Len(t),
                      IsFinal(t, k), IsFinal(t, n), IsPartial(t, m), k < n, n <= m
               PROVE  Last(t[k].window) < Head(t[m].window)
    OBVIOUS
  <2>1. m \in 1..l
    BY <1>7, <1>8
  <2>2. k \in 1..l /\ n \in 1..l
    BY <1>6, <1>7, <2>1
  <2> QED
    BY <1>6, <1>7, <1>9, <2>1, <2>2 DEF SentOf
<1>16. \A k, m, n \in 1..Len(t) :
        IsFinal(t, k) /\ IsPartial(t, m) /\ IsPartial(t, n) /\ k <= m /\ m < n =>
          Last(t[n].window) > Last(t[k].window)
  <2> SUFFICES ASSUME NEW k \in 1..Len(t), NEW m \in 1..Len(t), NEW n \in 1..Len(t),
                      IsFinal(t, k), IsPartial(t, m), IsPartial(t, n), k <= m, m < n
               PROVE  Last(t[n].window) > Last(t[k].window)
    OBVIOUS
  <2>1. n \in 1..l
    BY <1>7, <1>8
  <2>2. k \in 1..l /\ m \in 1..l
    BY <1>6, <1>7, <2>1
  <2> QED
    BY <1>6, <1>7, <1>9, <2>1, <2>2 DEF SentOf
<1>17. SentOf(t, r, V)
  BY <1>7, <1>12, <1>13, <1>14, <1>15, <1>16 DEF SentOf
<1> QED
  BY <1>4, <1>5, <1>17

LEMMA PartialSent ==
  ASSUME NEW s, NEW b \in Nat, NEW V, SentOf(s, b, V), NEW w, MayFollow(s, w), NEW e,
         e = [kind |-> "partial", from |-> Head(w), window |-> w]
  PROVE  SentOf(Append(s, e), b, V)
<1>0. s \in Seq(SentRecords)
  BY DEF SentOf
<1>1. w \in Seq(Nat) /\ w # <<>> /\ Head(w) \in Nat
  BY DEF MayFollow
<1>2. e \in SentRecords /\ e.kind = "partial" /\ e.window = w
  BY <1>1 DEF SentRecords
<1>3. PICK t : t = Append(s, e)
  OBVIOUS
<1>4. PICK l \in Nat : l = Len(s)
  BY <1>0
<1>5. /\ t \in Seq(SentRecords) /\ Len(t) = l + 1
      /\ \A k \in 1..l : t[k] = s[k]
      /\ t[l + 1] = e
      /\ \A k \in 1..(l + 1) : k \in 1..l \/ k = l + 1
  BY <1>0, <1>2, <1>3, <1>4, SentAppend
<1>6. IsPartial(t, l + 1) /\ ~IsFinal(t, l + 1)
  BY <1>2, <1>5 DEF IsFinal, IsPartial
<1>7. \A k \in 1..l : (IsFinal(t, k) <=> IsFinal(s, k)) /\ (IsPartial(t, k) <=> IsPartial(s, k))
  BY <1>5 DEF IsFinal, IsPartial
<1>8. \A f \in V : f <= b =>
        \E k \in 1..Len(t) :
          /\ IsFinal(t, k)
          /\ \/ f \in ToSet(t[k].window)
             \/ Len(t[k].window) = WindowFrames /\ t[k].from <= f /\ f < Head(t[k].window)
  <2> SUFFICES ASSUME NEW f \in V, f <= b
               PROVE  \E k \in 1..Len(t) :
                        /\ IsFinal(t, k)
                        /\ \/ f \in ToSet(t[k].window)
                           \/ /\ Len(t[k].window) = WindowFrames
                              /\ t[k].from <= f /\ f < Head(t[k].window)
    OBVIOUS
  <2>1. PICK k \in 1..l :
          /\ IsFinal(s, k)
          /\ \/ f \in ToSet(s[k].window)
             \/ Len(s[k].window) = WindowFrames /\ s[k].from <= f /\ f < Head(s[k].window)
    BY <1>4 DEF SentOf
  <2> QED
    BY <1>5, <1>7, <2>1
<1>9. \A k \in 1..Len(t) : IsFinal(t, k) => Last(t[k].window) <= b
  BY <1>4, <1>5, <1>6, <1>7 DEF SentOf
<1>10. \A k, n \in 1..Len(t) :
        IsFinal(t, k) /\ IsFinal(t, n) /\ k < n => Last(t[k].window) < t[n].from
  <2> SUFFICES ASSUME NEW k \in 1..Len(t), NEW n \in 1..Len(t), IsFinal(t, k), IsFinal(t, n), k < n
               PROVE  Last(t[k].window) < t[n].from
    OBVIOUS
  <2>1. k \in 1..l /\ n \in 1..l
    BY <1>5, <1>6
  <2> QED
    BY <1>4, <1>5, <1>7, <2>1 DEF SentOf
<1>11. \A k, n, m \in 1..Len(t) :
        IsFinal(t, k) /\ IsFinal(t, n) /\ IsPartial(t, m) /\ k < n /\ n <= m =>
          Last(t[k].window) < Head(t[m].window)
  <2> SUFFICES ASSUME NEW k \in 1..Len(t), NEW n \in 1..Len(t), NEW m \in 1..Len(t),
                      IsFinal(t, k), IsFinal(t, n), IsPartial(t, m), k < n, n <= m
               PROVE  Last(t[k].window) < Head(t[m].window)
    OBVIOUS
  <2>1. k \in 1..l /\ n \in 1..l
    BY <1>5, <1>6
  <2>2. CASE m \in 1..l
    BY <1>4, <1>5, <1>7, <2>1, <2>2 DEF SentOf
  <2>3. CASE m = l + 1
    BY <1>2, <1>4, <1>5, <1>7, <2>1, <2>3 DEF MayFollow
  <2> QED
    BY <1>5, <2>2, <2>3
<1>12. \A k, m, n \in 1..Len(t) :
        IsFinal(t, k) /\ IsPartial(t, m) /\ IsPartial(t, n) /\ k <= m /\ m < n =>
          Last(t[n].window) > Last(t[k].window)
  <2> SUFFICES ASSUME NEW k \in 1..Len(t), NEW m \in 1..Len(t), NEW n \in 1..Len(t),
                      IsFinal(t, k), IsPartial(t, m), IsPartial(t, n), k <= m, m < n
               PROVE  Last(t[n].window) > Last(t[k].window)
    OBVIOUS
  <2>1. m \in 1..l
    BY <1>5
  <2>2. k \in 1..l
    BY <1>4, <1>5, <2>1
  <2>3. CASE n \in 1..l
    BY <1>4, <1>5, <1>7, <2>1, <2>2, <2>3 DEF SentOf
  <2>4. CASE n = l + 1
    <3>1. Last(s[k].window) < Last(w)
      BY <1>4, <1>7, <2>1, <2>2 DEF MayFollow
    <3>2. t[n].window = w /\ t[k].window = s[k].window
      BY <1>2, <1>5, <2>2, <2>4
    <3> QED
      BY <3>1, <3>2
  <2> QED
    BY <1>5, <2>3, <2>4
<1>13. SentOf(t, b, V)
  BY <1>5, <1>8, <1>9, <1>10, <1>11, <1>12 DEF SentOf
<1> QED
  BY <1>3, <1>13

\* A window that is later than all finals may follow one more.
LEMMA FollowsOneMore ==
  ASSUME NEW s \in Seq(SentRecords), NEW w, MayFollow(s, w), NEW e \in SentRecords,
         e.kind # "partial",
         \A k \in 1..Len(s) : IsFinal(s, k) => Last(s[k].window) < Head(w)
  PROVE  MayFollow(Append(s, e), w)
<1>1. PICK t : t = Append(s, e)
  OBVIOUS
<1>2. PICK l \in Nat : l = Len(s)
  OBVIOUS
<1>3. /\ Len(t) = l + 1 /\ \A k \in 1..l : t[k] = s[k]
      /\ t[l + 1] = e
      /\ \A k \in 1..(l + 1) : k \in 1..l \/ k = l + 1
  BY <1>1, <1>2, SentAppend
<1>4. ~IsPartial(t, l + 1)
  BY <1>3 DEF IsPartial
<1>5. \A k \in 1..l : (IsFinal(t, k) <=> IsFinal(s, k)) /\ (IsPartial(t, k) <=> IsPartial(s, k))
  BY <1>3 DEF IsFinal, IsPartial
<1>6. ASSUME NEW k \in 1..Len(t), NEW n \in 1..Len(t), IsFinal(t, k), k < n
      PROVE  Last(t[k].window) < Head(w)
  <2>1. k \in 1..l
    BY <1>2, <1>3, <1>6
  <2> QED
    BY <1>2, <1>3, <1>5, <1>6, <2>1
<1>7. ASSUME NEW k \in 1..Len(t), NEW m \in 1..Len(t), IsFinal(t, k), IsPartial(t, m), k <= m
      PROVE  Last(t[k].window) < Last(w)
  <2>1. m \in 1..l
    BY <1>3, <1>4, <1>7
  <2>2. k \in 1..l
    BY <1>2, <1>3, <1>7, <2>1
  <2> QED
    BY <1>2, <1>3, <1>5, <1>7, <2>1, <2>2 DEF MayFollow
<1>8. w \in Seq(Nat) /\ w # <<>>
  BY DEF MayFollow
<1>9. MayFollow(t, w)
  BY <1>6, <1>7, <1>8 DEF MayFollow
<1> QED
  BY <1>1, <1>9

\* A window of the buffer is later than all finals.
LEMMA WindowFollows ==
  ASSUME NEW s, NEW r \in Nat, NEW w, NEW V, Frames(w, r), w # <<>>, SentOf(s, r - Len(w), V)
  PROVE  /\ MayFollow(s, WindowSlice(w))
         /\ \A k \in 1..Len(s) : IsFinal(s, k) => Last(s[k].window) < Head(WindowSlice(w))
<1>1. PICK v : v = WindowSlice(w)
  OBVIOUS
<1>2. PICK b \in Nat : b = r - Len(w) /\ SentOf(s, b, V)
  BY DEF Frames
<1>3. Frames(v, r) /\ v # <<>> /\ v \in Seq(Nat) /\ Len(v) <= Len(w)
  <2>1. /\ Frames(v, r) /\ v # <<>>
        /\ Len(v) = Len(w) \/ (Len(v) = WindowFrames /\ WindowFrames < Len(w))
    BY <1>1, SliceFacts
  <2>2. Len(w) \in Nat /\ WindowFrames \in Nat /\ v \in Seq(Nat)
    BY <2>1, SpeechStreamAssumption DEF Frames
  <2> QED
    BY <2>1, <2>2
<1>4. Head(v) = r - Len(v) + 1 /\ Last(v) = r /\ Len(v) \in 1..r /\ Len(w) \in 1..r
  BY <1>3, FramesFacts
<1>5. s \in Seq(SentRecords)
  BY <1>2 DEF SentOf
<1>6. \A k \in 1..Len(s) : IsFinal(s, k) => Last(s[k].window) <= b /\ Last(s[k].window) \in Nat
  <2> SUFFICES ASSUME NEW k \in 1..Len(s), IsFinal(s, k)
               PROVE  Last(s[k].window) <= b /\ Last(s[k].window) \in Nat
    OBVIOUS
  <2>1. s[k] \in SentRecords
    BY <1>5
  <2>2. s[k].window \in Seq(Nat) /\ s[k].window # <<>>
    BY <2>1 DEF SentRecords
  <2> QED
    BY <1>2, <2>2 DEF SentOf, Last
<1>7. b < Head(v) /\ b < Last(v) /\ Head(v) \in Nat /\ Last(v) \in Nat
  BY <1>2, <1>3, <1>4
<1>8. \A k \in 1..Len(s) : IsFinal(s, k) => Last(s[k].window) < Head(v) /\ Last(s[k].window) < Last(v)
  BY <1>2, <1>6, <1>7
<1> QED
  BY <1>1, <1>3, <1>8 DEF MayFollow

\* GoesToModel of a buffer that is not empty, once it is the buffer.
LEMMA GoesKeeps ==
  ASSUME NEW ends, NEW frames, frames # <<>>, Frames(frames, received'), buffer' = frames,
         received' \in Nat, GoesToModel(ends, frames), LockInv, loop = "receiving",
         UNCHANGED <<partialAt, partialWindow>>
  PROVE  /\ loop' \in {"waiting", "generating"}
         /\ LockInv' /\ FinalInv'
<1>1. /\ loop' = IF partialAt = "generating" THEN "waiting" ELSE "generating"
      /\ finalWindow' = [from |-> Head(frames), window |-> WindowSlice(frames)]
  BY DEF GoesToModel
<1>2. Head(frames) = received' - Len(frames) + 1
  BY FramesFacts
<1>3. LockInv'
  BY <1>1 DEF LockInv
<1>4. FinalInv'
  BY <1>1, <1>2 DEF FinalInv, PastFrames
<1> QED
  BY <1>1, <1>3, <1>4

\* What was sent and the partial in flight do not depend on anything else.
LEMMA SentSame ==
  ASSUME PartialInv, UNCHANGED <<partialAt, partialWindow, sent>>
  PROVE  PartialInv'
BY DEF PartialInv

LEMMA SentGrows ==
  ASSUME NEW s, NEW b \in Nat, NEW c \in Nat, NEW V, NEW W, SentOf(s, b, V), b <= c,
         \A f \in W : f <= c => f \in V /\ f <= b
  PROVE  SentOf(s, c, W)
<1>1. s \in Seq(SentRecords)
  BY DEF SentOf
<1>2. \A k \in 1..Len(s) : IsFinal(s, k) => Last(s[k].window) <= c
  <2> SUFFICES ASSUME NEW k \in 1..Len(s), IsFinal(s, k) PROVE Last(s[k].window) <= c
    OBVIOUS
  <2>1. s[k] \in SentRecords
    BY <1>1
  <2>2. s[k].window \in Seq(Nat) /\ s[k].window # <<>>
    BY <2>1 DEF SentRecords
  <2>3. Last(s[k].window) \in Nat /\ Last(s[k].window) <= b
    BY <2>2 DEF SentOf, Last
  <2> QED
    BY <2>3
<1> QED
  BY <1>2 DEF SentOf

LEMMA AudioArrivesKeeps ==
  ASSUME StreamInv, NEW isVoiced \in BOOLEAN, AudioArrives(isVoiced)
  PROVE  StreamInv'
<1> USE DEF StreamInv
<1>1. /\ loop = "receiving" /\ received' = received + 1
      /\ voicedFrames' = IF isVoiced THEN voicedFrames \cup {received + 1} ELSE voicedFrames
      /\ hasVoice' = (hasVoice \/ isVoiced)
      /\ awaiting' = (awaiting /\ ~isVoiced)
      /\ buffer' = Append(buffer, received + 1)
      /\ UNCHANGED <<partialAt, partialWindow, lastText, sent>>
  BY DEF AudioArrives, Receiving
<1>2. /\ received \in Nat /\ voicedFrames \subseteq 1..received /\ buffer \in Seq(Nat)
      /\ Len(buffer) <= received /\ Len(buffer) \in Nat
      /\ \A n \in 1..Len(buffer) : buffer[n] = received - Len(buffer) + n
  BY DEF StreamTypes, Frames
<1>3. PICK c : c = Append(buffer, received + 1)
  OBVIOUS
<1>4. /\ c \in Seq(Nat) /\ Len(c) = Len(buffer) + 1
      /\ \A n \in 1..Len(buffer) : c[n] = buffer[n]
      /\ c[Len(buffer) + 1] = received + 1
      /\ c # <<>>
  BY <1>2, <1>3
<1>5. Frames(c, received + 1)
  <2>1. \A n \in 1..Len(c) : c[n] = received + 1 - Len(c) + n
    <3> SUFFICES ASSUME NEW n \in 1..Len(c) PROVE c[n] = received + 1 - Len(c) + n
      OBVIOUS
    <3>1. CASE n \in 1..Len(buffer)
      BY <1>2, <1>4, <3>1
    <3>2. CASE n = Len(buffer) + 1
      BY <1>2, <1>4, <3>2
    <3> QED
      BY <1>2, <1>4, <3>1, <3>2
  <2> QED
    BY <1>2, <1>4, <2>1 DEF Frames
<1>6. PastFrames' = PastFrames /\ PastFrames \in Nat /\ PastFrames <= received /\ Frames(buffer', received')
  BY <1>1, <1>2, <1>3, <1>4, <1>5 DEF PastFrames
<1>7. loop' \in {"receiving", "waiting", "generating"} /\ LockInv' /\ FinalInv'
  <2>1. CASE EndpointReached
    <3>1. buffer' = c /\ Frames(c, received') /\ received' \in Nat
      BY <1>1, <1>2, <1>3, <1>5
    <3>2. GoesToModel(FALSE, buffer')
      BY <2>1 DEF AudioArrives
    <3>3. GoesToModel(FALSE, c)
      BY <3>1, <3>2 DEF GoesToModel
    <3> QED
      BY <1>1, <1>4, <3>1, <3>3, GoesKeeps
  <2>2. CASE ~EndpointReached
    <3>1. loop' = loop
      BY <2>2 DEF AudioArrives, finalVars
    <3> QED
      BY <1>1, <3>1 DEF LockInv, FinalInv
  <2> QED
    BY <2>1, <2>2
<1>8. StreamTypes'
  <2>1. voicedFrames' \subseteq 1..received'
    BY <1>1, <1>2
  <2>2. hasVoice' \in BOOLEAN /\ awaiting' \in BOOLEAN
    BY <1>1 DEF StreamTypes
  <2> QED
    BY <1>1, <1>2, <1>6, <1>7, <2>1, <2>2 DEF StreamTypes
<1>9. HeldInv'
  <2>1. CASE isVoiced
    <3>1. received + 1 \in voicedFrames' /\ received + 1 > PastFrames
      BY <1>1, <1>2, <1>6, <2>1
    <3> QED
      BY <1>1, <1>6, <2>1, <3>1 DEF HeldInv
  <2>2. CASE ~isVoiced
    BY <1>1, <1>6, <2>2 DEF HeldInv, StreamTypes
  <2> QED
    BY <2>1, <2>2
<1>10. SentOf(sent, PastFrames, voicedFrames')
  <2>1. \A f \in voicedFrames' : f <= PastFrames => f \in voicedFrames
    BY <1>1, <1>2, <1>6
  <2> QED
    BY <1>6, <2>1, SentGrows
<1>11. SentOf(sent, PastFrames, voicedFrames)'
  BY <1>1, <1>6, <1>10
<1>12. PartialInv'
  BY <1>1, SentSame
<1> QED
  BY <1>7, <1>8, <1>9, <1>11, <1>12

\* reset_after_final, when what the buffer held is in SentOf already.
LEMMA ResetKeeps ==
  ASSUME StreamTypes, ResetAfterFinal, UNCHANGED <<received, voicedFrames>>
  PROVE  /\ PastFrames' = received /\ Frames(buffer', received') /\ buffer' = <<>>
         /\ HeldInv' /\ hasVoice' \in BOOLEAN /\ awaiting' \in BOOLEAN
<1>1. /\ buffer' = <<>> /\ hasVoice' = FALSE /\ awaiting' = TRUE
      /\ received' = received /\ voicedFrames' = voicedFrames
  BY DEF ResetAfterFinal
<1>2. received \in Nat /\ voicedFrames \subseteq 1..received
  BY DEF StreamTypes
<1>3. <<>> \in Seq(Nat) /\ Len(<<>>) = 0
  OBVIOUS
<1>4. Frames(<<>>, received)
  BY <1>2, <1>3 DEF Frames
<1>5. PastFrames' = received
  BY <1>1, <1>2, <1>3 DEF PastFrames
<1>6. \A f \in voicedFrames : ~(f > received)
  BY <1>2
<1>7. HeldInv'
  BY <1>1, <1>5, <1>6 DEF HeldInv
<1> QED
  BY <1>1, <1>4, <1>5, <1>7

\* The buffer and what is past do not depend on anything else.
LEMMA AudioSame ==
  ASSUME StreamInv, UNCHANGED audioVars
  PROVE  /\ HeldInv' /\ PastFrames' = PastFrames /\ Frames(buffer', received')
         /\ received' \in Nat /\ voicedFrames' \subseteq 1..received'
         /\ hasVoice' \in BOOLEAN /\ awaiting' \in BOOLEAN
<1> USE DEF StreamInv, audioVars
<1>1. PastFrames' = PastFrames
  BY DEF PastFrames
<1> QED
  BY <1>1 DEF HeldInv, StreamTypes

\* flush, end and a disconnect: a final of the buffer, or none.
LEMMA LoopLeavesKeeps ==
  ASSUME StreamInv, Flush \/ End \/ Disconnects
  PROVE  StreamInv'
<1> USE DEF StreamInv
<1>1. /\ loop = "receiving" /\ UNCHANGED <<partialAt, partialWindow, sent, received, voicedFrames>>
  BY DEF Flush, End, Disconnects, Receiving, audioVars, partialVars
<1>2. received \in Nat /\ buffer \in Seq(Nat) /\ Len(buffer) <= received /\ Frames(buffer, received)
  BY DEF StreamTypes, Frames
<1>3. hasVoice => buffer # <<>>
  <2> SUFFICES ASSUME hasVoice, buffer = <<>> PROVE FALSE
    OBVIOUS
  <2>1. PastFrames = received
    BY <1>2 DEF PastFrames
  <2> QED
    BY <2>1 DEF HeldInv, StreamTypes
<1>4. PartialInv'
  BY <1>1, SentSame
<1>5. CASE UNCHANGED audioVars /\ hasVoice /\ \E ends : GoesToModel(ends, buffer)
  <2>1. buffer' = buffer /\ received' = received /\ voicedFrames' = voicedFrames
    BY <1>5 DEF audioVars
  <2>2. loop' \in {"waiting", "generating"} /\ LockInv' /\ FinalInv'
    BY <1>1, <1>2, <1>3, <1>5, <2>1, GoesKeeps
  <2>3. StreamTypes' /\ HeldInv'
    BY <1>1, <1>5, <2>2, AudioSame DEF StreamTypes
  <2>4. SentOf(sent, PastFrames, voicedFrames)'
    BY <1>1, <1>5, AudioSame
  <2> QED
    BY <1>4, <2>2, <2>3, <2>4
<1>6. CASE UNCHANGED audioVars /\ loop' = "left"
  <2>1. StreamTypes' /\ HeldInv'
    BY <1>1, <1>6, AudioSame DEF StreamTypes
  <2>2. SentOf(sent, PastFrames, voicedFrames)'
    BY <1>1, <1>6, AudioSame
  <2>3. LockInv' /\ FinalInv'
    BY <1>1, <1>6 DEF LockInv, FinalInv
  <2> QED
    BY <1>4, <2>1, <2>2, <2>3
<1>7. CASE ~hasVoice /\ ResetAfterFinal /\ UNCHANGED loop
  <2>1. /\ PastFrames' = received /\ Frames(buffer', received') /\ buffer' = <<>>
        /\ HeldInv' /\ hasVoice' \in BOOLEAN /\ awaiting' \in BOOLEAN
    BY <1>1, <1>7, ResetKeeps
  <2>2. StreamTypes'
    BY <1>1, <1>7, <2>1 DEF StreamTypes
  <2>3. LockInv' /\ FinalInv'
    BY <1>1, <1>7 DEF LockInv, FinalInv
  <2>4. PastFrames \in Nat /\ PastFrames <= received
    BY <1>2 DEF PastFrames
  <2>5. \A f \in voicedFrames : f <= PastFrames
    BY <1>7, <2>4 DEF HeldInv, StreamTypes
  <2>6. SentOf(sent, received, voicedFrames)
    BY <1>2, <2>4, <2>5, SentGrows
  <2>7. SentOf(sent, PastFrames, voicedFrames)'
    BY <1>1, <2>1, <2>6
  <2> QED
    BY <1>4, <2>1, <2>2, <2>3, <2>7
<1>8. CASE Flush
  BY <1>5, <1>7, <1>8 DEF Flush, audioVars, finalVars
<1>9. CASE End
  BY <1>5, <1>6, <1>9 DEF End
<1>10. CASE Disconnects
  BY <1>6, <1>10 DEF Disconnects
<1> QED
  BY <1>8, <1>9, <1>10

LEMMA FinalReturnsKeeps ==
  ASSUME StreamInv, NEW kind \in {"final", "failed"}, FinalReturns(kind)
  PROVE  StreamInv'
<1> USE DEF StreamInv
<1>1. /\ loop = "generating" /\ sent' = Append(sent, Record(kind, finalWindow))
      /\ ResetAfterFinal
      /\ loop' \in {"left", "receiving"}
      /\ partialAt' = IF partialAt = "waiting" THEN "generating" ELSE partialAt
      /\ UNCHANGED <<voicedFrames, received, partialWindow>>
  BY DEF FinalReturns
<1>2. /\ received \in Nat /\ buffer # <<>> /\ Frames(buffer, received) /\ PastFrames \in Nat
      /\ PastFrames = received - Len(buffer) /\ voicedFrames \subseteq 1..received
      /\ finalWindow = [from |-> PastFrames + 1, window |-> WindowSlice(buffer)]
  BY <1>1 DEF FinalInv, StreamTypes, Frames, PastFrames
<1>3. PICK e : e = Record(kind, finalWindow)
  OBVIOUS
<1>4. e = [kind |-> kind, from |-> PastFrames + 1, window |-> WindowSlice(buffer)]
  BY <1>2, <1>3 DEF Record
<1>5. e \in SentRecords /\ SentOf(Append(sent, e), received, voicedFrames)
  <2>1. PICK b \in Nat : b = PastFrames
    BY <1>2
  <2>2. PICK s, V, w : s = sent /\ V = voicedFrames /\ w = buffer
    OBVIOUS
  <2>3. SentOf(s, b, V) /\ Frames(w, received) /\ w # <<>> /\ b = received - Len(w) /\ V \subseteq 1..received
    BY <1>2, <2>1, <2>2
  <2>4. e = [kind |-> kind, from |-> b + 1, window |-> WindowSlice(w)]
    BY <1>4, <2>1, <2>2
  <2>5. e \in SentRecords /\ SentOf(Append(s, e), received, V)
    BY <1>2, <2>3, <2>4, FinalSent
  <2> QED
    BY <2>2, <2>5
<1>6. /\ PastFrames' = received /\ Frames(buffer', received') /\ buffer' = <<>>
      /\ HeldInv' /\ hasVoice' \in BOOLEAN /\ awaiting' \in BOOLEAN
  BY <1>1, ResetKeeps
<1>7. StreamTypes'
  BY <1>1, <1>2, <1>6 DEF StreamTypes
<1>8. SentOf(sent, PastFrames, voicedFrames)'
  BY <1>1, <1>3, <1>5, <1>6
<1>9. LockInv' /\ FinalInv'
  BY <1>1 DEF LockInv, FinalInv
<1>10. PartialInv'
  <2>1. partialAt' \in {"none", "generating"}
    BY <1>1 DEF StreamTypes, LockInv
  <2>2. CASE partialAt' # "none"
    <3>1. partialAt = "waiting"
      BY <1>1, <2>2 DEF StreamTypes, LockInv
    <3>2. MayFollow(Append(sent, e), partialWindow)
      <4>1. sent \in Seq(SentRecords) /\ e.kind # "partial"
        BY <1>4 DEF SentOf
      <4> QED
        BY <1>5, <3>1, <4>1, FollowsOneMore DEF PartialInv
    <3> QED
      BY <1>1, <1>3, <2>1, <3>2 DEF PartialInv
  <2> QED
    BY <2>1, <2>2 DEF PartialInv
<1> QED
  BY <1>6, <1>7, <1>8, <1>9, <1>10

LEMMA PartialBeginsKeeps ==
  ASSUME StreamInv, PartialBegins
  PROVE  StreamInv'
<1> USE DEF StreamInv
<1>1. UNCHANGED <<audioVars, finalVars, sent>>
  BY DEF PartialBegins
<1>2. SentOf(sent, PastFrames, voicedFrames)'
  BY <1>1, AudioSame DEF audioVars
<1>3. loop' = loop /\ finalWindow' = finalWindow /\ buffer' = buffer
  BY <1>1 DEF finalVars, audioVars
<1>4. FinalInv'
  BY <1>1, <1>3, AudioSame DEF FinalInv
<1>5. CASE UNCHANGED <<partialAt, partialWindow>>
  <2>1. LockInv' /\ PartialInv'
    BY <1>1, <1>3, <1>5, SentSame DEF LockInv
  <2>2. StreamTypes' /\ HeldInv'
    BY <1>1, <1>3, <1>5, AudioSame DEF StreamTypes
  <2> QED
    BY <1>2, <1>4, <2>1, <2>2
<1>6. CASE ~(UNCHANGED <<partialAt, partialWindow>>)
  <2>1. /\ partialAt = "none" /\ buffer # <<>>
        /\ partialAt' = IF loop \in {"waiting", "generating"} THEN "waiting" ELSE "generating"
        /\ partialWindow' = WindowSlice(buffer)
    BY <1>6 DEF PartialBegins
  <2>2. LockInv'
    BY <1>3, <2>1 DEF LockInv, StreamTypes
  <2>3. StreamTypes' /\ HeldInv'
    BY <1>1, <1>3, <2>1, AudioSame DEF StreamTypes
  <2>4. /\ MayFollow(sent, WindowSlice(buffer))
        /\ \A k \in 1..Len(sent) : IsFinal(sent, k) => Last(sent[k].window) < Head(WindowSlice(buffer))
    <3>1. SentOf(sent, received - Len(buffer), voicedFrames)
      BY DEF PastFrames
    <3> QED
      BY <2>1, <3>1, WindowFollows DEF StreamTypes
  <2>5. PICK v : v = WindowSlice(buffer)
    OBVIOUS
  <2>6. PartialInv'
    BY <1>1, <2>1, <2>4, <2>5 DEF PartialInv
  <2> QED
    BY <1>2, <1>4, <2>2, <2>3, <2>6
<1> QED
  BY <1>5, <1>6

LEMMA PartialReturnsKeeps ==
  ASSUME StreamInv, NEW worked \in BOOLEAN, PartialReturns(worked)
  PROVE  StreamInv'
<1> USE DEF StreamInv
<1>1. /\ partialAt = "generating" /\ partialAt' = "none"
      /\ loop' = IF loop = "waiting" THEN "generating" ELSE loop
      /\ UNCHANGED <<audioVars, finalWindow>>
  BY DEF PartialReturns
<1>2. PICK e : e = Record("partial", [from |-> Head(partialWindow), window |-> partialWindow])
  OBVIOUS
<1>3. e = [kind |-> "partial", from |-> Head(partialWindow), window |-> partialWindow]
  BY <1>2 DEF Record
<1>4. sent' = sent \/ sent' = Append(sent, e)
  BY <1>2 DEF PartialReturns
<1>5. StreamTypes' /\ HeldInv'
  BY <1>1, AudioSame DEF StreamTypes
<1>6. LockInv' /\ FinalInv' /\ PartialInv'
  BY <1>1, AudioSame DEF LockInv, FinalInv, PartialInv, audioVars, StreamTypes
<1>7. PastFrames \in Nat
  BY DEF PastFrames, StreamTypes, Frames
<1>8. SentOf(sent', PastFrames, voicedFrames)
  <2>1. SentOf(Append(sent, e), PastFrames, voicedFrames)
    BY <1>1, <1>3, <1>7, PartialSent DEF PartialInv
  <2> QED
    BY <1>4, <2>1
<1>9. SentOf(sent, PastFrames, voicedFrames)'
  BY <1>1, <1>8, AudioSame DEF audioVars
<1> QED
  BY <1>5, <1>6, <1>9

LEMMA StreamInvCorrect == StreamInv => StreamCorrect
<1> SUFFICES ASSUME StreamInv PROVE StreamCorrect
  OBVIOUS
<1>1. SentOf(sent, PastFrames, voicedFrames) /\ StreamTypes
  BY DEF StreamInv
<1>2. sent \in Seq(SentRecords) /\ Len(sent) \in Nat
  BY <1>1 DEF SentOf
<1>3. \A m \in 1..Len(sent) : \A k : k \in FinalsIn(m) <=> k \in 1..Len(sent) /\ k <= m /\ IsFinal(sent, k)
  BY <1>2 DEF FinalsIn, IsFinal
<1>4. \A k : k \in FinalsIn(Len(sent)) <=> k \in 1..Len(sent) /\ IsFinal(sent, k)
  BY <1>2 DEF FinalsIn, IsFinal
<1>5. VoiceIsTranscribed
  <2> SUFFICES ASSUME NEW f \in voicedFrames, f \notin ToSet(buffer)
               PROVE  \E k \in FinalsIn(Len(sent)) :
                        \/ f \in ToSet(sent[k].window)
                        \/ /\ Len(sent[k].window) = WindowFrames
                           /\ sent[k].from <= f /\ f < Head(sent[k].window)
    BY DEF VoiceIsTranscribed
  <2>1. received \in Nat /\ f \in 1..received /\ Frames(buffer, received) /\ Len(buffer) \in Nat
    BY <1>1 DEF StreamTypes, Frames
  <2>2. f <= PastFrames
    <3>1. CASE buffer = <<>>
      BY <2>1, <3>1 DEF PastFrames
    <3>2. CASE buffer # <<>>
      <4>1. f \notin (received - Len(buffer) + 1)..received
        BY <2>1, <3>2, FramesFacts
      <4> QED
        BY <2>1, <4>1 DEF PastFrames
    <3> QED
      BY <3>1, <3>2
  <2> QED
    BY <1>1, <1>4, <2>2 DEF SentOf
<1>6. FinalsApart
  BY <1>1, <1>4 DEF FinalsApart, SentOf
<1>7. LateByOne
  <2> SUFFICES ASSUME NEW m \in 1..Len(sent), sent[m].kind = "partial",
                      NEW k \in FinalsIn(m), NEW n \in FinalsIn(m), k < n
               PROVE  Last(sent[k].window) < Head(sent[m].window)
    BY DEF LateByOne
  <2>1. /\ k \in 1..Len(sent) /\ n \in 1..Len(sent) /\ n <= m
        /\ IsFinal(sent, k) /\ IsFinal(sent, n) /\ IsPartial(sent, m)
    BY <1>3 DEF IsPartial
  <2> QED
    BY <1>1, <2>1 DEF SentOf
<1>8. OneLatePartial
  <2> SUFFICES ASSUME NEW m \in 1..Len(sent), NEW n \in 1..Len(sent), m < n,
                      sent[m].kind = "partial", sent[n].kind = "partial", NEW k \in FinalsIn(m)
               PROVE  Last(sent[n].window) > Last(sent[k].window)
    BY DEF OneLatePartial
  <2>1. /\ k \in 1..Len(sent) /\ k <= m
        /\ IsFinal(sent, k) /\ IsPartial(sent, m) /\ IsPartial(sent, n)
    BY <1>3 DEF IsPartial
  <2> QED
    BY <1>1, <2>1 DEF SentOf
<1> QED
  BY <1>5, <1>6, <1>7, <1>8 DEF StreamCorrect

LEMMA InitStreamInv == StreamInit => StreamInv
<1> SUFFICES ASSUME StreamInit PROVE StreamInv
  OBVIOUS
<1>1. <<>> \in Seq(Nat) /\ <<>> \in Seq(SentRecords) /\ Len(<<>>) = 0
  OBVIOUS
<1>2. Frames(<<>>, 0) /\ PastFrames = 0
  <2>1. \A n \in 1..Len(<<>>) : FALSE
    BY <1>1
  <2>2. Frames(<<>>, 0)
    BY <1>1, <2>1 DEF Frames
  <2>3. received = 0 /\ Len(buffer) = 0
    BY <1>1 DEF StreamInit
  <2>4. PastFrames = 0
    BY <2>3 DEF PastFrames
  <2> QED
    BY <2>2, <2>4
<1>3. StreamTypes /\ HeldInv /\ LockInv /\ FinalInv
  BY <1>2 DEF StreamInit, StreamTypes, HeldInv, LockInv, FinalInv
<1>4. SentOf(<<>>, 0, {})
  BY <1>1 DEF SentOf
<1> QED
  BY <1>2, <1>3, <1>4 DEF StreamInit, StreamInv, PartialInv

LEMMA NextStreamInv == StreamInv /\ (StreamNext \/ UNCHANGED streamVars) => StreamInv'
<1> SUFFICES ASSUME StreamInv, StreamNext \/ UNCHANGED streamVars PROVE StreamInv'
  OBVIOUS
<1>1. CASE UNCHANGED streamVars
  <2>1. StreamTypes' /\ HeldInv' /\ PastFrames' = PastFrames
    BY <1>1, AudioSame DEF streamVars, finalVars, partialVars, StreamInv, StreamTypes
  <2>2. PartialInv'
    BY <1>1, SentSame DEF streamVars, partialVars, StreamInv
  <2>3. LockInv' /\ FinalInv'
    BY <1>1, <2>1 DEF streamVars, finalVars, partialVars, audioVars, StreamInv, LockInv, FinalInv
  <2>4. SentOf(sent, PastFrames, voicedFrames)'
    BY <1>1, <2>1 DEF streamVars, audioVars, StreamInv
  <2> QED
    BY <2>1, <2>2, <2>3, <2>4 DEF StreamInv
<1> QED
  BY <1>1, AudioArrivesKeeps, LoopLeavesKeeps, FinalReturnsKeeps, PartialBeginsKeeps,
     PartialReturnsKeeps DEF StreamNext

\* TranscriptsCorrect (server_stream_stt.py and live-runner.ts): every voiced frame is in
\* the buffer, in a final or too old for its window; no word is in two finals; a partial is
\* late by one final at most, and once; and the call hears whenever no turn is in progress.
THEOREM TranscriptsAreCorrect == ServicesSpec => []TranscriptsCorrect
<1>1. ServicesInit => VoiceInv /\ StreamInv
  BY InitVoiceInv, InitStreamInv DEF ServicesInit
<1>2. VoiceInv /\ StreamInv /\ [ServicesNext]_servicesVars => VoiceInv' /\ StreamInv'
  <2> SUFFICES ASSUME VoiceInv, StreamInv, [ServicesNext]_servicesVars PROVE VoiceInv' /\ StreamInv'
    OBVIOUS
  <2>1. [VoiceNext]_voiceVars /\ (StreamNext \/ UNCHANGED streamVars)
    BY DEF ServicesNext, servicesVars
  <2> QED
    BY <2>1, NextVoiceInv, NextStreamInv
<1>3. VoiceInv /\ StreamInv => TranscriptsCorrect
  BY VoiceInvHears, StreamInvCorrect DEF TranscriptsCorrect
<1> QED
  BY <1>1, <1>2, <1>3, PTL DEF ServicesSpec

=============================================================================
