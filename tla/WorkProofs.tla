---------------------------- MODULE WorkProofs -----------------------------
(***************************************************************************)
(* Proofs about the work that goes on between two messages, as MCServices  *)
(* composes it: the agent's history, deep research, the owner's approvals  *)
(* and the monitor of a service.  Each section has one of them: the        *)
(* inductive invariant, one lemma or step for each action that disturbs    *)
(* it, and the theorem.                                                    *)
(***************************************************************************)
EXTENDS MCServices, NumberLemmas, TLAPS

-----------------------------------------------------------------------------
(* The agent's history *)

HistoryEntries ==
  [turn : Nat, round : Nat, role : {"user", "calls", "tool", "reply"}, call : Nat]

ResultOf(e, k) == Entry(e.turn, e.round, "tool", k)

\* The calls among the first l entries of a history are answered among them.
AnsweredUpTo(h, l) ==
  \A i \in 1..l : h[i].role = "calls" =>
    \A k \in 1..h[i].call : i + k <= l /\ h[i + k] = ResultOf(h[i], k)

\* Every tool call of a history is followed by its result.
Answered(h) == AnsweredUpTo(h, Len(h))

\* The same but for the round under way: entry l + 1 asks for n calls, of which callNo
\* have returned.
OpenRound(h, l, n) ==
  /\ Len(h) = l + 1 + callNo /\ callNo < n
  /\ h[l + 1] = Entry(turnNo, roundNo, "calls", n)
  /\ \A k \in 1..callNo : h[l + 1 + k] = Entry(turnNo, roundNo, "tool", k)
  /\ AnsweredUpTo(h, l)
AnsweredSoFar(h) == \E l, n \in Nat : OpenRound(h, l, n)

HistoryTypeInv ==
  /\ saved \in Seq(HistoryEntries) /\ working \in Seq(HistoryEntries) /\ retained \in Seq(HistoryEntries)
  /\ turnNo \in Nat /\ roundNo \in Nat /\ callNo \in Nat

\* What the turn and the compaction under way will write still has, or has dropped for
\* good reason, what the file holds.
HistoryUnderWay ==
  /\ phase \in {"asking", "tools"} => ToSet(saved) \subseteq ToSet(working) \cup trimmedOff
  /\ phase = "asking" => callNo = 0 /\ Answered(working)
  /\ phase = "tools" => AnsweredSoFar(working)
  /\ phase = "summarized" =>
       ToSet(saved) \subseteq ToSet(retained) \cup Archives /\ Answered(retained)

\* An effect is saved, was cut off by a kill, or belongs to the round under way: its result
\* has returned or is the next to.
EffectsKept ==
  \A e \in effects : \/ e \in everSaved \cup cutRound
                     \/ phase = "tools" /\ \E k \in 1..(callNo + 1) : e = Entry(turnNo, roundNo, "tool", k)

KeptInv ==
  /\ everSaved \subseteq ToSet(saved) \cup Archives \cup trimmedOff \cup replaced
  /\ Archives \subseteq summary \cup untold

HistoryInv == HistoryTypeInv /\ HistoryUnderWay /\ KeptInv /\ EffectsKept /\ Answered(saved)

\* The end of a history, and what comes before it.
LEMMA LastOnesFacts ==
  ASSUME NEW S, NEW h \in Seq(S), NEW n \in Nat, n <= Len(h)
  PROVE  /\ LastOnes(h, n) \in Seq(S) /\ Len(LastOnes(h, n)) = n
         /\ \A i \in 1..n : LastOnes(h, n)[i] = h[Len(h) - n + i]
         /\ ToSet(h) = ToSet(SubSeq(h, 1, Len(h) - n)) \cup ToSet(LastOnes(h, n))
<1>1. PICK l \in Nat : l = Len(h)
  OBVIOUS
<1>2. PICK k \in Nat : k = l - n
  <2>1. n <= l
    BY <1>1
  <2>2. l - n \in Nat
    BY <2>1
  <2> QED
    BY <2>2
<1>3. LastOnes(h, n) = SubSeq(h, k + 1, l)
  <2>1. l - n + 1 = k + 1
    BY <1>2
  <2> QED
    BY <1>1, <2>1 DEF LastOnes
<1>4. /\ SubSeq(h, k + 1, l) \in Seq(S) /\ Len(SubSeq(h, k + 1, l)) = n
      /\ \A i \in 1..n : SubSeq(h, k + 1, l)[i] = h[k + i]
  BY <1>1, <1>2
<1>5. /\ SubSeq(h, 1, k) \in Seq(S) /\ Len(SubSeq(h, 1, k)) = k
      /\ \A i \in 1..k : SubSeq(h, 1, k)[i] = h[i]
  BY <1>1, <1>2
<1>6. ToSet(h) = ToSet(SubSeq(h, 1, k)) \cup ToSet(SubSeq(h, k + 1, l))
  <2>1. ASSUME NEW i \in 1..l
        PROVE  h[i] \in ToSet(SubSeq(h, 1, k)) \cup ToSet(SubSeq(h, k + 1, l))
    <3>1. CASE i <= k
      <4>1. i \in 1..k /\ SubSeq(h, 1, k)[i] = h[i]
        BY <1>5, <3>1
      <4>2. i \in DOMAIN SubSeq(h, 1, k)
        BY <1>5, <4>1
      <4>3. h[i] \in ToSet(SubSeq(h, 1, k))
        BY <4>1, <4>2 DEF ToSet
      <4> QED
        BY <4>3
    <3>2. CASE i > k
      <4>1. i - k \in 1..n /\ k + (i - k) = i
        BY <1>1, <1>2, <3>2
      <4>2. SubSeq(h, k + 1, l)[i - k] = h[i]
        BY <1>4, <4>1
      <4>3. i - k \in DOMAIN SubSeq(h, k + 1, l)
        BY <1>4, <4>1
      <4>4. h[i] \in ToSet(SubSeq(h, k + 1, l))
        BY <4>2, <4>3 DEF ToSet
      <4> QED
        BY <4>4
    <3> QED
      BY <1>2, <3>1, <3>2
  <2>2. \A i \in 1..k : SubSeq(h, 1, k)[i] \in ToSet(h)
    BY <1>1, <1>2, <1>5, SMTT(30) DEF ToSet
  <2>3. ASSUME NEW i \in 1..n
        PROVE  SubSeq(h, k + 1, l)[i] \in ToSet(h)
    <3>1. k + i \in 1..l
      BY <1>1, <1>2
    <3> QED
      BY <1>1, <1>4, <3>1 DEF ToSet
  <2> QED
    BY <1>1, <1>4, <1>5, <2>1, <2>2, <2>3, SMTT(30) DEF ToSet
<1>7. Len(h) - n = k
  BY <1>1, <1>2
<1> QED
  BY <1>3, <1>4, <1>6, <1>7

\* The end of an answered history is answered.
LEMMA LastOnesAnswered ==
  ASSUME NEW h \in Seq(HistoryEntries), NEW n \in Nat, n <= Len(h), Answered(h)
  PROVE  Answered(LastOnes(h, n))
<1>1. PICK e \in Seq(HistoryEntries) : e = LastOnes(h, n)
  BY LastOnesFacts
<1>2. PICK l \in Nat : l = Len(h)
  OBVIOUS
<1>3. PICK k \in Nat : k = l - n
  <2>1. n <= l
    BY <1>2
  <2>2. l - n \in Nat
    BY <2>1
  <2> QED
    BY <2>2
<1>4. Len(e) = n /\ \A i \in 1..n : e[i] = h[k + i]
  BY <1>1, <1>2, <1>3, LastOnesFacts, SMTT(30)
<1>5. ASSUME NEW i \in 1..n, e[i].role = "calls", NEW j \in 1..e[i].call
      PROVE  i + j <= n /\ e[i + j] = ResultOf(e[i], j)
  <2>1. k + i \in 1..l /\ h[k + i].role = "calls" /\ e[i] = h[k + i]
    BY <1>2, <1>3, <1>4, <1>5
  <2>2. (k + i) + j <= l /\ h[(k + i) + j] = ResultOf(h[k + i], j)
    BY <1>2, <1>5, <2>1 DEF Answered, AnsweredUpTo
  <2>3. j \in Int /\ j >= 1
    <3>1. h[k + i] \in HistoryEntries
      BY <1>2, <2>1
    <3>2. h[k + i].call \in Nat
      BY <3>1 DEF HistoryEntries
    <3> QED
      BY <2>1, <3>2
  <2>4. i + j \in 1..n /\ k + (i + j) = (k + i) + j
    BY <1>3, <2>2, <2>3
  <2>5. e[i + j] = h[(k + i) + j]
    BY <1>4, <2>4
  <2>6. i + j <= n
    BY <2>4
  <2> QED
    BY <2>1, <2>2, <2>5, <2>6
<1> QED
  BY <1>1, <1>4, <1>5 DEF Answered, AnsweredUpTo

\* A history with one more entry.
LEMMA OneMoreEntry ==
  ASSUME NEW h \in Seq(HistoryEntries), NEW n \in Nat, NEW i \in Nat, NEW k \in Nat,
         NEW role \in {"user", "calls", "tool", "reply"}
  PROVE  /\ Entry(n, i, role, k) \in HistoryEntries
         /\ Append(h, Entry(n, i, role, k)) \in Seq(HistoryEntries)
         /\ ToSet(Append(h, Entry(n, i, role, k))) = ToSet(h) \cup {Entry(n, i, role, k)}
<1>1. PICK e : e = Entry(n, i, role, k)
  OBVIOUS
<1>2. e \in HistoryEntries
  BY <1>1 DEF Entry, HistoryEntries
<1>3. /\ Append(h, e) \in Seq(HistoryEntries) /\ Len(h) \in Nat
      /\ DOMAIN Append(h, e) = 1..(Len(h) + 1) /\ DOMAIN h = 1..Len(h)
      /\ \A j \in 1..Len(h) : Append(h, e)[j] = h[j]
      /\ Append(h, e)[Len(h) + 1] = e
  BY <1>2, AppendFacts
<1>4. ToSet(Append(h, e)) = ToSet(h) \cup {e}
  BY <1>3 DEF ToSet
<1> QED
  BY <1>1, <1>2, <1>3, <1>4

\* Two histories that begin alike.
LEMMA SamePrefixAnswered ==
  ASSUME NEW h \in Seq(HistoryEntries), NEW g, NEW l \in Nat, l <= Len(h), AnsweredUpTo(h, l),
         \A i \in 1..l : g[i] = h[i]
  PROVE  AnsweredUpTo(g, l)
<1> SUFFICES ASSUME NEW i \in 1..l, g[i].role = "calls", NEW k \in 1..g[i].call
             PROVE  i + k <= l /\ g[i + k] = ResultOf(g[i], k)
  BY DEF AnsweredUpTo
<1>1. g[i] = h[i] /\ h[i].call \in Nat
  <2>1. h[i] \in HistoryEntries
    OBVIOUS
  <2> QED
    BY <2>1 DEF HistoryEntries
<1>2. i + k <= l /\ h[i + k] = ResultOf(h[i], k)
  BY <1>1 DEF AnsweredUpTo
<1>3. i + k \in 1..l
  BY <1>1, <1>2
<1> QED
  BY <1>1, <1>2, <1>3

LEMMA OneMoreAnswered ==
  ASSUME NEW h \in Seq(HistoryEntries), Answered(h), NEW e \in HistoryEntries, e.role # "calls"
  PROVE  Answered(Append(h, e))
<1>1. /\ Append(h, e) \in Seq(HistoryEntries) /\ Len(h) \in Nat
      /\ Len(Append(h, e)) = Len(h) + 1
      /\ \A j \in 1..Len(h) : Append(h, e)[j] = h[j]
      /\ Append(h, e)[Len(h) + 1] = e
  BY AppendFacts
<1>2. PICK l \in Nat, g \in Seq(HistoryEntries) : l = Len(h) /\ g = Append(h, e)
  BY <1>1
<1>3. /\ Len(g) = l + 1 /\ g[l + 1] = e /\ \A j \in 1..l : g[j] = h[j]
  BY <1>1, <1>2
<1>4. ASSUME NEW i \in 1..(l + 1), g[i].role = "calls", NEW k \in 1..g[i].call
      PROVE  i + k <= l + 1 /\ g[i + k] = ResultOf(g[i], k)
  <2>1. i \in 1..l /\ h[i].role = "calls" /\ g[i] = h[i]
    BY <1>3, <1>4
  <2>2. i + k <= l /\ h[i + k] = ResultOf(h[i], k)
    BY <1>2, <1>4, <2>1 DEF Answered, AnsweredUpTo
  <2>3. k \in Int /\ k >= 1
    BY <1>2, <1>4, <2>1 DEF HistoryEntries
  <2>4. i + k \in 1..l
    BY <2>1, <2>2, <2>3
  <2> QED
    BY <1>3, <2>1, <2>2, <2>4
<1> QED
  BY <1>2, <1>3, <1>4 DEF Answered, AnsweredUpTo

\* An archive that takes the name of another one.
LEMMA ArchiveFacts ==
  ASSUME NEW past, WriteArchive(past)
  PROVE  /\ past \subseteq Archives' /\ Archives' \subseteq Archives \cup past
         /\ Archives \subseteq Archives' \cup replaced' /\ replaced \subseteq replaced'
<1>1. CASE archive' = archive \cup {past} /\ UNCHANGED replaced
  BY <1>1 DEF Archives
<1>2. CASE \E f \in archive :
             /\ archive' = (archive \ {f}) \cup {past}
             /\ replaced' = replaced \cup f
  <2>1. PICK f \in archive : /\ archive' = (archive \ {f}) \cup {past}
                             /\ replaced' = replaced \cup f
    BY <1>2
  <2>2. \A g \in archive : g \in archive' \/ g = f
    BY <2>1
  <2> QED
    BY <2>1, <2>2 DEF Archives
<1> QED
  BY <1>1, <1>2 DEF WriteArchive

\* A compaction begins: the past is archived and told by the summary, or a summary that
\* could not be made is given up.
LEMMA CompactionKeeps ==
  ASSUME HistoryInv, Len(saved) > KeepMessages,
         WriteArchive(ToSet(Archived(saved))),
         ToSet(Archived(saved)) \subseteq summary' \cup untold',
         summary \cup untold \subseteq summary' \cup untold',
         retained' = LastOnes(saved, KeepMessages), phase' = "summarized",
         turnNo' = turnNo, roundNo' = roundNo, callNo' = callNo, working' = working, saved' = saved,
         phase # "tools", effects' = effects, cutRound' = cutRound, everSaved' = everSaved,
         trimmedOff' = trimmedOff
  PROVE  HistoryInv'
<1> USE AgentHistoryAssumption
<1>1. saved \in Seq(HistoryEntries) /\ KeepMessages <= Len(saved) /\ Answered(saved)
  BY DEF HistoryInv, HistoryTypeInv
<1>2. /\ LastOnes(saved, KeepMessages) \in Seq(HistoryEntries)
      /\ ToSet(saved) = ToSet(Archived(saved)) \cup ToSet(LastOnes(saved, KeepMessages))
      /\ Answered(LastOnes(saved, KeepMessages))
  BY <1>1, LastOnesFacts, LastOnesAnswered DEF Archived
<1>3. PICK past : past = ToSet(Archived(saved))
  OBVIOUS
<1>4. /\ past \subseteq Archives' /\ Archives' \subseteq Archives \cup past
      /\ Archives \subseteq Archives' \cup replaced' /\ replaced \subseteq replaced'
  BY <1>3, ArchiveFacts
<1>5. HistoryTypeInv'
  BY <1>2 DEF HistoryInv, HistoryTypeInv
<1>6. ToSet(saved') \subseteq ToSet(retained') \cup Archives'
  BY <1>2, <1>3, <1>4
<1>7. HistoryUnderWay'
  BY <1>2, <1>6 DEF HistoryUnderWay, Answered, AnsweredUpTo
<1>8. KeptInv'
  BY <1>3, <1>4 DEF HistoryInv, KeptInv
<1>9. EffectsKept'
  BY DEF HistoryInv, EffectsKept
<1> QED
  BY <1>5, <1>7, <1>8, <1>9 DEF HistoryInv, Answered, AnsweredUpTo

LEMMA FastCompactsKeeps == HistoryInv /\ FastCompacts => HistoryInv'
<1> SUFFICES ASSUME HistoryInv, FastCompacts
             PROVE  HistoryInv'
  OBVIOUS
<1>1. Len(saved) > KeepMessages
  <2>1. Len(saved) \in Nat
    BY DEF HistoryInv, HistoryTypeInv
  <2> QED
    BY <2>1, AgentHistoryAssumption DEF FastCompacts, MustCompact
<1>2. /\ WriteArchive(ToSet(Archived(saved)))
      /\ summary' = summary \cup ToSet(Archived(saved)) /\ untold' = untold
  BY DEF FastCompacts, Merged
<1> QED
  BY <1>1, <1>2, CompactionKeeps DEF FastCompacts

LEMMA SummarizesKeeps == HistoryInv /\ Summarizes => HistoryInv'
<1> SUFFICES ASSUME HistoryInv, Summarizes
             PROVE  HistoryInv'
  OBVIOUS
<1>1. PICK past : past = ToSet(Archived(saved))
  OBVIOUS
<1>2. /\ WriteArchive(past)
      /\ \/ summary' = summary \cup past /\ untold' = untold
         \/ summary' = past /\ untold' = untold \cup (summary \ past)
  BY <1>1 DEF Summarizes, Merged
<1>3. past \subseteq summary' \cup untold' /\ summary \cup untold \subseteq summary' \cup untold'
  BY <1>2
<1> QED
  BY <1>1, <1>2, <1>3, CompactionKeeps DEF Summarizes, TooLarge

LEMMA WritesRetainedKeeps == HistoryInv /\ WritesRetained => HistoryInv'
<1> SUFFICES ASSUME HistoryInv, WritesRetained
             PROVE  HistoryInv'
  OBVIOUS
<1> USE DEF WritesRetained, SaveHistory
<1>1. Archives' = Archives
  BY DEF Archives
<1>2. HistoryTypeInv'
  BY DEF HistoryInv, HistoryTypeInv
<1>3. HistoryUnderWay'
  BY DEF HistoryUnderWay
<1>4. ToSet(saved) \subseteq ToSet(retained) \cup Archives /\ Answered(retained)
  BY DEF HistoryInv, HistoryUnderWay
<1>5. PICK new : new = retained
  OBVIOUS
<1>6. ToSet(saved) \subseteq ToSet(new) \cup Archives /\ saved' = new
      /\ everSaved' = everSaved \cup ToSet(new)
  BY <1>4, <1>5
<1>7. KeptInv'
  BY <1>1, <1>6 DEF HistoryInv, KeptInv
<1>8. Answered(saved')
  BY <1>4
<1>9. EffectsKept'
  BY DEF HistoryInv, EffectsKept
<1> QED
  BY <1>2, <1>3, <1>7, <1>8, <1>9 DEF HistoryInv, Answered, AnsweredUpTo

LEMMA TurnBeginsKeeps == HistoryInv /\ TurnBegins => HistoryInv'
<1> SUFFICES ASSUME HistoryInv, TurnBegins
             PROVE  HistoryInv'
  OBVIOUS
<1> USE DEF TurnBegins
<1>1. PICK n \in Nat : n = turnNo'
  BY DEF HistoryInv, HistoryTypeInv
<1>2. PICK e : e = Entry(n, 0, "user", 0)
  OBVIOUS
<1>3. /\ saved \in Seq(HistoryEntries) /\ e \in HistoryEntries /\ e.role = "user"
      /\ Append(saved, e) \in Seq(HistoryEntries)
      /\ ToSet(Append(saved, e)) = ToSet(saved) \cup {e}
  <2>1. saved \in Seq(HistoryEntries)
    BY DEF HistoryInv, HistoryTypeInv
  <2>2. e.role = "user"
    BY <1>2 DEF Entry
  <2> QED
    BY <1>2, <2>1, <2>2, OneMoreEntry
<1>4. Answered(Append(saved, e))
  BY <1>3, OneMoreAnswered DEF HistoryInv
<1>5. working' = Append(saved, e)
  BY <1>1, <1>2
<1>6. HistoryTypeInv'
  BY <1>1, <1>3, <1>5 DEF HistoryInv, HistoryTypeInv
<1>7. HistoryUnderWay'
  BY <1>3, <1>4, <1>5 DEF HistoryUnderWay, Answered, AnsweredUpTo
<1>8. KeptInv'
  BY DEF HistoryInv, KeptInv, Archives
<1>9. EffectsKept'
  BY DEF HistoryInv, EffectsKept
<1> QED
  BY <1>6, <1>7, <1>8, <1>9 DEF HistoryInv, Answered, AnsweredUpTo

LEMMA TrimsKeeps == HistoryInv /\ Trims => HistoryInv'
<1> SUFFICES ASSUME HistoryInv, Trims
             PROVE  HistoryInv'
  OBVIOUS
<1> USE DEF Trims
<1>1. PICK room : /\ room = ModelWindow - Size(<<>>) /\ room >= 1
                  /\ working' = LastOnes(working, room)
                  /\ trimmedOff' = trimmedOff \cup
                       ToSet(SubSeq(working, 1, Len(working) - room))
  OBVIOUS
<1>2. /\ working \in Seq(HistoryEntries) /\ Len(working) \in Nat /\ Answered(working)
      /\ ToSet(saved) \subseteq ToSet(working) \cup trimmedOff
  BY DEF HistoryInv, HistoryTypeInv, HistoryUnderWay
<1>3. room \in Nat /\ room <= Len(working)
  <2>1. Len(<<>>) = 0
    OBVIOUS
  <2>2. PICK s \in {0, 1} : s = IF summary = {} THEN 0 ELSE 1
    OBVIOUS
  <2>3. Size(<<>>) = s /\ Size(working) = Len(working) + s
    BY <1>2, <2>1, <2>2 DEF Size
  <2>4. Len(working) + s > ModelWindow
    BY <1>2, <2>3, AgentHistoryAssumption DEF Fits
  <2> QED
    BY <1>1, <1>2, <2>3, <2>4, AgentHistoryAssumption
<1>4. /\ LastOnes(working, room) \in Seq(HistoryEntries)
      /\ ToSet(working) = ToSet(SubSeq(working, 1, Len(working) - room))
                          \cup ToSet(LastOnes(working, room))
      /\ Answered(LastOnes(working, room))
  BY <1>2, <1>3, LastOnesFacts, LastOnesAnswered
<1>5. HistoryTypeInv'
  BY <1>1, <1>4 DEF HistoryInv, HistoryTypeInv
<1>6. ToSet(saved') \subseteq ToSet(working') \cup trimmedOff'
  BY <1>1, <1>2, <1>4
<1>7. phase' = "asking" /\ Answered(working')
  BY <1>1, <1>4
<1>8. HistoryUnderWay'
  BY <1>6, <1>7 DEF HistoryInv, HistoryUnderWay, Answered, AnsweredUpTo
<1>9. KeptInv'
  BY <1>1 DEF HistoryInv, KeptInv, Archives
<1>10. EffectsKept'
  BY DEF HistoryInv, EffectsKept
<1> QED
  BY <1>5, <1>8, <1>9, <1>10 DEF HistoryInv, Answered, AnsweredUpTo

LEMMA AsksForToolsKeeps ==
  ASSUME HistoryInv, NEW n \in Nat \ {0}, AsksForTools(n)
  PROVE  HistoryInv'
<1>1. /\ working \in Seq(HistoryEntries) /\ Answered(working)
      /\ turnNo \in Nat /\ roundNo \in Nat /\ callNo = 0
      /\ ToSet(saved) \subseteq ToSet(working) \cup trimmedOff
  BY DEF HistoryInv, HistoryTypeInv, HistoryUnderWay, AsksForTools
<1>2. PICK e : e = Entry(turnNo, roundNo, "calls", n)
  OBVIOUS
<1>3. /\ e \in HistoryEntries /\ Append(working, e) \in Seq(HistoryEntries)
      /\ ToSet(Append(working, e)) = ToSet(working) \cup {e}
  BY <1>1, <1>2, OneMoreEntry
<1>4. /\ Len(working) \in Nat /\ Len(Append(working, e)) = Len(working) + 1
      /\ Append(working, e)[Len(working) + 1] = e
      /\ \A i \in 1..Len(working) : Append(working, e)[i] = working[i]
  BY <1>1, <1>3, AppendFacts
<1>5. PICK l \in Nat, new \in Seq(HistoryEntries) : l = Len(working) /\ new = Append(working, e)
  BY <1>3, <1>4
<1>6. /\ Len(new) = l + 1 /\ new[l + 1] = e /\ \A i \in 1..l : new[i] = working[i]
      /\ ToSet(new) = ToSet(working) \cup {e}
  BY <1>3, <1>4, <1>5
<1>7. AnsweredUpTo(new, l)
  <2>1. l <= Len(working) /\ AnsweredUpTo(working, l)
    BY <1>1, <1>5 DEF Answered
  <2> QED
    BY <1>1, <1>6, <2>1, SamePrefixAnswered
<1>8. /\ working' = new /\ phase' = "tools"
      /\ UNCHANGED <<turnNo, roundNo, callNo, saved, summary, archive, replaced, retained, effects,
                     cutRound, everSaved, trimmedOff, untold>>
  BY <1>2, <1>5 DEF AsksForTools
<1>9. AnsweredSoFar(working)'
  <2>1. AnsweredUpTo(working', l)
    BY <1>7, <1>8
  <2>2. Len(working') = l + 1 + callNo' /\ callNo' < n
    BY <1>1, <1>6, <1>8
  <2>3. working'[l + 1] = Entry(turnNo', roundNo', "calls", n)
    BY <1>2, <1>6, <1>8
  <2>4. \A k \in 1..callNo' : FALSE
    BY <1>1, <1>8
  <2>5. OpenRound(working, l, n)'
    BY <2>1, <2>2, <2>3, <2>4 DEF OpenRound, AnsweredUpTo, ResultOf, Entry
  <2> QED
    BY <2>5 DEF AnsweredSoFar
<1>10. HistoryTypeInv'
  BY <1>8 DEF HistoryInv, HistoryTypeInv
<1>11. HistoryUnderWay'
  BY <1>1, <1>6, <1>8, <1>9 DEF HistoryUnderWay
<1>12. KeptInv'
  BY <1>8 DEF HistoryInv, KeptInv, Archives
<1>13. EffectsKept'
  BY <1>8 DEF HistoryInv, EffectsKept, AsksForTools
<1> QED
  BY <1>8, <1>10, <1>11, <1>12, <1>13 DEF HistoryInv, Answered, AnsweredUpTo

LEMMA ToolActsKeeps == HistoryInv /\ ToolActs => HistoryInv'
<1> SUFFICES ASSUME HistoryInv, ToolActs
             PROVE  HistoryInv'
  OBVIOUS
<1>1. /\ effects' = effects \cup {Entry(turnNo, roundNo, "tool", callNo + 1)}
      /\ phase = "tools" /\ callNo \in Nat
      /\ UNCHANGED <<phase, turnNo, roundNo, callNo, working, saved, summary, archive, replaced,
                     retained, cutRound, everSaved, trimmedOff, untold>>
  BY DEF ToolActs, HistoryInv, HistoryTypeInv
<1>2. HistoryTypeInv' /\ KeptInv' /\ Answered(saved)'
  BY <1>1 DEF HistoryInv, HistoryTypeInv, KeptInv, Archives, Answered, AnsweredUpTo
<1>3. HistoryUnderWay'
  BY <1>1 DEF HistoryInv, HistoryUnderWay, AnsweredSoFar, OpenRound, AnsweredUpTo, Entry
<1>4. EffectsKept'
  <2>1. callNo + 1 \in 1..(callNo + 1)
    BY <1>1
  <2>2. /\ turnNo' = turnNo /\ roundNo' = roundNo /\ callNo' = callNo
        /\ everSaved' = everSaved /\ cutRound' = cutRound /\ phase' = "tools"
    BY <1>1
  <2> QED
    BY <1>1, <2>1, <2>2 DEF HistoryInv, EffectsKept, Entry
<1> QED
  BY <1>2, <1>3, <1>4 DEF HistoryInv

LEMMA ResultOfCalls ==
  ASSUME NEW t, NEW i, NEW n, NEW k
  PROVE  ResultOf(Entry(t, i, "calls", n), k) = Entry(t, i, "tool", k)
BY DEF ResultOf, Entry

\* The result of the next call of a round joins the history: it closes the round, or
\* leaves it open for the call after it.
LEMMA ResultJoins ==
  ASSUME HistoryInv, phase = "tools", NEW l \in Nat, NEW n \in Nat, OpenRound(working, l, n),
         NEW new \in Seq(HistoryEntries),
         Len(new) = Len(working) + 1,
         \A i \in 1..Len(working) : new[i] = working[i],
         new[Len(working) + 1] = Entry(turnNo, roundNo, "tool", callNo + 1)
  PROVE  /\ Len(new) = l + 2 + callNo
         /\ \A k \in 1..(callNo + 1) : new[l + 1 + k] = Entry(turnNo, roundNo, "tool", k)
         /\ new[l + 1] = Entry(turnNo, roundNo, "calls", n)
         /\ AnsweredUpTo(new, l)
         /\ callNo + 1 = n => Answered(new)
         /\ RoundEnds <=> callNo + 1 = n
<1>1. PICK c \in Nat : c = callNo
  BY DEF HistoryInv, HistoryTypeInv
<1>2. PICK m \in Nat : m = Len(working) /\ m = l + 1 + c
  BY <1>1 DEF OpenRound
<1>3. /\ Len(new) = m + 1 /\ new[m + 1] = Entry(turnNo, roundNo, "tool", c + 1)
      /\ \A i \in 1..m : new[i] = working[i]
  BY <1>1, <1>2
<1>4. /\ working[l + 1] = Entry(turnNo, roundNo, "calls", n) /\ c < n
      /\ \A k \in 1..c : working[l + 1 + k] = Entry(turnNo, roundNo, "tool", k)
      /\ AnsweredUpTo(working, l)
  BY <1>1 DEF OpenRound
<1>5. ASSUME NEW k \in 1..(c + 1)
      PROVE  new[l + 1 + k] = Entry(turnNo, roundNo, "tool", k)
  <2>1. CASE k \in 1..c
    <3>1. l + 1 + k \in 1..m
      BY <1>2, <2>1
    <3> QED
      BY <1>3, <1>4, <2>1, <3>1
  <2>2. CASE k = c + 1
    <3>1. l + 1 + k = m + 1
      BY <1>2, <2>2
    <3> QED
      BY <1>3, <2>2, <3>1
  <2> QED
    BY <2>1, <2>2
<1>6. new[l + 1] = Entry(turnNo, roundNo, "calls", n)
  <2>1. l + 1 \in 1..m
    BY <1>2
  <2> QED
    BY <1>3, <1>4, <2>1
<1>7. AnsweredUpTo(new, l)
  <2>1. \A i \in 1..l : new[i] = working[i]
    BY <1>2, <1>3
  <2>2. working \in Seq(HistoryEntries) /\ l <= Len(working)
    BY <1>2 DEF HistoryInv, HistoryTypeInv
  <2> QED
    BY <1>4, <2>1, <2>2, SamePrefixAnswered
<1>8. ASSUME c + 1 = n
      PROVE  Answered(new)
  <2>1. Len(new) = l + 1 + n
    BY <1>2, <1>3, <1>8
  <2>2. ASSUME NEW i \in 1..(l + 1 + n), new[i].role = "calls", NEW k \in 1..new[i].call
        PROVE  i + k <= l + 1 + n /\ new[i + k] = ResultOf(new[i], k)
    <3>1. CASE i \in 1..l
      <4>1. i + k <= l /\ new[i + k] = ResultOf(new[i], k)
        BY <1>7, <2>2, <3>1 DEF AnsweredUpTo
      <4>2. k \in Int
        BY <2>1, <2>2 DEF HistoryEntries
      <4> QED
        BY <4>1, <4>2
    <3>2. CASE i = l + 1
      <4>1. k \in 1..n
        BY <1>6, <2>2, <3>2 DEF Entry
      <4>2. new[l + 1 + k] = Entry(turnNo, roundNo, "tool", k)
        BY <1>5, <1>8, <4>1
      <4>3. ResultOf(new[i], k) = Entry(turnNo, roundNo, "tool", k)
        BY <1>6, <3>2, ResultOfCalls
      <4> QED
        BY <3>2, <4>1, <4>2, <4>3
    <3>3. CASE i > l + 1
      <4>1. PICK j \in 1..(c + 1) : l + 1 + j = i
        <5>1. i - (l + 1) \in 1..(c + 1) /\ l + 1 + (i - (l + 1)) = i
          BY <1>8, <3>3
        <5> QED
          BY <5>1
      <4>2. new[i] = Entry(turnNo, roundNo, "tool", j)
        BY <1>5, <4>1
      <4>3. new[i].role = "tool"
        BY <4>2 DEF Entry
      <4> QED
        BY <2>2, <4>3
    <3> QED
      BY <3>1, <3>2, <3>3
  <2> QED
    BY <2>1, <2>2 DEF Answered, AnsweredUpTo
<1>9. RoundEnds <=> c + 1 = n
  <2>1. Len(working) - callNo = l + 1
    BY <1>1, <1>2
  <2>2. working[Len(working) - callNo].call = n
    BY <1>4, <2>1 DEF Entry
  <2> QED
    BY <1>1, <2>2 DEF RoundEnds
<1>10. Len(new) = l + 2 + c
  BY <1>2, <1>3
<1> QED
  BY <1>1, <1>5, <1>6, <1>7, <1>8, <1>9, <1>10

LEMMA ToolReturnsKeeps == HistoryInv /\ ToolReturns => HistoryInv'
<1> SUFFICES ASSUME HistoryInv, ToolReturns
             PROVE  HistoryInv'
  OBVIOUS
<1>1. /\ working \in Seq(HistoryEntries) /\ AnsweredSoFar(working) /\ phase = "tools"
      /\ turnNo \in Nat /\ roundNo \in Nat /\ callNo \in Nat
      /\ ToSet(saved) \subseteq ToSet(working) \cup trimmedOff
  BY DEF HistoryInv, HistoryTypeInv, HistoryUnderWay, ToolReturns
<1>2. PICK e : e = Entry(turnNo, roundNo, "tool", callNo + 1)
  OBVIOUS
<1>3. /\ e \in HistoryEntries /\ Append(working, e) \in Seq(HistoryEntries)
      /\ ToSet(Append(working, e)) = ToSet(working) \cup {e}
  <2>1. callNo + 1 \in Nat
    BY <1>1
  <2> QED
    BY <1>1, <1>2, <2>1, OneMoreEntry
<1>4. PICK new \in Seq(HistoryEntries) :
        /\ new = Append(working, e) /\ Len(new) = Len(working) + 1 /\ new[Len(working) + 1] = e
        /\ \A i \in 1..Len(working) : new[i] = working[i]
        /\ ToSet(new) = ToSet(working) \cup {e}
  <2>1. /\ Len(Append(working, e)) = Len(working) + 1
        /\ Append(working, e)[Len(working) + 1] = e
        /\ \A i \in 1..Len(working) : Append(working, e)[i] = working[i]
    BY <1>1, <1>3, AppendFacts
  <2> QED
    BY <1>3, <2>1
<1>5. PICK l \in Nat, n \in Nat : OpenRound(working, l, n)
  BY <1>1 DEF AnsweredSoFar
<1>6. /\ Len(new) = l + 2 + callNo
      /\ \A k \in 1..(callNo + 1) : new[l + 1 + k] = Entry(turnNo, roundNo, "tool", k)
      /\ new[l + 1] = Entry(turnNo, roundNo, "calls", n)
      /\ AnsweredUpTo(new, l)
      /\ callNo + 1 = n => Answered(new)
      /\ RoundEnds <=> callNo + 1 = n
  BY <1>1, <1>2, <1>4, <1>5, ResultJoins
<1>7. /\ working' = new
      /\ UNCHANGED <<turnNo, summary, archive, replaced, retained, effects, cutRound, trimmedOff,
                     untold>>
  BY <1>2, <1>4 DEF ToolReturns
<1>8. CASE RoundEnds
  <2>1. /\ saved' = new /\ everSaved' = everSaved \cup ToSet(new)
        /\ callNo' = 0 /\ roundNo' = roundNo + 1 /\ phase' = "asking"
    BY <1>7, <1>8 DEF ToolReturns, SavesRound, SaveHistory
  <2>2. Answered(new)
    BY <1>6, <1>8
  <2>3. HistoryTypeInv'
    BY <1>1, <1>7, <2>1 DEF HistoryInv, HistoryTypeInv
  <2>4. HistoryUnderWay'
    BY <1>7, <2>1, <2>2 DEF HistoryUnderWay, Answered, AnsweredUpTo
  <2>5. KeptInv'
    BY <1>1, <1>4, <1>7, <2>1 DEF HistoryInv, KeptInv, Archives
  <2>6. EffectsKept'
    <3>1. ASSUME NEW k \in 1..(callNo + 1)
          PROVE  Entry(turnNo, roundNo, "tool", k) \in ToSet(new)
      <4>1. l + 1 + k \in 1..Len(new)
        BY <1>1, <1>6
      <4>2. new[l + 1 + k] = Entry(turnNo, roundNo, "tool", k)
        BY <1>6
      <4>3. DOMAIN new = 1..Len(new)
        OBVIOUS
      <4> QED
        BY <4>1, <4>2, <4>3 DEF ToSet
    <3> QED
      BY <1>7, <2>1, <3>1 DEF HistoryInv, EffectsKept
  <2> QED
    BY <2>1, <2>2, <2>3, <2>4, <2>5, <2>6 DEF HistoryInv, Answered, AnsweredUpTo
<1>9. CASE ~RoundEnds
  <2>1. /\ saved' = saved /\ everSaved' = everSaved
        /\ callNo' = callNo + 1 /\ roundNo' = roundNo /\ phase' = "tools"
    BY <1>1, <1>7, <1>9 DEF ToolReturns, SavesRound
  <2>2. OpenRound(working, l, n)'
    <3>1. callNo < n
      BY <1>5 DEF OpenRound
    <3>2. callNo' < n /\ Len(new) = l + 1 + callNo'
      BY <1>1, <1>6, <1>9, <2>1, <3>1
    <3> QED
      BY <1>6, <1>7, <2>1, <3>2 DEF OpenRound, AnsweredUpTo, Entry, ResultOf
  <2>3. HistoryTypeInv'
    BY <1>1, <1>7, <2>1 DEF HistoryInv, HistoryTypeInv
  <2>4. HistoryUnderWay'
    <3>1. AnsweredSoFar(working)'
      BY <2>2 DEF AnsweredSoFar
    <3> QED
      BY <1>1, <1>4, <1>7, <2>1, <3>1 DEF HistoryUnderWay
  <2>5. KeptInv'
    BY <1>7, <2>1 DEF HistoryInv, KeptInv, Archives
  <2>6. EffectsKept'
    <3>1. \A k \in 1..(callNo + 1) : k \in 1..(callNo' + 1)
      BY <1>1, <2>1
    <3> QED
      BY <1>7, <2>1, <3>1 DEF HistoryInv, EffectsKept, Entry
  <2> QED
    BY <2>1, <2>3, <2>4, <2>5, <2>6 DEF HistoryInv, Answered, AnsweredUpTo
<1> QED
  BY <1>8, <1>9

LEMMA ConcludesKeeps == HistoryInv /\ Concludes => HistoryInv'
<1> SUFFICES ASSUME HistoryInv, Concludes
             PROVE  HistoryInv'
  OBVIOUS
<1>1. /\ working \in Seq(HistoryEntries) /\ Answered(working)
      /\ turnNo \in Nat /\ roundNo \in Nat
      /\ ToSet(saved) \subseteq ToSet(working) \cup trimmedOff
  BY DEF HistoryInv, HistoryTypeInv, HistoryUnderWay, Concludes
<1>2. PICK e : e = Entry(turnNo, roundNo, "reply", 0)
  OBVIOUS
<1>3. /\ e \in HistoryEntries /\ Append(working, e) \in Seq(HistoryEntries)
      /\ ToSet(Append(working, e)) = ToSet(working) \cup {e}
  BY <1>1, <1>2, OneMoreEntry
<1>4. e.role = "reply"
  BY <1>2 DEF Entry
<1>5. Answered(Append(working, e))
  BY <1>1, <1>3, <1>4, OneMoreAnswered
<1>6. PICK new \in Seq(HistoryEntries) : new = Append(working, e)
  BY <1>3
<1>7. /\ working' = new /\ saved' = new /\ everSaved' = everSaved \cup ToSet(new)
      /\ ToSet(new) = ToSet(working) \cup {e} /\ Answered(new)
  BY <1>2, <1>3, <1>5, <1>6 DEF Concludes, SaveHistory
<1>8. HistoryTypeInv'
  BY <1>6, <1>7 DEF HistoryInv, HistoryTypeInv, Concludes
<1>9. HistoryUnderWay'
  BY DEF HistoryUnderWay, Concludes
<1>10. KeptInv'
  BY <1>1, <1>7 DEF HistoryInv, KeptInv, Archives, Concludes
<1>11. EffectsKept'
  BY <1>7 DEF HistoryInv, EffectsKept, Concludes
<1> QED
  BY <1>7, <1>8, <1>9, <1>10, <1>11 DEF HistoryInv, Answered, AnsweredUpTo

\* The container comes or goes, or the turn ends: no file is written.
LEMMA NothingWritten ==
  ASSUME HistoryInv, phase' \in {"down", "ready"},
         working' = working \/ working' = <<>>, retained' = retained \/ retained' = <<>>,
         turnNo' = turnNo, roundNo' = roundNo, callNo' = callNo \/ callNo' = 0, saved' = saved, summary' = summary,
         archive' = archive, replaced' = replaced, effects' = effects,
         cutRound \subseteq cutRound', phase = "tools" => ThisRound \subseteq cutRound',
         everSaved' = everSaved, trimmedOff' = trimmedOff, untold' = untold
  PROVE  HistoryInv'
<1>1. HistoryTypeInv'
  <2>1. /\ saved \in Seq(HistoryEntries) /\ working \in Seq(HistoryEntries)
        /\ retained \in Seq(HistoryEntries)
        /\ turnNo \in Nat /\ roundNo \in Nat /\ callNo \in Nat
    BY DEF HistoryInv, HistoryTypeInv
  <2>2. <<>> \in Seq(HistoryEntries)
    OBVIOUS
  <2>3. working' \in Seq(HistoryEntries)
    BY <2>1, <2>2
  <2>4. retained' \in Seq(HistoryEntries)
    BY <2>1, <2>2
  <2>5. callNo' \in Nat
    BY <2>1
  <2> QED
    BY <2>1, <2>3, <2>4, <2>5 DEF HistoryTypeInv
<1>2. HistoryUnderWay'
  BY DEF HistoryUnderWay
<1>3. KeptInv'
  BY DEF HistoryInv, KeptInv, Archives
<1>4. EffectsKept'
  <2> SUFFICES ASSUME NEW e \in effects
               PROVE  e \in everSaved' \cup cutRound'
    BY DEF EffectsKept
  <2>1. CASE \E k \in 1..(callNo + 1) : phase = "tools" /\ e = Entry(turnNo, roundNo, "tool", k)
    BY <2>1 DEF ThisRound, Entry
  <2> QED
    BY <2>1 DEF HistoryInv, EffectsKept
<1> QED
  BY <1>1, <1>2, <1>3, <1>4 DEF HistoryInv, Answered, AnsweredUpTo

\* HistoryCorrect (saveHistory, trimHistoryToFitContext, fastCompactHistory and
\* archiveAndCompactHistory of container/agent-runner/src/index.ts): history, summary and
\* archive together keep what happened, across kills, trimming and compaction.
THEOREM HistoryIsCorrect == ServicesSpec => []HistoryCorrect
<1>1. ServicesInit => HistoryInv
  <2> SUFFICES ASSUME AgentHistoryInit PROVE HistoryInv
    BY DEF ServicesInit
  <2> USE DEF AgentHistoryInit
  <2>1. <<>> \in Seq(HistoryEntries) /\ ToSet(<<>>) = {}
    BY DEF ToSet
  <2>2. HistoryTypeInv
    BY <2>1 DEF HistoryTypeInv
  <2>3. HistoryUnderWay /\ Answered(saved)
    BY DEF HistoryUnderWay, Answered, AnsweredUpTo
  <2>4. KeptInv /\ EffectsKept
    BY DEF KeptInv, EffectsKept, Archives
  <2> QED
    BY <2>2, <2>3, <2>4 DEF HistoryInv
<1>2. HistoryInv /\ [ServicesNext]_servicesVars => HistoryInv'
  <2> SUFFICES ASSUME HistoryInv, AgentHistoryNext \/ UNCHANGED agentHistoryVars
               PROVE  HistoryInv'
    BY DEF ServicesNext, servicesVars
  <2>1. CASE AgentStartsUp
    BY <2>1, NothingWritten DEF AgentStartsUp
  <2>2. CASE TurnThrows
    BY <2>2, NothingWritten DEF TurnThrows
  <2>3. CASE KeepsAll
    BY <2>3, NothingWritten DEF KeepsAll
  <2>4. CASE Killed
    BY <2>4, NothingWritten DEF Killed
  <2>5. CASE UNCHANGED agentHistoryVars
    BY <2>5 DEF agentHistoryVars, HistoryInv, HistoryTypeInv, HistoryUnderWay, KeptInv, EffectsKept,
                Answered, AnsweredUpTo, AnsweredSoFar, OpenRound, Archives, Entry
  <2>6. ASSUME NEW n \in 1..CallsPerRound, AsksForTools(n)
        PROVE  HistoryInv'
    <3>1. n \in Nat \ {0}
      BY AgentHistoryAssumption
    <3> QED
      BY <2>6, <3>1, AsksForToolsKeeps
  <2> QED
    BY <2>1, <2>2, <2>3, <2>4, <2>5, <2>6, FastCompactsKeeps, SummarizesKeeps,
       WritesRetainedKeeps, TurnBeginsKeeps, TrimsKeeps, ToolActsKeeps,
       ToolReturnsKeeps, ConcludesKeeps DEF AgentHistoryNext
<1>3. HistoryInv => HistoryCorrect
  <2> SUFFICES ASSUME HistoryInv PROVE HistoryCorrect
    OBVIOUS
  <2>1. EffectsRemembered /\ NothingForgotten /\ SummaryCovers
    <3>1. effects \subseteq everSaved \cup ThisRound \cup cutRound
      <4> SUFFICES ASSUME NEW e \in effects, e \notin everSaved \cup cutRound
                   PROVE  e \in ThisRound
        OBVIOUS
      <4> QED
        BY DEF HistoryInv, EffectsKept, ThisRound, Entry
    <3> QED
      BY <3>1 DEF HistoryInv, KeptInv, EffectsRemembered, NothingForgotten, SummaryCovers, Remembered
  <2>2. CallsAnswered
    BY DEF HistoryInv, Answered, AnsweredUpTo, ResultOf, CallsAnswered
  <2> QED
    BY <2>1, <2>2 DEF HistoryCorrect
<1> QED
  BY <1>1, <1>2, <1>3, PTL DEF ServicesSpec

-----------------------------------------------------------------------------
(* The owner's approvals *)

ApproveCallSet ==
  [of : 0..Pendings, at : {"none", "putting", "saving", "done"}, base : [Fields -> 0..Pendings]]

ApprovalsTypeInv ==
  /\ row \in [Actions -> {"none", "pending", "approved", "rejected", "gone"}]
  /\ changes \in [Actions -> Fields]
  /\ calls \in [1..ApproveCalls -> ApproveCallSet]
  /\ profile \in [Fields -> 0..Pendings] /\ remote \in [Fields -> 0..Pendings]
  /\ applied \in [Actions -> Nat]
  /\ raced \in BOOLEAN
  /\ \A c \in Running : calls[c].of \in Actions /\ row[calls[c].of] # "none"

\* Uncontested, an action has one approval under way, and once it is applied it waits no
\* more, but for the approval that is still to mark it.
AppliedInv ==
  \A p \in Actions : p \notin contested =>
    /\ \A c, d \in Running : calls[c].of = p /\ calls[d].of = p => c = d
    /\ \A c \in Running : calls[c].of = p /\ calls[c].at = "putting" => applied[p] = 0
    /\ applied[p] <= 1
    /\ applied[p] = 1 /\ row[p] \in {"none", "pending"} =>
         \E c \in Running : calls[c].of = p /\ calls[c].at = "saving"

\* One update at a time keeps the stored profile and the one at Signal apart only between
\* its two steps.
InStepInv ==
  ~raced =>
    /\ \A c, d \in Running : c = d
    /\ Running = {} => profile = remote
    /\ \A c \in Running : /\ calls[c].base = profile
                          /\ calls[c].at = "putting" => remote = profile
                          /\ calls[c].at = "saving" => remote = MergedProfile(c)
    /\ \A p \in Actions : applied[p] > 0 => remote[changes[p]] # 0

ApprovalsInv ==
  /\ ApprovalsTypeInv
  /\ AppliedInv
  /\ InStepInv

\* Steps that decide no action by an approval leave its invariant alone.
LEMMA RowsOnlyKeep ==
  ASSUME ApprovalsInv,
         UNCHANGED <<changes, inMain, calls, profile, remote, applied, contested, raced>>,
         row' \in [Actions -> {"none", "pending", "approved", "rejected", "gone"}],
         \A p \in Actions : row'[p] = row[p] \/ (row[p] = "none" /\ row'[p] = "pending")
                            \/ row'[p] \notin {"none", "pending"}
  PROVE  ApprovalsInv' /\ DecisionHolds
<1> USE DEF ApprovalsInv
<1>1. Running' = Running
  BY DEF Running
<1>2. ApprovalsTypeInv'
  BY <1>1 DEF ApprovalsTypeInv
<1>3. AppliedInv'
  BY <1>1 DEF AppliedInv
<1>4. InStepInv'
  BY <1>1 DEF InStepInv, MergedProfile
<1>5. DecisionHolds
  BY DEF DecisionHolds
<1> QED
  BY <1>2, <1>3, <1>4, <1>5

LEMMA ApprovesKeeps ==
  ASSUME ApprovalsInv, NEW p \in Actions, Approves(p)
  PROVE  ApprovalsInv' /\ DecisionHolds
<1> USE DEF ApprovalsInv
<1>1. PICK c \in Unused :
        /\ row[p] = "pending"
        /\ calls' = [calls EXCEPT ![c] = [of |-> p, at |-> "putting", base |-> profile]]
        /\ contested' = IF \E d \in Running : calls[d].of = p THEN contested \cup {p} ELSE contested
        /\ raced' = (raced \/ Running # {})
        /\ UNCHANGED <<row, changes, inMain, profile, remote, applied>>
  <2>1. \E x \in Unused : \A y \in Unused : x <= y
    <3>1. Unused \in SUBSET Nat /\ Unused # {}
      BY ApprovalsAssumption DEF Approves, Unused
    <3> QED
      BY <3>1, LeastNumber
  <2> QED
    BY <2>1 DEF Approves, Approvable
<1>2. PICK q \in ApproveCallSet :
        /\ q = [of |-> p, at |-> "putting", base |-> profile]
        /\ q.of = p /\ q.at = "putting" /\ q.base = profile
  <2>1. [of |-> p, at |-> "putting", base |-> profile] \in ApproveCallSet
    BY ApprovalsAssumption DEF ApproveCallSet, ApprovalsTypeInv, Actions
  <2> QED
    BY <2>1
<1>3. /\ c \in 1..ApproveCalls /\ calls[c].at = "none" /\ c \notin Running
      /\ calls' \in [1..ApproveCalls -> ApproveCallSet] /\ calls'[c] = q
      /\ \A d \in 1..ApproveCalls : d # c => calls'[d] = calls[d]
      /\ Running' = Running \cup {c}
  BY <1>1, <1>2 DEF Unused, Running, ApprovalsTypeInv
<1>4. ApprovalsTypeInv'
  <2>1. raced' \in BOOLEAN
    BY <1>1
  <2>2. \A d \in Running' : calls'[d].of \in Actions /\ row'[calls'[d].of] # "none"
    BY <1>1, <1>2, <1>3 DEF ApprovalsTypeInv, Running
  <2> QED
    BY <1>1, <1>3, <2>1, <2>2 DEF ApprovalsTypeInv
<1>5. AppliedInv'
  <2> SUFFICES ASSUME NEW r \in Actions, r \notin contested'
               PROVE  /\ \A d, e \in Running' : calls'[d].of = r /\ calls'[e].of = r => d = e
                      /\ \A d \in Running' :
                           calls'[d].of = r /\ calls'[d].at = "putting" => applied[r] = 0
                      /\ applied[r] <= 1
                      /\ applied[r] = 1 /\ row[r] \in {"none", "pending"} =>
                           \E d \in Running' : calls'[d].of = r /\ calls'[d].at = "saving"
    BY <1>1 DEF AppliedInv
  <2>1. r \notin contested
    BY <1>1
  <2>2. \A d \in Running : calls'[d] = calls[d] /\ d # c
    BY <1>3 DEF Running
  <2>3. CASE r = p
    <3>1. \A d \in Running : calls[d].of # p
      BY <1>1, <2>3
    <3>2. applied[p] = 0
      <4>1. applied[p] \in Nat /\ applied[p] <= 1 /\ applied[p] # 1
        BY <1>1, <2>1, <2>3, <3>1 DEF AppliedInv, ApprovalsTypeInv
      <4> QED
        BY <4>1
    <3> QED
      BY <1>1, <1>2, <1>3, <2>2, <2>3, <3>1, <3>2
  <2>4. CASE r # p
    BY <1>1, <1>2, <1>3, <2>1, <2>2, <2>4 DEF AppliedInv
  <2> QED
    BY <2>3, <2>4
<1>6. InStepInv'
  <2> SUFFICES ASSUME ~raced'
               PROVE  /\ \A d, e \in Running' : d = e
                      /\ Running' # {}
                      /\ \A d \in Running' : /\ calls'[d].base = profile
                                             /\ calls'[d].at = "putting" /\ remote = profile
                      /\ \A r \in Actions : applied[r] > 0 => remote[changes[r]] # 0
    BY <1>1 DEF InStepInv, MergedProfile
  <2>1. ~raced /\ Running = {} /\ Running' = {c}
    BY <1>1, <1>3
  <2> QED
    BY <1>2, <1>3, <2>1 DEF InStepInv
<1>7. DecisionHolds
  BY <1>1, <1>2, <1>3 DEF DecisionHolds
<1> QED
  BY <1>4, <1>5, <1>6, <1>7

LEMMA PutKeeps ==
  ASSUME ApprovalsInv, NEW c \in 1..ApproveCalls, Put(c)
  PROVE  ApprovalsInv' /\ DecisionHolds
<1> USE DEF ApprovalsInv
<1>1. PICK p \in 0..Pendings, q \in ApproveCallSet :
        /\ p = calls[c].of /\ q = [calls[c] EXCEPT !.at = "saving"]
        /\ q.of = p /\ q.at = "saving" /\ q.base = calls[c].base
  <2>1. calls[c] \in ApproveCallSet
    BY DEF ApprovalsTypeInv
  <2>2. [calls[c] EXCEPT !.at = "saving"] \in ApproveCallSet
    BY <2>1 DEF ApproveCallSet
  <2> QED
    BY <2>1, <2>2 DEF ApproveCallSet
<1>2. /\ calls[c].at = "putting" /\ remote' = MergedProfile(c)
      /\ applied' = [applied EXCEPT ![p] = @ + 1] /\ calls' = [calls EXCEPT ![c] = q]
      /\ UNCHANGED <<row, changes, inMain, profile, contested, raced>>
  BY <1>1 DEF Put
<1>3. /\ c \in Running /\ p \in Actions /\ row[p] # "none" /\ Running' = Running
      /\ calls'[c] = q /\ calls' \in [1..ApproveCalls -> ApproveCallSet]
      /\ \A d \in 1..ApproveCalls : d # c => calls'[d] = calls[d]
      /\ \A d \in 1..ApproveCalls : calls'[d].of = calls[d].of /\ calls'[d].base = calls[d].base
  <2>1. c \in Running
    BY <1>2 DEF Running
  <2>2. /\ calls'[c] = q /\ calls' \in [1..ApproveCalls -> ApproveCallSet]
        /\ \A d \in 1..ApproveCalls : d # c => calls'[d] = calls[d]
    BY <1>1, <1>2 DEF ApprovalsTypeInv
  <2>3. \A d \in 1..ApproveCalls : calls'[d].of = calls[d].of /\ calls'[d].base = calls[d].base
    BY <1>1, <2>2
  <2>4. Running' = Running
    BY <1>1, <1>2, <2>2 DEF Running
  <2> QED
    BY <1>1, <2>1, <2>2, <2>3, <2>4 DEF ApprovalsTypeInv
<1>4. /\ MergedProfile(c) \in [Fields -> 0..Pendings] /\ p \in 1..Pendings
      /\ MergedProfile(c) = [calls[c].base EXCEPT ![changes[p]] = p]
      /\ changes[p] \in Fields /\ calls[c].base \in [Fields -> 0..Pendings]
  <2>1. calls[c] \in ApproveCallSet /\ changes[p] \in Fields /\ p \in 1..Pendings
    BY <1>3 DEF ApprovalsTypeInv, Actions
  <2>2. calls[c].base \in [Fields -> 0..Pendings] /\ p \in 0..Pendings
    BY <2>1, ApprovalsAssumption DEF ApproveCallSet
  <2> QED
    BY <1>1, <2>1, <2>2 DEF MergedProfile
<1>5. ApprovalsTypeInv'
  BY <1>2, <1>3, <1>4, Running' = Running DEF ApprovalsTypeInv
<1>6. AppliedInv'
  <2> SUFFICES ASSUME NEW r \in Actions, r \notin contested
               PROVE  /\ \A d, e \in Running : calls[d].of = r /\ calls[e].of = r => d = e
                      /\ \A d \in Running :
                           calls[d].of = r /\ calls'[d].at = "putting" => applied'[r] = 0
                      /\ applied'[r] <= 1
                      /\ applied'[r] = 1 /\ row[r] \in {"none", "pending"} =>
                           \E d \in Running : calls[d].of = r /\ calls'[d].at = "saving"
    BY <1>2, <1>3 DEF AppliedInv, Running
  <2>1. CASE r = p
    <3>1. applied[p] = 0 /\ applied'[p] = 1
      BY <1>1, <1>2, <1>3, <2>1 DEF AppliedInv, ApprovalsTypeInv
    <3>2. \A d \in Running : calls[d].of = p => d = c
      BY <1>1, <1>3, <2>1 DEF AppliedInv
    <3>3. calls[c].of = r /\ calls'[c].at = "saving" /\ c \in Running
      BY <1>1, <1>3, <2>1
    <3>4. \A d \in Running : calls[d].of = r => calls'[d].at # "putting"
      BY <2>1, <3>2, <3>3
    <3>5. \A d, e \in Running : calls[d].of = r /\ calls[e].of = r => d = e
      BY <2>1, <3>2
    <3>6. applied'[r] <= 1
      BY <2>1, <3>1
    <3> QED
      BY <3>3, <3>4, <3>5, <3>6
  <2>2. CASE r # p
    <3>1. applied'[r] = applied[r]
      BY <1>2, <1>3, <2>2 DEF ApprovalsTypeInv
    <3>2. \A d \in Running : calls[d].of = r => calls'[d] = calls[d]
      BY <1>1, <1>3, <2>2 DEF Running
    <3> QED
      BY <3>1, <3>2 DEF AppliedInv
  <2> QED
    BY <2>1, <2>2
<1>7. InStepInv'
  <2> SUFFICES ASSUME ~raced
               PROVE  /\ \A d, e \in Running : d = e
                      /\ \A d \in Running : /\ calls'[d].base = profile
                                            /\ calls'[d].at = "saving"
                                            /\ remote' = MergedProfile(d)'
                      /\ \A r \in Actions : applied'[r] > 0 => remote'[changes[r]] # 0
    BY <1>2, <1>3 DEF InStepInv
  <2>1. \A d \in Running : d = c
    BY <1>3 DEF InStepInv
  <2>2. calls[c].base = profile /\ remote = profile
    BY <1>2, <1>3 DEF InStepInv
  <2>3. MergedProfile(c)' = MergedProfile(c)
    BY <1>2, <1>3 DEF MergedProfile
  <2>4. ASSUME NEW r \in Actions, applied'[r] > 0
        PROVE  remote'[changes[r]] # 0
    <3>1. CASE changes[r] = changes[p]
      BY <1>2, <1>4, <3>1
    <3>2. CASE changes[r] # changes[p]
      <4>1. applied'[r] = applied[r] /\ changes[r] \in Fields
        BY <1>2, <1>3, <3>2 DEF ApprovalsTypeInv
      <4>2. remote[changes[r]] # 0
        BY <2>4, <4>1 DEF InStepInv
      <4> QED
        BY <1>2, <1>4, <2>2, <3>2, <4>1, <4>2
    <3> QED
      BY <3>1, <3>2
  <2> QED
    BY <1>1, <1>2, <1>3, <2>1, <2>2, <2>3, <2>4
<1>8. DecisionHolds
  <2> SUFFICES ASSUME NEW r \in Actions, \A d \in Running : calls[d].of # r
               PROVE  applied'[r] = applied[r]
    BY <1>3 DEF DecisionHolds
  <2> QED
    BY <1>1, <1>2, <1>3 DEF ApprovalsTypeInv
<1> QED
  BY <1>5, <1>6, <1>7, <1>8

\* The end of an approval: the answer is stored and the action marked, or the request failed.
LEMMA ApprovalEnds ==
  ASSUME ApprovalsInv, NEW c \in 1..ApproveCalls, Save(c) \/ PutFails(c)
  PROVE  ApprovalsInv' /\ DecisionHolds
<1> USE DEF ApprovalsInv
<1>1. PICK p \in 0..Pendings, q \in ApproveCallSet :
        /\ p = calls[c].of /\ q = [calls[c] EXCEPT !.at = "done"]
        /\ q.of = p /\ q.at = "done"
  <2>1. calls[c] \in ApproveCallSet
    BY DEF ApprovalsTypeInv
  <2>2. [calls[c] EXCEPT !.at = "done"] \in ApproveCallSet
    BY <2>1 DEF ApproveCallSet
  <2> QED
    BY <2>1, <2>2 DEF ApproveCallSet
<1>2. /\ calls' = [calls EXCEPT ![c] = q] /\ calls[c].at \in {"putting", "saving"}
      /\ \/ /\ calls[c].at = "saving" /\ profile' = MergedProfile(c) /\ contested' = contested
            /\ row' = Settled(p) /\ raced' = raced
         \/ /\ calls[c].at = "putting" /\ profile' = profile /\ contested' = contested
            /\ row' = row /\ raced' = raced
         \/ /\ calls[c].at = "saving" /\ profile' = profile /\ contested' = contested \cup {p}
            /\ row' = row /\ raced' = TRUE
      /\ UNCHANGED <<changes, inMain, remote, applied>>
  BY <1>1 DEF Save, PutFails, ApprovalsTypeInv
<1>3. /\ c \in Running /\ p \in Actions /\ row[p] # "none"
      /\ calls'[c] = q /\ calls' \in [1..ApproveCalls -> ApproveCallSet]
      /\ \A d \in 1..ApproveCalls : d # c => calls'[d] = calls[d]
      /\ \A d \in 1..ApproveCalls : calls'[d].of = calls[d].of
      /\ Running' = Running \ {c}
  <2>1. c \in Running
    BY <1>2 DEF Running
  <2>2. /\ calls'[c] = q /\ calls' \in [1..ApproveCalls -> ApproveCallSet]
        /\ \A d \in 1..ApproveCalls : d # c => calls'[d] = calls[d]
    BY <1>1, <1>2 DEF ApprovalsTypeInv
  <2>3. \A d \in 1..ApproveCalls : calls'[d].of = calls[d].of
    BY <1>1, <2>2
  <2>4. Running' = Running \ {c}
    BY <1>1, <1>2, <2>2 DEF Running
  <2> QED
    BY <1>1, <2>1, <2>2, <2>3, <2>4 DEF ApprovalsTypeInv
<1>4. /\ row' \in [Actions -> {"none", "pending", "approved", "rejected", "gone"}]
      /\ \A r \in Actions : row'[r] = row[r] \/ (r = p /\ row'[r] = "approved")
      /\ row' = Settled(p) => row'[p] \in {"approved", "gone"}
  BY <1>2, <1>3 DEF Settled, ApprovalsTypeInv
<1>5. MergedProfile(c) \in [Fields -> 0..Pendings]
  <2>1. /\ calls[c] \in ApproveCallSet /\ changes[p] \in Fields
        /\ calls[c].base \in [Fields -> 0..Pendings]
    BY <1>3 DEF ApprovalsTypeInv, ApproveCallSet
  <2> QED
    BY <1>1, <2>1 DEF MergedProfile
<1>6. ApprovalsTypeInv'
  <2>1. raced' \in BOOLEAN
    BY <1>2 DEF ApprovalsTypeInv
  <2>2. profile' \in [Fields -> 0..Pendings]
    BY <1>2, <1>5 DEF ApprovalsTypeInv
  <2>3. \A d \in Running' : calls'[d].of \in Actions /\ row'[calls'[d].of] # "none"
    <3> SUFFICES ASSUME NEW d \in Running, d # c
                 PROVE  calls'[d].of \in Actions /\ row'[calls'[d].of] # "none"
      BY <1>3
    <3>1. calls[d].of \in Actions /\ row[calls[d].of] # "none" /\ calls'[d].of = calls[d].of
      BY <1>3 DEF ApprovalsTypeInv, Running
    <3> QED
      BY <1>4, <3>1
  <2> QED
    BY <1>2, <1>3, <1>4, <2>1, <2>2, <2>3 DEF ApprovalsTypeInv
<1>7. AppliedInv'
  <2> SUFFICES ASSUME NEW r \in Actions, r \notin contested'
               PROVE  /\ \A d, e \in Running' : calls'[d].of = r /\ calls'[e].of = r => d = e
                      /\ \A d \in Running' :
                           calls'[d].of = r /\ calls'[d].at = "putting" => applied[r] = 0
                      /\ applied[r] <= 1
                      /\ applied[r] = 1 /\ row'[r] \in {"none", "pending"} =>
                           \E d \in Running' : calls'[d].of = r /\ calls'[d].at = "saving"
    BY <1>2 DEF AppliedInv
  <2>1. r \notin contested
    BY <1>2
  <2>2. \A d \in Running' : d \in Running /\ d # c /\ calls'[d] = calls[d]
    BY <1>3 DEF Running
  <2>3. /\ \A d, e \in Running' : calls'[d].of = r /\ calls'[e].of = r => d = e
        /\ \A d \in Running' : calls'[d].of = r /\ calls'[d].at = "putting" => applied[r] = 0
        /\ applied[r] <= 1
    BY <2>1, <2>2 DEF AppliedInv
  <2>4. ASSUME applied[r] = 1, row'[r] \in {"none", "pending"}
        PROVE  \E d \in Running' : calls'[d].of = r /\ calls'[d].at = "saving"
    <3>1. row[r] \in {"none", "pending"}
      BY <1>4, <2>4
    <3>2. PICK d \in Running : calls[d].of = r /\ calls[d].at = "saving"
      BY <2>1, <2>4, <3>1 DEF AppliedInv
    <3>3. d # c
      <4> SUFFICES ASSUME d = c PROVE FALSE
        OBVIOUS
      <4>1. r = p /\ calls[c].at = "saving"
        BY <1>1, <3>2
      <4>2. row' = Settled(p)
        BY <1>2, <4>1
      <4> QED
        BY <1>4, <2>4, <4>1, <4>2
    <3> QED
      BY <1>3, <3>2, <3>3 DEF Running
  <2> QED
    BY <2>3, <2>4
<1>8. InStepInv'
  <2> SUFFICES ASSUME ~raced'
               PROVE  /\ Running' = {} /\ profile' = remote
                      /\ \A r \in Actions : applied[r] > 0 => remote[changes[r]] # 0
    BY <1>2 DEF InStepInv
  <2>1. ~raced
    BY <1>2 DEF ApprovalsTypeInv
  <2>2. Running' = {}
    BY <1>3, <2>1 DEF InStepInv
  <2>3. profile' = remote
    BY <1>2, <1>3, <2>1 DEF InStepInv
  <2> QED
    BY <2>1, <2>2, <2>3 DEF InStepInv
<1>9. DecisionHolds
  BY <1>2, <1>3 DEF DecisionHolds
<1> QED
  BY <1>6, <1>7, <1>8, <1>9

\* A plain reply is asked about when it can mean one action only.
LEMMA PlainReplyIsUnambiguous ==
  ASSUME ApprovalsInv, PlainReply
  PROVE  ReplyIsUnambiguous
<1>1. IsFiniteSet(Listed)
  <2>1. IsFiniteSet(Actions)
    BY ApprovalsAssumption, FS_Interval DEF Actions
  <2>2. Listed \in SUBSET Actions
    BY DEF Listed, Newest
  <2> QED
    BY <2>1, <2>2, FS_Subset
<1>2. PICK x : Listed = {x}
  <2>1. Cardinality(Listed) = 1
    BY DEF PlainReply
  <2> QED
    BY <1>1, <2>1, FS_Singleton
<1>3. \A q \in Newest : row[q] = "pending" /\ inMain[q] => q = x
  BY <1>2 DEF Listed
<1>4. x \in Newest /\ row[x] = "pending" /\ inMain[x] /\ chatReplies' = chatReplies \cup {x}
  BY <1>2 DEF Listed, PlainReply
<1> QED
  BY <1>3, <1>4 DEF ReplyIsUnambiguous

\* However an owner's decisions come in, by command, by a reply or in the admin page: an
\* approved action takes effect once, a decision is final, a reply decides one action, and
\* the stored profile is Signal's, with the exceptions the properties name
\* (control-actions.ts, control-store.ts).
THEOREM ApprovalsAreCorrect == ServicesSpec => ApprovalsCorrect
<1>1. ServicesInit => ApprovalsInv
  <2> SUFFICES ASSUME ApprovalsInit PROVE ApprovalsInv
    BY DEF ServicesInit
  <2> USE DEF ApprovalsInit
  <2>1. Running = {}
    BY DEF Running
  <2>2. /\ profile \in [Fields -> 0..Pendings] /\ remote = profile
        /\ calls \in [1..ApproveCalls -> ApproveCallSet]
    BY ApprovalsAssumption DEF ApproveCallSet
  <2>3. ApprovalsTypeInv
    BY <2>1, <2>2 DEF ApprovalsTypeInv
  <2>4. AppliedInv /\ InStepInv
    BY <2>1 DEF AppliedInv, InStepInv
  <2> QED
    BY <2>3, <2>4 DEF ApprovalsInv
<1>2. ASSUME ApprovalsInv, ApprovalsNext \/ UNCHANGED approvalVars
      PROVE  ApprovalsInv' /\ DecisionHolds
  <2>1. ASSUME NEW p \in Actions,
               \/ Preview(p) \/ Expire(p) \/ Rejects(p)
               \/ UNCHANGED <<row, changes, inMain, calls, profile, remote, applied, contested,
                              raced>>
        PROVE  ApprovalsInv' /\ DecisionHolds
    <3>1. /\ UNCHANGED <<changes, inMain, calls, profile, remote, applied, contested, raced>>
          /\ row' \in [Actions -> {"none", "pending", "approved", "rejected", "gone"}]
          /\ \A r \in Actions : row'[r] = row[r] \/ (row[r] = "none" /\ row'[r] = "pending")
                                \/ row'[r] \notin {"none", "pending"}
      BY <1>2, <2>1 DEF Preview, Expire, Rejects, ApprovalsInv, ApprovalsTypeInv
    <3> QED
      BY <1>2, <3>1, RowsOnlyKeep
  <2>2. UNCHANGED <<row, changes, inMain, calls, profile, remote, applied, contested, raced>>
          => ApprovalsInv' /\ DecisionHolds
    BY <1>2, RowsOnlyKeep DEF ApprovalsInv, ApprovalsTypeInv
  <2>3. ASSUME NEW p \in Actions, Approves(p)
        PROVE  ApprovalsInv' /\ DecisionHolds
    BY <1>2, <2>3, ApprovesKeeps
  <2>4. ASSUME NEW c \in 1..ApproveCalls, Put(c) \/ Save(c) \/ PutFails(c)
        PROVE  ApprovalsInv' /\ DecisionHolds
    BY <1>2, <2>4, PutKeeps, ApprovalEnds
  <2> QED
    BY <1>2, <2>1, <2>2, <2>3, <2>4
    DEF ApprovalsNext, PlainReply, ApproveCommand, RejectCommand, ReplyApproves, ReplyRejects,
        ReplyUnclear, approvalVars
<1>3. ASSUME ApprovalsInv, ApprovalsNext \/ UNCHANGED approvalVars
      PROVE  ReplyIsUnambiguous
  <2>1. PlainReply \/ chatReplies' \subseteq chatReplies
    BY <1>3 DEF ApprovalsNext, Preview, Expire, ApproveCommand, RejectCommand, ReplyApproves,
                ReplyRejects, ReplyUnclear, Put, Save, PutFails, approvalVars
  <2> QED
    BY <1>3, <2>1, PlainReplyIsUnambiguous DEF ReplyIsUnambiguous
<1>4. ApprovalsInv /\ [ServicesNext]_servicesVars
        => ApprovalsInv' /\ [AppliedOnce' /\ ProfileInStep' /\ DecisionHolds
                               /\ ReplyIsUnambiguous]_approvalVars
  <2>1. ApprovalsInv' => AppliedOnce' /\ ProfileInStep'
    BY DEF ApprovalsInv, AppliedInv, InStepInv, AppliedOnce, ProfileInStep
  <2> QED
    BY <1>2, <1>3, <2>1 DEF ServicesNext, servicesVars
<1> QED
  BY <1>1, <1>4, PTL DEF ServicesSpec, ApprovalsCorrect

-----------------------------------------------------------------------------
(***************************************************************************)
(* Deep research (ResearchJobs): executions of one job overlap only where  *)
(* overlapped says so, and an execution alone with its job knows its       *)
(* answers, and whether it waits for its user.                             *)
(***************************************************************************)
ExecSteps == {"none", "staging", "planning", "asking", "running", "rendering", "delivering",
              "reporting", "done", "gone"}
ExecRecords ==
  [of : ResearchJobs \cup {NoJob}, at : ExecSteps, answers : Nat, asked : Nat,
   run : {"none", "queued", "executing", "succeeded", "failed"}, told : Nat]
JobRecords ==
  [status : {"none", "queued", "executing", "succeeded", "failed"},
   substate : {"null", "scoping", "waiting_for_user", "running", "rendering", "delivering"},
   answers : Nat, asked : Nat]

ResearchTypeInv ==
  /\ chatOf \in [ResearchJobs -> ResearchChats]
  /\ job \in [ResearchJobs -> JobRecords]
  /\ pendingJob \in [ResearchChats -> ResearchJobs \cup {NoJob}]
  /\ exec \in [1..ResearchRuns -> ExecRecords]
  /\ activeRuns \in Nat
  /\ \A e \in 1..ResearchRuns : exec[e].at # "none" => exec[e].of \in ResearchJobs

WaitsForUser(rec) == rec.status = "queued" /\ rec.substate = "waiting_for_user"
Trying(place) == place \notin Idle \cup {"staging"}

\* What an execution has told its user.
ToldRight(x) ==
  /\ x.told <= 1
  /\ x.at = "done" /\ x.run = "failed" => x.told = 1
  /\ x.run = "succeeded" => x.told = 0
  /\ x.at # "done" => x.told = 0 /\ x.run # "succeeded"

\* A job that executes has an execution past its question, or the host stopped.
ExecutingInv ==
  \A j \in ResearchJobs :
    job[j].status = "executing" =>
      j \in stranded \/ \E e \in 1..ResearchRuns : e \in Live(j) /\ exec[e].at # "asking"

\* Without overlap: a job has one execution, which is asking if the job waits for its user,
\* and, once launched, has the job's answers.
AloneInv ==
  \A j \in ResearchJobs \ overlapped : \A e \in Live(j) :
    /\ \A f \in Live(j) : e = f
    /\ WaitsForUser(job[j]) => exec[e].at = "asking"
    /\ exec[e].at # "staging" => exec[e].answers = job[j].answers

DeliveredInv ==
  /\ \A e \in delivered : e \in 1..ResearchRuns /\ exec[e].at = "done"
  /\ SucceededDelivered

ResearchInv ==
  /\ ResearchTypeInv
  /\ SlotsCounted
  /\ \A e \in 1..ResearchRuns : ToldRight(exec[e])
  /\ ExecutingInv
  /\ AloneInv
  /\ QuestionReachable
  /\ PendingWaits
  /\ DeliveredInv

\* What every step of one execution is: e becomes x, and the row of its job j becomes rec.
Moves(e, x, j, rec) ==
  /\ exec' = [exec EXCEPT ![e] = x]
  /\ job' = [job EXCEPT ![j] = rec]
  /\ x.of = j /\ x.at # "none"
  /\ UNCHANGED <<chatOf, stranded>>
  /\ \/ /\ exec[e].at = "none"
        /\ overlapped' = IF Live(j) = {} THEN overlapped ELSE overlapped \cup {j}
     \/ exec[e].at \notin Idle /\ exec[e].of = j /\ overlapped' = overlapped

\* It takes a slot, gives it back or does neither.
MovesSlot(e, x) ==
  \/ ~Trying(exec[e].at) /\ Trying(x.at) /\ activeRuns < MaxConcurrency /\ activeRuns' = activeRuns + 1
  \/ Trying(exec[e].at) /\ ~Trying(x.at) /\ activeRuns' = Left(e)
  \/ (Trying(exec[e].at) <=> Trying(x.at)) /\ activeRuns' = activeRuns

\* It asks, takes the question back, or leaves it to be answered.
MovesQuestion(e, j, rec) ==
  \/ SetPending(j, j) /\ WaitsForUser(rec)
  \/ SetPending(j, NoJob) /\ ~WaitsForUser(rec)
  \/ /\ UNCHANGED <<pendingJob, displaced>>
     /\ rec = job[j] \/ (~WaitsForUser(rec) /\ (WaitsForUser(job[j]) => j \in overlapped))

\* The row says what the execution does.
RowAgrees(e, x, j, rec) ==
  /\ rec.status = "executing" =>
       x.at \notin Idle \cup {"asking"} \/ (rec = job[j] /\ exec[e].at = "asking")
  /\ j \notin overlapped' =>
       /\ WaitsForUser(rec) => x.at \in Idle \cup {"asking"}
       /\ x.at \notin Idle \cup {"staging"} => x.answers = rec.answers
  /\ rec.answers < job[j].answers => j \in overlapped
  /\ rec.status = "succeeded" => job[j].status = "succeeded" \/ e \in delivered'
  /\ delivered' = delivered \/ (delivered' = delivered \cup {e} /\ x.at = "done")

LEMMA SlotsMove ==
  ASSUME ResearchTypeInv, SlotsCounted, NEW e \in 1..ResearchRuns, NEW x \in ExecRecords,
         exec' = [exec EXCEPT ![e] = x], MovesSlot(e, x)
  PROVE  SlotsCounted' /\ activeRuns' \in Nat
<1>0. /\ activeRuns = Cardinality(InTry) /\ activeRuns <= MaxConcurrency /\ activeRuns \in Nat
      /\ exec \in [1..ResearchRuns -> ExecRecords]
  BY DEF ResearchTypeInv, SlotsCounted
<1>1. IsFiniteSet(InTry)
  <2>1. IsFiniteSet(1..ResearchRuns)
    BY ResearchAssumption, FS_Interval
  <2>2. InTry \in SUBSET (1..ResearchRuns)
    BY DEF InTry
  <2> QED
    BY <2>1, <2>2, FS_Subset
<1>2. /\ e \in InTry <=> Trying(exec[e].at)
      /\ InTry' = IF Trying(x.at) THEN InTry \cup {e} ELSE InTry \ {e}
  BY <1>0 DEF InTry, Trying
<1>3. CASE ~Trying(exec[e].at) /\ Trying(x.at) /\ activeRuns < MaxConcurrency
           /\ activeRuns' = activeRuns + 1
  <2>1. InTry' = InTry \cup {e} /\ e \notin InTry
    BY <1>2, <1>3
  <2>2. Cardinality(InTry') = Cardinality(InTry) + 1
    BY <1>1, <2>1, FS_AddElement
  <2> QED
    BY <1>0, <1>3, <2>2, ResearchAssumption DEF SlotsCounted
<1>4. CASE Trying(exec[e].at) /\ ~Trying(x.at) /\ activeRuns' = Left(e)
  <2>1. InTry' = InTry \ {e} /\ e \in InTry
    BY <1>2, <1>4
  <2>2. Cardinality(InTry') = Cardinality(InTry) - 1
    BY <1>1, <2>1, FS_RemoveElement
  <2>3. Cardinality(InTry') \in Nat
    BY <1>1, <2>1, FS_RemoveElement, FS_CardinalityType
  <2>4. Max({0, activeRuns - 1}) = activeRuns - 1
    <3>1. PICK m \in Nat : m = activeRuns - 1
      BY <1>0, <2>2, <2>3
    <3>2. {0, m} \in SUBSET (0..m) /\ {0, m} # {}
      BY <3>1
    <3>3. Max({0, m}) \in {0, m} /\ \A y \in {0, m} : y <= Max({0, m})
      BY <3>2, MaxFacts
    <3> QED
      BY <3>1, <3>3
  <2> QED
    BY <1>0, <1>4, <2>2, <2>3, <2>4, ResearchAssumption DEF SlotsCounted, Left
<1>5. CASE (Trying(exec[e].at) <=> Trying(x.at)) /\ activeRuns' = activeRuns
  <2>1. InTry' = InTry
    BY <1>2, <1>5
  <2> QED
    BY <1>0, <1>5, <2>1 DEF SlotsCounted
<1> QED
  BY <1>3, <1>4, <1>5 DEF MovesSlot

\* The step of one execution leaves the others, and the executions of other jobs, alone.
LEMMA OthersStay ==
  ASSUME ResearchTypeInv, NEW e \in 1..ResearchRuns, NEW x \in ExecRecords,
         NEW j \in ResearchJobs, NEW rec \in JobRecords, Moves(e, x, j, rec)
  PROVE  /\ exec'[e] = x /\ job'[j] = rec
         /\ exec' \in [1..ResearchRuns -> ExecRecords] /\ job' \in [ResearchJobs -> JobRecords]
         /\ \A f \in 1..ResearchRuns : f # e => exec'[f] = exec[f]
         /\ \A k \in ResearchJobs : k # j => job'[k] = job[k] /\ Live(k)' = Live(k)
         /\ Live(j)' = IF x.at \in Idle THEN Live(j) \ {e} ELSE Live(j) \cup {e}
         /\ exec[e].at \in {"none"} \/ exec[e].at \notin Idle
         /\ exec[e].at = "none" => e \notin Live(j)
         /\ overlapped \subseteq overlapped' /\ \A k \in overlapped' : k = j \/ k \in overlapped
         /\ j \notin overlapped' => \A f \in Live(j) : exec[e].at = "none" => FALSE
<1>1. exec \in [1..ResearchRuns -> ExecRecords] /\ job \in [ResearchJobs -> JobRecords]
  BY DEF ResearchTypeInv
<1>2. /\ exec'[e] = x /\ job'[j] = rec
      /\ exec' \in [1..ResearchRuns -> ExecRecords] /\ job' \in [ResearchJobs -> JobRecords]
      /\ \A f \in 1..ResearchRuns : f # e => exec'[f] = exec[f]
      /\ \A k \in ResearchJobs : k # j => job'[k] = job[k]
  BY <1>1 DEF Moves
<1>3. x.of = j /\ (exec[e].at = "none" \/ (exec[e].at \notin Idle /\ exec[e].of = j))
  BY DEF Moves
<1>4. "none" \in Idle
  BY DEF Idle
<1>5. ASSUME NEW k \in ResearchJobs, k # j PROVE Live(k)' = Live(k)
  BY <1>2, <1>3, <1>4, <1>5 DEF Live
<1>6. Live(j)' = IF x.at \in Idle THEN Live(j) \ {e} ELSE Live(j) \cup {e}
  BY <1>2, <1>3 DEF Live
<1>7. exec[e].at = "none" => e \notin Live(j)
  BY <1>4 DEF Live
<1>8. /\ overlapped \subseteq overlapped' /\ \A k \in overlapped' : k = j \/ k \in overlapped
      /\ j \notin overlapped' => \A f \in Live(j) : exec[e].at = "none" => FALSE
  BY <1>4 DEF Moves
<1> QED
  BY <1>2, <1>3, <1>5, <1>6, <1>7, <1>8


LEMMA MoveKeepsTypes ==
  ASSUME ResearchInv, NEW e \in 1..ResearchRuns, NEW x \in ExecRecords,
         NEW j \in ResearchJobs, NEW rec \in JobRecords,
         Moves(e, x, j, rec), MovesSlot(e, x), MovesQuestion(e, j, rec), ToldRight(x)
  PROVE  ResearchTypeInv' /\ SlotsCounted' /\ \A f \in 1..ResearchRuns : ToldRight(exec'[f])
<1>1. ResearchTypeInv /\ SlotsCounted /\ \A f \in 1..ResearchRuns : ToldRight(exec[f])
  BY DEF ResearchInv
<1>2. /\ exec'[e] = x
      /\ exec' \in [1..ResearchRuns -> ExecRecords] /\ job' \in [ResearchJobs -> JobRecords]
      /\ \A f \in 1..ResearchRuns : f # e => exec'[f] = exec[f]
  BY <1>1, OthersStay
<1>3. SlotsCounted' /\ activeRuns' \in Nat
  <2>1. exec' = [exec EXCEPT ![e] = x]
    BY DEF Moves
  <2> QED
    BY <1>1, <2>1, SlotsMove
<1>4. x.of = j /\ chatOf' = chatOf
  BY DEF Moves
<1>5. pendingJob' \in [ResearchChats -> ResearchJobs \cup {NoJob}]
  BY <1>1 DEF ResearchTypeInv, MovesQuestion, SetPending
<1>6. \A f \in 1..ResearchRuns : exec'[f].at # "none" => exec'[f].of \in ResearchJobs
  BY <1>1, <1>2, <1>4 DEF ResearchTypeInv
<1>7. ResearchTypeInv'
  BY <1>1, <1>2, <1>3, <1>4, <1>5, <1>6 DEF ResearchTypeInv
<1>8. \A f \in 1..ResearchRuns : ToldRight(exec'[f])
  BY <1>1, <1>2
<1> QED
  BY <1>3, <1>7, <1>8

LEMMA MoveKeepsExecuting ==
  ASSUME ResearchInv, NEW e \in 1..ResearchRuns, NEW x \in ExecRecords,
         NEW j \in ResearchJobs, NEW rec \in JobRecords,
         Moves(e, x, j, rec), RowAgrees(e, x, j, rec)
  PROVE  ExecutingInv' /\ AloneInv' /\ DeliveredInv'
<1>1. ResearchTypeInv /\ ExecutingInv /\ AloneInv /\ DeliveredInv
  BY DEF ResearchInv
<1>2. /\ exec'[e] = x /\ job'[j] = rec
      /\ \A f \in 1..ResearchRuns : f # e => exec'[f] = exec[f]
      /\ \A k \in ResearchJobs : k # j => job'[k] = job[k] /\ Live(k)' = Live(k)
      /\ Live(j)' = IF x.at \in Idle THEN Live(j) \ {e} ELSE Live(j) \cup {e}
      /\ exec[e].at \in {"none"} \/ exec[e].at \notin Idle
      /\ exec[e].at = "none" => e \notin Live(j)
      /\ overlapped \subseteq overlapped' /\ \A k \in overlapped' : k = j \/ k \in overlapped
      /\ j \notin overlapped' => \A f \in Live(j) : exec[e].at = "none" => FALSE
  BY <1>1, OthersStay
<1>3. /\ stranded' = stranded /\ x.of = j
      /\ exec[e].at = "none" \/ (exec[e].at \notin Idle /\ exec[e].of = j)
  BY DEF Moves
<1>4. \A k \in ResearchJobs : Live(k) \subseteq 1..ResearchRuns
  BY DEF Live
<1>5. \A k \in ResearchJobs \ {j} : e \notin Live(k)
  BY <1>3 DEF Live, Idle
<1>6. ExecutingInv'
  <2>1. ASSUME NEW k \in ResearchJobs, job'[k].status = "executing", k \notin stranded
        PROVE  \E f \in 1..ResearchRuns : f \in Live(k)' /\ exec'[f].at # "asking"
    <3>1. CASE k # j
      <4>1. PICK f \in 1..ResearchRuns : f \in Live(k) /\ exec[f].at # "asking"
        BY <1>1, <1>2, <2>1, <3>1 DEF ExecutingInv
      <4> QED
        BY <1>2, <1>5, <3>1, <4>1
    <3>2. CASE k = j /\ x.at \notin Idle \cup {"asking"}
      BY <1>2, <3>2
    <3>3. CASE k = j /\ rec = job[j] /\ exec[e].at = "asking"
      <4>1. PICK f \in 1..ResearchRuns : f \in Live(k) /\ exec[f].at # "asking"
        BY <1>1, <1>2, <2>1, <3>3 DEF ExecutingInv
      <4> QED
        BY <1>2, <3>3, <4>1
    <3> QED
      BY <1>2, <2>1, <3>1, <3>2, <3>3 DEF RowAgrees
  <2> QED
    BY <1>3, <2>1 DEF ExecutingInv
<1>7. AloneInv'
  <2> SUFFICES ASSUME NEW k \in ResearchJobs, k \notin overlapped', NEW f \in Live(k)'
               PROVE  /\ \A g \in Live(k)' : f = g
                      /\ WaitsForUser(job'[k]) => exec'[f].at = "asking"
                      /\ exec'[f].at # "staging" => exec'[f].answers = job'[k].answers
    BY DEF AloneInv, WaitsForUser
  <2>1. CASE k # j
    <3>1. f \in Live(k) /\ f # e /\ k \notin overlapped /\ f \in 1..ResearchRuns
      BY <1>2, <1>4, <1>5, <2>1
    <3>2. exec'[f] = exec[f] /\ job'[k] = job[k] /\ Live(k)' = Live(k)
      BY <1>2, <2>1, <3>1
    <3> QED
      BY <1>1, <3>1, <3>2 DEF AloneInv, WaitsForUser
  <2>2. CASE k = j
    <3>1. \A g \in Live(j) : g = e
      <4>1. CASE exec[e].at = "none"
        BY <1>2, <2>2, <4>1
      <4>2. CASE exec[e].at # "none"
        <5>1. e \in Live(j) /\ j \notin overlapped
          BY <1>2, <1>3, <2>2, <4>2 DEF Live
        <5> QED
          BY <1>1, <5>1 DEF AloneInv
      <4> QED
        BY <4>1, <4>2
    <3>2. x.at \notin Idle /\ f = e /\ \A g \in Live(j)' : g = e
      BY <1>2, <2>2, <3>1
    <3> QED
      BY <1>2, <2>2, <3>2 DEF RowAgrees, WaitsForUser
  <2> QED
    BY <2>1, <2>2
<1>8. DeliveredInv'
  <2>1. delivered' = delivered \/ (delivered' = delivered \cup {e} /\ x.at = "done")
    BY DEF RowAgrees
  <2>2. \A f \in delivered : f \in 1..ResearchRuns /\ exec[f].at = "done" /\ f # e
    BY <1>1, <1>3 DEF DeliveredInv, Idle
  <2>3. \A f \in delivered' : f \in 1..ResearchRuns /\ exec'[f].at = "done"
    BY <1>2, <2>1, <2>2
  <2>4. ASSUME NEW k \in ResearchJobs, job'[k].status = "succeeded"
        PROVE  \E f \in delivered' : exec'[f].of = k
    <3>1. CASE job[k].status = "succeeded"
      <4>1. PICK f \in delivered : exec[f].of = k
        BY <1>1, <3>1 DEF DeliveredInv, SucceededDelivered
      <4> QED
        BY <1>2, <2>1, <2>2, <4>1
    <3>2. CASE k = j /\ e \in delivered'
      BY <1>2, <1>3, <3>2
    <3> QED
      BY <1>2, <2>4, <3>1, <3>2 DEF RowAgrees
  <2> QED
    BY <2>3, <2>4 DEF DeliveredInv, SucceededDelivered
<1> QED
  BY <1>6, <1>7, <1>8

LEMMA MoveKeepsQuestions ==
  ASSUME ResearchInv, NEW e \in 1..ResearchRuns, NEW x \in ExecRecords,
         NEW j \in ResearchJobs, NEW rec \in JobRecords,
         Moves(e, x, j, rec), MovesQuestion(e, j, rec)
  PROVE  QuestionReachable' /\ PendingWaits'
<1>1. ResearchTypeInv /\ QuestionReachable /\ PendingWaits
  BY DEF ResearchInv
<1>2. /\ job'[j] = rec
      /\ \A k \in ResearchJobs : k # j => job'[k] = job[k]
      /\ overlapped \subseteq overlapped'
      /\ chatOf' = chatOf /\ chatOf[j] \in ResearchChats
  BY <1>1, OthersStay DEF Moves, ResearchTypeInv
<1>3. /\ \A k \in ResearchJobs : WaitsForUser(job[k]) => pendingJob[chatOf[k]] = k \/ k \in displaced
      /\ \A c \in ResearchChats : pendingJob[c] # NoJob =>
           chatOf[pendingJob[c]] = c
             /\ (pendingJob[c] \in overlapped \/ WaitsForUser(job[pendingJob[c]]))
  BY <1>1 DEF QuestionReachable, PendingWaits, WaitsForUser
<1>4. pendingJob \in [ResearchChats -> ResearchJobs \cup {NoJob}] /\ NoJob \notin ResearchJobs
      /\ chatOf \in [ResearchJobs -> ResearchChats]
  BY <1>1, ResearchAssumption DEF ResearchTypeInv, NoJob
<1>5. SUFFICES
        /\ \A k \in ResearchJobs :
             WaitsForUser(job'[k]) => pendingJob'[chatOf[k]] = k \/ k \in displaced'
        /\ \A c \in ResearchChats : pendingJob'[c] # NoJob =>
             chatOf[pendingJob'[c]] = c
               /\ (pendingJob'[c] \in overlapped' \/ WaitsForUser(job'[pendingJob'[c]]))
  BY <1>2 DEF QuestionReachable, PendingWaits, WaitsForUser
<1>6. CASE \E to \in {j, NoJob} : SetPending(j, to) /\ (WaitsForUser(rec) <=> to = j)
  <2>1. PICK to \in {j, NoJob} : SetPending(j, to) /\ (WaitsForUser(rec) <=> to = j)
    BY <1>6
  <2>2. /\ pendingJob' = [pendingJob EXCEPT ![chatOf[j]] = to]
        /\ displaced' = displaced \cup ({pendingJob[chatOf[j]]} \ {NoJob, j})
    BY <2>1 DEF SetPending
  <2>3. pendingJob'[chatOf[j]] = to /\ \A c \in ResearchChats : c # chatOf[j] => pendingJob'[c] = pendingJob[c]
    BY <1>2, <1>4, <2>2
  <2>4. ASSUME NEW k \in ResearchJobs, WaitsForUser(job'[k])
        PROVE  pendingJob'[chatOf[k]] = k \/ k \in displaced'
    <3>1. CASE k = j
      BY <1>2, <2>1, <2>3, <2>4, <3>1
    <3>2. CASE k # j
      BY <1>2, <1>3, <1>4, <2>2, <2>3, <2>4, <3>2
    <3> QED
      BY <3>1, <3>2
  <2>5. ASSUME NEW c \in ResearchChats, pendingJob'[c] # NoJob
        PROVE  chatOf[pendingJob'[c]] = c
                 /\ (pendingJob'[c] \in overlapped' \/ WaitsForUser(job'[pendingJob'[c]]))
    <3>1. CASE c = chatOf[j]
      BY <1>2, <2>1, <2>3, <2>5, <3>1
    <3>2. CASE c # chatOf[j]
      <4>1. pendingJob'[c] = pendingJob[c] /\ pendingJob[c] \in ResearchJobs
        BY <1>4, <2>3, <2>5, <3>2
      <4>2. pendingJob[c] # j
        BY <1>3, <2>5, <3>2, <4>1
      <4> QED
        BY <1>2, <1>3, <2>5, <4>1, <4>2
    <3> QED
      BY <3>1, <3>2
  <2> QED
    BY <2>4, <2>5
<1>7. CASE /\ UNCHANGED <<pendingJob, displaced>>
           /\ rec = job[j] \/ (~WaitsForUser(rec) /\ (WaitsForUser(job[j]) => j \in overlapped))
  <2>1. \A k \in ResearchJobs : WaitsForUser(job'[k]) => WaitsForUser(job[k])
    BY <1>2, <1>7
  <2>2. \A k \in ResearchJobs : WaitsForUser(job[k]) => WaitsForUser(job'[k]) \/ k \in overlapped
    BY <1>2, <1>7
  <2>3. \A c \in ResearchChats : pendingJob[c] # NoJob => pendingJob[c] \in ResearchJobs
    BY <1>4
  <2> QED
    BY <1>2, <1>3, <1>7, <2>1, <2>2, <2>3
<1>8. NoJob # j
  BY <1>4
<1> QED
  BY <1>6, <1>7, <1>8 DEF MovesQuestion

LEMMA MoveKeeps ==
  ASSUME ResearchInv, NEW e \in 1..ResearchRuns, NEW x \in ExecRecords,
         NEW j \in ResearchJobs, NEW rec \in JobRecords,
         Moves(e, x, j, rec), MovesSlot(e, x), MovesQuestion(e, j, rec), ToldRight(x),
         RowAgrees(e, x, j, rec)
  PROVE  ResearchInv' /\ AnswersKept
<1>1. AnswersKept
  <2>1. /\ job'[j] = rec
        /\ \A k \in ResearchJobs : k # j => job'[k] = job[k]
        /\ job \in [ResearchJobs -> JobRecords]
    BY OthersStay DEF ResearchInv, ResearchTypeInv
  <2>2. \A k \in ResearchJobs : ~(job[k].answers < job[k].answers)
    BY <2>1 DEF JobRecords
  <2> QED
    BY <2>1, <2>2 DEF AnswersKept, RowAgrees
<1>2. (\A f \in 1..ResearchRuns : ToldRight(exec'[f])) => (\A f \in 1..ResearchRuns : ToldRight(exec[f]))'
  BY DEF ToldRight
<1> QED
  BY <1>1, <1>2, MoveKeepsTypes, MoveKeepsExecuting, MoveKeepsQuestions DEF ResearchInv


\* What an execution that has not ended knows, and what it has told.
LEMMA LiveRunFacts ==
  ASSUME ResearchInv, NEW e \in 1..ResearchRuns, exec[e].at \notin Idle
  PROVE  /\ exec[e] \in ExecRecords /\ exec[e].of \in ResearchJobs
         /\ job[exec[e].of] \in JobRecords
         /\ exec[e].told = 0 /\ exec[e].run # "succeeded"
         /\ exec[e].at # "asking" =>
              (WaitsForUser(job[exec[e].of]) => exec[e].of \in overlapped)
         /\ exec[e].of \notin overlapped /\ exec[e].at # "staging" =>
              exec[e].answers = job[exec[e].of].answers
<1>1. ResearchTypeInv /\ AloneInv /\ ToldRight(exec[e])
  BY DEF ResearchInv
<1>2. exec[e].at # "none" /\ exec[e].at # "done"
  BY DEF Idle
<1>3. exec[e] \in ExecRecords /\ exec[e].of \in ResearchJobs /\ job[exec[e].of] \in JobRecords
  BY <1>1, <1>2 DEF ResearchTypeInv
<1>4. exec[e].told = 0 /\ exec[e].run # "succeeded"
  BY <1>1, <1>2 DEF ToldRight
<1>5. e \in Live(exec[e].of)
  BY DEF Live
<1> QED
  BY <1>1, <1>3, <1>4, <1>5 DEF AloneInv

Ended(y) == [y EXCEPT !.at = "done", !.run = "failed", !.told = 1]

\* How the catch of kickOff leaves an execution and its job.
LEMMA CaughtEnds ==
  ASSUME NEW y \in ExecRecords, NEW rec \in JobRecords
  PROVE  /\ Ended(y) \in ExecRecords
         /\ Ended(y).of = y.of /\ Ended(y).at = "done" /\ ToldRight(Ended(y))
         /\ Failed(rec) \in JobRecords
         /\ Failed(rec).status \notin {"queued", "executing"} /\ Failed(rec).answers = rec.answers
         /\ Failed(rec).status = "succeeded" => rec.status = "succeeded"
<1>1. PICK x : x = Ended(y)
  OBVIOUS
<1>2. x = [y EXCEPT !.at = "done", !.run = "failed", !.told = 1]
  BY <1>1 DEF Ended
<1>3. x \in ExecRecords /\ x.told = 1 /\ x.at = "done" /\ x.run = "failed" /\ x.of = y.of
  BY <1>2 DEF ExecRecords, ExecSteps
<1>4. ToldRight(x)
  BY <1>3 DEF ToldRight
<1>5. Failed(rec) \in JobRecords /\ Failed(rec).answers = rec.answers
      /\ Failed(rec).status \notin {"queued", "executing"}
      /\ (Failed(rec).status = "succeeded" => rec.status = "succeeded")
  BY DEF Failed, JobRecords
<1> QED
  BY <1>1, <1>3, <1>4, <1>5

\* An execution begins or is refused.
LEMMA ExecuteMoves ==
  ASSUME ResearchInv, NEW e \in 1..ResearchRuns, NEW j \in ResearchJobs, NEW rec \in JobRecords,
         exec[e].at \in {"none", "staging"}, Execute(e, j, rec)
  PROVE  \E x \in ExecRecords, after \in JobRecords :
           /\ exec' = [exec EXCEPT ![e] = x] /\ job' = [job EXCEPT ![j] = after]
           /\ x.of = j /\ x.at \in {"planning", "done"}
           /\ ToldRight(x) /\ MovesSlot(e, x)
           /\ ~WaitsForUser(after) /\ after.answers = rec.answers
           /\ after.status = "executing" => x.at = "planning"
           /\ after.status = "succeeded" => rec.status = "succeeded"
           /\ x.at = "planning" => x.answers = rec.answers
<1>1. exec[e] \in ExecRecords /\ ToldRight(exec[e])
  BY DEF ResearchInv, ResearchTypeInv
<1>2. exec[e].told = 0 /\ exec[e].at # "done" /\ ~Trying(exec[e].at)
  BY <1>1 DEF ToldRight, Trying, Idle
<1>3. rec.answers \in Nat /\ rec.asked \in Nat
  BY DEF JobRecords
<1>4. PICK y : y = [exec[e] EXCEPT !.of = j, !.run = "queued",
                      !.answers = Snapshot(j, rec).answers, !.asked = Snapshot(j, rec).asked]
  OBVIOUS
<1>5. /\ y \in ExecRecords /\ y.of = j /\ y.told = 0 /\ y.answers = rec.answers
  BY <1>1, <1>2, <1>3, <1>4 DEF ExecRecords, Snapshot
<1>6. CASE activeRuns >= MaxConcurrency
  <2>1. Caught(e, y, rec, FALSE) /\ UNCHANGED activeRuns
    BY <1>4, <1>6 DEF Execute
  <2>2. PICK x, after :
           /\ x = Ended(y) /\ after = Failed(rec)
           /\ exec' = [exec EXCEPT ![e] = x] /\ job' = [job EXCEPT ![j] = after]
    <3>1. exec' = [exec EXCEPT ![e] = Ended(y)] /\ job' = [job EXCEPT ![j] = Failed(rec)]
      BY <1>5, <2>1 DEF Caught, Reports, Ended
    <3> QED
      BY <3>1
  <2>4. /\ x \in ExecRecords /\ after \in JobRecords
        /\ x.of = j /\ x.at = "done" /\ ToldRight(x)
        /\ after.status \notin {"queued", "executing"} /\ after.answers = rec.answers
        /\ after.status = "succeeded" => rec.status = "succeeded"
    BY <1>5, <2>2, CaughtEnds
  <2>3. ~Trying(x.at)
    BY <2>4 DEF Trying, Idle
  <2>5. MovesSlot(e, x) /\ ~WaitsForUser(after)
    BY <1>2, <2>1, <2>3, <2>4 DEF MovesSlot, WaitsForUser
  <2> QED
    BY <2>2, <2>4, <2>5
<1>7. CASE ~(activeRuns >= MaxConcurrency)
  <2>1. PICK x : x = [y EXCEPT !.at = "planning", !.run = "executing"]
    OBVIOUS
  <2>2. /\ x \in ExecRecords /\ x.of = j /\ x.told = 0 /\ x.answers = rec.answers
        /\ x.at = "planning" /\ x.run = "executing"
    BY <1>5, <2>1 DEF ExecRecords, ExecSteps
  <2>3. PICK after : after = [rec EXCEPT !.status = "executing", !.substate = "scoping"]
    OBVIOUS
  <2>4. after \in JobRecords /\ after.status = "executing" /\ after.answers = rec.answers
    BY <2>3 DEF JobRecords
  <2>5. /\ exec' = [exec EXCEPT ![e] = x] /\ job' = [job EXCEPT ![j] = after]
        /\ activeRuns' = activeRuns + 1
    BY <1>4, <1>7, <2>1, <2>3 DEF Execute
  <2>6. activeRuns < MaxConcurrency
    BY <1>7, ResearchAssumption DEF ResearchInv, ResearchTypeInv
  <2>7. MovesSlot(e, x)
    BY <1>2, <2>2, <2>5, <2>6 DEF MovesSlot, Trying, Idle
  <2>8. ToldRight(x) /\ ~WaitsForUser(after)
    BY <2>2, <2>4 DEF ToldRight, WaitsForUser
  <2> QED
    BY <2>2, <2>4, <2>5, <2>7, <2>8
<1> QED
  BY <1>6, <1>7

\* A job's start or an answer launches an execution.
LEMMA KickOffKeeps ==
  ASSUME ResearchInv, NEW j \in ResearchJobs, NEW rec \in JobRecords,
         rec.status = "queued", rec.answers >= job[j].answers, KickOff(j, rec),
         UNCHANGED <<chatOf, delivered, stranded>>,
         SetPending(j, NoJob)
           \/ (UNCHANGED <<pendingJob, displaced>> /\ job[j].status = "none")
  PROVE  ResearchInv' /\ AnswersKept
<1>1. PICK e \in 1..ResearchRuns : e = Min(Unlaunched) /\ exec[e].at = "none"
  <2>1. Unlaunched # {}
    BY DEF KickOff
  <2>2. Unlaunched \in SUBSET Nat
    BY ResearchAssumption DEF Unlaunched
  <2> QED
    BY <2>1, <2>2, MinFacts DEF Unlaunched
<1>2. \E x \in ExecRecords, after \in JobRecords :
        /\ exec' = [exec EXCEPT ![e] = x] /\ job' = [job EXCEPT ![j] = after]
        /\ x.of = j /\ x.at \in {"staging", "planning", "done"}
        /\ ToldRight(x) /\ MovesSlot(e, x)
        /\ ~WaitsForUser(after) /\ after.answers = rec.answers
        /\ after.status = "executing" => x.at \in {"staging", "planning"}
        /\ after.status # "succeeded"
        /\ x.at = "planning" => x.answers = rec.answers
  <2>1. CASE staged
    <3>1. PICK x : x = [exec[e] EXCEPT !.of = j, !.at = "staging", !.run = "queued"]
      OBVIOUS
    <3>2. PICK after : after = [rec EXCEPT !.status = "executing"]
      OBVIOUS
    <3>3. exec[e] \in ExecRecords /\ ToldRight(exec[e]) /\ exec \in [1..ResearchRuns -> ExecRecords]
      BY DEF ResearchInv, ResearchTypeInv
    <3>4. /\ exec' = [exec EXCEPT ![e].of = j, ![e].at = "staging", ![e].run = "queued"]
          /\ job' = [job EXCEPT ![j] = after] /\ activeRuns' = activeRuns
      BY <1>1, <2>1, <3>2 DEF KickOff
    <3>5. exec' = [exec EXCEPT ![e] = x]
      BY <3>1, <3>3, <3>4
    <3>6. /\ x \in ExecRecords /\ x.of = j /\ x.at = "staging" /\ x.told = 0 /\ x.run = "queued"
      BY <1>1, <3>1, <3>3 DEF ExecRecords, ExecSteps, ToldRight
    <3>7. after \in JobRecords /\ after.status = "executing" /\ after.answers = rec.answers
      BY <3>2 DEF JobRecords
    <3>8. MovesSlot(e, x)
      BY <1>1, <3>4, <3>6 DEF MovesSlot, Trying, Idle
    <3>9. ToldRight(x) /\ ~WaitsForUser(after)
      BY <3>6, <3>7 DEF ToldRight, WaitsForUser
    <3> QED
      BY <3>4, <3>5, <3>6, <3>7, <3>8, <3>9
  <2>2. CASE ~staged
    <3>1. Execute(e, j, rec)
      BY <1>1, <2>2 DEF KickOff
    <3> QED
      BY <1>1, <3>1, ExecuteMoves
  <2> QED
    BY <2>1, <2>2
<1>3. PICK x \in ExecRecords, after \in JobRecords :
        /\ exec' = [exec EXCEPT ![e] = x] /\ job' = [job EXCEPT ![j] = after]
        /\ x.of = j /\ x.at \in {"staging", "planning", "done"}
        /\ ToldRight(x) /\ MovesSlot(e, x)
        /\ ~WaitsForUser(after) /\ after.answers = rec.answers
        /\ after.status = "executing" => x.at \in {"staging", "planning"}
        /\ after.status # "succeeded"
        /\ x.at = "planning" => x.answers = rec.answers
  BY <1>2
<1>4. Moves(e, x, j, after)
  BY <1>1, <1>3 DEF Moves, KickOff
<1>5. MovesQuestion(e, j, after)
  BY <1>3 DEF MovesQuestion, WaitsForUser
<1>6. ~(after.answers < job[j].answers)
  <2>1. after.answers \in Nat /\ job[j].answers \in Nat
    BY DEF JobRecords, ResearchInv, ResearchTypeInv
  <2> QED
    BY <1>3, <2>1
<1>7. RowAgrees(e, x, j, after)
  BY <1>3, <1>6 DEF RowAgrees, Idle
<1> QED
  BY <1>3, <1>4, <1>5, <1>7, MoveKeeps


LEMMA StagingKeeps ==
  ASSUME ResearchInv, NEW e \in 1..ResearchRuns, StagingSucceeds(e) \/ StagingFails(e)
  PROVE  ResearchInv' /\ AnswersKept
<1>1. exec[e].at = "staging" /\ exec[e].at \notin Idle
  BY DEF StagingSucceeds, StagingFails, Idle
<1>2. PICK j \in ResearchJobs : j = exec[e].of /\ job[j] \in JobRecords
  BY <1>1, LiveRunFacts
<1>3. /\ exec[e] \in ExecRecords /\ exec[e].told = 0
      /\ WaitsForUser(job[j]) => j \in overlapped
  BY <1>1, <1>2, LiveRunFacts
<1>4. UNCHANGED <<chatOf, pendingJob, delivered, displaced, overlapped, stranded>>
  BY DEF StagingSucceeds, StagingFails
<1>5. \E x \in ExecRecords, after \in JobRecords :
        /\ exec' = [exec EXCEPT ![e] = x] /\ job' = [job EXCEPT ![j] = after]
        /\ x.of = j /\ x.at \in {"planning", "done"}
        /\ ToldRight(x) /\ MovesSlot(e, x)
        /\ ~WaitsForUser(after) /\ after.answers = job[j].answers
        /\ after.status = "executing" => x.at = "planning"
        /\ after.status = "succeeded" => job[j].status = "succeeded"
        /\ x.at = "planning" => x.answers = job[j].answers
  <2>1. CASE StagingSucceeds(e)
    <3>1. PICK rec \in JobRecords : rec = job[j]
      BY <1>2
    <3>2. Execute(e, j, rec)
      BY <1>2, <2>1, <3>1 DEF StagingSucceeds
    <3> QED
      BY <1>1, <3>1, <3>2, ExecuteMoves
  <2>2. CASE StagingFails(e)
    <3>1. PICK r : /\ r \in {job[j], [job[j] EXCEPT !.status = "failed"]}
                   /\ Caught(e, exec[e], r, FALSE) /\ activeRuns' = activeRuns
      BY <1>2, <2>2 DEF StagingFails
    <3>2. /\ r \in JobRecords /\ r.answers = job[j].answers
          /\ r.status = "succeeded" => job[j].status = "succeeded"
      BY <1>2, <3>1 DEF JobRecords
    <3>3. PICK x, after : x = Ended(exec[e]) /\ after = Failed(r)
      OBVIOUS
    <3>4. exec' = [exec EXCEPT ![e] = x] /\ job' = [job EXCEPT ![j] = after]
      <4>1. exec' = [exec EXCEPT ![e] = Ended(exec[e])] /\ job' = [job EXCEPT ![j] = Failed(r)]
        BY <1>2, <1>3, <3>1 DEF Caught, Reports, Ended
      <4> QED
        BY <3>3, <4>1
    <3>5. /\ x \in ExecRecords /\ after \in JobRecords
          /\ x.of = j /\ x.at = "done" /\ ToldRight(x)
          /\ after.status \notin {"queued", "executing"} /\ after.answers = r.answers
          /\ after.status = "succeeded" => r.status = "succeeded"
      BY <1>2, <1>3, <3>2, <3>3, CaughtEnds
    <3>6. MovesSlot(e, x) /\ ~WaitsForUser(after)
      BY <1>1, <3>1, <3>5 DEF MovesSlot, Trying, Idle, WaitsForUser
    <3> QED
      BY <3>2, <3>4, <3>5, <3>6
  <2> QED
    BY <2>1, <2>2
<1>6. PICK x \in ExecRecords, after \in JobRecords :
        /\ exec' = [exec EXCEPT ![e] = x] /\ job' = [job EXCEPT ![j] = after]
        /\ x.of = j /\ x.at \in {"planning", "done"}
        /\ ToldRight(x) /\ MovesSlot(e, x)
        /\ ~WaitsForUser(after) /\ after.answers = job[j].answers
        /\ after.status = "executing" => x.at = "planning"
        /\ after.status = "succeeded" => job[j].status = "succeeded"
        /\ x.at = "planning" => x.answers = job[j].answers
  BY <1>5
<1>7. Moves(e, x, j, after) /\ MovesQuestion(e, j, after)
  BY <1>1, <1>2, <1>3, <1>4, <1>6 DEF Moves, MovesQuestion
<1>8. RowAgrees(e, x, j, after)
  <2>1. ~(job[j].answers < job[j].answers)
    BY <1>2 DEF JobRecords
  <2> QED
    BY <1>4, <1>6, <2>1 DEF RowAgrees, Idle
<1> QED
  BY <1>6, <1>7, <1>8, MoveKeeps

\* The steps inside executeAction's try that stay there.
LEMMA WorkKeeps ==
  ASSUME ResearchInv, NEW e \in 1..ResearchRuns,
         PlanAsks(e) \/ Advance(e) \/ ReportWritten(e) \/ Throws(e)
  PROVE  ResearchInv' /\ AnswersKept
<1>1. exec[e].at \in {"planning", "asking", "running", "rendering", "delivering"}
  BY DEF PlanAsks, Advance, ReportWritten, Throws
<1>2. exec[e].at \notin Idle /\ exec[e].at # "staging" /\ Trying(exec[e].at)
  BY <1>1 DEF Idle, Trying
<1>3. PICK j \in ResearchJobs : j = exec[e].of /\ job[j] \in JobRecords
  BY <1>2, LiveRunFacts
<1>4. /\ exec[e] \in ExecRecords /\ exec[e].told = 0 /\ exec[e].run # "succeeded"
      /\ exec[e].at # "asking" => (WaitsForUser(job[j]) => j \in overlapped)
      /\ j \notin overlapped => exec[e].answers = job[j].answers
  BY <1>2, <1>3, LiveRunFacts
<1>5. exec \in [1..ResearchRuns -> ExecRecords] /\ job \in [ResearchJobs -> JobRecords]
  BY DEF ResearchInv, ResearchTypeInv
<1>6. UNCHANGED <<chatOf, delivered, overlapped, stranded>> /\ activeRuns' = activeRuns
  BY DEF PlanAsks, Advance, ReportWritten, Throws
<1>7. SUFFICES
        \E x \in ExecRecords, after \in JobRecords :
          /\ exec' = [exec EXCEPT ![e] = x] /\ job' = [job EXCEPT ![j] = after]
          /\ x.of = j /\ x.told = 0 /\ x.run # "succeeded" /\ x.answers = exec[e].answers
          /\ x.at \in {"asking", "running", "rendering", "delivering", "reporting"}
          /\ after.answers \in {exec[e].answers, job[j].answers}
          /\ after.status = "succeeded" => job[j].status = "succeeded"
          /\ after.status = "executing" => x.at # "asking"
          /\ WaitsForUser(after) => x.at = "asking"
          /\ MovesQuestion(e, j, after)
  <2>1. PICK x \in ExecRecords, after \in JobRecords :
          /\ exec' = [exec EXCEPT ![e] = x] /\ job' = [job EXCEPT ![j] = after]
          /\ x.of = j /\ x.told = 0 /\ x.run # "succeeded" /\ x.answers = exec[e].answers
          /\ x.at \in {"asking", "running", "rendering", "delivering", "reporting"}
          /\ after.answers \in {exec[e].answers, job[j].answers}
          /\ after.status = "succeeded" => job[j].status = "succeeded"
          /\ after.status = "executing" => x.at # "asking"
          /\ WaitsForUser(after) => x.at = "asking"
          /\ MovesQuestion(e, j, after)
    BY <1>7
  <2>2. Moves(e, x, j, after)
    BY <1>2, <1>3, <1>6, <2>1 DEF Moves
  <2>3. MovesSlot(e, x) /\ ToldRight(x)
    BY <1>2, <1>6, <2>1 DEF MovesSlot, Trying, Idle, ToldRight
  <2>4. after.answers < job[j].answers => j \in overlapped
    <3>1. ~(job[j].answers < job[j].answers)
      BY <1>3 DEF JobRecords
    <3> QED
      BY <1>4, <2>1, <3>1
  <2>5. j \notin overlapped => x.answers = after.answers
    BY <1>4, <2>1
  <2>6. RowAgrees(e, x, j, after)
    BY <1>6, <2>1, <2>4, <2>5 DEF RowAgrees, Idle
  <2> QED
    BY <2>1, <2>2, <2>3, <2>6, MoveKeeps
<1>8. CASE PlanAsks(e)
  <2>1. PICK x, after :
          /\ x = [exec[e] EXCEPT !.at = "asking"]
          /\ after = [Write(e, "waiting_for_user") EXCEPT
                        !.status = "queued", !.asked = exec[e].asked + 1]
    OBVIOUS
  <2>2. /\ x \in ExecRecords /\ x.of = j /\ x.told = 0 /\ x.run # "succeeded"
        /\ x.answers = exec[e].answers /\ x.at = "asking"
    BY <1>3, <1>4, <2>1 DEF ExecRecords, ExecSteps
  <2>3. /\ after \in JobRecords /\ after.answers = exec[e].answers /\ after.status = "queued"
        /\ after.substate = "waiting_for_user"
    <3>1. exec[e].answers \in Nat /\ exec[e].asked + 1 \in Nat
      BY <1>4 DEF ExecRecords
    <3>2. PICK given \in Nat, asks \in Nat : given = exec[e].answers /\ asks = exec[e].asked + 1
      BY <3>1
    <3>3. after = [job[j] EXCEPT !.substate = "waiting_for_user", !.answers = given,
                                 !.status = "queued", !.asked = asks]
      BY <1>3, <2>1, <3>2 DEF Write
    <3> QED
      BY <1>3, <3>2, <3>3 DEF JobRecords
  <2>4. exec' = [exec EXCEPT ![e] = x]
    BY <1>5, <1>8, <2>1 DEF PlanAsks
  <2>5. job' = [job EXCEPT ![j] = after] /\ SetPending(j, j)
    BY <1>3, <1>8, <2>1 DEF PlanAsks
  <2>6. MovesQuestion(e, j, after)
    BY <2>3, <2>5 DEF MovesQuestion, WaitsForUser
  <2> QED
    BY <2>2, <2>3, <2>4, <2>5, <2>6
<1>9. CASE Advance(e) \/ ReportWritten(e)
  <2>1. PICK next \in {"running", "rendering", "delivering"} :
          /\ exec' = [exec EXCEPT ![e].at = next]
          /\ job' = [job EXCEPT ![j] = Write(e, next)]
          /\ SetPending(j, NoJob) \/ UNCHANGED <<pendingJob, displaced>>
    BY <1>3, <1>9 DEF Advance, ReportWritten
  <2>2. PICK x, after : x = [exec[e] EXCEPT !.at = next] /\ after = Write(e, next)
    OBVIOUS
  <2>3. /\ x \in ExecRecords /\ x.of = j /\ x.told = 0 /\ x.run # "succeeded"
        /\ x.answers = exec[e].answers /\ x.at = next
    BY <1>3, <1>4, <2>2 DEF ExecRecords, ExecSteps
  <2>4. /\ after \in JobRecords /\ after.answers = exec[e].answers
        /\ after.status = job[j].status /\ after.substate = next
    BY <1>3, <1>4, <2>2 DEF ExecRecords, JobRecords, Write
  <2>5. exec' = [exec EXCEPT ![e] = x] /\ job' = [job EXCEPT ![j] = after]
    BY <1>5, <2>1, <2>2
  <2>6. ~WaitsForUser(after)
    BY <2>4 DEF WaitsForUser
  <2>7. exec[e].at # "asking"
    BY <1>9 DEF Advance, ReportWritten
  <2>8. MovesQuestion(e, j, after)
    BY <1>4, <2>1, <2>6, <2>7 DEF MovesQuestion
  <2> QED
    BY <2>3, <2>4, <2>5, <2>6, <2>8
<1>10. CASE Throws(e)
  <2>1. PICK x, after :
          /\ x = [exec[e] EXCEPT !.at = "reporting", !.run = "failed"]
          /\ after = [job[j] EXCEPT !.status = "failed"]
    OBVIOUS
  <2>2. /\ x \in ExecRecords /\ x.of = j /\ x.told = 0 /\ x.run # "succeeded"
        /\ x.answers = exec[e].answers /\ x.at = "reporting"
    BY <1>3, <1>4, <2>1 DEF ExecRecords, ExecSteps
  <2>3. after \in JobRecords /\ after.answers = job[j].answers /\ after.status = "failed"
    BY <1>3, <2>1 DEF JobRecords
  <2>4. exec' = [exec EXCEPT ![e] = x]
    BY <1>5, <1>10, <2>1 DEF Throws
  <2>5. job' = [job EXCEPT ![j] = after] /\ SetPending(j, NoJob)
    BY <1>3, <1>5, <1>10, <2>1 DEF Throws
  <2>6. ~WaitsForUser(after) /\ MovesQuestion(e, j, after)
    BY <2>3, <2>5 DEF MovesQuestion, WaitsForUser
  <2> QED
    BY <2>2, <2>3, <2>4, <2>5, <2>6
<1> QED
  BY <1>8, <1>9, <1>10


\* The steps that end an execution: its question or its report is out, or its failure told.
LEMMA ExecutionEndKeeps ==
  ASSUME ResearchInv, NEW e \in 1..ResearchRuns,
         QuestionSent(e) \/ ReportSent(e) \/ FailureSent(e) \/ FailureNotSent(e)
  PROVE  ResearchInv' /\ AnswersKept
<1>1. exec[e].at \in {"asking", "delivering", "reporting"}
  BY DEF QuestionSent, ReportSent, FailureSent, FailureNotSent
<1>2. exec[e].at \notin Idle /\ exec[e].at # "staging" /\ Trying(exec[e].at)
  BY <1>1 DEF Idle, Trying
<1>3. PICK j \in ResearchJobs : j = exec[e].of /\ job[j] \in JobRecords
  BY <1>2, LiveRunFacts
<1>4. /\ exec[e] \in ExecRecords /\ exec[e].told = 0
      /\ exec[e].at # "asking" => (WaitsForUser(job[j]) => j \in overlapped)
      /\ j \notin overlapped => exec[e].answers = job[j].answers
  BY <1>2, <1>3, LiveRunFacts
<1>5. exec \in [1..ResearchRuns -> ExecRecords] /\ job \in [ResearchJobs -> JobRecords]
  BY DEF ResearchInv, ResearchTypeInv
<1>6. /\ UNCHANGED <<chatOf, pendingJob, displaced, overlapped, stranded>> /\ activeRuns' = Left(e)
      /\ delivered' = delivered \/ (ReportSent(e) /\ delivered' = delivered \cup {e})
  BY DEF QuestionSent, ReportSent, FailureSent, FailureNotSent
<1>7. SUFFICES
        \E x \in ExecRecords, after \in JobRecords :
          /\ exec' = [exec EXCEPT ![e] = x] /\ job' = [job EXCEPT ![j] = after]
          /\ x.of = j /\ x.at = "done" /\ ToldRight(x)
          /\ after.answers \in {exec[e].answers, job[j].answers}
          /\ after.status = "succeeded" => job[j].status = "succeeded" \/ e \in delivered'
          /\ \/ after = job[j] /\ exec[e].at = "asking"
             \/ after.status \notin {"queued", "executing"} /\ exec[e].at # "asking"
  <2>1. PICK x \in ExecRecords, after \in JobRecords :
          /\ exec' = [exec EXCEPT ![e] = x] /\ job' = [job EXCEPT ![j] = after]
          /\ x.of = j /\ x.at = "done" /\ ToldRight(x)
          /\ after.answers \in {exec[e].answers, job[j].answers}
          /\ after.status = "succeeded" => job[j].status = "succeeded" \/ e \in delivered'
          /\ \/ after = job[j] /\ exec[e].at = "asking"
             \/ after.status \notin {"queued", "executing"} /\ exec[e].at # "asking"
    BY <1>7
  <2>2. Moves(e, x, j, after)
    BY <1>2, <1>3, <1>6, <2>1 DEF Moves
  <2>3. MovesSlot(e, x)
    BY <1>2, <1>6, <2>1 DEF MovesSlot, Trying, Idle
  <2>4. MovesQuestion(e, j, after)
    BY <1>4, <1>6, <2>1 DEF MovesQuestion, WaitsForUser
  <2>5. after.answers < job[j].answers => j \in overlapped
    <3>1. ~(job[j].answers < job[j].answers)
      BY <1>3 DEF JobRecords
    <3> QED
      BY <1>4, <2>1, <3>1
  <2>6. RowAgrees(e, x, j, after)
    BY <1>6, <2>1, <2>5 DEF RowAgrees, Idle
  <2> QED
    BY <2>1, <2>2, <2>3, <2>4, <2>6, MoveKeeps
<1>8. CASE QuestionSent(e) \/ ReportSent(e)
  <2>1. PICK x : x = [exec[e] EXCEPT !.at = "done", !.run = "succeeded"]
    OBVIOUS
  <2>2. /\ x \in ExecRecords /\ x.of = j /\ x.told = 0 /\ x.run = "succeeded" /\ x.at = "done"
    BY <1>3, <1>4, <2>1 DEF ExecRecords, ExecSteps
  <2>3. ToldRight(x)
    BY <2>2 DEF ToldRight
  <2>4. exec' = [exec EXCEPT ![e] = x]
    BY <1>5, <1>8, <2>1 DEF QuestionSent, ReportSent
  <2>5. CASE QuestionSent(e)
    <3>1. exec[e].at = "asking" /\ job' = [job EXCEPT ![j] = job[j]]
      BY <1>5, <2>5 DEF QuestionSent
    <3>2. PICK after \in JobRecords : after = job[j]
      BY <1>3
    <3> QED
      BY <2>2, <2>3, <2>4, <3>1, <3>2
  <2>6. CASE ReportSent(e)
    <3>1. PICK after : after = [Write(e, "null") EXCEPT !.status = "succeeded"]
      OBVIOUS
    <3>2. after \in JobRecords /\ after.answers = exec[e].answers /\ after.status = "succeeded"
      BY <1>3, <1>4, <3>1 DEF ExecRecords, JobRecords, Write
    <3>3. job' = [job EXCEPT ![j] = after] /\ e \in delivered' /\ exec[e].at # "asking"
      BY <1>3, <2>6, <3>1 DEF ReportSent
    <3> QED
      BY <2>2, <2>3, <2>4, <3>2, <3>3
  <2> QED
    BY <1>8, <2>5, <2>6
<1>9. CASE FailureSent(e) \/ FailureNotSent(e)
  <2>1. exec' = [exec EXCEPT ![e] = Ended(exec[e])] /\ job' = [job EXCEPT ![j] = Failed(job[j])]
    <3>1. CASE FailureSent(e)
      <4>1. PICK y : y = [exec[e] EXCEPT !.told = 1]
        OBVIOUS
      <4>2. Caught(e, y, job[j], TRUE)
        BY <1>3, <3>1, <4>1 DEF FailureSent
      <4>3. y.of = j /\ y.told = 1
        BY <1>3, <1>4, <4>1 DEF ExecRecords
      <4>4. [y EXCEPT !.at = "done", !.run = "failed", !.told = @ + Reports(e, TRUE)] = Ended(exec[e])
        <5>1. y.told + Reports(e, TRUE) = 1
          BY <4>3 DEF Reports
        <5>2. [y EXCEPT !.at = "done", !.run = "failed", !.told = 1] = Ended(exec[e])
          BY <1>4, <4>1 DEF Ended, ExecRecords
        <5> QED
          BY <5>1, <5>2
      <4> QED
        BY <4>2, <4>3, <4>4 DEF Caught
    <3>2. CASE FailureNotSent(e)
      BY <1>3, <1>4, <3>2 DEF FailureNotSent, Caught, Reports, Ended
    <3> QED
      BY <1>9, <3>1, <3>2
  <2>2. PICK x, after : x = Ended(exec[e]) /\ after = Failed(job[j])
    OBVIOUS
  <2>3. /\ x \in ExecRecords /\ after \in JobRecords
        /\ x.of = j /\ x.at = "done" /\ ToldRight(x)
        /\ after.status \notin {"queued", "executing"} /\ after.answers = job[j].answers
        /\ after.status = "succeeded" => job[j].status = "succeeded"
    BY <1>3, <1>4, <2>2, CaughtEnds
  <2>4. exec[e].at # "asking"
    BY <1>9 DEF FailureSent, FailureNotSent
  <2> QED
    BY <2>1, <2>2, <2>3, <2>4
<1> QED
  BY <1>8, <1>9

LEMMA CancelKeeps ==
  ASSUME ResearchInv, NEW j \in ResearchJobs, Cancel(j)
  PROVE  ResearchInv' /\ AnswersKept
<1>1. PICK after : after = [job[j] EXCEPT !.status = "failed", !.substate = "null"]
  OBVIOUS
<1>2. /\ chatOf \in [ResearchJobs -> ResearchChats]
      /\ job \in [ResearchJobs -> JobRecords]
      /\ pendingJob \in [ResearchChats -> ResearchJobs \cup {NoJob}]
      /\ exec \in [1..ResearchRuns -> ExecRecords]
  BY DEF ResearchInv, ResearchTypeInv
<1>3. /\ after \in JobRecords /\ after.answers = job[j].answers
      /\ after.status = "failed" /\ ~WaitsForUser(after)
  BY <1>1, <1>2 DEF JobRecords, WaitsForUser
<1>4. /\ job' = [job EXCEPT ![j] = after]
      /\ pendingJob' = [pendingJob EXCEPT ![chatOf[j]] = NoJob]
      /\ displaced' = displaced \cup ({pendingJob[chatOf[j]]} \ {NoJob, j})
      /\ UNCHANGED <<chatOf, exec, activeRuns, delivered, overlapped, stranded>>
  BY <1>1, <1>2 DEF Cancel, SetPending
<1>5. /\ job'[j] = after /\ \A k \in ResearchJobs : k # j => job'[k] = job[k]
      /\ job' \in [ResearchJobs -> JobRecords]
  BY <1>2, <1>3, <1>4
<1>6. ResearchTypeInv' /\ SlotsCounted' /\ (\A e \in 1..ResearchRuns : ToldRight(exec[e]))'
  BY <1>2, <1>4, <1>5 DEF ResearchInv, ResearchTypeInv, SlotsCounted, InTry, ToldRight
<1>7. ExecutingInv' /\ AloneInv' /\ DeliveredInv'
  <2>1. \A k \in ResearchJobs : Live(k)' = Live(k) /\ job'[k].answers = job[k].answers
    BY <1>3, <1>4, <1>5 DEF Live
  <2>2. \A k \in ResearchJobs : job'[k] = job[k] \/ job'[k] = after
    BY <1>5
  <2>3. ExecutingInv'
    BY <1>3, <1>4, <2>1, <2>2 DEF ResearchInv, ExecutingInv
  <2>4. AloneInv'
    BY <1>3, <1>4, <2>1, <2>2 DEF ResearchInv, AloneInv, WaitsForUser
  <2>5. DeliveredInv'
    BY <1>3, <1>4, <2>2 DEF ResearchInv, DeliveredInv, SucceededDelivered
  <2> QED
    BY <2>3, <2>4, <2>5
<1>8. QuestionReachable' /\ PendingWaits'
  <2>1. chatOf[j] \in ResearchChats
    BY <1>2
  <2>2. /\ \A k \in ResearchJobs : WaitsForUser(job[k]) => pendingJob[chatOf[k]] = k \/ k \in displaced
        /\ \A c \in ResearchChats : pendingJob[c] # NoJob =>
             chatOf[pendingJob[c]] = c
               /\ (pendingJob[c] \in overlapped \/ WaitsForUser(job[pendingJob[c]]))
    BY DEF ResearchInv, QuestionReachable, PendingWaits, WaitsForUser
  <2>3. /\ pendingJob'[chatOf[j]] = NoJob
        /\ \A c \in ResearchChats : c # chatOf[j] => pendingJob'[c] = pendingJob[c]
    BY <1>2, <1>4, <2>1
  <2>4. ASSUME NEW k \in ResearchJobs, WaitsForUser(job'[k])
        PROVE  pendingJob'[chatOf[k]] = k \/ k \in displaced'
    <3>1. k # j /\ WaitsForUser(job[k]) /\ k # NoJob
      BY <1>3, <1>5, <2>4, ResearchAssumption DEF NoJob
    <3> QED
      BY <1>2, <1>4, <2>2, <2>3, <3>1
  <2>5. ASSUME NEW c \in ResearchChats, pendingJob'[c] # NoJob
        PROVE  chatOf[pendingJob'[c]] = c
                 /\ (pendingJob'[c] \in overlapped \/ WaitsForUser(job'[pendingJob'[c]]))
    <3>1. c # chatOf[j] /\ pendingJob'[c] = pendingJob[c] /\ pendingJob[c] \in ResearchJobs
      BY <1>2, <2>3, <2>5
    <3>2. pendingJob[c] # j
      BY <2>2, <2>5, <3>1
    <3> QED
      BY <1>5, <2>2, <2>5, <3>1, <3>2
  <2> QED
    BY <1>4, <2>4, <2>5 DEF QuestionReachable, PendingWaits, WaitsForUser
<1>9. AnswersKept
  <2>1. \A k \in ResearchJobs : job'[k].answers = job[k].answers /\ job[k].answers \in Nat
    BY <1>2, <1>3, <1>5 DEF JobRecords
  <2> QED
    BY <2>1 DEF AnswersKept
<1> QED
  BY <1>6, <1>7, <1>8, <1>9 DEF ResearchInv

LEMMA HostRestartKeeps ==
  ASSUME ResearchInv, HostRestarts
  PROVE  ResearchInv' /\ AnswersKept
<1>1. /\ UNCHANGED <<chatOf, job, pendingJob, delivered, displaced, overlapped>>
      /\ stranded = {} /\ activeRuns' = 0
      /\ stranded' = {exec[e].of : e \in {x \in 1..ResearchRuns : exec[x].at \notin Idle}}
      /\ exec' = [e \in 1..ResearchRuns |->
                    IF exec[e].at \in Idle THEN exec[e] ELSE [exec[e] EXCEPT !.at = "gone"]]
  BY DEF HostRestarts
<1>2. /\ exec \in [1..ResearchRuns -> ExecRecords] /\ job \in [ResearchJobs -> JobRecords]
      /\ \A e \in 1..ResearchRuns : exec[e].at # "none" => exec[e].of \in ResearchJobs
  BY DEF ResearchInv, ResearchTypeInv
<1>3. ASSUME NEW e \in 1..ResearchRuns
      PROVE  /\ exec'[e] \in ExecRecords /\ exec'[e].of = exec[e].of /\ exec'[e].at \in Idle
             /\ exec[e].at \in Idle => exec'[e] = exec[e]
             /\ exec[e].at \notin Idle =>
                  exec'[e].at = "gone" /\ exec'[e].told = exec[e].told /\ exec'[e].run = exec[e].run
  <2>1. CASE exec[e].at \in Idle
    BY <1>1, <1>2, <2>1
  <2>2. CASE exec[e].at \notin Idle
    <3>1. exec'[e] = [exec[e] EXCEPT !.at = "gone"]
      BY <1>1, <2>2
    <3> QED
      BY <1>2, <2>2, <3>1 DEF ExecRecords, ExecSteps, Idle
  <2> QED
    BY <2>1, <2>2
<1>4. exec' \in [1..ResearchRuns -> ExecRecords]
  BY <1>1, <1>3
<1>5. ResearchTypeInv'
  <2>1. \A e \in 1..ResearchRuns : exec'[e].at # "none" => exec'[e].of \in ResearchJobs
    BY <1>2, <1>3 DEF Idle
  <2> QED
    BY <1>1, <1>4, <2>1 DEF ResearchInv, ResearchTypeInv
<1>6. SlotsCounted'
  <2>1. InTry' = {}
    BY <1>3 DEF InTry
  <2> QED
    BY <1>1, <2>1, FS_EmptySet, ResearchAssumption DEF SlotsCounted
<1>7. (\A e \in 1..ResearchRuns : ToldRight(exec[e]))'
  <2>1. ASSUME NEW e \in 1..ResearchRuns PROVE ToldRight(exec'[e])
    <3>1. ToldRight(exec[e])
      BY DEF ResearchInv
    <3> QED
      BY <1>3, <3>1 DEF ToldRight, Idle
  <2> QED
    BY <2>1 DEF ToldRight
<1>8. ExecutingInv'
  <2>1. ASSUME NEW k \in ResearchJobs, job[k].status = "executing" PROVE k \in stranded'
    <3>1. PICK e \in 1..ResearchRuns : e \in Live(k)
      BY <1>1, <2>1 DEF ResearchInv, ExecutingInv
    <3> QED
      BY <1>1, <3>1 DEF Live
  <2> QED
    BY <1>1, <2>1 DEF ExecutingInv
<1>9. AloneInv'
  <2>1. \A k \in ResearchJobs : Live(k)' = {}
    BY <1>3 DEF Live
  <2> QED
    BY <1>1, <2>1 DEF AloneInv
<1>10. DeliveredInv'
  <2>1. \A e \in delivered : e \in 1..ResearchRuns /\ exec[e].at = "done" /\ exec'[e] = exec[e]
    BY <1>3 DEF ResearchInv, DeliveredInv, Idle
  <2>2. ASSUME NEW k \in ResearchJobs, job[k].status = "succeeded"
        PROVE  \E e \in delivered : exec'[e].of = k
    BY <2>1, <2>2 DEF ResearchInv, DeliveredInv, SucceededDelivered
  <2> QED
    BY <1>1, <2>1, <2>2 DEF DeliveredInv, SucceededDelivered
<1>11. QuestionReachable' /\ PendingWaits'
  BY <1>1 DEF ResearchInv, QuestionReachable, PendingWaits
<1>12. AnswersKept
  <2>1. \A k \in ResearchJobs : job[k].answers \in Nat
    BY <1>2 DEF JobRecords
  <2> QED
    BY <1>1, <2>1 DEF AnswersKept
<1> QED
  BY <1>5, <1>6, <1>7, <1>8, <1>9, <1>10, <1>11, <1>12 DEF ResearchInv

\* Whatever executions of a job overlap, are cancelled or die with the host: the slots of
\* the concurrency limit are those of running executions, a failure is told once, a status
\* ends with the execution behind it, a question can be answered and its answer is kept,
\* and a success has a report (research/service.ts).
THEOREM JobsAreCorrect == ServicesSpec => JobsCorrect
<1>1. ServicesInit => ResearchInv
  <2> SUFFICES ASSUME ResearchInit PROVE ResearchInv
    BY DEF ServicesInit
  <2> USE DEF ResearchInit
  <2>1. \A e \in 1..ResearchRuns :
          /\ exec[e] \in ExecRecords /\ exec[e].at = "none" /\ exec[e].told = 0
          /\ exec[e].run = "none"
    BY DEF ExecRecords, ExecSteps
  <2>2. \A j \in ResearchJobs : job[j] \in JobRecords /\ job[j].status = "none"
    BY DEF JobRecords
  <2>3. ResearchTypeInv
    BY <2>1, <2>2 DEF ResearchTypeInv
  <2>4. InTry = {} /\ \A j \in ResearchJobs : Live(j) = {}
    BY <2>1 DEF InTry, Live, Idle
  <2>5. SlotsCounted
    BY <2>4, FS_EmptySet, ResearchAssumption DEF SlotsCounted
  <2>6. \A e \in 1..ResearchRuns : ToldRight(exec[e])
    BY <2>1 DEF ToldRight
  <2>7. ExecutingInv /\ AloneInv /\ QuestionReachable /\ PendingWaits /\ DeliveredInv
    BY <2>2, <2>4
    DEF ExecutingInv, AloneInv, QuestionReachable, PendingWaits, DeliveredInv, SucceededDelivered
  <2> QED
    BY <2>3, <2>5, <2>6, <2>7 DEF ResearchInv
<1>2. ResearchInv => SlotsCounted /\ ToldOnce /\ ExecutingIsRun /\ QuestionReachable
                       /\ PendingWaits /\ SucceededDelivered
  BY DEF ResearchInv, ToldRight, ToldOnce, ExecutingInv, ExecutingIsRun, DeliveredInv
<1>3. ASSUME ResearchInv, ResearchNext PROVE ResearchInv' /\ AnswersKept
  <2>1. ASSUME NEW j \in ResearchJobs, Start(j) \/ AnswerFollowup(j)
        PROVE  ResearchInv' /\ AnswersKept
    <3>1. job[j] \in JobRecords
      BY <1>3 DEF ResearchInv, ResearchTypeInv
    <3>4. PICK n \in Nat : n = job[j].answers
      BY <3>1 DEF JobRecords
    <3>5. n + 1 \in Nat /\ n + 1 >= n /\ n >= n
      OBVIOUS
    <3>2. CASE Start(j)
      <4>1. PICK rec : rec = [job[j] EXCEPT !.status = "queued", !.substate = "scoping"]
        OBVIOUS
      <4>2. rec \in JobRecords /\ rec.status = "queued" /\ rec.answers >= job[j].answers
        <5>1. rec \in JobRecords /\ rec.status = "queued" /\ rec.answers = n
          BY <3>1, <3>4, <3>5, <4>1 DEF JobRecords
        <5> QED
          BY <3>4, <3>5, <5>1
      <4>3. /\ KickOff(j, rec) /\ job[j].status = "none"
            /\ UNCHANGED <<chatOf, delivered, stranded>> /\ UNCHANGED <<pendingJob, displaced>>
        BY <3>2, <4>1 DEF Start
      <4> QED
        BY <1>3, <4>2, <4>3, KickOffKeeps
    <3>3. CASE AnswerFollowup(j)
      <4>1. PICK rec : rec = [job[j] EXCEPT !.status = "queued", !.substate = "scoping",
                                            !.answers = @ + 1]
        OBVIOUS
      <4>2. rec \in JobRecords /\ rec.status = "queued" /\ rec.answers >= job[j].answers
        <5>1. rec \in JobRecords /\ rec.status = "queued" /\ rec.answers = n + 1
          BY <3>1, <3>4, <3>5, <4>1 DEF JobRecords
        <5> QED
          BY <3>4, <3>5, <5>1
      <4>3. KickOff(j, rec) /\ SetPending(j, NoJob) /\ UNCHANGED <<chatOf, delivered, stranded>>
        BY <3>3, <4>1 DEF AnswerFollowup
      <4> QED
        BY <1>3, <4>2, <4>3, KickOffKeeps
    <3> QED
      BY <2>1, <3>2, <3>3
  <2>2. ASSUME NEW e \in 1..ResearchRuns,
               \/ StagingSucceeds(e) \/ StagingFails(e) \/ PlanAsks(e) \/ QuestionSent(e)
               \/ Advance(e) \/ ReportWritten(e) \/ ReportSent(e) \/ Throws(e)
               \/ FailureSent(e) \/ FailureNotSent(e)
        PROVE  ResearchInv' /\ AnswersKept
    BY <1>3, <2>2, StagingKeeps, WorkKeeps, ExecutionEndKeeps
  <2> QED
    BY <1>3, <2>1, <2>2, CancelKeeps, HostRestartKeeps DEF ResearchNext
<1>4. ASSUME ResearchInv, UNCHANGED researchVars PROVE ResearchInv'
  <2>1. UNCHANGED <<chatOf, job, pendingJob, exec, activeRuns, delivered, displaced, overlapped,
                    stranded>>
    BY <1>4 DEF researchVars
  <2> QED
    BY <1>4, <2>1
    DEF ResearchInv, ResearchTypeInv, SlotsCounted, InTry, Live, ToldRight, ExecutingInv, AloneInv,
        QuestionReachable, PendingWaits, DeliveredInv, SucceededDelivered, WaitsForUser
<1>5. ResearchInv /\ [ServicesNext]_servicesVars
        => ResearchInv' /\ [ /\ SlotsCounted' /\ ToldOnce' /\ ExecutingIsRun'
                             /\ QuestionReachable' /\ PendingWaits' /\ SucceededDelivered'
                             /\ AnswersKept ]_researchVars
  <2>1. ResearchInv' => SlotsCounted' /\ ToldOnce' /\ ExecutingIsRun' /\ QuestionReachable'
                          /\ PendingWaits' /\ SucceededDelivered'
    BY <1>2, PTL
  <2>2. [ServicesNext]_servicesVars => ResearchNext \/ UNCHANGED researchVars
    BY DEF ServicesNext, servicesVars
  <2> QED
    BY <1>3, <1>4, <2>1, <2>2
<1> QED
  BY <1>1, <1>5, PTL DEF ServicesSpec, JobsCorrect

-----------------------------------------------------------------------------
(* The monitor of a service *)

HealthRecords == [failures : Nat, last : Nat, backoff : 0..MaxBackoff, open : BOOLEAN]

HealthTypeInv ==
  /\ clock \in Nat \ {0}
  /\ health \in [Objects -> HealthRecords]
  /\ tracked \in Objects
  /\ \A c \in checks : c.object \in Objects
  /\ autoStarts \subseteq [object : Objects, time : Nat \ {0}, after : 0..MaxBackoff]
  /\ badChecks \in [Objects -> Nat]

\* A state counts its failed checks, and remembers its last restart and a backoff longer
\* than that of every earlier one.
StateInv ==
  \A o \in Objects :
    /\ badChecks[o] = health[o].failures /\ health[o].last <= clock
    /\ \A a \in autoStarts :
         a.object = o => a.time <= health[o].last /\ Doubled(a.after) <= health[o].backoff

HealthInv == HealthTypeInv /\ StateInv /\ BackedOff

LEMMA DoubledFacts ==
  ASSUME NEW b \in 0..MaxBackoff
  PROVE  Doubled(b) \in 0..MaxBackoff /\ b <= Doubled(b)
BY HealthAssumption DEF Doubled

\* What a failing check does to the state it began with.
LEMMA CheckFailsFacts ==
  ASSUME HealthInv, NEW c \in checks, CheckFails(c)
  PROVE  \E o \in Objects, q \in HealthRecords :
           /\ o = c.object /\ q.failures = health[o].failures + 1
           /\ health' = [health EXCEPT ![o] = q]
           /\ badChecks' = [badChecks EXCEPT ![o] = @ + 1]
           /\ checks' \subseteq checks /\ tracked' \in Objects /\ clock' = clock
           /\ health[o].open => q.open
           /\ \/ /\ autoStarts' = autoStarts
                 /\ q.last = health[o].last /\ q.backoff = health[o].backoff
              \/ /\ q.failures < FailThreshold
                 /\ health[o].last = 0 \/ clock - health[o].last >= health[o].backoff
                 /\ q.last = clock /\ q.backoff = Doubled(health[o].backoff)
                 /\ autoStarts' = autoStarts \cup
                      {[object |-> o, time |-> clock, after |-> health[o].backoff]}
<1> USE DEF HealthInv
<1>1. PICK o \in Objects, r \in HealthRecords, n \in Nat : o = c.object /\ r = health[o] /\ n = clock
  BY DEF HealthTypeInv
<1>2. PICK h \in HealthRecords :
        /\ h = [r EXCEPT !.failures = @ + 1] /\ h.failures = r.failures + 1
        /\ h.last = r.last /\ h.backoff = r.backoff /\ h.open = r.open
  <2>1. [r EXCEPT !.failures = @ + 1] \in HealthRecords
    BY DEF HealthRecords
  <2> QED
    BY <2>1 DEF HealthRecords
<1>3. /\ checks' \subseteq checks /\ clock' = clock
      /\ badChecks' = [badChecks EXCEPT ![o] = @ + 1]
  BY <1>1 DEF CheckFails
<1>4. tracked' \in Objects
  <2>1. tracked' = tracked \/ (tracked < HealthStates /\ tracked' = tracked + 1)
    BY DEF CheckFails, CanReset, Reset
  <2> QED
    BY <2>1, HealthAssumption DEF HealthTypeInv, Objects
<1>5. \/ /\ health' = [health EXCEPT ![o] = [h EXCEPT !.open = TRUE]] /\ autoStarts' = autoStarts
      \/ /\ health' = [health EXCEPT ![o] = h] /\ autoStarts' = autoStarts
      \/ /\ ~Opens(h) /\ Due(h)
         /\ health' = [health EXCEPT ![o] = [h EXCEPT !.last = n, !.backoff = Doubled(@)]]
         /\ autoStarts' = autoStarts \cup {[object |-> o, time |-> n, after |-> h.backoff]}
  BY <1>1, <1>2 DEF CheckFails
<1>6. CASE health' = [health EXCEPT ![o] = [h EXCEPT !.open = TRUE]] /\ autoStarts' = autoStarts
  <2>1. PICK q \in HealthRecords :
          /\ q = [h EXCEPT !.open = TRUE] /\ q.failures = h.failures /\ q.open
          /\ q.last = h.last /\ q.backoff = h.backoff
    <3>1. [h EXCEPT !.open = TRUE] \in HealthRecords
      BY DEF HealthRecords
    <3> QED
      BY <3>1 DEF HealthRecords
  <2> QED
    BY <1>1, <1>2, <1>3, <1>4, <1>6, <2>1, ZenonT(30)
<1>7. CASE health' = [health EXCEPT ![o] = h] /\ autoStarts' = autoStarts
  BY <1>1, <1>2, <1>3, <1>4, <1>7
<1>8. CASE /\ ~Opens(h) /\ Due(h)
           /\ health' = [health EXCEPT ![o] = [h EXCEPT !.last = n, !.backoff = Doubled(@)]]
           /\ autoStarts' = autoStarts \cup {[object |-> o, time |-> n, after |-> h.backoff]}
  <2>1. PICK b \in 0..MaxBackoff : b = Doubled(h.backoff)
    BY DoubledFacts DEF HealthRecords
  <2>2. PICK q \in HealthRecords :
          /\ q = [h EXCEPT !.last = n, !.backoff = b] /\ q.failures = h.failures
          /\ q.open = h.open /\ q.last = n /\ q.backoff = b
    <3>1. [h EXCEPT !.last = n, !.backoff = b] \in HealthRecords
      BY DEF HealthRecords
    <3> QED
      BY <3>1 DEF HealthRecords
  <2>3. q.failures < FailThreshold /\ (h.last = 0 \/ n - h.last >= h.backoff)
    BY <1>1, <1>8, <2>2, HealthAssumption DEF Opens, Due, HealthRecords
  <2>4. health' = [health EXCEPT ![o] = q]
    BY <1>8, <2>1, <2>2
  <2>5. autoStarts' = autoStarts \cup
          {[object |-> o, time |-> clock, after |-> health[o].backoff]}
    BY <1>1, <1>2, <1>8
  <2>6. /\ q.failures = health[o].failures + 1 /\ (health[o].open => q.open)
        /\ q.last = clock /\ q.backoff = Doubled(health[o].backoff)
        /\ health[o].last = 0 \/ clock - health[o].last >= health[o].backoff
    BY <1>1, <1>2, <2>1, <2>2, <2>3
  <2> QED
    BY <1>1, <1>3, <1>4, <2>3, <2>4, <2>5, <2>6
<1> QED
  BY <1>5, <1>6, <1>7, <1>8

\* Of two restarts on one state the later one waited for its backoff, which is at least
\* twice the earlier one's.
LEMMA CheckFailsKeeps ==
  ASSUME HealthInv, NEW c \in checks, CheckFails(c)
  PROVE  HealthInv' /\ BreakerHolds /\ OpenUntilReset
<1> USE DEF HealthInv
<1>1. PICK o \in Objects, q \in HealthRecords :
        /\ o = c.object /\ q.failures = health[o].failures + 1
        /\ health' = [health EXCEPT ![o] = q]
        /\ badChecks' = [badChecks EXCEPT ![o] = @ + 1]
        /\ checks' \subseteq checks /\ tracked' \in Objects /\ clock' = clock
        /\ health[o].open => q.open
        /\ \/ /\ autoStarts' = autoStarts
              /\ q.last = health[o].last /\ q.backoff = health[o].backoff
           \/ /\ q.failures < FailThreshold
              /\ health[o].last = 0 \/ clock - health[o].last >= health[o].backoff
              /\ q.last = clock /\ q.backoff = Doubled(health[o].backoff)
              /\ autoStarts' = autoStarts \cup
                   {[object |-> o, time |-> clock, after |-> health[o].backoff]}
  BY CheckFailsFacts
<1>2. PICK r \in HealthRecords, n \in Nat \ {0} : r = health[o] /\ n = clock
  BY DEF HealthTypeInv
<1>3. PICK x : x = [object |-> o, time |-> n, after |-> r.backoff]
  OBVIOUS
<1>4. /\ x \in [object : Objects, time : Nat \ {0}, after : 0..MaxBackoff]
      /\ x.object = o /\ x.time = n /\ x.after = r.backoff
  BY <1>2, <1>3 DEF HealthRecords
<1>5. \/ autoStarts' = autoStarts /\ q.last = r.last /\ q.backoff = r.backoff
      \/ /\ q.failures < FailThreshold /\ (r.last = 0 \/ n - r.last >= r.backoff)
         /\ q.last = n /\ q.backoff = Doubled(r.backoff) /\ autoStarts' = autoStarts \cup {x}
  BY <1>1, <1>2, <1>3
<1>6. /\ r.last \in Nat /\ r.last <= n /\ r.backoff \in 0..MaxBackoff
      /\ badChecks[o] \in Nat /\ badChecks[o] = r.failures
      /\ \A a \in autoStarts : a.object = o => a.time <= r.last /\ Doubled(a.after) <= r.backoff
  BY <1>2 DEF HealthTypeInv, StateInv, HealthRecords
<1>7. HealthTypeInv'
  BY <1>1, <1>2, <1>4, <1>5 DEF HealthTypeInv
<1>8. Doubled(r.backoff) \in 0..MaxBackoff /\ r.backoff <= Doubled(r.backoff)
  BY <1>6, DoubledFacts
<1>9. StateInv'
  <2> SUFFICES ASSUME NEW p \in Objects
               PROVE  /\ badChecks'[p] = health'[p].failures /\ health'[p].last <= n
                      /\ \A a \in autoStarts' :
                           a.object = p => /\ a.time <= health'[p].last
                                           /\ Doubled(a.after) <= health'[p].backoff
    BY <1>1, <1>2 DEF StateInv, Doubled
  <2>1. CASE p # o
    <3>1. health'[p] = health[p] /\ badChecks'[p] = badChecks[p]
      BY <1>1, <2>1 DEF HealthTypeInv
    <3>2. \A a \in autoStarts' : a.object = p => a \in autoStarts
      BY <1>4, <1>5, <2>1
    <3> QED
      BY <1>2, <3>1, <3>2 DEF StateInv
  <2>2. CASE p = o
    <3>1. health'[p] = q /\ badChecks'[p] = badChecks[o] + 1
      BY <1>1, <2>2 DEF HealthTypeInv
    <3>2. q.last <= n
      BY <1>5, <1>6
    <3>3. ASSUME NEW a \in autoStarts, a.object = o
          PROVE  a.time <= q.last /\ Doubled(a.after) <= q.backoff
      <4>1. /\ a.time \in Nat /\ a.time <= r.last /\ Doubled(a.after) <= r.backoff
            /\ Doubled(a.after) \in 0..MaxBackoff
        BY <1>6, <3>3, DoubledFacts DEF HealthTypeInv
      <4> QED
        BY <1>5, <1>6, <1>8, <4>1
    <3>4. autoStarts' # autoStarts => x.time <= q.last /\ Doubled(x.after) <= q.backoff
      BY <1>4, <1>5, <1>8
    <3> QED
      BY <1>1, <1>2, <1>5, <1>6, <2>2, <3>1, <3>2, <3>3, <3>4
  <2> QED
    BY <2>1, <2>2
<1>10. BackedOff'
  <2>1. CASE autoStarts' = autoStarts
    BY <2>1 DEF BackedOff, Doubled
  <2>2. CASE /\ r.last = 0 \/ n - r.last >= r.backoff
             /\ autoStarts' = autoStarts \cup {x}
    <3>1. ASSUME NEW a \in autoStarts, a.object = o
          PROVE  /\ ~(x.time < a.time)
                 /\ x.time - a.time >= x.after /\ x.after >= Doubled(a.after)
      <4>1. /\ a.time \in Nat \ {0} /\ a.time <= r.last /\ Doubled(a.after) <= r.backoff
        BY <1>6, <3>1 DEF HealthTypeInv
      <4> QED
        BY <1>4, <1>6, <2>2, <4>1
    <3> SUFFICES ASSUME NEW a \in autoStarts', NEW b \in autoStarts',
                        a.object = b.object, a.time < b.time
                 PROVE  b.time - a.time >= b.after /\ b.after >= Doubled(a.after)
      BY DEF BackedOff, Doubled
    <3>2. CASE a \in autoStarts /\ b \in autoStarts
      BY <3>2 DEF BackedOff
    <3>3. CASE a \in autoStarts /\ b = x
      BY <1>4, <3>1, <3>3
    <3>4. CASE a = x
      <4>1. b # x
        BY <1>4, <3>4
      <4> QED
        BY <1>4, <2>2, <3>1, <3>4, <4>1
    <3> QED
      BY <2>2, <3>2, <3>3, <3>4
  <2> QED
    BY <1>5, <2>1, <2>2
<1>11. BreakerHolds
  <2> SUFFICES ASSUME NEW p \in Objects, badChecks[p] >= FailThreshold - 1
               PROVE  {a \in autoStarts' : a.object = p} = {a \in autoStarts : a.object = p}
    BY DEF BreakerHolds
  <2>1. CASE p # o
    BY <1>4, <1>5, <2>1
  <2>2. CASE p = o
    <3>1. ~(q.failures < FailThreshold)
      BY <1>1, <1>2, <1>6, <2>2, HealthAssumption
    <3> QED
      BY <1>5, <3>1
  <2> QED
    BY <2>1, <2>2
<1>12. OpenUntilReset
  BY <1>1 DEF OpenUntilReset, HealthTypeInv
<1> QED
  BY <1>7, <1>9, <1>10, <1>11, <1>12

LEMMA OtherHealthSteps ==
  ASSUME HealthInv,
         \/ CheckBegins \/ ManualStart \/ StopService \/ Toggle
         \/ \E c \in checks : CheckPasses(c)
         \/ UNCHANGED healthVars
  PROVE  HealthInv' /\ BreakerHolds /\ OpenUntilReset
<1> USE DEF HealthInv
<1>1. /\ UNCHANGED <<health, autoStarts, badChecks>>
      /\ clock' \in {clock, clock + 1}
      /\ tracked' = tracked \/ (tracked < HealthStates /\ tracked' = tracked + 1)
      /\ \A c \in checks' : c \in checks \/ (c.object = tracked /\ ~health[tracked].open)
  <2>1. CASE CheckBegins
    BY <2>1 DEF CheckBegins, Skipped
  <2>2. CASE ManualStart
    BY <2>2 DEF ManualStart, CanReset, Reset
  <2>3. CASE StopService \/ Toggle \/ UNCHANGED healthVars
    BY <2>3 DEF StopService, Toggle, healthVars
  <2>4. CASE \E c \in checks : CheckPasses(c)
    BY <2>4 DEF CheckPasses, CanReset, Reset
  <2> QED
    BY <2>1, <2>2, <2>3, <2>4
<1>2. tracked' \in Objects
  BY <1>1, HealthAssumption DEF HealthTypeInv, Objects
<1>3. HealthTypeInv'
  BY <1>1, <1>2 DEF HealthTypeInv
<1>4. StateInv' /\ BackedOff'
  <2>1. \A o \in Objects : health[o].last \in Nat
    BY DEF HealthTypeInv, HealthRecords
  <2> QED
    BY <1>1, <2>1 DEF StateInv, BackedOff, Doubled, HealthTypeInv
<1>5. BreakerHolds
  BY <1>1 DEF BreakerHolds
<1>6. OpenUntilReset
  BY <1>1 DEF OpenUntilReset
<1> QED
  BY <1>3, <1>4, <1>5, <1>6

\* However checks overlap with each other and with the owner's starts and stops: restarts
\* on one state are spaced by a backoff that doubles, there are none once it has failed too
\* often, and an open circuit stays open (service-manager.ts).
THEOREM MonitorIsCorrect == ServicesSpec => MonitorCorrect
<1>1. ServicesInit => HealthInv
  <2> SUFFICES ASSUME HealthInit PROVE HealthInv
    BY DEF ServicesInit
  <2>1. FreshHealth \in HealthRecords /\ FreshHealth.failures = 0 /\ FreshHealth.last = 0
    BY HealthAssumption DEF FreshHealth, HealthRecords
  <2> QED
    BY <2>1, HealthAssumption
    DEF HealthInit, HealthInv, HealthTypeInv, StateInv, BackedOff, Objects
<1>2. HealthInv /\ [ServicesNext]_servicesVars
        => HealthInv' /\ [BackedOff' /\ BreakerHolds /\ OpenUntilReset]_healthVars
  <2>1. HealthInv /\ (HealthNext \/ UNCHANGED healthVars)
          => HealthInv' /\ BackedOff' /\ BreakerHolds /\ OpenUntilReset
    BY CheckFailsKeeps, OtherHealthSteps DEF HealthNext, HealthInv
  <2> QED
    BY <2>1 DEF ServicesNext, servicesVars
<1> QED
  BY <1>1, <1>2, PTL DEF ServicesSpec, MonitorCorrect

=============================================================================
