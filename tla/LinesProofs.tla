----------------------------- MODULE LinesProofs -----------------------------
(***************************************************************************)
(* Proofs about what a user is connected with: the components around a     *)
(* phone call and the WhatsApp channel, as MCLines composes them, and      *)
(* ChatMessages, a chat and its runs, for any number of messages, any      *)
(* prompt limit, any number of retries and every combination of faults.    *)
(* Each section has one component: the inductive invariant, one lemma for  *)
(* each action that disturbs it, and the theorem.                          *)
(***************************************************************************)
EXTENDS MCLines, ChatMessages, NumberLemmas, FiniteSetTheorems, TLAPS

-----------------------------------------------------------------------------
(* The client of the voice runner's process *)

SidecarTypeInv ==
  /\ kid \in [KidIds -> {"unused", "running", "cut", "gone"}]
  /\ child \in KidIds \cup {0}
  /\ sidecarReq \in [Requests -> {"new", "configuring", "pending", "resolved", "rejected"}]
  /\ sentTo \in [Requests -> KidIds \cup {0}]
  /\ usurped \in BOOLEAN

Waits(r) == sidecarReq[r] \in {"configuring", "pending"}

\* Neither the child nor who waits is left behind by an exit, as its event ends them all.
SidecarInv ==
  /\ SidecarTypeInv
  /\ child # 0 => kid[child] \in {"running", "cut"}
  /\ \A r \in Requests :
       Waits(r) => sentTo[r] \in KidIds /\ kid[sentTo[r]] \in {"running", "cut"}
  /\ NoLostSidecar
  /\ OwnExitOnly

LEMMA SpawnKeeps ==
  ASSUME SidecarInv, NEW r \in Requests, SpawnRunner(r), child = 0 \/ kid[child] # "running",
         UNCHANGED <<usurped, spared>>
  PROVE  SidecarInv'
<1> USE DEF SidecarInv
<1>1. Unspawned \in SUBSET Nat /\ Unspawned # {}
  BY DEF SpawnRunner, Unspawned, KidIds
<1>2. PICK k \in KidIds : k = Min(Unspawned) /\ kid[k] = "unused"
  BY <1>1, MinFacts DEF Unspawned
<1>3. /\ kid' = [kid EXCEPT ![k] = "running"] /\ child' = k
      /\ sidecarReq' = [sidecarReq EXCEPT ![r] = "configuring"]
      /\ sentTo' = [sentTo EXCEPT ![r] = k]
  BY <1>2 DEF SpawnRunner
<1>4. /\ \A j \in KidIds : kid'[j] = IF j = k THEN "running" ELSE kid[j]
      /\ \A q \in Requests : /\ sidecarReq'[q] = IF q = r THEN "configuring" ELSE sidecarReq[q]
                             /\ sentTo'[q] = IF q = r THEN k ELSE sentTo[q]
  BY <1>3 DEF SidecarTypeInv
<1>5. SidecarTypeInv'
  BY <1>3 DEF SidecarTypeInv
<1>6. NoLostSidecar' /\ OwnExitOnly'
  <2>1. ~usurped => \A j \in KidIds : kid[j] # "running"
    BY DEF NoLostSidecar, KidIds
  <2> QED
    BY <1>3, <1>4, <2>1 DEF NoLostSidecar, OwnExitOnly, SidecarTypeInv
<1>7. \A q \in Requests :
        Waits(q)' => sentTo'[q] \in KidIds /\ kid'[sentTo'[q]] \in {"running", "cut"}
  BY <1>2, <1>4 DEF Waits
<1>8. child' # 0 => kid'[child'] \in {"running", "cut"}
  BY <1>3, <1>4
<1> QED
  BY <1>5, <1>6, <1>7, <1>8

LEMMA SendOnKeeps ==
  ASSUME SidecarInv, NEW r \in Requests, SendOn(r), child # 0, UNCHANGED <<usurped, spared>>
  PROVE  SidecarInv'
<1> USE DEF SidecarInv
<1>1. /\ sidecarReq' = [sidecarReq EXCEPT ![r] = "pending"]
      /\ sentTo' = [sentTo EXCEPT ![r] = child] /\ UNCHANGED <<kid, child>>
  BY DEF SendOn
<1>2. \A q \in Requests : /\ sidecarReq'[q] = IF q = r THEN "pending" ELSE sidecarReq[q]
                          /\ sentTo'[q] = IF q = r THEN child ELSE sentTo[q]
  BY <1>1 DEF SidecarTypeInv
<1>3. child \in KidIds /\ kid[child] \in {"running", "cut"}
  BY DEF SidecarTypeInv
<1>4. SidecarTypeInv'
  BY <1>1, <1>3 DEF SidecarTypeInv
<1> QED
  BY <1>1, <1>2, <1>3, <1>4 DEF NoLostSidecar, OwnExitOnly, Waits

LEMMA KidExitsKeeps ==
  ASSUME SidecarInv, NEW k \in KidIds, KidExits(k)
  PROVE  SidecarInv'
<1> USE DEF SidecarInv
<1>1. /\ kid[k] = "cut" /\ kid' = [kid EXCEPT ![k] = "gone"] /\ child' = 0
      /\ sidecarReq' = [r \in Requests |-> IF Waits(r) THEN "rejected" ELSE sidecarReq[r]]
      /\ usurped' = (usurped \/ child \notin {0, k})
      /\ spared' = spared \cup {r \in Rejected(k) : kid[sentTo[r]] = "running"}
      /\ sentTo' = sentTo
  BY DEF KidExits, Rejected, Waits
<1>2. SidecarTypeInv'
  BY <1>1 DEF SidecarTypeInv
<1>3. \A j \in KidIds : kid'[j] = IF j = k THEN "gone" ELSE kid[j]
  BY <1>1 DEF SidecarTypeInv
<1>4. \A j \in KidIds : kid[j] = "running" /\ j # k /\ ~usurped => child \notin {0, k}
  BY DEF NoLostSidecar, KidIds
<1>5. NoLostSidecar'
  <2>1. ~usurped' => ~usurped /\ child \in {0, k}
    BY <1>1 DEF SidecarTypeInv
  <2> QED
    BY <1>1, <1>3, <1>4, <2>1 DEF NoLostSidecar
<1>6. OwnExitOnly'
  <2>1. \A r \in Rejected(k) : kid[sentTo[r]] = "running" => usurped'
    <3> SUFFICES ASSUME NEW r \in Rejected(k), kid[sentTo[r]] = "running" PROVE usurped'
      OBVIOUS
    <3>1. sentTo[r] \in KidIds /\ sentTo[r] # k
      BY <1>1 DEF Rejected, Waits
    <3> QED
      BY <1>1, <1>4, <3>1 DEF SidecarTypeInv
  <2> QED
    BY <1>1, <2>1 DEF OwnExitOnly
<1>7. \A r \in Requests : ~Waits(r)'
  BY <1>1 DEF Waits
<1> QED
  BY <1>1, <1>2, <1>5, <1>6, <1>7

LEMMA SidecarRest ==
  ASSUME SidecarInv, UNCHANGED <<sentTo, usurped, spared>>,
         child' \in {child, 0},
         sidecarReq' \in [Requests -> {"new", "configuring", "pending", "resolved", "rejected"}],
         \A r \in Requests : Waits(r)' => Waits(r),
         kid' \in [KidIds -> {"unused", "running", "cut", "gone"}],
         \A j \in KidIds : kid'[j] = kid[j] \/ (kid[j] = "running" /\ kid'[j] = "cut"),
         child' = 0 => \A j \in KidIds : j = child => kid'[j] # "running"
  PROVE  SidecarInv'
<1> USE DEF SidecarInv
<1>1. SidecarTypeInv'
  BY DEF SidecarTypeInv
<1>2. NoLostSidecar' /\ OwnExitOnly'
  BY DEF NoLostSidecar, OwnExitOnly
<1>3. \A r \in Requests :
        Waits(r)' => sentTo'[r] \in KidIds /\ kid'[sentTo'[r]] \in {"running", "cut"}
  OBVIOUS
<1>4. child' # 0 => kid'[child'] \in {"running", "cut"}
  BY DEF SidecarTypeInv
<1> QED
  BY <1>1, <1>2, <1>3, <1>4

LEMMA NextSidecar == SidecarInv /\ [SidecarNext]_sidecarVars => SidecarInv'
<1> SUFFICES ASSUME SidecarInv, [SidecarNext]_sidecarVars PROVE SidecarInv'
  OBVIOUS
<1>1. CASE UNCHANGED sidecarVars
  BY <1>1 DEF sidecarVars, SidecarInv, SidecarTypeInv, NoLostSidecar, OwnExitOnly, Waits
<1>2. ASSUME NEW r \in Requests, Ask(r) PROVE SidecarInv'
  <2>1. UNCHANGED <<usurped, spared>> /\ IF NeedsChild(r) THEN SpawnRunner(r) ELSE SendOn(r)
    BY <1>2 DEF Ask
  <2>2. CASE NeedsChild(r)
    BY <2>1, <2>2, SpawnKeeps DEF NeedsChild
  <2>3. CASE ~NeedsChild(r)
    BY <2>1, <2>3, SendOnKeeps DEF NeedsChild
  <2> QED
    BY <2>2, <2>3
<1>3. ASSUME NEW r \in Requests, Configured(r) PROVE SidecarInv'
  <2>1. UNCHANGED <<usurped, spared>> /\ IF child = 0 THEN SpawnRunner(r) ELSE SendOn(r)
    BY <1>3 DEF Configured
  <2> QED
    BY <2>1, SpawnKeeps, SendOnKeeps
<1>4. ASSUME NEW r \in Requests, Responds(r) \/ AskTimesOut(r) PROVE SidecarInv'
  <2>1. PICK x \in {"resolved", "rejected"} : sidecarReq' = [sidecarReq EXCEPT ![r] = x]
    BY <1>4 DEF Responds, AskTimesOut
  <2>2. UNCHANGED <<kid, child, sentTo, usurped, spared>>
    BY <1>4 DEF Responds, AskTimesOut
  <2>3. /\ sidecarReq' \in [Requests -> {"new", "configuring", "pending", "resolved", "rejected"}]
        /\ \A q \in Requests : Waits(q)' => Waits(q)
    BY <2>1 DEF SidecarInv, SidecarTypeInv, Waits
  <2>4. kid' \in [KidIds -> {"unused", "running", "cut", "gone"}]
        /\ (child' = 0 => \A j \in KidIds : j # child)
    BY <2>2 DEF SidecarInv, SidecarTypeInv, KidIds
  <2> QED
    BY <2>2, <2>3, <2>4, SidecarRest
<1>5. ASSUME NEW k \in KidIds, KidDies(k) PROVE SidecarInv'
  <2>1. /\ kid[k] = "running" /\ kid' = [kid EXCEPT ![k] = "cut"]
        /\ UNCHANGED <<child, sidecarReq, sentTo, usurped, spared>>
    BY <1>5 DEF KidDies
  <2>2. /\ kid' \in [KidIds -> {"unused", "running", "cut", "gone"}]
        /\ \A j \in KidIds : kid'[j] = kid[j] \/ (kid[j] = "running" /\ kid'[j] = "cut")
        /\ (child' = 0 => \A j \in KidIds : j # child)
        /\ sidecarReq' \in [Requests -> {"new", "configuring", "pending", "resolved", "rejected"}]
        /\ \A q \in Requests : Waits(q)' => Waits(q)
    BY <2>1 DEF SidecarInv, SidecarTypeInv, KidIds, Waits
  <2> QED
    BY <2>1, <2>2, SidecarRest
<1>6. ASSUME NEW k \in KidIds, KidExits(k) PROVE SidecarInv'
  BY <1>6, KidExitsKeeps
<1>7. CASE ShutdownBegins
  BY <1>7 DEF ShutdownBegins, SidecarInv, SidecarTypeInv, NoLostSidecar, OwnExitOnly, Waits
<1>8. CASE ShutdownEnds
  <2>1. /\ kid' = [k \in KidIds |-> IF k = child /\ kid[k] = "running" THEN "cut" ELSE kid[k]]
        /\ child' = 0 /\ UNCHANGED <<sidecarReq, sentTo, usurped, spared>>
    BY <1>8 DEF ShutdownEnds
  <2>2. /\ kid' \in [KidIds -> {"unused", "running", "cut", "gone"}]
        /\ \A j \in KidIds : kid'[j] = kid[j] \/ (kid[j] = "running" /\ kid'[j] = "cut")
        /\ \A j \in KidIds : j = child => kid'[j] # "running"
        /\ sidecarReq' \in [Requests -> {"new", "configuring", "pending", "resolved", "rejected"}]
        /\ \A q \in Requests : Waits(q)' => Waits(q)
    BY <2>1 DEF SidecarInv, SidecarTypeInv, Waits
  <2> QED
    BY <2>1, <2>2, SidecarRest
<1> QED
  BY <1>1, <1>2, <1>3, <1>4, <1>5, <1>6, <1>7, <1>8 DEF SidecarNext

\* However the voice runner's processes are spawned, die, hang and are shut down: one
\* that runs is the child, no request is rejected while its own process lives, and none
\* waits for a process that is gone (VoiceRunnerSidecarClient), with the exceptions the
\* properties name.
THEOREM SidecarIsCorrect == LinesSpec => []SidecarCorrect
<1>1. SidecarInv => SidecarCorrect
  BY DEF SidecarInv, SidecarCorrect, NobodyWaitsForTheDead, PendingOn, Waits
<1>2. LinesInit => SidecarInv
  BY DEF LinesInit, SidecarInit, SidecarInv, SidecarTypeInv, NoLostSidecar, OwnExitOnly, Waits
<1>3. SidecarInv /\ [LinesNext]_<<part, lineVars, phoneVars, tableVars, sidecarVars, browserVars, voiceVars>>
        => SidecarInv'
  BY NextSidecar DEF LinesNext
<1> QED
  BY <1>1, <1>2, <1>3, PTL DEF LinesSpec

-----------------------------------------------------------------------------
(* The events of a browser voice session *)

Rising(s) == \A i, j \in 1..Len(s) : i < j => s[i] < s[j]
AtMost(s, n) == \A i \in 1..Len(s) : s[i] <= n

\* A WebSocket that has not started was sent nothing, so what is queued goes to it in
\* order; one that has started was sent what is queued, so its drains lose nothing.
BrowserInv ==
  /\ emitted \in Nat
  /\ events \in Seq(Nat) /\ polled \in Seq(Nat)
  /\ streamAt \in [BrowserStreams -> {"none", "open", "started", "closed"}]
  /\ got \in [BrowserStreams -> Seq(Nat)]
  /\ lateDrain \in BOOLEAN
  /\ \A w \in sending : w \in BrowserStreams /\ streamAt[w] \in {"started", "closed"}
  /\ Rising(events) /\ AtMost(events, emitted)
  /\ \A w \in BrowserStreams : Rising(got[w]) /\ AtMost(got[w], emitted)
  /\ \A w \in BrowserStreams :
       /\ streamAt[w] \in {"none", "open"} => got[w] = <<>>
       /\ streamAt[w] = "started" => \A e \in 1..emitted : Contains(events, e) => Contains(got[w], e)
  /\ NoEventLost

\* What appending one more event and joining two queues does.
LEMMA AppendRising ==
  ASSUME NEW s \in Seq(Nat), NEW n \in Nat, Rising(s), AtMost(s, n)
  PROVE  /\ Append(s, n + 1) \in Seq(Nat)
         /\ Rising(Append(s, n + 1)) /\ AtMost(Append(s, n + 1), n + 1)
         /\ AtMost(s, n + 1)
         /\ \A e : Contains(s, e) => Contains(Append(s, n + 1), e)
         /\ Contains(Append(s, n + 1), n + 1)
<1> DEFINE t == Append(s, n + 1)
<1>1. /\ t \in Seq(Nat) /\ Len(t) = Len(s) + 1 /\ t[Len(s) + 1] = n + 1 /\ Len(s) \in Nat
      /\ \A i \in 1..Len(s) : t[i] = s[i] /\ s[i] \in Nat
  OBVIOUS
<1> HIDE DEF t
<1>2. Rising(t) /\ AtMost(t, n + 1)
  <2>1. \A i \in 1..Len(t) : \/ i \in 1..Len(s) /\ t[i] = s[i] /\ s[i] \in Nat /\ s[i] <= n
                             \/ i = Len(s) + 1 /\ t[i] = n + 1
    BY <1>1 DEF AtMost
  <2>2. \A i, j \in 1..Len(t) : i < j => i \in 1..Len(s)
    BY <1>1
  <2>3. AtMost(t, n + 1)
    BY <2>1 DEF AtMost
  <2>4. ASSUME NEW i \in 1..Len(t), NEW j \in 1..Len(t), i < j PROVE t[i] < t[j]
    <3>1. i \in 1..Len(s) /\ t[i] = s[i] /\ s[i] \in Nat /\ s[i] <= n
      BY <1>1, <2>1, <2>2, <2>4 DEF AtMost
    <3>2. CASE j \in 1..Len(s)
      BY <1>1, <2>4, <3>1, <3>2 DEF Rising
    <3>3. CASE j = Len(s) + 1
      BY <1>1, <3>1, <3>3
    <3> QED
      BY <2>1, <3>2, <3>3
  <2> QED
    BY <2>3, <2>4 DEF Rising
<1>3. AtMost(s, n + 1)
  BY <1>1 DEF AtMost
<1>4. \A e : Contains(s, e) => Contains(t, e)
  BY <1>1 DEF Contains
<1>5. Contains(t, n + 1)
  BY <1>1 DEF Contains
<1> QED
  BY <1>1, <1>2, <1>3, <1>4, <1>5 DEF t

LEMMA JoinContains ==
  ASSUME NEW s \in Seq(Nat), NEW t \in Seq(Nat), NEW e
  PROVE  /\ s \o t \in Seq(Nat)
         /\ Contains(s, e) \/ Contains(t, e) => Contains(s \o t, e)
<1> DEFINE u == s \o t
<1>1. /\ u \in Seq(Nat) /\ Len(u) = Len(s) + Len(t) /\ Len(s) \in Nat /\ Len(t) \in Nat
      /\ \A i \in 1..Len(s) : u[i] = s[i]
      /\ \A i \in 1..Len(t) : u[Len(s) + i] = t[i]
  OBVIOUS
<1> HIDE DEF u
<1>2. Contains(s, e) => Contains(u, e)
  BY <1>1 DEF Contains
<1>3. Contains(t, e) => Contains(u, e)
  <2> SUFFICES ASSUME NEW i \in 1..Len(t), t[i] = e PROVE Contains(u, e)
    BY DEF Contains
  <2>1. Len(s) + i \in 1..Len(u) /\ u[Len(s) + i] = e
    BY <1>1
  <2> QED
    BY <2>1 DEF Contains
<1> QED
  BY <1>1, <1>2, <1>3 DEF u

LEMMA EmptyHasNone == \A e : ~Contains(<<>>, e)
BY DEF Contains

LEMMA NextBrowser == BrowserInv /\ [BrowserNext]_browserVars => BrowserInv'
<1> SUFFICES ASSUME BrowserInv, [BrowserNext]_browserVars PROVE BrowserInv'
  OBVIOUS
<1> USE DEF BrowserInv
<1>1. CASE UNCHANGED browserVars
  BY <1>1 DEF browserVars, NoEventLost
<1>2. CASE Emit
  <2>1. /\ emitted' = emitted + 1 /\ events' = Append(events, emitted + 1)
        /\ got' = [w \in BrowserStreams |->
                     IF streamAt[w] = "started" THEN Append(got[w], emitted + 1) ELSE got[w]]
        /\ UNCHANGED <<streamAt, sending, polled, lateDrain>>
    BY <1>2 DEF Emit, Queued
  <2>2. /\ events' \in Seq(Nat) /\ Rising(events') /\ AtMost(events', emitted')
        /\ \A e : Contains(events, e) => Contains(events', e)
        /\ Contains(events', emitted + 1)
    BY <2>1, AppendRising
  <2>3. \A w \in BrowserStreams :
          /\ got'[w] \in Seq(Nat) /\ Rising(got'[w]) /\ AtMost(got'[w], emitted')
          /\ \A e : Contains(got[w], e) => Contains(got'[w], e)
          /\ streamAt[w] = "started" => Contains(got'[w], emitted + 1)
          /\ streamAt[w] # "started" => got'[w] = got[w]
    <3> SUFFICES ASSUME NEW w \in BrowserStreams
                 PROVE  /\ got'[w] \in Seq(Nat) /\ Rising(got'[w]) /\ AtMost(got'[w], emitted')
                        /\ \A e : Contains(got[w], e) => Contains(got'[w], e)
                        /\ streamAt[w] = "started" => Contains(got'[w], emitted + 1)
                        /\ streamAt[w] # "started" => got'[w] = got[w]
      OBVIOUS
    <3>1. /\ got[w] \in Seq(Nat) /\ Rising(got[w]) /\ AtMost(got[w], emitted)
          /\ AtMost(got[w], emitted + 1)
      BY AppendRising
    <3>2. CASE streamAt[w] = "started"
      BY <2>1, <3>1, <3>2, AppendRising
    <3>3. CASE streamAt[w] # "started"
      BY <2>1, <3>1, <3>3
    <3> QED
      BY <3>2, <3>3
  <2>4. got' \in [BrowserStreams -> Seq(Nat)]
    BY <2>1, <2>3
  <2>5. \A e \in 1..emitted' : e \in 1..emitted \/ e = emitted + 1
    BY <2>1
  <2>6. NoEventLost'
    BY <2>1, <2>2, <2>3, <2>5 DEF NoEventLost
  <2>7. \A w \in BrowserStreams :
          streamAt[w] = "started" => \A e \in 1..emitted' : Contains(got'[w], e) \/ ~Contains(events', e)
    <3> SUFFICES ASSUME NEW w \in BrowserStreams, streamAt[w] = "started",
                        NEW e \in 1..emitted, Contains(events', e)
                 PROVE  Contains(got'[w], e)
      BY <2>3, <2>5
    <3>1. Contains(events, e)
      <4>1. PICK i \in 1..Len(events') : events'[i] = e
        BY DEF Contains
      <4>2. /\ Len(events') = Len(events) + 1 /\ Len(events) \in Nat
            /\ events'[Len(events) + 1] = emitted + 1
            /\ \A j \in 1..Len(events) : events'[j] = events[j]
        BY <2>1
      <4>3. i \in 1..Len(events) /\ events[i] = e
        BY <4>1, <4>2
      <4> QED
        BY <4>3 DEF Contains
    <3> QED
      BY <2>3, <3>1
  <2> QED
    BY <2>1, <2>2, <2>3, <2>4, <2>6, <2>7
<1>3. ASSUME NEW w \in BrowserStreams, StreamConnects(w) \/ StreamCloses(w) PROVE BrowserInv'
  <2>1. PICK x \in {"open", "closed"} :
          /\ streamAt' = [streamAt EXCEPT ![w] = x]
          /\ x = "open" => streamAt[w] = "none"
          /\ UNCHANGED <<emitted, events, got, sending, polled, lateDrain>>
    BY <1>3 DEF StreamConnects, StreamCloses
  <2>2. \A v \in BrowserStreams : streamAt'[v] = IF v = w THEN x ELSE streamAt[v]
    BY <2>1
  <2>3. NoEventLost'
    BY <2>1 DEF NoEventLost
  <2>4. streamAt' \in [BrowserStreams -> {"none", "open", "started", "closed"}]
    BY <2>1
  <2> QED
    BY <2>1, <2>2, <2>3, <2>4
<1>4. ASSUME NEW w \in BrowserStreams, StreamStarts(w) PROVE BrowserInv'
  <2>0. streamAt[w] = "open" /\ got[w] = <<>> /\ UNCHANGED <<emitted, sending, polled, lateDrain>>
    BY <1>4 DEF StreamStarts, StartsOnce
  <2>1. CASE live
    <3>1. /\ streamAt' = [streamAt EXCEPT ![w] = "started"]
          /\ got' = [got EXCEPT ![w] = got[w] \o events] /\ events' = <<>>
      BY <1>4, <2>1 DEF StreamStarts
    <3>2. got[w] \o events = events
      BY <2>0
    <3>3. \A v \in BrowserStreams : /\ streamAt'[v] = IF v = w THEN "started" ELSE streamAt[v]
                                    /\ got'[v] = IF v = w THEN events ELSE got[v]
      BY <3>1, <3>2
    <3>4. /\ streamAt' \in [BrowserStreams -> {"none", "open", "started", "closed"}]
          /\ got' \in [BrowserStreams -> Seq(Nat)]
          /\ events' \in Seq(Nat) /\ Rising(events') /\ AtMost(events', emitted)
      BY <3>1, <3>2 DEF Rising, AtMost
    <3>5. NoEventLost'
      <4>1. \A e : Contains(got[w], e) => FALSE
        BY <2>0, EmptyHasNone
      <4> QED
        BY <2>0, <3>3, <4>1 DEF NoEventLost
    <3> QED
      BY <2>0, <3>1, <3>3, <3>4, <3>5, EmptyHasNone
  <2>2. CASE ~live
    <3>1. streamAt' = [streamAt EXCEPT ![w] = "closed"] /\ UNCHANGED <<got, events>>
      BY <1>4, <2>2 DEF StreamStarts
    <3>2. \A v \in BrowserStreams : streamAt'[v] = IF v = w THEN "closed" ELSE streamAt[v]
      BY <3>1
    <3>3. NoEventLost'
      BY <2>0, <3>1 DEF NoEventLost
    <3>4. streamAt' \in [BrowserStreams -> {"none", "open", "started", "closed"}]
      BY <3>1
    <3> QED
      BY <2>0, <3>1, <3>2, <3>3, <3>4
  <2> QED
    BY <2>1, <2>2
<1>5. ASSUME NEW w \in BrowserStreams, StreamSends(w) PROVE BrowserInv'
  <2>1. /\ streamAt[w] = "started" /\ sending' = sending \cup {w}
        /\ UNCHANGED <<emitted, events, streamAt, got, polled, lateDrain>>
    BY <1>5 DEF StreamSends
  <2> QED
    BY <2>1 DEF NoEventLost
<1>6. ASSUME NEW w \in BrowserStreams, StreamDrains(w) PROVE BrowserInv'
  <2>1. /\ w \in sending /\ sending' = sending \ {w} /\ events' = <<>>
        /\ lateDrain' = (lateDrain \/ streamAt[w] = "closed")
        /\ UNCHANGED <<emitted, streamAt, got, polled>>
    BY <1>6 DEF StreamDrains
  <2>2. events' \in Seq(Nat) /\ Rising(events') /\ AtMost(events', emitted)
    BY <2>1 DEF Rising, AtMost
  <2>3. NoEventLost'
    <3>1. ~lateDrain' => ~lateDrain /\ streamAt[w] = "started"
      BY <2>1
    <3> QED
      BY <2>1, <3>1 DEF NoEventLost
  <2> QED
    BY <2>1, <2>2, <2>3, EmptyHasNone
<1>7. CASE GetEvents
  <2>1. /\ polled' = polled \o events /\ events' = <<>>
        /\ UNCHANGED <<emitted, streamAt, got, sending, lateDrain>>
    BY <1>7 DEF GetEvents
  <2>2. events' \in Seq(Nat) /\ Rising(events') /\ AtMost(events', emitted) /\ polled' \in Seq(Nat)
    BY <2>1 DEF Rising, AtMost
  <2>3. \A e : Contains(polled, e) \/ Contains(events, e) => Contains(polled', e)
    BY <2>1, JoinContains
  <2>4. NoEventLost'
    BY <2>1, <2>3 DEF NoEventLost
  <2> QED
    BY <2>1, <2>2, <2>4, EmptyHasNone
<1>8. CASE EndBrowserSession
  BY <1>8 DEF EndBrowserSession, NoEventLost
<1> QED
  BY <1>1, <1>2, <1>3, <1>4, <1>5, <1>6, <1>7, <1>8 DEF BrowserNext

\* Whatever WebSockets connect, start, close and send, and whoever polls: each gets the
\* events in order and once, and none is lost between the queue and the streams unless
\* audio was still being handled for a WebSocket that had gone (phone-voice-ws.ts).
THEOREM EventsAreCorrect == LinesSpec => []EventsCorrect
<1>1. BrowserInv => EventsCorrect
  BY DEF BrowserInv, EventsCorrect, InOrderPerStream, Rising
<1>2. LinesInit => BrowserInv
  <2> SUFFICES ASSUME BrowserInit PROVE BrowserInv
    BY DEF LinesInit
  <2> USE DEF BrowserInit
  <2>1. Rising(<<>>) /\ AtMost(<<>>, 0)
    BY DEF Rising, AtMost
  <2>2. \A w \in BrowserStreams : got[w] = <<>> /\ streamAt[w] = "none"
    OBVIOUS
  <2>3. NoEventLost
    BY DEF NoEventLost
  <2>4. /\ events \in Seq(Nat) /\ polled \in Seq(Nat) /\ got \in [BrowserStreams -> Seq(Nat)]
        /\ streamAt \in [BrowserStreams -> {"none", "open", "started", "closed"}]
    OBVIOUS
  <2> QED
    BY <2>1, <2>2, <2>3, <2>4 DEF BrowserInv
<1>3. BrowserInv /\ [LinesNext]_<<part, lineVars, phoneVars, tableVars, sidecarVars, browserVars, voiceVars>>
        => BrowserInv'
  BY NextBrowser DEF LinesNext
<1> QED
  BY <1>1, <1>2, <1>3, PTL DEF LinesSpec

-----------------------------------------------------------------------------
(* The connection to the phone gateway *)

Connected(s) == wire[s] \in {"open", "closing"}

\* As long as nothing crossed, the onopen that is under way belongs to the current
\* socket, which counts as connected and is not closed, and nothing is dialled beside
\* it: so it never has to wait for a promise, which could be its own.
OnopenInv ==
  ~crossed => \A s \in Wires :
    /\ opening[s] \notin {"waiting", "failing"}
    /\ InOnopen(s) => /\ socket = s /\ phoneUp /\ Connected(s)
                      /\ \A t \in Wires : wire[t] # "dialing"

GatewayInv ==
  /\ PhoneTypeOK
  /\ phoneUp \in BOOLEAN /\ phoneStopped \in BOOLEAN /\ redial \in BOOLEAN /\ crossed \in BOOLEAN
  /\ \A s \in Wires :
       /\ wire[s] = "dialing" => promise = s
       /\ wire[s] \in {"unused", "dialing"} => opening[s] = "none"
  /\ phoneUp => \E s \in Wires : Connected(s)
  /\ PhoneComesBack
  /\ NoTimerWhenStopped
  /\ OnopenInv

LEMMA ZeroIsNoWire == 0 \notin Wires /\ Wires \subseteq Nat
BY DEF Wires

\* ensureConnected while not connected: it joins the attempt under way or begins one.
LEMMA DialFacts ==
  ASSUME PhoneTypeOK, JoinPhone \/ (promise = 0 /\ DialPhone)
  PROVE  /\ promise' \in Wires
         /\ \/ promise # 0 /\ UNCHANGED <<wire, promise>>
            \/ /\ promise = 0
               /\ wire[promise'] = "unused"
               /\ wire' = [wire EXCEPT ![promise'] = "dialing"]
<1>1. CASE JoinPhone
  BY <1>1 DEF JoinPhone, PhoneTypeOK
<1>2. CASE promise = 0 /\ DialPhone
  <2>1. Unopened \in SUBSET Nat /\ Unopened # {}
    BY <1>2, ZeroIsNoWire DEF DialPhone, Unopened
  <2>2. Min(Unopened) \in Unopened
    BY <2>1, MinFacts
  <2> QED
    BY <1>2, <2>2 DEF DialPhone, Unopened
<1> QED
  BY <1>1, <1>2

\* What such a call keeps, whoever makes it.
LEMMA DialKeeps ==
  ASSUME GatewayInv, JoinPhone \/ (promise = 0 /\ DialPhone), ~phoneUp,
         UNCHANGED <<phoneUp, socket, crossed>>,
         phoneStopped' \in BOOLEAN, redial' \in BOOLEAN, phoneStopped' => ~redial',
         request' \in [PhoneCalls -> {"new", "waiting", "sent", "over"}],
         opening' \in [Wires -> {"none", "warming", "waiting", "asking", "failing", "failed", "done"}],
         \A s \in Wires : opening[s] = "none" => opening'[s] = "none",
         opening' = opening \/ crossed
  PROVE  GatewayInv'
<1> USE DEF GatewayInv
<1>1. PICK p \in Wires :
        /\ promise' = p
        /\ \/ promise # 0 /\ UNCHANGED <<wire, promise>>
           \/ promise = 0 /\ wire[p] = "unused" /\ wire' = [wire EXCEPT ![p] = "dialing"]
  BY DialFacts
<1>2. PhoneTypeOK'
  BY <1>1, ZeroIsNoWire DEF PhoneTypeOK
<1>3. \A s \in Wires : /\ wire'[s] = "dialing" => promise' = s
                       /\ wire'[s] \in {"unused", "dialing"} => opening'[s] = "none"
  BY <1>1, ZeroIsNoWire DEF PhoneTypeOK
<1>4. PhoneComesBack'
  BY <1>1, ZeroIsNoWire DEF PhoneComesBack, Returning
<1>5. OnopenInv'
  BY DEF OnopenInv, InOnopen
<1> QED
  BY <1>2, <1>3, <1>4, <1>5 DEF NoTimerWhenStopped

LEMMA NextGateway == GatewayInv /\ [PhoneNext]_phoneVars => GatewayInv'
<1> SUFFICES ASSUME GatewayInv, [PhoneNext]_phoneVars PROVE GatewayInv'
  OBVIOUS
<1> USE DEF GatewayInv
<1>1. CASE UNCHANGED phoneVars
  BY <1>1 DEF phoneVars, PhoneTypeOK, Connected, PhoneComesBack, Returning, NoTimerWhenStopped,
              OnopenInv, InOnopen
<1>2. CASE ConnectPhone
  BY <1>2, DialKeeps DEF ConnectPhone, PhoneTypeOK
<1>3. CASE Redials
  <2>1. CASE phoneUp /\ UNCHANGED <<wire, promise>>
    <3>1. /\ redial' = FALSE
          /\ UNCHANGED <<opening, phoneUp, phoneStopped, socket, request, crossed>>
      BY <1>3 DEF Redials
    <3>2. PhoneComesBack'
      BY <2>1 DEF PhoneComesBack, Returning, Connected
    <3> QED
      BY <2>1, <3>1, <3>2 DEF PhoneTypeOK, Connected, NoTimerWhenStopped, OnopenInv, InOnopen
  <2>2. CASE ~phoneUp /\ (JoinPhone \/ (promise = 0 /\ DialPhone))
    BY <1>3, <2>2, DialKeeps DEF Redials, PhoneTypeOK
  <2> QED
    BY <1>3, <2>1, <2>2 DEF Redials
<1>4. ASSUME NEW c \in PhoneCalls, RequestPhone(c) \/ RequestEnds(c) PROVE GatewayInv'
  <2>1. CASE RequestPhone(c) /\ ~phoneUp
    BY <2>1, DialKeeps DEF RequestPhone, PhoneTypeOK, NoTimerWhenStopped
  <2>2. CASE (RequestPhone(c) /\ phoneUp) \/ RequestEnds(c)
    <3>1. /\ request' \in [PhoneCalls -> {"new", "waiting", "sent", "over"}]
          /\ \A d \in PhoneCalls : request'[d] = "waiting" => request[d] = "waiting"
          /\ UNCHANGED <<wire, opening, phoneUp, phoneStopped, socket, redial, promise, crossed>>
      BY <2>2 DEF RequestPhone, RequestEnds, PhoneTypeOK
    <3> QED
      BY <3>1 DEF PhoneTypeOK, Connected, PhoneComesBack, Returning, NoTimerWhenStopped,
                  OnopenInv, InOnopen
  <2> QED
    BY <1>4, <2>1, <2>2
<1>5. CASE DisconnectPhone
  <2>1. /\ phoneStopped' = TRUE /\ phoneUp' = FALSE /\ redial' = FALSE /\ socket' = 0
        /\ wire' = [s \in Wires |-> IF s = socket /\ wire[s] = "open" THEN "closing" ELSE wire[s]]
        /\ opening' = [s \in Wires |-> IF opening[s] = "asking" THEN "failing" ELSE opening[s]]
        /\ request' = [c \in PhoneCalls |-> IF request[c] = "sent" THEN "over" ELSE request[c]]
        /\ crossed' = (crossed \/ \E s \in Wires : s = socket /\ InOnopen(s))
        /\ promise' = promise
    BY <1>5 DEF DisconnectPhone
  <2>2. PhoneTypeOK'
    BY <2>1 DEF PhoneTypeOK
  <2>3. OnopenInv'
    <3> SUFFICES ASSUME ~crossed' PROVE OnopenInv'
      BY DEF OnopenInv
    <3>1. ~crossed /\ \A s \in Wires : ~InOnopen(s)
      BY <2>1 DEF OnopenInv
    <3> QED
      BY <2>1, <3>1 DEF OnopenInv, InOnopen
  <2>4. \A s \in Wires : /\ wire'[s] = "dialing" => promise' = s
                         /\ wire'[s] \in {"unused", "dialing"} => opening'[s] = "none"
    BY <2>1
  <2>5. crossed' \in BOOLEAN
    BY <2>1
  <2> QED
    BY <2>1, <2>2, <2>3, <2>4, <2>5 DEF PhoneComesBack, NoTimerWhenStopped
<1>6. ASSUME NEW s \in Wires, PhoneOpens(s) PROVE GatewayInv'
  <2>1. /\ wire[s] = "dialing" /\ wire' = [wire EXCEPT ![s] = "open"]
        /\ opening' = [opening EXCEPT ![s] = "warming"] /\ socket' = s /\ phoneUp' = TRUE
        /\ UNCHANGED <<phoneStopped, redial, promise, request, crossed>>
    BY <1>6 DEF PhoneOpens, UpAtOpen
  <2>2. PhoneTypeOK'
    BY <2>1 DEF PhoneTypeOK
  <2>3. \A t \in Wires : /\ wire'[t] = IF t = s THEN "open" ELSE wire[t]
                         /\ opening'[t] = IF t = s THEN "warming" ELSE opening[t]
    BY <2>1 DEF PhoneTypeOK
  <2>4. \A t \in Wires : wire'[t] # "dialing"
    BY <2>1, <2>3
  <2>5. OnopenInv'
    <3> SUFFICES ASSUME ~crossed PROVE OnopenInv'
      BY <2>1 DEF OnopenInv
    <3>1. \A t \in Wires : ~InOnopen(t)
      BY <2>1 DEF OnopenInv
    <3> QED
      BY <2>1, <2>3, <2>4, <3>1 DEF OnopenInv, InOnopen, Connected
  <2> QED
    BY <2>1, <2>2, <2>3, <2>4, <2>5 DEF PhoneComesBack, Returning, NoTimerWhenStopped, Connected
<1>7. ASSUME NEW s \in Wires, Warmed(s) PROVE GatewayInv'
  <2>1. CASE phoneUp
    <3>1. /\ opening[s] = "warming" /\ opening' = [opening EXCEPT ![s] = "asking"]
          /\ UNCHANGED <<wire, promise, phoneUp, phoneStopped, socket, redial, request, crossed>>
      BY <1>7, <2>1 DEF Warmed
    <3>2. \A t \in Wires : InOnopen(t)' <=> InOnopen(t)
      BY <3>1 DEF InOnopen, PhoneTypeOK
    <3>3. OnopenInv'
      BY <3>1, <3>2 DEF OnopenInv, Connected, PhoneTypeOK
    <3>4. PhoneTypeOK'
      BY <3>1 DEF PhoneTypeOK
    <3> QED
      BY <3>1, <3>3, <3>4 DEF PhoneComesBack, Returning, NoTimerWhenStopped, Connected
  <2>2. CASE ~phoneUp
    <3>1. crossed
      BY <1>7, <2>2 DEF Warmed, OnopenInv, InOnopen
    <3>2. /\ opening' \in [Wires -> {"none", "warming", "waiting", "asking", "failing", "failed", "done"}]
          /\ \A t \in Wires : opening[t] = "none" => opening'[t] = "none"
      BY <1>7, <2>2 DEF Warmed, PhoneTypeOK
    <3> QED
      BY <1>7, <2>2, <3>1, <3>2, DialKeeps DEF Warmed, PhoneTypeOK, NoTimerWhenStopped
  <2> QED
    BY <2>1, <2>2
<1>8. ASSUME NEW s \in Wires, GoesOn(s) PROVE GatewayInv'
  <2>1. crossed
    BY <1>8 DEF GoesOn, OnopenInv
  <2>2. PhoneTypeOK'
    BY <1>8 DEF GoesOn, PhoneTypeOK
  <2> QED
    BY <1>8, <2>1, <2>2 DEF GoesOn, OnopenInv, PhoneComesBack, Returning, NoTimerWhenStopped, Connected
<1>9. ASSUME NEW s \in Wires, PhoneReady(s) PROVE GatewayInv'
  <2>1. /\ opening[s] = "asking" /\ opening' = [opening EXCEPT ![s] = "done"]
        /\ promise' = IF promise = s THEN 0 ELSE promise
        /\ request' = [c \in PhoneCalls |->
                         IF promise = s /\ request[c] = "waiting"
                         THEN IF socket = 0 THEN "over" ELSE "sent" ELSE request[c]]
        /\ UNCHANGED <<wire, phoneUp, phoneStopped, socket, redial, crossed>>
    BY <1>9 DEF PhoneReady, Settle
  <2>2. PhoneTypeOK'
    BY <2>1 DEF PhoneTypeOK
  <2>3. \A t \in Wires : opening'[t] = IF t = s THEN "done" ELSE opening[t]
    BY <2>1 DEF PhoneTypeOK
  <2>4. OnopenInv'
    BY <2>1, <2>3 DEF OnopenInv, InOnopen, Connected
  <2>5. PhoneComesBack'
    BY <2>1 DEF PhoneComesBack, Returning, OnopenInv, InOnopen, Connected
  <2>6. \A t \in Wires : /\ wire'[t] = "dialing" => promise' = t
                         /\ wire'[t] \in {"unused", "dialing"} => opening'[t] = "none"
    BY <2>1, <2>3
  <2> QED
    BY <2>1, <2>2, <2>4, <2>5, <2>6 DEF NoTimerWhenStopped, Connected
<1>10. ASSUME NEW s \in Wires, PhoneRefused(s) PROVE GatewayInv'
  <2>1. /\ opening[s] \in {"warming", "asking", "failing"}
        /\ opening' = [opening EXCEPT ![s] = "failed"] /\ phoneUp' = FALSE
        /\ wire' = [wire EXCEPT ![s] = IF wire[s] = "open" THEN "closing" ELSE wire[s]]
        /\ promise' = IF promise = s THEN 0 ELSE promise
        /\ request' = [c \in PhoneCalls |->
                         IF promise = s /\ request[c] = "waiting" THEN "over" ELSE request[c]]
        /\ UNCHANGED <<phoneStopped, socket, redial, crossed>>
    BY <1>10 DEF PhoneRefused, Settle
  <2>2. PhoneTypeOK'
    BY <2>1 DEF PhoneTypeOK
  <2>3. \A t \in Wires :
          /\ opening'[t] = IF t = s THEN "failed" ELSE opening[t]
          /\ wire'[t] = IF t = s /\ wire[t] = "open" THEN "closing" ELSE wire[t]
    BY <2>1 DEF PhoneTypeOK
  <2>4. OnopenInv'
    <3> SUFFICES ASSUME ~crossed PROVE OnopenInv'
      BY <2>1 DEF OnopenInv
    <3>1. \A t \in Wires : InOnopen(t) => t = s
      BY <2>1 DEF OnopenInv, InOnopen
    <3> QED
      BY <2>1, <2>3, <3>1 DEF OnopenInv, InOnopen
  <2>5. PhoneComesBack'
    <3> SUFFICES ASSUME ~crossed PROVE PhoneComesBack'
      BY <2>1 DEF PhoneComesBack
    <3>1. wire'[s] = "closing"
      BY <2>1, <2>3 DEF OnopenInv, InOnopen, Connected
    <3> QED
      BY <3>1 DEF PhoneComesBack, Returning
  <2>6. \A t \in Wires : /\ wire'[t] = "dialing" => promise' = t
                         /\ wire'[t] \in {"unused", "dialing"} => opening'[t] = "none"
    BY <2>1, <2>3
  <2> QED
    BY <2>1, <2>2, <2>4, <2>5, <2>6 DEF NoTimerWhenStopped, Connected
<1>11. ASSUME NEW s \in Wires, PhoneDrops(s) \/ PhoneErrs(s) PROVE GatewayInv'
  <2>1. /\ wire[s] \in {"dialing", "open"} /\ wire' = [wire EXCEPT ![s] = "closing"]
        /\ promise' = promise \/ promise = s
        /\ promise' \in {promise, 0}
        /\ UNCHANGED <<opening, phoneUp, phoneStopped, socket, redial, crossed>>
    BY <1>11 DEF PhoneDrops, PhoneErrs, Settle
  <2>2. PhoneTypeOK'
    <3>1. /\ wire' \in [Wires -> {"unused", "dialing", "open", "closing", "closed"}]
          /\ promise' \in Wires \cup {0}
      BY <2>1 DEF PhoneTypeOK
    <3>2. /\ request' \in [PhoneCalls -> {"new", "waiting", "sent", "over"}]
          /\ \A c \in PhoneCalls : request'[c] = "waiting" => promise' # 0
      BY <1>11 DEF PhoneDrops, PhoneErrs, Settle, PhoneTypeOK
    <3> QED
      BY <2>1, <3>1, <3>2 DEF PhoneTypeOK
  <2>3. \A t \in Wires : wire'[t] = IF t = s THEN "closing" ELSE wire[t]
    BY <2>1 DEF PhoneTypeOK
  <2>4. OnopenInv'
    BY <2>1, <2>3 DEF OnopenInv, InOnopen, Connected
  <2>5. PhoneComesBack' /\ \E t \in Wires : Connected(t)'
    BY <2>3 DEF PhoneComesBack, Returning, Connected
  <2>6. \A t \in Wires : /\ wire'[t] = "dialing" => promise' = t
                         /\ wire'[t] \in {"unused", "dialing"} => opening'[t] = "none"
    BY <2>1, <2>3
  <2> QED
    BY <2>1, <2>2, <2>4, <2>5, <2>6 DEF NoTimerWhenStopped
<1>12. ASSUME NEW s \in Wires, PhoneCloses(s) PROVE GatewayInv'
  <2>1. /\ wire[s] = "closing" /\ wire' = [wire EXCEPT ![s] = "closed"]
        /\ phoneUp' = FALSE /\ socket' = 0
        /\ redial' = (redial \/ ~phoneStopped)
        /\ crossed' = (crossed \/ InOnopen(s) \/ socket \notin {0, s})
        /\ UNCHANGED <<opening, phoneStopped, promise, request>>
    BY <1>12 DEF PhoneCloses, Redial
  <2>2. PhoneTypeOK'
    BY <2>1 DEF PhoneTypeOK
  <2>3. \A t \in Wires : wire'[t] = IF t = s THEN "closed" ELSE wire[t]
    BY <2>1 DEF PhoneTypeOK
  <2>4. OnopenInv'
    <3> SUFFICES ASSUME ~crossed' PROVE OnopenInv'
      BY DEF OnopenInv
    <3>1. ~crossed /\ ~InOnopen(s) /\ socket \in {0, s}
      BY <2>1
    <3>2. \A t \in Wires : ~InOnopen(t)
      BY <3>1, ZeroIsNoWire DEF OnopenInv
    <3> QED
      BY <2>1, <3>1, <3>2 DEF OnopenInv, InOnopen
  <2>5. redial' \in BOOLEAN /\ crossed' \in BOOLEAN
    BY <2>1 DEF InOnopen
  <2>6. PhoneComesBack' /\ NoTimerWhenStopped'
    BY <2>1 DEF PhoneComesBack, Returning, NoTimerWhenStopped
  <2>7. \A t \in Wires : /\ wire'[t] = "dialing" => promise' = t
                         /\ wire'[t] \in {"unused", "dialing"} => opening'[t] = "none"
    BY <2>1, <2>3
  <2> QED
    BY <2>1, <2>2, <2>4, <2>5, <2>6, <2>7
<1> QED
  BY <1>1, <1>2, <1>3, <1>4, <1>5, <1>6, <1>7, <1>8, <1>9, <1>10, <1>11, <1>12 DEF PhoneNext, PhoneSteps

LEMMA InitGateway == PhoneInit => GatewayInv
BY DEF PhoneInit, GatewayInv, PhoneTypeOK, PhoneComesBack, NoTimerWhenStopped, OnopenInv, InOnopen

LEMMA GatewayInvCorrect == GatewayInv => GatewayCorrect
BY DEF GatewayInv, GatewayCorrect, NoSelfWait, OnopenInv

-----------------------------------------------------------------------------
(* The tables of phone calls *)

Enders == [id : {1, 2}, session : SessionIds, at : {"start", "end"}]

TableTypeInv ==
  /\ number \in [Calls -> Numbers]
  /\ sessionOf \in [Calls -> SessionIds \cup {0}]
  /\ known \subseteq SessionIds
  /\ callOf \in [SessionIds -> Calls \cup {NoCall}]
  /\ runner \in [SessionIds -> {"none", "starting", "ready", "failed"}]
  /\ activeCall \in [Numbers -> Calls \cup {NoCall}]
  /\ deferred \in [SessionIds -> SUBSET Handoffs]
  /\ filed \in [Handoffs -> {"none", "pending", "delivered"}]
  /\ enders \subseteq Enders
  /\ cleared \in BOOLEAN

\* A session that has not begun is nowhere; one that has belongs to its call.
BornInv ==
  /\ \A s \in SessionIds : runner[s] = "none" =>
       /\ deferred[s] = {} /\ s \notin known
       /\ \A c \in Calls : sessionOf[c] # s
       /\ \A e \in enders : e.session # s
  /\ \A s \in SessionIds : runner[s] # "none" => callOf[s] \in Calls
  /\ \A c \in Calls : sessionOf[c] # 0 => callOf[sessionOf[c]] = c

ActiveInv ==
  \A n \in Numbers : activeCall[n] # NoCall =>
    number[activeCall[n]] = n /\ sessionOf[activeCall[n]] # 0

KnownInv == \A s \in known : cleared \/ sessionOf[callOf[s]] = s \/ callOf[s] \in replaced

\* A handoff belongs to one session, and was handed when it was filed as delivered.
DeferInv ==
  /\ \A s \in SessionIds : \A h \in deferred[s] :
       filed[h] # "none" /\ \A t \in SessionIds : h \in deferred[t] => s = t
  /\ handed \subseteq Handoffs
  /\ \A h \in Handoffs : filed[h] = "delivered" <=> h \in handed

\* Two handlers of one session's end are told apart by their number, and the second
\* makes the session one of those that were ended twice.  Once a handoff of a session
\* was handed, the call has another session or none: only a handler that was there
\* already can hand it again.
EndersInv ==
  /\ \A e, f \in enders : e.session = f.session /\ e.id = f.id => e = f
  /\ \A e \in enders : e.id = 2 => e.session \in doubled
  /\ \A s \in SessionIds : \A h \in deferred[s] : h \in handed =>
       /\ sessionOf[callOf[s]] # s
       /\ \A e \in enders : e.session = s => s \in doubled
  /\ HandedOnce

TableInv ==
  TableTypeInv /\ BornInv /\ ActiveInv /\ KnownInv /\ DeferInv /\ EndersInv /\ HandoffsWait

LEMMA CallAddedKeeps ==
  ASSUME TableInv, NEW c \in Calls, CallAdded(c)
  PROVE  TableInv'
<1> USE DEF TableInv
<1>0. Unborn \in SUBSET Nat /\ Unborn # {}
  BY DEF CallAdded, Unborn, SessionIds
<1>1. PICK s \in SessionIds :
        /\ runner[s] = "none"
        /\ sessionOf' = [sessionOf EXCEPT ![c] = s] /\ known' = known \cup {s}
        /\ callOf' = [callOf EXCEPT ![s] = c] /\ runner' = [runner EXCEPT ![s] = "starting"]
  <2>1. Min(Unborn) \in Unborn
    BY <1>0, MinFacts
  <2> QED
    BY <2>1 DEF CallAdded, Unborn
<1>2. /\ activeCall' = [activeCall EXCEPT ![number[c]] = c]
      /\ replaced' = IF sessionOf[c] = 0 THEN replaced ELSE replaced \cup {c}
      /\ UNCHANGED <<number, deferred, enders, filed, handed, handedTwice, doubled, cleared>>
  BY DEF CallAdded
<1>3. s # 0 /\ number[c] \in Numbers
  BY DEF SessionIds, TableTypeInv
<1>4. /\ \A d \in Calls : sessionOf'[d] = IF d = c THEN s ELSE sessionOf[d]
      /\ \A t \in SessionIds : /\ callOf'[t] = IF t = s THEN c ELSE callOf[t]
                               /\ runner'[t] = IF t = s THEN "starting" ELSE runner[t]
      /\ \A n \in Numbers : activeCall'[n] = IF n = number[c] THEN c ELSE activeCall[n]
  BY <1>1, <1>2, <1>3 DEF TableTypeInv
<1>5. TableTypeInv'
  BY <1>1, <1>2, <1>3 DEF TableTypeInv
<1>6. BornInv'
  <2>1. \A d \in Calls : sessionOf[d] # s
    BY <1>1 DEF BornInv
  <2> QED
    BY <1>1, <1>2, <1>3, <1>4, <2>1 DEF BornInv, TableTypeInv
<1>7. ActiveInv'
  BY <1>2, <1>3, <1>4 DEF ActiveInv, TableTypeInv
<1>8. \A t \in SessionIds : t # s /\ callOf[t] \in Calls /\ sessionOf[callOf[t]] = t
        => callOf'[t] = callOf[t] /\ (sessionOf'[callOf[t]] = t \/ callOf[t] \in replaced')
  BY <1>2, <1>4 DEF SessionIds
<1>9. KnownInv'
  <2>1. \A t \in known : t # s /\ callOf[t] \in Calls /\ t \in SessionIds
    BY <1>1 DEF BornInv, TableTypeInv
  <2>2. replaced \subseteq replaced'
    BY <1>2
  <2>3. sessionOf'[callOf'[s]] = s
    BY <1>4
  <2> QED
    BY <1>1, <1>2, <1>4, <1>8, <2>1, <2>2, <2>3 DEF KnownInv
<1>10. \A t \in SessionIds : deferred[t] # {} => t # s /\ callOf[t] \in Calls /\ callOf'[t] = callOf[t]
  BY <1>1, <1>4 DEF BornInv
<1>11. EndersInv'
  <2>1. \A t \in SessionIds : \A h \in deferred[t] : h \in handed => sessionOf'[callOf'[t]] # t
    BY <1>4, <1>10 DEF EndersInv
  <2> QED
    BY <1>2, <2>1 DEF EndersInv, HandedOnce
<1>12. HandoffsWait'
  <2>1. \A t \in SessionIds : \A h \in deferred[t] :
          sessionOf[callOf[t]] = t \/ callOf[t] \in replaced
            => sessionOf'[callOf'[t]] = t \/ callOf'[t] \in replaced'
    BY <1>2, <1>8, <1>10
  <2> QED
    BY <1>2, <2>1 DEF HandoffsWait
<1>13. DeferInv'
  BY <1>2 DEF DeferInv
<1> QED
  BY <1>5, <1>6, <1>7, <1>9, <1>11, <1>12, <1>13

LEMMA DeferKeeps ==
  ASSUME TableInv, NEW s \in SessionIds, NEW h \in Handoffs, Defer(s, h),
         runner[s] # "none",
         cleared \/ sessionOf[callOf[s]] = s \/ callOf[s] \in replaced
  PROVE  TableInv'
<1> USE DEF TableInv
<1>1. /\ filed[h] = "none" /\ filed' = [filed EXCEPT ![h] = "pending"]
      /\ deferred' = [deferred EXCEPT ![s] = deferred[s] \cup {h}]
      /\ UNCHANGED <<number, sessionOf, known, callOf, runner, activeCall, enders, handed,
                     handedTwice, replaced, doubled, cleared>>
  BY DEF Defer
<1>2. /\ \A g \in Handoffs : filed'[g] = IF g = h THEN "pending" ELSE filed[g]
      /\ \A t \in SessionIds : deferred'[t] = IF t = s THEN deferred[s] \cup {h} ELSE deferred[t]
  BY <1>1 DEF TableTypeInv
<1>3. TableTypeInv'
  BY <1>1 DEF TableTypeInv
<1>4. BornInv' /\ ActiveInv' /\ KnownInv'
  BY <1>1, <1>2 DEF BornInv, ActiveInv, KnownInv
<1>5. \A t \in SessionIds : h \notin deferred[t]
  BY <1>1 DEF DeferInv
<1>6. h \notin handed
  BY <1>1 DEF DeferInv
<1>7. DeferInv'
  BY <1>1, <1>2, <1>5, <1>6 DEF DeferInv, TableTypeInv
<1>8. EndersInv'
  BY <1>1, <1>2, <1>6 DEF EndersInv, HandedOnce
<1>9. HandoffsWait'
  <2> SUFFICES ASSUME NEW g \in Handoffs
               PROVE  /\ filed'[g] = "pending" /\ ~cleared =>
                           \E t \in SessionIds :
                             g \in deferred'[t] /\ (sessionOf[callOf[t]] = t \/ callOf[t] \in replaced)
                      /\ filed'[g] = "delivered" => g \in handed
    BY <1>1 DEF HandoffsWait
  <2>1. CASE g = h
    BY <1>2, <2>1
  <2>2. CASE g # h
    BY <1>2, <2>2 DEF HandoffsWait
  <2> QED
    BY <2>1, <2>2
<1> QED
  BY <1>3, <1>4, <1>7, <1>8, <1>9

LEMMA CallRemovedKeeps ==
  ASSUME TableInv, NEW c \in Calls, CallRemoved(c)
  PROVE  TableInv'
<1> USE DEF TableInv
<1> DEFINE s == sessionOf[c]
<1>1. PICK id \in {1, 2} :
        /\ \A e \in enders : e.session = s => e.id < id
        /\ enders' = enders \cup {[id |-> id, session |-> s, at |-> "start"]}
        /\ doubled' = IF id = 2 THEN doubled \cup {s} ELSE doubled
  BY DEF CallRemoved
<1>2. /\ s # 0 /\ s \in SessionIds /\ callOf[s] = c
      /\ UNCHANGED <<number, sessionOf, known, callOf, runner, activeCall, deferred, filed,
                     handed, handedTwice, replaced, cleared>>
  BY DEF CallRemoved, TableTypeInv, BornInv
<1>3. sessionOf[callOf[s]] = s
  BY <1>2
<1> HIDE DEF s
<1>4. TableTypeInv'
  <2>1. [id |-> id, session |-> s, at |-> "start"] \in Enders
    BY <1>2 DEF Enders
  <2> QED
    BY <1>1, <1>2, <2>1 DEF TableTypeInv
<1>5. BornInv'
  BY <1>1, <1>2 DEF BornInv, s
<1>6. EndersInv'
  <2>1. doubled \subseteq doubled'
    BY <1>1
  <2>2. ASSUME NEW e \in enders', NEW f \in enders', e.session = f.session, e.id = f.id
        PROVE  e = f
    <3>1. \A g \in enders : g.id \in {1, 2}
      BY DEF TableTypeInv, Enders
    <3> QED
      BY <1>1, <2>2, <3>1 DEF EndersInv
  <2>3. \A e \in enders' : e.id = 2 => e.session \in doubled'
    BY <1>1, <2>1 DEF EndersInv
  <2>4. \A t \in SessionIds : \A h \in deferred[t] : h \in handed => t # s
    BY <1>3 DEF EndersInv
  <2>5. \A t \in SessionIds : \A h \in deferred[t] : h \in handed =>
          /\ sessionOf[callOf[t]] # t
          /\ \A e \in enders' : e.session = t => t \in doubled'
    BY <1>1, <2>1, <2>4 DEF EndersInv
  <2>6. HandedOnce'
    BY <1>2, <2>1 DEF EndersInv, HandedOnce
  <2> QED
    BY <1>2, <2>2, <2>3, <2>5, <2>6 DEF EndersInv
<1>7. ActiveInv' /\ KnownInv' /\ DeferInv' /\ HandoffsWait'
  BY <1>2 DEF ActiveInv, KnownInv, DeferInv, HandoffsWait
<1> QED
  BY <1>4, <1>5, <1>6, <1>7

LEMMA CallEndsKeeps ==
  ASSUME TableInv, NEW e \in enders, CallEnds(e)
  PROVE  TableInv'
<1> USE DEF TableInv
<1>0. PICK s \in SessionIds : s = e.session
  BY DEF TableTypeInv, Enders
<1>1. runner[s] # "none" /\ s # 0
  BY <1>0 DEF BornInv, SessionIds
<1>2. PICK c \in Calls : c = callOf[s]
  BY <1>1 DEF BornInv
<1>3. /\ enders' = enders \ {e}
      /\ sessionOf' = [sessionOf EXCEPT ![c] = 0]
      /\ known' = known \ {s}
      /\ activeCall' = IF activeCall[number[c]] = c
                       THEN [activeCall EXCEPT ![number[c]] = NoCall] ELSE activeCall
      /\ handed' = handed \cup deferred[s]
      /\ handedTwice' = handedTwice \cup (handed \cap deferred[s])
      /\ filed' = [h \in Handoffs |-> IF h \in deferred[s] THEN "delivered" ELSE filed[h]]
      /\ replaced' = IF sessionOf[c] \in {0, s} THEN replaced ELSE replaced \cup {c}
      /\ UNCHANGED <<number, callOf, runner, deferred, doubled, cleared>>
  BY <1>0, <1>2 DEF CallEnds, ClearActive, Flushed
<1>4. /\ \A d \in Calls : sessionOf'[d] = IF d = c THEN 0 ELSE sessionOf[d]
      /\ \A n \in Numbers :
           activeCall'[n] = IF n = number[c] /\ activeCall[n] = c THEN NoCall ELSE activeCall[n]
  BY <1>3 DEF TableTypeInv
<1>5. TableTypeInv'
  <2>1. number[c] \in Numbers
    BY DEF TableTypeInv
  <2> QED
    BY <1>3, <2>1 DEF TableTypeInv
<1>6. BornInv'
  BY <1>3, <1>4 DEF BornInv, TableTypeInv, SessionIds
<1>7. ActiveInv'
  BY <1>3, <1>4 DEF ActiveInv, TableTypeInv
<1>8. \A t \in SessionIds : t # s /\ (sessionOf[callOf[t]] = t \/ callOf[t] \in replaced) /\ callOf[t] \in Calls
        => sessionOf'[callOf[t]] = t \/ callOf[t] \in replaced'
  BY <1>3, <1>4 DEF SessionIds
<1>9. KnownInv'
  <2>1. \A t \in known : callOf[t] \in Calls /\ t \in SessionIds
    BY DEF BornInv, TableTypeInv
  <2> QED
    BY <1>3, <1>8, <2>1 DEF KnownInv
<1>10. DeferInv'
  BY <1>3 DEF DeferInv, TableTypeInv
<1>11. EndersInv'
  <2>1. \A f \in enders : f # e /\ f.session = s => s \in doubled
    <3> SUFFICES ASSUME NEW f \in enders, f # e, f.session = s PROVE s \in doubled
      OBVIOUS
    <3>1. e.id \in {1, 2} /\ f.id \in {1, 2} /\ e.id # f.id
      BY <1>0 DEF EndersInv, TableTypeInv, Enders
    <3> QED
      BY <1>0, <3>1 DEF EndersInv
  <2>2. ASSUME NEW t \in SessionIds, NEW h \in deferred[t], h \in handed'
        PROVE  /\ sessionOf'[callOf[t]] # t
               /\ \A f \in enders' : f.session = t => t \in doubled
    <3>1. CASE t = s
      BY <1>1, <1>2, <1>3, <1>4, <2>1, <3>1
    <3>2. CASE t # s
      <4>1. h \in handed
        BY <1>3, <2>2, <3>2 DEF DeferInv
      <4>2. sessionOf[callOf[t]] # t /\ \A f \in enders : f.session = t => t \in doubled
        BY <2>2, <4>1 DEF EndersInv
      <4>3. callOf[t] \in Calls /\ t # 0
        BY <2>2 DEF BornInv, SessionIds
      <4> QED
        BY <1>3, <1>4, <4>2, <4>3
    <3> QED
      BY <3>1, <3>2
  <2>3. HandedOnce'
    <3>1. \A h \in handed \cap deferred[s] : s \in doubled
      BY <1>0 DEF EndersInv
    <3> QED
      BY <1>3, <3>1 DEF EndersInv, HandedOnce
  <2> QED
    BY <1>3, <2>2, <2>3 DEF EndersInv
<1>12. HandoffsWait'
  <2> SUFFICES ASSUME NEW h \in Handoffs
               PROVE  /\ filed'[h] = "pending" /\ ~cleared =>
                           \E t \in SessionIds :
                             h \in deferred[t] /\ (sessionOf'[callOf[t]] = t \/ callOf[t] \in replaced')
                      /\ filed'[h] = "delivered" => h \in handed'
    BY <1>3 DEF HandoffsWait
  <2>1. CASE h \in deferred[s]
    BY <1>3, <2>1
  <2>2. CASE h \notin deferred[s]
    <3>1. filed'[h] = filed[h]
      BY <1>3, <2>2
    <3>2. \A t \in SessionIds : h \in deferred[t] => t # s /\ callOf[t] \in Calls
      BY <2>2 DEF BornInv
    <3> QED
      BY <1>3, <1>8, <3>1, <3>2 DEF HandoffsWait
  <2> QED
    BY <2>1, <2>2
<1> QED
  BY <1>5, <1>6, <1>7, <1>9, <1>10, <1>11, <1>12

LEMMA EndersRest ==
  ASSUME TableInv, enders' \subseteq Enders,
         \A f \in enders' : \E e \in enders : f.session = e.session /\ f.id = e.id,
         \A e, f \in enders' : e.session = f.session /\ e.id = f.id => e = f,
         UNCHANGED <<number, sessionOf, known, callOf, runner, activeCall, deferred, filed,
                     handed, handedTwice, replaced, doubled, cleared>>
  PROVE  TableInv'
<1> USE DEF TableInv
<1>1. TableTypeInv' /\ BornInv'
  BY DEF TableTypeInv, BornInv
<1>2. ActiveInv' /\ KnownInv' /\ DeferInv' /\ HandoffsWait'
  BY DEF ActiveInv, KnownInv, DeferInv, HandoffsWait
<1>3. EndersInv'
  BY DEF EndersInv, HandedOnce
<1> QED
  BY <1>1, <1>2, <1>3

LEMMA NextTable == TableInv /\ [TableNext]_tableVars => TableInv'
<1> SUFFICES ASSUME TableInv, [TableNext]_tableVars PROVE TableInv'
  OBVIOUS
<1> USE DEF TableInv
<1>1. CASE UNCHANGED tableVars
  BY <1>1 DEF tableVars, TableTypeInv, BornInv, ActiveInv, KnownInv, DeferInv, EndersInv,
              HandedOnce, HandoffsWait
<1>2. CASE \E c \in Calls : CallAdded(c) \/ CallRemoved(c)
  BY <1>2, CallAddedKeeps, CallRemovedKeeps
<1>3. ASSUME NEW s \in SessionIds, RunnerStarts(s) PROVE TableInv'
  <2>1. /\ runner[s] = "starting"
        /\ runner' \in {[runner EXCEPT ![s] = "ready"], [runner EXCEPT ![s] = "failed"]}
        /\ UNCHANGED <<number, sessionOf, known, callOf, activeCall, deferred, enders, filed,
                       handed, handedTwice, replaced, doubled, cleared>>
    BY <1>3 DEF RunnerStarts
  <2>2. /\ runner' \in [SessionIds -> {"none", "starting", "ready", "failed"}]
        /\ \A t \in SessionIds : runner'[t] = "none" <=> runner[t] = "none"
    BY <2>1 DEF TableTypeInv
  <2>3. TableTypeInv' /\ BornInv'
    BY <2>1, <2>2 DEF TableTypeInv, BornInv
  <2> QED
    BY <2>1, <2>3 DEF ActiveInv, KnownInv, DeferInv, EndersInv, HandedOnce, HandoffsWait
<1>4. ASSUME NEW s \in SessionIds, NEW h \in Handoffs, RunnerDefers(s, h) PROVE TableInv'
  BY <1>4, DeferKeeps DEF RunnerDefers, KnownInv
<1>5. ASSUME NEW n \in Numbers, NEW h \in Handoffs, MarkFollowup(n, h) PROVE TableInv'
  <2>1. PICK c \in Calls : c = activeCall[n] /\ sessionOf[c] # 0
    BY <1>5 DEF MarkFollowup, TableTypeInv, ActiveInv
  <2>2. PICK s \in SessionIds : s = sessionOf[c]
    BY <2>1 DEF TableTypeInv
  <2>3. callOf[s] = c /\ runner[s] # "none"
    BY <2>1, <2>2 DEF BornInv
  <2>4. Defer(s, h)
    BY <1>5, <2>1, <2>2 DEF MarkFollowup
  <2> QED
    BY <2>2, <2>3, <2>4, DeferKeeps
<1>6. ASSUME NEW e \in enders, EnderGoesOn(e) PROVE TableInv'
  <2>1. /\ enders' = (enders \ {e}) \cup
              IF runner[e.session] = "ready" THEN {[e EXCEPT !.at = "end"]} ELSE {}
        /\ UNCHANGED <<number, sessionOf, known, callOf, runner, activeCall, deferred, filed,
                       handed, handedTwice, replaced, doubled, cleared>>
    BY <1>6 DEF EnderGoesOn
  <2>0. e \in Enders
    BY DEF TableTypeInv
  <2>2. PICK g \in Enders : g = [e EXCEPT !.at = "end"] /\ g.id = e.id /\ g.session = e.session
    <3>1. [e EXCEPT !.at = "end"] \in Enders
      BY <2>0 DEF Enders
    <3>2. [e EXCEPT !.at = "end"].id = e.id /\ [e EXCEPT !.at = "end"].session = e.session
      BY <2>0 DEF Enders
    <3> QED
      BY <3>1, <3>2
  <2>3. enders' \subseteq (enders \ {e}) \cup {g} /\ enders' \subseteq Enders
    BY <2>1, <2>2 DEF TableTypeInv
  <2>4. \A f \in enders' : \E d \in enders : f.session = d.session /\ f.id = d.id
    BY <2>2, <2>3
  <2>5. \A f, d \in enders' : f.session = d.session /\ f.id = d.id => f = d
    <3> SUFFICES ASSUME NEW f \in enders', NEW d \in enders', f.session = d.session, f.id = d.id
                 PROVE  f = d
      OBVIOUS
    <3>1. \A x, y \in enders : x.session = y.session /\ x.id = y.id => x = y
      BY DEF EndersInv
    <3>2. (f = g \/ (f \in enders /\ f # e)) /\ (d = g \/ (d \in enders /\ d # e))
      BY <2>3
    <3> HIDE DEF TableInv
    <3> QED
      BY <2>2, <3>1, <3>2
  <2> QED
    BY <2>1, <2>3, <2>4, <2>5, EndersRest
<1>7. CASE \E e \in enders : CallEnds(e)
  BY <1>7, CallEndsKeeps
<1>8. ASSUME NEW e \in enders, EndFails(e) PROVE TableInv'
  <2>1. /\ enders' = enders \ {e}
        /\ UNCHANGED <<number, sessionOf, known, callOf, runner, activeCall, deferred, filed,
                       handed, handedTwice, replaced, doubled, cleared>>
    BY <1>8 DEF EndFails
  <2>2. enders' \subseteq Enders
    BY <2>1 DEF TableTypeInv
  <2>3. \A f, d \in enders' : f.session = d.session /\ f.id = d.id => f = d
    BY <2>1 DEF EndersInv
  <2>4. \A f \in enders' : \E d \in enders : f.session = d.session /\ f.id = d.id
    BY <2>1
  <2> QED
    BY <2>1, <2>2, <2>3, <2>4, EndersRest
<1>9. CASE DisconnectCalls
  <2>1. /\ cleared' = TRUE /\ sessionOf' = [c \in Calls |-> 0] /\ known' = {}
        /\ activeCall' = [n \in Numbers |-> NoCall]
        /\ UNCHANGED <<number, callOf, runner, deferred, enders, filed, handed, handedTwice,
                       replaced, doubled>>
    BY <1>9 DEF DisconnectCalls
  <2>2. TableTypeInv'
    BY <2>1 DEF TableTypeInv
  <2>3. BornInv'
    BY <2>1 DEF BornInv, SessionIds
  <2>4. EndersInv'
    <3>1. \A s \in SessionIds : deferred[s] # {} => sessionOf'[callOf[s]] # s
      BY <2>1 DEF BornInv, SessionIds
    <3> QED
      BY <2>1, <3>1 DEF EndersInv, HandedOnce
  <2>5. ActiveInv' /\ KnownInv' /\ DeferInv' /\ HandoffsWait'
    BY <2>1 DEF ActiveInv, KnownInv, DeferInv, HandoffsWait
  <2> QED
    BY <2>2, <2>3, <2>4, <2>5
<1> QED
  BY <1>1, <1>2, <1>3, <1>4, <1>5, <1>6, <1>7, <1>8, <1>9 DEF TableNext

LEMMA InitTable == TableInit => TableInv
<1> SUFFICES ASSUME TableInit PROVE TableInv
  OBVIOUS
<1> USE DEF TableInit
<1>1. TableTypeInv
  BY DEF TableTypeInv
<1>2. BornInv
  BY DEF BornInv, SessionIds
<1>3. ActiveInv /\ KnownInv /\ DeferInv /\ HandoffsWait
  BY DEF ActiveInv, KnownInv, DeferInv, HandoffsWait
<1>4. EndersInv
  BY DEF EndersInv, HandedOnce
<1> QED
  BY <1>1, <1>2, <1>3, <1>4 DEF TableInv

\* However calls of the same or different numbers begin, are announced again, end twice
\* and overlap, and sockets are dialled, lost and stopped: the connection to the gateway
\* comes back while it is wanted, a chat's active call has its session, and a handoff
\* waits for the end of its call and goes to the agent once (phone-voice.ts), with the
\* exceptions the properties name.
THEOREM PhoneIsCorrect == LinesSpec => []PhoneCorrect
<1>1. GatewayInv /\ TableInv => PhoneCorrect
  <2>1. TableInv => CallsCorrect
    BY DEF TableInv, CallsCorrect, ActiveInv, ActiveHasSession, EndersInv
  <2> QED
    BY <2>1, GatewayInvCorrect DEF PhoneCorrect
<1>2. LinesInit => GatewayInv /\ TableInv
  BY InitGateway, InitTable DEF LinesInit
<1>3. GatewayInv /\ [LinesNext]_<<part, lineVars, phoneVars, tableVars, sidecarVars, browserVars, voiceVars>>
        => GatewayInv'
  BY NextGateway DEF LinesNext
<1>4. TableInv /\ [LinesNext]_<<part, lineVars, phoneVars, tableVars, sidecarVars, browserVars, voiceVars>>
        => TableInv'
  BY NextTable DEF LinesNext
<1> QED
  BY <1>1, <1>2, <1>3, <1>4, PTL DEF LinesSpec

-----------------------------------------------------------------------------
(* The WhatsApp channel *)

Items == {NoItem} \cup [text : WaTexts, on : Nat]

LineTypeInv ==
  /\ waSock \in 0..WaSockets
  /\ line \in [LineSockets -> {"none", "connecting", "open", "closed"}]
  /\ dialing \in {"none", "first", "again", "retry"}
  /\ retryTimer \in BOOLEAN /\ waConnected \in BOOLEAN
  /\ stalled \in BOOLEAN /\ lost \in BOOLEAN
  /\ outgoing \in Seq(WaTexts) /\ waGot \in Seq(WaTexts) /\ queuedOrder \in Seq(WaTexts)
  /\ flushItem \in Items
  /\ direct \in SUBSET [text : WaTexts, on : Nat]
  /\ unsent \in SUBSET WaTexts /\ refused \in SUBSET WaTexts

\* OneLine without its sum: what connects the line is one socket, one attempt or one timer.
WireInv ==
  \/ lost /\ LiveSockets = {} /\ dialing = "none" /\ ~retryTimer
  \/ ~lost /\ LiveSockets = {} /\ dialing # "none" /\ ~retryTimer
  \/ ~lost /\ LiveSockets = {} /\ dialing = "none" /\ retryTimer
  \/ ~lost /\ dialing = "none" /\ ~retryTimer /\ \E s \in LineSockets : LiveSockets = {s}

\* The queue with the message that is being flushed still at its head: what a failed
\* flush restores.
Backlog == IF flushItem = NoItem THEN outgoing ELSE <<flushItem.text>> \o outgoing

Arrived(t) == \E i \in DOMAIN waGot : waGot[i] = t
InLine(t) == \E i \in DOMAIN Backlog : Backlog[i] = t
Sending(t) == \E d \in direct : d.text = t

\* Every message is in one place ...
PlaceInv ==
  \A t \in WaTexts : \E p \in {"unsent", "refused", "direct", "queued", "arrived"} :
    /\ t \in unsent <=> p = "unsent"
    /\ t \in refused <=> p = "refused"
    /\ Sending(t) <=> p = "direct"
    /\ InLine(t) <=> p = "queued"
    /\ Arrived(t) <=> p = "arrived"

\* ... once.
OnceInv ==
  /\ \A i, j \in DOMAIN waGot : waGot[i] = waGot[j] => i = j
  /\ \A i, j \in DOMAIN Backlog : Backlog[i] = Backlog[j] => i = j
  /\ \A d, e \in direct : d.text = e.text => d = e

\* What is queued is the end of what was queued, and the rest has arrived.
BacklogInv ==
  /\ Len(Backlog) <= Len(queuedOrder)
  /\ \A i \in DOMAIN Backlog : Backlog[i] = queuedOrder[Len(queuedOrder) - Len(Backlog) + i]
  /\ \A i \in 1..(Len(queuedOrder) - Len(Backlog)) : Arrived(queuedOrder[i])

LineInv ==
  /\ LineTypeInv
  /\ WireInv
  /\ PlaceInv
  /\ OnceInv
  /\ BacklogInv
  /\ QueuedInOrder
  /\ QueueMoves

\* Taking the next message leaves the backlog as it is, in the state the message before
\* it has left.
LEMMA TakeNextKeeps ==
  ASSUME LineTypeInv, NEW s \in Nat, TakeNext(s), WhatsAppLineAssumption
  PROVE  /\ outgoing' \in Seq(WaTexts) /\ flushItem' \in Items
         /\ Backlog' = outgoing
         /\ outgoing' # << >> => flushItem' # NoItem
<1>1. CASE outgoing = << >>
  BY <1>1 DEF TakeNext, LineTypeInv, Items, Backlog
<1>2. CASE outgoing # << >>
  <2>1. flushItem' = [text |-> Head(outgoing), on |-> s] /\ outgoing' = Tail(outgoing)
    BY <1>2 DEF TakeNext
  <2>2. /\ Head(outgoing) \in WaTexts /\ Tail(outgoing) \in Seq(WaTexts)
        /\ <<Head(outgoing)>> \o Tail(outgoing) = outgoing
    BY <1>2, HeadAndTail DEF LineTypeInv
  <2>3. flushItem' # NoItem /\ flushItem'.text = Head(outgoing)
    BY <2>1, <2>2 DEF NoItem, WhatsAppLineAssumption
  <2> QED
    BY <2>1, <2>2, <2>3 DEF Items, Backlog
<1> QED
  BY <1>1, <1>2

LEMMA BacklogType ==
  ASSUME LineTypeInv, WhatsAppLineAssumption
  PROVE  /\ Backlog \in Seq(WaTexts) /\ Len(Backlog) \in Nat /\ DOMAIN Backlog = 1..Len(Backlog)
         /\ flushItem # NoItem => flushItem.text \in WaTexts
         /\ flushItem = NoItem => flushItem.text \notin WaTexts
<1>1. flushItem # NoItem => flushItem.text \in WaTexts
  BY DEF LineTypeInv, Items
<1>2. Backlog \in Seq(WaTexts)
  BY <1>1, ConsFacts DEF Backlog, LineTypeInv
<1> QED
  BY <1>1, <1>2 DEF NoItem, WhatsAppLineAssumption

LEMMA OneWire == WireInv => OneLine
<1>1. Cardinality({}) = 0
  BY FS_EmptySet
<1>2. \A s \in LineSockets : Cardinality({s}) = 1
  BY FS_Singleton
<1> QED
  BY <1>1, <1>2 DEF WireInv, OneLine

LEMMA KeptOnce ==
  ASSUME LineTypeInv, PlaceInv, OnceInv, WhatsAppLineAssumption
  PROVE  AcceptedIsKept
<1> SUFFICES ASSUME NEW t \in WaTexts, t \notin unsent
             PROVE  Cardinality({i \in DOMAIN waGot : waGot[i] = t})
                      + Cardinality({i \in DOMAIN outgoing : outgoing[i] = t})
                      + Cardinality({d \in direct : d.text = t})
                      + (IF flushItem.text = t THEN 1 ELSE 0)
                      = IF t \in refused THEN 0 ELSE 1
  BY DEF AcceptedIsKept
<1> DEFINE G == {i \in DOMAIN waGot : waGot[i] = t}
           O == {i \in DOMAIN outgoing : outgoing[i] = t}
           D == {d \in direct : d.text = t}
           F == IF flushItem.text = t THEN 1 ELSE 0
<1>1. PICK p \in {"refused", "direct", "queued", "arrived"} :
        /\ t \in refused <=> p = "refused"
        /\ Sending(t) <=> p = "direct"
        /\ InLine(t) <=> p = "queued"
        /\ Arrived(t) <=> p = "arrived"
  BY DEF PlaceInv
<1>2. Cardinality({}) = 0 /\ \A x : Cardinality({x}) = 1
  BY FS_EmptySet, FS_Singleton
<1>3. Cardinality(G) = IF p = "arrived" THEN 1 ELSE 0
  <2>1. CASE p = "arrived"
    <3>1. PICK i \in DOMAIN waGot : waGot[i] = t
      BY <1>1, <2>1 DEF Arrived
    <3>2. G = {i}
      BY <3>1 DEF OnceInv
    <3> QED
      BY <1>2, <2>1, <3>2
  <2>2. CASE p # "arrived"
    <3>1. G = {}
      BY <1>1, <2>2 DEF Arrived
    <3> QED
      BY <1>2, <2>2, <3>1
  <2> QED
    BY <2>1, <2>2
<1>4. Cardinality(D) = IF p = "direct" THEN 1 ELSE 0
  <2>1. CASE p = "direct"
    <3>1. PICK d \in direct : d.text = t
      BY <1>1, <2>1 DEF Sending
    <3>2. D = {d}
      BY <3>1 DEF OnceInv
    <3> QED
      BY <1>2, <2>1, <3>2
  <2>2. CASE p # "direct"
    <3>1. D = {}
      BY <1>1, <2>2 DEF Sending
    <3> QED
      BY <1>2, <2>2, <3>1
  <2> QED
    BY <2>1, <2>2
<1>5. Cardinality(O) + F = IF p = "queued" THEN 1 ELSE 0
  <2>1. CASE flushItem = NoItem
    <3>1. Backlog = outgoing /\ F = 0
      BY <2>1, BacklogType DEF Backlog
    <3>2. CASE p = "queued"
      <4>1. PICK i \in DOMAIN outgoing : outgoing[i] = t
        BY <1>1, <3>1, <3>2 DEF InLine
      <4>2. O = {i}
        BY <3>1, <4>1 DEF OnceInv
      <4> QED
        BY <1>2, <3>1, <3>2, <4>2
    <3>3. CASE p # "queued"
      <4>1. O = {}
        BY <1>1, <3>1, <3>3 DEF InLine
      <4> QED
        BY <1>2, <3>1, <3>3, <4>1
    <3> QED
      BY <3>2, <3>3
  <2>2. CASE flushItem # NoItem
    <3>1. /\ flushItem.text \in WaTexts /\ outgoing \in Seq(WaTexts)
          /\ Backlog = <<flushItem.text>> \o outgoing
      BY <2>2, BacklogType DEF Backlog, LineTypeInv
    <3>2. /\ Len(outgoing) \in Nat
          /\ DOMAIN Backlog = 1..(Len(outgoing) + 1) /\ DOMAIN outgoing = 1..Len(outgoing)
          /\ Backlog[1] = flushItem.text
          /\ \A i \in 1..Len(outgoing) : Backlog[i + 1] = outgoing[i]
      BY <3>1, ConsFacts
    <3>3. CASE flushItem.text = t
      <4>1. InLine(t)
        BY <3>2, <3>3 DEF InLine
      <4>2. O = {}
        <5>1. ASSUME NEW i \in 1..Len(outgoing), outgoing[i] = t
              PROVE  FALSE
          <6>1. Backlog[i + 1] = Backlog[1] /\ i + 1 \in DOMAIN Backlog /\ 1 \in DOMAIN Backlog
            BY <3>2, <3>3, <5>1
          <6>2. i + 1 = 1
            BY <6>1 DEF OnceInv
          <6> QED
            BY <3>2, <6>2
        <5> QED
          BY <3>2, <5>1
      <4> QED
        BY <1>1, <1>2, <3>3, <4>1, <4>2
    <3>4. CASE flushItem.text # t /\ InLine(t)
      <4>1. PICK j \in DOMAIN Backlog : Backlog[j] = t
        BY <3>4 DEF InLine
      <4>2. j # 1 /\ j - 1 \in 1..Len(outgoing) /\ (j - 1) + 1 = j
        BY <3>2, <3>4, <4>1
      <4>3. outgoing[j - 1] = t
        BY <3>2, <4>1, <4>2
      <4>4. ASSUME NEW i \in 1..Len(outgoing), outgoing[i] = t
            PROVE  i = j - 1
        <5>1. i + 1 \in DOMAIN Backlog /\ Backlog[i + 1] = Backlog[j]
          BY <3>2, <4>1, <4>4
        <5>2. i + 1 = j
          BY <5>1 DEF OnceInv
        <5> QED
          BY <3>2, <5>2
      <4>5. O = {j - 1}
        BY <3>2, <4>2, <4>3, <4>4
      <4>6. Cardinality(O) = 1 /\ p = "queued" /\ F = 0
        <5>1. Cardinality({j - 1}) = 1
          BY <1>2
        <5> QED
          BY <1>1, <3>4, <4>5, <5>1
      <4> QED
        BY <4>6
    <3>5. CASE flushItem.text # t /\ ~InLine(t)
      <4>1. O = {}
        <5>1. ASSUME NEW i \in 1..Len(outgoing), outgoing[i] = t
              PROVE  FALSE
          BY <3>2, <3>5, <5>1 DEF InLine
        <5> QED
          BY <3>2, <5>1
      <4> QED
        BY <1>1, <1>2, <3>5, <4>1
    <3> QED
      BY <3>3, <3>4, <3>5
  <2> QED
    BY <2>1, <2>2
<1> HIDE DEF G, O, D, F
<1>6. Cardinality(G) + Cardinality(O) + Cardinality(D) + F = IF t \in refused THEN 0 ELSE 1
  <2>1. Cardinality(O) \in Int /\ F \in Int
    <3>1. IsFiniteSet(O)
      <4>1. IsFiniteSet(DOMAIN outgoing)
        BY FS_Interval DEF LineTypeInv
      <4> QED
        BY <4>1, FS_Subset DEF O
    <3> QED
      BY <3>1, FS_CardinalityType DEF F
  <2> QED
    BY <1>1, <1>3, <1>4, <1>5, <2>1
<1> QED
  BY <1>6 DEF G, O, D, F

LEMMA LineInvCorrect == LineInv => LineCorrect
BY OneWire, KeptOnce, WhatsAppLineAssumption DEF LineInv, LineCorrect

\* What a step that moves no message leaves alone.
LEMMA MessagesStay ==
  ASSUME PlaceInv, OnceInv, BacklogInv, QueuedInOrder, Backlog' = Backlog,
         UNCHANGED <<direct, waGot, queuedOrder, unsent, refused>>
  PROVE  PlaceInv' /\ OnceInv' /\ BacklogInv' /\ QueuedInOrder'
<1>1. PlaceInv'
  <2>1. \A t : (Arrived(t)' <=> Arrived(t)) /\ (InLine(t)' <=> InLine(t))
               /\ (Sending(t)' <=> Sending(t))
    BY DEF Arrived, InLine, Sending
  <2> QED
    BY <2>1 DEF PlaceInv
<1>2. OnceInv'
  BY DEF OnceInv
<1>3. BacklogInv'
  BY DEF BacklogInv, Arrived
<1>4. QueuedInOrder'
  BY DEF QueuedInOrder
<1> QED
  BY <1>1, <1>2, <1>3, <1>4

LEMMA DialedKeeps == LineInv /\ Dialed => LineInv'
<1> SUFFICES ASSUME LineInv, Dialed PROVE LineInv'
  OBVIOUS
<1> USE DEF LineInv
<1>1. /\ dialing # "none" /\ dialing' = "none"
      /\ UNCHANGED <<retryTimer, waConnected, outgoing, flushItem, direct, waGot,
                     queuedOrder, unsent, refused, stalled, lost>>
  BY DEF Dialed
<1>2. PICK s \in UnmadeSockets : waSock' = s
  <2>1. UnmadeSockets \in SUBSET Nat /\ UnmadeSockets # {}
    BY WhatsAppLineAssumption DEF Dialed, UnmadeSockets, LineSockets
  <2>2. \E s \in UnmadeSockets : \A t \in UnmadeSockets : s <= t
    BY <2>1, LeastNumber
  <2> QED
    BY <2>2 DEF Dialed
<1>3. s \in LineSockets /\ line[s] = "none" /\ line' = [line EXCEPT ![s] = "connecting"]
  BY <1>2 DEF Dialed, UnmadeSockets
<1>4. LineTypeInv'
  BY <1>1, <1>2, <1>3, WhatsAppLineAssumption DEF LineTypeInv, LineSockets
<1>5. WireInv'
  <2>1. LiveSockets = {} /\ ~lost /\ ~retryTimer
    BY <1>1 DEF WireInv
  <2>2. LiveSockets' = LiveSockets \cup {s}
    BY <1>3 DEF LiveSockets, LineTypeInv
  <2> QED
    BY <1>1, <1>3, <2>1, <2>2 DEF WireInv
<1>6. PlaceInv' /\ OnceInv' /\ BacklogInv' /\ QueuedInOrder'
  BY <1>1, MessagesStay DEF Backlog
<1>7. QueueMoves'
  BY <1>1 DEF QueueMoves
<1> QED
  BY <1>4, <1>5, <1>6, <1>7

LEMMA TimersKeep == LineInv /\ (LineDialFails \/ RetryTimerFires) => LineInv'
<1> SUFFICES ASSUME LineInv, LineDialFails \/ RetryTimerFires PROVE LineInv'
  OBVIOUS
<1> USE DEF LineInv
<1>1. UNCHANGED <<waSock, line, waConnected, outgoing, flushItem, direct, waGot,
                  queuedOrder, unsent, refused, stalled>>
  BY DEF LineDialFails, RetryTimerFires
<1>2. LineTypeInv'
  BY <1>1 DEF LineTypeInv, LineDialFails, RetryTimerFires, RetryAfter
<1>3. WireInv'
  <2>1. LiveSockets' = LiveSockets
    BY <1>1 DEF LiveSockets
  <2> QED
    BY <2>1 DEF WireInv, LineDialFails, RetryTimerFires, RetryAfter, LineTypeInv
<1>4. PlaceInv' /\ OnceInv' /\ BacklogInv' /\ QueuedInOrder'
  BY <1>1, MessagesStay DEF Backlog
<1>5. QueueMoves'
  BY <1>1 DEF QueueMoves
<1> QED
  BY <1>2, <1>3, <1>4, <1>5

LEMMA ClosesKeeps ==
  ASSUME LineInv, NEW s \in LineSockets, NEW loggedOut \in BOOLEAN, ClosesWith(s, loggedOut)
  PROVE  LineInv'
<1> USE DEF LineInv
<1>1. /\ line[s] \in {"connecting", "open"} /\ line' = [line EXCEPT ![s] = "closed"]
      /\ dialing' = (IF ~loggedOut THEN "again" ELSE dialing)
      /\ lost' = (lost \/ loggedOut) /\ waConnected' = FALSE
      /\ UNCHANGED <<waSock, retryTimer, outgoing, flushItem, direct, waGot, queuedOrder,
                     unsent, refused, stalled>>
  BY DEF ClosesWith, LineRedials
<1>2. LineTypeInv'
  BY <1>1 DEF LineTypeInv
<1>3. WireInv'
  <2>1. LiveSockets = {s} /\ ~lost /\ dialing = "none" /\ ~retryTimer
    <3>1. s \in LiveSockets
      BY <1>1 DEF LiveSockets
    <3> QED
      BY <3>1 DEF WireInv
  <2>2. LiveSockets' = LiveSockets \ {s}
    BY <1>1 DEF LiveSockets, LineTypeInv
  <2> QED
    BY <1>1, <2>1, <2>2 DEF WireInv
<1>4. PlaceInv' /\ OnceInv' /\ BacklogInv' /\ QueuedInOrder'
  BY <1>1, MessagesStay DEF Backlog
<1>5. QueueMoves'
  BY <1>1 DEF QueueMoves
<1> QED
  BY <1>2, <1>3, <1>4, <1>5

LEMMA DisconnectKeeps == LineInv /\ LineDisconnect => LineInv'
<1> SUFFICES ASSUME LineInv, LineDisconnect PROVE LineInv'
  OBVIOUS
<1>1. PICK s \in LineSockets : s = waSock
  BY WhatsAppLineAssumption DEF LineDisconnect, LineInv, LineTypeInv, LineSockets
<1> QED
  BY <1>1, ClosesKeeps DEF LineDisconnect

LEMMA OpensKeeps ==
  ASSUME LineInv, NEW s \in LineSockets, SocketOpens(s)
  PROVE  LineInv'
<1> USE DEF LineInv
<1>1. /\ line[s] = "connecting" /\ line' = [line EXCEPT ![s] = "open"]
      /\ waConnected' = TRUE /\ stalled' = FALSE
      /\ UNCHANGED <<waSock, dialing, retryTimer, direct, waGot, queuedOrder, unsent,
                     refused, lost>>
  BY DEF SocketOpens
<1>2. /\ outgoing' \in Seq(WaTexts) /\ flushItem' \in Items /\ Backlog' = Backlog
      /\ outgoing' # << >> => flushItem' # NoItem
  <2>1. CASE flushItem = NoItem
    <3>1. TakeNext(waSock) /\ waSock \in Nat
      BY <2>1, WhatsAppLineAssumption DEF SocketOpens, MayFlush, LineTypeInv
    <3>2. PICK n \in Nat : n = waSock
      BY <3>1
    <3>3. TakeNext(n)
      BY <3>1, <3>2
    <3>4. Backlog = outgoing
      BY <2>1 DEF Backlog
    <3> QED
      BY <3>3, <3>4, TakeNextKeeps, WhatsAppLineAssumption
  <2>2. CASE flushItem # NoItem
    BY <2>2 DEF SocketOpens, MayFlush, Backlog, LineTypeInv
  <2> QED
    BY <2>1, <2>2
<1>3. LineTypeInv'
  BY <1>1, <1>2 DEF LineTypeInv
<1>4. WireInv'
  <2>1. LiveSockets' = LiveSockets
    BY <1>1 DEF LiveSockets, LineTypeInv
  <2> QED
    BY <1>1, <2>1 DEF WireInv
<1>5. PlaceInv' /\ OnceInv' /\ BacklogInv' /\ QueuedInOrder'
  BY <1>1, <1>2, MessagesStay
<1>6. QueueMoves'
  BY <1>2 DEF QueueMoves
<1> QED
  BY <1>3, <1>4, <1>5, <1>6

LEMMA FlushFailsKeeps == LineInv /\ FlushFails => LineInv'
<1> SUFFICES ASSUME LineInv, FlushFails PROVE LineInv'
  OBVIOUS
<1> USE DEF LineInv
<1>1. /\ flushItem # NoItem /\ flushItem' = NoItem /\ stalled' = waConnected
      /\ outgoing' = <<flushItem.text>> \o outgoing
      /\ UNCHANGED <<waSock, line, dialing, retryTimer, waConnected, direct, waGot,
                     queuedOrder, unsent, refused, lost>>
  BY DEF FlushFails, PutBack
<1>2. outgoing' \in Seq(WaTexts)
  BY <1>1, BacklogType, ConsFacts, WhatsAppLineAssumption DEF LineTypeInv
<1>3. LineTypeInv'
  BY <1>1, <1>2 DEF LineTypeInv, Items
<1>4. WireInv'
  <2>1. LiveSockets' = LiveSockets
    BY <1>1 DEF LiveSockets
  <2> QED
    BY <1>1, <2>1 DEF WireInv
<1>5. PlaceInv' /\ OnceInv' /\ BacklogInv' /\ QueuedInOrder'
  BY <1>1, MessagesStay DEF Backlog
<1>6. QueueMoves'
  BY <1>1 DEF QueueMoves
<1> QED
  BY <1>3, <1>4, <1>5, <1>6

LEMMA SendTextKeeps ==
  ASSUME LineInv, NEW t \in WaTexts, SendText(t)
  PROVE  LineInv'
<1> USE DEF LineInv
<1>1. /\ t \in unsent /\ unsent' = unsent \ {t}
      /\ UNCHANGED <<waSock, line, dialing, retryTimer, waConnected, flushItem, waGot,
                     refused, stalled, lost>>
  BY DEF SendText
<1>2. WireInv'
  <2>1. LiveSockets' = LiveSockets
    BY <1>1 DEF LiveSockets
  <2> QED
    BY <1>1, <2>1 DEF WireInv
<1>3. /\ t \notin refused /\ ~Sending(t) /\ ~InLine(t) /\ ~Arrived(t)
  BY <1>1 DEF PlaceInv
<1>4. \A u : Arrived(u)' <=> Arrived(u)
  BY <1>1 DEF Arrived
<1>5. CASE waConnected
  <2>1. /\ direct' = direct \cup {[text |-> t, on |-> waSock]}
        /\ UNCHANGED <<outgoing, queuedOrder>> /\ Backlog' = Backlog
    BY <1>1, <1>5 DEF SendText, Backlog
  <2>2. LineTypeInv'
    BY <1>1, <2>1, WhatsAppLineAssumption DEF LineTypeInv
  <2>3. \A u : (InLine(u)' <=> InLine(u)) /\ (Sending(u)' <=> Sending(u) \/ u = t)
    <3>1. \A u : InLine(u)' <=> InLine(u)
      BY <2>1 DEF InLine
    <3>2. \A d : d \in direct' <=> d \in direct \/ d = [text |-> t, on |-> waSock]
      BY <2>1
    <3>3. \A u : Sending(u)' <=> Sending(u) \/ u = t
      <4>1. ASSUME NEW u PROVE Sending(u) => Sending(u)'
        BY <3>2 DEF Sending
      <4>2. [text |-> t, on |-> waSock] \in direct' /\ [text |-> t, on |-> waSock].text = t
        BY <3>2
      <4>3. ASSUME NEW u, Sending(u)', u # t PROVE Sending(u)
        <5>1. PICK d \in direct' : d.text = u
          BY <4>3 DEF Sending
        <5> QED
          BY <3>2, <4>2, <4>3, <5>1 DEF Sending
      <4>4. Sending(t)'
        BY <4>2 DEF Sending
      <4> QED
        BY <4>1, <4>3, <4>4
    <3> QED
      BY <3>1, <3>3
  <2>4. PlaceInv'
    BY <1>1, <1>3, <1>4, <2>3 DEF PlaceInv
  <2>5. OnceInv'
    BY <1>1, <1>3, <2>1 DEF OnceInv, Sending
  <2>6. BacklogInv' /\ QueuedInOrder' /\ QueueMoves'
    BY <1>1, <1>4, <2>1 DEF BacklogInv, QueuedInOrder, QueueMoves
  <2> QED
    BY <1>2, <2>2, <2>4, <2>5, <2>6
<1>6. CASE ~waConnected
  <2>1. /\ outgoing' = Append(outgoing, t) /\ queuedOrder' = Append(queuedOrder, t)
        /\ direct' = direct
    BY <1>6 DEF SendText
  <2>2. Backlog \in Seq(WaTexts) /\ queuedOrder \in Seq(WaTexts) /\ outgoing \in Seq(WaTexts)
    BY BacklogType, WhatsAppLineAssumption DEF LineTypeInv
  <2>3. LineTypeInv'
    BY <1>1, <2>1, <2>2 DEF LineTypeInv
  <2>4. Backlog' = Append(Backlog, t)
    <3>1. CASE flushItem = NoItem
      BY <1>1, <2>1, <3>1 DEF Backlog
    <3>2. CASE flushItem # NoItem
      <4>1. flushItem.text \in WaTexts
        BY <3>2, BacklogType, WhatsAppLineAssumption
      <4>2. <<flushItem.text>> \o Append(outgoing, t) = Append(<<flushItem.text>> \o outgoing, t)
        BY <2>2, <4>1
      <4> QED
        BY <1>1, <2>1, <3>2, <4>2 DEF Backlog
    <3> QED
      BY <3>1, <3>2
  <2> DEFINE b == Len(Backlog)
             n == Len(queuedOrder)
  <2>5. /\ b \in Nat /\ n \in Nat
        /\ Len(Backlog') = b + 1 /\ DOMAIN Backlog = 1..b /\ DOMAIN Backlog' = 1..(b + 1)
        /\ Len(queuedOrder') = n + 1
        /\ DOMAIN queuedOrder = 1..n /\ DOMAIN queuedOrder' = 1..(n + 1)
    BY <2>1, <2>2, <2>4, AppendFacts
  <2>6. /\ \A i \in 1..b : Backlog'[i] = Backlog[i]
        /\ Backlog'[b + 1] = t
        /\ \A i \in 1..n : queuedOrder'[i] = queuedOrder[i]
        /\ queuedOrder'[n + 1] = t
    BY <2>1, <2>2, <2>4, AppendFacts
  <2> HIDE DEF b, n
  <2>7. \A u : Sending(u)' <=> Sending(u)
    BY <2>1 DEF Sending
  <2>8. \A u : InLine(u)' <=> InLine(u) \/ u = t
    <3>1. ASSUME NEW u, InLine(u) PROVE InLine(u)'
      <4>1. PICK i \in 1..b : Backlog[i] = u
        BY <2>5, <3>1 DEF InLine
      <4>2. i \in DOMAIN Backlog' /\ Backlog'[i] = u
        BY <2>5, <2>6, <4>1
      <4> QED
        BY <4>2 DEF InLine
    <3>2. InLine(t)'
      <4>1. b + 1 \in DOMAIN Backlog' /\ Backlog'[b + 1] = t
        BY <2>5, <2>6
      <4> QED
        BY <4>1 DEF InLine
    <3>3. ASSUME NEW u, InLine(u)', u # t PROVE InLine(u)
      <4>1. PICK i \in DOMAIN Backlog' : Backlog'[i] = u
        BY <3>3 DEF InLine
      <4>2. i \in 1..b
        BY <2>5, <2>6, <3>3, <4>1
      <4> QED
        BY <2>5, <2>6, <4>1, <4>2 DEF InLine
    <3> QED
      BY <3>1, <3>2, <3>3
  <2>9. PlaceInv'
    BY <1>1, <1>3, <1>4, <2>7, <2>8 DEF PlaceInv
  <2>10. OnceInv'
    <3>1. ASSUME NEW i \in 1..(b + 1), NEW j \in 1..(b + 1), Backlog'[i] = Backlog'[j]
          PROVE  i = j
      <4>1. \A k \in 1..b : Backlog[k] # t
        BY <1>3, <2>5 DEF InLine
      <4>2. \A k \in 1..(b + 1) : k \in 1..b \/ k = b + 1
        BY <2>5
      <4>3. CASE i \in 1..b /\ j \in 1..b
        BY <2>5, <2>6, <3>1, <4>3 DEF OnceInv
      <4> QED
        BY <2>6, <3>1, <4>1, <4>2, <4>3
    <3>2. \A i, j \in DOMAIN Backlog' : Backlog'[i] = Backlog'[j] => i = j
      BY <2>5, <3>1
    <3>3. /\ (\A i, j \in DOMAIN waGot : waGot[i] = waGot[j] => i = j)'
          /\ (\A d, e \in direct : d.text = e.text => d = e)'
      BY <1>1, <2>1 DEF OnceInv
    <3> QED
      BY <3>2, <3>3 DEF OnceInv
  <2>11. BacklogInv'
    <3>1. b <= n
      BY DEF BacklogInv, b, n
    <3>2. ASSUME NEW i \in 1..(b + 1)
          PROVE  Backlog'[i] = queuedOrder'[(n + 1) - (b + 1) + i]
      <4>1. CASE i \in 1..b
        <5>1. Backlog[i] = queuedOrder[n - b + i]
          BY <2>5, <4>1 DEF BacklogInv, b, n
        <5>2. n - b + i \in 1..n /\ (n + 1) - (b + 1) + i = n - b + i
          BY <2>5, <3>1, <4>1
        <5> QED
          BY <2>6, <4>1, <5>1, <5>2
      <4>2. CASE i = b + 1
        <5>1. (n + 1) - (b + 1) + i = n + 1
          BY <2>5, <4>2
        <5> QED
          BY <2>6, <4>2, <5>1
      <4> QED
        BY <2>5, <4>1, <4>2
    <3>3. ASSUME NEW i \in 1..((n + 1) - (b + 1))
          PROVE  \E q \in DOMAIN waGot : waGot[q] = queuedOrder'[i]
      <4>1. i \in 1..(n - b) /\ i \in 1..n
        BY <2>5, <3>1
      <4>2. Arrived(queuedOrder[i])
        BY <4>1 DEF BacklogInv, b, n
      <4>3. queuedOrder'[i] = queuedOrder[i]
        BY <2>6, <4>1
      <4> QED
        BY <4>2, <4>3 DEF Arrived
    <3>4. Len(Backlog') <= Len(queuedOrder')
      BY <2>5, <3>1
    <3>5. \A i \in DOMAIN Backlog' :
            Backlog'[i] = queuedOrder'[Len(queuedOrder') - Len(Backlog') + i]
      BY <2>5, <3>2
    <3>6. \A i \in 1..(Len(queuedOrder') - Len(Backlog')) : Arrived(queuedOrder[i])'
      BY <1>1, <2>5, <3>3 DEF Arrived
    <3> QED
      BY <3>4, <3>5, <3>6 DEF BacklogInv
  <2>12. QueuedInOrder'
    <3>1. ASSUME NEW i \in 1..(n + 1), NEW j \in 1..(n + 1), NEW q \in DOMAIN waGot,
                 i < j, waGot[q] = queuedOrder'[j]
          PROVE  \E p \in DOMAIN waGot : p < q /\ waGot[p] = queuedOrder'[i]
      <4>1. j # n + 1
        BY <1>3, <2>6, <3>1 DEF Arrived
      <4>2. i \in 1..n /\ j \in 1..n
        BY <2>5, <3>1, <4>1
      <4> QED
        BY <2>5, <2>6, <3>1, <4>2 DEF QueuedInOrder
    <3> QED
      BY <1>1, <2>5, <3>1 DEF QueuedInOrder
  <2>13. QueueMoves'
    BY <1>1, <1>6 DEF QueueMoves
  <2> QED
    BY <1>2, <2>3, <2>9, <2>10, <2>11, <2>12, <2>13
<1> QED
  BY <1>5, <1>6 DEF LineTypeInv

\* WhatsApp gets a message that was being sent, and so was neither queued nor there yet.
LEMMA DirectSentKeeps ==
  ASSUME LineInv, NEW d \in direct, DirectSent(d)
  PROVE  LineInv'
<1> USE DEF LineInv
<1>1. /\ direct' = direct \ {d} /\ waGot' = Append(waGot, d.text)
      /\ UNCHANGED <<waSock, line, dialing, retryTimer, waConnected, outgoing, flushItem,
                     queuedOrder, unsent, refused, stalled, lost>>
  BY DEF DirectSent
<1>2. PICK t \in WaTexts : t = d.text
  BY DEF LineTypeInv
<1> DEFINE g == Len(waGot)
<1>3. /\ waGot' \in Seq(WaTexts) /\ g \in Nat
      /\ DOMAIN waGot = 1..g /\ DOMAIN waGot' = 1..(g + 1)
      /\ \A i \in 1..g : waGot'[i] = waGot[i]
      /\ waGot'[g + 1] = t
  BY <1>1, <1>2, AppendFacts DEF LineTypeInv
<1> HIDE DEF g
<1>4. LineTypeInv'
  BY <1>1, <1>3 DEF LineTypeInv
<1>5. WireInv' /\ QueueMoves'
  <2>1. LiveSockets' = LiveSockets
    BY <1>1 DEF LiveSockets
  <2> QED
    BY <1>1, <2>1 DEF WireInv, QueueMoves
<1>6. Sending(t) /\ ~Arrived(t) /\ ~InLine(t) /\ t \notin unsent /\ t \notin refused
  <2>1. Sending(t)
    BY <1>2 DEF Sending
  <2> QED
    BY <2>1 DEF PlaceInv
<1>7. \A u : Arrived(u)' <=> Arrived(u) \/ u = t
  <2>1. \A i : i \in 1..(g + 1) <=> i \in 1..g \/ i = g + 1
    BY <1>3
  <2> QED
    BY <1>3, <2>1 DEF Arrived
<1>8. \A u : Sending(u)' <=> Sending(u) /\ u # t
  BY <1>1, <1>2 DEF Sending, OnceInv
<1>9. Backlog' = Backlog /\ \A u : InLine(u)' <=> InLine(u)
  BY <1>1 DEF Backlog, InLine
<1>10. PlaceInv'
  BY <1>1, <1>6, <1>7, <1>8, <1>9 DEF PlaceInv
<1>11. OnceInv'
  <2>1. ASSUME NEW i \in 1..(g + 1), NEW j \in 1..(g + 1), waGot'[i] = waGot'[j]
        PROVE  i = j
    <3>1. \A k \in 1..g : waGot[k] # t
      BY <1>3, <1>6 DEF Arrived
    <3>2. \A k \in 1..(g + 1) : k \in 1..g \/ k = g + 1
      BY <1>3
    <3>3. CASE i \in 1..g /\ j \in 1..g
      BY <1>3, <2>1, <3>3 DEF OnceInv
    <3> QED
      BY <1>3, <2>1, <3>1, <3>2, <3>3
  <2>2. (\A i, j \in DOMAIN waGot : waGot[i] = waGot[j] => i = j)'
    BY <1>3, <2>1
  <2>3. /\ (\A i, j \in DOMAIN Backlog : Backlog[i] = Backlog[j] => i = j)'
        /\ (\A x, y \in direct : x.text = y.text => x = y)'
    BY <1>1, <1>9 DEF OnceInv
  <2> QED
    BY <2>2, <2>3 DEF OnceInv
<1>12. BacklogInv'
  BY <1>1, <1>7, <1>9 DEF BacklogInv
<1>13. QueuedInOrder'
  <2>1. Len(Backlog) \in Nat /\ DOMAIN Backlog = 1..Len(Backlog)
    BY BacklogType, WhatsAppLineAssumption
  <2>2. Len(queuedOrder) \in Nat /\ DOMAIN queuedOrder = 1..Len(queuedOrder)
    BY DEF LineTypeInv
  <2>3. ASSUME NEW j \in DOMAIN queuedOrder
        PROVE  queuedOrder[j] # t
    <3>1. CASE j \in 1..(Len(queuedOrder) - Len(Backlog))
      BY <1>6, <3>1 DEF BacklogInv
    <3>2. CASE j \notin 1..(Len(queuedOrder) - Len(Backlog))
      <4>1. /\ j - (Len(queuedOrder) - Len(Backlog)) \in DOMAIN Backlog
            /\ Len(queuedOrder) - Len(Backlog) + (j - (Len(queuedOrder) - Len(Backlog))) = j
        BY <2>1, <2>2, <3>2 DEF BacklogInv
      <4>2. Backlog[j - (Len(queuedOrder) - Len(Backlog))] = queuedOrder[j]
        BY <4>1 DEF BacklogInv
      <4> QED
        BY <1>6, <4>1, <4>2 DEF InLine
    <3> QED
      BY <3>1, <3>2
  <2>4. ASSUME NEW i \in DOMAIN queuedOrder, NEW j \in DOMAIN queuedOrder, NEW q \in 1..(g + 1),
               i < j, waGot'[q] = queuedOrder[j]
        PROVE  \E p \in 1..(g + 1) : p < q /\ waGot'[p] = queuedOrder[i]
    <3>1. q \in 1..g
      BY <1>3, <2>3, <2>4
    <3>2. PICK p \in 1..g : p < q /\ waGot[p] = queuedOrder[i]
      BY <1>3, <2>4, <3>1 DEF QueuedInOrder
    <3>3. p \in 1..(g + 1)
      BY <1>3
    <3> QED
      BY <1>3, <3>2, <3>3
  <2> QED
    BY <1>1, <1>3, <2>4 DEF QueuedInOrder
<1> QED
  BY <1>4, <1>5, <1>10, <1>11, <1>12, <1>13

LEMMA DirectFailsKeeps ==
  ASSUME LineInv, NEW d \in direct, DirectFails(d)
  PROVE  LineInv'
<1> USE DEF LineInv
<1>1. /\ direct' = direct \ {d} /\ refused' = refused \cup {d.text}
      /\ UNCHANGED <<waSock, line, dialing, retryTimer, waConnected, outgoing, flushItem,
                     waGot, queuedOrder, unsent, stalled, lost>>
  BY DEF DirectFails
<1>2. PICK t \in WaTexts : t = d.text
  BY DEF LineTypeInv
<1>3. LineTypeInv'
  BY <1>1, <1>2 DEF LineTypeInv
<1>4. WireInv' /\ QueueMoves'
  <2>1. LiveSockets' = LiveSockets
    BY <1>1 DEF LiveSockets
  <2> QED
    BY <1>1, <2>1 DEF WireInv, QueueMoves
<1>5. Sending(t) /\ ~Arrived(t) /\ ~InLine(t) /\ t \notin unsent /\ t \notin refused
  <2>1. Sending(t)
    BY <1>2 DEF Sending
  <2> QED
    BY <2>1 DEF PlaceInv
<1>6. \A u : Sending(u)' <=> Sending(u) /\ u # t
  BY <1>1, <1>2 DEF Sending, OnceInv
<1>7. Backlog' = Backlog /\ \A u : (InLine(u)' <=> InLine(u)) /\ (Arrived(u)' <=> Arrived(u))
  BY <1>1 DEF Backlog, InLine, Arrived
<1>8. PlaceInv'
  BY <1>1, <1>2, <1>5, <1>6, <1>7 DEF PlaceInv
<1>9. OnceInv' /\ QueuedInOrder'
  BY <1>1, <1>7 DEF OnceInv, QueuedInOrder
<1>10. BacklogInv'
  BY <1>1, <1>7 DEF BacklogInv
<1> QED
  BY <1>3, <1>4, <1>8, <1>9, <1>10

\* WhatsApp gets the head of the backlog: what was queued before it has arrived, and what
\* was queued after it is still behind it.
LEMMA FlushSentKeeps == LineInv /\ FlushSent => LineInv'
<1> SUFFICES ASSUME LineInv, FlushSent PROVE LineInv'
  OBVIOUS
<1> USE DEF LineInv
<1>1. /\ flushItem # NoItem /\ waGot' = Append(waGot, flushItem.text)
      /\ UNCHANGED <<waSock, line, dialing, retryTimer, waConnected, direct, queuedOrder,
                     unsent, refused, stalled, lost>>
  BY DEF FlushSent
<1>2. PICK t \in WaTexts : t = flushItem.text
  BY <1>1, BacklogType, WhatsAppLineAssumption
<1>3. /\ outgoing' \in Seq(WaTexts) /\ flushItem' \in Items /\ Backlog' = outgoing
      /\ outgoing' # << >> => flushItem' # NoItem
  <2>1. PICK s \in Nat : s = waSock
    BY WhatsAppLineAssumption DEF LineTypeInv
  <2>2. TakeNext(s)
    BY <2>1 DEF FlushSent
  <2> QED
    BY <2>2, TakeNextKeeps, WhatsAppLineAssumption
<1>4. outgoing \in Seq(WaTexts) /\ Backlog = <<t>> \o outgoing
  BY <1>1, <1>2 DEF Backlog, LineTypeInv
<1> DEFINE g == Len(waGot)
           b == Len(outgoing)
           n == Len(queuedOrder)
<1>5. /\ waGot' \in Seq(WaTexts) /\ g \in Nat
      /\ DOMAIN waGot = 1..g /\ DOMAIN waGot' = 1..(g + 1)
      /\ \A i \in 1..g : waGot'[i] = waGot[i]
      /\ waGot'[g + 1] = t
  BY <1>1, <1>2, AppendFacts DEF LineTypeInv
<1>6. /\ b \in Nat /\ Len(Backlog) = b + 1 /\ DOMAIN Backlog = 1..(b + 1)
      /\ DOMAIN outgoing = 1..b /\ Backlog[1] = t
      /\ \A i \in 1..b : Backlog[i + 1] = outgoing[i]
  BY <1>4, ConsFacts
<1>7. n \in Nat /\ DOMAIN queuedOrder = 1..n /\ b + 1 <= n
  BY <1>6 DEF LineTypeInv, BacklogInv
<1>8. Len(Backlog') = b /\ DOMAIN Backlog' = 1..b
  BY <1>3, <1>6
<1> HIDE DEF g, b, n
<1>9. /\ \A i \in 1..(b + 1) : Backlog[i] = queuedOrder[n - (b + 1) + i]
      /\ \A i \in 1..(n - (b + 1)) : Arrived(queuedOrder[i])
  BY <1>6 DEF BacklogInv, n
<1>10. InLine(t) /\ ~Arrived(t) /\ ~Sending(t) /\ t \notin unsent /\ t \notin refused
  <2>1. 1 \in DOMAIN Backlog
    BY <1>6
  <2>2. InLine(t)
    BY <1>6, <2>1 DEF InLine
  <2> QED
    BY <2>2 DEF PlaceInv
<1>11. LineTypeInv'
  BY <1>1, <1>3, <1>5 DEF LineTypeInv
<1>12. WireInv' /\ QueueMoves'
  <2>1. LiveSockets' = LiveSockets
    BY <1>1 DEF LiveSockets
  <2> QED
    BY <1>1, <1>3, <2>1 DEF WireInv, QueueMoves
<1>13. \A u : Arrived(u)' <=> Arrived(u) \/ u = t
  <2>1. \A i : i \in 1..(g + 1) <=> i \in 1..g \/ i = g + 1
    BY <1>5
  <2> QED
    BY <1>5, <2>1 DEF Arrived
<1>14. ASSUME NEW i \in 1..b
       PROVE  outgoing[i] # t
  <2>1. i + 1 \in DOMAIN Backlog /\ 1 \in DOMAIN Backlog /\ i + 1 # 1
    BY <1>6
  <2>2. Backlog[i + 1] # Backlog[1]
    BY <2>1 DEF OnceInv
  <2> QED
    BY <1>6, <2>2
<1>15. \A u : InLine(u)' <=> InLine(u) /\ u # t
  <2>1. ASSUME NEW u, InLine(u), u # t PROVE InLine(u)'
    <3>1. PICK i \in 1..(b + 1) : Backlog[i] = u
      BY <1>6, <2>1 DEF InLine
    <3>2. i - 1 \in 1..b /\ (i - 1) + 1 = i
      BY <1>6, <2>1, <3>1
    <3>3. outgoing[i - 1] = u
      BY <1>6, <3>1, <3>2
    <3> QED
      BY <1>3, <1>8, <3>2, <3>3 DEF InLine
  <2>2. ASSUME NEW u, InLine(u)' PROVE InLine(u) /\ u # t
    <3>1. PICK i \in 1..b : outgoing[i] = u
      BY <1>3, <1>8, <2>2 DEF InLine
    <3>2. i + 1 \in DOMAIN Backlog /\ Backlog[i + 1] = u
      BY <1>6, <3>1
    <3> QED
      BY <1>14, <3>1, <3>2 DEF InLine
  <2> QED
    BY <2>1, <2>2
<1>16. \A u : Sending(u)' <=> Sending(u)
  BY <1>1 DEF Sending
<1>17. PlaceInv'
  BY <1>1, <1>10, <1>13, <1>15, <1>16 DEF PlaceInv
<1>18. OnceInv'
  <2>1. ASSUME NEW i \in 1..(g + 1), NEW j \in 1..(g + 1), waGot'[i] = waGot'[j]
        PROVE  i = j
    <3>1. \A k \in 1..g : waGot[k] # t
      BY <1>5, <1>10 DEF Arrived
    <3>2. \A k \in 1..(g + 1) : k \in 1..g \/ k = g + 1
      BY <1>5
    <3>3. CASE i \in 1..g /\ j \in 1..g
      BY <1>5, <2>1, <3>3 DEF OnceInv
    <3> QED
      BY <1>5, <2>1, <3>1, <3>2, <3>3
  <2>2. (\A i, j \in DOMAIN waGot : waGot[i] = waGot[j] => i = j)'
    BY <1>5, <2>1
  <2>3. ASSUME NEW i \in 1..b, NEW j \in 1..b, outgoing[i] = outgoing[j]
        PROVE  i = j
    <3>1. /\ i + 1 \in DOMAIN Backlog /\ j + 1 \in DOMAIN Backlog
          /\ Backlog[i + 1] = Backlog[j + 1]
      BY <1>6, <2>3
    <3>2. i + 1 = j + 1
      BY <3>1 DEF OnceInv
    <3> QED
      BY <1>6, <3>2
  <2>4. (\A i, j \in DOMAIN Backlog : Backlog[i] = Backlog[j] => i = j)'
    BY <1>3, <1>8, <2>3
  <2>5. (\A x, y \in direct : x.text = y.text => x = y)'
    BY <1>1 DEF OnceInv
  <2> QED
    BY <2>2, <2>4, <2>5 DEF OnceInv
<1>19. BacklogInv'
  <2>1. ASSUME NEW i \in 1..b
        PROVE  outgoing[i] = queuedOrder[n - b + i]
    <3>1. i + 1 \in 1..(b + 1) /\ n - (b + 1) + (i + 1) = n - b + i
      BY <1>6, <1>7
    <3> QED
      BY <1>6, <1>9, <3>1
  <2>2. ASSUME NEW i \in 1..(n - b)
        PROVE  Arrived(queuedOrder[i]) \/ queuedOrder[i] = t
    <3>1. CASE i = n - b
      <4>1. 1 \in 1..(b + 1) /\ n - (b + 1) + 1 = i
        BY <1>6, <1>7, <3>1
      <4> QED
        BY <1>6, <1>9, <4>1
    <3>2. CASE i # n - b
      <4>1. i \in 1..(n - (b + 1))
        BY <1>6, <1>7, <3>2
      <4> QED
        BY <1>9, <4>1
    <3> QED
      BY <3>1, <3>2
  <2>3. Len(Backlog') <= Len(queuedOrder') /\ Len(queuedOrder') = n
    BY <1>1, <1>6, <1>7, <1>8 DEF n
  <2>4. \A i \in DOMAIN Backlog' :
          Backlog'[i] = queuedOrder'[Len(queuedOrder') - Len(Backlog') + i]
    BY <1>1, <1>3, <1>8, <2>1, <2>3
  <2>5. \A i \in 1..(Len(queuedOrder') - Len(Backlog')) : Arrived(queuedOrder[i])'
    <3>1. ASSUME NEW i \in 1..(n - b), NEW x, x = queuedOrder[i]
          PROVE  Arrived(x)'
      BY <1>13, <2>2, <3>1
    <3>2. \A i \in 1..(n - b) : \E q \in DOMAIN waGot' : waGot'[q] = queuedOrder[i]
      BY <3>1 DEF Arrived
    <3> QED
      BY <1>1, <1>8, <2>3, <3>2 DEF Arrived
  <2> QED
    BY <2>3, <2>4, <2>5 DEF BacklogInv
<1>20. QueuedInOrder'
  <2>1. ASSUME NEW j \in 1..n, queuedOrder[j] = t
        PROVE  j = n - b
    <3>1. j \notin 1..(n - (b + 1))
      BY <1>9, <1>10, <2>1
    <3>2. j - (n - (b + 1)) \in 1..(b + 1) /\ n - (b + 1) + (j - (n - (b + 1))) = j
      BY <1>6, <1>7, <3>1
    <3>3. Backlog[j - (n - (b + 1))] = Backlog[1] /\ 1 \in DOMAIN Backlog
      BY <1>6, <1>9, <2>1, <3>2
    <3>4. j - (n - (b + 1)) = 1
      BY <1>6, <3>2, <3>3 DEF OnceInv
    <3> QED
      BY <1>6, <1>7, <3>4
  <2>2. ASSUME NEW i \in 1..n, NEW j \in 1..n, NEW q \in 1..(g + 1),
               i < j, waGot'[q] = queuedOrder[j]
        PROVE  \E p \in 1..(g + 1) : p < q /\ waGot'[p] = queuedOrder[i]
    <3>1. \A p \in 1..g : p \in 1..(g + 1) /\ p < g + 1
      BY <1>5
    <3>2. CASE q \in 1..g
      <4>1. PICK p \in 1..g : p < q /\ waGot[p] = queuedOrder[i]
        BY <1>5, <1>7, <2>2, <3>2 DEF QueuedInOrder
      <4> QED
        BY <1>5, <3>1, <4>1
    <3>3. CASE q = g + 1
      <4>1. j = n - b
        BY <1>5, <2>1, <2>2, <3>3
      <4>2. i \in 1..(n - (b + 1))
        BY <1>6, <1>7, <2>2, <4>1
      <4>3. PICK p \in 1..g : waGot[p] = queuedOrder[i]
        BY <1>5, <1>9, <4>2 DEF Arrived
      <4> QED
        BY <1>5, <3>1, <3>3, <4>3
    <3> QED
      BY <1>5, <3>2, <3>3
  <2>3. queuedOrder' = queuedOrder /\ DOMAIN queuedOrder = 1..n /\ DOMAIN waGot' = 1..(g + 1)
    BY <1>1, <1>5, <1>7
  <2>4. \A i, j \in 1..n : \A q \in 1..(g + 1) :
          i < j /\ waGot'[q] = queuedOrder[j] => \E p \in 1..(g + 1) : p < q /\ waGot'[p] = queuedOrder[i]
    BY <2>2, Zenon
  <2>5. \A i, j \in DOMAIN queuedOrder' : \A q \in DOMAIN waGot' :
          i < j /\ waGot'[q] = queuedOrder'[j]
            => \E p \in DOMAIN waGot' : p < q /\ waGot'[p] = queuedOrder'[i]
    BY <2>3, <2>4
  <2> QED
    BY <2>5, Zenon DEF QueuedInOrder
<1> QED
  BY <1>11, <1>12, <1>17, <1>18, <1>19, <1>20

LEMMA NextLine ==
  ASSUME LineInv, LineNext \/ UNCHANGED lineVars
  PROVE  LineInv'
<1>1. CASE UNCHANGED lineVars
  <2>1. LineTypeInv' /\ WireInv' /\ QueueMoves'
    BY <1>1 DEF LineInv, lineVars, LineTypeInv, WireInv, LiveSockets, QueueMoves
  <2>2. Backlog' = Backlog /\ UNCHANGED <<direct, waGot, queuedOrder, unsent, refused>>
    BY <1>1 DEF lineVars, Backlog
  <2>3. PlaceInv' /\ OnceInv' /\ BacklogInv' /\ QueuedInOrder'
    BY <2>2, MessagesStay DEF LineInv
  <2> QED
    BY <2>1, <2>3 DEF LineInv
<1>2. CASE LineNext
  <2>1. ASSUME NEW s \in LineSockets, SocketCloses(s)
        PROVE  LineInv'
    BY <2>1, ClosesKeeps DEF SocketCloses
  <2>2. CASE LineDisconnect \/ Dialed \/ LineDialFails \/ RetryTimerFires \/ FlushSent
             \/ FlushFails
    BY <2>2, DisconnectKeeps, DialedKeeps, TimersKeep, FlushSentKeeps, FlushFailsKeeps
  <2>3. CASE \E s \in LineSockets : SocketOpens(s) \/ SocketCloses(s)
    BY <2>1, <2>3, OpensKeeps
  <2>4. CASE \E t \in WaTexts : SendText(t)
    BY <2>4, SendTextKeeps
  <2>5. CASE \E d \in direct : DirectSent(d) \/ DirectFails(d)
    BY <2>5, DirectSentKeeps, DirectFailsKeeps
  <2> QED
    BY <1>2, <2>2, <2>3, <2>4, <2>5 DEF LineNext
<1> QED
  BY <1>1, <1>2

LEMMA InitLine == LineInit => LineInv
<1> SUFFICES ASSUME LineInit PROVE LineInv
  OBVIOUS
<1> USE DEF LineInit
<1>1. LineTypeInv
  <2>1. outgoing \in Seq(WaTexts) /\ waGot \in Seq(WaTexts) /\ queuedOrder \in Seq(WaTexts)
    OBVIOUS
  <2>2. waSock \in 0..WaSockets
    BY WhatsAppLineAssumption
  <2> QED
    BY <2>1, <2>2 DEF LineTypeInv, Items
<1>2. WireInv
  BY DEF WireInv, LiveSockets
<1>3. Backlog = << >>
  BY DEF Backlog
<1>4. PlaceInv /\ OnceInv
  BY <1>3 DEF PlaceInv, OnceInv, Arrived, InLine, Sending
<1>5. BacklogInv /\ QueuedInOrder /\ QueueMoves
  BY <1>3 DEF BacklogInv, QueuedInOrder, QueueMoves
<1> QED
  BY <1>1, <1>2, <1>4, <1>5 DEF LineInv

\* Through reconnects, failed flushes and late closes there is one connection or one
\* attempt at it until the line is lost, and of what sendMessage accepted nothing is
\* lost, doubled, overtaken or left behind (whatsapp.ts).
THEOREM LineIsCorrect == LinesSpec => []LineCorrect
<1>1. LineInv => LineCorrect
  BY LineInvCorrect
<1>2. LinesInit => LineInv
  BY InitLine DEF LinesInit
<1>3. LineInv /\ [LinesNext]_<<part, lineVars, phoneVars, tableVars, sidecarVars, browserVars, voiceVars>>
        => LineInv'
  BY NextLine DEF LinesNext
<1> QED
  BY <1>1, <1>2, <1>3, PTL DEF LinesSpec

-----------------------------------------------------------------------------
(* A chat *)

\* A run of the agent is under way.
Live == run \notin {"none", "command"}

\* What is with the container lies before the cursor, so that a later run does
\* not take it again unless the cursor moves back to where this run began.
RunInv ==
  Live => /\ \A m \in Stored : m > cursor /\ m <= prev =>
               m \in turn \cup inbox \cup served \cup dropped
          /\ \A m \in turn \cup inbox : m <= cursor
          /\ \A i \in 1..Len(outputs) : \A m \in outputs[i].msgs : m <= cursor
          /\ ~replied => \A m \in answered : m <= prev

\* The messages of a command were read before its await; the polling loop may
\* have moved the cursor past them since.
CommandInv ==
  run = "command" =>
    /\ turn \cap answered = {}
    /\ \E top \in turn : \A m \in turn \cup inbox \cup answered : m <= top

AnsweredInv ==
  /\ \A m \in answered : m <= cursor
  /\ \A i \in 1..Len(outputs) : outputs[i].msgs \subseteq served

\* What took effect is marked, written off, or the watcher still awaits its return.
EffectInv ==
  /\ acted => effect \/ Missable
  /\ ~Live => ~acted /\ asked # "now"

\* Between two turns the agent has nothing in hand, between two runs nothing waits.
TurnInv ==
  /\ run \in {"none", "idle"} => turn = {}
  /\ ~Live => outputs = <<>>

\* The inductive invariant.
CInv ==
  /\ TypeOK
  /\ NoOtherLoss
  /\ RunInv
  /\ CommandInv
  /\ AnsweredInv
  /\ EffectInv
  /\ TurnInv

-----------------------------------------------------------------------------
(* Sets of messages and sequences of results *)

LEMMA ConstantFacts ==
  /\ LastMessage \in Nat
  /\ 0 \in 0..MaxRetries
  /\ <<>> \in Seq(Results)
  /\ Len(<<>>) = 0
  /\ 0 \in 0..LastMessage
BY ChatMessagesAssumption

LEMMA ResultsKeep ==
  ASSUME stored' = stored
  PROVE  Results' = Results
BY DEF Results, Stored

\* What the queue counts stays within the retries.
LEMMA CountFailureFacts ==
  ASSUME TypeOK, CountFailure
  PROVE  failures' \in 0..MaxRetries /\ owed' \in BOOLEAN
<1>1. CASE CanRetry
  BY <1>1, ChatMessagesAssumption DEF CountFailure, CanRetry, TypeOK
<1>2. CASE ~CanRetry
  BY <1>2, ChatMessagesAssumption DEF CountFailure, TypeOK
<1> QED
  BY <1>1, <1>2

\* Whatever is read in order of time ends with its newest message.
LEMMA NewestIsTop ==
  ASSUME NEW S \in SUBSET Nat, NEW top \in S, \A m \in S : m <= top
  PROVE  Newest(S) = top
<1>1. \A x \in S : (\A m \in S : m <= x) => x = top
  OBVIOUS
<1> QED
  BY <1>1, Zenon DEF Newest

\* getMessagesSince returns nothing or ends with the newest stored message.
LEMMA SinceFacts ==
  ASSUME TypeOK, NEW c \in Int, Since(c) # {}
  PROVE  /\ Since(c) \in SUBSET Stored
         /\ \A m \in Since(c) : m > c
         /\ Newest(Since(c)) = stored
         /\ stored \in Since(c)
<1>1. PromptLimit \in Nat \ {0} /\ stored \in Nat
  BY ChatMessagesAssumption DEF TypeOK
<1>2. PICK x \in Stored : x > c
  BY DEF Since
<1>3. stored \in Since(c) /\ Since(c) \in SUBSET Nat /\ \A m \in Since(c) : m <= stored
  BY <1>1, <1>2 DEF Since, Stored
<1> QED
  BY <1>3, NewestIsTop DEF Since

\* The same for what the polling loop sees.
LEMMA NewFacts ==
  ASSUME TypeOK, NEW S, S = {m \in Stored : m > seen}, S # {}
  PROVE  Newest(S) = stored /\ stored \in S
<1>1. stored \in Nat /\ seen \in Nat
  BY DEF TypeOK
<1>2. stored \in S /\ S \in SUBSET Nat /\ \A m \in S : m <= stored
  BY <1>1 DEF Stored
<1> QED
  BY <1>2, NewestIsTop

\* handleAgentOutput takes the oldest result.
LEMMA HeadFacts ==
  ASSUME TypeOK, outputs # <<>>
  PROVE  /\ Head(outputs) = outputs[1] /\ 1 \in 1..Len(outputs)
         /\ Head(outputs).msgs \subseteq Stored
         /\ Tail(outputs) \in Seq(Results)
         /\ \A i \in 1..Len(Tail(outputs)) :
              i + 1 \in 1..Len(outputs) /\ Tail(outputs)[i] = outputs[i + 1]
<1>1. outputs \in Seq(Results)
  BY DEF TypeOK
<1>2. Head(outputs) \in Results
  BY <1>1
<1> QED
  BY <1>1, <1>2 DEF Results

LEMMA OutputsAppended ==
  ASSUME TypeOK, NEW r \in Results
  PROVE  /\ Append(outputs, r) \in Seq(Results)
         /\ \A i \in 1..Len(Append(outputs, r)) :
              \/ i \in 1..Len(outputs) /\ Append(outputs, r)[i] = outputs[i]
              \/ Append(outputs, r)[i] = r
<1>1. outputs \in Seq(Results)
  BY DEF TypeOK, Results
<1> QED
  BY <1>1

\* Every end of a run, and a crash, leave the same blank run behind.
LEMMA ResetTypes ==
  ASSUME TypeOK, Reset, UNCHANGED <<kind, stored, seen, inbox, closing>>,
         cursor' \in 0..stored, failures' \in 0..MaxRetries,
         owed' \in BOOLEAN, effect' \in BOOLEAN, ipcCall' \in {"none", "made", "effective"},
         served' \subseteq Stored, answered' \subseteq served', dropped' \subseteq Stored
  PROVE  TypeOK'
<1>1. outputs' \in Seq(Results')
  BY ConstantFacts, ResultsKeep DEF Reset
<1>2. /\ asked' \in {"no", "now", "before"} /\ run' \in Phases
      /\ ipcCall' \in {"none", "made", "effective"}
  BY DEF Reset, TypeOK, Phases
<1>3. prev' \in 0..stored
  BY ConstantFacts DEF Reset, TypeOK
<1>4. /\ turn' \subseteq Stored /\ streamed' \in BOOLEAN /\ rejected' \in BOOLEAN /\ replied' \in BOOLEAN
      /\ hadError' \in BOOLEAN /\ acted' \in BOOLEAN /\ loose' \in BOOLEAN
  BY DEF Reset
<1>5. Stored' = Stored
  BY DEF Stored
<1> QED
  BY <1>1, <1>2, <1>3, <1>4, <1>5 DEF TypeOK

\* And every run of the agent begins alike.
LEMMA BeginTypes ==
  ASSUME TypeOK, NEW missed \in SUBSET Stored, Begin(missed), Newest(missed) \in Stored,
         UNCHANGED <<kind, stored, seen, inbox, closing, failures, ipcVars,
                     served, answered>>,
         owed' \in BOOLEAN, dropped' \subseteq Stored
  PROVE  TypeOK'
<1>1. outputs' \in Seq(Results')
  BY ConstantFacts, ResultsKeep DEF Begin
<1>2. run' \in Phases /\ cursor' \in 0..stored
  BY DEF Begin, TypeOK, Phases, Stored
<1>3. /\ prev' \in 0..stored /\ turn' \subseteq Stored
      /\ streamed' \in BOOLEAN /\ rejected' \in BOOLEAN /\ replied' \in BOOLEAN
      /\ hadError' \in BOOLEAN /\ acted' \in BOOLEAN /\ loose' \in BOOLEAN
  BY DEF Begin, TypeOK
<1>4. Stored' = Stored
  BY DEF Stored
<1> QED
  BY <1>1, <1>2, <1>3, <1>4 DEF TypeOK, ipcVars

-----------------------------------------------------------------------------
(* The channel and the container *)

LEMMA ArriveKeeps ==
  ASSUME CInv, Arrive
  PROVE  CInv'
<1> USE ConstantFacts DEF Arrive, CInv, runVars, ipcVars, history, Stored
<1>a. outputs \in Seq(Results)'
  <2>1. outputs \in Seq(Results) /\ outputs' = outputs
    BY DEF TypeOK
  <2>2. Results \subseteq Results'
    BY DEF TypeOK, Results
  <2> QED
    BY <2>1, <2>2
<1>1. TypeOK'
  BY <1>a DEF TypeOK
<1>2. NoOtherLoss'
  BY DEF TypeOK, NoOtherLoss, Accounted
<1>3. RunInv'
  BY DEF TypeOK, RunInv, Live
<1>4. CommandInv'
  BY DEF CommandInv
<1>5. AnsweredInv'
  BY DEF AnsweredInv
<1>6. EffectInv'
  BY DEF EffectInv, Missable, Live
<1>7. TurnInv'
  BY DEF TurnInv, Live
<1> QED
  BY <1>1, <1>2, <1>3, <1>4, <1>5, <1>6, <1>7

LEMMA RunSpawnKeeps ==
  ASSUME CInv, Spawn
  PROVE  CInv'
<1> USE ConstantFacts DEF Spawn, CInv, runVars, ipcVars, history, Stored
<1>1. TypeOK'
  <2>1. Results' = Results /\ outputs' \in Seq(Results)
    BY DEF Results, TypeOK
  <2>2. run' \in Phases
    BY DEF TypeOK, Phases
  <2> QED
    BY <2>1, <2>2 DEF TypeOK
<1>2. NoOtherLoss'
  BY DEF NoOtherLoss, Accounted
<1>3. RunInv'
  BY DEF RunInv, Live
<1>4. CommandInv'
  BY DEF CommandInv
<1>5. AnsweredInv'
  BY DEF AnsweredInv
<1>6. EffectInv'
  BY DEF EffectInv, Missable, Live
<1>7. TurnInv'
  BY DEF TurnInv, Live
<1> QED
  BY <1>1, <1>2, <1>3, <1>4, <1>5, <1>6, <1>7

LEMMA BootKeeps ==
  ASSUME CInv, Boot
  PROVE  CInv'
<1> USE ConstantFacts DEF Boot, CInv, runVars, ipcVars, history, Stored
<1>1. TypeOK'
  <2>1. Results' = Results /\ outputs' \in Seq(Results)
    BY DEF Results, TypeOK
  <2>2. /\ run' \in Phases /\ turn' \subseteq Stored /\ inbox' \subseteq Stored /\ closing' \in BOOLEAN
    BY DEF TypeOK, Phases
  <2> QED
    BY <2>1, <2>2 DEF TypeOK
<1>2. NoOtherLoss'
  BY DEF NoOtherLoss, Accounted
<1>3. RunInv'
  BY DEF RunInv, Live
<1>4. CommandInv'
  BY DEF CommandInv
<1>5. AnsweredInv'
  BY DEF AnsweredInv
<1>6. EffectInv'
  BY DEF EffectInv, Missable, Live
<1>7. TurnInv'
  BY DEF TurnInv, Live
<1> QED
  BY <1>1, <1>2, <1>3, <1>4, <1>5, <1>6, <1>7

LEMMA AgentAsksKeeps ==
  ASSUME CInv, AgentAsks
  PROVE  CInv'
<1> USE ConstantFacts DEF AgentAsks, CInv, runVars, ipcVars, history, Stored
<1>1. TypeOK'
  <2>1. Results' = Results /\ outputs' \in Seq(Results)
    BY DEF Results, TypeOK
  <2> QED
    BY <2>1 DEF TypeOK
<1>2. NoOtherLoss'
  BY DEF NoOtherLoss, Accounted
<1>3. RunInv'
  BY DEF RunInv, Live
<1>4. CommandInv'
  BY DEF CommandInv
<1>5. AnsweredInv'
  BY DEF AnsweredInv
<1>6. EffectInv'
  BY DEF EffectInv, Missable, Live
<1>7. TurnInv'
  BY DEF TurnInv, Live
<1> QED
  BY <1>1, <1>2, <1>3, <1>4, <1>5, <1>6, <1>7

\* What the IPC watcher does to a request of the chat's agent.
WatcherStep ==
  \/ WatcherSchedules \/ WatcherActsUnmarked \/ WatcherCalls
  \/ CallTakesEffect \/ WatcherMarks \/ CallThrows

LEMMA WatcherFacts ==
  ASSUME CInv, WatcherStep
  PROVE  /\ UNCHANGED <<kind, stored, seen, cursor, inbox, closing, owed, failures, run,
                         prev, turn, streamed, outputs, replied, hadError, rejected,
                         history>>
         /\ asked' \in {"no", "now", "before"} /\ ipcCall' \in {"none", "made", "effective"}
         /\ effect' \in BOOLEAN /\ acted' \in BOOLEAN /\ loose' \in BOOLEAN
         /\ EffectInv'
<1> USE DEF CInv, TypeOK, EffectInv, Missable, Live, runVars, ipcVars, history
<1>1. CASE WatcherSchedules
  BY <1>1 DEF WatcherSchedules
<1>2. CASE WatcherActsUnmarked
  BY <1>2 DEF WatcherActsUnmarked
<1>3. CASE WatcherCalls
  BY <1>3 DEF WatcherCalls
<1>4. CASE CallTakesEffect
  BY <1>4 DEF CallTakesEffect
<1>5. CASE WatcherMarks
  BY <1>5 DEF WatcherMarks
<1>6. CASE CallThrows
  BY <1>6 DEF CallThrows
<1> QED
  BY <1>1, <1>2, <1>3, <1>4, <1>5, <1>6 DEF WatcherStep

LEMMA WatcherKeeps ==
  ASSUME CInv, WatcherStep
  PROVE  CInv'
<1>w. /\ UNCHANGED <<kind, stored, seen, cursor, inbox, closing, owed, failures, run,
                      prev, turn, streamed, outputs, replied, hadError, rejected,
                      history>>
      /\ asked' \in {"no", "now", "before"} /\ ipcCall' \in {"none", "made", "effective"}
      /\ effect' \in BOOLEAN /\ acted' \in BOOLEAN /\ loose' \in BOOLEAN
      /\ EffectInv'
  BY WatcherFacts
<1> USE <1>w DEF CInv, history, Stored
<1>1. TypeOK'
  <2>1. Results' = Results /\ outputs' \in Seq(Results)
    BY DEF Results, TypeOK
  <2> QED
    BY <2>1 DEF TypeOK
<1>2. NoOtherLoss'
  BY DEF NoOtherLoss, Accounted
<1>3. RunInv'
  BY DEF RunInv, Live
<1>4. CommandInv'
  BY DEF CommandInv
<1>5. AnsweredInv'
  BY DEF AnsweredInv
<1>6. TurnInv'
  BY DEF TurnInv, Live
<1> QED
  BY <1>1, <1>2, <1>3, <1>4, <1>5, <1>6

LEMMA TurnCompletesKeeps ==
  ASSUME CInv, TurnCompletes
  PROVE  CInv'
<1> USE ConstantFacts DEF TurnCompletes, CInv, runVars, ipcVars, history, Stored
<1> DEFINE r == [msgs |-> turn, ok |-> TRUE]
<1>a. r \in Results /\ r.msgs = turn /\ outputs' = Append(outputs, r)
  BY DEF TypeOK, Results
<1>b. /\ outputs' \in Seq(Results)
      /\ \A i \in 1..Len(outputs') :
           (i \in 1..Len(outputs) /\ outputs'[i] = outputs[i]) \/ outputs'[i].msgs = turn
  BY <1>a, OutputsAppended
<1> HIDE DEF r
<1>1. TypeOK'
  <2>1. Results' = Results /\ outputs' \in Seq(Results)
    BY <1>b DEF Results, TypeOK
  <2>2. /\ run' \in Phases /\ turn' \subseteq Stored /\ served' \subseteq Stored
        /\ answered' \subseteq served' /\ closing' \in BOOLEAN /\ streamed' \in BOOLEAN
    BY DEF TypeOK, Phases
  <2> QED
    BY <2>1, <2>2 DEF TypeOK
<1>2. NoOtherLoss'
  BY DEF NoOtherLoss, Accounted
<1>3. RunInv'
  BY DEF RunInv, Live
<1>4. CommandInv'
  BY DEF CommandInv
<1>5. AnsweredInv'
  BY DEF AnsweredInv
<1>6. EffectInv'
  BY DEF EffectInv, Missable, Live
<1>7. TurnInv'
  BY DEF TurnInv, Live
<1> QED
  BY <1>1, <1>2, <1>3, <1>4, <1>5, <1>6, <1>7

LEMMA TurnFailsKeeps ==
  ASSUME CInv, TurnFails
  PROVE  CInv'
<1> USE ConstantFacts DEF TurnFails, CInv, runVars, ipcVars, history, Stored
<1> DEFINE r == [msgs |-> {}, ok |-> FALSE]
<1>a. r \in Results /\ r.msgs = {} /\ outputs' = Append(outputs, r)
  BY DEF Results
<1>b. /\ outputs' \in Seq(Results)
      /\ \A i \in 1..Len(outputs') :
           (i \in 1..Len(outputs) /\ outputs'[i] = outputs[i]) \/ outputs'[i].msgs = {}
  BY <1>a, OutputsAppended
<1> HIDE DEF r
<1>1. TypeOK'
  <2>1. Results' = Results /\ outputs' \in Seq(Results)
    BY <1>b DEF Results, TypeOK
  <2>2. run' \in Phases /\ streamed' \in BOOLEAN
    BY DEF TypeOK, Phases
  <2> QED
    BY <2>1, <2>2 DEF TypeOK
<1>2. NoOtherLoss'
  BY DEF NoOtherLoss, Accounted
<1>3. RunInv'
  BY DEF RunInv, Live
<1>4. CommandInv'
  BY DEF CommandInv
<1>5. AnsweredInv'
  BY DEF AnsweredInv
<1>6. EffectInv'
  BY DEF EffectInv, Missable, Live
<1>7. TurnInv'
  BY DEF TurnInv, Live
<1> QED
  BY <1>1, <1>2, <1>3, <1>4, <1>5, <1>6, <1>7

LEMMA IdleExitsKeeps ==
  ASSUME CInv, IdleExits
  PROVE  CInv'
<1> USE ConstantFacts DEF IdleExits, CInv, runVars, ipcVars, history, Stored
<1>1. TypeOK'
  <2>1. Results' = Results /\ outputs' \in Seq(Results)
    BY DEF Results, TypeOK
  <2>2. /\ run' \in Phases /\ closing' \in BOOLEAN
    BY DEF TypeOK, Phases
  <2> QED
    BY <2>1, <2>2 DEF TypeOK
<1>2. NoOtherLoss'
  BY DEF NoOtherLoss, Accounted
<1>3. RunInv'
  BY DEF RunInv, Live
<1>4. CommandInv'
  BY DEF CommandInv
<1>5. AnsweredInv'
  BY DEF AnsweredInv
<1>6. EffectInv'
  BY DEF EffectInv, Missable, Live
<1>7. TurnInv'
  BY DEF TurnInv, Live
<1> QED
  BY <1>1, <1>2, <1>3, <1>4, <1>5, <1>6, <1>7

LEMMA IdleResumesKeeps ==
  ASSUME CInv, IdleResumes
  PROVE  CInv'
<1> USE ConstantFacts DEF IdleResumes, CInv, runVars, ipcVars, history, Stored
<1>1. TypeOK'
  <2>1. Results' = Results /\ outputs' \in Seq(Results)
    BY DEF Results, TypeOK
  <2>2. run' \in Phases /\ turn' \subseteq Stored /\ inbox' \subseteq Stored
    BY DEF TypeOK, Phases
  <2> QED
    BY <2>1, <2>2 DEF TypeOK
<1>2. NoOtherLoss'
  BY DEF NoOtherLoss, Accounted, TurnInv
<1>3. RunInv'
  BY DEF TypeOK, RunInv, Live
<1>4. CommandInv'
  BY DEF CommandInv
<1>5. AnsweredInv'
  BY DEF AnsweredInv
<1>6. EffectInv'
  BY DEF EffectInv, Missable, Live
<1>7. TurnInv'
  BY DEF TurnInv, Live
<1> QED
  BY <1>1, <1>2, <1>3, <1>4, <1>5, <1>6, <1>7

LEMMA CloseKeeps ==
  ASSUME CInv, Close
  PROVE  CInv'
<1> USE ConstantFacts DEF Close, CInv, runVars, ipcVars, history, Stored
<1>1. TypeOK'
  <2>1. Results' = Results /\ outputs' \in Seq(Results)
    BY DEF Results, TypeOK
  <2> QED
    BY <2>1 DEF TypeOK
<1>2. NoOtherLoss'
  BY DEF NoOtherLoss, Accounted
<1>3. RunInv'
  BY DEF RunInv, Live
<1>4. CommandInv'
  BY DEF CommandInv
<1>5. AnsweredInv'
  BY DEF AnsweredInv
<1>6. EffectInv'
  BY DEF EffectInv, Missable, Live
<1>7. TurnInv'
  BY DEF TurnInv, Live
<1> QED
  BY <1>1, <1>2, <1>3, <1>4, <1>5, <1>6, <1>7

LEMMA TimesOutKeeps ==
  ASSUME CInv, TimesOut
  PROVE  CInv'
<1> USE ConstantFacts DEF TimesOut, CInv, runVars, ipcVars, history, Stored
<1>1. TypeOK'
  <2>1. Results' = Results /\ outputs' \in Seq(Results)
    BY DEF Results, TypeOK
  <2>2. run' \in Phases
    BY DEF TypeOK, Phases
  <2> QED
    BY <2>1, <2>2 DEF TypeOK
<1>2. NoOtherLoss'
  BY DEF NoOtherLoss, Accounted
<1>3. RunInv'
  BY DEF RunInv, Live
<1>4. CommandInv'
  BY DEF CommandInv
<1>5. AnsweredInv'
  BY DEF AnsweredInv
<1>6. EffectInv'
  BY DEF EffectInv, Missable, Live
<1>7. TurnInv'
  BY DEF TurnInv, Live
<1> QED
  BY <1>1, <1>2, <1>3, <1>4, <1>5, <1>6, <1>7

LEMMA HandleOutputKeeps ==
  ASSUME CInv, HandleOutput
  PROVE  CInv'
<1> USE ConstantFacts DEF HandleOutput, CInv, runVars, ipcVars, history, Stored
<1>a. /\ outputs # <<>> /\ outputs' = Tail(outputs)
      /\ answered' \subseteq answered \cup Head(outputs).msgs
      /\ answered' = answered \/ replied'
      /\ replied => replied'
      /\ Head(outputs).msgs \subseteq served
      /\ Live
      /\ \A m \in Head(outputs).msgs : m <= cursor
  BY DEF AnsweredInv, RunInv, TurnInv
<1>b. /\ Head(outputs).msgs \subseteq Stored
      /\ Tail(outputs) \in Seq(Results)
      /\ \A i \in 1..Len(Tail(outputs)) :
           i + 1 \in 1..Len(outputs) /\ Tail(outputs)[i] = outputs[i + 1]
  BY HeadFacts
<1>1. TypeOK'
  <2>1. outputs' \in Seq(Results') /\ Stored' = Stored
    BY <1>a, <1>b, ResultsKeep
  <2>2. answered' \subseteq served' /\ replied' \in BOOLEAN /\ hadError' \in BOOLEAN
    BY <1>a DEF TypeOK
  <2> QED
    BY <2>1, <2>2 DEF TypeOK
<1>2. NoOtherLoss'
  BY DEF NoOtherLoss, Accounted
<1>3. RunInv'
  BY <1>a DEF RunInv
<1>4. CommandInv'
  BY <1>a DEF CommandInv, Live
<1>5. AnsweredInv'
  BY <1>a DEF AnsweredInv
<1>6. EffectInv'
  BY DEF EffectInv, Missable, Live
<1>7. TurnInv'
  BY DEF TurnInv, Live
<1> QED
  BY <1>1, <1>2, <1>3, <1>4, <1>5, <1>6, <1>7

LEMMA SendFailsKeeps ==
  ASSUME CInv, SendFails
  PROVE  CInv'
<1> USE ConstantFacts DEF SendFails, CInv, runVars, ipcVars, history, Stored
<1>1. TypeOK'
  <2>1. Results' = Results /\ outputs' \in Seq(Results)
    BY DEF Results, TypeOK
  <2> QED
    BY <2>1 DEF TypeOK
<1>2. NoOtherLoss'
  BY DEF NoOtherLoss, Accounted
<1>3. RunInv'
  BY DEF RunInv, Live
<1>4. CommandInv'
  BY DEF CommandInv
<1>5. AnsweredInv'
  BY DEF AnsweredInv
<1>6. EffectInv'
  BY DEF EffectInv, Missable, Live
<1>7. TurnInv'
  BY DEF TurnInv, Live
<1> QED
  BY <1>1, <1>2, <1>3, <1>4, <1>5, <1>6, <1>7

-----------------------------------------------------------------------------
(* The end of a run *)

LEMMA RunSucceedsKeeps ==
  ASSUME CInv, RunSucceeds
  PROVE  CInv'
<1> USE ConstantFacts DEF RunSucceeds, CInv, runVars, ipcVars, history, Stored, Succeeded, Reset
<1>1. TypeOK'
  <2>1. Reset /\ dropped' \subseteq Stored
    BY DEF TypeOK, Drop
  <2>2. /\ UNCHANGED <<kind, stored, seen, inbox, closing>>
        /\ cursor' \in 0..stored /\ failures' \in 0..MaxRetries
        /\ owed' \in BOOLEAN /\ effect' \in BOOLEAN
        /\ ipcCall' \in {"none", "made", "effective"}
        /\ served' \subseteq Stored /\ answered' \subseteq served'
    BY DEF TypeOK
  <2> HIDE DEF Reset, Stored
  <2> QED
    BY <2>1, <2>2, ResetTypes
<1>2. NoOtherLoss'
  BY DEF NoOtherLoss, Accounted, Drop
<1>3. RunInv'
  BY DEF RunInv, Live
<1>4. CommandInv'
  BY DEF CommandInv
<1>5. AnsweredInv'
  BY DEF AnsweredInv
<1>6. EffectInv'
  BY DEF EffectInv, Missable
<1>7. TurnInv'
  BY DEF TurnInv
<1> QED
  BY <1>1, <1>2, <1>3, <1>4, <1>5, <1>6, <1>7

LEMMA RunGivesUpKeeps ==
  ASSUME CInv, RunGivesUp
  PROVE  CInv'
<1> USE ConstantFacts DEF RunGivesUp, CInv, runVars, ipcVars, history, Stored, Broken, Failed, Succeeded, Reset
<1>1. TypeOK'
  <2>1. Reset /\ dropped' \subseteq Stored
    BY DEF TypeOK, Drop
  <2>2. /\ UNCHANGED <<kind, stored, seen, inbox, closing>>
        /\ cursor' \in 0..stored /\ failures' \in 0..MaxRetries
        /\ owed' \in BOOLEAN /\ effect' \in BOOLEAN
        /\ ipcCall' \in {"none", "made", "effective"}
        /\ served' \subseteq Stored /\ answered' \subseteq served'
    BY DEF TypeOK
  <2> HIDE DEF Reset, Stored
  <2> QED
    BY <2>1, <2>2, ResetTypes
<1>2. NoOtherLoss'
  BY DEF NoOtherLoss, Accounted, Drop
<1>3. RunInv'
  BY DEF RunInv, Live
<1>4. CommandInv'
  BY DEF CommandInv
<1>5. AnsweredInv'
  BY DEF AnsweredInv
<1>6. EffectInv'
  BY DEF EffectInv, Missable
<1>7. TurnInv'
  BY DEF TurnInv
<1> QED
  BY <1>1, <1>2, <1>3, <1>4, <1>5, <1>6, <1>7

LEMMA RunRetriesKeeps ==
  ASSUME CInv, RunRetries
  PROVE  CInv'
<1> USE ConstantFacts DEF RunRetries, CInv, runVars, ipcVars, history, Stored, Broken, Failed, Succeeded, Unrepeatable, Reset
<1>a. failures' \in 0..MaxRetries /\ owed' \in BOOLEAN
  BY CountFailureFacts
<1>1. TypeOK'
  <2>1. Reset /\ dropped' \subseteq Stored
    BY <1>a DEF TypeOK, Drop
  <2>2. /\ UNCHANGED <<kind, stored, seen, inbox, closing>>
        /\ cursor' \in 0..stored /\ failures' \in 0..MaxRetries
        /\ owed' \in BOOLEAN /\ effect' \in BOOLEAN
        /\ ipcCall' \in {"none", "made", "effective"}
        /\ served' \subseteq Stored /\ answered' \subseteq served'
    BY <1>a DEF TypeOK
  <2> HIDE DEF Reset, Stored
  <2> QED
    BY <2>1, <2>2, ResetTypes
<1>2. NoOtherLoss'
  <2>1. Live /\ cursor' = prev /\ stored' = stored /\ inbox' = inbox /\ served' = served
    BY DEF Live
  <2>2. \A m \in turn : m <= prev => m \in dropped' \cup served \cup inbox
    BY <2>1 DEF Drop
  <2>3. dropped \subseteq dropped'
    BY DEF Drop
  <2>4. cursor \in Int /\ prev \in Int /\ stored \in Int
    BY DEF TypeOK
  <2> QED
    BY <2>1, <2>2, <2>3, <2>4 DEF NoOtherLoss, Accounted, RunInv
<1>3. RunInv'
  BY DEF RunInv, Live
<1>4. CommandInv'
  BY DEF CommandInv
<1>5. AnsweredInv'
  BY DEF AnsweredInv, RunInv, Live
<1>6. EffectInv'
  BY DEF EffectInv, Missable
<1>7. TurnInv'
  BY DEF TurnInv
<1> QED
  BY <1>1, <1>2, <1>3, <1>4, <1>5, <1>6, <1>7

LEMMA CommandThrowsKeeps ==
  ASSUME CInv, CommandThrows
  PROVE  CInv'
<1> USE ConstantFacts DEF CommandThrows, CInv, runVars, ipcVars, history, Stored, Reset
<1>a. failures' \in 0..MaxRetries /\ owed' \in BOOLEAN
  BY CountFailureFacts
<1>1. TypeOK'
  <2>1. Reset /\ dropped' \subseteq Stored
    BY <1>a DEF TypeOK, Drop
  <2>2. /\ UNCHANGED <<kind, stored, seen, inbox, closing>>
        /\ cursor' \in 0..stored /\ failures' \in 0..MaxRetries
        /\ owed' \in BOOLEAN /\ effect' \in BOOLEAN
        /\ ipcCall' \in {"none", "made", "effective"}
        /\ served' \subseteq Stored /\ answered' \subseteq served'
    BY <1>a DEF TypeOK
  <2> HIDE DEF Reset, Stored
  <2> QED
    BY <2>1, <2>2, ResetTypes
<1>2. NoOtherLoss'
  BY DEF TypeOK, NoOtherLoss, Accounted, Drop
<1>3. RunInv'
  BY DEF RunInv, Live
<1>4. CommandInv'
  BY DEF CommandInv
<1>5. AnsweredInv'
  BY DEF AnsweredInv
<1>6. EffectInv'
  BY DEF EffectInv, Missable
<1>7. TurnInv'
  BY DEF TurnInv
<1> QED
  BY <1>1, <1>2, <1>3, <1>4, <1>5, <1>6, <1>7

LEMMA CrashAndRecoverKeeps ==
  ASSUME CInv, CrashAndRecover
  PROVE  CInv'
<1> USE ConstantFacts DEF CrashAndRecover, CInv, runVars, ipcVars, history, Stored, Reset
<1>1. TypeOK'
  <2>1. Reset /\ dropped' \subseteq Stored
    BY DEF TypeOK, Drop
  <2>2. /\ UNCHANGED <<kind, stored, seen, inbox, closing>>
        /\ cursor' \in 0..stored /\ failures' \in 0..MaxRetries
        /\ owed' \in BOOLEAN /\ effect' \in BOOLEAN
        /\ ipcCall' \in {"none", "made", "effective"}
        /\ served' \subseteq Stored /\ answered' \subseteq served'
    BY DEF TypeOK
  <2> HIDE DEF Reset, Stored
  <2> QED
    BY <2>1, <2>2, ResetTypes
<1>2. NoOtherLoss'
  BY DEF NoOtherLoss, Accounted, Drop
<1>3. RunInv'
  BY DEF RunInv, Live
<1>4. CommandInv'
  BY DEF CommandInv
<1>5. AnsweredInv'
  BY DEF AnsweredInv
<1>6. EffectInv'
  BY DEF EffectInv, Missable
<1>7. TurnInv'
  BY DEF TurnInv
<1> QED
  BY <1>1, <1>2, <1>3, <1>4, <1>5, <1>6, <1>7

-----------------------------------------------------------------------------
(* The beginning of a run *)

LEMMA CheckFindsNothingKeeps ==
  ASSUME CInv, CheckFindsNothing
  PROVE  CInv'
<1> USE ConstantFacts DEF CheckFindsNothing, CInv, runVars, ipcVars, history, Stored
<1>1. TypeOK'
  <2>1. Results' = Results /\ outputs' \in Seq(Results)
    BY DEF Results, TypeOK
  <2>2. owed' \in BOOLEAN /\ failures' \in 0..MaxRetries
    OBVIOUS
  <2> QED
    BY <2>1, <2>2 DEF TypeOK
<1>2. NoOtherLoss'
  BY DEF NoOtherLoss, Accounted
<1>3. RunInv'
  BY DEF RunInv, Live
<1>4. CommandInv'
  BY DEF CommandInv
<1>5. AnsweredInv'
  BY DEF AnsweredInv
<1>6. EffectInv'
  BY DEF EffectInv, Missable, Live
<1>7. TurnInv'
  BY DEF TurnInv, Live
<1> QED
  BY <1>1, <1>2, <1>3, <1>4, <1>5, <1>6, <1>7

LEMMA StartRunKeeps ==
  ASSUME CInv, StartRun
  PROVE  CInv'
<1> USE ConstantFacts DEF StartRun, CInv, runVars, ipcVars, history, Stored
<1> DEFINE missed == Since(cursor)
<1>a. /\ missed \in SUBSET Stored /\ Newest(missed) = stored /\ stored \in missed
      /\ Begin(missed) /\ \A m \in missed : m > cursor
  BY SinceFacts DEF TypeOK
<1>b. /\ cursor' = stored /\ prev' = cursor /\ turn' = missed /\ outputs' = <<>>
      /\ dropped' = dropped \cup ((Passed(stored) \ missed) \ (served \cup inbox \cup dropped))
  BY <1>a DEF Begin, Drop
<1> HIDE DEF missed
<1>1. TypeOK'
  <2>1. dropped' \subseteq Stored /\ owed' \in BOOLEAN
    BY <1>a, <1>b DEF TypeOK, Passed
  <2>2. missed \in SUBSET Stored /\ Newest(missed) \in Stored /\ Begin(missed)
    BY <1>a, <1>b DEF TypeOK
  <2> HIDE DEF Begin, Stored
  <2> QED
    BY <2>1, <2>2, BeginTypes
<1>2. NoOtherLoss'
  BY <1>b DEF NoOtherLoss, Accounted, TurnInv, Passed
<1>3. RunInv'
  BY <1>a, <1>b DEF TypeOK, RunInv, AnsweredInv
<1>4. CommandInv'
  BY DEF CommandInv, Begin
<1>5. AnsweredInv'
  BY <1>b DEF TypeOK, AnsweredInv
<1>6. EffectInv'
  BY DEF EffectInv, Missable, Live, Begin
<1>7. TurnInv'
  BY DEF TurnInv, Begin
<1> QED
  BY <1>1, <1>2, <1>3, <1>4, <1>5, <1>6, <1>7

LEMMA StartCommandKeeps ==
  ASSUME CInv, StartCommand
  PROVE  CInv'
<1> USE ConstantFacts DEF StartCommand, CInv, ipcVars, history, Stored
<1> DEFINE missed == Since(cursor)
<1>a. /\ missed \in SUBSET Stored /\ stored \in missed /\ turn' = missed
      /\ \A m \in missed : m > cursor
  BY SinceFacts DEF TypeOK, IsCommand
<1> HIDE DEF missed
<1>1. TypeOK'
  <2>1. outputs' \in Seq(Results') /\ Stored' = Stored /\ turn' \subseteq Stored
    BY ResultsKeep, <1>a DEF TypeOK
  <2>2. run' \in Phases /\ owed' \in BOOLEAN
    BY DEF Phases
  <2> HIDE DEF Stored
  <2> QED
    BY <2>1, <2>2 DEF TypeOK
<1>2. NoOtherLoss'
  BY DEF NoOtherLoss, Accounted, TurnInv
<1>3. RunInv'
  BY DEF RunInv, Live
<1>4. CommandInv'
  BY <1>a DEF TypeOK, CommandInv, AnsweredInv
<1>5. AnsweredInv'
  BY DEF AnsweredInv
<1>6. EffectInv'
  BY DEF EffectInv, Missable, Live
<1>7. TurnInv'
  BY DEF TurnInv, Live
<1> QED
  BY <1>1, <1>2, <1>3, <1>4, <1>5, <1>6, <1>7

\* The cursor returns to where the command was read, or stays before it.
LEMMA CommandFallsBackKeeps ==
  ASSUME CInv, CommandFallsBack
  PROVE  CInv'
<1> USE ConstantFacts DEF CommandFallsBack, CInv, history, Stored, Begin
<1>t. PICK top \in turn : \A m \in turn \cup inbox \cup answered : m <= top
  BY DEF CommandInv
<1>n. Newest(turn) = top /\ top \in Stored /\ stored \in Nat /\ turn \in SUBSET Stored
  <2>1. turn \in SUBSET Nat /\ top \in Stored /\ stored \in Nat /\ turn \in SUBSET Stored
    BY DEF TypeOK
  <2> QED
    BY <1>t, <2>1, NewestIsTop
<1>b. /\ cursor' = top /\ prev' = cursor /\ turn' = turn /\ outputs' = <<>>
      /\ dropped' = dropped \cup ((Passed(top) \ turn) \ (served \cup inbox \cup dropped))
  BY <1>n DEF Drop
<1>1. TypeOK'
  <2>1. dropped' \subseteq Stored /\ owed' \in BOOLEAN
    BY <1>t, <1>n, <1>b DEF TypeOK, Passed
  <2>2. turn \in SUBSET Stored /\ Newest(turn) \in Stored /\ Begin(turn)
    BY <1>t, <1>n, <1>b DEF TypeOK
  <2> HIDE DEF Begin, Stored
  <2> QED
    BY <2>1, <2>2, BeginTypes
<1>2. NoOtherLoss'
  BY <1>n, <1>b DEF NoOtherLoss, Accounted, Passed
<1>3. RunInv'
  BY <1>t, <1>b DEF TypeOK, NoOtherLoss, Accounted, RunInv, AnsweredInv
<1>4. CommandInv'
  BY DEF CommandInv
<1>5. AnsweredInv'
  BY <1>t, <1>b DEF TypeOK, AnsweredInv
<1>6. EffectInv'
  BY DEF EffectInv, Missable, Live
<1>7. TurnInv'
  BY DEF TurnInv
<1> QED
  BY <1>1, <1>2, <1>3, <1>4, <1>5, <1>6, <1>7

LEMMA CommandServedKeeps ==
  ASSUME CInv, CommandServed
  PROVE  CInv'
<1> USE ConstantFacts DEF CommandServed, CInv, history, Stored, Reset
<1>t. PICK top \in turn : \A m \in turn \cup inbox \cup answered : m <= top
  BY DEF CommandInv
<1>n. Newest(turn) = top /\ top \in Stored /\ stored \in Nat /\ turn \in SUBSET Stored
  <2>1. turn \in SUBSET Nat /\ top \in Stored /\ stored \in Nat /\ turn \in SUBSET Stored
    BY DEF TypeOK
  <2> QED
    BY <1>t, <2>1, NewestIsTop
<1>b. PICK taken \in {turn, {top}} :
        /\ served' = served \cup taken
        /\ dropped' = dropped \cup
             (((Passed(top) \cup turn) \ taken) \ (served \cup inbox \cup dropped))
  BY <1>n DEF Drop
<1>c. taken \subseteq turn /\ cursor' = top
  BY <1>n
<1>1. TypeOK'
  <2>1. Reset /\ dropped' \subseteq Stored
    BY <1>t, <1>n, <1>b, <1>c DEF TypeOK, Drop, Passed
  <2>2. /\ UNCHANGED <<kind, stored, seen, inbox, closing>>
        /\ cursor' \in 0..stored /\ failures' \in 0..MaxRetries
        /\ owed' \in BOOLEAN /\ effect' \in BOOLEAN
        /\ ipcCall' \in {"none", "made", "effective"}
        /\ served' \subseteq Stored /\ answered' \subseteq served'
    BY <1>t, <1>n, <1>b, <1>c DEF TypeOK
  <2> HIDE DEF Reset, Stored
  <2> QED
    BY <2>1, <2>2, ResetTypes
<1>2. NoOtherLoss'
  BY <1>n, <1>b DEF NoOtherLoss, Accounted, Passed
<1>3. RunInv'
  BY DEF RunInv, Live
<1>4. CommandInv'
  BY DEF CommandInv
<1>5. AnsweredInv'
  BY <1>t, <1>c DEF TypeOK, AnsweredInv
<1>6. EffectInv'
  BY DEF EffectInv, Missable
<1>7. TurnInv'
  BY DEF TurnInv
<1> QED
  BY <1>1, <1>2, <1>3, <1>4, <1>5, <1>6, <1>7

-----------------------------------------------------------------------------
(* The polling loop *)

\* Whatever the loop hands out or skips, the cursor ends at the newest message.
LEMMA PollCursor ==
  ASSUME CInv, NEW new, new = {m \in Stored : m > seen}, new # {}
  PROVE  /\ Newest(new) = stored /\ new \in SUBSET Stored
         /\ Newest(ToSend(new)) = stored /\ ToSend(new) \in SUBSET Stored
<1>1. TypeOK /\ cursor \in Int
  BY DEF CInv, TypeOK
<1>2. Newest(new) = stored /\ new \in SUBSET Stored
  BY <1>1, NewFacts
<1>3. CASE Since(cursor) # {}
  BY <1>1, <1>2, SinceFacts DEF ToSend
<1>4. CASE Since(cursor) = {}
  BY <1>2, <1>4 DEF ToSend
<1> QED
  BY <1>2, <1>3, <1>4

LEMMA PollKeeps ==
  ASSUME CInv, Poll
  PROVE  CInv'
<1> DEFINE new == {m \in Stored : m > seen}
           sent == ToSend(new)
<1>a. /\ new # {} /\ seen' = stored /\ sent \in SUBSET Stored
      /\ Newest(new) = stored /\ Newest(sent) = stored
  BY PollCursor DEF Poll
<1>u. UNCHANGED <<kind, stored, closing, failures, runVars, ipcVars, served, answered>>
  BY DEF Poll
<1>p. PollIgnores(new) \/ PollSkipsAcks(new) \/ PollPipes(new) \/ PollEnqueues(new)
  BY DEF Poll
<1> HIDE DEF new, sent
<1>o. owed' \in BOOLEAN
  BY <1>p DEF CInv, TypeOK, PollIgnores, PollSkipsAcks, PollPipes, PollEnqueues
\* Nothing moves, the cursor skips, or the cursor passes what is piped.
<1>q. \/ UNCHANGED <<cursor, inbox, dropped>>
      \/ /\ cursor' = stored /\ inbox' = inbox
         /\ dropped' = dropped \cup ((Passed(stored) \ turn) \ (served \cup inbox \cup dropped))
      \/ /\ cursor' = stored /\ inbox' = inbox \cup sent /\ Live
         /\ dropped' = dropped \cup ((Passed(stored) \ sent) \ (served \cup inbox \cup dropped))
  BY <1>a, <1>p
  DEF PollIgnores, PollSkipsAcks, PollPipes, PollEnqueues, Piping, Live, Drop, sent
<1> USE ConstantFacts DEF CInv, runVars, Stored
<1>1. TypeOK'
  <2>1. outputs' \in Seq(Results') /\ Stored' = Stored
    BY <1>u, ResultsKeep DEF TypeOK
  <2>2. seen' \in 0..stored /\ cursor' \in 0..stored
    BY <1>a, <1>q, ConstantFacts DEF TypeOK
  <2>3. inbox' \subseteq Stored
    BY <1>a, <1>q DEF TypeOK
  <2>4. dropped' \subseteq Stored
    BY <1>a, <1>q DEF TypeOK, Passed
  <2> HIDE DEF Stored
  <2> QED
    BY <1>u, <1>o, <2>1, <2>2, <2>3, <2>4 DEF TypeOK, ipcVars
<1>2. NoOtherLoss'
  BY <1>u, <1>q DEF NoOtherLoss, Accounted, Passed
<1>3. RunInv'
  <2>1. SUFFICES ASSUME Live PROVE RunInv'
    BY <1>u DEF RunInv, Live
  <2>2. /\ stored \in Nat /\ cursor \in Nat /\ cursor <= stored /\ prev \in Nat
        /\ \A m \in sent \cup turn \cup inbox : m \in Int /\ m <= stored
    BY <1>a DEF TypeOK
  <2>3. CASE UNCHANGED <<cursor, inbox, dropped>>
    BY <1>u, <2>3 DEF RunInv, Live
  <2>4. CASE cursor' = stored
    <3>1. \A m \in turn' \cup inbox' : m <= cursor'
      BY <1>u, <1>q, <2>2, <2>4
    <3>2. \A k \in 1..Len(outputs') : \A m \in outputs'[k].msgs : m <= cursor'
      <4>1. \A k \in 1..Len(outputs) : \A m \in outputs[k].msgs : m \in Int /\ m <= stored
        <5>1. \A k \in 1..Len(outputs) : outputs[k].msgs \subseteq served
          BY DEF AnsweredInv
        <5>2. served \subseteq Stored
          BY DEF TypeOK
        <5>3. \A m \in Stored : m \in Int /\ m <= stored
          BY <2>2
        <5> QED
          BY <5>1, <5>2, <5>3
      <4> QED
        BY <1>u, <2>4, <4>1
    <3>3. ~replied' => \A m \in answered' : m <= prev'
      BY <1>u, <2>1 DEF RunInv
    <3>4. \A m \in Stored' : ~(m > cursor')
      BY <1>u, <2>2, <2>4
    <3> QED
      BY <3>1, <3>2, <3>3, <3>4 DEF RunInv
  <2> QED
    BY <1>q, <2>3, <2>4
<1>4. CommandInv'
  BY <1>u, <1>q DEF CommandInv, Live
<1>5. AnsweredInv'
  BY <1>u, <1>q DEF TypeOK, AnsweredInv
<1>6. EffectInv'
  BY <1>u DEF EffectInv, Missable, Live, ipcVars
<1>7. TurnInv'
  BY <1>u DEF TurnInv, Live
<1> QED
  BY <1>1, <1>2, <1>3, <1>4, <1>5, <1>6, <1>7

-----------------------------------------------------------------------------
(* The theorems *)

LEMMA InitCInv == Init => CInv
<1> SUFFICES ASSUME Init PROVE CInv
  OBVIOUS
<1> USE ConstantFacts DEF Init
<1>1. TypeOK
  <2>1. kind \in [Messages -> Kinds] /\ run \in Phases /\ outputs \in Seq(Results)
    BY DEF Phases
  <2>2. /\ stored \in 0..LastMessage /\ seen \in 0..stored /\ cursor \in 0..stored
        /\ prev \in 0..stored /\ failures \in 0..MaxRetries
    OBVIOUS
  <2> QED
    BY <2>1, <2>2 DEF TypeOK
<1>2. NoOtherLoss /\ RunInv /\ CommandInv /\ AnsweredInv
  BY DEF NoOtherLoss, RunInv, CommandInv, AnsweredInv, Live, Stored
<1>3. EffectInv /\ TurnInv
  BY DEF EffectInv, Missable, TurnInv, Live
<1> QED
  BY <1>1, <1>2, <1>3 DEF CInv

LEMMA NextCInv == CInv /\ [Next]_vars => CInv'
<1> SUFFICES ASSUME CInv, [Next]_vars PROVE CInv'
  OBVIOUS
<1>1. CASE Arrive
  BY <1>1, ArriveKeeps
<1>2. CASE Poll
  BY <1>2, PollKeeps
<1>3. CASE CheckFindsNothing
  BY <1>3, CheckFindsNothingKeeps
<1>4. CASE StartRun
  BY <1>4, StartRunKeeps
<1>5. CASE StartCommand
  BY <1>5, StartCommandKeeps
<1>6. CASE Spawn
  BY <1>6, RunSpawnKeeps
<1>7. CASE Boot
  BY <1>7, BootKeeps
<1>8. CASE TurnCompletes
  BY <1>8, TurnCompletesKeeps
<1>9. CASE IdleExits
  BY <1>9, IdleExitsKeeps
<1>10. CASE IdleResumes
  BY <1>10, IdleResumesKeeps
<1>11. CASE RunSucceeds
  BY <1>11, RunSucceedsKeeps
<1>12. CASE RunGivesUp
  BY <1>12, RunGivesUpKeeps
<1>13. CASE RunRetries
  BY <1>13, RunRetriesKeeps
<1>14. CASE CommandServed
  BY <1>14, CommandServedKeeps
<1>15. CASE CommandFallsBack
  BY <1>15, CommandFallsBackKeeps
<1>16. CASE CommandThrows
  BY <1>16, CommandThrowsKeeps
<1>17. CASE AgentAsks
  BY <1>17, AgentAsksKeeps
<1>18. CASE WatcherStep
  BY <1>18, WatcherKeeps
<1>19. CASE TurnFails
  BY <1>19, TurnFailsKeeps
<1>20. CASE Close
  BY <1>20, CloseKeeps
<1>21. CASE TimesOut
  BY <1>21, TimesOutKeeps
<1>22. CASE HandleOutput
  BY <1>22, HandleOutputKeeps
<1>23. CASE SendFails
  BY <1>23, SendFailsKeeps
<1>24. CASE CrashAndRecover
  BY <1>24, CrashAndRecoverKeeps
<1>25. CASE UNCHANGED vars
  BY <1>25 DEF vars, runVars, ipcVars, history, CInv, TypeOK, Results, NoOtherLoss, Accounted,
       RunInv, CommandInv, AnsweredInv, EffectInv, Missable, TurnInv, Live, Stored
<1> QED
  BY <1>1, <1>2, <1>3, <1>4, <1>5, <1>6, <1>7, <1>8, <1>9,
     <1>10, <1>11, <1>12, <1>13, <1>14, <1>15, <1>16, <1>17, <1>18,
     <1>19, <1>20, <1>21, <1>22, <1>23, <1>24, <1>25 DEF Next, Check, Run, WatcherStep

\* The strengthening holds in every reachable state: where each message is, what
\* may lie on either side of the cursor, and who may be holding a request.
THEOREM InductiveInvariant == Spec => []CInv
  BY InitCInv, NextCInv, PTL DEF Spec

\* Every variable keeps its type: no cursor runs ahead of the database, no
\* retry counter leaves its bound, and a reply is only sent for a turn that
\* was completed.
THEOREM TypeCorrect == Spec => []TypeOK
<1>1. CInv => TypeOK
  BY DEF CInv
<1> QED
  BY <1>1, InductiveInvariant, PTL

\* However polling, piping, runs, rollbacks, kills and crashes interleave, a
\* stored message is before the cursor, with the agent, in its directory,
\* answered for by a completed turn, or written off at a place the code names.
THEOREM NothingElseLost == Spec => []NoOtherLoss
<1>1. CInv => NoOtherLoss
  BY DEF CInv
<1> QED
  BY <1>1, InductiveInvariant, PTL

\* Only a check and the fallback of a command launch a run.
LEMMA LaunchFresh ==
  ASSUME CInv, [Next]_vars, run # "launching", run' = "launching"
  PROVE  turn' \cap answered = {}
<1>1. CASE StartRun
  <2>1. cursor \in Int /\ answered \subseteq Int
    BY DEF CInv, TypeOK, Stored
  <2>2. turn' = Since(cursor) /\ \A m \in Since(cursor) : m > cursor
    BY <1>1 DEF StartRun, Begin, Since
  <2>3. \A m \in answered : m <= cursor
    BY DEF CInv, AnsweredInv
  <2>4. \A m \in answered : m \notin turn'
    BY <2>1, <2>2, <2>3
  <2> QED
    BY <2>4
<1>2. CASE CommandFallsBack
  BY <1>2 DEF CommandFallsBack, Begin, CInv, CommandInv
<1>3. StartRun \/ CommandFallsBack
  BY DEF Next, Check, Run, vars, runVars, ipcVars, history, Arrive, Poll, CheckFindsNothing,
       StartCommand, Spawn, Boot, TurnCompletes, IdleExits, IdleResumes, RunSucceeds,
       RunGivesUp, RunRetries, CommandServed, CommandThrows, Reset, AgentAsks,
       WatcherSchedules, WatcherActsUnmarked, WatcherCalls, CallTakesEffect,
       WatcherMarks, CallThrows, TurnFails, Close, TimesOut, HandleOutput, SendFails, CrashAndRecover
<1> QED
  BY <1>1, <1>2, <1>3

\* A run never takes up a message whose reply was sent: the rollback spares
\* runs that replied, and everything replied to lies before the cursor.
THEOREM FreshRuns == Spec => RunStartsFresh
<1>1. CInv /\ [Next]_vars =>
        [run # "launching" /\ run' = "launching" => turn' \cap answered = {}]_vars
  BY LaunchFresh
<1> QED
  BY <1>1, InductiveInvariant, PTL DEF Spec, RunStartsFresh

\* The cursor moves back in a retry, where no mark is found, and when a command read
\* before it is carried out or falls back, where no agent has asked for anything.
LEMMA RollbackHarmless ==
  ASSUME CInv, [Next]_vars, cursor' < cursor
  PROVE  acted => ~effect /\ Missable
<1>0. cursor \in 0..stored /\ stored \in Int
  BY ConstantFacts DEF CInv, TypeOK
<1>1. CASE RunRetries
  BY <1>1 DEF RunRetries, Unrepeatable, CInv, EffectInv
<1>2. CASE CommandServed \/ CommandFallsBack
  BY <1>2 DEF CommandServed, CommandFallsBack, CInv, EffectInv, Live
<1>3. CASE Poll
  <2> DEFINE new == {m \in Stored : m > seen}
  <2>1. new # {} /\ cursor' \in {cursor, Newest(new), Newest(ToSend(new))}
    BY <1>3 DEF Poll, PollIgnores, PollSkipsAcks, PollPipes, PollEnqueues
  <2> HIDE DEF new
  <2>2. cursor' \in {cursor, stored}
    BY <2>1, PollCursor DEF new
  <2> QED
    BY <1>0, <2>2
<1>4. CASE StartRun
  BY <1>0, <1>4, SinceFacts DEF StartRun, Begin, CInv
<1>5. RunRetries \/ CommandServed \/ CommandFallsBack \/ Poll \/ StartRun \/ cursor' = cursor
  BY DEF Next, Check, Run, vars, runVars, ipcVars, history, Arrive, CheckFindsNothing,
       StartCommand, Spawn, Boot, TurnCompletes, IdleExits, IdleResumes, RunSucceeds,
       RunGivesUp, CommandThrows, AgentAsks, WatcherSchedules, WatcherActsUnmarked, WatcherCalls, CallTakesEffect,
       WatcherMarks, CallThrows, TurnFails, Close, TimesOut,
       HandleOutput, SendFails, CrashAndRecover
<1> QED
  BY <1>0, <1>1, <1>2, <1>3, <1>4, <1>5

\* A run that is rolled back, to be tried again, may repeat only an effect that is not
\* marked: of a call the watcher still awaits, of one that threw after it took effect, or of
\* a request of a kind the watcher never marks (ipc.ts, index.ts).
THEOREM OnlyUnmarkedRepeated == Spec => RepeatsUnmarkedOnly
<1>1. CInv /\ [Next]_vars =>
        [cursor' < cursor /\ acted => ~effect /\ Missable]_vars
  BY RollbackHarmless
<1> QED
  BY <1>1, InductiveInvariant, PTL DEF Spec, RepeatsUnmarkedOnly

-----------------------------------------------------------------------------
(* With a healthy agent *)

\* No agent fails and no process dies; every message asks for an answer or goes with one
\* that does, and a prompt has room for all of them.
Healthy ==
  /\ Faults \subseteq {"close", "write"}
  /\ Kinds \subseteq {"request", "chatter"}
  /\ LastMessage <= PromptLimit

\* No run is broken, and one that is over has nothing in hand.
HealthyInv ==
  /\ dropped = {}
  /\ run \notin {"command", "failed", "killed"} /\ (run = "exited" => turn = {})
  /\ ~hadError
  /\ \A i \in 1..Len(outputs) : outputs[i].ok

\* What the prompt takes is all that lies past the cursor.
LEMMA PromptTakesAll ==
  ASSUME Healthy, TypeOK
  PROVE  Since(cursor) = Passed(stored)
BY ChatMessagesAssumption DEF Healthy, TypeOK, Since, Passed, Stored

LEMMA KindKnown ==
  ASSUME TypeOK, NEW m \in Stored
  PROVE  kind[m] \in Kinds
<1>1. m \in Messages
  BY ChatMessagesAssumption DEF TypeOK, Stored, Messages
<1> QED
  BY <1>1 DEF TypeOK

LEMMA PollDropsNothing ==
  ASSUME Healthy, CInv, Poll, dropped = {}
  PROVE  dropped' = {}
<1> DEFINE new == {m \in Stored : m > seen}
<1>1. /\ new # {} /\ Newest(new) = stored /\ Newest(ToSend(new)) = stored
      /\ new \in SUBSET Stored
  BY PollCursor DEF Poll
<1>2. PollIgnores(new) \/ PollSkipsAcks(new) \/ PollPipes(new) \/ PollEnqueues(new)
  BY DEF Poll
<1> HIDE DEF new
<1>3. CASE PollSkipsAcks(new)
  <2>1. PICK m \in new : kind[m] = "ack"
    BY <1>1, <1>3 DEF PollSkipsAcks, AllAcks
  <2>2. kind[m] \in Kinds
    BY <1>1, <2>1, KindKnown DEF CInv
  <2> QED
    BY <2>1, <2>2 DEF Healthy
<1>4. CASE PollPipes(new)
  <2>1. Passed(stored) \ ToSend(new) = {}
    BY PromptTakesAll DEF CInv, ToSend
  <2> QED
    BY <1>1, <1>4, <2>1 DEF PollPipes, Drop
<1> QED
  BY <1>2, <1>3, <1>4 DEF PollIgnores, PollEnqueues

LEMMA StartDropsNothing ==
  ASSUME Healthy, CInv, StartRun, dropped = {}
  PROVE  dropped' = {}
<1>1. TypeOK /\ Since(cursor) # {} /\ cursor \in Int
  BY DEF StartRun, CInv, TypeOK
<1>2. Newest(Since(cursor)) = stored
  BY <1>1, SinceFacts
<1>3. Passed(stored) \ Since(cursor) = {}
  BY <1>1, PromptTakesAll
<1> QED
  BY <1>2, <1>3 DEF StartRun, Begin, Drop

\* No message is a command.
LEMMA NoCommand ==
  ASSUME Healthy, CInv
  PROVE  ~StartCommand
<1> SUFFICES ASSUME StartCommand PROVE FALSE
  OBVIOUS
<1>1. Since(cursor) # {} /\ TypeOK /\ cursor \in Int /\ kind[Newest(Since(cursor))] = "command"
  BY DEF StartCommand, IsCommand, CInv, TypeOK
<1>2. Newest(Since(cursor)) \in Stored
  BY <1>1, SinceFacts
<1>3. kind[Newest(Since(cursor))] \in Kinds
  BY <1>1, <1>2, KindKnown
<1> QED
  BY <1>1, <1>3 DEF Healthy

\* NothingDropped (startMessageLoop and processGroupMessages of src/src/index.ts): as
\* long as the agent is healthy, no interleaving of polling, piping, failed writes and
\* closing containers writes a message off.
THEOREM NothingWrittenOff == ASSUME Healthy PROVE Spec => []NothingDropped
<1>1. Init => HealthyInv
  BY DEF Init, HealthyInv
<1>2. CInv /\ HealthyInv /\ [Next]_vars => HealthyInv'
  <2> SUFFICES ASSUME CInv, HealthyInv, [Next]_vars PROVE HealthyInv'
    OBVIOUS
  <2>f. "agent" \notin Faults /\ "timeout" \notin Faults /\ "crash" \notin Faults
    BY DEF Healthy
  <2>1. CASE Poll
    BY <2>1, PollDropsNothing DEF Poll, runVars, HealthyInv
  <2>2. CASE StartRun
    <3>1. dropped' = {}
      BY <2>2, StartDropsNothing DEF HealthyInv
    <3>2. outputs' = <<>> /\ run' = "launching" /\ ~hadError'
      BY <2>2 DEF StartRun, Begin
    <3> QED
      BY <3>1, <3>2 DEF HealthyInv
  <2>3. CASE TurnCompletes
    <3> DEFINE r == [msgs |-> turn, ok |-> TRUE]
    <3>1. r \in Results /\ r.ok /\ outputs' = Append(outputs, r)
      BY <2>3 DEF CInv, TypeOK, Results, TurnCompletes
    <3> HIDE DEF r
    <3>2. \A i \in 1..Len(outputs') : outputs'[i].ok
      BY <3>1, OutputsAppended DEF CInv, HealthyInv
    <3> QED
      BY <2>3, <3>2 DEF TurnCompletes, HealthyInv
  <2>4. CASE HandleOutput
    <3>1. /\ Head(outputs) = outputs[1] /\ 1 \in 1..Len(outputs)
          /\ \A i \in 1..Len(Tail(outputs)) :
               i + 1 \in 1..Len(outputs) /\ Tail(outputs)[i] = outputs[i + 1]
      BY <2>4, HeadFacts DEF CInv, HandleOutput
    <3>2. Head(outputs).ok /\ \A i \in 1..Len(outputs') : outputs'[i].ok
      BY <2>4, <3>1 DEF HandleOutput, HealthyInv
    <3>3. ~hadError'
      BY <2>4, <3>2 DEF HandleOutput, HealthyInv
    <3> QED
      BY <2>4, <3>2, <3>3 DEF HandleOutput, HealthyInv
  <2>5. CASE RunSucceeds
    BY <2>5 DEF RunSucceeds, Succeeded, Drop, Reset, HealthyInv
  <2>6. CASE IdleExits
    BY <2>6 DEF IdleExits, history, CInv, TurnInv, HealthyInv
  <2>7. CASE Spawn \/ Boot \/ IdleResumes \/ Arrive \/ CheckFindsNothing \/ UNCHANGED vars
    BY <2>7 DEF Spawn, Boot, IdleResumes, Arrive, CheckFindsNothing, vars, runVars,
                history, HealthyInv
  <2>8. CASE AgentAsks \/ WatcherStep \/ Close \/ SendFails
    BY <2>8 DEF AgentAsks, Close, SendFails, WatcherStep, WatcherSchedules, WatcherActsUnmarked, WatcherCalls, CallTakesEffect,
        WatcherMarks, CallThrows, 
        runVars, ipcVars, history, HealthyInv
  <2>9. ~RunGivesUp /\ ~RunRetries /\ ~CommandServed /\ ~CommandThrows /\ ~CommandFallsBack
    BY DEF RunGivesUp, RunRetries, Broken, Failed, CommandServed, CommandThrows,
           CommandFallsBack, HealthyInv
  <2>10. ~TurnFails /\ ~TimesOut /\ ~CrashAndRecover
    BY <2>f DEF TurnFails, TimesOut, CrashAndRecover
  <2> QED
    BY <2>1, <2>2, <2>3, <2>4, <2>5, <2>6, <2>7, <2>8, <2>9, <2>10, NoCommand
    DEF Next, Check, Run, WatcherStep
<1>3. HealthyInv => NothingDropped
  BY DEF HealthyInv, NothingDropped
<1> QED
  BY <1>1, <1>2, <1>3, InductiveInvariant, PTL DEF Spec

=============================================================================
