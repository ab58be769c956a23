--------------------------- MODULE ServicesProofs ---------------------------
(***************************************************************************)
(* Proofs about the services of MCServices.  Each section has one of them: *)
(* the inductive invariant, one lemma or step for each action that         *)
(* disturbs it, and the theorem.                                           *)
(***************************************************************************)
EXTENDS MCServices, NumberLemmas, TLAPS

-----------------------------------------------------------------------------
(* A container's run *)

RunTypeInv ==
  /\ container \in [Attempts -> {"none", "running", "stopping", "exited", "closed"}]
  /\ exitCode \in [Attempts -> {0, 1}]
  /\ hardTimer \in [Attempts -> BOOLEAN]
  /\ timedOut \in [Attempts -> BOOLEAN]
  /\ printed \in [Attempts -> Nat]
  /\ chain \in [Attempts -> Seq(Results)]
  /\ sending \in [Attempts -> BOOLEAN]
  /\ wedged \in [Attempts -> BOOLEAN]
  /\ verdict \in [Attempts -> {"open", "success", "error"}]
  /\ settled \in [Attempts -> {"no", "done", "kept", "rolledBack"}]
  /\ sentToUser \in [Attempts -> BOOLEAN]
  /\ errorSeen \in [Attempts -> BOOLEAN]
  /\ request \in [Attempts -> {"no", "waiting", "done"}]
  /\ mark \in BOOLEAN
  /\ replies \in [Attempts -> Nat]
  /\ overtaken \in [Attempts -> BOOLEAN]
  /\ unseen \in [Attempts -> BOOLEAN]

\* A verdict comes with the container's end, and only a failure at once leaves results.
VerdictInv ==
  \A a \in Attempts :
    /\ container[a] = "none" => chain[a] = << >> /\ request[a] = "no"
    /\ verdict[a] # "open" => container[a] = "closed"
    /\ verdict[a] # "open" /\ chain[a] # << >> => overtaken[a] /\ verdict[a] = "error"
    /\ settled[a] # "no" => verdict[a] # "open"
    /\ sending[a] => chain[a] # << >>

\* The attempts follow each other.
AttemptInv ==
  \A a, b \in Attempts :
    b < a /\ (container[a] # "none" \/ verdict[a] # "open") => settled[b] = "rolledBack"

\* What a rollback has to see, and what it leaves unseen.
RollbackInv ==
  \A a \in Attempts :
    /\ replies[a] > 0 => sentToUser[a]
    /\ settled[a] = "rolledBack" /\ replies[a] > 0 => overtaken[a]
    /\ settled[a] = "no" /\ request[a] = "done" => mark
    /\ settled[a] = "rolledBack" /\ request[a] # "no" => unseen[a]

RunInv ==
  /\ RunTypeInv
  /\ VerdictInv
  /\ AttemptInv
  /\ RollbackInv
  /\ TimerFollowsContainer

LEMMA StartKeeps ==
  ASSUME RunInv, NEW a \in Attempts, SpawnContainer(a) \/ SpawnBreaks(a)
  PROVE  RunInv'
<1> USE DEF RunInv
<1>1. /\ container[a] = "none" /\ verdict[a] = "open" /\ Launched(a)
      /\ \/ /\ container' = [container EXCEPT ![a] = "running"]
            /\ hardTimer' = [hardTimer EXCEPT ![a] = TRUE]
            /\ verdict' = verdict
         \/ /\ container' = [container EXCEPT ![a] = "closed"]
            /\ verdict' = [verdict EXCEPT ![a] = "error"]
            /\ hardTimer' = hardTimer
      /\ UNCHANGED <<exitCode, timedOut, printed, chain, sending, wedged, settled,
                     sentToUser, errorSeen, request, mark, replies, overtaken, unseen>>
  BY DEF SpawnContainer, SpawnBreaks
<1>2. RunTypeInv'
  BY <1>1 DEF RunTypeInv
<1>3. VerdictInv' /\ RollbackInv' /\ TimerFollowsContainer'
  BY <1>1 DEF VerdictInv, RollbackInv, TimerFollowsContainer, RunTypeInv
<1>4. AttemptInv'
  <2>1. ASSUME NEW b \in Attempts, b < a
        PROVE  settled[b] = "rolledBack"
    <3>1. a - 1 \in Attempts /\ settled[a - 1] = "rolledBack" /\ b <= a - 1
      BY <1>1, <2>1, ContainerAssumption DEF Attempts, Launched
    <3>2. verdict[a - 1] # "open"
      BY <3>1 DEF VerdictInv
    <3> QED
      BY <2>1, <3>1, <3>2, ContainerAssumption DEF AttemptInv, Attempts
  <2> QED
    BY <1>1, <2>1 DEF AttemptInv, RunTypeInv
<1> QED
  BY <1>2, <1>3, <1>4

LEMMA OutputKeeps ==
  ASSUME RunInv, NEW a \in Attempts,
         \/ Prints(a) \/ HandlesSilently(a) \/ SendsReply(a) \/ ReplyDelivered(a)
         \/ ReplyThrows(a)
  PROVE  RunInv'
<1> USE DEF RunInv
<1>1. AttemptInv'
  BY DEF AttemptInv, Prints, HandlesSilently, SendsReply, ReplyDelivered, ReplyThrows
<1>2. CASE Prints(a)
  <2>1. /\ container[a] \in {"running", "stopping", "exited"}
        /\ hardTimer' = [hardTimer EXCEPT ![a] = TRUE]
        /\ printed' = [printed EXCEPT ![a] = @ + 1]
        /\ UNCHANGED <<container, exitCode, timedOut, sending, wedged, verdict, settled,
                       sentToUser, errorSeen, request, mark, replies, overtaken, unseen>>
    BY <1>2 DEF Prints, ResetTimeout
  <2>2. PICK r \in Results : chain' = [chain EXCEPT ![a] = Append(@, r)]
    BY <1>2 DEF Prints
  <2>3. Append(chain[a], r) \in Seq(Results) /\ Append(chain[a], r) # << >>
    <3>1. chain[a] \in Seq(Results)
      BY DEF RunTypeInv
    <3> QED
      BY <3>1, AppendFacts
  <2>4. RunTypeInv'
    BY <2>1, <2>2, <2>3 DEF RunTypeInv
  <2>5. VerdictInv'
    BY <2>1, <2>2, <2>3 DEF VerdictInv, RunTypeInv
  <2>6. RollbackInv' /\ TimerFollowsContainer'
    BY <2>1 DEF RollbackInv, TimerFollowsContainer, RunTypeInv
  <2> QED
    BY <1>1, <2>4, <2>5, <2>6
<1>3. CASE HandlesSilently(a)
  <2>1. /\ chain[a] # << >> /\ chain' = [chain EXCEPT ![a] = Tail(@)]
        /\ ~sending[a] /\ errorSeen' \in [Attempts -> BOOLEAN]
        /\ UNCHANGED <<container, exitCode, hardTimer, timedOut, printed, sending, wedged,
                       verdict, settled, sentToUser, request, mark, replies, overtaken,
                       unseen>>
    BY <1>3 DEF HandlesSilently, Handling, RunTypeInv
  <2>2. Tail(chain[a]) \in Seq(Results)
    BY <2>1 DEF RunTypeInv
  <2>3. RunTypeInv'
    BY <2>1, <2>2 DEF RunTypeInv
  <2>4. VerdictInv'
    BY <2>1 DEF VerdictInv, RunTypeInv
  <2>5. RollbackInv' /\ TimerFollowsContainer'
    BY <2>1 DEF RollbackInv, TimerFollowsContainer
  <2> QED
    BY <1>1, <2>3, <2>4, <2>5
<1>4. CASE SendsReply(a) \/ ReplyThrows(a)
  <2>1. /\ sending' \in [Attempts -> BOOLEAN] /\ wedged' \in [Attempts -> BOOLEAN]
        /\ \A b \in Attempts : sending'[b] => sending[b] \/ chain[b] # << >>
        /\ UNCHANGED <<container, exitCode, hardTimer, timedOut, printed, chain, verdict,
                       settled, sentToUser, errorSeen, request, mark, replies, overtaken,
                       unseen>>
    BY <1>4, ZenonT(30) DEF SendsReply, ReplyThrows, Handling, RunTypeInv
  <2>2. RunTypeInv'
    BY <2>1 DEF RunTypeInv
  <2>3. VerdictInv' /\ RollbackInv' /\ TimerFollowsContainer'
    BY <2>1 DEF VerdictInv, RollbackInv, TimerFollowsContainer
  <2> QED
    BY <1>1, <2>2, <2>3
<1>5. CASE ReplyDelivered(a)
  <2>1. /\ sending[a] /\ sending' = [sending EXCEPT ![a] = FALSE]
        /\ sentToUser' = [sentToUser EXCEPT ![a] = TRUE]
        /\ replies' = [replies EXCEPT ![a] = @ + 1]
        /\ chain' = [chain EXCEPT ![a] = Tail(@)]
        /\ UNCHANGED <<container, exitCode, hardTimer, timedOut, printed, wedged, verdict,
                       settled, errorSeen, request, mark, overtaken, unseen>>
    BY <1>5 DEF ReplyDelivered
  <2>2. chain[a] # << >> /\ Tail(chain[a]) \in Seq(Results)
    BY <2>1 DEF VerdictInv, RunTypeInv
  <2>3. RunTypeInv'
    BY <2>1, <2>2 DEF RunTypeInv
  <2>4. VerdictInv'
    BY <2>1, <2>2 DEF VerdictInv, RunTypeInv
  <2>5. RollbackInv'
    <3>1. settled[a] = "rolledBack" => overtaken[a]
      BY <2>2 DEF VerdictInv
    <3> QED
      BY <2>1, <3>1 DEF RollbackInv, RunTypeInv
  <2>6. TimerFollowsContainer'
    BY <2>1 DEF TimerFollowsContainer
  <2> QED
    BY <1>1, <2>3, <2>4, <2>5, <2>6
<1> QED
  BY <1>2, <1>3, <1>4, <1>5

LEMMA EndKeeps ==
  ASSUME RunInv, NEW a \in Attempts,
         \/ KillOnTimeout(a) \/ Exits(a) \/ StreamsClose(a) \/ ResolvesSuccess(a)
  PROVE  RunInv'
<1> USE DEF RunInv
<1>1. container[a] # "none"
  BY DEF TimerFollowsContainer, RunTypeInv, KillOnTimeout, Exits, StreamsClose,
         ResolvesSuccess
<1>2. /\ \A b \in Attempts \ {a} : container'[b] = container[b] /\ verdict'[b] = verdict[b]
      /\ UNCHANGED <<printed, chain, sending, wedged, settled, sentToUser, errorSeen,
                     request, mark, replies, unseen>>
  BY DEF RunTypeInv, KillOnTimeout, Exits, StreamsClose, ResolvesSuccess
<1>3. AttemptInv'
  BY <1>1, <1>2 DEF AttemptInv
<1>4. RunTypeInv' /\ TimerFollowsContainer'
  <2>1. CASE KillOnTimeout(a)
    BY <1>2, <2>1 DEF KillOnTimeout, RunTypeInv, TimerFollowsContainer
  <2>2. CASE Exits(a)
    BY <1>2, <2>2 DEF Exits, RunTypeInv, TimerFollowsContainer
  <2>3. CASE StreamsClose(a)
    <3>1. verdict' \in [Attempts -> {"open", "success", "error"}]
      BY <2>3 DEF StreamsClose, RunTypeInv
    <3>2. overtaken' \in [Attempts -> BOOLEAN]
      BY <2>3 DEF StreamsClose, RunTypeInv
    <3>3. TimerFollowsContainer'
      BY <2>3 DEF StreamsClose, RunTypeInv, TimerFollowsContainer
    <3> QED
      BY <1>2, <2>3, <3>1, <3>2, <3>3, ZenonT(30) DEF StreamsClose, RunTypeInv
  <2>4. CASE ResolvesSuccess(a)
    BY <1>2, <2>4 DEF ResolvesSuccess, RunTypeInv, TimerFollowsContainer
  <2> QED
    BY <2>1, <2>2, <2>3, <2>4
<1>5. VerdictInv' /\ RollbackInv'
  <2>1. CASE KillOnTimeout(a)
    BY <1>1, <2>1 DEF KillOnTimeout, RunTypeInv, VerdictInv, RollbackInv
  <2>2. CASE Exits(a)
    BY <1>1, <2>2 DEF Exits, RunTypeInv, VerdictInv, RollbackInv
  <2>3. CASE StreamsClose(a)
    <3>1. verdict[a] = "open" /\ settled[a] = "no"
      BY <2>3 DEF StreamsClose, VerdictInv
    <3>2. \A b \in Attempts : b # a => overtaken'[b] = overtaken[b]
      BY <2>3 DEF StreamsClose, RunTypeInv
    <3>3. /\ container' = [container EXCEPT ![a] = "closed"]
          /\ UNCHANGED <<chain, request, sending, settled, replies, sentToUser, mark, unseen>>
          /\ \/ verdict' = [verdict EXCEPT ![a] = "error"] /\ (chain[a] # << >> => overtaken'[a])
             \/ verdict' = verdict
      BY <2>3 DEF StreamsClose, RunTypeInv
    <3>4. VerdictInv'
      BY <1>1, <3>1, <3>2, <3>3 DEF RunTypeInv, VerdictInv
    <3>5. RollbackInv'
      BY <3>1, <3>2, <3>3 DEF RollbackInv
    <3> QED
      BY <3>4, <3>5
  <2>4. CASE ResolvesSuccess(a)
    BY <1>2, <2>4 DEF ResolvesSuccess, ChainDone, RunTypeInv, VerdictInv, RollbackInv
  <2> QED
    BY <2>1, <2>2, <2>3, <2>4
<1> QED
  BY <1>3, <1>4, <1>5

\* The mark of a request carried out stays until the attempt that made it is settled, as
\* the attempts before it have been and those after it have not begun.
LEMMA SettlesKeeps ==
  ASSUME RunInv, NEW a \in Attempts, Settles(a)
  PROVE  RunInv'
<1> USE DEF RunInv
<1> DEFINE end == IF ~Bad(a) THEN "done" ELSE IF Keeps(a) THEN "kept" ELSE "rolledBack"
<1>1. /\ verdict[a] # "open" /\ settled[a] = "no"
      /\ settled' = [settled EXCEPT ![a] = end] /\ mark' = (mark /\ ~Bad(a))
      /\ unseen' = [unseen EXCEPT ![a] = request[a] = "waiting"]
      /\ UNCHANGED <<container, exitCode, hardTimer, timedOut, printed, chain, sending, wedged,
                     verdict, sentToUser, errorSeen, request, replies, overtaken>>
  BY DEF Settles
<1>2. end \in {"done", "kept", "rolledBack"} /\ (end = "rolledBack" => ~sentToUser[a] /\ ~mark)
  BY DEF Keeps
<1> HIDE DEF end
<1>3. RunTypeInv'
  <2>1. unseen' \in [Attempts -> BOOLEAN] /\ mark' \in BOOLEAN
    BY <1>1 DEF RunTypeInv
  <2>2. settled' \in [Attempts -> {"no", "done", "kept", "rolledBack"}]
    BY <1>1, <1>2 DEF RunTypeInv
  <2> QED
    BY <1>1, <2>1, <2>2 DEF RunTypeInv
<1>4. VerdictInv' /\ TimerFollowsContainer'
  BY <1>1 DEF VerdictInv, TimerFollowsContainer, RunTypeInv
<1>5. AttemptInv'
  BY <1>1 DEF AttemptInv, RunTypeInv
<1>6. RollbackInv'
  <2>1. ASSUME NEW b \in Attempts, b # a, settled[b] = "no", request[b] = "done"
        PROVE  FALSE
    <3>1. container[b] # "none" /\ (b < a \/ a < b)
      BY <2>1, ContainerAssumption DEF VerdictInv, Attempts
    <3> QED
      BY <1>1, <2>1, <3>1 DEF AttemptInv
  <2>2. /\ \A b \in Attempts \ {a} : settled'[b] = settled[b] /\ (unseen'[b] <=> unseen[b])
        /\ settled'[a] = end /\ (unseen'[a] <=> request[a] = "waiting")
    BY <1>1 DEF RunTypeInv
  <2>3. replies[a] > 0 => sentToUser[a]
    BY DEF RollbackInv
  <2>4. request[a] = "done" => mark
    BY <1>1 DEF RollbackInv
  <2>5. end = "rolledBack" => ~(replies[a] > 0) /\ (request[a] # "no" => request[a] = "waiting")
    BY <1>2, <2>3, <2>4 DEF RunTypeInv
  <2>6. ASSUME NEW b \in Attempts
        PROVE  /\ replies[b] > 0 => sentToUser[b]
               /\ settled'[b] = "rolledBack" /\ replies[b] > 0 => overtaken[b]
               /\ settled'[b] = "no" /\ request[b] = "done" => mark'
               /\ settled'[b] = "rolledBack" /\ request[b] # "no" => unseen'[b]
    <3>1. CASE b = a
      BY <1>2, <2>2, <2>3, <2>5, <3>1
    <3>2. CASE b # a
      BY <2>1, <2>2, <3>2 DEF RollbackInv
    <3> QED
      BY <3>1, <3>2
  <2> QED
    BY <1>1, <2>6 DEF RollbackInv
<1> QED
  BY <1>3, <1>4, <1>5, <1>6

LEMMA RequestKeeps ==
  ASSUME RunInv, NEW a \in Attempts, AgentRequests(a) \/ WatcherCarriesOut(a)
  PROVE  RunInv'
<1> USE DEF RunInv
<1>1. /\ request[a] \in {"no", "waiting"} /\ mark' \in BOOLEAN /\ (mark => mark')
      /\ \/ request' = [request EXCEPT ![a] = "waiting"] /\ container[a] \in {"running", "stopping"}
         \/ request' = [request EXCEPT ![a] = "done"] /\ mark' = TRUE /\ request[a] = "waiting"
      /\ UNCHANGED <<container, exitCode, hardTimer, timedOut, printed, chain, sending, wedged,
                     verdict, settled, sentToUser, errorSeen, replies, overtaken, unseen>>
  BY DEF AgentRequests, WatcherCarriesOut, RunTypeInv
<1>2. RunTypeInv'
  BY <1>1 DEF RunTypeInv
<1>3. VerdictInv' /\ AttemptInv' /\ TimerFollowsContainer'
  BY <1>1 DEF VerdictInv, AttemptInv, TimerFollowsContainer, RunTypeInv
<1>4. RollbackInv'
  <2>1. settled[a] = "rolledBack" => container[a] = "closed"
    BY DEF VerdictInv
  <2> QED
    BY <1>1, <2>1 DEF RollbackInv, RunTypeInv
<1> QED
  BY <1>2, <1>3, <1>4

\* However an attempt exits, times out, fails and is settled while results are handled and
\* its request waits: a success leaves nothing to handle, what is rolled back was not heard
\* of by the chat and had no effect, with the exceptions the properties name, and its timer
\* runs as long as it does (runContainerAgent and the end of processGroupMessages).
THEOREM RunIsCorrect == ServicesSpec => []RunCorrect
<1>1. RunInv => RunCorrect
  BY DEF RunInv, RunCorrect, VerdictInv, RollbackInv, RunTypeInv, NothingAfterSuccess,
         ReplyOrRetry, EffectOrRetry
<1>2. ServicesInit => RunInv
  <2> SUFFICES ASSUME ContainerInit PROVE RunInv
    BY DEF ServicesInit
  <2> USE DEF ContainerInit
  <2>1. RunTypeInv
    BY DEF RunTypeInv
  <2>2. VerdictInv /\ AttemptInv /\ RollbackInv /\ TimerFollowsContainer
    BY DEF VerdictInv, AttemptInv, RollbackInv, TimerFollowsContainer
  <2> QED
    BY <2>1, <2>2 DEF RunInv
<1>3. RunInv /\ [ServicesNext]_servicesVars => RunInv'
  <2>1. RunInv /\ UNCHANGED containerVars => RunInv'
    BY DEF RunInv, RunTypeInv, VerdictInv, AttemptInv, RollbackInv, TimerFollowsContainer,
           containerVars
  <2>2. RunInv /\ ContainerNext => RunInv'
    BY StartKeeps, OutputKeeps, EndKeeps, SettlesKeeps, RequestKeeps DEF ContainerNext
  <2> QED
    BY <2>1, <2>2 DEF ServicesNext, servicesVars
<1> QED
  BY <1>1, <1>2, <1>3, PTL DEF ServicesSpec

-----------------------------------------------------------------------------
(* The containers and the reaper *)

ReaperTypeInv ==
  /\ made \in 0..Containers
  /\ alive \in SUBSET ((1..made) \cup Lanes)
  /\ inQueue \in SUBSET (1..made)
  /\ age \in [Names -> {"minutes", "hours", "days"}]
  /\ host \in {"down", "up"}
  /\ passed \in SUBSET alive /\ stuck \in SUBSET alive

\* What the reaper could not stop is stuck, and what is a day old while the host is up
\* could not be stopped or had a run; a name that was not given yet is new.
ReaperInv ==
  /\ ReaperTypeInv
  /\ TrackedSpared
  /\ host = "down" => inQueue = {}
  /\ passed \subseteq stuck
  /\ host = "up" => \A n \in alive : age[n] = "days" => n \in stuck \cup grewOld
  /\ \A n \in (made + 1)..Containers : age[n] = "minutes"

\* What docker could not stop is left and known to be stuck.
LEMMA StopAllKeeps ==
  ASSUME ReaperInv, NEW names \in SUBSET alive, StopAll(names), names \cap inQueue' = {},
         passed' \subseteq (passed \cup names) \cap alive',
         grewOld' = grewOld \cap alive', inQueue' \subseteq inQueue,
         host' \in {"down", host}, host' = "down" => inQueue' = {}, UNCHANGED <<made, age>>
  PROVE  ReaperInv'
<1> USE DEF ReaperInv
<1>1. PICK left \in SUBSET names :
        /\ alive' = alive \ (names \ left)
        /\ stuck' = (stuck \cup left) \cap alive'
  BY DEF StopAll
<1>2. ReaperTypeInv'
  <2>1. host' \in {"down", "up"}
    BY DEF ReaperTypeInv
  <2>2. passed' \subseteq alive' /\ stuck' \subseteq alive' /\ alive' \subseteq alive
    BY <1>1
  <2> QED
    BY <2>1, <2>2 DEF ReaperTypeInv
<1>3. TrackedSpared'
  BY <1>1 DEF TrackedSpared
<1>4. passed' \subseteq stuck'
  BY <1>1
<1>5. host' = "up" => \A n \in alive' : age'[n] = "days" => n \in stuck' \cup grewOld'
  BY <1>1
<1>6. \A n \in (made' + 1)..Containers : age'[n] = "minutes"
  OBVIOUS
<1> QED
  BY <1>2, <1>3, <1>4, <1>5, <1>6

LEMMA HostKeeps == ReaperInv /\ (HostStarts \/ HostCrashes \/ HostShutsDown) => ReaperInv'
<1> SUFFICES ASSUME ReaperInv, HostStarts \/ HostCrashes \/ HostShutsDown PROVE ReaperInv'
  OBVIOUS
<1> USE DEF ReaperInv
<1>1. CASE HostStarts
  <2>1. PICK survivors \in SUBSET alive :
          /\ alive' = survivors \cup Lanes
          /\ stuck' = (stuck \cup survivors) \cap survivors
          /\ passed' = passed \cap survivors
          /\ age' = [n \in Names |-> IF n \in survivors THEN age[n] ELSE "minutes"]
          /\ host' \in {"up", "down"}
    <3>1. \A left \in SUBSET alive : alive \ (alive \ left) = left
      OBVIOUS
    <3>2. PICK left \in SUBSET alive :
            LET survivors == alive \ (alive \ left)
            IN /\ alive' = survivors \cup Lanes
               /\ stuck' = (stuck \cup left) \cap survivors
               /\ passed' = passed \cap survivors
               /\ age' = [n \in Names |-> IF n \in survivors THEN age[n] ELSE "minutes"]
               /\ host' \in {"up", "down"}
      BY <1>1 DEF HostStarts, Orphans
    <3> QED
      BY <3>1, <3>2
  <2>2. made' = made /\ inQueue' = inQueue /\ inQueue = {}
    BY <1>1 DEF HostStarts
  <2>3. stuck' = survivors
    BY <2>1
  <2>4. ReaperTypeInv'
    BY <2>1, <2>2, <2>3 DEF ReaperTypeInv
  <2>5. \A n \in alive' : n \in Names
    BY <2>2, <2>4, ReaperAssumption DEF ReaperTypeInv, Names
  <2>6. \A n \in (made' + 1)..Containers : n \in Names /\ age'[n] = "minutes"
    BY <2>1, <2>2, ReaperAssumption DEF ReaperTypeInv, Names
  <2>7. \A n \in alive' : age'[n] = "days" => n \in stuck'
    BY <2>1, <2>3, <2>5
  <2> QED
    BY <2>1, <2>2, <2>3, <2>4, <2>6, <2>7 DEF TrackedSpared
<1>2. CASE HostCrashes
  BY <1>2 DEF HostCrashes, ReaperTypeInv, TrackedSpared
<1>3. CASE HostShutsDown
  <2>1. PICK names \in SUBSET alive : names = (inQueue \cup {l \in Lanes : pool[l] > 0}) \cap alive
    OBVIOUS
  <2>2. /\ StopAll(names) /\ inQueue' = {} /\ host' = "down"
        /\ passed' = passed \cap alive' /\ grewOld' = grewOld \cap alive'
        /\ UNCHANGED <<made, age>>
    BY <1>3, <2>1 DEF HostShutsDown, Forget
  <2> QED
    BY <2>2, StopAllKeeps
<1> QED
  BY <1>1, <1>2, <1>3

LEMMA StopsKeep ==
  ASSUME ReaperInv, Reaps \/ \E l \in Lanes : RunnerClosed(l)
  PROVE  ReaperInv'
<1> USE DEF ReaperInv
<1>1. CASE Reaps
  <2>1. PICK names \in SUBSET alive : names = Reapable
    BY DEF Reapable
  <2>2. /\ StopAll(names) /\ names \cap inQueue = {}
        /\ passed' = (passed \cup names) \cap alive' /\ grewOld' = grewOld \cap alive'
        /\ host = "up" /\ UNCHANGED <<made, age, inQueue, host>>
    BY <1>1, <2>1 DEF Reaps, Reapable, Stale
  <2> QED
    BY <2>2, StopAllKeeps
<1>2. ASSUME NEW l \in Lanes, RunnerClosed(l)
      PROVE  ReaperInv'
  <2>1. PICK names \in SUBSET alive : names = {l} \cap alive
    OBVIOUS
  <2>2. /\ StopAll(names) /\ passed' = passed \cap alive' /\ grewOld' = grewOld \cap alive'
        /\ host = "up" /\ UNCHANGED <<made, age, inQueue, host>>
    BY <1>2, <2>1 DEF RunnerClosed, Forget
  <2>3. names \cap inQueue = {}
    BY <2>1, ReaperAssumption DEF ReaperTypeInv
  <2> QED
    BY <2>2, <2>3, StopAllKeeps
<1> QED
  BY <1>1, <1>2

LEMMA ContainersKeep ==
  ASSUME ReaperInv,
         \/ AgentContainerStarts
         \/ \E n \in Names : AgentContainerExits(n) \/ AgentContainerLeft(n) \/ Ages(n)
         \/ \E l \in Lanes : RunnerStarts(l)
  PROVE  ReaperInv'
<1> USE DEF ReaperInv
<1>1. CASE AgentContainerStarts
  <2>1. /\ made' = made + 1 /\ made < Containers /\ host = "up"
        /\ alive' = alive \cup {made + 1} /\ inQueue' = inQueue \cup {made + 1}
        /\ UNCHANGED <<age, host, passed, stuck, grewOld>>
    BY <1>1 DEF AgentContainerStarts
  <2>2. made + 1 \in (made + 1)..Containers /\ \A k \in (made + 2)..Containers : k \in (made + 1)..Containers
    BY <2>1, ReaperAssumption DEF ReaperTypeInv
  <2>3. made' \in 0..Containers /\ 1..made \subseteq 1..(made + 1) /\ made + 1 \in 1..(made + 1)
    BY <2>1, ReaperAssumption DEF ReaperTypeInv
  <2>4. ReaperTypeInv'
    BY <2>1, <2>3 DEF ReaperTypeInv
  <2>5. TrackedSpared'
    BY <2>1 DEF TrackedSpared
  <2>6. \A k \in (made' + 1)..Containers : age'[k] = "minutes"
    BY <2>1, <2>2 DEF ReaperTypeInv
  <2> QED
    BY <2>1, <2>2, <2>4, <2>5, <2>6
<1>2. ASSUME NEW n \in Names, AgentContainerExits(n)
      PROVE  ReaperInv'
  BY <1>2 DEF AgentContainerExits, Forget, ReaperTypeInv, TrackedSpared
<1>3. ASSUME NEW n \in Names, AgentContainerLeft(n)
      PROVE  ReaperInv'
  BY <1>3 DEF AgentContainerLeft, ReaperTypeInv, TrackedSpared
<1>4. ASSUME NEW l \in Lanes, RunnerStarts(l)
      PROVE  ReaperInv'
  <2>1. /\ l \notin alive /\ alive' = alive \cup {l} /\ host = "up"
        /\ age' = [age EXCEPT ![l] = "minutes"]
        /\ UNCHANGED <<made, inQueue, host, passed, stuck, grewOld>>
    BY <1>4 DEF RunnerStarts
  <2>2. alive \subseteq Names /\ l \in Names
    BY ReaperAssumption DEF ReaperTypeInv, Names
  <2>3. \A k \in Names : age'[k] = IF k = l THEN "minutes" ELSE age[k]
    BY <2>1 DEF ReaperTypeInv
  <2>4. \A k \in (made + 1)..Containers : k \in Names
    BY ReaperAssumption DEF ReaperTypeInv, Names
  <2>5. ReaperTypeInv' /\ TrackedSpared'
    BY <2>1 DEF ReaperTypeInv, TrackedSpared
  <2> QED
    BY <2>1, <2>2, <2>3, <2>4, <2>5
<1>5. ASSUME NEW n \in Names, Ages(n)
      PROVE  ReaperInv'
  <2>1. /\ n \in alive /\ UNCHANGED <<made, alive, inQueue, host, passed, stuck>>
        /\ \/ age' = [age EXCEPT ![n] = "hours"] /\ grewOld' = grewOld
           \/ /\ age' = [age EXCEPT ![n] = "days"] /\ grewOld' = grewOld \cup ({n} \cap inQueue)
              /\ host = "up" => n \in inQueue \cup passed
    BY <1>5 DEF Ages
  <2>2. alive \subseteq Names
    BY ReaperAssumption DEF ReaperTypeInv, Names
  <2>3. \A k \in (made + 1)..Containers : k \notin alive /\ k \in Names
    BY ReaperAssumption DEF ReaperTypeInv, Names
  <2>4. ReaperTypeInv' /\ TrackedSpared'
    BY <2>1 DEF ReaperTypeInv, TrackedSpared
  <2>5. \A k \in Names \ {n} : age'[k] = age[k]
    BY <2>1 DEF ReaperTypeInv
  <2>6. host' = "up" => \A k \in alive' : age'[k] = "days" => k \in stuck' \cup grewOld'
    <3>1. host = "up" /\ age'[n] = "days" => n \in stuck \cup grewOld'
      BY <2>1 DEF ReaperTypeInv
    <3> QED
      BY <2>1, <2>2, <2>5, <3>1
  <2> QED
    BY <2>1, <2>2, <2>3, <2>4, <2>5, <2>6
<1> QED
  BY <1>1, <1>2, <1>3, <1>4, <1>5

\* Across crashes and starts of the host and containers that cannot be stopped: the reaper
\* spares what the queue tracks, and what nobody knows is stopped in time, with the
\* exceptions ZombiesGo names (container-runtime.ts).
THEOREM ContainersAreCorrect == ServicesSpec => []ContainersCorrect
<1>1. ReaperInv => ContainersCorrect
  BY DEF ReaperInv, ContainersCorrect, ZombiesGo, TrackedSpared
<1>2. ServicesInit => ReaperInv
  <2> SUFFICES ASSUME ReaperInit PROVE ReaperInv
    BY DEF ServicesInit
  <2>1. ReaperTypeInv /\ \A n \in (made + 1)..Containers : age[n] = "minutes"
    BY ReaperAssumption DEF ReaperInit, ReaperTypeInv, Names
  <2> QED
    BY <2>1 DEF ReaperInit, ReaperInv, TrackedSpared
<1>3. ReaperInv /\ [ServicesNext]_servicesVars => ReaperInv'
  <2>1. ReaperInv /\ UNCHANGED containerSetVars => ReaperInv'
    BY DEF ReaperInv, ReaperTypeInv, TrackedSpared, containerSetVars
  <2>2. ReaperInv /\ ReaperNext => ReaperInv'
    BY HostKeeps, StopsKeep, ContainersKeep DEF ReaperNext
  <2> QED
    BY <2>1, <2>2 DEF ServicesNext, servicesVars
<1> QED
  BY <1>1, <1>2, <1>3, PTL DEF ServicesSpec

-----------------------------------------------------------------------------
(* The chains of providers *)

Breakers == [Positions -> [failures : Nat, until : Nat]]

ChainTypeInv ==
  /\ instant \in Nat
  /\ breaker \in Breakers
  /\ at \in [Jobs -> 0..Len(Providers)]
  /\ tried \in [Jobs -> SUBSET Positions] /\ skipped \in [Jobs -> SUBSET Positions]
  /\ forced \in [Jobs -> BOOLEAN]
  /\ outcome \in [Jobs -> {"none", "found", "failed"}]
  /\ inARow \in [Positions -> Nat] /\ openSince \in [Positions -> Nat]

\* A breaker counts no more failures than there were in a row, and its time runs from
\* when it opened.
BreakerInv ==
  \A p \in Positions :
    /\ breaker[p].failures <= inARow[p]
    /\ breaker[p].until # 0 => inARow[p] >= Threshold
    /\ OpenIn(breaker, p) => breaker[p].until = openSince[p] + Cooldown

\* A chain has been at every provider up to the one it awaits.
WalkInv ==
  \A j \in Jobs :
    /\ at[j] # 0 => tried[j] \cup skipped[j] = 1..at[j] /\ at[j] \in tried[j]
    /\ tried[j] \cap skipped[j] = {}
    /\ at[j] = 0 /\ outcome[j] = "failed" => tried[j] \cup skipped[j] = Positions /\ tried[j] # {}
    /\ at[j] # 0 => outcome[j] # "failed"

ChainInv == ChainTypeInv /\ BreakerInv /\ WalkInv

\* The provider a chain goes on to.
LEMMA UpcomingFacts ==
  ASSUME NEW b, NEW i \in 1..(Len(Providers) + 1), NEW force \in BOOLEAN
  PROVE  /\ Upcoming(b, i, force) \in i..(Len(Providers) + 1)
         /\ \A p \in i..Len(Providers) : force \/ ~OpenIn(b, p) => Upcoming(b, i, force) <= p
<1> DEFINE callable == {p \in i..Len(Providers) : force \/ ~OpenIn(b, p)}
           least == CHOOSE p \in callable : \A q \in callable : p <= q
<1>1. CASE callable = {}
  <2>1. Upcoming(b, i, force) = Len(Providers) + 1
    BY <1>1 DEF Upcoming
  <2> QED
    BY <1>1, <2>1, ProviderChainAssumption
<1>2. CASE callable # {}
  <2>1. callable \in SUBSET Nat
    BY ProviderChainAssumption
  <2>2. \E p \in callable : \A q \in callable : p <= q
    <3> HIDE DEF callable
    <3> QED
      BY <1>2, <2>1, LeastNumber
  <2>3. least \in callable /\ \A q \in callable : least <= q
    <3> HIDE DEF callable
    <3> QED
      BY <2>2
  <2>4. Upcoming(b, i, force) = least
    BY <1>2 DEF Upcoming
  <2> HIDE DEF least
  <2> QED
    BY <2>3, <2>4, ProviderChainAssumption
<1> QED
  BY <1>1, <1>2

\* Looking at breakers closes some whose time is over.
LEMMA LookedKeeps ==
  ASSUME NEW b \in Breakers, NEW ps
  PROVE  /\ Looked(b, ps) \in Breakers
         /\ \A p \in Positions : \/ Looked(b, ps)[p] = b[p]
                                 \/ Looked(b, ps)[p] = ClosedBreaker
BY DEF Looked, Breakers, ClosedBreaker

\* BreakerInv stays when the breakers change as looking at them changes them.
LEMMA BreakersKeep ==
  ASSUME ChainTypeInv, NEW b \in Breakers, breaker' \in Breakers,
         \A p \in Positions : breaker'[p] \in {b[p], ClosedBreaker},
         \A p \in Positions :
           /\ b[p].failures <= inARow'[p]
           /\ b[p].until # 0 => inARow'[p] >= Threshold
           /\ b[p].until > instant => b[p].until = openSince'[p] + Cooldown,
         instant' = instant, inARow' \in [Positions -> Nat]
  PROVE  BreakerInv'
<1> SUFFICES ASSUME NEW p \in Positions
             PROVE  /\ breaker'[p].failures <= inARow'[p]
                    /\ breaker'[p].until # 0 => inARow'[p] >= Threshold
                    /\ breaker'[p].until > instant
                         => breaker'[p].until = openSince'[p] + Cooldown
  BY DEF BreakerInv, OpenIn
<1>1. ClosedBreaker.failures = 0 /\ ClosedBreaker.until = 0
  BY DEF ClosedBreaker
<1>2. inARow'[p] \in Nat /\ instant \in Nat
  BY DEF ChainTypeInv
<1> QED
  BY <1>1, <1>2

LEMMA StartsChainKeeps ==
  ASSUME ChainInv, NEW j \in Jobs, StartsChain(j)
  PROVE  ChainInv'
<1> USE DEF ChainInv
<1>1. PICK force \in BOOLEAN : force = AllOpen(breaker)
  BY DEF AllOpen
<1>2. PICK b \in Breakers : b = breaker
  BY DEF ChainTypeInv
<1>3. PICK n \in 1..(Len(Providers) + 1) :
        /\ n = Upcoming(breaker, 1, force)
        /\ n <= Len(Providers)
  <2>1. 1 \in 1..(Len(Providers) + 1)
    BY ProviderChainAssumption
  <2>2. /\ Upcoming(b, 1, force) \in 1..(Len(Providers) + 1)
        /\ \A p \in 1..Len(Providers) : force \/ ~OpenIn(b, p) => Upcoming(b, 1, force) <= p
    BY <2>1, UpcomingFacts
  <2>3. \E p \in 1..Len(Providers) : force \/ ~OpenIn(b, p)
    BY <1>1, <1>2, ProviderChainAssumption DEF AllOpen, Positions
  <2>4. Upcoming(b, 1, force) <= Len(Providers)
    BY <2>2, <2>3, ProviderChainAssumption
  <2> QED
    BY <1>2, <2>2, <2>4
<1>4. /\ at[j] = 0 /\ at' = [at EXCEPT ![j] = n]
      /\ breaker' = Looked(breaker, IF force THEN {} ELSE 1..n)
      /\ skipped' = [skipped EXCEPT ![j] = 1..(n - 1)]
      /\ tried' = [tried EXCEPT ![j] = {n}]
      /\ outcome' = [outcome EXCEPT ![j] = "none"]
      /\ forced' = [forced EXCEPT ![j] = force]
      /\ UNCHANGED <<instant, inARow, openSince>>
  BY <1>1, <1>3 DEF StartsChain
<1>5. /\ 1..(n - 1) \in SUBSET Positions /\ {n} \in SUBSET Positions
      /\ n # 0 /\ n \in 0..Len(Providers)
      /\ {n} \cup 1..(n - 1) = 1..n /\ {n} \cap 1..(n - 1) = {}
  BY <1>3, ProviderChainAssumption DEF Positions
<1>6. breaker' \in Breakers /\ \A p \in Positions : breaker'[p] \in {b[p], ClosedBreaker}
  BY <1>2, <1>4, LookedKeeps
<1>7. ChainTypeInv'
  BY <1>4, <1>5, <1>6 DEF ChainTypeInv
<1>8. WalkInv'
  BY <1>4, <1>5 DEF WalkInv, ChainTypeInv
<1>9. BreakerInv'
  <2>1. \A p \in Positions :
           /\ b[p].failures <= inARow'[p]
           /\ b[p].until # 0 => inARow'[p] >= Threshold
           /\ b[p].until > instant => b[p].until = openSince'[p] + Cooldown
    BY <1>2, <1>4 DEF BreakerInv, OpenIn
  <2> QED
    BY <1>4, <1>6, <1>7, <2>1, BreakersKeep DEF ChainTypeInv
<1> QED
  BY <1>7, <1>8, <1>9

LEMMA ProviderAnswersKeeps ==
  ASSUME ChainInv, NEW j \in Jobs, ProviderAnswers(j)
  PROVE  ChainInv'
<1> USE DEF ChainInv
<1>1. PICK p \in Positions : p = at[j]
  BY DEF ProviderAnswers, ChainTypeInv, Positions
<1>2. /\ breaker' = [breaker EXCEPT ![p] = ClosedBreaker]
      /\ inARow' = [inARow EXCEPT ![p] = 0]
      /\ outcome' = [outcome EXCEPT ![j] = "found"]
      /\ at' = [at EXCEPT ![j] = 0]
      /\ UNCHANGED <<instant, forced, tried, skipped, lookups, openSince>>
  BY <1>1 DEF ProviderAnswers, Succeeded
<1>3. ClosedBreaker \in [failures : Nat, until : Nat] /\ 0 \in 0..Len(Providers)
  BY ProviderChainAssumption DEF ClosedBreaker
<1>4. ChainTypeInv'
  BY <1>2, <1>3 DEF ChainTypeInv, Breakers
<1>5. WalkInv'
  BY <1>2 DEF WalkInv, ChainTypeInv
<1>6. BreakerInv'
  <2>1. /\ ClosedBreaker.failures = 0 /\ ClosedBreaker.until = 0
        /\ breaker'[p] = ClosedBreaker /\ inARow'[p] = 0
        /\ \A q \in Positions \ {p} : breaker'[q] = breaker[q] /\ inARow'[q] = inARow[q]
    BY <1>2 DEF ClosedBreaker, ChainTypeInv, Breakers
  <2> QED
    BY <1>2, <2>1 DEF BreakerInv, OpenIn, ChainTypeInv
<1> QED
  BY <1>4, <1>5, <1>6

LEMMA ProviderFailsKeeps ==
  ASSUME ChainInv, NEW j \in Jobs, ProviderFails(j)
  PROVE  ChainInv'
<1> USE DEF ChainInv
<1>1. PICK p \in Positions : p = at[j]
  BY DEF ProviderFails, ChainTypeInv, Positions
<1>2. PICK c \in Breakers : c = breaker
  BY DEF ChainTypeInv
<1>3. PICK r \in [failures : Nat, until : Nat] :
        /\ r.failures = breaker[p].failures + 1
        /\ \/ /\ r.failures >= Threshold /\ breaker[p].until <= instant
              /\ r.until = instant + Cooldown
           \/ r.until = breaker[p].until
        /\ FailedOnce(breaker, p) = [breaker EXCEPT ![p] = r]
  <2>1. /\ breaker[p].failures + 1 \in Nat /\ instant + Cooldown \in Nat
        /\ breaker[p].until \in Nat
    BY ProviderChainAssumption DEF ChainTypeInv, Breakers
  <2>2. PICK u \in Nat :
          /\ \/ /\ breaker[p].failures + 1 >= Threshold /\ breaker[p].until <= instant
                /\ u = instant + Cooldown
             \/ u = breaker[p].until
          /\ FailedOnce(breaker, p)
               = [breaker EXCEPT ![p] = [failures |-> breaker[p].failures + 1, until |-> u]]
    <3>1. CASE BreakerOpens(breaker[p].failures + 1, breaker[p].until)
      BY <2>1, <3>1 DEF FailedOnce, BreakerOpens
    <3>2. CASE ~BreakerOpens(breaker[p].failures + 1, breaker[p].until)
      BY <2>1, <3>2 DEF FailedOnce
    <3> QED
      BY <3>1, <3>2
  <2> QED
    BY <2>1, <2>2
<1>4. PICK b \in Breakers : b = [breaker EXCEPT ![p] = r]
  BY DEF ChainTypeInv, Breakers
<1>5. b[p] = r /\ \A q \in Positions \ {p} : b[q] = breaker[q]
  BY <1>4 DEF ChainTypeInv, Breakers
<1>6. PICK force \in BOOLEAN : force = forced[j]
  BY DEF ChainTypeInv
<1>7. p + 1 \in 1..(Len(Providers) + 1)
  BY ProviderChainAssumption DEF Positions
<1>8. PICK n \in (p + 1)..(Len(Providers) + 1) : n = Upcoming(b, p + 1, force)
  BY <1>7, UpcomingFacts
<1>9. /\ at[j] = p /\ inARow' = [inARow EXCEPT ![p] = @ + 1]
      /\ openSince' = IF OpenIn(b, p) /\ ~OpenIn(breaker, p)
                      THEN [openSince EXCEPT ![p] = instant] ELSE openSince
      /\ breaker' = Looked(b, IF force THEN {} ELSE (p + 1)..n)
      /\ skipped' = [skipped EXCEPT ![j] = @ \cup ((p + 1)..(n - 1))]
      /\ \/ /\ n <= Len(Providers)
            /\ at' = [at EXCEPT ![j] = n]
            /\ tried' = [tried EXCEPT ![j] = @ \cup {n}]
            /\ outcome' = outcome
         \/ /\ n = Len(Providers) + 1
            /\ at' = [at EXCEPT ![j] = 0]
            /\ tried' = tried
            /\ outcome' = [outcome EXCEPT ![j] = "failed"]
      /\ UNCHANGED <<instant, forced, lookups>>
  <2>1. GoesOn(j, p + 1, b, force)
    BY <1>1, <1>3, <1>4, <1>6 DEF ProviderFails
  <2>2. n <= Len(Providers) \/ n = Len(Providers) + 1
    BY <1>8, ProviderChainAssumption
  <2>3. ~(Len(Providers) + 1 <= Len(Providers))
    BY ProviderChainAssumption
  <2> QED
    BY <1>1, <1>3, <1>4, <1>8, <2>1, <2>2, <2>3 DEF ProviderFails, GoesOn
<1>10. breaker' \in Breakers /\ \A q \in Positions : breaker'[q] \in {b[q], ClosedBreaker}
  BY <1>9, LookedKeeps
<1>11. /\ (p + 1)..(n - 1) \in SUBSET Positions
       /\ n <= Len(Providers) => n \in Positions /\ n \in 0..Len(Providers) /\ n # 0
       /\ 0 \in 0..Len(Providers) /\ p # 0
  BY <1>8, ProviderChainAssumption DEF Positions
<1>12. ChainTypeInv'
  <2>1. inARow' \in [Positions -> Nat] /\ openSince' \in [Positions -> Nat]
    BY <1>9 DEF ChainTypeInv
  <2>2. skipped[j] \cup ((p + 1)..(n - 1)) \in SUBSET Positions
    BY <1>11 DEF ChainTypeInv
  <2>3. skipped' \in [Jobs -> SUBSET Positions]
    BY <1>9, <2>2 DEF ChainTypeInv
  <2>4. tried' \in [Jobs -> SUBSET Positions]
    <3>1. n <= Len(Providers) => tried[j] \cup {n} \in SUBSET Positions
      BY <1>11 DEF ChainTypeInv
    <3> QED
      BY <1>9, <3>1 DEF ChainTypeInv
  <2>5. at' \in [Jobs -> 0..Len(Providers)] /\ outcome' \in [Jobs -> {"none", "found", "failed"}]
    BY <1>9, <1>11, ZenonT(30) DEF ChainTypeInv
  <2> QED
    BY <1>9, <1>10, <2>1, <2>3, <2>4, <2>5 DEF ChainTypeInv
<1>13. WalkInv'
  <2>1. /\ 1..p \cup (p + 1)..(n - 1) \cup {n} = 1..n
        /\ n = Len(Providers) + 1 => 1..p \cup (p + 1)..(n - 1) = Positions
        /\ \A x \in (p + 1)..(n - 1) : x \notin 1..p /\ x # n
        /\ n \notin 1..p
    BY <1>8, ProviderChainAssumption DEF Positions
  <2>2. /\ tried[j] \cup skipped[j] = 1..p /\ p \in tried[j] /\ tried[j] \cap skipped[j] = {}
    BY <1>9, <1>11 DEF WalkInv
  <2>3. /\ tried'[j] \cap skipped'[j] = {}
        /\ at'[j] # 0 => tried'[j] \cup skipped'[j] = 1..at'[j] /\ at'[j] \in tried'[j]
        /\ at'[j] = 0 => tried'[j] \cup skipped'[j] = Positions /\ tried'[j] # {}
        /\ at'[j] # 0 => outcome'[j] # "failed"
    BY <1>9, <1>11, <2>1, <2>2, SMTT(30) DEF ChainTypeInv, WalkInv
  <2>4. \A k \in Jobs \ {j} : /\ at'[k] = at[k] /\ tried'[k] = tried[k]
                              /\ skipped'[k] = skipped[k] /\ outcome'[k] = outcome[k]
    BY <1>9 DEF ChainTypeInv
  <2> QED
    BY <2>3, <2>4 DEF WalkInv
<1>14. BreakerInv'
  <2>1. ASSUME NEW q \in Positions
        PROVE  /\ b[q].failures <= inARow'[q]
               /\ b[q].until # 0 => inARow'[q] >= Threshold
               /\ b[q].until > instant => b[q].until = openSince'[q] + Cooldown
    <3>1. CASE q # p
      <4>1. b[q] = breaker[q] /\ inARow'[q] = inARow[q] /\ openSince'[q] = openSince[q]
        BY <1>5, <1>9, <3>1 DEF ChainTypeInv
      <4> QED
        BY <4>1 DEF BreakerInv, OpenIn
    <3>2. CASE q = p
      <4>1. /\ inARow'[p] = inARow[p] + 1 /\ inARow[p] \in Nat
            /\ breaker[p].failures \in Nat /\ breaker[p].until \in Nat /\ instant \in Nat
            /\ openSince[p] \in Nat
            /\ openSince'[p] = IF r.until > instant /\ ~(breaker[p].until > instant)
                               THEN instant ELSE openSince[p]
        BY <1>5, <1>9 DEF ChainTypeInv, Breakers, OpenIn
      <4>2. /\ breaker[p].failures <= inARow[p]
            /\ breaker[p].until # 0 => inARow[p] >= Threshold
            /\ breaker[p].until > instant => breaker[p].until = openSince[p] + Cooldown
        BY DEF BreakerInv, OpenIn
      <4>3. r.failures \in Nat /\ r.until \in Nat /\ Threshold \in Nat /\ Cooldown \in Nat
        BY ProviderChainAssumption
      <4>4. r.failures <= inARow'[p]
        BY <1>3, <4>1, <4>2
      <4>5. r.until # 0 => inARow'[p] >= Threshold
        BY <1>3, <4>1, <4>2, <4>3, SMTT(30)
      <4>6. r.until > instant => r.until = openSince'[p] + Cooldown
        BY <1>3, <4>1, <4>2, <4>3
      <4> QED
        BY <1>5, <3>2, <4>4, <4>5, <4>6
    <3> QED
      BY <3>1, <3>2
  <2> QED
    BY <1>9, <1>10, <1>12, <2>1, BreakersKeep DEF ChainTypeInv
<1> QED
  BY <1>12, <1>13, <1>14

\* However the searches and fetches of all jobs share the breakers: a provider is passed
\* over only for failures in a row and only for the cooldown, and no search or fetch fails
\* without having tried one and considered all (ChainProvider in providers.ts).
THEOREM ChainsAreCorrect == ServicesSpec => []ChainsCorrect
<1>1. ChainInv => ChainsCorrect
  <2> SUFFICES ASSUME ChainInv PROVE ChainsCorrect
    OBVIOUS
  <2> USE DEF ChainInv
  <2>1. OpenForCause
    BY DEF ChainTypeInv, Breakers, BreakerInv, OpenForCause, OpenIn
  <2>2. FailsTried /\ EveryoneConsidered
    BY DEF WalkInv, FailsTried, EveryoneConsidered
  <2> QED
    BY <2>1, <2>2 DEF ChainsCorrect
<1>2. ServicesInit => ChainInv
  <2> SUFFICES ASSUME ChainInit PROVE ChainInv
    BY DEF ServicesInit
  <2>1. ClosedBreaker \in [failures : Nat, until : Nat]
        /\ ClosedBreaker.failures = 0 /\ ClosedBreaker.until = 0
    BY DEF ClosedBreaker
  <2>2. ChainTypeInv
    BY <2>1, ProviderChainAssumption DEF ChainInit, ChainTypeInv, Breakers
  <2>3. BreakerInv
    BY <2>1 DEF ChainInit, BreakerInv, OpenIn
  <2>4. WalkInv
    BY DEF ChainInit, WalkInv
  <2> QED
    BY <2>2, <2>3, <2>4 DEF ChainInv
<1>3. ChainInv /\ [ServicesNext]_servicesVars => ChainInv'
  <2>1. ChainInv /\ UNCHANGED chainVars => ChainInv'
    BY DEF ChainInv, ChainTypeInv, BreakerInv, WalkInv, OpenIn, chainVars
  <2>2. ChainInv /\ TimePasses => ChainInv'
    <3> SUFFICES ASSUME ChainInv, TimePasses PROVE ChainInv'
      OBVIOUS
    <3> USE DEF ChainInv
    <3>1. ChainTypeInv' /\ WalkInv'
      BY DEF TimePasses, ChainTypeInv, WalkInv
    <3>2. BreakerInv'
      BY DEF TimePasses, ChainTypeInv, Breakers, BreakerInv, OpenIn
    <3> QED
      BY <3>1, <3>2
  <2>3. ChainInv /\ ChainNext => ChainInv'
    BY <2>2, StartsChainKeeps, ProviderAnswersKeeps, ProviderFailsKeeps DEF ChainNext
  <2> QED
    BY <2>1, <2>3 DEF ServicesNext, servicesVars
<1> QED
  BY <1>1, <1>2, <1>3, PTL DEF ServicesSpec

-----------------------------------------------------------------------------
(* The Google tokens *)

TokenRecords == [access : Nat, grant : Nat, state : Nat]

TokenTypeInv ==
  /\ own \in TokenRecords /\ legacy \in TokenRecords
  /\ asking \in [TokenCallers -> [user : Users \cup {"none"}, read : TokenRecords]]
  /\ grantOf \in Seq(Nat)
  /\ logins \in Nat /\ latest \in Nat /\ latestOwn \in Nat
  /\ overlappedLogin \in BOOLEAN /\ clean \in BOOLEAN

\* A record's access token belongs to its grant, and there is none of the grant alone.
Sound(record) ==
  /\ record.access = 0 => record.grant = 0
  /\ record.access # 0 => record.access \in DOMAIN grantOf /\ grantOf[record.access] = record.grant

StoresInv ==
  /\ Sound(own) /\ Sound(legacy)
  /\ \A c \in Refreshing : /\ Sound(asking[c].read)
                           /\ asking[c].read.grant # 0 /\ asking[c].user \in Users

\* What a refresh will write back is the grant of a last login, of the contacts' for them.
GrantsInv ==
  ~overlappedLogin =>
    /\ legacy.grant \in {latest, own.grant}
    /\ \A c \in Refreshing :
         /\ asking[c].read.grant \in {latest, own.grant}
         /\ asking[c].user = "contacts" /\ own.grant # 0 => asking[c].read.grant = own.grant

\* The newest login is not called back yet, and nothing got in its way.
Awaited == clean /\ logins > 0 /\ logins \notin calledBack
AwaitedInv ==
  Awaited =>
    /\ exchanging = {}
    /\ own.access # 0 \/ (legacy.grant = 0 /\ Refreshing = {})
    /\ Stored.state = logins
    /\ \A c \in Refreshing : asking[c].user = "contacts" => asking[c].read.state = logins

TokenInv ==
  /\ TokenTypeInv
  /\ StoresInv
  /\ GrantsInv
  /\ AwaitedInv
  /\ StaysConnected
  /\ ~overlappedLogin => (latestOwn # 0 => own.grant = latestOwn)

LEMMA StoredFacts ==
  ASSUME StoresInv
  PROVE  /\ Stored = IF own.access # 0 THEN own ELSE legacy
         /\ own.grant # 0 => own.access # 0
BY DEF StoresInv, Sound, Stored, OwnHasTokens

LEMMA AskKeeps ==
  ASSUME TokenInv, NEW c \in TokenCallers, NEW user \in Users, Ask(c, user)
  PROVE  TokenInv'
<1> USE DEF TokenInv
<1>1. PICK r \in TokenRecords : r = ReadFor(user)
  BY DEF ReadFor, Stored, TokenTypeInv
<1>2. /\ asking[c] = IdleCall /\ r.grant # 0
      /\ asking' = [asking EXCEPT ![c] = [user |-> user, read |-> r]]
      /\ UNCHANGED <<own, legacy, grantOf, logins, exchanging, calledBack, latest, latestOwn,
                     overlappedLogin, clean>>
  BY <1>1 DEF Ask, tokenStores, loginVars, tokenHistory
<1>3. /\ r = IF user = "contacts" /\ own.access # 0 THEN own ELSE legacy
      /\ user # "none" /\ (own.grant # 0 => own.access # 0)
  BY <1>1, StoredFacts DEF ReadFor, Users
<1>4. /\ Refreshing' = Refreshing \cup {c} /\ c \notin Refreshing
      /\ asking'[c].user = user /\ asking'[c].read = r
      /\ \A d \in Refreshing : asking'[d] = asking[d]
  BY <1>2, <1>3 DEF Refreshing, IdleCall, TokenTypeInv
<1>5. TokenTypeInv'
  BY <1>2 DEF TokenTypeInv
<1>6. StoresInv'
  BY <1>2, <1>3, <1>4 DEF StoresInv, Sound
<1>7. GrantsInv'
  BY <1>2, <1>3, <1>4 DEF GrantsInv
<1>8. AwaitedInv'
  <2>1. Awaited' = Awaited /\ Stored' = Stored
    BY <1>2 DEF Awaited, Stored, OwnHasTokens
  <2>2. Awaited => own.access # 0
    BY <1>2, <1>3 DEF AwaitedInv
  <2> QED
    BY <1>2, <1>3, <1>4, <2>1, <2>2, StoredFacts DEF AwaitedInv
<1>9. StaysConnected'
  BY <1>2 DEF StaysConnected, Ungranted
<1> QED
  BY <1>2, <1>5, <1>6, <1>7, <1>8, <1>9

\* A token more leaves every record as sound as it was.
LEMMA AppendSound ==
  ASSUME NEW g \in Seq(Nat), NEW t \in Nat
  PROVE  /\ Append(g, t) \in Seq(Nat)
         /\ Len(g) + 1 \in DOMAIN Append(g, t) /\ Append(g, t)[Len(g) + 1] = t
         /\ Len(g) + 1 \in Nat \ {0}
         /\ \A i \in DOMAIN g : i \in DOMAIN Append(g, t) /\ Append(g, t)[i] = g[i]
  BY AppendFacts

LEMMA RefreshAnswersKeeps ==
  ASSUME TokenInv, NEW c \in TokenCallers, RefreshAnswers(c)
  PROVE  TokenInv'
<1> USE DEF TokenInv
<1>1. PICK r \in TokenRecords : r = asking[c].read
  BY DEF TokenTypeInv
<1>2. PICK t \in Nat \ {0} : t = Len(grantOf) + 1
  BY DEF TokenTypeInv
<1>3. PICK q \in TokenRecords :
        /\ q = Refreshed(c, t)
        /\ q.access = t /\ q.grant = r.grant
        /\ asking[c].user # "owner" => q.state = r.state
  <2>1. \A s \in Nat : /\ [r EXCEPT !.access = t, !.state = s] \in TokenRecords
                      /\ [r EXCEPT !.access = t] \in TokenRecords
    BY DEF TokenRecords
  <2>2. CASE asking[c].user = "owner"
    <3>1. Refreshed(c, t) = [r EXCEPT !.access = t, !.state = 0]
      BY <1>1, <2>2 DEF Refreshed
    <3> QED
      BY <2>1, <2>2, <3>1 DEF TokenRecords
  <2>3. CASE asking[c].user # "owner"
    <3>1. Refreshed(c, t) = [r EXCEPT !.access = t]
      BY <1>1, <2>3 DEF Refreshed
    <3> QED
      BY <2>1, <2>3, <3>1 DEF TokenRecords
  <2> QED
    BY <2>2, <2>3
<1>4. PICK user \in Users : user = asking[c].user
  BY DEF RefreshAnswers, StoresInv
<1>5. /\ c \in Refreshing /\ grantOf' = Append(grantOf, r.grant)
      /\ legacy' = q /\ own' = (IF user = "contacts" THEN q ELSE own)
      /\ asking' = [asking EXCEPT ![c] = IdleCall]
      /\ UNCHANGED <<logins, exchanging, calledBack, latest, latestOwn, overlappedLogin, clean>>
  BY <1>1, <1>2, <1>3, <1>4 DEF RefreshAnswers, loginVars, tokenHistory
<1>6. r.grant \in Nat \ {0} /\ t # 0
  BY <1>1, <1>5 DEF StoresInv, TokenRecords
<1>7. /\ Refreshing' = Refreshing \ {c}
      /\ \A d \in Refreshing' : d \in Refreshing /\ asking'[d] = asking[d]
  BY <1>5 DEF Refreshing, IdleCall, TokenTypeInv
<1>8. /\ grantOf' \in Seq(Nat) /\ t \in DOMAIN grantOf' /\ grantOf'[t] = r.grant
      /\ \A i \in DOMAIN grantOf : i \in DOMAIN grantOf' /\ grantOf'[i] = grantOf[i]
  BY <1>2, <1>5, <1>6, AppendSound DEF TokenTypeInv
<1>9. TokenTypeInv'
  <2>1. IdleCall \in [user : Users \cup {"none"}, read : TokenRecords]
    BY DEF IdleCall, NotConnected, TokenRecords
  <2> QED
    BY <1>5, <1>8, <2>1 DEF TokenTypeInv
<1>10. StoresInv'
  <2>1. \A s \in TokenRecords : Sound(s) => Sound(s)'
    BY <1>8 DEF Sound
  <2>2. Sound(q)'
    BY <1>3, <1>6, <1>8 DEF Sound
  <2>3. Sound(own)' /\ Sound(legacy)'
    <3>1. own' = q \/ own' = own
      BY <1>5
    <3>2. own \in TokenRecords /\ Sound(own)
      BY DEF StoresInv, TokenTypeInv
    <3>3. own' = own => Sound(own)'
      BY <1>8, <3>2 DEF Sound
    <3>4. own' = q => Sound(own)'
      BY <2>2 DEF Sound
    <3>5. Sound(legacy)'
      BY <1>5, <2>2 DEF Sound
    <3> QED
      BY <3>1, <3>3, <3>4, <3>5
  <2>4. ASSUME NEW d \in Refreshing'
        PROVE  /\ Sound(asking[d].read)'
               /\ asking'[d].read.grant # 0 /\ asking'[d].user \in Users
    <3>1. d \in Refreshing /\ asking'[d] = asking[d] /\ Sound(asking[d].read)
      BY <1>7 DEF StoresInv
    <3>2. Sound(asking[d].read)'
      BY <1>8, <3>1 DEF Sound
    <3> QED
      BY <3>1, <3>2 DEF StoresInv
  <2> QED
    BY <2>3, <2>4 DEF StoresInv
<1>11. own'.grant # 0 /\ own.grant # 0 => own'.grant = own.grant \/ overlappedLogin
  BY <1>1, <1>3, <1>4, <1>5 DEF GrantsInv
<1>12. GrantsInv'
  <2> SUFFICES ASSUME ~overlappedLogin
               PROVE  /\ legacy'.grant \in {latest, own'.grant}
                      /\ \A d \in Refreshing' :
                           /\ asking'[d].read.grant \in {latest, own'.grant}
                           /\ asking'[d].user = "contacts" /\ own'.grant # 0
                                => asking'[d].read.grant = own'.grant
    BY <1>5 DEF GrantsInv
  <2>1. r.grant \in {latest, own.grant}
        /\ (user = "contacts" /\ own.grant # 0 => r.grant = own.grant)
    BY <1>1, <1>4, <1>5 DEF GrantsInv
  <2>2. \/ own'.grant = own.grant
        \/ own.grant = 0 /\ own'.grant = latest /\ r.grant = latest
    BY <1>3, <1>5, <1>6, <2>1
  <2>3. legacy'.grant \in {latest, own'.grant}
    BY <1>3, <1>5, <1>6, <2>1, <2>2
  <2>4. ASSUME NEW d \in Refreshing'
        PROVE  /\ asking'[d].read.grant \in {latest, own'.grant}
               /\ asking'[d].user = "contacts" /\ own'.grant # 0
                    => asking'[d].read.grant = own'.grant
    <3>1. /\ asking'[d] = asking[d] /\ asking[d].read.grant # 0
          /\ asking[d].read.grant \in {latest, own.grant}
          /\ asking[d].user = "contacts" /\ own.grant # 0 => asking[d].read.grant = own.grant
      BY <1>7 DEF GrantsInv, StoresInv
    <3> QED
      BY <2>2, <3>1
  <2> QED
    BY <2>3, <2>4
<1>13. AwaitedInv'
  <2> SUFFICES ASSUME Awaited
               PROVE  /\ exchanging = {} /\ own'.access # 0 /\ Stored'.state = logins
                      /\ \A d \in Refreshing' :
                           asking'[d].user = "contacts" => asking'[d].read.state = logins
    BY <1>5 DEF AwaitedInv, Awaited
  <2>1. own.access # 0 /\ own.state = logins /\ exchanging = {}
    BY <1>5, StoredFacts DEF AwaitedInv
  <2>2. own'.access # 0 /\ own'.state = logins
    BY <1>1, <1>3, <1>4, <1>5, <1>6, <2>1 DEF AwaitedInv
  <2>3. Stored' = own'
    BY <2>2 DEF Stored, OwnHasTokens
  <2> QED
    BY <1>7, <2>1, <2>2, <2>3 DEF AwaitedInv
<1>14. StaysConnected'
  BY <1>3, <1>5, <1>6 DEF StaysConnected
<1>15. ~overlappedLogin' => (latestOwn' # 0 => own'.grant = latestOwn')
  BY <1>5, <1>11, <1>14 DEF StaysConnected
<1> QED
  BY <1>9, <1>10, <1>12, <1>13, <1>14, <1>15

LEMMA RefreshFailsKeeps ==
  ASSUME TokenInv, NEW c \in TokenCallers, RefreshFails(c)
  PROVE  TokenInv'
<1> USE DEF TokenInv
<1>1. /\ asking' = [asking EXCEPT ![c] = IdleCall]
      /\ UNCHANGED <<own, legacy, grantOf, logins, exchanging, calledBack, latest, latestOwn,
                     overlappedLogin, clean>>
  BY DEF RefreshFails, tokenStores, loginVars, tokenHistory
<1>2. \A d \in Refreshing' : d \in Refreshing /\ asking'[d] = asking[d]
  BY <1>1 DEF Refreshing, TokenTypeInv
<1>3. TokenTypeInv'
  <2>1. IdleCall \in [user : Users \cup {"none"}, read : TokenRecords]
    BY DEF IdleCall, NotConnected, TokenRecords
  <2> QED
    BY <1>1, <2>1 DEF TokenTypeInv
<1>4. StoresInv' /\ GrantsInv'
  BY <1>1, <1>2 DEF StoresInv, GrantsInv, Sound
<1>5. AwaitedInv' /\ StaysConnected'
  BY <1>1, <1>2 DEF AwaitedInv, Awaited, Stored, OwnHasTokens, StaysConnected, Ungranted
<1> QED
  BY <1>1, <1>3, <1>4, <1>5

LEMMA StartAuthKeeps == TokenInv /\ StartAuth => TokenInv'
<1> SUFFICES ASSUME TokenInv, StartAuth PROVE TokenInv'
  OBVIOUS
<1> USE DEF TokenInv
<1>1. PICK r \in TokenRecords : r = Stored
  BY DEF Stored, TokenTypeInv
<1>2. PICK k \in Nat : k = logins + 1
  BY DEF TokenTypeInv
<1>3. PICK q \in TokenRecords :
        q = [r EXCEPT !.state = k] /\ q.access = r.access /\ q.grant = r.grant /\ q.state = k
  <2>1. [r EXCEPT !.state = k] \in TokenRecords
    BY DEF TokenRecords
  <2> QED
    BY <2>1 DEF TokenRecords
<1>4. /\ logins' = k /\ own' = q /\ legacy' = q
      /\ clean' = (Refreshing = {} /\ exchanging = {})
      /\ UNCHANGED <<grantOf, exchanging, calledBack, asking, latest, latestOwn, overlappedLogin>>
      /\ Refreshing' = Refreshing
  BY <1>1, <1>2, <1>3 DEF StartAuth, Refreshing
<1>5. r = (IF own.access # 0 THEN own ELSE legacy) /\ (own.grant # 0 => own.access # 0)
  BY <1>1, StoredFacts
<1>6. TokenTypeInv'
  <2>1. clean' \in BOOLEAN
    BY <1>4
  <2> QED
    BY <1>4, <2>1 DEF TokenTypeInv
<1>7. StoresInv'
  <2>1. Sound(own)' /\ Sound(legacy)'
    BY <1>3, <1>4, <1>5 DEF StoresInv, Sound
  <2>2. \A c \in Refreshing' : /\ Sound(asking[c].read)'
                              /\ asking'[c].read.grant # 0 /\ asking'[c].user \in Users
    BY <1>4 DEF StoresInv, Sound
  <2> QED
    BY <2>1, <2>2 DEF StoresInv
<1>8. GrantsInv'
  <2> SUFFICES ASSUME ~overlappedLogin
               PROVE  \A c \in Refreshing : /\ asking[c].read.grant \in {latest, q.grant}
                                            /\ asking[c].user = "contacts" /\ q.grant # 0
                                                 => asking[c].read.grant = q.grant
    BY <1>4 DEF GrantsInv
  <2>1. CASE own.access # 0
    BY <1>3, <1>5, <2>1 DEF GrantsInv
  <2>2. CASE own.access = 0
    <3>1. own.grant = 0
      BY <1>5, <2>2
    <3>2. legacy.grant \in {latest, 0} /\ (latest # 0 => legacy.grant = latest)
      BY <2>2, <3>1 DEF GrantsInv, StaysConnected, Ungranted
    <3>3. \A c \in Refreshing : asking[c].read.grant = latest
      BY <3>1 DEF GrantsInv, StoresInv
    <3> QED
      BY <1>3, <1>5, <2>2, <3>2, <3>3
  <2> QED
    BY <2>1, <2>2
<1>9. AwaitedInv'
  <2>1. Stored'.state = k
    BY <1>3, <1>4 DEF Stored, OwnHasTokens
  <2>2. own'.access # 0 \/ legacy'.grant = 0
    BY <1>4, <1>7 DEF StoresInv, Sound
  <2> QED
    BY <1>4, <2>1, <2>2 DEF AwaitedInv, Awaited
<1>10. StaysConnected'
  BY <1>3, <1>4, <1>5 DEF StaysConnected, Ungranted
<1>11. ~overlappedLogin' => (latestOwn' # 0 => own'.grant = latestOwn')
  BY <1>3, <1>4, <1>5 DEF StaysConnected
<1> QED
  BY <1>6, <1>7, <1>8, <1>9, <1>10, <1>11

LEMMA CallbackKeeps ==
  ASSUME TokenInv, NEW k \in 1..Logins, Callback(k) \/ ExchangeFails(k)
  PROVE  TokenInv'
<1> USE DEF TokenInv
<1>1. /\ UNCHANGED <<own, legacy, grantOf, logins, asking, latest, latestOwn, overlappedLogin, clean>>
      /\ \/ exchanging' \subseteq exchanging
         \/ exchanging' = exchanging \cup {k} /\ Stored.state = k
      /\ calledBack \subseteq calledBack' /\ (k \in calledBack' \/ exchanging' \subseteq exchanging)
  BY DEF Callback, ExchangeFails, StateMatches, tokenStores, tokenHistory
<1>2. TokenTypeInv' /\ StoresInv' /\ GrantsInv' /\ StaysConnected'
  BY <1>1 DEF TokenTypeInv, StoresInv, GrantsInv, StaysConnected, Ungranted, Sound, Refreshing
<1>3. AwaitedInv'
  <2>1. Awaited' => Awaited
    BY <1>1 DEF Awaited
  <2>2. Stored' = Stored /\ Refreshing' = Refreshing
    BY <1>1 DEF Stored, OwnHasTokens, Refreshing
  <2>3. Awaited' => exchanging' = {}
    BY <1>1, <2>1 DEF Awaited, AwaitedInv
  <2> QED
    BY <1>1, <2>1, <2>2, <2>3 DEF AwaitedInv
<1> QED
  BY <1>1, <1>2, <1>3

LEMMA LoginKeeps ==
  ASSUME TokenInv, CalendarLogin \/ \E k \in 1..Logins : ExchangeAnswers(k)
  PROVE  TokenInv'
<1> USE DEF TokenInv
<1>1. PICK t \in Nat \ {0} : t = Len(grantOf) + 1
  BY DEF TokenTypeInv
<1>2. PICK g \in Nat, q \in TokenRecords :
        /\ q.access = t /\ q.grant = g /\ q.state = 0
        /\ grantOf' = Append(grantOf, g) /\ legacy' = q /\ latest' = g
        /\ \/ /\ own' = own /\ latestOwn' = latestOwn
              /\ exchanging' = exchanging /\ clean' = (clean /\ OwnHasTokens)
           \/ own' = q /\ latestOwn' = g /\ g # 0 /\ exchanging # {} /\ clean' = clean
        /\ overlappedLogin' = (overlappedLogin \/ Refreshing # {})
        /\ UNCHANGED <<logins, calledBack, asking>>
  <2>1. \A g \in Nat : [access |-> t, grant |-> g, state |-> 0] \in TokenRecords
    BY DEF TokenRecords
  <2>2. CASE CalendarLogin
    <3>1. PICK g \in {t, legacy.grant} :
            /\ grantOf' = Append(grantOf, g)
            /\ legacy' = [access |-> t, grant |-> g, state |-> 0]
            /\ latest' = g
      BY <1>1, <2>2 DEF CalendarLogin
    <3>2. g \in Nat
      BY <3>1 DEF TokenTypeInv, TokenRecords
    <3> QED
      BY <2>1, <2>2, <3>1, <3>2 DEF CalendarLogin, loginVars
  <2>3. ASSUME NEW k \in 1..Logins, ExchangeAnswers(k)
        PROVE  /\ exchanging # {} /\ grantOf' = Append(grantOf, t)
               /\ own' = [access |-> t, grant |-> t, state |-> 0] /\ legacy' = own'
               /\ latest' = t /\ latestOwn' = t
               /\ overlappedLogin' = (overlappedLogin \/ Refreshing # {})
               /\ UNCHANGED <<logins, calledBack, asking, clean>>
    BY <1>1, <2>3 DEF ExchangeAnswers, Granted
  <2> QED
    BY <2>1, <2>2, <2>3
<1>3. /\ grantOf' \in Seq(Nat) /\ t \in DOMAIN grantOf' /\ grantOf'[t] = g
      /\ \A i \in DOMAIN grantOf : i \in DOMAIN grantOf' /\ grantOf'[i] = grantOf[i]
      /\ t # 0
  BY <1>1, <1>2, AppendSound DEF TokenTypeInv
<1>4. Refreshing' = Refreshing
  BY <1>2 DEF Refreshing
<1>5. TokenTypeInv'
  BY <1>2, <1>3 DEF TokenTypeInv
<1>6. StoresInv'
  <2>1. Sound(own)'
    BY <1>2, <1>3 DEF StoresInv, Sound
  <2>2. Sound(legacy)'
    BY <1>2, <1>3 DEF Sound
  <2>3. ASSUME NEW d \in Refreshing
        PROVE  Sound(asking[d].read)' /\ asking'[d].read.grant # 0 /\ asking'[d].user \in Users
    BY <1>2, <1>3 DEF StoresInv, Sound
  <2> QED
    BY <1>4, <2>1, <2>2, <2>3 DEF StoresInv
<1>7. GrantsInv'
  BY <1>2, <1>4 DEF GrantsInv
<1>8. AwaitedInv'
  <2> SUFFICES ASSUME Awaited'
               PROVE  /\ exchanging' = {} /\ own'.access # 0 /\ Stored'.state = logins
                      /\ \A d \in Refreshing :
                           asking[d].user = "contacts" => asking[d].read.state = logins
    BY <1>2, <1>4 DEF AwaitedInv
  <2>1. Awaited
    BY <1>2 DEF Awaited
  <2>2. own' = own /\ exchanging' = exchanging /\ OwnHasTokens
    BY <1>2, <2>1 DEF AwaitedInv, Awaited
  <2>3. own.access # 0 /\ Stored' = own
    BY <2>2 DEF StoresInv, Sound, OwnHasTokens, Stored
  <2> QED
    BY <2>1, <2>2, <2>3, StoredFacts DEF AwaitedInv
<1>9. StaysConnected'
  BY <1>2 DEF StaysConnected, Ungranted
<1>10. ~overlappedLogin' => (latestOwn' # 0 => own'.grant = latestOwn')
  BY <1>2
<1> QED
  BY <1>5, <1>6, <1>7, <1>8, <1>9, <1>10

\* However contacts, calendar and owner refresh tokens and the owner logs in meanwhile:
\* tokens are kept with the grant they belong to, the newest grant is kept and the newest
\* login can be completed, with the exceptions the properties name, and who is connected
\* stays so (google-contacts.ts, calendar-runtime.ts, control-actions.ts).
THEOREM TokensAreCorrect == ServicesSpec => []TokensCorrect
<1>1. TokenInv => TokensCorrect
  <2> SUFFICES ASSUME TokenInv PROVE TokensCorrect
    OBVIOUS
  <2> USE DEF TokenInv
  <2>1. PairsMatch
    BY DEF StoresInv, Sound, PairsMatch
  <2>2. NewestGrantKept
    BY DEF GrantsInv, NewestGrantKept
  <2>3. LoginCanComplete
    BY DEF AwaitedInv, Awaited, LoginCanComplete
  <2> QED
    BY <2>1, <2>2, <2>3 DEF TokensCorrect
<1>2. ServicesInit => TokenInv
  <2> SUFFICES ASSUME TokensInit PROVE TokenInv
    BY DEF ServicesInit
  <2> USE DEF TokensInit
  <2>1. /\ NotConnected \in TokenRecords /\ NotConnected.grant = 0 /\ NotConnected.access = 0
        /\ legacy \in TokenRecords /\ legacy.state = 0
        /\ legacy.access = legacy.grant /\ legacy.grant \in {0, 1}
    BY DEF NotConnected, TokenRecords
  <2>2. Refreshing = {}
    BY DEF Refreshing
  <2>3. grantOf \in Seq(Nat) /\ (legacy.grant = 1 => grantOf = <<1>>)
    <3>1. <<>> \in Seq(Nat) /\ <<1>> \in Seq(Nat)
      OBVIOUS
    <3>2. CASE legacy.grant = 0
      BY <3>1, <3>2
    <3>3. CASE legacy.grant = 1
      BY <3>1, <3>3
    <3> QED
      BY <2>1, <3>2, <3>3
  <2>4. TokenTypeInv
    <3>1. IdleCall \in [user : Users \cup {"none"}, read : TokenRecords]
      BY <2>1 DEF IdleCall
    <3>2. asking \in [TokenCallers -> [user : Users \cup {"none"}, read : TokenRecords]]
      BY <3>1
    <3>3. own \in TokenRecords /\ latest \in Nat /\ latestOwn \in Nat /\ logins \in Nat
      BY <2>1
    <3>4. overlappedLogin \in BOOLEAN /\ clean \in BOOLEAN
      OBVIOUS
    <3> QED
      BY <2>1, <2>3, <3>2, <3>3, <3>4 DEF TokenTypeInv
  <2>5. StoresInv
    BY <2>1, <2>2, <2>3 DEF StoresInv, Sound
  <2>6. GrantsInv /\ AwaitedInv /\ StaysConnected
    BY <2>1, <2>2 DEF GrantsInv, AwaitedInv, Awaited, StaysConnected, Ungranted
  <2> QED
    BY <2>1, <2>4, <2>5, <2>6 DEF TokenInv
<1>3. TokenInv /\ [ServicesNext]_servicesVars => TokenInv'
  <2>1. TokenInv /\ UNCHANGED tokenVars => TokenInv'
    <3> SUFFICES ASSUME TokenInv, UNCHANGED tokenVars PROVE TokenInv'
      OBVIOUS
    <3>1. UNCHANGED <<own, legacy, grantOf, logins, exchanging, calledBack, asking, latest,
                      latestOwn, overlappedLogin, clean>>
      BY DEF tokenVars, tokenStores, loginVars, tokenHistory
    <3>2. TokenTypeInv' /\ StoresInv' /\ GrantsInv'
      BY <3>1 DEF TokenInv, TokenTypeInv, StoresInv, GrantsInv, Sound, Refreshing
    <3>3. AwaitedInv' /\ StaysConnected'
      BY <3>1 DEF TokenInv, AwaitedInv, Awaited, Stored, OwnHasTokens, Refreshing,
                  StaysConnected, Ungranted
    <3> QED
      BY <3>1, <3>2, <3>3 DEF TokenInv
  <2>2. TokenInv /\ TokensNext => TokenInv'
    BY AskKeeps, RefreshAnswersKeeps, RefreshFailsKeeps, StartAuthKeeps, CallbackKeeps,
       LoginKeeps DEF TokensNext
  <2> QED
    BY <2>1, <2>2 DEF ServicesNext, servicesVars
<1> QED
  BY <1>1, <1>2, <1>3, PTL DEF ServicesSpec

-----------------------------------------------------------------------------
(* The watcher of the agents' requests *)

Kinds == {"message", "tool"}

IpcTypeInv ==
  /\ dirs \subseteq IpcDirs /\ cached \subseteq dirs /\ watched = cached
  /\ spool \subseteq IpcRequests /\ listed \subseteq spool /\ current \subseteq spool
  /\ todo \in Seq([dir : IpcDirs, kind : Kinds])
  /\ acted \in BOOLEAN
  /\ asker \in [IpcRequests -> {"quiet", "waiting", "answered", "refused", "gaveUp"}]
  /\ carriedOut \in [IpcRequests -> Nat] /\ interrupted \in [IpcRequests -> Nat]
  /\ shown \in [IpcDirs -> Nat] /\ pardons \in [IpcDirs -> Nat]

\* One file at a time, and what takes effect is being processed.
OneFile ==
  /\ \A r, q \in current : r = q
  /\ \A r \in current : r \notin listed
  /\ current = {} => ~acted

\* What has not been asked has not happened; a request still in its directory has taken
\* effect as often as restarts hit it, but for the one whose unlink is still to come.
Effect(r) == IF acted /\ r \in current THEN 1 ELSE 0
EffectInv ==
  \A r \in IpcRequests :
    /\ asker[r] = "quiet" => r \notin spool /\ carriedOut[r] = 0
    /\ r \in spool => carriedOut[r] <= interrupted[r] + Effect(r)

\* A text was shown, or is about to be, once for each time it could be.
Owed(d) == IF ~acted /\ \E r \in current : r.kind = "message" /\ r.dir = d THEN 1 ELSE 0
InWindow(d) == IF d \in recent THEN 1 ELSE 0
EchoInv == \A d \in IpcDirs : shown[d] + Owed(d) <= pardons[d] + InWindow(d)

IpcInv ==
  /\ IpcTypeInv
  /\ OneFile
  /\ NotOverlooked
  /\ EffectInv
  /\ CarriedOutOnce
  /\ EchoInv

\* A finite set listed as a sequence, as SetToSeq does, is listed whole.
LEMMA ListedWhole ==
  ASSUME NEW S, IsFiniteSet(S)
  PROVE  /\ SetToSeq(S) \in Seq(S)
         /\ \A x \in S : \E i \in 1..Len(SetToSeq(S)) : SetToSeq(S)[i] = x
<1>1. PICK n \in Nat : n = Cardinality(S) /\ ExistsBijection(1..n, S)
  BY FS_CardinalityType
<1>2. \E f \in [1..n -> S] : IsInjective(f)
  BY <1>1 DEF ExistsBijection, Bijection, Injection
<1>3. PICK f \in [1..n -> S] : IsInjective(f) /\ f = SetToSeq(S)
  BY <1>1, <1>2 DEF SetToSeq
<1>4. f \in Injection(1..n, S)
  BY <1>3 DEF Injection
<1>5. IsFiniteSet(1..n) /\ Cardinality(1..n) = n
  BY FS_Interval
<1>6. f \in Surjection(1..n, S)
  BY <1>1, <1>4, <1>5, FS_Injection
<1>7. f \in Seq(S) /\ Len(f) = n
  BY <1>3
<1> QED
  BY <1>3, <1>6, <1>7 DEF Surjection

\* Both listings of each directory are made.
LEMMA ListingFacts ==
  ASSUME NEW S, NEW order \in Seq(S)
  PROVE  /\ Listings(order) \in Seq([dir : S, kind : Kinds])
         /\ \A i \in 1..Len(order), kind \in Kinds :
              Contains(Listings(order), [dir |-> order[i], kind |-> kind])
<1>1. PICK n \in Nat : n = Len(order)
  OBVIOUS
<1>2. \A i \in 1..(2 * n) : (i + 1) \div 2 \in 1..n
  OBVIOUS
<1>3. Listings(order) \in [1..(2 * n) -> [dir : S, kind : Kinds]]
  <2>1. \A i \in 1..(2 * n) : order[(i + 1) \div 2] \in S
    BY <1>1, <1>2
  <2> QED
    BY <1>1, <2>1 DEF Listings, Kinds
<1>4. 2 * n \in Nat /\ Listings(order) \in Seq([dir : S, kind : Kinds])
      /\ Len(Listings(order)) = 2 * n
  <2>1. PICK m \in Nat : m = 2 * n
    OBVIOUS
  <2>2. ASSUME NEW R, NEW l \in [1..m -> R]
        PROVE  l \in Seq(R) /\ Len(l) = m
    OBVIOUS
  <2>3. Listings(order) \in [1..m -> [dir : S, kind : Kinds]]
    BY <1>3, <2>1
  <2> QED
    BY <2>1, <2>2, <2>3
<1>5. ASSUME NEW i \in 1..n, NEW kind \in Kinds
      PROVE  \E j \in 1..(2 * n) : Listings(order)[j] = [dir |-> order[i], kind |-> kind]
  <2>1. CASE kind = "message"
    <3>1. 2 * i - 1 \in 1..(2 * n) /\ (2 * i - 1 + 1) \div 2 = i /\ (2 * i - 1) % 2 = 1
      OBVIOUS
    <3> QED
      BY <1>1, <2>1, <3>1 DEF Listings
  <2>2. CASE kind = "tool"
    <3>1. 2 * i \in 1..(2 * n) /\ (2 * i + 1) \div 2 = i /\ (2 * i) % 2 = 0
      OBVIOUS
    <3> QED
      BY <1>1, <2>2, <3>1 DEF Listings
  <2> QED
    BY <2>1, <2>2 DEF Kinds
<1> QED
  BY <1>1, <1>4, <1>5 DEF Contains

\* What a request is, and what a sequence has in front.
LEMMA RequestFacts ==
  IpcInv => /\ \A r \in IpcRequests : r.dir \in IpcDirs /\ r.kind \in Kinds
            /\ \A r \in spool : carriedOut[r] <= interrupted[r] + Effect(r)
BY IpcAssumption DEF IpcInv, IpcTypeInv, EffectInv, Kinds

LEMMA GroupAppearsKeeps ==
  ASSUME IpcInv, NEW d \in IpcDirs, GroupAppears(d)
  PROVE  IpcInv'
<1> USE DEF IpcInv
<1>1. /\ dirs' = dirs \cup {d}
      /\ UNCHANGED <<spool, dirty, dirEvent, asker, recent, cached, watched, sweeping, todo,
                     listed, current, acted, carriedOut, interrupted, shown, pardons>>
  BY DEF GroupAppears, cacheVars, sweepVars, ipcHistory
<1>2. IpcTypeInv' /\ OneFile' /\ CarriedOutOnce'
  BY <1>1 DEF IpcTypeInv, OneFile, CarriedOutOnce
<1>3. NotOverlooked'
  BY <1>1 DEF NotOverlooked
<1>4. EffectInv' /\ EchoInv'
  BY <1>1 DEF EffectInv, Effect, EchoInv, Owed, InWindow
<1> QED
  BY <1>2, <1>3, <1>4

LEMMA AsksKeeps ==
  ASSUME IpcInv, NEW r \in IpcRequests, Asks(r)
  PROVE  IpcInv'
<1> USE DEF IpcInv
<1>1. /\ asker[r] = "quiet" /\ r.dir \in dirs /\ spool' = spool \cup {r}
      /\ dirEvent' = (dirEvent \/ r.dir \in watched)
      /\ asker' = [asker EXCEPT ![r] = IF r.kind = "tool" THEN "waiting" ELSE "answered"]
      /\ UNCHANGED <<dirs, dirty, recent, cached, watched, sweeping, todo, listed, current,
                     acted, carriedOut, interrupted, shown, pardons>>
  BY DEF Asks, cacheVars, sweepVars, ipcHistory
<1>2. IpcTypeInv' /\ OneFile' /\ CarriedOutOnce'
  BY <1>1 DEF IpcTypeInv, OneFile, CarriedOutOnce
<1>3. NotOverlooked'
  BY <1>1 DEF NotOverlooked
<1>4. EffectInv'
  <2> SUFFICES ASSUME NEW q \in IpcRequests
               PROVE  /\ asker'[q] = "quiet" => q \notin spool' /\ carriedOut[q] = 0
                      /\ q \in spool' => carriedOut[q] <= interrupted[q] + Effect(q)
    BY <1>1 DEF EffectInv, Effect
  <2>1. CASE q = r
    <3>1. carriedOut[r] = 0 /\ interrupted[r] \in Nat /\ Effect(r) \in Nat
      BY <1>1 DEF EffectInv, IpcTypeInv, Effect
    <3>2. asker'[r] # "quiet"
      BY <1>1 DEF IpcTypeInv
    <3> QED
      BY <2>1, <3>1, <3>2
  <2>2. CASE q # r
    BY <1>1, <2>2 DEF EffectInv, IpcTypeInv
  <2> QED
    BY <2>1, <2>2
<1>5. EchoInv'
  BY <1>1 DEF EchoInv, Owed, InWindow
<1> QED
  BY <1>2, <1>3, <1>4, <1>5

LEMMA GivesUpKeeps ==
  ASSUME IpcInv, NEW r \in IpcRequests, GivesUp(r)
  PROVE  IpcInv'
<1> USE DEF IpcInv
<1>1. /\ asker[r] = "waiting" /\ asker' = [asker EXCEPT ![r] = "gaveUp"]
      /\ UNCHANGED <<dirs, spool, dirty, dirEvent, recent, cached, watched, sweeping, todo,
                     listed, current, acted, carriedOut, interrupted, shown, pardons>>
  BY DEF GivesUp, cacheVars, sweepVars, ipcHistory
<1>2. IpcTypeInv' /\ OneFile' /\ CarriedOutOnce' /\ NotOverlooked'
  BY <1>1 DEF IpcTypeInv, OneFile, CarriedOutOnce, NotOverlooked
<1>3. EffectInv' /\ EchoInv'
  BY <1>1 DEF EffectInv, Effect, EchoInv, Owed, InWindow, IpcTypeInv
<1> QED
  BY <1>2, <1>3

LEMMA NotifiedKeeps == IpcInv /\ Notified => IpcInv'
<1> SUFFICES ASSUME IpcInv, Notified PROVE IpcInv'
  OBVIOUS
<1> USE DEF IpcInv
<1>1. /\ dirty' = TRUE
      /\ UNCHANGED <<dirs, spool, asker, recent, cached, watched, sweeping, todo,
                     listed, current, acted, carriedOut, interrupted, shown, pardons>>
  BY DEF Notified, cacheVars, sweepVars, ipcHistory
<1>2. IpcTypeInv' /\ OneFile' /\ CarriedOutOnce' /\ NotOverlooked'
  BY <1>1 DEF IpcTypeInv, OneFile, CarriedOutOnce, NotOverlooked
<1>3. EffectInv' /\ EchoInv'
  BY <1>1 DEF EffectInv, Effect, EchoInv, Owed, InWindow
<1> QED
  BY <1>2, <1>3

LEMMA TickKeeps ==
  ASSUME IpcInv, NEW slow \in BOOLEAN, Tick(slow)
  PROVE  IpcInv'
<1> USE DEF IpcInv
<1>1. /\ sweeping' = TRUE /\ listed' = {}
      /\ cached' \subseteq dirs /\ watched' = cached'
      /\ todo' = Listings(SetToSeq(cached'))
      /\ UNCHANGED <<dirs, spool, current, acted, asker, recent, carriedOut, interrupted, shown,
                     pardons>>
  BY DEF Tick, ipcHistory, IpcTypeInv
<1>2. PICK S : S = cached' /\ S \subseteq IpcDirs /\ IsFiniteSet(S)
  <2>1. cached' \in SUBSET IpcDirs
    BY <1>1 DEF IpcTypeInv
  <2> QED
    BY <2>1, FS_Subset, IpcAssumption
<1>3. PICK order \in Seq(S) : /\ order = SetToSeq(S)
                             /\ \A x \in S : \E i \in 1..Len(order) : order[i] = x
  BY <1>2, ListedWhole
<1>4. /\ Listings(order) \in Seq([dir : S, kind : Kinds])
      /\ \A d \in S, kind \in Kinds : Contains(Listings(order), [dir |-> d, kind |-> kind])
  BY <1>3, ListingFacts
<1>5. IpcTypeInv' /\ OneFile' /\ CarriedOutOnce'
  <2>1. todo' \in Seq([dir : IpcDirs, kind : Kinds])
    <3>1. [dir : S, kind : Kinds] \subseteq [dir : IpcDirs, kind : Kinds]
      BY <1>2
    <3>2. ASSUME NEW A, NEW B, A \subseteq B, NEW l \in Seq(A)
          PROVE  l \in Seq(B)
      BY <3>2
    <3>3. todo' = Listings(order)
      BY <1>1, <1>2, <1>3
    <3>4. Listings(order) \in Seq([dir : IpcDirs, kind : Kinds])
      BY <1>4, <3>1, <3>2, ZenonT(30)
    <3> QED
      BY <3>3, <3>4
  <2> QED
    BY <1>1, <2>1 DEF IpcTypeInv, OneFile, CarriedOutOnce
<1>6. NotOverlooked'
  <2> SUFFICES ASSUME NEW r \in spool, r.dir \in S
               PROVE  Contains(todo', r)
    BY <1>1, <1>2 DEF NotOverlooked
  <2>1. r.kind \in Kinds /\ r = [dir |-> r.dir, kind |-> r.kind]
    BY IpcAssumption DEF IpcTypeInv, Kinds
  <2>2. Contains(Listings(order), r)
    BY <1>4, <2>1
  <2> QED
    BY <1>1, <1>2, <1>3, <2>2
<1>7. EffectInv' /\ EchoInv'
  BY <1>1 DEF EffectInv, Effect, EchoInv, Owed, InWindow
<1> QED
  BY <1>5, <1>6, <1>7

LEMMA ListsKeeps == IpcInv /\ Lists => IpcInv'
<1> SUFFICES ASSUME IpcInv, Lists PROVE IpcInv'
  OBVIOUS
<1> USE DEF IpcInv
<1>1. /\ sweeping /\ current = {} /\ listed = {} /\ todo # <<>>
      /\ listed' = spool \cap {Head(todo)} /\ todo' = Tail(todo)
      /\ UNCHANGED <<dirs, spool, dirty, dirEvent, asker, recent, cached, watched, sweeping,
                     current, acted, carriedOut, interrupted, shown, pardons>>
  BY DEF Lists, cacheVars, ipcHistory
<1>2. PICK D : D = [dir : IpcDirs, kind : Kinds] /\ todo \in Seq(D)
  BY DEF IpcTypeInv
<1>3. /\ Tail(todo) \in Seq(D)
      /\ \A r : Contains(todo, r) => r = Head(todo) \/ Contains(Tail(todo), r)
  <2>1. /\ Tail(todo) \in Seq(D) /\ Len(todo) \in Nat /\ Len(Tail(todo)) = Len(todo) - 1
        /\ Head(todo) = todo[1]
        /\ \A i \in 1..(Len(todo) - 1) : Tail(todo)[i] = todo[i + 1]
    BY <1>1, <1>2
  <2>2. ASSUME NEW i \in 1..Len(todo), i # 1
        PROVE  i - 1 \in 1..Len(Tail(todo)) /\ Tail(todo)[i - 1] = todo[i]
    <3>1. i - 1 \in 1..(Len(todo) - 1) /\ i - 1 + 1 = i
      BY <2>1, <2>2
    <3> QED
      BY <2>1, <3>1
  <2> QED
    BY <2>1, <2>2 DEF Contains
<1>4. IpcTypeInv' /\ OneFile' /\ CarriedOutOnce'
  BY <1>1, <1>2, <1>3 DEF IpcTypeInv, OneFile, CarriedOutOnce
<1>5. NotOverlooked'
  <2> SUFFICES ASSUME NEW r \in spool, r.dir \in watched
               PROVE  dirty \/ dirEvent \/ r \in listed' \/ Contains(todo', r)
    BY <1>1 DEF NotOverlooked
  <2> QED
    BY <1>1, <1>3 DEF NotOverlooked
<1>6. EffectInv' /\ EchoInv'
  BY <1>1 DEF EffectInv, Effect, EchoInv, Owed, InWindow
<1> QED
  BY <1>4, <1>5, <1>6

LEMMA SweepEndsKeeps == IpcInv /\ SweepEnds => IpcInv'
<1> SUFFICES ASSUME IpcInv, SweepEnds PROVE IpcInv'
  OBVIOUS
<1> USE DEF IpcInv
<1>1. /\ current = {} /\ listed = {} /\ todo = <<>> /\ dirty' = dirty
      /\ UNCHANGED <<dirs, spool, dirEvent, asker, recent, cached, watched, todo, listed,
                     current, acted, carriedOut, interrupted, shown, pardons>>
  BY DEF SweepEnds, SweepDone, cacheVars, ipcHistory
<1>2. IpcTypeInv' /\ OneFile' /\ CarriedOutOnce'
  BY <1>1 DEF IpcTypeInv, OneFile, CarriedOutOnce
<1>3. NotOverlooked'
  <2>1. \A r : ~Contains(todo, r)
    BY <1>1 DEF Contains
  <2> QED
    BY <1>1, <2>1 DEF NotOverlooked
<1>4. EffectInv' /\ EchoInv'
  BY <1>1 DEF EffectInv, Effect, EchoInv, Owed, InWindow
<1> QED
  BY <1>2, <1>3, <1>4

LEMMA TakesKeeps ==
  ASSUME IpcInv, NEW r \in IpcRequests, Takes(r)
  PROVE  IpcInv'
<1> USE DEF IpcInv
<1>1. /\ r \in listed /\ r \in spool /\ current = {} /\ ~acted /\ listed' = listed \ {r}
      /\ \/ /\ spool' = spool \ {r} /\ UNCHANGED <<current, recent>>
         \/ /\ ~(r.kind = "message" /\ r.dir \in recent)
            /\ current' = {r} /\ spool' = spool
            /\ recent' = IF r.kind = "message" THEN recent \cup {r.dir} ELSE recent
      /\ UNCHANGED <<dirs, dirty, dirEvent, asker, cached, watched, sweeping, todo, acted,
                     carriedOut, interrupted, shown, pardons>>
  BY DEF Takes, Duplicate, cacheVars, ipcHistory, IpcTypeInv, OneFile
<1>2. IpcTypeInv' /\ OneFile' /\ CarriedOutOnce'
  BY <1>1 DEF IpcTypeInv, OneFile, CarriedOutOnce
<1>3. NotOverlooked'
  BY <1>1 DEF NotOverlooked
<1>4. EffectInv'
  <2>1. \A q \in IpcRequests : Effect(q)' = 0 /\ Effect(q) = 0
    BY <1>1 DEF Effect
  <2>2. spool' \subseteq spool
    BY <1>1
  <2> QED
    BY <1>1, <2>1, <2>2 DEF EffectInv
<1>5. EchoInv'
  <2> SUFFICES ASSUME NEW d \in IpcDirs
               PROVE  shown[d] + Owed(d)' <= pardons[d] + InWindow(d)'
    BY <1>1 DEF EchoInv
  <2>1. /\ shown[d] \in Nat /\ pardons[d] \in Nat /\ Owed(d) = 0
        /\ shown[d] <= pardons[d] + InWindow(d)
    BY <1>1 DEF IpcTypeInv, EchoInv, Owed
  <2>2. CASE UNCHANGED <<current, recent>>
    BY <1>1, <2>1, <2>2 DEF Owed, InWindow
  <2>3. CASE /\ ~(r.kind = "message" /\ r.dir \in recent) /\ current' = {r}
             /\ recent' = IF r.kind = "message" THEN recent \cup {r.dir} ELSE recent
    <3>1. CASE r.kind = "message" /\ r.dir = d
      BY <2>1, <2>3, <3>1 DEF Owed, InWindow
    <3>2. CASE ~(r.kind = "message" /\ r.dir = d)
      BY <2>1, <2>3, <3>2 DEF Owed, InWindow
    <3> QED
      BY <3>1, <3>2
  <2> QED
    BY <1>1, <2>2, <2>3
<1> QED
  BY <1>2, <1>3, <1>4, <1>5

LEMMA TakesEffectKeeps == IpcInv /\ TakesEffect => IpcInv'
<1> SUFFICES ASSUME IpcInv, TakesEffect PROVE IpcInv'
  OBVIOUS
<1> USE DEF IpcInv
<1>1. PICK r \in current : Acts(r)
  BY DEF TakesEffect
<1>2. /\ r \in IpcRequests /\ r \in spool /\ r.dir \in IpcDirs /\ current = {r} /\ ~acted /\ acted'
      /\ carriedOut' = [carriedOut EXCEPT ![r] = @ + 1]
      /\ shown' = IF r.kind = "message" THEN [shown EXCEPT ![r.dir] = @ + 1] ELSE shown
      /\ UNCHANGED <<dirs, spool, dirty, dirEvent, asker, recent, cached, watched, sweeping,
                     todo, listed, current, interrupted, pardons>>
  BY <1>1, RequestFacts, ZenonT(30) DEF TakesEffect, Acts, cacheVars, IpcTypeInv, OneFile
<1>3. acted' \in BOOLEAN
  BY DEF TakesEffect
<1>4. IpcTypeInv' /\ OneFile' /\ NotOverlooked'
  BY <1>2, <1>3, SMTT(30) DEF IpcTypeInv, OneFile, NotOverlooked
<1>5. carriedOut[r] \in Nat /\ interrupted[r] \in Nat /\ carriedOut[r] <= interrupted[r]
      /\ carriedOut'[r] = carriedOut[r] + 1
      /\ \A q \in IpcRequests : q # r => carriedOut'[q] = carriedOut[q]
  BY <1>2 DEF IpcTypeInv, EffectInv, Effect
<1>6. CarriedOutOnce'
  <2> SUFFICES ASSUME NEW q \in IpcRequests
               PROVE  carriedOut'[q] <= 1 + interrupted[q]
    BY <1>2 DEF CarriedOutOnce
  <2>1. CASE q = r
    BY <1>5, <2>1
  <2>2. CASE q # r
    BY <1>5, <2>2 DEF CarriedOutOnce
  <2> QED
    BY <2>1, <2>2
<1>7. EffectInv'
  <2> SUFFICES ASSUME NEW q \in IpcRequests
               PROVE  /\ asker[q] = "quiet" => q \notin spool /\ carriedOut'[q] = 0
                      /\ q \in spool => carriedOut'[q] <= interrupted[q] + Effect(q)'
    BY <1>2 DEF EffectInv
  <2>1. CASE q = r
    <3>1. Effect(q)' = 1 /\ asker[q] # "quiet"
      BY <1>2, <2>1 DEF Effect, EffectInv
    <3> QED
      BY <1>5, <2>1, <3>1
  <2>2. CASE q # r
    <3>1. Effect(q)' = 0 /\ Effect(q) = 0
      BY <1>2, <2>2 DEF Effect
    <3> QED
      BY <1>5, <2>2, <3>1 DEF EffectInv
  <2> QED
    BY <2>1, <2>2
<1>8. EchoInv'
  <2> SUFFICES ASSUME NEW d \in IpcDirs
               PROVE  shown'[d] + Owed(d)' <= pardons[d] + InWindow(d)
    BY <1>2 DEF EchoInv, InWindow
  <2>1. /\ shown[d] \in Nat /\ pardons[d] \in Nat /\ InWindow(d) \in Nat
        /\ shown[d] + Owed(d) <= pardons[d] + InWindow(d) /\ Owed(d)' = 0
    BY <1>2 DEF IpcTypeInv, EchoInv, Owed, InWindow
  <2>2. CASE r.kind = "message" /\ r.dir = d
    <3>1. Owed(d) = 1 /\ shown'[d] = shown[d] + 1
      BY <1>2, <2>2 DEF Owed, IpcTypeInv
    <3> QED
      BY <2>1, <3>1
  <2>3. CASE ~(r.kind = "message" /\ r.dir = d)
    <3>1. Owed(d) = 0 /\ shown'[d] = shown[d]
      BY <1>2, <2>3 DEF Owed, IpcTypeInv
    <3> QED
      BY <2>1, <3>1
  <2> QED
    BY <2>2, <2>3
<1> QED
  BY <1>4, <1>6, <1>7, <1>8

LEMMA LeavesKeeps ==
  ASSUME IpcInv, Finishes \/ Fails
  PROVE  IpcInv'
<1> USE DEF IpcInv
<1>1. PICK r \in current : Answers(r, "answered") \/ Answers(r, "refused")
  BY DEF Finishes, Fails
<1>2. /\ current' = {} /\ spool' = spool \ current /\ ~acted'
      /\ acted' \in BOOLEAN
      /\ UNCHANGED <<dirs, dirty, dirEvent, recent, cached, watched, sweeping, todo, listed,
                     carriedOut, interrupted, shown, pardons>>
  BY DEF Finishes, Fails, Leaves, cacheVars, ipcHistory
<1>3. /\ asker' \in [IpcRequests -> {"quiet", "waiting", "answered", "refused", "gaveUp"}]
      /\ \A q \in IpcRequests : asker'[q] = "quiet" => asker[q] = "quiet"
  BY <1>1 DEF Answers, IpcTypeInv
<1>4. IpcTypeInv' /\ OneFile' /\ CarriedOutOnce'
  BY <1>2, <1>3 DEF IpcTypeInv, OneFile, CarriedOutOnce
<1>5. NotOverlooked'
  BY <1>2 DEF NotOverlooked
<1>6. EffectInv'
  <2> SUFFICES ASSUME NEW q \in IpcRequests
               PROVE  /\ asker'[q] = "quiet" => q \notin spool' /\ carriedOut[q] = 0
                      /\ q \in spool' => carriedOut[q] <= interrupted[q] + Effect(q)'
    BY <1>2 DEF EffectInv
  <2>1. Effect(q)' = 0
    BY <1>2 DEF Effect
  <2>2. q \in spool' => q \in spool /\ Effect(q) = 0
    BY <1>2 DEF Effect
  <2> QED
    BY <1>2, <1>3, <2>1, <2>2 DEF EffectInv
<1>7. EchoInv'
  <2> SUFFICES ASSUME NEW d \in IpcDirs
               PROVE  shown[d] + Owed(d)' <= pardons[d] + InWindow(d)
    BY <1>2 DEF EchoInv, InWindow
  <2>1. /\ shown[d] \in Nat /\ pardons[d] \in Nat /\ InWindow(d) \in Nat /\ Owed(d) \in Nat
        /\ shown[d] + Owed(d) <= pardons[d] + InWindow(d) /\ Owed(d)' = 0
    BY <1>2 DEF IpcTypeInv, EchoInv, Owed, InWindow
  <2> QED
    BY <2>1
<1> QED
  BY <1>4, <1>5, <1>6, <1>7

LEMMA FinalTextKeeps ==
  ASSUME IpcInv, NEW d \in IpcDirs, FinalText(d)
  PROVE  IpcInv'
<1> USE DEF IpcInv
<1>1. /\ d \notin recent /\ recent' = recent \cup {d} /\ shown' = [shown EXCEPT ![d] = @ + 1]
      /\ UNCHANGED <<dirs, spool, dirty, dirEvent, asker, cached, watched, sweeping, todo,
                     listed, current, acted, carriedOut, interrupted, pardons>>
  BY DEF FinalText, Duplicate, cacheVars, sweepVars
<1>2. IpcTypeInv' /\ OneFile' /\ CarriedOutOnce' /\ NotOverlooked' /\ EffectInv'
  BY <1>1 DEF IpcTypeInv, OneFile, CarriedOutOnce, NotOverlooked, EffectInv, Effect
<1>3. EchoInv'
  <2> SUFFICES ASSUME NEW e \in IpcDirs
               PROVE  shown'[e] + Owed(e) <= pardons[e] + InWindow(e)'
    BY <1>1 DEF EchoInv, Owed
  <2>1. /\ shown[e] \in Nat /\ pardons[e] \in Nat /\ Owed(e) \in Nat
        /\ shown[e] + Owed(e) <= pardons[e] + InWindow(e)
    BY DEF IpcTypeInv, EchoInv, Owed
  <2>2. CASE e = d
    <3>1. InWindow(e) = 0 /\ InWindow(e)' = 1 /\ shown'[e] = shown[e] + 1
      BY <1>1, <2>2 DEF InWindow, IpcTypeInv
    <3> QED
      BY <2>1, <3>1
  <2>3. CASE e # d
    <3>1. InWindow(e)' = InWindow(e) /\ shown'[e] = shown[e]
      BY <1>1, <2>3 DEF InWindow, IpcTypeInv
    <3> QED
      BY <2>1, <3>1
  <2> QED
    BY <2>2, <2>3
<1> QED
  BY <1>2, <1>3

LEMMA WindowPassesKeeps ==
  ASSUME IpcInv, NEW d \in IpcDirs, WindowPasses(d)
  PROVE  IpcInv'
<1> USE DEF IpcInv
<1>1. /\ d \in recent /\ recent' = recent \ {d} /\ pardons' = [pardons EXCEPT ![d] = @ + 1]
      /\ UNCHANGED <<dirs, spool, dirty, dirEvent, asker, cached, watched, sweeping, todo,
                     listed, current, acted, carriedOut, interrupted, shown>>
  BY DEF WindowPasses, cacheVars, sweepVars
<1>2. IpcTypeInv' /\ OneFile' /\ CarriedOutOnce' /\ NotOverlooked' /\ EffectInv'
  BY <1>1 DEF IpcTypeInv, OneFile, CarriedOutOnce, NotOverlooked, EffectInv, Effect
<1>3. EchoInv'
  <2> SUFFICES ASSUME NEW e \in IpcDirs
               PROVE  shown[e] + Owed(e) <= pardons'[e] + InWindow(e)'
    BY <1>1 DEF EchoInv, Owed
  <2>1. /\ shown[e] \in Nat /\ pardons[e] \in Nat /\ Owed(e) \in Nat
        /\ shown[e] + Owed(e) <= pardons[e] + InWindow(e)
    BY DEF IpcTypeInv, EchoInv, Owed
  <2>2. CASE e = d
    <3>1. InWindow(e) = 1 /\ InWindow(e)' = 0 /\ pardons'[e] = pardons[e] + 1
      BY <1>1, <2>2 DEF InWindow, IpcTypeInv
    <3> QED
      BY <2>1, <3>1
  <2>3. CASE e # d
    <3>1. InWindow(e)' = InWindow(e) /\ pardons'[e] = pardons[e]
      BY <1>1, <2>3 DEF InWindow, IpcTypeInv
    <3> QED
      BY <2>1, <3>1
  <2> QED
    BY <2>2, <2>3
<1> QED
  BY <1>2, <1>3

LEMMA HostStartsOverKeeps == IpcInv /\ HostStartsOver => IpcInv'
<1> SUFFICES ASSUME IpcInv, HostStartsOver PROVE IpcInv'
  OBVIOUS
<1> USE DEF IpcInv
<1>1. /\ watched' = {} /\ cached' = {} /\ dirty' /\ todo' = <<>> /\ listed' = {}
      /\ current' = {} /\ acted' = FALSE /\ recent' = {}
      /\ asker' = [r \in IpcRequests |-> IF asker[r] = "waiting" THEN "gaveUp" ELSE asker[r]]
      /\ interrupted' = [r \in IpcRequests |->
                           IF acted /\ r \in current THEN interrupted[r] + 1 ELSE interrupted[r]]
      /\ pardons' = [d \in IpcDirs |-> pardons[d] + 1]
      /\ UNCHANGED <<dirs, spool, carriedOut, shown>>
  BY DEF HostStartsOver
<1>2. /\ interrupted' \in [IpcRequests -> Nat] /\ pardons' \in [IpcDirs -> Nat]
      /\ \A r \in IpcRequests : interrupted'[r] = interrupted[r] + Effect(r)
  BY <1>1 DEF IpcTypeInv, Effect
<1>3. IpcTypeInv' /\ OneFile'
  <2>1. todo' \in Seq([dir : IpcDirs, kind : Kinds])
    BY <1>1
  <2>2. asker' \in [IpcRequests -> {"quiet", "waiting", "answered", "refused", "gaveUp"}]
    BY <1>1 DEF IpcTypeInv
  <2> QED
    BY <1>1, <1>2, <2>1, <2>2 DEF IpcTypeInv, OneFile
<1>4. NotOverlooked'
  BY <1>1 DEF NotOverlooked
<1>5. \A r \in IpcRequests : /\ carriedOut[r] \in Nat /\ interrupted[r] \in Nat
                             /\ Effect(r) \in Nat /\ Effect(r)' = 0
                             /\ asker'[r] = "quiet" => asker[r] = "quiet"
  BY <1>1 DEF IpcTypeInv, Effect
<1>6. CarriedOutOnce'
  BY <1>1, <1>2, <1>5 DEF CarriedOutOnce
<1>7. EffectInv'
  BY <1>1, <1>2, <1>5 DEF EffectInv
<1>8. EchoInv'
  <2> SUFFICES ASSUME NEW d \in IpcDirs
               PROVE  shown[d] + Owed(d)' <= pardons'[d] + InWindow(d)'
    BY <1>1 DEF EchoInv
  <2>1. shown[d] \in Nat /\ pardons[d] \in Nat /\ pardons'[d] = pardons[d] + 1
    BY <1>1 DEF IpcTypeInv
  <2>2. Owed(d) \in Nat /\ InWindow(d) \in 0..1
    BY DEF Owed, InWindow
  <2>3. Owed(d)' = 0 /\ InWindow(d)' = 0
    BY <1>1 DEF Owed, InWindow
  <2>4. shown[d] + Owed(d) <= pardons[d] + InWindow(d)
    BY DEF EchoInv
  <2> QED
    BY <2>1, <2>2, <2>3, <2>4
<1> QED
  BY <1>3, <1>4, <1>6, <1>7, <1>8

\* However agents, sweeps, notifications and restarts interleave: no request in a watched
\* directory is overlooked, one takes effect once but for restarts between its effect and
\* its unlink, and a text is shown once within a window of a process (src/ipc.ts).
THEOREM RequestsAreCorrect == ServicesSpec => []RequestsCorrect
<1>1. IpcInv => RequestsCorrect
  <2> SUFFICES ASSUME IpcInv, NEW d \in IpcDirs
               PROVE  shown[d] <= 1 + pardons[d]
    BY DEF IpcInv, RequestsCorrect, NoEcho
  <2>1. /\ shown[d] \in Nat /\ pardons[d] \in Nat /\ Owed(d) \in Nat /\ InWindow(d) \in 0..1
        /\ shown[d] + Owed(d) <= pardons[d] + InWindow(d)
    BY DEF IpcInv, IpcTypeInv, EchoInv, Owed, InWindow
  <2> QED
    BY <2>1
<1>2. ServicesInit => IpcInv
  <2> SUFFICES ASSUME IpcInit PROVE IpcInv
    BY DEF ServicesInit
  <2> USE DEF IpcInit
  <2>1. todo \in Seq([dir : IpcDirs, kind : Kinds])
    OBVIOUS
  <2>2. IpcTypeInv /\ OneFile /\ NotOverlooked
    BY <2>1 DEF IpcTypeInv, OneFile, NotOverlooked
  <2>3. EffectInv /\ CarriedOutOnce
    BY DEF EffectInv, Effect, CarriedOutOnce
  <2>4. EchoInv
    BY DEF EchoInv, Owed, InWindow
  <2> QED
    BY <2>2, <2>3, <2>4 DEF IpcInv
<1>3. IpcInv /\ [ServicesNext]_servicesVars => IpcInv'
  <2>1. IpcInv /\ UNCHANGED ipcVars => IpcInv'
    <3> SUFFICES ASSUME IpcInv, UNCHANGED ipcVars PROVE IpcInv'
      OBVIOUS
    <3>1. UNCHANGED <<dirs, spool, dirty, dirEvent, asker, recent, cached, watched, sweeping,
                      todo, listed, current, acted, carriedOut, interrupted, shown, pardons>>
      BY DEF ipcVars, cacheVars, sweepVars, ipcHistory
    <3>2. IpcTypeInv' /\ OneFile' /\ NotOverlooked' /\ CarriedOutOnce'
      BY <3>1 DEF IpcInv, IpcTypeInv, OneFile, NotOverlooked, CarriedOutOnce
    <3>3. EffectInv' /\ EchoInv'
      BY <3>1 DEF IpcInv, EffectInv, Effect, EchoInv, Owed, InWindow
    <3> QED
      BY <3>2, <3>3 DEF IpcInv
  <2>2. IpcInv /\ IpcNext => IpcInv'
    BY GroupAppearsKeeps, AsksKeeps, GivesUpKeeps, NotifiedKeeps, TickKeeps, ListsKeeps,
       SweepEndsKeeps, TakesKeeps, TakesEffectKeeps, LeavesKeeps, FinalTextKeeps,
       WindowPassesKeeps, HostStartsOverKeeps DEF IpcNext
  <2> QED
    BY <2>1, <2>2 DEF ServicesNext, servicesVars
<1> QED
  BY <1>1, <1>2, <1>3, PTL DEF ServicesSpec

\* The tools of an agent, whole: its requests are carried out once, with the tokens of the
\* last login, for every number of groups, requests, callers and restarts.
THEOREM ToolsAreCorrect == ServicesSpec => []ToolsCorrect
<1>1. RequestsCorrect /\ TokensCorrect => ToolsCorrect
  BY DEF ToolsCorrect
<1> QED
  BY <1>1, RequestsAreCorrect, TokensAreCorrect, PTL

-----------------------------------------------------------------------------
(* The action engine *)

Statuses == {"executing", "succeeded", "failed"}
EngActions == [id : Nat \ {0}, from : Nat \ {0}, to : Nat, status : Statuses]
EngTurns == [at : {"none", "starting", "ending"}, from : Nat, to : Nat, id : Nat,
             sent : BOOLEAN, failed : BOOLEAN]

EngTypeInv ==
  /\ chatMessages \in Seq(EngineTexts)
  /\ engCursor \in 0..Len(chatMessages)
  /\ engTurn \in EngTurns /\ engTurn.id <= Cardinality(acts)
  /\ acts \subseteq EngActions /\ IsFiniteSet(acts)
  /\ ran \subseteq (1..Cardinality(acts)) \X (1..Len(chatMessages))
  /\ engLive \subseteq 1..Cardinality(acts)
  /\ known \subseteq 1..Cardinality(acts) /\ rewound \subseteq 1..Cardinality(acts)
  /\ sameAs \subseteq 1..Len(chatMessages)

\* The actions are numbered, were started for the messages they are about, and with the
\* answered ones account for every message that was recorded.
ActsInv ==
  /\ \A a \in acts : /\ a.id <= Cardinality(acts) /\ a.from <= a.to /\ a.to <= Len(chatMessages)
                     /\ Batch(a) \subseteq events
                     /\ \A m \in Batch(a) : <<a.id, m>> \in ran
  /\ \A a, b \in acts : a.id = b.id => a = b
  /\ \A m \in events : m \in sameAs \/ \E a \in acts : m \in Batch(a)

\* A turn has passed its messages; its flags are those of its own run, and an output or
\* effect of that run shows in them or in the mark.
EngTurnInv ==
  /\ engTurn.at = "none" => engTurn = NoTurn
  /\ engTurn.at # "none" => 1 <= engTurn.from /\ engTurn.from <= engTurn.to /\ engTurn.to <= engCursor
  /\ engTurn.at = "starting" => engTurn.id = 0
  /\ engTurn.failed => engTurn.id # 0
  /\ engTurn.id \notin rewound
  /\ engTurn.id \in known => engTurn.sent \/ engMark
  /\ \A a \in acts : a.id = engTurn.id => a.from = engTurn.from /\ a.to = engTurn.to

\* Turns follow each other and the cursor goes back no further than to where one began:
\* an action that may still be met again is one that was rewound.
Floor == IF engTurn.at = "none" THEN engCursor + 1 ELSE engTurn.from
FloorInv ==
  \A a \in acts : a.from <= Floor /\ (a.id \in rewound \/ a.to < Floor \/ a.id = engTurn.id)

PassedInv ==
  \A m \in 1..engCursor : \/ engTurn.at = "starting" /\ m \in Batch(engTurn)
                          \/ m \in piped \cup cutShort \cup events

EngineInv ==
  /\ EngTypeInv
  /\ ActsInv
  /\ EngTurnInv
  /\ FloorInv
  /\ PassedInv
  /\ SharedOnlyRewound
  /\ KnownStays
  /\ AnsweredOnce
  /\ RecordsFollow

\* The inductive invariant accounts for what the cursor has passed.
LEMMA EngineInvCorrect == EngineInv => EngineCorrect
<1> SUFFICES ASSUME EngineInv, NEW m \in 1..engCursor,
                    ~(engTurn.at = "starting" /\ m \in Batch(engTurn)),
                    m \notin piped \cup sameAs \cup cutShort
             PROVE  \E a \in acts : <<a.id, m>> \in ran /\ (a.status = "executing" => a.id \in engLive)
  BY DEF EngineInv, EngineCorrect, PassedIsAccounted
<1>1. m \in events
  BY DEF EngineInv, PassedInv
<1>2. PICK a \in acts : m \in Batch(a)
  BY <1>1 DEF EngineInv, ActsInv
<1>3. <<a.id, m>> \in ran
  BY <1>2 DEF EngineInv, ActsInv
<1>4. a.status = "executing" => a.id \in engLive
  BY <1>2 DEF EngineInv, RecordsFollow
<1> QED
  BY <1>3, <1>4

\* The ending of a run changes the status of its action alone.
LEMMA StatusFacts ==
  ASSUME EngineInv, NEW id \in engLive, NEW s \in Statuses
  PROVE  /\ WithStatus(id, s) \subseteq EngActions /\ IsFiniteSet(WithStatus(id, s))
         /\ Cardinality(WithStatus(id, s)) = Cardinality(acts)
         /\ \A b \in WithStatus(id, s) : \E a \in acts :
              a.id = b.id /\ a.from = b.from /\ a.to = b.to /\ (a.id = id => b.status = s)
              /\ (a.id # id => b = a)
         /\ \A a \in acts : \E b \in WithStatus(id, s) :
              a.id = b.id /\ a.from = b.from /\ a.to = b.to /\ (a.id # id => b = a)
         /\ \A a, b \in WithStatus(id, s) : a.id = b.id => a = b
<1> DEFINE Marked(a) == IF a.id = id THEN [a EXCEPT !.status = s] ELSE a
           f == [a \in acts |-> Marked(a)]
<1>1. \A a \in acts : /\ Marked(a) \in EngActions
                      /\ Marked(a).id = a.id /\ Marked(a).from = a.from /\ Marked(a).to = a.to
                      /\ a.id = id => Marked(a).status = s
                      /\ a.id # id => Marked(a) = a
  <2> SUFFICES ASSUME NEW a \in EngActions
               PROVE  /\ Marked(a) \in EngActions
                      /\ Marked(a).id = a.id /\ Marked(a).from = a.from /\ Marked(a).to = a.to
                      /\ a.id = id => Marked(a).status = s
                      /\ a.id # id => Marked(a) = a
    BY DEF EngineInv, EngTypeInv
  <2> QED
    BY DEF EngActions
<1>2. \A a, b \in acts : a.id = b.id => a = b
  BY DEF EngineInv, ActsInv
<1>3. WithStatus(id, s) = {Marked(a) : a \in acts}
  BY DEF WithStatus
<1>4. f \in Surjection(acts, WithStatus(id, s))
  BY <1>3 DEF Surjection
<1>5. f \in Injection(acts, WithStatus(id, s))
  <2>1. \A a, b \in acts : Marked(a) = Marked(b) => a = b
    <3> SUFFICES ASSUME NEW a \in acts, NEW b \in acts, Marked(a) = Marked(b) PROVE a = b
      OBVIOUS
    <3>1. Marked(a).id = a.id /\ Marked(b).id = b.id
      BY <1>1
    <3> HIDE DEF Marked
    <3> QED
      BY <1>2, <3>1
  <2> HIDE DEF Marked
  <2> QED
    BY <1>3, <2>1 DEF Injection, IsInjective
<1>6. IsFiniteSet(WithStatus(id, s)) /\ Cardinality(WithStatus(id, s)) = Cardinality(acts)
  <2>1. IsFiniteSet(acts)
    BY DEF EngineInv, EngTypeInv
  <2> QED
    BY <1>4, <1>5, <2>1, FS_Surjection
<1> HIDE DEF Marked, f
<1> QED
  BY <1>1, <1>2, <1>3, <1>6

\* Most steps leave the records alone, and what they say stays true.
LEMMA RecordsStand ==
  ASSUME EngineInv, UNCHANGED <<chatMessages, events, acts, ran, sameAs>>, rewound \subseteq rewound'
  PROVE  ActsInv' /\ AnsweredOnce' /\ SharedOnlyRewound'
<1>1. ActsInv'
  BY DEF EngineInv, ActsInv, Batch
<1>2. AnsweredOnce'
  BY DEF EngineInv, AnsweredOnce, Batch
<1>3. SharedOnlyRewound'
  BY DEF EngineInv, SharedOnlyRewound, Batch
<1> QED
  BY <1>1, <1>2, <1>3

\* What the cursor has not passed yet.
LEMMA MissedFacts ==
  ASSUME EngineInv, Missed # {}
  PROVE  /\ Len(chatMessages) \in Nat /\ engCursor \in Nat /\ engCursor < Len(chatMessages)
         /\ 1..Len(chatMessages) = 1..engCursor \cup Missed
         /\ Missed = (engCursor + 1)..Len(chatMessages)
<1>1. Len(chatMessages) \in Nat /\ engCursor \in 0..Len(chatMessages)
  BY DEF EngineInv, EngTypeInv
<1> QED
  BY <1>1 DEF Missed

LEMMA MessageSaidKeeps ==
  ASSUME EngineInv, NEW t \in EngineTexts, MessageSaid(t)
  PROVE  EngineInv'
<1> USE DEF EngineInv
<1>1. /\ chatMessages' = Append(chatMessages, t)
      /\ UNCHANGED <<engCursor, engTurn, engMark, engLive, events, acts, leases, ran, known, rewound,
                     piped, sameAs, cutShort>>
  BY DEF MessageSaid
<1>2. /\ Len(chatMessages) \in Nat /\ Len(chatMessages') = Len(chatMessages) + 1
      /\ chatMessages' \in Seq(EngineTexts)
      /\ \A m \in 1..Len(chatMessages) : chatMessages'[m] = chatMessages[m]
  BY <1>1, AppendFacts DEF EngTypeInv
<1>3. EngTypeInv'
  BY <1>1, <1>2 DEF EngTypeInv
<1>4. ActsInv'
  <2>1. \A a \in acts : a.to \in Nat
    BY DEF EngTypeInv, EngActions
  <2> QED
    BY <1>1, <1>2, <2>1 DEF ActsInv, Batch
<1>5. EngTurnInv' /\ FloorInv' /\ PassedInv'
  BY <1>1 DEF EngTurnInv, FloorInv, Floor, PassedInv, Batch
<1>6. SharedOnlyRewound' /\ KnownStays' /\ RecordsFollow'
  BY <1>1 DEF SharedOnlyRewound, KnownStays, RecordsFollow, Batch
<1>7. AnsweredOnce'
  <2> SUFFICES ASSUME NEW m \in sameAs
               PROVE  \E a \in acts : /\ a.status = "succeeded"
                                      /\ \E n \in Batch(a) : n # m /\ chatMessages'[n] = chatMessages'[m]
    BY <1>1 DEF AnsweredOnce, Batch
  <2>1. PICK a \in acts : /\ a.status = "succeeded"
                          /\ \E n \in Batch(a) : n # m /\ chatMessages[n] = chatMessages[m]
    BY DEF AnsweredOnce
  <2>2. m \in 1..Len(chatMessages) /\ Batch(a) \subseteq 1..Len(chatMessages)
    BY <1>2 DEF EngTypeInv, EngActions, ActsInv, Batch
  <2> QED
    BY <1>2, <2>1, <2>2
<1> QED
  BY <1>3, <1>4, <1>5, <1>6, <1>7

LEMMA TurnStartsKeeps == EngineInv /\ TurnStarts => EngineInv'
<1> SUFFICES ASSUME EngineInv, TurnStarts PROVE EngineInv'
  OBVIOUS
<1>1. PICK n \in Nat, c \in Nat :
        /\ n = Len(chatMessages) /\ c = engCursor /\ c < n /\ 1..n = 1..c \cup (c + 1)..n
        /\ engTurn = NoTurn /\ engCursor' = n
        /\ engTurn' = [at |-> "starting", from |-> c + 1, to |-> n, id |-> 0, sent |-> FALSE, failed |-> FALSE]
        /\ UNCHANGED <<chatMessages, engMark, engLive, events, acts, leases, ran, known, rewound,
                       piped, sameAs, cutShort>>
  BY MissedFacts DEF TurnStarts, NoTurn
<1>2. ActsInv' /\ AnsweredOnce' /\ SharedOnlyRewound'
  BY <1>1, RecordsStand
<1> USE DEF EngineInv
<1>3. EngTypeInv'
  BY <1>1 DEF EngTypeInv, EngTurns, NoTurn
<1>4. EngTurnInv'
  BY <1>1 DEF EngTurnInv, NoTurn, EngTypeInv, EngActions
<1>5. FloorInv'
  BY <1>1 DEF FloorInv, Floor, NoTurn
<1>6. PassedInv'
  BY <1>1 DEF PassedInv, NoTurn, Batch
<1>7. KnownStays' /\ RecordsFollow'
  BY <1>1 DEF KnownStays, RecordsFollow, Batch
<1> QED
  BY <1>2, <1>3, <1>4, <1>5, <1>6, <1>7

LEMMA PipesKeeps == EngineInv /\ Pipes => EngineInv'
<1> SUFFICES ASSUME EngineInv, Pipes PROVE EngineInv'
  OBVIOUS
<1>1. PICK n \in Nat, c \in Nat :
        /\ n = Len(chatMessages) /\ c = engCursor /\ c < n /\ 1..n = 1..c \cup (c + 1)..n
        /\ engTurn # NoTurn /\ engCursor' = n /\ piped' = piped \cup (c + 1)..n
        /\ UNCHANGED <<chatMessages, engTurn, engMark, engLive, events, acts, leases, ran, known,
                       rewound, sameAs, cutShort>>
  BY MissedFacts DEF Pipes
<1>2. ActsInv' /\ AnsweredOnce' /\ SharedOnlyRewound'
  BY <1>1, RecordsStand
<1> USE DEF EngineInv
<1>3. EngTypeInv'
  BY <1>1 DEF EngTypeInv
<1>4. EngTurnInv'
  BY <1>1 DEF EngTurnInv, EngTypeInv, EngTurns
<1>5. FloorInv'
  BY <1>1 DEF FloorInv, Floor, EngTurnInv
<1>6. PassedInv'
  BY <1>1 DEF PassedInv, Batch
<1>7. KnownStays' /\ RecordsFollow'
  BY <1>1 DEF KnownStays, RecordsFollow, Batch
<1> QED
  BY <1>2, <1>3, <1>4, <1>5, <1>6, <1>7

LEMMA AnswersDuplicateKeeps == EngineInv /\ AnswersDuplicate => EngineInv'
<1> SUFFICES ASSUME EngineInv, AnswersDuplicate PROVE EngineInv'
  OBVIOUS
<1>1. /\ engTurn.at = "starting" /\ Batch(engTurn) \subseteq events
      /\ engTurn' = [engTurn EXCEPT !.at = "ending"]
      /\ UNCHANGED <<chatMessages, engCursor, engMark, engLive, events, acts, leases, ran, known,
                     rewound, piped, sameAs, cutShort>>
  BY DEF AnswersDuplicate, AllSeen
<1>2. ActsInv' /\ AnsweredOnce' /\ SharedOnlyRewound'
  BY <1>1, RecordsStand
<1>3. PICK t \in EngTurns : t = engTurn
  BY DEF EngineInv, EngTypeInv
<1>4. /\ engTurn' \in EngTurns /\ engTurn'.at = "ending"
      /\ engTurn'.from = engTurn.from /\ engTurn'.to = engTurn.to /\ engTurn'.id = engTurn.id
      /\ engTurn'.sent = engTurn.sent /\ engTurn'.failed = engTurn.failed
  BY <1>1, <1>3 DEF EngTurns
<1> USE DEF EngineInv
<1>5. EngTypeInv'
  BY <1>1, <1>4 DEF EngTypeInv
<1>6. EngTurnInv' /\ FloorInv'
  BY <1>1, <1>4 DEF EngTurnInv, FloorInv, Floor
<1>7. PassedInv'
  BY <1>1, <1>4 DEF PassedInv, Batch
<1>8. KnownStays' /\ RecordsFollow'
  BY <1>1 DEF KnownStays, RecordsFollow, Batch
<1> QED
  BY <1>2, <1>5, <1>6, <1>7, <1>8

\* What an equal request says, message by message, and that it is about others.
LEMMA EqualFacts ==
  ASSUME EngineInv, engTurn.at = "starting", ~(Batch(engTurn) \subseteq events),
         NEW a \in acts, Equal(a, engTurn), NEW m \in Batch(engTurn)
  PROVE  \E n \in Batch(a) : n # m /\ chatMessages[n] = chatMessages[m]
<1>0. PICK x \in Nat, y \in Nat, u \in Nat, v \in Nat :
        /\ x = a.from /\ y = a.to /\ x <= y /\ u = engTurn.from /\ v = engTurn.to /\ u <= v
        /\ Batch(a) = x..y /\ Batch(engTurn) = u..v /\ x..y \subseteq events /\ m \in u..v
  BY DEF EngineInv, EngTypeInv, EngActions, EngTurns, ActsInv, EngTurnInv, Batch
<1>o. x <= y /\ u <= v /\ m \in Nat /\ u <= m /\ m <= v
  BY <1>0
<1>1. /\ x = a.from /\ u = engTurn.from /\ Batch(a) = x..y /\ Batch(engTurn) = u..v
      /\ x..y \subseteq events
  BY <1>0
<1>2. Cardinality(x..y) = y - x + 1 /\ Cardinality(u..v) = v - u + 1
  <2>1. x \in Int /\ y \in Int /\ u \in Int /\ v \in Int
    OBVIOUS
  <2>2. Cardinality(x..y) = IF x > y THEN 0 ELSE y - x + 1
    BY <2>1, FS_Interval
  <2>3. Cardinality(u..v) = IF u > v THEN 0 ELSE v - u + 1
    BY <2>1, FS_Interval
  <2> QED
    BY <1>o, <2>2, <2>3
<1>3. PICK c \in Nat, k \in Nat : c = y - x + 1 /\ k = v - u + 1 /\ c > 0 /\ k > 0
  BY <1>o
<1>4. [i \in 1..c |-> chatMessages[x + i - 1]] = [i \in 1..k |-> chatMessages[u + i - 1]]
  BY <1>1, <1>2, <1>3 DEF Equal
<1>5. 1..c = 1..k
  <2>1. DOMAIN [i \in 1..c |-> chatMessages[x + i - 1]] = 1..c
    OBVIOUS
  <2>2. DOMAIN [i \in 1..k |-> chatMessages[u + i - 1]] = 1..k
    OBVIOUS
  <2> QED
    BY <1>4, <2>1, <2>2
<1>6. c = k
  <2>1. c \in 1..c /\ k \in 1..k
    BY <1>3
  <2> QED
    BY <1>5, <2>1
<1>7. x # u
  <2>1. x = u => y = v
    BY <1>3, <1>6
  <2> QED
    BY <1>1, <2>1
<1>8. PICK i \in 1..k : m = u + i - 1
  <2>1. m - u + 1 \in 1..k /\ m = u + (m - u + 1) - 1
    BY <1>o, <1>3
  <2> QED
    BY <2>1
<1>9. chatMessages[x + i - 1] = chatMessages[u + i - 1]
  <2>1. [j \in 1..c |-> chatMessages[x + j - 1]][i] = chatMessages[x + i - 1]
    BY <1>6
  <2>2. [j \in 1..k |-> chatMessages[u + j - 1]][i] = chatMessages[u + i - 1]
    OBVIOUS
  <2> QED
    BY <1>4, <2>1, <2>2
<1>10. x + i - 1 \in x..y /\ x + i - 1 # m
  BY <1>3, <1>6, <1>7, <1>8
<1> QED
  BY <1>1, <1>8, <1>9, <1>10

LEMMA AnswersEqualKeeps == EngineInv /\ AnswersEqual => EngineInv'
<1> SUFFICES ASSUME EngineInv, AnswersEqual PROVE EngineInv'
  OBVIOUS
<1>1. /\ engTurn.at = "starting" /\ ~(Batch(engTurn) \subseteq events)
      /\ events' = events \cup Batch(engTurn) /\ sameAs' = sameAs \cup Batch(engTurn)
      /\ engTurn' = [engTurn EXCEPT !.at = "ending"]
      /\ UNCHANGED <<chatMessages, engCursor, engMark, engLive, acts, leases, ran, known, rewound,
                     piped, cutShort>>
  BY DEF AnswersEqual, AllSeen
<1>2. PICK b \in acts : b.status = "succeeded" /\ Equal(b, engTurn)
  BY DEF AnswersEqual, Answerable
<1>3. PICK t \in EngTurns : t = engTurn
  BY DEF EngineInv, EngTypeInv
<1>4. /\ engTurn' \in EngTurns /\ engTurn'.at = "ending"
      /\ engTurn'.from = engTurn.from /\ engTurn'.to = engTurn.to /\ engTurn'.id = engTurn.id
      /\ engTurn'.sent = engTurn.sent /\ engTurn'.failed = engTurn.failed
  BY <1>1, <1>3 DEF EngTurns
<1>5. Batch(engTurn) \subseteq 1..Len(chatMessages)
  <2>1. engTurn.from \in Nat /\ engTurn.to \in Nat /\ engCursor \in 0..Len(chatMessages)
        /\ Len(chatMessages) \in Nat /\ 1 <= engTurn.from /\ engTurn.to <= engCursor
    BY <1>1, <1>3 DEF EngineInv, EngTypeInv, EngTurnInv, EngTurns
  <2> QED
    BY <2>1 DEF Batch
<1>6. EngTypeInv'
  BY <1>1, <1>4, <1>5 DEF EngineInv, EngTypeInv
<1>7. ActsInv'
  BY <1>1 DEF EngineInv, ActsInv, Batch
<1>8. EngTurnInv' /\ FloorInv'
  BY <1>1, <1>4 DEF EngineInv, EngTurnInv, FloorInv, Floor
<1>9. PassedInv'
  BY <1>1, <1>4 DEF EngineInv, PassedInv, Batch
<1>10. SharedOnlyRewound' /\ KnownStays' /\ RecordsFollow'
  BY <1>1 DEF EngineInv, SharedOnlyRewound, KnownStays, RecordsFollow, Batch
<1>11. AnsweredOnce'
  <2>1. \A m \in Batch(engTurn) : \E n \in Batch(b) : n # m /\ chatMessages[n] = chatMessages[m]
    BY <1>1, <1>2, EqualFacts
  <2>2. \A m \in sameAs : \E a \in acts :
          a.status = "succeeded" /\ \E n \in Batch(a) : n # m /\ chatMessages[n] = chatMessages[m]
    BY DEF EngineInv, AnsweredOnce
  <2> QED
    BY <1>1, <1>2, <2>1, <2>2 DEF AnsweredOnce, Batch
<1> QED
  BY <1>6, <1>7, <1>8, <1>9, <1>10, <1>11 DEF EngineInv

\* A turn with a new message meets an earlier action only if that was rewound, and has
\* newer messages than it.
LEMMA MeetsRewound ==
  ASSUME EngineInv, engTurn.at = "starting", ~(Batch(engTurn) \subseteq events),
         NEW a \in acts, Batch(a) \cap Batch(engTurn) # {}
  PROVE  a.id \in rewound /\ a.to < engTurn.to
<1>1. PICK x \in Nat, y \in Nat, u \in Nat, v \in Nat :
        /\ x = a.from /\ y = a.to /\ u = engTurn.from /\ v = engTurn.to /\ u <= v
        /\ Batch(a) = x..y /\ Batch(engTurn) = u..v /\ x..y \subseteq events
        /\ a.id # 0 /\ engTurn.id = 0
        /\ x <= u /\ (a.id \in rewound \/ y < u \/ a.id = engTurn.id)
  BY DEF EngineInv, EngTypeInv, EngActions, EngTurns, ActsInv, EngTurnInv, FloorInv, Floor, Batch
<1>2. y >= u
  BY <1>1
<1>3. y >= v => u..v \subseteq x..y
  BY <1>1
<1> QED
  BY <1>1, <1>2, <1>3

\* The turn and the action of a run that is started.
LEMMA GivenFacts ==
  ASSUME NEW t \in EngTurns, NEW i \in Nat \ {0}
  PROVE  /\ [t EXCEPT !.at = "ending", !.id = i] \in EngTurns
         /\ [t EXCEPT !.at = "ending", !.id = i].at = "ending"
         /\ [t EXCEPT !.at = "ending", !.id = i].id = i
         /\ [t EXCEPT !.at = "ending", !.id = i].from = t.from
         /\ [t EXCEPT !.at = "ending", !.id = i].to = t.to
         /\ [t EXCEPT !.at = "ending", !.id = i].failed = t.failed
         /\ t.from # 0 => [id |-> i, from |-> t.from, to |-> t.to, status |-> "executing"] \in EngActions
BY DEF EngTurns, EngActions, Statuses

LEMMA RunStartsKeeps == EngineInv /\ RunStarts => EngineInv'
<1> SUFFICES ASSUME EngineInv, RunStarts PROVE EngineInv'
  OBVIOUS
<1>1. PICK k \in Nat : k = Cardinality(acts)
  BY FS_CardinalityType DEF EngineInv, EngTypeInv
<1>2. PICK t \in EngTurns : t = engTurn
  BY DEF EngineInv, EngTypeInv
<1>3. PICK n \in Nat : n = Len(chatMessages) /\ engCursor \in 0..n
  BY DEF EngineInv, EngTypeInv
<1>4. /\ t.at = "starting" /\ t.id = 0 /\ ~t.failed /\ 1 <= t.from /\ t.from <= t.to /\ t.to <= engCursor
      /\ t.from \in Nat \ {0} /\ t.to \in Nat
  BY <1>2 DEF RunStarts, EngineInv, EngTurnInv, EngTurns
<1>5. PICK a \in EngActions : a = [id |-> k + 1, from |-> t.from, to |-> t.to, status |-> "executing"]
  <2>1. k + 1 \in Nat \ {0} /\ t.from # 0
    BY <1>4
  <2>2. [id |-> k + 1, from |-> t.from, to |-> t.to, status |-> "executing"] \in EngActions
    BY <2>1, GivenFacts
  <2> QED
    BY <2>2
<1>6. /\ a.id = k + 1 /\ a.from = t.from /\ a.to = t.to /\ a.status = "executing"
      /\ Batch(a) = t.from..t.to /\ Batch(engTurn) = t.from..t.to /\ t.from..t.to \subseteq 1..n
  BY <1>2, <1>3, <1>4, <1>5 DEF Batch
<1>7. /\ ~(Batch(engTurn) \subseteq events) /\ events' = events \cup Batch(a)
      /\ acts' = acts \cup {a} /\ leases' = leases \cup {k + 1} /\ engLive' = engLive \cup {k + 1}
      /\ ran' = ran \cup {<<k + 1, m>> : m \in Batch(a)}
      /\ engTurn' = [t EXCEPT !.at = "ending", !.id = k + 1]
      /\ UNCHANGED <<chatMessages, engCursor, engMark, known, rewound, piped, sameAs, cutShort>>
  BY <1>1, <1>2, <1>5, <1>6 DEF RunStarts, AllSeen
<1>8. /\ engTurn' \in EngTurns /\ engTurn'.at = "ending" /\ engTurn'.id = k + 1
      /\ engTurn'.from = t.from /\ engTurn'.to = t.to /\ engTurn'.failed = t.failed
  <2>1. k + 1 \in Nat \ {0} /\ engTurn' = [t EXCEPT !.at = "ending", !.id = k + 1]
    BY <1>7
  <2> QED
    BY <2>1, GivenFacts
<1>9. /\ \A b \in acts : b.id \in 1..k /\ b.id # k + 1 /\ b.from \in Nat /\ b.to \in Nat
      /\ engLive \subseteq 1..k /\ known \subseteq 1..k /\ rewound \subseteq 1..k
      /\ ran \subseteq (1..k) \X (1..n)
  BY <1>1, <1>3 DEF EngineInv, EngTypeInv, EngActions, ActsInv
<1>10. IsFiniteSet(acts') /\ Cardinality(acts') = k + 1
  <2>1. a \notin acts
    BY <1>6, <1>9
  <2> QED
    BY <1>1, <1>7, <2>1, FS_AddElement DEF EngineInv, EngTypeInv
<1>11. EngTypeInv'
  <2>1. ran' \subseteq (1..(k + 1)) \X (1..n)
    <3>1. \A m \in Batch(a) : <<k + 1, m>> \in (1..(k + 1)) \X (1..n)
      BY <1>6
    <3>2. ran \subseteq (1..(k + 1)) \X (1..n)
      BY <1>9
    <3> QED
      BY <1>7, <3>1, <3>2
  <2>2. engLive' \subseteq 1..(k + 1) /\ known' \subseteq 1..(k + 1) /\ rewound' \subseteq 1..(k + 1)
    BY <1>7, <1>9
  <2>3. acts' \subseteq EngActions
    BY <1>7 DEF EngineInv, EngTypeInv
  <2> QED
    <3>1. /\ chatMessages' \in Seq(EngineTexts) /\ engCursor' \in 0..Len(chatMessages')
          /\ sameAs' \subseteq 1..Len(chatMessages') /\ Len(chatMessages') = n
      BY <1>3, <1>7 DEF EngineInv, EngTypeInv
    <3>2. engTurn' \in EngTurns /\ engTurn'.id <= Cardinality(acts')
      BY <1>8, <1>10
    <3> QED
      BY <1>10, <2>1, <2>2, <2>3, <3>1, <3>2 DEF EngTypeInv
<1>12. ActsInv'
  <2>1. ASSUME NEW b \in acts'
        PROVE  /\ b.id <= k + 1 /\ b.from <= b.to /\ b.to <= n /\ Batch(b) \subseteq events'
               /\ \A m \in Batch(b) : <<b.id, m>> \in ran'
    <3>1. CASE b \in acts
      BY <1>1, <1>3, <1>7, <1>9, <3>1 DEF EngineInv, ActsInv
    <3>2. CASE b = a
      BY <1>3, <1>4, <1>6, <1>7, <3>2
    <3> QED
      BY <1>7, <3>1, <3>2
  <2>2. \A b, d \in acts' : b.id = d.id => b = d
    BY <1>6, <1>7, <1>9 DEF EngineInv, ActsInv
  <2>3. \A m \in events' : m \in sameAs' \/ \E b \in acts' : m \in Batch(b)
    BY <1>7 DEF EngineInv, ActsInv
  <2> QED
    BY <1>3, <1>7, <1>10, <2>1, <2>2, <2>3 DEF ActsInv, Batch
<1>13. EngTurnInv'
  <2>1. \A b \in acts' : b.id = k + 1 => b.from = t.from /\ b.to = t.to
    BY <1>6, <1>7, <1>9
  <2>2. k + 1 \notin rewound /\ k + 1 \notin known
    BY <1>9
  <2> QED
    BY <1>1, <1>4, <1>7, <1>8, <2>1, <2>2 DEF EngTurnInv
<1>14. FloorInv'
  <2>1. Floor' = t.from /\ Floor = t.from
    BY <1>2, <1>4, <1>8 DEF Floor
  <2>2. \A b \in acts : b.from <= t.from /\ (b.id \in rewound \/ b.to < t.from)
    BY <1>2, <1>4, <1>9, <2>1 DEF EngineInv, FloorInv
  <2> QED
    BY <1>4, <1>6, <1>7, <1>8, <2>1, <2>2 DEF FloorInv
<1>15. PassedInv'
  BY <1>6, <1>7, <1>8 DEF EngineInv, PassedInv
<1>16. SharedOnlyRewound'
  <2>1. \A b, d \in acts : b.id < d.id /\ Batch(b) \cap Batch(d) # {} => b.id \in rewound /\ b.to < d.to
    BY DEF EngineInv, SharedOnlyRewound
  <2>2. \A b \in acts : Batch(b) \cap Batch(a) # {} => b.id \in rewound /\ b.to < a.to
    BY <1>2, <1>4, <1>6, <1>7, MeetsRewound
  <2>3. \A b \in acts : ~(a.id < b.id)
    BY <1>1, <1>6, <1>9
  <2>4. ~(a.id < a.id)
    BY <1>6
  <2> QED
    BY <1>7, <2>1, <2>2, <2>3, <2>4 DEF SharedOnlyRewound, Batch
<1>17. KnownStays' /\ AnsweredOnce'
  BY <1>7 DEF EngineInv, KnownStays, AnsweredOnce, Batch
<1>18. RecordsFollow'
  BY <1>6, <1>7 DEF EngineInv, RecordsFollow, Batch
<1> QED
  BY <1>11, <1>12, <1>13, <1>14, <1>15, <1>16, <1>17, <1>18 DEF EngineInv

LEMMA EngineOutputKeeps ==
  ASSUME EngineInv, NEW id \in Nat, OutputSent(id) \/ OutputFails(id)
  PROVE  EngineInv'
<1>1. /\ id \in engLive /\ engTurn.id = id
      /\ \/ engTurn' = [engTurn EXCEPT !.sent = TRUE] /\ known' = known \cup {id}
         \/ engTurn' = [engTurn EXCEPT !.failed = TRUE] /\ known' = known
      /\ UNCHANGED <<chatMessages, engCursor, engMark, engLive, events, acts, leases, ran, rewound,
                     piped, sameAs, cutShort>>
  BY DEF OutputSent, OutputFails
<1>2. ActsInv' /\ AnsweredOnce' /\ SharedOnlyRewound'
  BY <1>1, RecordsStand
<1>3. PICK t \in EngTurns : t = engTurn
  BY DEF EngineInv, EngTypeInv
<1>4. /\ engTurn' \in EngTurns /\ engTurn'.at = engTurn.at
      /\ engTurn'.from = engTurn.from /\ engTurn'.to = engTurn.to /\ engTurn'.id = engTurn.id
      /\ engTurn'.sent \/ (known' = known /\ engTurn'.sent = engTurn.sent)
  BY <1>1, <1>3 DEF EngTurns
<1>5. id # 0 /\ engTurn.at # "none" /\ id \notin rewound /\ id \in 1..Cardinality(acts)
  BY <1>1 DEF EngineInv, EngTypeInv, EngTurnInv, NoTurn
<1>6. EngTypeInv'
  BY <1>1, <1>4, <1>5 DEF EngineInv, EngTypeInv
<1>7. EngTurnInv' /\ FloorInv'
  BY <1>1, <1>4, <1>5 DEF EngineInv, EngTurnInv, FloorInv, Floor
<1>8. PassedInv'
  BY <1>1, <1>4 DEF EngineInv, PassedInv, Batch
<1>9. KnownStays' /\ RecordsFollow'
  BY <1>1, <1>5 DEF EngineInv, KnownStays, RecordsFollow, Batch
<1> QED
  BY <1>2, <1>6, <1>7, <1>8, <1>9 DEF EngineInv

LEMMA EffectMarkedKeeps ==
  ASSUME EngineInv, NEW id \in Nat, EffectMarked(id)
  PROVE  EngineInv'
<1>1. /\ id \in 1..Cardinality(acts) /\ engMark'
      /\ known' \subseteq known \cup ({engTurn.id} \cap 1..Cardinality(acts))
      /\ UNCHANGED <<chatMessages, engCursor, engTurn, engLive, events, acts, leases, ran, rewound,
                     piped, sameAs, cutShort>>
  BY DEF EffectMarked, EngineInv, EngTypeInv
<1>2. ActsInv' /\ AnsweredOnce' /\ SharedOnlyRewound'
  BY <1>1, RecordsStand
<1> USE DEF EngineInv
<1>3. EngTypeInv'
  BY <1>1 DEF EngTypeInv
<1>4. EngTurnInv' /\ FloorInv' /\ PassedInv'
  BY <1>1 DEF EngTurnInv, FloorInv, Floor, PassedInv, Batch
<1>5. KnownStays' /\ RecordsFollow'
  BY <1>1 DEF EngTurnInv, KnownStays, RecordsFollow, Batch
<1> QED
  BY <1>2, <1>3, <1>4, <1>5

\* The cursor goes back only for a run of which nothing is known.
LEMMA TurnEndsKeeps == EngineInv /\ TurnEnds => EngineInv'
<1> SUFFICES ASSUME EngineInv, TurnEnds PROVE EngineInv'
  OBVIOUS
<1>1. PICK t \in EngTurns : t = engTurn
  BY DEF EngineInv, EngTypeInv
<1>2. PICK c \in Nat, n \in Nat : c = engCursor /\ n = Len(chatMessages) /\ c <= n
  BY DEF EngineInv, EngTypeInv
<1>3. /\ t.at = "ending" /\ 1 <= t.from /\ t.from <= t.to /\ t.to <= c /\ t.from \in Nat /\ t.to \in Nat
      /\ t.failed => t.id # 0
      /\ t.id \in Nat /\ t.id <= Cardinality(acts)
      /\ t.id \notin rewound
      /\ t.id \in known => t.sent \/ engMark
      /\ \A a \in acts : a.id = t.id => a.from = t.from /\ a.to = t.to
  BY <1>1, <1>2 DEF TurnEnds, EngineInv, EngTypeInv, EngTurnInv, EngTurns
<1>4. /\ \/ /\ t.failed /\ ~t.sent /\ ~engMark
            /\ engCursor' = t.from - 1 /\ rewound' = rewound \cup {t.id}
         \/ engCursor' = c /\ rewound' = rewound
      /\ engTurn' = NoTurn
      /\ UNCHANGED <<chatMessages, engLive, events, acts, leases, ran, known, piped, sameAs, cutShort>>
  BY <1>1, <1>2 DEF TurnEnds, GoesBack
<1>5. NoTurn \in EngTurns /\ NoTurn.at = "none" /\ NoTurn.id = 0 /\ ~NoTurn.failed /\ ~NoTurn.sent
  BY DEF NoTurn, EngTurns
<1>6. ActsInv' /\ AnsweredOnce' /\ SharedOnlyRewound'
  <2>1. rewound \subseteq rewound'
    BY <1>4
  <2> QED
    BY <1>4, <2>1, RecordsStand
<1>7. PICK k \in Nat : k = Cardinality(acts)
  BY FS_CardinalityType DEF EngineInv, EngTypeInv
<1>8. engCursor' \in 0..c /\ rewound' \subseteq 1..k /\ 0 \notin known
  <2>1. rewound \subseteq 1..k /\ known \subseteq 1..k
    BY <1>7 DEF EngineInv, EngTypeInv
  <2>2. t.id <= k /\ t.id \in Nat /\ (t.failed => t.id \in 1..k)
    BY <1>3, <1>7
  <2>3. t.from - 1 \in 0..c
    BY <1>3
  <2>4. engCursor' = c \/ engCursor' = t.from - 1
    BY <1>4
  <2>5. engCursor' \in 0..c
    BY <2>3, <2>4
  <2>6. rewound' = rewound \/ (t.failed /\ rewound' = rewound \cup {t.id})
    BY <1>4
  <2>7. rewound' \subseteq 1..k
    BY <2>1, <2>2, <2>6
  <2>8. 0 \notin known
    BY <2>1
  <2> QED
    BY <2>5, <2>7, <2>8
<1>9. EngTypeInv'
  BY <1>2, <1>4, <1>5, <1>7, <1>8 DEF EngineInv, EngTypeInv
<1>10. EngTurnInv'
  <2>1. 0 \notin rewound' /\ \A a \in acts : a.id # 0
    BY <1>7, <1>8 DEF EngineInv, EngTypeInv, EngActions
  <2> QED
    BY <1>4, <1>5, <1>8, <2>1 DEF EngTurnInv
<1>11. FloorInv'
  <2>1. Floor = t.from /\ Floor' = engCursor' + 1
    BY <1>1, <1>3, <1>4, <1>5 DEF Floor
  <2>2. ASSUME NEW a \in acts
        PROVE  a.from <= engCursor' + 1 /\ (a.id \in rewound' \/ a.to < engCursor' + 1)
    <3>1. a.from \in Nat /\ a.to \in Nat /\ a.from <= t.from
          /\ (a.id \in rewound \/ a.to < t.from \/ a.id = t.id)
      BY <1>1, <2>1 DEF EngineInv, EngTypeInv, EngActions, FloorInv
    <3> QED
      BY <1>2, <1>3, <1>4, <3>1
  <2> QED
    BY <1>4, <2>1, <2>2 DEF FloorInv
<1>12. PassedInv'
  <2>1. \A m \in 1..c : m \in piped \cup cutShort \cup events
    BY <1>1, <1>2, <1>3 DEF EngineInv, PassedInv
  <2>2. 1..engCursor' \subseteq 1..c
    BY <1>2, <1>8
  <2> QED
    BY <1>4, <2>1, <2>2 DEF PassedInv
<1>13. KnownStays' /\ RecordsFollow'
  BY <1>3, <1>4 DEF EngineInv, KnownStays, RecordsFollow, Batch
<1> QED
  BY <1>6, <1>9, <1>10, <1>11, <1>12, <1>13 DEF EngineInv

LEMMA RunEndsKeep ==
  ASSUME EngineInv, NEW id, RunSucceeds(id) \/ RunFails(id)
  PROVE  EngineInv'
<1>1. PICK s \in Statuses :
        /\ id \in engLive /\ s # "executing"
        /\ acts' = WithStatus(id, s) /\ leases' = leases \ {id} /\ engLive' = engLive \ {id}
        /\ UNCHANGED <<chatMessages, engCursor, engTurn, engMark, events, ran, known, rewound, piped,
                       sameAs, cutShort>>
  BY DEF RunSucceeds, RunFails, Statuses
<1>2. /\ acts' \subseteq EngActions /\ IsFiniteSet(acts') /\ Cardinality(acts') = Cardinality(acts)
      /\ \A b \in acts' : \E a \in acts :
              a.id = b.id /\ a.from = b.from /\ a.to = b.to /\ (a.id = id => b.status = s)
              /\ (a.id # id => b = a)
      /\ \A a \in acts : \E b \in acts' :
              a.id = b.id /\ a.from = b.from /\ a.to = b.to /\ (a.id # id => b = a)
      /\ \A a, b \in acts' : a.id = b.id => a = b
  BY <1>1, StatusFacts
<1>3. EngTypeInv'
  BY <1>1, <1>2 DEF EngineInv, EngTypeInv
<1>4. ActsInv'
  <2>1. ASSUME NEW b \in acts'
        PROVE  /\ b.id <= Cardinality(acts') /\ b.from <= b.to /\ b.to <= Len(chatMessages)
               /\ Batch(b) \subseteq events /\ \A m \in Batch(b) : <<b.id, m>> \in ran
    <3>1. PICK a \in acts : a.id = b.id /\ a.from = b.from /\ a.to = b.to
      BY <1>2
    <3>2. Batch(b) = Batch(a)
      BY <3>1 DEF Batch
    <3> QED
      BY <1>2, <3>1, <3>2 DEF EngineInv, ActsInv
  <2>2. ASSUME NEW m \in events
        PROVE  m \in sameAs \/ \E b \in acts' : m \in Batch(b)
    <3>1. CASE \E a \in acts : m \in Batch(a)
      <4>1. PICK a \in acts : m \in Batch(a)
        BY <3>1
      <4>2. PICK b \in acts' : a.from = b.from /\ a.to = b.to
        BY <1>2
      <4> QED
        BY <4>1, <4>2 DEF Batch
    <3> QED
      BY <3>1 DEF EngineInv, ActsInv
  <2> QED
    BY <1>1, <1>2, <2>1, <2>2 DEF ActsInv, Batch
<1>5. EngTurnInv' /\ FloorInv'
  <2>1. \A b \in acts' : \E a \in acts : a.id = b.id /\ a.from = b.from /\ a.to = b.to
    BY <1>2
  <2>2. EngTurnInv'
    BY <1>1, <2>1 DEF EngineInv, EngTurnInv
  <2>3. FloorInv'
    BY <1>1, <2>1 DEF EngineInv, FloorInv, Floor
  <2> QED
    BY <2>2, <2>3
<1>6. PassedInv' /\ KnownStays'
  BY <1>1 DEF EngineInv, PassedInv, KnownStays, Batch
<1>7. SharedOnlyRewound'
  <2> SUFFICES ASSUME NEW b \in acts', NEW d \in acts', b.id < d.id, Batch(b) \cap Batch(d) # {}
               PROVE  b.id \in rewound /\ b.to < d.to
    BY <1>1 DEF SharedOnlyRewound, Batch
  <2>1. PICK x \in acts : x.id = b.id /\ x.from = b.from /\ x.to = b.to
    BY <1>2
  <2>2. PICK y \in acts : y.id = d.id /\ y.from = d.from /\ y.to = d.to
    BY <1>2
  <2>3. Batch(x) = Batch(b) /\ Batch(y) = Batch(d)
    BY <2>1, <2>2 DEF Batch
  <2> QED
    BY <2>1, <2>2, <2>3 DEF EngineInv, SharedOnlyRewound
<1>8. AnsweredOnce'
  <2> SUFFICES ASSUME NEW m \in sameAs
               PROVE  \E a \in acts' : /\ a.status = "succeeded"
                                       /\ \E i \in Batch(a) : i # m /\ chatMessages[i] = chatMessages[m]
    BY <1>1 DEF AnsweredOnce, Batch
  <2>1. PICK a \in acts : /\ a.status = "succeeded"
                          /\ \E i \in Batch(a) : i # m /\ chatMessages[i] = chatMessages[m]
    BY DEF EngineInv, AnsweredOnce
  <2>2. a.id # id
    BY <1>1, <2>1 DEF EngineInv, RecordsFollow, ActsInv
  <2>3. a \in acts'
    BY <1>2, <2>2
  <2> QED
    BY <2>1, <2>3
<1>9. RecordsFollow'
  <2>1. ASSUME NEW b \in acts', b.status = "executing"
        PROVE  b.id \in engLive' \/ Batch(b) \subseteq cutShort
    <3>1. b \in acts /\ b.id # id
      BY <1>1, <1>2, <2>1
    <3> QED
      BY <1>1, <2>1, <3>1 DEF EngineInv, RecordsFollow
  <2>2. ASSUME NEW other \in engLive'
        PROVE  \E b \in acts' : b.id = other /\ b.status = "executing"
    <3>1. other \in engLive /\ other # id
      BY <1>1
    <3>2. PICK a \in acts : a.id = other /\ a.status = "executing"
      BY <3>1 DEF EngineInv, RecordsFollow
    <3>3. a \in acts'
      BY <1>2, <3>1, <3>2
    <3> QED
      BY <3>2, <3>3
  <2>3. engLive' \subseteq leases'
    BY <1>1 DEF EngineInv, RecordsFollow
  <2> QED
    BY <1>1, <2>1, <2>2, <2>3 DEF RecordsFollow, Batch
<1> QED
  BY <1>3, <1>4, <1>5, <1>6, <1>7, <1>8, <1>9 DEF EngineInv

LEMMA EngineRestartsKeeps == EngineInv /\ EngineRestarts => EngineInv'
<1> SUFFICES ASSUME EngineInv, EngineRestarts PROVE EngineInv'
  OBVIOUS
<1>1. /\ engTurn' = NoTurn /\ ~engMark' /\ engLive' = {}
      /\ cutShort' = cutShort \cup {m \in 1..Len(chatMessages) :
                     \/ engTurn.at = "starting" /\ m \in Batch(engTurn)
                     \/ \E id \in engLive : <<id, m>> \in ran}
      /\ UNCHANGED <<chatMessages, engCursor, events, acts, leases, ran, known, rewound, piped, sameAs>>
  BY DEF EngineRestarts
<1>2. ActsInv' /\ AnsweredOnce' /\ SharedOnlyRewound'
  BY <1>1, RecordsStand
<1>3. NoTurn \in EngTurns /\ NoTurn.at = "none" /\ NoTurn.id = 0 /\ ~NoTurn.failed /\ ~NoTurn.sent
  BY DEF NoTurn, EngTurns
<1>4. PICK k \in Nat : k = Cardinality(acts)
  BY FS_CardinalityType DEF EngineInv, EngTypeInv
<1>5. /\ 0 \notin known /\ 0 \notin rewound
      /\ \A a \in acts : a.id # 0 /\ a.from \in Nat /\ a.to \in Nat
  BY <1>4 DEF EngineInv, EngTypeInv, EngActions
<1>6. PICK n \in Nat, c \in Nat : n = Len(chatMessages) /\ c = engCursor /\ c <= n
  BY DEF EngineInv, EngTypeInv
<1>7. EngTypeInv'
  BY <1>1, <1>3, <1>4, <1>6 DEF EngineInv, EngTypeInv
<1>8. EngTurnInv'
  BY <1>1, <1>3, <1>5 DEF EngTurnInv
<1>9. FloorInv'
  <2>1. Floor' = c + 1
    BY <1>1, <1>3, <1>6 DEF Floor
  <2>2. Floor \in Nat /\ Floor <= c + 1
        /\ (engTurn.at # "none" => engTurn.to \in Nat /\ engTurn.to < c + 1)
        /\ (engTurn.at = "none" => engTurn.id = 0)
    BY <1>6 DEF EngineInv, EngTypeInv, EngTurns, EngTurnInv, Floor, NoTurn
  <2>3. ASSUME NEW a \in acts
        PROVE  a.from <= c + 1 /\ (a.id \in rewound \/ a.to < c + 1)
    <3>1. a.from <= Floor /\ (a.id \in rewound \/ a.to < Floor \/ a.id = engTurn.id)
      BY DEF EngineInv, FloorInv
    <3>2. a.id = engTurn.id => a.to < c + 1
      BY <1>5, <2>2 DEF EngineInv, EngTurnInv
    <3> QED
      BY <1>5, <2>2, <3>1, <3>2
  <2> QED
    BY <1>1, <2>1, <2>3 DEF FloorInv
<1>10. PassedInv'
  <2>1. \A m \in 1..c : m \in 1..n
    BY <1>6
  <2> QED
    BY <1>1, <1>6, <2>1 DEF EngineInv, PassedInv
<1>11. RecordsFollow'
  <2>1. ASSUME NEW a \in acts, a.status = "executing"
        PROVE  Batch(a) \subseteq cutShort'
    <3>1. CASE a.id \in engLive
      <4>1. \A m \in Batch(a) : <<a.id, m>> \in ran /\ m \in 1..n
        BY <1>6 DEF EngineInv, ActsInv, EngTypeInv
      <4> QED
        BY <1>1, <1>6, <3>1, <4>1
    <3>2. CASE Batch(a) \subseteq cutShort
      BY <1>1, <3>2
    <3> QED
      BY <2>1, <3>1, <3>2 DEF EngineInv, RecordsFollow
  <2> QED
    BY <1>1, <2>1 DEF RecordsFollow, Batch
<1>12. KnownStays'
  BY <1>1 DEF EngineInv, KnownStays
<1> QED
  BY <1>2, <1>7, <1>8, <1>9, <1>10, <1>11, <1>12 DEF EngineInv

LEMMA EngineStands == EngineInv /\ UNCHANGED engineVars => EngineInv'
<1> SUFFICES ASSUME EngineInv, UNCHANGED engineVars PROVE EngineInv'
  OBVIOUS
<1>1. UNCHANGED <<chatMessages, engCursor, engTurn, engMark, engLive, events, acts, leases, ran, known,
                  rewound, piped, sameAs, cutShort>>
  BY DEF engineVars
<1>2. ActsInv' /\ AnsweredOnce' /\ SharedOnlyRewound'
  BY <1>1, RecordsStand
<1>3. EngTypeInv' /\ EngTurnInv' /\ FloorInv' /\ PassedInv' /\ KnownStays' /\ RecordsFollow'
  BY <1>1 DEF EngineInv, EngTypeInv, EngTurnInv, FloorInv, Floor, PassedInv, KnownStays, RecordsFollow,
      Batch
<1> QED
  BY <1>2, <1>3 DEF EngineInv

LEMMA EngineStarts == EngineInit => EngineInv
<1> SUFFICES ASSUME EngineInit PROVE EngineInv
  OBVIOUS
<1> USE DEF EngineInit
<1>1. IsFiniteSet(acts) /\ Cardinality(acts) = 0
  BY FS_EmptySet
<1>2. chatMessages \in Seq(EngineTexts) /\ Len(chatMessages) = 0 /\ engCursor = 0
  OBVIOUS
<1>3. EngTypeInv
  BY <1>1, <1>2 DEF EngTypeInv, EngTurns, NoTurn
<1>4. ActsInv /\ EngTurnInv /\ FloorInv /\ PassedInv
  BY DEF ActsInv, EngTurnInv, FloorInv, PassedInv, NoTurn
<1>5. SharedOnlyRewound /\ KnownStays /\ AnsweredOnce /\ RecordsFollow
  BY DEF SharedOnlyRewound, KnownStays, AnsweredOnce, RecordsFollow
<1> QED
  BY <1>3, <1>4, <1>5 DEF EngineInv

\* However messages, turns, the runs that go on beside them and restarts follow each other:
\* no list of messages is acted on twice, the cursor goes back for no run that is known to
\* have answered or acted, and no message is passed over unaccounted for or taken for an
\* answered one (action-engine.ts with the message loop of src/index.ts).
THEOREM EngineIsCorrect == ServicesSpec => []EngineCorrect
<1>1. EngineInv => EngineCorrect
  BY EngineInvCorrect
<1>2. ServicesInit => EngineInv
  BY EngineStarts DEF ServicesInit
<1>3. EngineInv /\ [ServicesNext]_servicesVars => EngineInv'
  <2>1. EngineInv /\ EngineNext => EngineInv'
    <3>1. EngineInv /\ Registers => EngineInv'
      <4> SUFFICES ASSUME EngineInv, Registers PROVE EngineInv'
        OBVIOUS
      <4>1. UNCHANGED <<chatMessages, engCursor, engTurn, engMark, engLive, events, acts, leases, ran,
                        known, rewound, piped, sameAs, cutShort>>
        BY DEF Registers
      <4>2. ActsInv' /\ AnsweredOnce' /\ SharedOnlyRewound'
        BY <4>1, RecordsStand
      <4>3. EngTypeInv' /\ EngTurnInv' /\ FloorInv' /\ PassedInv' /\ KnownStays' /\ RecordsFollow'
        BY <4>1 DEF EngineInv, EngTypeInv, EngTurnInv, FloorInv, Floor, PassedInv, KnownStays,
            RecordsFollow, Batch
      <4> QED
        BY <4>2, <4>3 DEF EngineInv
    <3>2. \A id \in 1..EngineRuns : id \in Nat
      OBVIOUS
    <3> QED
      BY <3>1, <3>2, MessageSaidKeeps, TurnStartsKeeps, PipesKeeps, AnswersDuplicateKeeps,
         AnswersEqualKeeps, RunStartsKeeps, TurnEndsKeeps, EngineOutputKeeps, EffectMarkedKeeps,
         RunEndsKeep, EngineRestartsKeeps DEF EngineNext
  <2> QED
    BY <2>1, EngineStands DEF ServicesNext, servicesVars
<1> QED
  BY <1>1, <1>2, <1>3, PTL DEF ServicesSpec

-----------------------------------------------------------------------------
(* The log *)

LogRows == [no : Nat \ {0}, day : Nat]

\* The rows s are entries of the log l, with their numbers in order.
RowsOf(s, l) ==
  /\ s \in Seq(LogRows)
  /\ \A i \in 1..Len(s) : s[i].no \in 1..Len(l) /\ s[i].day = l[s[i].no]
  /\ \A i, k \in 1..Len(s) : i < k => s[i].no < s[k].no

\* Days follow each other, up to day t.
DaysOf(l, t) ==
  /\ l \in Seq(Nat) /\ t \in Nat
  /\ \A i, k \in 1..Len(l) : i <= k => l[i] <= l[k]
  /\ \A i \in 1..Len(l) : l[i] <= t

\* Where the entries of l are: what is pruned (p) comes before the table (r), and the
\* table before the buffer (u); the rest is lost (x).
Placed(l, r, u, x, p) ==
  /\ 1..Len(l) = Numbers(r) \cup Numbers(u) \cup x \cup p
  /\ \A m \in Numbers(r), n \in Numbers(u) : m < n
  /\ \A m \in p, n \in Numbers(r) \cup Numbers(u) : m < n

PrunedOld(l, t, p, f) == \A m \in p \ f : l[m] + Retention < t

LogOf(l, t, r, u, x, p, f) ==
  /\ DaysOf(l, t) /\ RowsOf(r, l) /\ RowsOf(u, l)
  /\ Placed(l, r, u, x, p) /\ PrunedOld(l, t, p, f)

LogInv ==
  /\ LogOf(logged, today, rows, unwritten, lost, pruned, forSize)
  /\ BufferBounded

\* Rows after rows.
AllBefore(s, t) == \A m \in Numbers(s), n \in Numbers(t) : m < n

LEMMA RowsJoin ==
  ASSUME NEW l, NEW s, NEW t, RowsOf(s, l), RowsOf(t, l), AllBefore(s, t)
  PROVE  RowsOf(s \o t, l) /\ Numbers(s \o t) = Numbers(s) \cup Numbers(t)
<1>1. /\ s \in Seq(LogRows) /\ t \in Seq(LogRows) /\ Len(s) \in Nat /\ Len(t) \in Nat
      /\ Len(s \o t) = Len(s) + Len(t) /\ s \o t \in Seq(LogRows)
  BY DEF RowsOf
<1>2. \A i \in 1..Len(s) : i \in 1..Len(s \o t) /\ (s \o t)[i] = s[i]
  BY <1>1
<1>3. \A i \in 1..Len(t) : Len(s) + i \in 1..Len(s \o t) /\ (s \o t)[Len(s) + i] = t[i]
  BY <1>1
<1>4. \A i \in 1..Len(s \o t) :
        i \in 1..Len(s) \/ (i - Len(s) \in 1..Len(t) /\ Len(s) + (i - Len(s)) = i)
  BY <1>1
<1>5. PICK u : u = s \o t
  OBVIOUS
<1>6. \A i \in 1..Len(u) : \/ i \in 1..Len(s) /\ u[i] = s[i]
                           \/ i - Len(s) \in 1..Len(t) /\ u[i] = t[i - Len(s)]
  BY <1>2, <1>3, <1>4, <1>5
<1>7. Numbers(u) = Numbers(s) \cup Numbers(t)
  <2>1. Numbers(u) \subseteq Numbers(s) \cup Numbers(t)
    BY <1>6 DEF Numbers
  <2>2. Numbers(s) \subseteq Numbers(u)
    BY <1>2, <1>5 DEF Numbers
  <2>3. Numbers(t) \subseteq Numbers(u)
    BY <1>3, <1>5 DEF Numbers
  <2> QED
    BY <2>1, <2>2, <2>3
<1>8. ASSUME NEW i \in 1..Len(u)
      PROVE  u[i].no \in 1..Len(l) /\ u[i].day = l[u[i].no]
  BY <1>6, SMTT(30) DEF RowsOf
<1>9. ASSUME NEW i \in 1..Len(u), NEW k \in 1..Len(u), i < k
      PROVE  u[i].no < u[k].no
  <2>1. CASE i \in 1..Len(s) /\ k \in 1..Len(s)
    BY <1>2, <1>5, <1>9, <2>1 DEF RowsOf
  <2>2. CASE i \in 1..Len(s) /\ k \notin 1..Len(s)
    <3>1. u[i].no \in Numbers(s)
      BY <1>2, <1>5, <2>2 DEF Numbers
    <3>2. u[k].no \in Numbers(t)
      BY <1>6, <2>2 DEF Numbers
    <3> QED
      BY <3>1, <3>2 DEF AllBefore
  <2>3. CASE i \notin 1..Len(s)
    <3>1. k \notin 1..Len(s)
      BY <1>1, <1>5, <1>9, <2>3
    <3>2. /\ i - Len(s) \in 1..Len(t) /\ u[i] = t[i - Len(s)]
          /\ k - Len(s) \in 1..Len(t) /\ u[k] = t[k - Len(s)]
      BY <1>6, <2>3, <3>1
    <3>3. i - Len(s) < k - Len(s)
      BY <1>1, <1>5, <1>9
    <3> QED
      BY <3>2, <3>3 DEF RowsOf
  <2> QED
    BY <2>1, <2>2, <2>3
<1>10. RowsOf(u, l)
  BY <1>1, <1>5, <1>8, <1>9 DEF RowsOf
<1> QED
  BY <1>5, <1>7, <1>10

\* The next entry.
EntryFollows(l, t, e, m) ==
  /\ DaysOf(m, t) /\ Len(m) = Len(l) + 1 /\ Len(l) \in Nat
  /\ 1..Len(m) = (1..Len(l)) \cup {e.no}
  /\ \A n \in 1..Len(l) : n < e.no /\ m[n] = l[n]
  /\ RowsOf(<<e>>, m) /\ Numbers(<<e>>) = {e.no}
  /\ \A s : RowsOf(s, l) => RowsOf(s, m)

LEMMA EntryFacts ==
  ASSUME NEW l, NEW t, DaysOf(l, t), NEW e, e = [no |-> Len(l) + 1, day |-> t],
         NEW m, m = Append(l, t)
  PROVE  EntryFollows(l, t, e, m)
<1>1. /\ l \in Seq(Nat) /\ t \in Nat /\ Len(l) \in Nat
      /\ m \in Seq(Nat) /\ Len(m) = Len(l) + 1
      /\ \A n \in 1..Len(l) : m[n] = l[n]
      /\ m[Len(l) + 1] = t
  BY AppendFacts DEF DaysOf
<1>2. e.no = Len(l) + 1 /\ e.day = t /\ e \in LogRows
  BY <1>1 DEF LogRows
<1>3. DaysOf(m, t)
  <2>1. \A i \in 1..Len(m) : i \in 1..Len(l) \/ i = Len(l) + 1
    BY <1>1
  <2>2. \A i \in 1..Len(m) : m[i] <= t
    BY <1>1, <2>1 DEF DaysOf
  <2>3. ASSUME NEW i \in 1..Len(m), NEW k \in 1..Len(m), i <= k
        PROVE  m[i] <= m[k]
    <3>1. CASE k \in 1..Len(l)
      <4>1. i \in 1..Len(l)
        BY <1>1, <2>3, <3>1
      <4> QED
        BY <1>1, <2>3, <3>1, <4>1 DEF DaysOf
    <3>2. CASE k = Len(l) + 1
      BY <1>1, <2>2, <3>2
    <3> QED
      BY <2>1, <3>1, <3>2
  <2> QED
    BY <1>1, <2>2, <2>3 DEF DaysOf
<1>4. /\ <<e>> \in Seq(LogRows) /\ Len(<<e>>) = 1 /\ <<e>>[1] = e
  BY <1>2
<1>5. Numbers(<<e>>) = {e.no}
  BY <1>4 DEF Numbers
<1>6. RowsOf(<<e>>, m)
  <2>1. e.no \in 1..Len(m) /\ e.day = m[e.no]
    BY <1>1, <1>2
  <2>2. \A i \in 1..Len(<<e>>) : i = 1 /\ <<e>>[i] = e
    BY <1>4
  <2> QED
    BY <1>4, <2>1, <2>2 DEF RowsOf
<1>7. ASSUME NEW s, RowsOf(s, l) PROVE RowsOf(s, m)
  BY <1>1, <1>7 DEF RowsOf
<1> QED
  BY <1>1, <1>2, <1>3, <1>5, <1>6, <1>7 DEF EntryFollows

LEMMA NumbersInLog ==
  ASSUME NEW l, NEW s, RowsOf(s, l)
  PROVE  Numbers(s) \subseteq 1..Len(l) /\ RowsOf(<<>>, l) /\ Numbers(<<>>) = {}
<1>1. <<>> \in Seq(LogRows) /\ Len(<<>>) = 0
  OBVIOUS
<1> QED
  BY <1>1 DEF RowsOf, Numbers

\* An entry joins the buffer.
LEMMA EntryJoins ==
  ASSUME NEW l, NEW t, NEW r, NEW u, NEW x, NEW p, NEW f, LogOf(l, t, r, u, x, p, f),
         NEW e, e = [no |-> Len(l) + 1, day |-> t]
  PROVE  LogOf(Append(l, t), t, r, Append(u, e), x, p, f)
<1> USE DEF LogOf
<1>1. PICK m : m = Append(l, t)
  OBVIOUS
<1>2. /\ DaysOf(m, t) /\ Len(m) = Len(l) + 1 /\ Len(l) \in Nat
      /\ 1..Len(m) = (1..Len(l)) \cup {e.no}
      /\ \A n \in 1..Len(l) : n < e.no /\ m[n] = l[n]
      /\ RowsOf(<<e>>, m) /\ Numbers(<<e>>) = {e.no}
      /\ \A s : RowsOf(s, l) => RowsOf(s, m)
  <2>1. DaysOf(l, t)
    OBVIOUS
  <2>2. EntryFollows(l, t, e, m)
    BY <1>1, <2>1, EntryFacts
  <2> QED
    BY <2>2 DEF EntryFollows
<1>3. RowsOf(r, m) /\ RowsOf(u, m)
  BY <1>2
<1>4. Numbers(r) \subseteq 1..Len(l) /\ Numbers(u) \subseteq 1..Len(l) /\ p \subseteq 1..Len(l)
  BY NumbersInLog DEF Placed
<1>5. RowsOf(u \o <<e>>, m) /\ Numbers(u \o <<e>>) = Numbers(u) \cup {e.no}
  <2>1. AllBefore(u, <<e>>)
    BY <1>2, <1>4 DEF AllBefore
  <2>2. RowsOf(u, m) /\ RowsOf(<<e>>, m) /\ Numbers(<<e>>) = {e.no}
    BY <1>2, <1>3
  <2> HIDE DEF LogOf
  <2>3. RowsOf(u \o <<e>>, m) /\ Numbers(u \o <<e>>) = Numbers(u) \cup Numbers(<<e>>)
    BY <2>1, <2>2, RowsJoin
  <2> QED
    BY <2>2, <2>3
<1>6. Append(u, e) = u \o <<e>>
  <2>1. u \in Seq(LogRows) /\ e \in LogRows
    <3>1. <<e>>[1] = e /\ 1 \in 1..Len(<<e>>)
      OBVIOUS
    <3> QED
      BY <1>2, <3>1 DEF RowsOf
  <2> QED
    BY <2>1
<1>7. Placed(m, r, Append(u, e), x, p)
  BY <1>2, <1>4, <1>5, <1>6 DEF Placed
<1>8. PrunedOld(m, t, p, f)
  BY <1>2, <1>4 DEF PrunedOld
<1> QED
  BY <1>1, <1>2, <1>5, <1>6, <1>7, <1>8

\* The buffer joins the table, or is lost.
LEMMA BufferJoins ==
  ASSUME NEW l, NEW t, NEW r, NEW u, NEW x, NEW p, NEW f, LogOf(l, t, r, u, x, p, f)
  PROVE  LogOf(l, t, r \o u, <<>>, x, p, f)
<1> USE DEF LogOf
<1>1. RowsOf(r \o u, l) /\ Numbers(r \o u) = Numbers(r) \cup Numbers(u)
  <2>1. RowsOf(r, l) /\ RowsOf(u, l)
    OBVIOUS
  <2>2. AllBefore(r, u)
    BY DEF Placed, AllBefore
  <2> HIDE DEF LogOf
  <2> QED
    BY <2>1, <2>2, RowsJoin
<1>2. RowsOf(<<>>, l) /\ Numbers(<<>>) = {}
  BY NumbersInLog
<1>3. Placed(l, r \o u, <<>>, x, p)
  BY <1>1, <1>2 DEF Placed
<1> QED
  BY <1>1, <1>2, <1>3

LEMMA BufferIsLost ==
  ASSUME NEW l, NEW t, NEW r, NEW u, NEW x, NEW p, NEW f, LogOf(l, t, r, u, x, p, f)
  PROVE  LogOf(l, t, r, <<>>, x \cup Numbers(u), p, f)
<1> USE DEF LogOf
<1>1. RowsOf(<<>>, l) /\ Numbers(<<>>) = {}
  BY NumbersInLog
<1>2. Placed(l, r, <<>>, x \cup Numbers(u), p)
  BY <1>1 DEF Placed
<1> QED
  BY <1>1, <1>2

\* A day passes.
LEMMA DayGoesBy ==
  ASSUME NEW l, NEW t, NEW r, NEW u, NEW x, NEW p, NEW f, LogOf(l, t, r, u, x, p, f)
  PROVE  LogOf(l, t + 1, r, u, x, p, f)
<1>1. DaysOf(l, t + 1)
  BY DEF LogOf, DaysOf
<1>2. PrunedOld(l, t + 1, p, f)
  <2>1. t \in Nat /\ l \in Seq(Nat) /\ p \subseteq 1..Len(l)
    BY DEF LogOf, DaysOf, Placed
  <2>2. \A m \in p : l[m] \in Nat
    BY <2>1
  <2> QED
    BY <2>1, <2>2, LogAssumption DEF LogOf, PrunedOld
<1> QED
  BY <1>1, <1>2 DEF LogOf

\* k is what is left of the rows s when the oldest of them go.
LeftOf(k, s, l) ==
  /\ RowsOf(k, l) /\ Numbers(k) \subseteq Numbers(s)
  /\ \A m \in Numbers(s) \ Numbers(k), n \in Numbers(k) : m < n

LEMMA OldestGo ==
  ASSUME NEW l, NEW t, NEW r, NEW u, NEW x, NEW p, NEW f, LogOf(l, t, r, u, x, p, f),
         NEW k, LeftOf(k, r, l),
         NEW g, \A m \in (Numbers(r) \ Numbers(k)) \ g : l[m] + Retention < t
  PROVE  LogOf(l, t, k, u, x, p \cup (Numbers(r) \ Numbers(k)), f \cup g)
<1>1. Placed(l, k, u, x, p \cup (Numbers(r) \ Numbers(k)))
  BY DEF LogOf, Placed, LeftOf
<1>2. PrunedOld(l, t, p \cup (Numbers(r) \ Numbers(k)), f \cup g)
  BY DEF LogOf, PrunedOld
<1> QED
  BY <1>1, <1>2 DEF LogOf, LeftOf

\* WithoutOldest leaves the last rows.
LEMMA OldestFacts ==
  ASSUME NEW l, NEW s, RowsOf(s, l)
  PROVE  LeftOf(WithoutOldest(s), s, l)
<1>1. s \in Seq(LogRows) /\ Len(s) \in Nat /\ Fifth(s) \in Nat
  BY DEF RowsOf, Fifth
<1>2. Fifth(s) <= Len(s)
  BY <1>1 DEF Fifth
<1>3. PICK n, d \in Nat : n = Len(s) /\ d = Fifth(s)
  BY <1>1
<1>4. PICK k : k = WithoutOldest(s)
  OBVIOUS
<1>5. k \in Seq(LogRows) /\ Len(k) = n - d /\ \A i \in 1..Len(k) : k[i] = s[i + d]
  <2>1. k = SubSeq(s, d + 1, n)
    BY <1>3, <1>4 DEF WithoutOldest
  <2>2. \A i \in (d + 1)..n : s[i] \in LogRows
    BY <1>1, <1>3
  <2>3. k = [i \in 1..(n - d) |-> s[i + d]]
    BY <1>2, <1>3, <2>1
  <2>4. Len(k) = n - d
    BY <1>2, <1>3, <2>3
  <2>5. \A i \in 1..(n - d) : s[i + d] \in LogRows
    BY <1>2, <1>3, <2>2
  <2>6. n - d \in Nat
    BY <1>2, <1>3
  <2>7. k \in Seq(LogRows)
    BY <2>3, <2>5, <2>6
  <2> QED
    BY <2>3, <2>4, <2>7
<1>6. \A i \in 1..Len(k) : i + d \in 1..Len(s)
  BY <1>2, <1>3, <1>5
<1>7. RowsOf(k, l)
  <2>1. \A i, j \in 1..Len(k) : i < j => i + d < j + d
    BY <1>3, <1>5
  <2> QED
    BY <1>5, <1>6, <2>1 DEF RowsOf
<1>8. Numbers(k) \subseteq Numbers(s)
  BY <1>5, <1>6 DEF Numbers
<1>9. ASSUME NEW m \in Numbers(s) \ Numbers(k), NEW q \in Numbers(k)
      PROVE  m < q
  <2>1. PICK i \in 1..Len(s) : s[i].no = m
    BY DEF Numbers
  <2>2. PICK j \in 1..Len(k) : k[j].no = q
    BY DEF Numbers
  <2>3. ~(i > d)
    <3>1. SUFFICES ASSUME i > d PROVE FALSE
      OBVIOUS
    <3>2. i - d \in 1..Len(k) /\ (i - d) + d = i
      BY <1>2, <1>3, <1>5, <3>1
    <3> QED
      BY <1>5, <2>1, <3>2 DEF Numbers
  <2>4. i < j + d /\ j + d \in 1..Len(s) /\ s[j + d].no = q
    BY <1>3, <1>5, <1>6, <2>2, <2>3
  <2> QED
    BY <2>1, <2>4 DEF RowsOf
<1> QED
  BY <1>4, <1>7, <1>8, <1>9 DEF LeftOf

\* Young leaves the rows of the last days, and what it leaves out is over.
LEMMA YoungFacts ==
  ASSUME DaysOf(logged, today), RowsOf(rows, logged)
  PROVE  /\ LeftOf(Young, rows, logged)
         /\ \A m \in Numbers(rows) \ Numbers(Young) : logged[m] + Retention < today
<1>1. PICK l, t, s, S : l = logged /\ t = today /\ s = rows /\ S = {r \in ToSet(rows) : ~Old(r)}
  OBVIOUS
<1>2. DaysOf(l, t) /\ RowsOf(s, l)
  BY <1>1
<1> DEFINE young == CHOOSE f : Filters(f, rows, {r \in ToSet(rows) : ~Old(r)})
<1>3. PICK f : f = young
  OBVIOUS
<1>4. Filters(f, s, S) /\ Young = f[Len(s)]
  <2>1. s \in Seq(LogRows)
    BY <1>2 DEF RowsOf
  <2>2. \E g : Filters(g, s, S)
    BY <2>1, FilterExists
  <2>3. Filters(young, rows, {r \in ToSet(rows) : ~Old(r)})
    BY <1>1, <2>2
  <2>4. Young = young[Len(rows)]
    BY DEF Young, Filters
  <2> QED
    BY <1>1, <1>3, <2>3, <2>4
<1> HIDE DEF young
<1>5. PICK R : R = {c \in LogRows \X LogRows : c[1].no < c[2].no}
  OBVIOUS
<1>6. PICK k : k = f[Len(s)]
  OBVIOUS
<1>7. /\ k \in Seq(LogRows)
      /\ {k[i] : i \in 1..Len(k)} = {s[i] : i \in 1..Len(s)} \cap S
      /\ Ordered(s, R) => Ordered(k, R)
  <2>1. s \in Seq(LogRows)
    BY <1>2 DEF RowsOf
  <2>2. /\ f[Len(s)] \in Seq(LogRows) /\ Len(f[Len(s)]) <= Len(s)
        /\ {f[Len(s)][i] : i \in 1..Len(f[Len(s)])} = {s[i] : i \in 1..Len(s)} \cap S
        /\ Ordered(s, R) => Ordered(f[Len(s)], R)
    BY <1>4, <2>1, FilterFacts, Zenon
  <2> QED
    BY <1>6, <2>2
<1>8. \A i \in 1..Len(s) : s[i] \in LogRows /\ (s[i] \in S <=> ~(s[i].day + Retention < t))
  BY <1>1, <1>2 DEF RowsOf, ToSet, Old
<1>9. \A i \in 1..Len(k) : k[i] \in LogRows
  BY <1>7
<1>10. Ordered(k, R)
  <2>1. Ordered(s, R)
    BY <1>2, <1>5, <1>8 DEF RowsOf, Ordered
  <2> QED
    BY <1>7, <2>1
<1>11. \A i \in 1..Len(k) : \E j \in 1..Len(s) : k[i] = s[j] /\ s[j] \in S
  BY <1>7
<1>12. RowsOf(k, l)
  <2>1. ASSUME NEW i \in 1..Len(k) PROVE k[i].no \in 1..Len(l) /\ k[i].day = l[k[i].no]
    <3>1. PICK j \in 1..Len(s) : k[i] = s[j]
      BY <1>11
    <3> QED
      BY <1>2, <3>1 DEF RowsOf
  <2>2. \A i, j \in 1..Len(k) : i < j => k[i].no < k[j].no
    BY <1>5, <1>10 DEF Ordered
  <2> QED
    BY <1>7, <2>1, <2>2 DEF RowsOf
<1>13. Numbers(k) \subseteq Numbers(s)
  BY <1>11 DEF Numbers
<1>14. \A n \in Numbers(k) : n \in 1..Len(l) /\ ~(l[n] + Retention < t)
  <2>1. ASSUME NEW i \in 1..Len(k)
        PROVE  k[i].no \in 1..Len(l) /\ ~(l[k[i].no] + Retention < t)
    BY <1>2, <1>8, <1>11, ZenonT(30) DEF RowsOf
  <2> QED
    BY <2>1 DEF Numbers
<1>15. ASSUME NEW m \in Numbers(s) \ Numbers(k) PROVE m \in 1..Len(l) /\ l[m] + Retention < t
  <2>1. PICK i \in 1..Len(s) : s[i].no = m
    BY DEF Numbers
  <2>2. s[i] \notin S
    <3>1. SUFFICES ASSUME s[i] \in S PROVE FALSE
      OBVIOUS
    <3>2. s[i] \in {k[j] : j \in 1..Len(k)}
      BY <1>7, <3>1
    <3>3. PICK j \in 1..Len(k) : k[j] = s[i]
      BY <3>2
    <3> QED
      BY <2>1, <3>3 DEF Numbers
  <2> QED
    BY <1>2, <1>8, <2>1, <2>2 DEF RowsOf
<1>16. ASSUME NEW m \in Numbers(s) \ Numbers(k), NEW n \in Numbers(k)
       PROVE  m < n
  <2>1. /\ m \in 1..Len(l) /\ n \in 1..Len(l) /\ l[m] \in Nat /\ l[n] \in Nat /\ t \in Nat
        /\ l[m] + Retention < t /\ ~(l[n] + Retention < t)
    BY <1>2, <1>14, <1>15 DEF DaysOf
  <2>2. ~(l[n] <= l[m])
    BY <2>1, LogAssumption
  <2>3. ~(n <= m)
    BY <1>2, <2>1, <2>2 DEF DaysOf
  <2> QED
    BY <2>1, <2>3
<1>17. LeftOf(k, s, l) /\ \A m \in Numbers(s) \ Numbers(k) : l[m] + Retention < t
  BY <1>12, <1>13, <1>15, <1>16 DEF LeftOf
<1> QED
  BY <1>1, <1>4, <1>6, <1>17

\* A buffer is written, or refused.
LEMMA BufferGoes ==
  ASSUME NEW l, NEW t, NEW b, LogOf(l, t, rows, b, lost, pruned, forSize),
         UNCHANGED <<pruned, forSize>>, Flushes(b) \/ FlushRefused(b)
  PROVE  LogOf(l, t, rows', unwritten', lost', pruned', forSize') /\ unwritten' = <<>>
<1>1. CASE Flushes(b)
  BY <1>1, BufferJoins DEF Flushes, Inserted
<1>2. CASE FlushRefused(b)
  BY <1>2, BufferIsLost DEF FlushRefused
<1> QED
  BY <1>1, <1>2

LEMMA LogsKeeps ==
  ASSUME LogInv, Logs
  PROVE  LogInv'
<1>1. PICK l, b, t : l = Append(logged, today) /\ b = Append(unwritten, LogEntry) /\ t = today
  OBVIOUS
<1>2. /\ UNCHANGED <<today, pruned, forSize>> /\ logged' = l
      /\ IF Full(b) THEN Flushes(b) \/ FlushRefused(b)
         ELSE unwritten' = b /\ UNCHANGED <<rows, pages, lost>>
  BY <1>1 DEF Logs, Writes
<1>3. LogOf(l, t, rows, b, lost, pruned, forSize)
  BY <1>1, EntryJoins DEF LogInv, LogEntry
<1>4. CASE Full(b)
  <2>1. /\ LogOf(l, t, rows', unwritten', lost', pruned', forSize') /\ unwritten' = <<>>
    BY <1>2, <1>3, <1>4, BufferGoes
  <2> QED
    BY <1>1, <1>2, <2>1, LogAssumption DEF LogInv, BufferBounded
<1>5. CASE ~Full(b)
  <2>1. b \in Seq(LogRows) /\ Len(b) \in Nat
    BY <1>3 DEF LogOf, RowsOf
  <2>2. Len(b) < FlushSize
    BY <1>5, <2>1, LogAssumption DEF Full
  <2> QED
    BY <1>1, <1>2, <1>3, <1>5, <2>2 DEF LogInv, BufferBounded
<1> QED
  BY <1>4, <1>5

LEMMA TimerFlushesKeeps ==
  ASSUME LogInv, TimerFlushes
  PROVE  LogInv'
<1>1. PICK l, t, b : l = logged /\ t = today /\ b = unwritten
  OBVIOUS
<1>2. LogOf(l, t, rows', unwritten', lost', pruned', forSize') /\ unwritten' = <<>>
  BY <1>1, BufferGoes DEF LogInv, TimerFlushes
<1> QED
  BY <1>1, <1>2, LogAssumption DEF LogInv, TimerFlushes, BufferBounded

LEMMA TimerFailsKeeps ==
  ASSUME LogInv, TimerFails
  PROVE  LogInv'
<1>1. PICK x, l, t : x = lost \cup Numbers(unwritten) /\ l = logged /\ t = today
  OBVIOUS
<1>2. LogOf(l, t, rows, <<>>, x, pruned, forSize)
  BY <1>1, BufferIsLost DEF LogInv
<1>3. PICK e : e = [no |-> Len(l) + 1, day |-> t]
  OBVIOUS
<1>4. LogOf(Append(l, t), t, rows, Append(<<>>, e), x, pruned, forSize)
  BY <1>2, <1>3, EntryJoins
<1>5. Append(<<>>, e) = <<e>> /\ LogEntry = e
  BY <1>1, <1>3 DEF LogEntry
<1>6. LogOf(Append(l, t), t, rows, <<e>>, x, pruned, forSize)
  BY <1>4, <1>5
<1>7. /\ logged' = Append(l, t) /\ today' = t /\ rows' = rows /\ unwritten' = <<e>>
      /\ lost' = x /\ pruned' = pruned /\ forSize' = forSize
  BY <1>1, <1>5 DEF TimerFails
<1> QED
  BY <1>6, <1>7, LogAssumption DEF LogInv, BufferBounded

LEMMA LogExitsKeeps ==
  ASSUME LogInv, LogExits
  PROVE  LogInv'
<1>1. PICK x : x = lost \cup Numbers(unwritten)
  OBVIOUS
<1>2. LogOf(logged, today, rows, <<>>, x, pruned, forSize)
  BY <1>1, BufferIsLost DEF LogInv
<1> QED
  BY <1>1, <1>2, LogAssumption DEF LogInv, LogExits, BufferBounded

LEMMA DayPassesKeeps ==
  ASSUME LogInv, DayPasses
  PROVE  LogInv'
<1>1. PICK l, t : l = logged /\ t = today
  OBVIOUS
<1>2. LogOf(l, t + 1, rows, unwritten, lost, pruned, forSize)
  BY <1>1, DayGoesBy DEF LogInv
<1> QED
  BY <1>1, <1>2 DEF LogInv, DayPasses, BufferBounded

LEMMA PrunesKeeps ==
  ASSUME LogInv, Prunes
  PROVE  LogInv'
<1>1. PICK l, t, r, y : l = logged /\ t = today /\ r = rows /\ y = Young
  OBVIOUS
<1>2. PICK k : k = IF TooBig THEN WithoutOldest(y) ELSE y
  OBVIOUS
<1>3. PICK g : g = Numbers(y) \ Numbers(k)
  OBVIOUS
<1>4. LogOf(l, t, r, unwritten, lost, pruned, forSize)
  BY <1>1 DEF LogInv
<1>5. LeftOf(y, r, l) /\ \A m \in Numbers(r) \ Numbers(y) : l[m] + Retention < t
  BY <1>1, <1>4, YoungFacts DEF LogOf
<1>6. LeftOf(k, y, l)
  <2>1. LeftOf(y, y, l) /\ LeftOf(WithoutOldest(y), y, l)
    BY <1>5, OldestFacts DEF LeftOf
  <2> QED
    BY <1>2, <2>1
<1>7. LeftOf(k, r, l)
  BY <1>5, <1>6 DEF LeftOf
<1>8. \A m \in (Numbers(r) \ Numbers(k)) \ g : l[m] + Retention < t
  BY <1>3, <1>5
<1>9. LogOf(l, t, k, unwritten, lost, pruned \cup (Numbers(r) \ Numbers(k)), forSize \cup g)
  BY <1>4, <1>7, <1>8, OldestGo
<1>10. /\ rows' = k /\ pruned' = pruned \cup (Numbers(r) \ Numbers(k))
       /\ forSize' = forSize \cup g
       /\ logged' = l /\ today' = t /\ unwritten' = unwritten /\ lost' = lost
  BY <1>1, <1>2, <1>3 DEF Prunes
<1> QED
  BY <1>9, <1>10 DEF LogInv, BufferBounded

\* LogCorrect (sqlite-stream.ts and pruner.ts): every entry is in the table once and in
\* order, in the buffer, lost with a batch or an exit, or pruned; the oldest go first,
\* and only after the retention unless the file is too large.
THEOREM LogIsCorrect == ServicesSpec => []LogCorrect
<1>1. ServicesInit => LogInv
  <2> SUFFICES ASSUME LogInit PROVE LogInv
    BY DEF ServicesInit
  <2>1. <<>> \in Seq(Nat) /\ <<>> \in Seq(LogRows) /\ Len(<<>>) = 0
    OBVIOUS
  <2>2. DaysOf(<<>>, 0) /\ RowsOf(<<>>, <<>>) /\ Numbers(<<>>) = {}
    BY <2>1 DEF DaysOf, RowsOf, Numbers
  <2>3. Placed(<<>>, <<>>, <<>>, {}, {}) /\ PrunedOld(<<>>, 0, {}, {})
    BY <2>1, <2>2 DEF Placed, PrunedOld
  <2>4. LogOf(<<>>, 0, <<>>, <<>>, {}, {}, {})
    BY <2>2, <2>3 DEF LogOf
  <2> QED
    BY <2>1, <2>4, LogAssumption DEF LogInit, LogInv, BufferBounded
<1>2. LogInv /\ [ServicesNext]_servicesVars => LogInv'
  <2> SUFFICES ASSUME LogInv, LogNext \/ UNCHANGED logVars
               PROVE  LogInv'
    BY DEF ServicesNext, servicesVars
  <2>1. CASE Restarts \/ UNCHANGED logVars
    BY <2>1 DEF Restarts, logVars, LogInv, BufferBounded
  <2> QED
    BY <2>1, LogsKeeps, TimerFlushesKeeps, TimerFailsKeeps, LogExitsKeeps, DayPassesKeeps,
       PrunesKeeps DEF LogNext
<1>3. LogInv => LogCorrect
  <2> SUFFICES ASSUME LogInv PROVE LogCorrect
    OBVIOUS
  <2>1. DaysOf(logged, today) /\ RowsOf(rows, logged)
        /\ Placed(logged, rows, unwritten, lost, pruned)
        /\ PrunedOld(logged, today, pruned, forSize)
    BY DEF LogInv, LogOf
  <2>2. \A i \in 1..(Len(rows) - 1) : rows[i].no < rows[i + 1].no
    <3>1. Len(rows) \in Nat
      BY <2>1 DEF RowsOf
    <3>2. \A i \in 1..(Len(rows) - 1) :
            i \in 1..Len(rows) /\ i + 1 \in 1..Len(rows) /\ i < i + 1
      BY <3>1
    <3> QED
      BY <2>1, <3>2 DEF RowsOf
  <2>3. EntriesAccounted
    BY <2>1, <2>2 DEF EntriesAccounted, Placed, InTable
  <2>4. OldestPruned
    BY <2>1 DEF OldestPruned, Placed, PrunedOld, InTable
  <2> QED
    BY <2>3, <2>4 DEF LogInv, LogCorrect
<1> QED
  BY <1>1, <1>2, <1>3, PTL DEF ServicesSpec

\* HostCorrect (container-runtime.ts, the logger and the research providers): what
\* ContainersAreCorrect, LogIsCorrect and ChainsAreCorrect say, together.
THEOREM HostIsCorrect == ServicesSpec => []HostCorrect
<1>1. ContainersCorrect /\ LogCorrect /\ ChainsCorrect => HostCorrect
  BY DEF HostCorrect
<1> QED
  BY <1>1, ContainersAreCorrect, LogIsCorrect, ChainsAreCorrect, PTL

=============================================================================
