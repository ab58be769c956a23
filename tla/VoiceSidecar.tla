----------------------------- MODULE VoiceSidecar -----------------------------
(***************************************************************************)
(* The client of the voice runner's process                                *)
(* (src/src/voice-runner/controller.ts, class VoiceRunnerSidecarClient):   *)
(* the process is spawned when it is needed, gets its settings, answers    *)
(* requests, and may die, hang or be shut down.  Its `exit` event arrives  *)
(* some time after its channel is gone.  The process itself                *)
(* (src/src/voice-runner/sidecar-process.ts) answers every request, with   *)
(* an error if its handler throws.                                         *)
(***************************************************************************)
EXTENDS Integers, FiniteSets, FiniteSetsExt

CONSTANTS
  Kids,      \* model bound: processes 1..Kids are spawned
  Asks,      \* requests of the channel that check `connected` first (warm, health, session.start)
  Orders     \* the other requests

ASSUME VoiceSidecarAssumption == Kids \in Nat /\ IsFiniteSet(Asks \cup Orders) /\ Asks \cap Orders = {}

VARIABLES
  kid,       \* each process: unused, running, cut off from its channel, gone
  child,     \* this.child, or 0
  sidecarReq,\* where each request is
  sentTo,    \* the process it was sent to, or 0
  stopping,  \* shutdown() waits for its answer
  hostDown,  \* the host has exited: a send on a closed channel is an uncaught error
  usurped,   \* history: `exit` of one process came when another was the child
  spared     \* history: requests rejected although their process lives

sidecarVars == <<kid, child, sidecarReq, sentTo, stopping, hostDown, usurped, spared>>

KidIds == 1..Kids
Requests == Asks \cup Orders
Unspawned == {k \in KidIds : kid[k] = "unused"}
PendingOn(k) == {r \in Requests : sidecarReq[r] \in {"configuring", "pending"} /\ sentTo[r] = k}

SidecarInit ==
  /\ kid = [k \in KidIds |-> "unused"]
  /\ child = 0
  /\ sidecarReq = [r \in Requests |-> "new"]
  /\ sentTo = [r \in Requests |-> 0]
  /\ stopping = FALSE
  /\ hostDown = FALSE
  /\ usurped = FALSE
  /\ spared = {}

-----------------------------------------------------------------------------
(* An operator X_Y is X with a bug Y planted in it. *)

\* ensureChild: a process is spawned and request r waits for its `configure`.
SpawnRunner(r) ==
  /\ Unspawned # {}
  /\ kid' = [kid EXCEPT ![Min(Unspawned)] = "running"]
  /\ child' = Min(Unspawned)
  /\ sidecarReq' = [sidecarReq EXCEPT ![r] = "configuring"]
  /\ sentTo' = [sentTo EXCEPT ![r] = Min(Unspawned)]
  /\ UNCHANGED hostDown

SendOn(r) ==
  /\ sidecarReq' = [sidecarReq EXCEPT ![r] = "pending"]
  /\ sentTo' = [sentTo EXCEPT ![r] = child]
  /\ hostDown' = (kid[child] # "running")
  /\ UNCHANGED <<kid, child>>

\* A request begins: the first kind looks at child.connected, the second only
\* whether there is a child.
NeedsChild_Always(r) == child = 0 \/ r \in Asks
NeedsChild(r) == child = 0 \/ (r \in Asks /\ kid[child] # "running")
Ask(r) ==
  /\ sidecarReq[r] = "new"
  /\ IF NeedsChild(r) THEN SpawnRunner(r) ELSE SendOn(r)
  /\ UNCHANGED <<stopping, usurped, spared>>

\* The answer to `configure`: the request itself goes to whatever the child is now.
Configured(r) ==
  /\ sidecarReq[r] = "configuring"
  /\ kid[sentTo[r]] = "running"
  /\ IF child = 0 THEN SpawnRunner(r) ELSE SendOn(r)
  /\ UNCHANGED <<stopping, usurped, spared>>

\* The answer of the process.
Responds(r) ==
  /\ sidecarReq[r] = "pending"
  /\ kid[sentTo[r]] = "running"
  /\ sidecarReq' = [sidecarReq EXCEPT ![r] = "resolved"]
  /\ UNCHANGED <<kid, child, sentTo, stopping, hostDown, usurped, spared>>

AskTimesOut(r) ==
  /\ sidecarReq[r] \in {"configuring", "pending"}
  /\ sidecarReq' = [sidecarReq EXCEPT ![r] = "rejected"]
  /\ UNCHANGED <<kid, child, sentTo, stopping, hostDown, usurped, spared>>

\* The process dies: its channel closes first.
KidDies(k) ==
  /\ kid[k] = "running"
  /\ kid' = [kid EXCEPT ![k] = "cut"]
  /\ UNCHANGED <<child, sidecarReq, sentTo, stopping, hostDown, usurped, spared>>

\* Its exit event: no child, and every pending request is rejected.
Rejected_None(k) == {}
Rejected(k) == {r \in Requests : sidecarReq[r] \in {"configuring", "pending"}}
KidExits(k) ==
  /\ kid[k] = "cut"
  /\ kid' = [kid EXCEPT ![k] = "gone"]
  /\ child' = 0
  /\ sidecarReq' = [r \in Requests |-> IF r \in Rejected(k) THEN "rejected" ELSE sidecarReq[r]]
  /\ usurped' = (usurped \/ child \notin {0, k})
  /\ spared' = spared \cup {r \in Rejected(k) : kid[sentTo[r]] = "running"}
  /\ UNCHANGED <<sentTo, stopping, hostDown>>

\* shutdown(): asked to stop, then killed whatever it answered.
ShutdownBegins ==
  /\ child # 0 /\ ~stopping
  /\ stopping' = TRUE
  /\ UNCHANGED <<kid, child, sidecarReq, sentTo, hostDown, usurped, spared>>

ShutdownEnds ==
  /\ stopping
  /\ stopping' = FALSE
  /\ kid' = [k \in KidIds |-> IF k = child /\ kid[k] = "running" THEN "cut" ELSE kid[k]]
  /\ child' = 0
  /\ UNCHANGED <<sidecarReq, sentTo, hostDown, usurped, spared>>

-----------------------------------------------------------------------------
SidecarNext ==
  /\ ~hostDown
  /\ \/ \E r \in Requests : Ask(r) \/ Configured(r) \/ Responds(r) \/ AskTimesOut(r)
     \/ \E k \in KidIds : KidDies(k) \/ KidExits(k)
     \/ ShutdownBegins \/ ShutdownEnds

SidecarSpec == SidecarInit /\ [][SidecarNext]_sidecarVars

-----------------------------------------------------------------------------
(* Properties *)

\* No process is lost sight of: one that runs is the child, unless the exit event
\* of its predecessor came late and took its place for nothing.
NoLostSidecar == ~usurped => \A k \in KidIds : kid[k] = "running" => child = k

\* A request is rejected by an exit only if its own process is gone, with the same
\* exception.
OwnExitOnly == spared # {} => usurped

\* No request waits for a process that is gone.
NobodyWaitsForTheDead == \A k \in KidIds : kid[k] = "gone" => PendingOn(k) = {}

\* Processes and requests belong together: see the three above.
SidecarCorrect == NoLostSidecar /\ OwnExitOnly /\ NobodyWaitsForTheDead

=============================================================================
