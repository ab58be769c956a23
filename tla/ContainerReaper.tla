--------------------------- MODULE ContainerReaper ---------------------------
(***************************************************************************)
(* Which containers run, and who knows of them: the agents' containers of  *)
(* the group queue, the warm runner containers of the pool, the cleanup at *)
(* startup and the reaper that stops what has run too long                 *)
(* (src/src/container-runtime.ts, with group-queue.ts,                     *)
(* runner/common/hot-runner-pool.ts and index.ts).                         *)
(*                                                                         *)
(* A container is its name.  The name of a lane's runner containers is cut *)
(* off before what makes it unique, so a lane has one at most, whatever    *)
(* the pool's limit is.  A job in there blocks the host's thread until it  *)
(* is over, so the reaper does not see one under way.  Bounds: Containers  *)
(* of agents are made, in order; Hosts is how often the host starts.       *)
(***************************************************************************)
EXTENDS Naturals

CONSTANTS
  Containers, Hosts,
  Lanes,             \* "trusted" and "restricted"
  WarmMin, WarmMax   \* minIdle and maxSize of a lane

ASSUME ReaperAssumption == Containers \in Nat /\ Lanes \cap (1..Containers) = {}

Names == (1..Containers) \cup Lanes

VARIABLES
  made,      \* agents' containers started so far
  alive,     \* what "docker ps" lists
  age,       \* of each: "minutes", "hours" or "days", as its RunningFor says
  inQueue,   \* containers of the groups that are active in the queue
  pool,      \* how many sessions the runner pool of a lane has
  host,      \* "down" or "up"
  hosts,     \* starts so far
  passed,    \* history: containers the reaper stopped, or tried to
  stuck,     \* history: neither stop nor kill helped
  grewOld    \* history: containers in the queue until they were days old

containerSetVars == <<made, alive, age, inQueue, pool, host, hosts, passed, stuck, grewOld>>

ReaperInit ==
  /\ made = 0
  /\ alive = {} /\ inQueue = {}
  /\ pool = [l \in Lanes |-> 0]
  /\ age = [n \in Names |-> "minutes"]
  /\ host = "down"
  /\ hosts = 0
  /\ passed = {} /\ stuck = {} /\ grewOld = {}

-----------------------------------------------------------------------------
(* An operator X_Y is X with a bug Y planted in it. *)

\* parseDockerRunningFor knows hours, minutes and seconds: days are nothing.
Stale_Never(n) == FALSE
Stale(n) == age[n] = "hours"

\* Reaped are the stale ones that the queue does not track.
Reapable_All == {n \in alive : Stale(n)}
Reapable == {n \in alive \ inQueue : Stale(n)}

\* What is known of containers that are no more is forgotten: their names may return.
Forget ==
  /\ passed' = passed \cap alive'
  /\ grewOld' = grewOld \cap alive'

\* docker stop, and docker kill when that fails; some stay.
StopAll(names) ==
  \E left \in SUBSET names :
    /\ alive' = alive \ (names \ left)
    /\ stuck' = (stuck \cup left) \cap alive'

NoSessions == [l \in Lanes |-> 0]

-----------------------------------------------------------------------------
(* The host *)

\* cleanupOrphans, and then the pools are prewarmed; a lane whose container is still
\* there cannot be, and the host exits.
Orphans_None == {}
Orphans == alive
HostStarts ==
  /\ host = "down" /\ hosts < Hosts
  /\ hosts' = hosts + 1
  /\ \E left \in SUBSET Orphans :
       LET survivors == alive \ (Orphans \ left)
       IN /\ alive' = survivors \cup Lanes
          /\ stuck' = (stuck \cup left) \cap survivors
          /\ passed' = passed \cap survivors
          /\ grewOld' = grewOld \cap survivors
          /\ age' = [n \in Names |-> IF n \in survivors THEN age[n] ELSE "minutes"]
          /\ IF survivors \cap Lanes = {}
             THEN host' = "up" /\ pool' = [l \in Lanes |-> WarmMin]
             ELSE host' = "down" /\ pool' = NoSessions
  /\ UNCHANGED <<made, inQueue>>

\* The host crashes, and what it tracked with it; the containers run on.
HostCrashes ==
  /\ host = "up"
  /\ host' = "down"
  /\ inQueue' = {} /\ pool' = NoSessions
  /\ UNCHANGED <<made, alive, age, hosts, passed, stuck, grewOld>>

\* shutdown: the reaper stops first; the queue stops its containers and the pool its own.
HostShutsDown ==
  /\ host = "up"
  /\ host' = "down"
  /\ StopAll((inQueue \cup {l \in Lanes : pool[l] > 0}) \cap alive)
  /\ Forget
  /\ inQueue' = {} /\ pool' = NoSessions
  /\ UNCHANGED <<made, age, hosts>>

-----------------------------------------------------------------------------
(* The group queue's containers *)

AgentContainerStarts ==
  /\ host = "up" /\ made < Containers
  /\ made' = made + 1
  /\ alive' = alive \cup {made'}
  /\ inQueue' = inQueue \cup {made'}
  /\ UNCHANGED <<age, pool, host, hosts, passed, stuck, grewOld>>

\* It exits, and the run is over.
AgentContainerExits(n) ==
  /\ n \in inQueue
  /\ alive' = alive \ {n}
  /\ inQueue' = inQueue \ {n}
  /\ stuck' = stuck \ {n}
  /\ Forget
  /\ UNCHANGED <<made, age, pool, host, hosts>>

\* The docker client ends, or cannot stop the container at the timeout: the run is over
\* and the container runs on.
AgentContainerLeft(n) ==
  /\ n \in inQueue
  /\ inQueue' = inQueue \ {n}
  /\ UNCHANGED <<made, alive, age, pool, host, hosts, passed, stuck, grewOld>>

-----------------------------------------------------------------------------
(* The pool's containers *)

\* A call finds every session of the lane busy.  "docker run" fails while the lane's
\* container is there, and so does the call.
RunnerStarts(l) ==
  /\ host = "up" /\ pool[l] < WarmMax
  /\ l \notin alive
  /\ alive' = alive \cup {l}
  /\ age' = [age EXCEPT ![l] = "minutes"]
  /\ pool' = [pool EXCEPT ![l] = @ + 1]
  /\ UNCHANGED <<made, inQueue, host, hosts, passed, stuck, grewOld>>

\* reapIdleSessions: a session beyond the minimum is closed, and with it the container of
\* that name.
RunnerClosed(l) ==
  /\ host = "up" /\ pool[l] > WarmMin
  /\ pool' = [pool EXCEPT ![l] = @ - 1]
  /\ StopAll({l} \cap alive)
  /\ Forget
  /\ UNCHANGED <<made, age, inQueue, host, hosts>>

-----------------------------------------------------------------------------
(* Time *)

\* It gets older.  The reaper runs every five minutes while the host is up, so a
\* container that is a day old there has met it.
Ages(n) ==
  /\ n \in alive
  /\ \/ /\ age[n] = "minutes"
        /\ age' = [age EXCEPT ![n] = "hours"]
        /\ UNCHANGED grewOld
     \/ /\ age[n] = "hours"
        /\ host = "up" => n \in inQueue \cup passed
        /\ age' = [age EXCEPT ![n] = "days"]
        /\ grewOld' = grewOld \cup ({n} \cap inQueue)
  /\ UNCHANGED <<made, alive, inQueue, pool, host, hosts, passed, stuck>>

Reaps ==
  /\ host = "up"
  /\ StopAll(Reapable)
  /\ passed' = (passed \cup {n \in alive \ inQueue : age[n] = "hours"}) \cap alive'
  /\ grewOld' = grewOld \cap alive'
  /\ UNCHANGED <<made, age, inQueue, pool, host, hosts>>

ReaperNext ==
  \/ HostStarts \/ HostCrashes \/ HostShutsDown
  \/ AgentContainerStarts \/ Reaps
  \/ \E n \in Names : AgentContainerExits(n) \/ AgentContainerLeft(n) \/ Ages(n)
  \/ \E l \in Lanes : RunnerStarts(l) \/ RunnerClosed(l)

ReaperSpec == ReaperInit /\ [][ReaperNext]_containerSetVars

-----------------------------------------------------------------------------
(* Properties *)

\* A container the queue tracks runs until its run is over: the reaper spares it however
\* old it is.
TrackedSpared == inQueue \subseteq alive

\* A container nobody knows is stopped, by the cleanup of the next start or by the reaper
\* before its age reads as days; but for those that cannot be stopped, and those a run had
\* until they were that old.
ZombiesGo ==
  host = "up" =>
    \A n \in alive \ (inQueue \cup stuck \cup grewOld) : age[n] # "days" /\ n \notin passed

ContainersCorrect == TrackedSpared /\ ZombiesGo

=============================================================================
