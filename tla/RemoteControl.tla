---------------------------- MODULE RemoteControl ----------------------------
(***************************************************************************)
(* Sessions of remote control (src/src/remote-control.ts): a detached      *)
(* process that outlives the host, found again by a state file, and whose  *)
(* URL is read from the one file every such process prints to.  Starts     *)
(* wait for the URL in a loop of timers, so that other starts, stops and   *)
(* a restart of the host come in between.                                  *)
(***************************************************************************)
EXTENDS Integers, FiniteSets, FiniteSetsExt

CONSTANTS
  Processes,  \* model bound: processes spawned in a behaviour, 1..n
  Starts,     \* the startRemoteControl calls
  HostStarts  \* model bound: restarts of the host

ASSUME RemoteAssumption == Processes \subseteq Nat \ {0}  \* pids

NoSession == [pid |-> 0, url |-> 0]

VARIABLES
  process,     \* process[p]: "unused", "mute" (no URL printed), "ready" or "gone"
  printed,     \* processes whose URL is in STDOUT_FILE
  starting,    \* starting[c]: the process start c waits for, or 0
  begun,       \* starts that were called
  session,     \* activeSession
  stateFile,   \* STATE_FILE
  hostStarts,  \* counts restarts
  crowded,     \* history: a start was called while another one waited
  deserted     \* history: the host went while a start waited

remoteVars == <<process, printed, starting, begun, session, stateFile, hostStarts,
                crowded, deserted>>

RemoteInit ==
  /\ process = [p \in Processes |-> "unused"]
  /\ printed = {}
  /\ starting = [c \in Starts |-> 0]
  /\ begun = {}
  /\ session = NoSession
  /\ stateFile = NoSession
  /\ hostStarts = 0
  /\ crowded = FALSE
  /\ deserted = FALSE

-----------------------------------------------------------------------------
IsAlive(p) == p \in Processes /\ process[p] \in {"mute", "ready"}
Waiting(c) == starting[c] # 0
Spawnable == {p \in Processes : process[p] = "unused"}

\* Kills the process p, if it runs.
Killed(p) == [process EXCEPT ![p] = "gone"]

\* A session whose process runs is handed out as it is.
StartFinds(c) ==
  /\ c \notin begun
  /\ IsAlive(session.pid)
  /\ begun' = begun \cup {c}
  /\ UNCHANGED <<process, printed, starting, session, stateFile, hostStarts, crowded,
                 deserted>>

\* Otherwise what is left of a session is cleared away, a process is spawned and
\* the file it prints to is emptied.
Cleared == IF session = NoSession THEN stateFile ELSE NoSession
Emptied_Kept == printed
Emptied == {}
StartSpawns(c) ==
  /\ c \notin begun
  /\ ~IsAlive(session.pid)
  /\ Spawnable # {}
  /\ begun' = begun \cup {c}
  /\ process' = [process EXCEPT ![Min(Spawnable)] = "mute"]
  /\ starting' = [starting EXCEPT ![c] = Min(Spawnable)]
  /\ printed' = Emptied
  /\ session' = NoSession
  /\ stateFile' = Cleared
  /\ crowded' = (crowded \/ \E d \in Starts : Waiting(d))
  /\ UNCHANGED <<hostStarts, deserted>>

\* spawn throws or yields no pid.
SpawnFails(c) ==
  /\ c \notin begun
  /\ ~IsAlive(session.pid)
  /\ begun' = begun \cup {c}
  /\ printed' = Emptied
  /\ session' = NoSession
  /\ stateFile' = Cleared
  /\ UNCHANGED <<process, starting, hostStarts, crowded, deserted>>

\* The process prints its URL: into the file, whoever emptied it meanwhile.
Prints(p) ==
  /\ process[p] = "mute"
  /\ process' = [process EXCEPT ![p] = "ready"]
  /\ printed' = printed \cup {p}
  /\ UNCHANGED <<starting, begun, session, stateFile, hostStarts, crowded, deserted>>

\* The process ends by itself, or is closed by its user.
Dies(p) ==
  /\ IsAlive(p)
  /\ process' = Killed(p)
  /\ UNCHANGED <<printed, starting, begun, session, stateFile, hostStarts, crowded,
                 deserted>>

\* poll: the process died.
PollFindsDead(c) ==
  /\ Waiting(c)
  /\ ~IsAlive(starting[c])
  /\ starting' = [starting EXCEPT ![c] = 0]
  /\ UNCHANGED <<process, printed, begun, session, stateFile, hostStarts, crowded,
                 deserted>>

\* poll: a URL is in the file, and counts as this process's.
PollFindsUrl(c) ==
  /\ Waiting(c)
  /\ IsAlive(starting[c])
  /\ \E u \in printed : session' = [pid |-> starting[c], url |-> u]
  /\ stateFile' = session'
  /\ starting' = [starting EXCEPT ![c] = 0]
  /\ UNCHANGED <<process, printed, begun, hostStarts, crowded, deserted>>

\* poll: 30 s without a URL.
AfterTimeout_Leaves(p) == process
AfterTimeout(p) == Killed(p)
PollTimesOut(c) ==
  /\ Waiting(c)
  /\ IsAlive(starting[c])
  /\ printed = {}
  /\ process' = AfterTimeout(starting[c])
  /\ starting' = [starting EXCEPT ![c] = 0]
  /\ UNCHANGED <<printed, begun, session, stateFile, hostStarts, crowded, deserted>>

\* stopRemoteControl, which knows the session and no start that waits.
FileAfterStop_Stays == stateFile
FileAfterStop == NoSession
StopRemote ==
  /\ session # NoSession
  /\ process' = Killed(session.pid)
  /\ session' = NoSession
  /\ stateFile' = FileAfterStop
  /\ UNCHANGED <<printed, starting, begun, hostStarts, crowded, deserted>>

\* The host restarts: processes live on, and restoreRemoteControl adopts the one
\* the file names, if it runs.
Adopted == IF IsAlive(stateFile.pid) THEN stateFile ELSE NoSession
HostRestarts ==
  /\ hostStarts < HostStarts
  /\ hostStarts' = hostStarts + 1
  /\ session' = Adopted
  /\ stateFile' = Adopted
  /\ starting' = [c \in Starts |-> 0]
  /\ deserted' = (deserted \/ \E c \in Starts : Waiting(c))
  /\ UNCHANGED <<process, printed, begun, crowded>>

RemoteNext ==
  \/ \E c \in Starts :
       \/ StartFinds(c) \/ StartSpawns(c) \/ SpawnFails(c)
       \/ PollFindsDead(c) \/ PollFindsUrl(c) \/ PollTimesOut(c)
  \/ \E p \in Processes : Prints(p) \/ Dies(p)
  \/ StopRemote \/ HostRestarts

-----------------------------------------------------------------------------
(* Properties *)

\* No process that gives remote control runs unknown to the host: it is the
\* session's, or a start waits for it, unless starts overlapped (the session
\* of one replaces the other's) or the host went during a start.
NoStray ==
  \A p \in Processes :
    IsAlive(p) /\ ~crowded /\ ~deserted => session.pid = p \/ \E c \in Starts : starting[c] = p

\* The URL that is handed out is that of the process that stop will kill, with the
\* same exceptions: all processes print to one file.
UrlIsItsOwn == session.url = session.pid \/ crowded \/ deserted

\* What the host would find after a restart is what it knows now.
FoundAgain == stateFile = session

RemoteCorrect == NoStray /\ UrlIsItsOwn /\ FoundAgain

=============================================================================
