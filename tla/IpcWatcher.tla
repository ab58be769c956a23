----------------------------- MODULE IpcWatcher -----------------------------
(***************************************************************************)
(* The directories through which the agents ask the host to act, of        *)
(* src/ipc.ts, with the waiting side in container/agent-runner.  One       *)
(* sweep at a time reads the directories of all groups, one file after the *)
(* other, and awaits each; meanwhile agents write new files, give up       *)
(* waiting, groups are registered and the file system reports changes.     *)
(*                                                                         *)
(* A group has at most one message and one tool request; what its message  *)
(* and its final answer say is the same text, the case                     *)
(* isDuplicateAgentOutbound exists for.  The slow sweep may be due at any  *)
(* tick (its 15 s are not counted).  Bounds: IpcDirs, IpcRequests,         *)
(* IpcBreaks (how often the host restarts or the duplicate window passes). *)
(***************************************************************************)
EXTENDS Naturals, FiniteSets, Sequences, SequencesExt

CONSTANTS IpcDirs, IpcRequests, IpcBreaks

ASSUME IpcAssumption ==
  /\ IpcRequests \subseteq [dir : IpcDirs, kind : {"message", "tool"}]
  /\ IsFiniteSet(IpcDirs)

VARIABLES
  dirs,       \* group directories that exist
  spool,      \* request files waiting in them
  watched,    \* directories with an fs.watch (one that fails leaves them to the slow sweep)
  cached,     \* cachedGroupFolders
  primed,     \* the first, slow sweep of this process was begun
  dirty,
  dirEvent,   \* a notification of a watched group directory is on its way
  baseEvent,  \* one of the base directory
  sweeping,   \* a sweep is on
  todo,       \* directories it has still to list, messages before tasks
  listed,     \* files of the current listing not looked at yet
  current,    \* the file being processed: at most one
  acted,      \* it has taken effect
  asker,      \* "quiet", "waiting", "answered", "refused", "gaveUp"
  recent,     \* groups whose text is in recentOutboundMessages
  breaks,     \* windows and processes that ended
  carriedOut, \* history: how often a request took effect
  interrupted,\* history: how often a restart hit it
  shown,      \* history: how often the chat got the text
  pardons     \* history: windows and restarts that allowed it again

cacheVars == <<watched, cached, primed>>
sweepVars == <<sweeping, todo, listed, current, acted>>
ipcHistory == <<carriedOut, interrupted, shown, pardons>>
ipcVars == <<dirs, spool, cacheVars, dirty, dirEvent, baseEvent, sweepVars, asker,
             recent, breaks, ipcHistory>>

IpcInit ==
  /\ dirs = {}
  /\ spool = {}
  /\ watched = {}
  /\ cached = {}
  /\ primed = FALSE
  /\ dirty = TRUE
  /\ dirEvent = FALSE
  /\ baseEvent = FALSE
  /\ sweeping = FALSE
  /\ todo = <<>>
  /\ listed = {}
  /\ current = {}
  /\ acted = FALSE
  /\ asker = [r \in IpcRequests |-> "quiet"]
  /\ recent = {}
  /\ breaks = 0
  /\ carriedOut = [r \in IpcRequests |-> 0]
  /\ interrupted = [r \in IpcRequests |-> 0]
  /\ shown = [d \in IpcDirs |-> 0]
  /\ pardons = [d \in IpcDirs |-> 0]

-----------------------------------------------------------------------------
(* An operator X_Y is X with a bug Y planted in it. *)

(* The agents *)

\* The first run of a group makes its directory.
GroupAppears(d) ==
  /\ d \notin dirs
  /\ dirs' = dirs \cup {d}
  /\ baseEvent' = TRUE
  /\ UNCHANGED <<spool, dirty, dirEvent, asker, recent, breaks, cacheVars, sweepVars,
                 ipcHistory>>

\* writeIpcFile: the complete file appears by its rename.
Asks(r) ==
  /\ r.dir \in dirs /\ asker[r] = "quiet"
  /\ spool' = spool \cup {r}
  /\ asker' = [asker EXCEPT ![r] = IF r.kind = "tool" THEN "waiting" ELSE "answered"]
  /\ dirEvent' = (dirEvent \/ r.dir \in watched)
  /\ UNCHANGED <<dirs, dirty, baseEvent, recent, breaks, cacheVars, sweepVars,
                 ipcHistory>>

\* IPC_RESPONSE_TIMEOUT; the request stays where it is.
GivesUp(r) ==
  /\ asker[r] = "waiting"
  /\ asker' = [asker EXCEPT ![r] = "gaveUp"]
  /\ UNCHANGED <<dirs, spool, dirty, dirEvent, baseEvent, recent, breaks, cacheVars,
                 sweepVars, ipcHistory>>

-----------------------------------------------------------------------------
(* Notifications and ticks *)

Notified ==
  /\ dirEvent \/ baseEvent
  /\ dirty' = TRUE
  /\ dirEvent' = FALSE /\ baseEvent' = FALSE
  /\ UNCHANGED <<dirs, spool, asker, recent, breaks, cacheVars, sweepVars, ipcHistory>>

\* Messages of a group, then its tasks.
Listings(order) ==
  [i \in 1..(2 * Len(order)) |->
     [dir |-> order[(i + 1) \div 2], kind |-> IF i % 2 = 1 THEN "message" ELSE "tool"]]

\* A sweep reads the base directory again only when it is a slow one (or the first).
Tick(slow) ==
  /\ ~sweeping
  /\ slow \/ (dirty /\ primed)
  /\ dirty' = FALSE     \* before anything is read
  /\ sweeping' = TRUE
  /\ primed' = TRUE
  /\ IF slow THEN /\ cached' = dirs
                  /\ watched' = dirs
             ELSE UNCHANGED <<cached, watched>>
  /\ todo' = Listings(SetToSeq(cached'))
  /\ listed' = {}
  /\ UNCHANGED <<dirs, spool, dirEvent, baseEvent, current, acted, asker, recent,
                 breaks, ipcHistory>>

\* readdirSync of the next directory.
Lists ==
  /\ sweeping /\ current = {} /\ listed = {} /\ todo # <<>>
  /\ listed' = spool \cap {Head(todo)}
  /\ todo' = Tail(todo)
  /\ UNCHANGED <<dirs, spool, dirty, dirEvent, baseEvent, sweeping, current, acted,
                 asker, recent, breaks, cacheVars, ipcHistory>>

SweepDone_Lowers(now) == FALSE
SweepDone(now) == now

SweepEnds ==
  /\ sweeping /\ current = {} /\ listed = {} /\ todo = <<>>
  /\ sweeping' = FALSE
  /\ dirty' = SweepDone(dirty)
  /\ UNCHANGED <<dirs, spool, dirEvent, baseEvent, todo, listed, current, acted, asker,
                 recent, breaks, cacheVars, ipcHistory>>

-----------------------------------------------------------------------------
(* One file *)

Duplicate_Never(d) == FALSE
Duplicate(d) == d \in recent

\* An echo of what the agent sent before is unlinked unsent; otherwise the text is
\* remembered first and sent then.
Takes(r) ==
  /\ r \in listed /\ current = {}
  /\ listed' = listed \ {r}
  /\ IF r.kind = "message" /\ Duplicate(r.dir)
     THEN spool' = spool \ {r} /\ UNCHANGED <<current, recent>>
     ELSE /\ current' = {r}
          /\ recent' = IF r.kind = "message" THEN recent \cup {r.dir} ELSE recent
          /\ UNCHANGED spool
  /\ UNCHANGED <<dirs, dirty, dirEvent, baseEvent, sweeping, todo, acted, asker, breaks,
                 cacheVars, ipcHistory>>

Acts(r) ==
  /\ carriedOut' = [carriedOut EXCEPT ![r] = @ + 1]
  /\ shown' = IF r.kind = "message" THEN [shown EXCEPT ![r.dir] = @ + 1] ELSE shown

\* The request took effect but the host has not come to the unlink.
TakesEffect ==
  /\ ~acted /\ acted' = TRUE
  /\ \E r \in current : Acts(r)
  /\ UNCHANGED <<dirs, spool, dirty, dirEvent, baseEvent, asker, recent, breaks,
                 interrupted, pardons, cacheVars, sweeping, todo, listed, current>>

Answers(r, answer) ==
  asker' = IF asker[r] = "waiting" THEN [asker EXCEPT ![r] = answer] ELSE asker

Finishes ==
  /\ acted /\ acted' = FALSE
  /\ \E r \in current : Answers(r, "answered")
  /\ spool' = spool \ current
  /\ current' = {}
  /\ UNCHANGED <<dirs, dirty, dirEvent, baseEvent, sweeping, todo, listed, recent,
                 breaks, cacheVars, ipcHistory>>

\* A failing tool answers with its error; a failing message moves to errors/.  Both
\* may have taken effect by then, and neither is tried again.
Leaves_Stays(S) == spool
Leaves(S) == spool \ S

Fails ==
  /\ acted' = FALSE
  /\ \E r \in current : Answers(r, "refused")
  /\ spool' = Leaves(current)
  /\ current' = {}
  /\ UNCHANGED <<dirs, dirty, dirEvent, baseEvent, sweeping, todo, listed, recent,
                 breaks, cacheVars, ipcHistory>>

\* handleAgentOutput of src/index.ts sends the same text as the final answer.
FinalText(d) ==
  /\ d \in dirs /\ ~Duplicate(d)
  /\ recent' = recent \cup {d}
  /\ shown' = [shown EXCEPT ![d] = @ + 1]
  /\ UNCHANGED <<dirs, spool, dirty, dirEvent, baseEvent, asker, breaks, carriedOut,
                 interrupted, pardons, cacheVars, sweepVars>>

\* DEDUP_WINDOW_MS are over.
WindowPasses(d) ==
  /\ breaks < IpcBreaks
  /\ d \in recent
  /\ breaks' = breaks + 1
  /\ recent' = recent \ {d}
  /\ pardons' = [pardons EXCEPT ![d] = @ + 1]
  /\ UNCHANGED <<dirs, spool, dirty, dirEvent, baseEvent, asker, carriedOut,
                 interrupted, shown, cacheVars, sweepVars>>

\* The host starts again; its files survive, its containers do not.
HostStartsOver ==
  /\ breaks < IpcBreaks
  /\ breaks' = breaks + 1
  /\ watched' = {} /\ cached' = {} /\ primed' = FALSE /\ dirty' = TRUE
  /\ dirEvent' = FALSE /\ baseEvent' = FALSE
  /\ sweeping' = FALSE /\ todo' = <<>> /\ listed' = {} /\ current' = {}
  /\ acted' = FALSE
  /\ recent' = {}
  /\ asker' = [r \in IpcRequests |-> IF asker[r] = "waiting" THEN "gaveUp" ELSE asker[r]]
  /\ interrupted' = [r \in IpcRequests |-> 
                      IF acted /\ r \in current THEN interrupted[r] + 1 ELSE interrupted[r]]
  /\ pardons' = [d \in IpcDirs |-> pardons[d] + 1]
  /\ UNCHANGED <<dirs, spool, carriedOut, shown>>

-----------------------------------------------------------------------------
IpcNext ==
  \/ \E d \in IpcDirs : GroupAppears(d) \/ FinalText(d) \/ WindowPasses(d)
  \/ \E r \in IpcRequests : Asks(r) \/ GivesUp(r) \/ Takes(r)
  \/ Notified
  \/ \E slow \in BOOLEAN : Tick(slow)
  \/ Lists \/ SweepEnds \/ TakesEffect \/ Finishes \/ Fails
  \/ HostStartsOver

-----------------------------------------------------------------------------
(* Properties *)

\* No request in a watched directory waits for the slow sweep: a change is on its
\* way, the flag is up, or the sweep that is on will still list the directory or has
\* it in its listing, however writes, events and awaits interleave.
NotOverlooked ==
  \A r \in spool : r.dir \in watched =>
    dirty \/ dirEvent \/ r \in current \/ r \in listed \/ (sweeping /\ Contains(todo, r))

\* A request takes effect once, plus once for every restart that hit it between its
\* effect and the unlink.
CarriedOutOnce == \A r \in IpcRequests : carriedOut[r] <= 1 + interrupted[r]

\* "a tool send followed by an echoed final text response is collapsed": within one
\* window of one process the chat gets a text once.
NoEcho == \A d \in IpcDirs : shown[d] <= 1 + pardons[d]

\* Every request of an agent is found in time, carried out once and shown once.
RequestsCorrect == NotOverlooked /\ CarriedOutOnce /\ NoEcho

=============================================================================
