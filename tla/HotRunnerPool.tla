---------------------------- MODULE HotRunnerPool ----------------------------
(***************************************************************************)
(* The pool of warm runner sessions (src/src/runner/common/                *)
(* hot-runner-pool.ts) under concurrent execute calls.                     *)
(*                                                                         *)
(* Every await is a point where other calls run, so a call is a small      *)
(* program counter.  The session factory and the sessions are taken at     *)
(* their interface: create, execute and close are asynchronous and the     *)
(* first two may fail.                                                     *)
(***************************************************************************)
EXTENDS Integers, Sequences, FiniteSets, SequencesExt

CONSTANTS
  Calls,     \* the execute calls
  MaxSize,   \* maxSize
  MinIdle,   \* minIdle
  Events     \* what may happen: subset of {"failure", "close"}

ASSUME HotRunnerPoolAssumption ==
  /\ IsFiniteSet(Calls)
  /\ MaxSize \in Nat \ {0}
  /\ MinIdle \in Nat
  /\ Events \subseteq {"failure", "close"}

VARIABLES
  created,   \* sessions created so far; a session is its number
  sessions,  \* the sessions map, in the order of lastUsedAt
  busy,      \* entries with status 'busy'
  aged,      \* entries not used for idleTtlMs
  closed,    \* sessions whose close was called
  waiters,   \* idleWaiters
  pc,        \* where each call is
  entry,     \* the entry a call was given
  snapshot   \* the idleEntries of a call that is reaping

poolVars == <<created, sessions, busy, aged, closed, waiters, pc, entry, snapshot>>

NoEntry == 0
Session == 1..created
Pool == ToSet(sessions)
Idle == Pool \ busy

(* "new"      not called yet            "got"      was given an entry        *)
(* "warming"  prewarm awaits create     "running"  awaits session.execute    *)
(* "warm"     prewarm is over           "reaping"  awaits session.close      *)
(* "creating" acquire awaits create     "over"     returned or threw         *)
(* "waiting"  has a waiter                                                   *)
Steps == {"new", "warming", "warm", "creating", "waiting", "got", "running",
          "reaping", "over"}

PoolInit ==
  /\ created = 0
  /\ sessions = <<>>
  /\ busy = {}
  /\ aged = {}
  /\ closed = {}
  /\ waiters = <<>>
  /\ pc = [c \in Calls |-> "new"]
  /\ entry = [c \in Calls |-> NoEntry]
  /\ snapshot = [c \in Calls |-> <<>>]

-----------------------------------------------------------------------------
(* An operator X_Y is X with a bug Y planted in it. *)

Goto(c, step) == pc' = [pc EXCEPT ![c] = step]

\* The members of list that are in S, in their order; a first-order SelectSeq.
Kept(list, S) ==
  LET kept[i \in 0..Len(list)] ==
        IF i = 0 THEN <<>>
        ELSE IF list[i] \in S THEN Append(kept[i - 1], list[i]) ELSE kept[i - 1]
  IN kept[Len(list)]
Without(list, x) == Kept(list, ToSet(list) \ {x})

\* The factory answered: a new idle entry in the map.
Insert_Drops == created' = created + 1 /\ UNCHANGED sessions
Insert ==
  /\ created' = created + 1
  /\ sessions' = Append(sessions, created + 1)

\* prewarm: its loop condition when the map holds n sessions.
WarmUp(c, n) == Goto(c, IF n < MinIdle THEN "warming" ELSE "warm")

Call(c) ==
  /\ pc[c] = "new"
  /\ WarmUp(c, Len(sessions))
  /\ UNCHANGED <<created, sessions, busy, aged, closed, waiters, entry, snapshot>>

Warmed(c) ==
  /\ pc[c] = "warming"
  /\ Insert
  /\ WarmUp(c, Len(sessions'))
  /\ UNCHANGED <<busy, aged, closed, waiters, entry, snapshot>>

-----------------------------------------------------------------------------
(* acquireSession *)

\* The first idle entry in order of insertion; it stays 'idle' until the
\* caller resumes.
TakeIdle(c) ==
  /\ pc[c] = "warm"
  /\ Idle # {}
  /\ entry' = [entry EXCEPT ![c] = CHOOSE s \in Idle : \A t \in Idle : s <= t]
  /\ Goto(c, "got")
  /\ UNCHANGED <<created, sessions, busy, aged, closed, waiters, snapshot>>

Grow(c) ==
  /\ pc[c] = "warm"
  /\ Idle = {}
  /\ Len(sessions) < MaxSize
  /\ Goto(c, "creating")
  /\ UNCHANGED <<created, sessions, busy, aged, closed, waiters, entry, snapshot>>

Grown_ForgetsEntry(c) ==
  /\ pc[c] = "creating"
  /\ Insert
  /\ Goto(c, "got")
  /\ UNCHANGED <<busy, aged, closed, waiters, entry, snapshot>>
Grown(c) ==
  /\ pc[c] = "creating"
  /\ Insert
  /\ entry' = [entry EXCEPT ![c] = created + 1]
  /\ Goto(c, "got")
  /\ UNCHANGED <<busy, aged, closed, waiters, snapshot>>

Wait(c) ==
  /\ pc[c] = "warm"
  /\ Idle = {}
  /\ Len(sessions) >= MaxSize
  /\ waiters' = Append(waiters, c)
  /\ Goto(c, "waiting")
  /\ UNCHANGED <<created, sessions, busy, aged, closed, entry, snapshot>>

\* The watchdog of two minutes rejects the waiter.
WaiterTimesOut(c) ==
  /\ pc[c] = "waiting"
  /\ waiters' = Without(waiters, c)
  /\ Goto(c, "over")
  /\ UNCHANGED <<created, sessions, busy, aged, closed, entry, snapshot>>

CreateFails(c) ==
  /\ "failure" \in Events
  /\ pc[c] \in {"warming", "creating"}
  /\ Goto(c, "over")
  /\ UNCHANGED <<created, sessions, busy, aged, closed, waiters, entry, snapshot>>

-----------------------------------------------------------------------------
(* execute and reapIdleSessions *)

Start(c) ==
  /\ pc[c] = "got"
  /\ busy' = busy \cup {entry[c]}
  /\ Goto(c, "running")
  /\ UNCHANGED <<created, sessions, aged, closed, waiters, entry, snapshot>>

\* A round of the reaping loop over a list of entries: the oldest one is deleted
\* and its close awaited, or the call is over.
ReapRound(c, list, map, old, steps) ==
  IF Len(list) > MinIdle /\ Head(list) \in old
  THEN /\ sessions' = Without(map, Head(list))
       /\ closed' = closed \cup {Head(list)}
       /\ snapshot' = [snapshot EXCEPT ![c] = Tail(list)]
       /\ pc' = [steps EXCEPT ![c] = "reaping"]
  ELSE /\ sessions' = map
       /\ UNCHANGED closed
       /\ snapshot' = [snapshot EXCEPT ![c] = <<>>]
       /\ pc' = [steps EXCEPT ![c] = "over"]

\* The finally block, for a job that succeeded or failed: the entry is idle and
\* the most recently used one, the first waiter gets it, old entries are reaped.
Woken_OnlyIfInMap(c) == IF entry[c] \in Pool THEN waiters ELSE <<>>
Woken(c) == waiters

Finish_LeavesBusy(c) ==
  /\ pc[c] = "running"
  /\ Goto(c, "over")
  /\ UNCHANGED <<created, sessions, busy, aged, closed, waiters, entry, snapshot>>

Finish(c) ==
  /\ pc[c] = "running"
  /\ LET s == entry[c]
         map == IF s \in Pool THEN Append(Without(sessions, s), s) ELSE sessions
         queue == Woken(c)
         steps == IF queue = <<>> THEN pc ELSE [pc EXCEPT ![Head(queue)] = "got"]
     IN /\ busy' = busy \ {s}
        /\ aged' = aged \ {s}
        /\ IF queue = <<>>
           THEN UNCHANGED <<waiters, entry>>
           ELSE /\ waiters' = Tail(queue)
                /\ entry' = [entry EXCEPT ![Head(queue)] = s]
        /\ \E idle \in {Kept(map, ToSet(map) \ busy')} : ReapRound(c, idle, map, aged', steps)
  /\ UNCHANGED created

\* close returned: the loop goes on with the list it started from.
ReapOn(c) ==
  /\ pc[c] = "reaping"
  /\ ReapRound(c, snapshot[c], sessions, aged, pc)
  /\ UNCHANGED <<created, busy, aged, waiters, entry>>

\* Time passes for the entry that was used least recently.
Age ==
  /\ \E i \in 1..Len(sessions) :
       /\ sessions[i] \notin aged
       /\ \A k \in 1..(i - 1) : sessions[k] \in aged
       /\ aged' = aged \cup {sessions[i]}
  /\ UNCHANGED <<created, sessions, busy, closed, waiters, pc, entry, snapshot>>

ClosePool ==
  /\ "close" \in Events
  /\ sessions # <<>>
  /\ sessions' = <<>>
  /\ closed' = closed \cup Pool
  /\ UNCHANGED <<created, busy, aged, waiters, pc, entry, snapshot>>

-----------------------------------------------------------------------------
Acquire(c) == TakeIdle(c) \/ Grow(c) \/ Grown(c) \/ Wait(c)

Proceed(c) == Warmed(c) \/ Acquire(c) \/ Start(c) \/ Finish(c) \/ ReapOn(c)

PoolNext ==
  \/ \E c \in Calls : Call(c) \/ Proceed(c) \/ WaiterTimesOut(c) \/ CreateFails(c)
  \/ Age \/ ClosePool

PoolSpec == PoolInit /\ [][PoolNext]_poolVars

-----------------------------------------------------------------------------
(* Properties *)

PoolTypes ==
  /\ created \in Nat
  /\ sessions \in Seq(Session)
  /\ busy \subseteq Session
  /\ aged \subseteq Session
  /\ closed \subseteq Session
  /\ waiters \in Seq(Calls)
  /\ pc \in [Calls -> Steps]
  /\ entry \in [Calls -> Session \cup {NoEntry}]
  /\ snapshot \in [Calls -> Seq(Session)]

\* No entry stays 'busy' without a call that will set it back to 'idle', even
\* when calls share an entry or its session was reaped under them.
BusyIsUsed == \A s \in busy : \E c \in Calls : pc[c] = "running" /\ entry[c] = s

\* Waiters are "woken by the finally block": while somebody waits, some call
\* holds or is about to hold an entry, so that a finally block is still to come.
WaitersHaveWaker ==
  waiters # <<>> => \E c \in Calls : pc[c] \in {"got", "running"}

\* A session that was created is in the map or was closed; none is left running
\* outside the pool by growing, prewarming, reaping and closing at once.
NoSessionLeaks == Session = Pool \cup closed

\* Entries, waiters and sessions agree, however calls, failures, ageing and close meet.
PoolCorrect == PoolTypes /\ BusyIsUsed /\ WaitersHaveWaker /\ NoSessionLeaks

\* Every call ends without the help of the watchdog.
CallsEnd == \A c \in Calls : pc[c] # "new" ~> pc[c] = "over"

\* "Waiters ... woken by the finally block in execute() the moment a session
\* returns to idle": a session runs one job at a time.
ExclusiveUse ==
  \A c, d \in Calls : pc[c] = "running" /\ pc[d] = "running" /\ entry[c] = entry[d] => c = d

=============================================================================
