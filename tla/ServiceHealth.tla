----------------------------- MODULE ServiceHealth -----------------------------
(***************************************************************************)
(* The monitor of an integration's container                               *)
(* (src/src/integrations/service-manager.ts): health checks on an interval,*)
(* restarts with a backoff that doubles, and a circuit breaker.            *)
(*                                                                         *)
(* A check awaits the service's answer for up to 5 s while the next tick   *)
(* may start another, and while the owner starts or stops the service. The *)
(* state of the monitor is an object that a reset replaces: a check that   *)
(* began before goes on with the old one. Time is counted in ticks of the  *)
(* interval.                                                               *)
(***************************************************************************)
EXTENDS Integers, FiniteSets

CONSTANTS
  HealthTicks,    \* model bound: the clock stops at HealthTicks
  HealthStates,   \* model bound: state objects 1..HealthStates are made
  FailThreshold,  \* CIRCUIT_OPEN_THRESHOLD
  InitialBackoff, \* INITIAL_BACKOFF_MS, in ticks
  MaxBackoff      \* MAX_BACKOFF_MS, in ticks

ASSUME HealthAssumption ==
  /\ HealthTicks \in Nat /\ HealthStates \in Nat \ {0} /\ FailThreshold \in Nat
  /\ InitialBackoff \in Nat /\ MaxBackoff \in Nat /\ InitialBackoff <= MaxBackoff

VARIABLES
  clock,
  enabled,    \* the integration is enabled
  up,         \* the container is up
  health,     \* the state objects: [failures, last, backoff, open], last 0 for never
  tracked,    \* the object in healthStates
  checks,     \* the checks under way: [object, began]
  autoStarts, \* history: restarts of the monitor: [object, time, after] where after is the
              \* backoff that was due
  badChecks   \* history: failed checks on each object

healthVars == <<clock, enabled, up, health, tracked, checks, autoStarts, badChecks>>

FreshHealth == [failures |-> 0, last |-> 0, backoff |-> InitialBackoff, open |-> FALSE]
Objects == 1..HealthStates

HealthInit ==
  /\ clock = 1
  /\ enabled \in BOOLEAN
  /\ up \in BOOLEAN
  /\ health = [o \in Objects |-> FreshHealth]
  /\ tracked = 1
  /\ checks = {}
  /\ autoStarts = {}
  /\ badChecks = [o \in Objects |-> 0]

-----------------------------------------------------------------------------
(* An operator X_Y is X with a bug Y planted in it. *)

\* resetHealthState
CanReset == tracked < HealthStates
Reset == tracked' = tracked + 1

\* A tick of the interval: runHealthChecks, up to its fetch.
Skipped_Never(h) == FALSE
Skipped(h) == h.open
CheckBegins ==
  /\ clock < HealthTicks
  /\ clock' = clock + 1
  /\ IF enabled /\ ~Skipped(health[tracked])
     THEN checks' = checks \cup {[object |-> tracked, began |-> clock]}
     ELSE UNCHANGED checks
  /\ UNCHANGED <<enabled, up, health, tracked, autoStarts, badChecks>>

CheckPasses(c) ==
  /\ c \in checks
  /\ checks' = checks \ {c}
  /\ CanReset /\ Reset
  /\ UNCHANGED <<clock, enabled, up, health, autoStarts, badChecks>>

\* The check fails: it is counted, opens the circuit, waits for the backoff, or
\* starts the service, which resets the state when docker compose succeeds.
Opens_Late(h) == h.failures > FailThreshold
Opens(h) == h.failures >= FailThreshold
Due_Initial(h) == clock - h.last >= InitialBackoff
Due(h) == h.last = 0 \/ clock - h.last >= h.backoff
Doubled(backoff) == IF 2 * backoff > MaxBackoff THEN MaxBackoff ELSE 2 * backoff

CheckFails(c) ==
  /\ c \in checks
  /\ checks' = checks \ {c}
  /\ badChecks' = [badChecks EXCEPT ![c.object] = @ + 1]
  /\ LET h == [health[c.object] EXCEPT !.failures = @ + 1] IN
       \/ /\ Opens(h)
          /\ health' = [health EXCEPT ![c.object] = [h EXCEPT !.open = TRUE]]
          /\ UNCHANGED <<up, tracked, autoStarts>>
       \/ /\ ~Opens(h) /\ ~Due(h)
          /\ health' = [health EXCEPT ![c.object] = h]
          /\ UNCHANGED <<up, tracked, autoStarts>>
       \/ /\ ~Opens(h) /\ Due(h)
          /\ health' = [health EXCEPT ![c.object] =
                          [h EXCEPT !.last = clock, !.backoff = Doubled(@)]]
          /\ autoStarts' = autoStarts \cup {[object |-> c.object, time |-> clock, after |-> h.backoff]}
          /\ \/ CanReset /\ Reset /\ up' = TRUE
             \/ UNCHANGED <<up, tracked>>
  /\ UNCHANGED <<clock, enabled>>

\* The owner starts the service (resetCircuitBreaker, startService), which may fail, ...
ManualStart ==
  /\ CanReset /\ Reset
  /\ up' \in {up, TRUE}
  /\ UNCHANGED <<clock, enabled, health, checks, autoStarts, badChecks>>

\* ... or stops it; the monitor is not told.
StopService ==
  /\ up' = FALSE /\ up
  /\ UNCHANGED <<clock, enabled, health, tracked, checks, autoStarts, badChecks>>

\* The integration is switched on or off in the admin UI.
Toggle ==
  /\ enabled' = ~enabled
  /\ UNCHANGED <<clock, up, health, tracked, checks, autoStarts, badChecks>>

HealthNext ==
  \/ CheckBegins \/ ManualStart \/ StopService \/ Toggle
  \/ \E c \in checks : CheckPasses(c) \/ CheckFails(c)

-----------------------------------------------------------------------------
\* An open circuit means no more restarts: the monitor has started a service at
\* most FailThreshold - 1 times on one state, and never at or after the failure
\* that opened it, with checks overlapping.
BreakerHolds ==
  \A o \in Objects : badChecks[o] >= FailThreshold - 1 =>
    {a \in autoStarts' : a.object = o} = {a \in autoStarts : a.object = o}

\* Restarts on one state are further and further apart: the n-th comes a backoff
\* of InitialBackoff * 2^(n-1) ticks after the one before, up to MaxBackoff.
BackedOff ==
  \A a, b \in autoStarts :
    a.object = b.object /\ a.time < b.time =>
      /\ b.time - a.time >= b.after
      /\ b.after >= Doubled(a.after)

\* A check is not begun on an open circuit; a state whose circuit is open stays
\* open until the owner or a healthy answer replaces it.
OpenUntilReset ==
  \A o \in Objects : health[o].open =>
    health'[o].open /\ \A c \in checks' \ checks : c.object # o

\* Automatic restarts are bounded, spaced, and stop when the circuit opens.
MonitorCorrect == [][BackedOff' /\ BreakerHolds /\ OpenUntilReset]_healthVars

=============================================================================
