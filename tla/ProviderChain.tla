---------------------------- MODULE ProviderChain ----------------------------
(***************************************************************************)
(* The providers of deep research, tried one after the other               *)
(* (ChainProvider of src/src/research/providers.ts), and their circuit     *)
(* breakers, which all jobs of the host share.                             *)
(*                                                                         *)
(* A chain is one search or fetch of a job; between its awaits other       *)
(* chains run.  Bounds: Lookups per job and the Clock.                     *)
(***************************************************************************)
EXTENDS Naturals, Sequences, FiniteSets

CONSTANTS
  Jobs,
  Providers,   \* the chain, in order
  Lookups,     \* chains a job runs
  Threshold,   \* BREAKER_FAILURE_THRESHOLD
  Cooldown,    \* BREAKER_COOLDOWN_MS
  Clock

\* ChainProvider throws when it is made of no provider.
ASSUME ProviderChainAssumption ==
  /\ Len(Providers) \in Nat \ {0}
  /\ Threshold \in Nat /\ Cooldown \in Nat

Positions == 1..Len(Providers)

VARIABLES
  instant,
  breaker,   \* of each provider: failures in a row, and until when it is open
  at,        \* the provider a job's chain awaits; 0 between chains
  forced,    \* allOpen of the chain
  tried,     \* providers the chain has called
  skipped,   \* providers it has passed over
  outcome,   \* of the job's last chain: "none", "found" or "failed"
  lookups,   \* chains so far
  inARow,    \* history: a provider's failures since its last success
  openSince  \* history: when its breaker last went from closed to open

chainVars ==
  <<instant, breaker, at, forced, tried, skipped, outcome, lookups, inARow, openSince>>

ClosedBreaker == [failures |-> 0, until |-> 0]

ChainInit ==
  /\ instant = 1
  /\ breaker = [p \in Positions |-> ClosedBreaker]
  /\ at = [j \in Jobs |-> 0]
  /\ forced = [j \in Jobs |-> FALSE]
  /\ tried = [j \in Jobs |-> {}]
  /\ skipped = [j \in Jobs |-> {}]
  /\ outcome = [j \in Jobs |-> "none"]
  /\ lookups = [j \in Jobs |-> 0]
  /\ inARow = [p \in Positions |-> 0]
  /\ openSince = [p \in Positions |-> 0]

-----------------------------------------------------------------------------
(* The breakers.  An operator X_Y is X with a bug Y planted in it. *)

OpenIn(b, p) == b[p].until > instant

\* isProviderCircuitOpen, when it is asked of these providers: one whose cooldown is over starts anew.
Looked(b, ps) ==
  [p \in Positions |-> IF p \in ps /\ ~OpenIn(b, p) /\ b[p].until # 0 THEN ClosedBreaker ELSE b[p]]

\* recordProviderFailure
BreakerOpens_Always(n, until) == n >= Threshold
BreakerOpens_Early(n, until) == n >= Threshold - 1 /\ until <= instant
BreakerOpens(n, until) == n >= Threshold /\ until <= instant
FailedOnce(b, p) ==
  LET n == b[p].failures + 1
  IN [b EXCEPT ![p] = [failures |-> n,
                       until |-> IF BreakerOpens(n, b[p].until) THEN instant + Cooldown ELSE b[p].until]]

\* recordProviderSuccess
Succeeded_Kept(b, p) == b
Succeeded(b, p) == [b EXCEPT ![p] = ClosedBreaker]

-----------------------------------------------------------------------------
(* runChain *)

AllOpen_Ignored(b) == FALSE
AllOpen(b) == \A p \in Positions : OpenIn(b, p)

\* The first of the providers from i on that is not skipped, or the end of the chain.
Upcoming(b, i, force) ==
  LET callable == {p \in i..Len(Providers) : force \/ ~OpenIn(b, p)}
  IN IF callable = {} THEN Len(Providers) + 1 ELSE CHOOSE p \in callable : \A q \in callable : p <= q

\* The chain goes on from provider i: to the next call, or it has failed.
GoesOn(j, i, b, force) ==
  LET n == Upcoming(b, i, force)
  IN /\ breaker' = Looked(b, IF force THEN {} ELSE i..n)
     /\ skipped' = [skipped EXCEPT ![j] = @ \cup (i..(n - 1))]
     /\ IF n <= Len(Providers)
        THEN /\ at' = [at EXCEPT ![j] = n]
             /\ tried' = [tried EXCEPT ![j] = @ \cup {n}]
             /\ UNCHANGED outcome
        ELSE /\ at' = [at EXCEPT ![j] = 0]
             /\ outcome' = [outcome EXCEPT ![j] = "failed"]
             /\ UNCHANGED tried

StartsChain(j) ==
  /\ at[j] = 0 /\ lookups[j] < Lookups
  /\ lookups' = [lookups EXCEPT ![j] = @ + 1]
  /\ LET force == AllOpen(breaker)
         n == Upcoming(breaker, 1, force)
     IN /\ forced' = [forced EXCEPT ![j] = force]
        /\ breaker' = Looked(breaker, IF force THEN {} ELSE 1..n)
        /\ skipped' = [skipped EXCEPT ![j] = 1..(n - 1)]
        /\ IF n <= Len(Providers)
           THEN /\ at' = [at EXCEPT ![j] = n]
                /\ tried' = [tried EXCEPT ![j] = {n}]
                /\ outcome' = [outcome EXCEPT ![j] = "none"]
           ELSE /\ tried' = [tried EXCEPT ![j] = {}]
                /\ outcome' = [outcome EXCEPT ![j] = "failed"]
                /\ UNCHANGED at
  /\ UNCHANGED <<instant, inARow, openSince>>

ProviderAnswers(j) ==
  /\ at[j] # 0
  /\ breaker' = Succeeded(breaker, at[j])
  /\ inARow' = [inARow EXCEPT ![at[j]] = 0]
  /\ outcome' = [outcome EXCEPT ![j] = "found"]
  /\ at' = [at EXCEPT ![j] = 0]
  /\ UNCHANGED <<instant, forced, tried, skipped, lookups, openSince>>

ProviderFails(j) ==
  /\ at[j] # 0
  /\ LET p == at[j]
         b == FailedOnce(breaker, p)
     IN /\ inARow' = [inARow EXCEPT ![p] = @ + 1]
        /\ openSince' = IF OpenIn(b, p) /\ ~OpenIn(breaker, p)
                        THEN [openSince EXCEPT ![p] = instant] ELSE openSince
        /\ GoesOn(j, p + 1, b, forced[j])
  /\ UNCHANGED <<instant, forced, lookups>>

TimePasses ==
  /\ instant < Clock
  /\ instant' = instant + 1
  /\ UNCHANGED <<breaker, at, forced, tried, skipped, outcome, lookups, inARow, openSince>>

ChainNext ==
  \/ TimePasses
  \/ \E j \in Jobs : StartsChain(j) \/ ProviderAnswers(j) \/ ProviderFails(j)

ChainSpec == ChainInit /\ [][ChainNext]_chainVars

-----------------------------------------------------------------------------
(* Properties *)

\* A provider is out of the chains only after enough failures in a row, of whatever jobs,
\* and no longer than a cooldown, however many calls that were under way still fail.
OpenForCause ==
  \A p \in Positions : OpenIn(breaker, p) =>
    inARow[p] >= Threshold /\ instant < openSince[p] + Cooldown

\* No chain fails without having called a provider, even when others open breakers
\* meanwhile.
FailsTried == \A j \in Jobs : outcome[j] = "failed" => tried[j] # {}

\* What a chain does not call, it passed over for an open breaker; it calls none twice
\* and forgets none.
EveryoneConsidered ==
  \A j \in Jobs : /\ outcome[j] = "failed" => tried[j] \cup skipped[j] = Positions
                  /\ tried[j] \cap skipped[j] = {}

ChainsCorrect == OpenForCause /\ FailsTried /\ EveryoneConsidered

=============================================================================
