--------------------------- MODULE MCTaskScheduler ---------------------------
(* TaskScheduler with a bounded number of interventions and faults, so that   *)
(* liveness is judged once they cease.                                        *)
EXTENDS TaskScheduler

CONSTANT Budget  \* model bound: interventions in a behaviour

VARIABLE budget

MCInit == SchedulerInit /\ budget = Budget

Undisturbed == (Tick \/ Poll \/ RunNext \/ Scheduled) /\ UNCHANGED budget

Disturbed == budget > 0 /\ budget' = budget - 1 /\ Interventions

MCSpec == MCInit /\ [][Undisturbed \/ Disturbed]_<<schedulerVars, budget>> /\ SchedulerFairness

=============================================================================
