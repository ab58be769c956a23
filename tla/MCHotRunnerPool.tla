--------------------------- MODULE MCHotRunnerPool ---------------------------
(* The pool closed at most once in a behaviour.  Sessions answer, and the *)
(* watchdog of a waiter is not counted on: only Proceed is fair.          *)
EXTENDS HotRunnerPool

VARIABLE open  \* it was not closed yet

MCInit == PoolInit /\ open = TRUE

MCNext ==
  \/ \E c \in Calls : Call(c) \/ Proceed(c) \/ WaiterTimesOut(c) \/ CreateFails(c)
  \/ Age

MCSpec ==
  /\ MCInit
  /\ [][ \/ MCNext /\ UNCHANGED open
         \/ open /\ ClosePool /\ open' = FALSE ]_<<poolVars, open>>
  /\ \A c \in Calls : WF_poolVars(Proceed(c))

=============================================================================
