----------------------------- MODULE ResearchJobs -----------------------------
(***************************************************************************)
(* Deep research (src/src/research/service.ts): jobs that run in the       *)
(* background of a chat, ask the user at most a few questions, and deliver *)
(* a report or say once that they failed.                                  *)
(*                                                                         *)
(* A job is a row of cp_actions; each start and each answer launches an    *)
(* execution of its own, and nothing stops an older one: executions of the *)
(* same job, cancel() and the host's restart interleave at every await.    *)
(* Providers, prompts, quotas and the report itself are left out.          *)
(***************************************************************************)
EXTENDS Integers, FiniteSets, FiniteSetsExt

CONSTANTS
  ResearchJobs,   \* jobs that may be started
  ResearchChats,  \* chats they are started from
  ResearchRuns,   \* model bound: runs 1..ResearchRuns are launched
  MaxConcurrency, \* settings.maxConcurrency
  MaxFollowups,   \* settings.maxFollowups
  Staging         \* whether there is a run-spec dispatcher: a subset of BOOLEAN

ASSUME ResearchAssumption ==
  /\ "none" \notin ResearchJobs
  /\ ResearchRuns \in Nat /\ MaxConcurrency \in Nat

VARIABLES
  chatOf,      \* progress.chatJid of each job
  staged,      \* runtime.runSpecDispatcher is there
  job,         \* the action row: [status, substate, answers, asked]
  pendingJob,  \* chats.pending_followup_action_id
  exec,        \* the executions: [of, at, answers, asked, run, told]
  activeRuns,  \* activeResearchRuns
  delivered,   \* history: runs whose report was sent
  displaced,   \* history: jobs whose question another job of the chat wiped out
  overlapped,  \* history: jobs with two executions at once
  stranded     \* history: jobs that were executing when the host stopped

researchVars == <<chatOf, staged, job, pendingJob, exec, activeRuns, delivered,
                  displaced, overlapped, stranded>>

NoJob == "none"
Idle == {"none", "done", "gone"}
Live(j) == {e \in 1..ResearchRuns : exec[e].of = j /\ exec[e].at \notin Idle}
Unlaunched == {e \in 1..ResearchRuns : exec[e].at = "none"}
InTry == {e \in 1..ResearchRuns : exec[e].at \notin Idle \cup {"staging"}}

ResearchInit ==
  /\ chatOf \in [ResearchJobs -> ResearchChats]
  /\ staged \in Staging
  /\ job = [j \in ResearchJobs |-> [status |-> "none", substate |-> "null", answers |-> 0, asked |-> 0]]
  /\ pendingJob = [c \in ResearchChats |-> NoJob]
  /\ exec = [e \in 1..ResearchRuns |->
               [of |-> NoJob, at |-> "none", answers |-> 0, asked |-> 0, run |-> "none", told |-> 0]]
  /\ activeRuns = 0
  /\ delivered = {}
  /\ displaced = {}
  /\ overlapped = {}
  /\ stranded = {}

-----------------------------------------------------------------------------
(* An operator X_Y is X with a bug Y planted in it. *)

\* setChatPendingFollowupActionId, on behalf of job j.
SetPending_Clears(j, to) ==
  pendingJob' = [pendingJob EXCEPT ![chatOf[j]] = NoJob] /\ UNCHANGED displaced
SetPending_Keeps(j, to) ==
  pendingJob' = (IF to = NoJob THEN pendingJob ELSE [pendingJob EXCEPT ![chatOf[j]] = to]) /\ UNCHANGED displaced
SetPending(j, to) ==
  /\ pendingJob' = [pendingJob EXCEPT ![chatOf[j]] = to]
  /\ displaced' = displaced \cup ({pendingJob[chatOf[j]]} \ {NoJob, j})

\* The finally of executeAction.
Left_Delivered(e) == IF exec[e].at = "delivering" THEN activeRuns - 1 ELSE activeRuns
Left(e) == Max({0, activeRuns - 1})

\* The catch of kickOff, which has the last word on a failed run. A run that has told
\* the user is marked in its error; the message sent here is not awaited.
Reports_Again(e, reported) == 1
Reports(e, reported) == IF reported THEN 0 ELSE 1

Failed_Queued(row) == IF row.status = "queued" THEN [row EXCEPT !.status = "failed"] ELSE row
Failed(row) ==
  IF row.status \in {"queued", "executing"} THEN [row EXCEPT !.status = "failed"] ELSE row

Caught(e, x, row, reported) ==
  /\ exec' = [exec EXCEPT ![e] = [x EXCEPT !.at = "done", !.run = "failed",
                                            !.told = @ + Reports(e, reported)]]
  /\ job' = [job EXCEPT ![x.of] = Failed(row)]

\* What executeAction reads of the job before its first await.
Snapshot_Stale(j, row) == [answers |-> job[j].answers, asked |-> row.asked]
Snapshot(j, row) == [answers |-> row.answers, asked |-> row.asked]

\* executeAction up to its first await, for a job whose row is row.
Execute(e, j, row) ==
  LET x == [exec[e] EXCEPT !.of = j, !.run = "queued",
              !.answers = Snapshot(j, row).answers, !.asked = Snapshot(j, row).asked]
  IN IF activeRuns >= MaxConcurrency
     THEN Caught(e, x, row, FALSE) /\ UNCHANGED activeRuns
     ELSE /\ exec' = [exec EXCEPT ![e] = [x EXCEPT !.at = "planning", !.run = "executing"]]
          /\ job' = [job EXCEPT ![j] = [row EXCEPT !.status = "executing", !.substate = "scoping"]]
          /\ activeRuns' = activeRuns + 1

\* kickOff: with a dispatcher, the job is staged first.
KickOff(j, row) ==
  /\ Unlaunched # {}
  /\ overlapped' = IF Live(j) = {} THEN overlapped ELSE overlapped \cup {j}
  /\ LET e == Min(Unlaunched) IN
       IF staged
       THEN /\ exec' = [exec EXCEPT ![e].of = j, ![e].at = "staging", ![e].run = "queued"]
            /\ job' = [job EXCEPT ![j] = [row EXCEPT !.status = "executing"]]
            /\ UNCHANGED activeRuns
       ELSE Execute(e, j, row)

\* start
Start(j) ==
  /\ job[j].status = "none"
  /\ KickOff(j, [job[j] EXCEPT !.status = "queued", !.substate = "scoping"])
  /\ UNCHANGED <<chatOf, staged, pendingJob, delivered, displaced, stranded>>

\* answerFollowup, by the reply in the chat to its pending job or by the agent's tool for any job.
AnswerFollowup(j) ==
  /\ job[j].status # "none"
  /\ job[j].answers < 2 \* model bound
  /\ KickOff(j, [job[j] EXCEPT !.status = "queued", !.substate = "scoping", !.answers = @ + 1])
  /\ SetPending(j, NoJob)
  /\ UNCHANGED <<chatOf, staged, delivered, stranded>>

\* cancel: of the rows only; a running execution is not told.
Cancel(j) ==
  /\ job[j].status # "none"
  /\ job' = [job EXCEPT ![j].status = "failed", ![j].substate = "null"]
  /\ SetPending(j, NoJob)
  /\ UNCHANGED <<chatOf, staged, exec, activeRuns, delivered, overlapped, stranded>>

StagingSucceeds(e) ==
  /\ exec[e].at = "staging"
  /\ Execute(e, exec[e].of, job[exec[e].of])
  /\ UNCHANGED <<chatOf, staged, pendingJob, delivered, displaced, overlapped,
                 stranded>>

\* The runner answers with a failure, which stage() writes to the row, or throws.
StagingFails(e) ==
  /\ exec[e].at = "staging"
  /\ LET row == job[exec[e].of] IN
       \E r \in {row, [row EXCEPT !.status = "failed"]} : Caught(e, exec[e], r, FALSE)
  /\ UNCHANGED <<chatOf, staged, pendingJob, activeRuns, delivered, displaced,
                 overlapped, stranded>>

-----------------------------------------------------------------------------
(* The steps of executeAction between its awaits. Its writes of progress_json are of the
   snapshot it took, answers included.                                               *)
Write_Early(e, substate) ==
  [job[exec[e].of] EXCEPT !.substate = substate, !.answers = exec[e].answers,
                          !.status = IF substate = "delivering" THEN "succeeded" ELSE @]
Write(e, substate) ==
  [job[exec[e].of] EXCEPT !.substate = substate, !.answers = exec[e].answers]

\* The plan wants a clarification that may still be asked.
PlanAsks(e) ==
  /\ exec[e].at = "planning"
  /\ exec[e].answers = 0
  /\ exec[e].asked < MaxFollowups
  /\ LET j == exec[e].of IN
       /\ job' = [job EXCEPT ![j] = [Write(e, "waiting_for_user") EXCEPT
                                       !.status = "queued", !.asked = exec[e].asked + 1]]
       /\ SetPending(j, j)
  /\ exec' = [exec EXCEPT ![e].at = "asking"]
  /\ UNCHANGED <<chatOf, staged, activeRuns, delivered, overlapped, stranded>>

QuestionSent(e) ==
  /\ exec[e].at = "asking"
  /\ exec' = [exec EXCEPT ![e].at = "done", ![e].run = "succeeded"]
  /\ activeRuns' = Left(e)
  /\ UNCHANGED <<chatOf, staged, job, pendingJob, delivered, displaced, overlapped,
                 stranded>>

\* The search, the writing of the report: each ends by a write of the row.
Advance(e) ==
  /\ exec[e].at \in {"planning", "running"}
  /\ LET next == IF exec[e].at = "planning" THEN "running" ELSE "rendering" IN
       /\ exec' = [exec EXCEPT ![e].at = next]
       /\ job' = [job EXCEPT ![exec[e].of] = Write(e, next)]
  /\ UNCHANGED <<chatOf, staged, pendingJob, activeRuns, delivered, displaced,
                 overlapped, stranded>>

ReportWritten(e) ==
  /\ exec[e].at = "rendering"
  /\ exec' = [exec EXCEPT ![e].at = "delivering"]
  /\ job' = [job EXCEPT ![exec[e].of] = Write(e, "delivering")]
  /\ SetPending(exec[e].of, NoJob)
  /\ UNCHANGED <<chatOf, staged, activeRuns, delivered, overlapped, stranded>>

ReportSent(e) ==
  /\ exec[e].at = "delivering"
  /\ exec' = [exec EXCEPT ![e].at = "done", ![e].run = "succeeded"]
  /\ job' = [job EXCEPT ![exec[e].of] = [Write(e, "null") EXCEPT !.status = "succeeded"]]
  /\ delivered' = delivered \cup {e}
  /\ activeRuns' = Left(e)
  /\ UNCHANGED <<chatOf, staged, pendingJob, displaced, overlapped, stranded>>

\* Any await may throw: the catch of executeAction, up to its message.
Throws(e) ==
  /\ exec[e].at \in {"planning", "asking", "running", "rendering", "delivering"}
  /\ exec' = [exec EXCEPT ![e].at = "reporting", ![e].run = "failed"]
  /\ job' = [job EXCEPT ![exec[e].of].status = "failed"]
  /\ SetPending(exec[e].of, NoJob)
  /\ UNCHANGED <<chatOf, staged, activeRuns, delivered, overlapped, stranded>>

FailureSent(e) ==
  /\ exec[e].at = "reporting"
  /\ Caught(e, [exec[e] EXCEPT !.told = 1], job[exec[e].of], TRUE)
  /\ activeRuns' = Left(e)
  /\ UNCHANGED <<chatOf, staged, pendingJob, delivered, displaced, overlapped,
                 stranded>>

\* The message was not sent: its own error goes to kickOff, unmarked.
FailureNotSent(e) ==
  /\ exec[e].at = "reporting"
  /\ Caught(e, exec[e], job[exec[e].of], FALSE)
  /\ activeRuns' = Left(e)
  /\ UNCHANGED <<chatOf, staged, pendingJob, delivered, displaced, overlapped,
                 stranded>>

\* The host stops and starts again; nothing takes up the executions.
HostRestarts ==
  /\ stranded = {}
  /\ \E e \in 1..ResearchRuns : exec[e].at \notin Idle
  /\ exec' = [e \in 1..ResearchRuns |->
                IF exec[e].at \in Idle THEN exec[e] ELSE [exec[e] EXCEPT !.at = "gone"]]
  /\ stranded' = {exec[e].of : e \in {x \in 1..ResearchRuns : exec[x].at \notin Idle}}
  /\ activeRuns' = 0
  /\ UNCHANGED <<chatOf, staged, job, pendingJob, delivered, displaced, overlapped>>

ResearchNext ==
  \/ \E j \in ResearchJobs : Start(j) \/ AnswerFollowup(j) \/ Cancel(j)
  \/ \E e \in 1..ResearchRuns :
       \/ StagingSucceeds(e) \/ StagingFails(e) \/ PlanAsks(e) \/ QuestionSent(e) \/ Advance(e)
       \/ ReportWritten(e) \/ ReportSent(e) \/ Throws(e) \/ FailureSent(e) \/ FailureNotSent(e)
  \/ HostRestarts

-----------------------------------------------------------------------------
\* The count behind the concurrency limit is that of the executions inside
\* executeAction's try: neither a refused job nor one that waits for its user
\* nor a failure while failing takes a slot for good, or frees one it never had.
SlotsCounted == activeRuns = Cardinality(InTry) /\ activeRuns <= MaxConcurrency

\* The user hears of a failed run once: from executeAction or from kickOff, not
\* from both, and never of a run that succeeded.
ToldOnce ==
  \A e \in 1..ResearchRuns :
    /\ exec[e].told <= 1
    /\ (exec[e].at = "done" /\ exec[e].run = "failed") => exec[e].told = 1
    /\ exec[e].run = "succeeded" => exec[e].told = 0

\* A job that executes has an execution; whatever ends the last one (refusal,
\* failed staging, failure, question, report) also ends the status, except for the host's own end.
ExecutingIsRun ==
  \A j \in ResearchJobs :
    job[j].status = "executing" => Live(j) # {} \/ j \in stranded

\* A job that waits for its user can be answered: it is the pending job of its
\* chat, unless another job of the chat asked, ended or was cancelled since.
QuestionReachable ==
  \A j \in ResearchJobs :
    job[j].status = "queued" /\ job[j].substate = "waiting_for_user"
      => pendingJob[chatOf[j]] = j \/ j \in displaced

\* A reply in the chat goes to a job that asked: the pending job waits for its
\* user, unless two executions of it ran at once.
PendingWaits ==
  \A c \in ResearchChats : LET j == pendingJob[c] IN
    j # NoJob => /\ chatOf[j] = c
                 /\ j \in overlapped \/ (job[j].status = "queued" /\ job[j].substate = "waiting_for_user")

\* What the user answered is not lost: the executor writes back the answers it
\* was launched with, unless an older execution of the job is still running.
AnswersKept ==
  \A j \in ResearchJobs : job'[j].answers < job[j].answers => j \in overlapped

\* A job that succeeded has delivered a report.
SucceededDelivered ==
  \A j \in ResearchJobs : job[j].status = "succeeded" => \E e \in delivered : exec[e].of = j

\* Jobs, slots, questions and reports agree in every state a step leads to, and no
\* step loses an answer.
JobsCorrect ==
  [][ /\ SlotsCounted' /\ ToldOnce' /\ ExecutingIsRun'
      /\ QuestionReachable' /\ PendingWaits' /\ SucceededDelivered'
      /\ AnswersKept ]_researchVars

=============================================================================
