---------------------------- MODULE TaskScheduler ----------------------------
(***************************************************************************)
(* Scheduled tasks of one chat (src/src/task-scheduler.ts, the task table  *)
(* of src/src/db.ts and the task requests of src/src/ipc.ts): the polling  *)
(* loop, the run of a task, and what users and agents do to the table in   *)
(* the meantime.                                                           *)
(*                                                                         *)
(* The group queue is what module GroupQueue refines, TaskFifo: tasks in   *)
(* the order they were accepted, none twice, one at a time.  Time is       *)
(* counted in polls (a minute); a cron expression is "every k minutes".    *)
(***************************************************************************)
EXTENDS Integers, Sequences, FiniteSets

CONSTANTS
  Tasks,    \* the tasks that may be created
  Legacy,   \* those with a malformed group folder
  Values,   \* schedule values: a period for intervals and cron, a time for once
  Types,    \* schedule types in use: subset of TypeNames
  Horizon,  \* model bound: the clock stops here
  Ops       \* what happens besides scheduling: subset of OpNames

TypeNames == {"once", "interval", "cron"}
OpNames == {"pause", "cancel", "edit", "malform", "now", "throw", "unregister", "crash"}

ASSUME TaskSchedulerAssumption ==
  /\ IsFiniteSet(Tasks)
  /\ Legacy \subseteq Tasks
  /\ Values \subseteq Nat \ {0}
  /\ Types \subseteq TypeNames
  /\ Horizon \in Nat
  /\ Ops \subseteq OpNames

VARIABLES
  now,         \* the clock
  row,         \* the table scheduled_tasks
  queue,       \* the chat's queue: snapshots, oldest first
  running,     \* its head is running
  groupRegistered,  \* the group of the tasks is registered
  anchor,      \* history: next_run as set with the schedule; Never if the queue
               \* knew the task then, and its old schedule may come back
  fired        \* history: the due next_run values whose run was started and not lost

history == <<anchor, fired>>
schedulerVars == <<now, row, queue, running, groupRegistered, anchor, fired>>

Never == -1  \* next_run IS NULL
Times == Nat \cup {Never}

Rows == [status : {"unborn", "active", "paused", "completed", "deleted"},
         type : TypeNames, value : Values \cup {0}, next : Times]
Snapshots == [id : Tasks, by : {"poll", "now"}, row : Rows]

Exists(t) == row[t].status \in {"active", "paused", "completed"}

SchedulerInit ==
  /\ now = 0
  /\ row = [t \in Tasks |->
              [status |-> "unborn", type |-> "once", value |-> 0, next |-> Never]]
  /\ queue = <<>>
  /\ running = FALSE
  /\ groupRegistered = TRUE
  /\ anchor = [t \in Tasks |-> Never]
  /\ fired = [t \in Tasks |-> {}]

-----------------------------------------------------------------------------
(* An operator X_Y is X with a bug Y planted in it. *)

\* The first of start + step, start + 2 * step, ... that is not over.
NextOnGrid(start, step) ==
  IF start + step > now THEN start + step
  ELSE start + step * ((now - start) \div step + 1)

\* computeNextRun, with the schedule and the next_run of the snapshot.
NextRun_FromNow(r) ==
  CASE r.type = "once" -> Never
    [] r.type = "cron" -> NextOnGrid(0, r.value)
    [] r.type = "interval" -> now + (IF r.value = 0 THEN 1 ELSE r.value)
NextRun(r) ==
  CASE r.type = "once" -> Never
    [] r.type = "cron" -> NextOnGrid(0, r.value)
    [] r.type = "interval" /\ r.value = 0 -> now + 1
    [] r.type = "interval" /\ r.value # 0 ->
         NextOnGrid(IF r.next = Never THEN 0 ELSE r.next, r.value)

\* The first next_run of a schedule; once means at that time.
FirstRun(type, value) ==
  CASE type = "once" -> value
    [] type = "cron" -> NextOnGrid(0, value)
    [] type = "interval" -> now + value

Due(t) == row[t].status = "active" /\ row[t].next # Never /\ row[t].next <= now

\* enqueueTask refuses a task that is running or queued.
InQueue_QueuedOnly(t) ==
  \E i \in (IF running THEN 2 ELSE 1)..Len(queue) : queue[i].id = t
InQueue(t) == \E i \in 1..Len(queue) : queue[i].id = t

Snapshot(t, by) == [id |-> t, by |-> by, row |-> row[t]]

\* The next_run that a run that starts now takes.
Slot(task) == {task.row.next} \cap 0..now

\* A run that is lost leaves its next_run to another one.
Unfire == fired' = IF running
                   THEN [fired EXCEPT ![Head(queue).id] = @ \ {Head(queue).row.next}]
                   ELSE fired

-----------------------------------------------------------------------------
(* The scheduler *)

Tick ==
  /\ now < Horizon
  /\ now' = now + 1
  /\ UNCHANGED <<row, queue, running, groupRegistered, history>>

\* One round of the loop: due tasks by next_run, those the queue knows are
\* refused.
Poll ==
  /\ \E due \in [1..Cardinality({t \in Tasks : Due(t) /\ ~InQueue(t)}) ->
                   {t \in Tasks : Due(t) /\ ~InQueue(t)}] :
       /\ due # <<>>
       /\ \A i, j \in DOMAIN due : i # j => due[i] # due[j]
       /\ \A i, j \in DOMAIN due : i < j => row[due[i]].next <= row[due[j]].next
       /\ queue' = queue \o [i \in DOMAIN due |-> Snapshot(due[i], "poll")]
  /\ UNCHANGED <<now, row, running, groupRegistered, history>>

RunTaskNow(t) ==
  /\ "now" \in Ops
  /\ row[t].next <= Horizon  \* model bound: a run by hand moves next_run ahead
  /\ Exists(t)
  /\ ~InQueue(t)
  /\ queue' = Append(queue, Snapshot(t, "now"))
  /\ UNCHANGED <<now, row, running, groupRegistered, history>>

\* runTask begins; the snapshot, not the table, decides what it does.
TaskStarts ==
  /\ queue # <<>> /\ ~running
  /\ LET task == Head(queue) IN
       /\ task.id \notin Legacy
       /\ groupRegistered
       /\ fired' = [fired EXCEPT ![task.id] = @ \cup Slot(task)]
  /\ running' = TRUE
  /\ UNCHANGED <<now, row, queue, groupRegistered, anchor>>

\* A malformed folder pauses the task, so that it is not due for ever.
StartInvalid_Returns ==
  /\ queue # <<>> /\ ~running
  /\ Head(queue).id \in Legacy
  /\ queue' = Tail(queue)
  /\ UNCHANGED <<now, row, running, groupRegistered, history>>
StartInvalid ==
  /\ queue # <<>> /\ ~running
  /\ LET t == Head(queue).id IN
       /\ t \in Legacy
       /\ row' = IF Exists(t) THEN [row EXCEPT ![t].status = "paused"] ELSE row
  /\ queue' = Tail(queue)
  /\ UNCHANGED <<now, running, groupRegistered, history>>

\* The group is gone: an error is logged and the task stays due.
StartUnregistered ==
  /\ queue # <<>> /\ ~running
  /\ Head(queue).id \notin Legacy
  /\ ~groupRegistered
  /\ queue' = Tail(queue)
  /\ UNCHANGED <<now, row, running, groupRegistered, history>>

\* updateTaskAfterRun, for a run that succeeded or failed.
AfterRun_Activates(r, next) ==
  [r EXCEPT !.next = next, !.status = IF next = Never THEN "completed" ELSE "active"]
AfterRun(r, next) ==
  [r EXCEPT !.next = next, !.status = IF next = Never THEN "completed" ELSE @]

TaskFinishes ==
  /\ running
  /\ LET task == Head(queue) IN
       row' = IF Exists(task.id)
              THEN [row EXCEPT ![task.id] = AfterRun(@, NextRun(task.row))]
              ELSE row
  /\ running' = FALSE
  /\ queue' = Tail(queue)
  /\ UNCHANGED <<now, groupRegistered, history>>

\* The run log cannot be written: the table is not updated.
FinishThrows_StaysRunning ==
  /\ "throw" \in Ops
  /\ running
  /\ queue' = Tail(queue)
  /\ Unfire
  /\ UNCHANGED <<now, row, running, groupRegistered, anchor>>
FinishThrows ==
  /\ "throw" \in Ops
  /\ running
  /\ running' = FALSE
  /\ queue' = Tail(queue)
  /\ Unfire
  /\ UNCHANGED <<now, row, groupRegistered, anchor>>

-----------------------------------------------------------------------------
(* Requests of users and agents *)

Schedule(t, type, value) ==
  /\ row[t].status = "unborn"
  /\ row' = [row EXCEPT ![t] = [status |-> "active", type |-> type, value |-> value,
                                next |-> FirstRun(type, value)]]
  /\ anchor' = [anchor EXCEPT ![t] = FirstRun(type, value)]
  /\ UNCHANGED <<now, queue, running, groupRegistered, fired>>

SetStatus(t, status) ==
  /\ Exists(t)
  /\ row' = [row EXCEPT ![t].status = status]
  /\ UNCHANGED <<now, queue, running, groupRegistered, history>>

Pause(t) == "pause" \in Ops /\ SetStatus(t, "paused")
Resume(t) == "pause" \in Ops /\ SetStatus(t, "active")
Cancel(t) == "cancel" \in Ops /\ SetStatus(t, "deleted")

\* update_task: next_run follows cron and interval schedules only; value 0 is an
\* interval that is not a number.
UpdateTask(t, type, value) ==
  /\ "edit" \in Ops
  /\ Exists(t)
  /\ value = 0 => type = "interval" /\ "malform" \in Ops
  /\ LET next == IF type = "once" \/ value = 0 THEN row[t].next
                 ELSE FirstRun(type, value)
     IN /\ row' = [row EXCEPT ![t].type = type, ![t].value = value, ![t].next = next]
        /\ anchor' = [anchor EXCEPT ![t] = IF InQueue(t) THEN Never ELSE next]
  /\ fired' = [fired EXCEPT ![t] = {}]
  /\ UNCHANGED <<now, queue, running, groupRegistered>>

Unregister ==
  /\ "unregister" \in Ops
  /\ groupRegistered
  /\ groupRegistered' = FALSE
  /\ UNCHANGED <<now, row, queue, running, history>>

\* The process and its containers die; only the table survives.
CrashAndRestart ==
  /\ "crash" \in Ops
  /\ queue' = <<>>
  /\ running' = FALSE
  /\ Unfire
  /\ UNCHANGED <<now, row, groupRegistered, anchor>>

-----------------------------------------------------------------------------
RunNext == TaskStarts \/ StartInvalid \/ StartUnregistered \/ TaskFinishes

Scheduled ==
  \E t \in Tasks, type \in Types, value \in Values : Schedule(t, type, value)

Interventions ==
  \/ \E t \in Tasks :
       \/ RunTaskNow(t) \/ Pause(t) \/ Resume(t) \/ Cancel(t)
       \/ \E type \in Types, value \in Values \cup {0} : UpdateTask(t, type, value)
  \/ FinishThrows \/ Unregister \/ CrashAndRestart

SchedulerNext == Tick \/ Poll \/ RunNext \/ Scheduled \/ Interventions

SchedulerSpec == SchedulerInit /\ [][SchedulerNext]_schedulerVars

\* The loop polls for ever, the queue starts what it has, a run ends.
SchedulerFairness == WF_schedulerVars(Poll) /\ WF_schedulerVars(RunNext)

-----------------------------------------------------------------------------
(* Properties *)

SchedulerTypes ==
  /\ now \in Nat
  /\ row \in [Tasks -> Rows]
  /\ queue \in Seq(Snapshots)
  /\ running \in BOOLEAN
  /\ groupRegistered \in BOOLEAN
  /\ anchor \in [Tasks -> Times]
  /\ fired \in [Tasks -> SUBSET Times]
  /\ running => queue # <<>>

\* "anchored to the task's scheduled time rather than Date.now() to prevent
\* cumulative drift": an interval task stays on the grid of its first run, however
\* late it is run, missed, run by hand or interrupted by a crash.  (An edit made
\* while the task is queued or running may be overwritten; it is left out.)
OnGrid ==
  \A t \in Tasks :
    /\ row[t].type = "interval" /\ row[t].value # 0
    /\ row[t].next # Never /\ anchor[t] # Never
    => (row[t].next - anchor[t]) % row[t].value = 0

\* Rows and snapshots are well formed, and interval tasks keep to their grid.
TasksOnGrid == SchedulerTypes /\ OnGrid

\* A next_run is taken once: the loop offers a due task again on every poll, a run
\* is long, users run tasks by hand, runs fail and crash; a due next_run is run
\* again only if its run was lost.
NoSlotTwice ==
  ~running /\ running' => Slot(Head(queue)) \cap fired[Head(queue).id] = {}

\* A run that ends does not undo a pause or a cancellation made meanwhile.
StopsStick ==
  \A t \in Tasks :
    /\ row[t].status = "paused" /\ row'[t].status = "active" => Resume(t)
    /\ row[t].status = "deleted" => row'[t].status = "deleted"

\* A run neither repeats what was run nor undoes what was decided meanwhile.
RunsRespectRows == [][NoSlotTwice /\ StopsStick]_schedulerVars

\* A due task is run, or taken out of the schedule, unless its group is gone: also
\* a malformed one, one edited meanwhile or one whose run was lost.
DueRuns == \A t \in Tasks : Due(t) ~> (~Due(t) \/ ~groupRegistered)

\* "Re-check task status in case it was paused/cancelled": what the loop enqueued
\* runs only while the task is active.
StartsActiveOnly ==
  [][~running /\ running' /\ Head(queue).by = "poll" =>
       row[Head(queue).id].status = "active"]_schedulerVars

=============================================================================
