--------------------------- MODULE InstructorTask ---------------------------
(***************************************************************************)
(* The life of instructor background tasks of one kind: all of the same    *)
(* course, task_type and task_key, so that _reserve_task lets one run at a *)
(* time.                                                                   *)
(*                                                                         *)
(*   - requesters submit tasks (submit_task: reserve, commit, apply_async);*)
(*   - workers run them (run_main_task and the callbacks of                *)
(*     BaseInstructorTask); a task either does its work itself or, when    *)
(*     UsesSubtasks, leaves it to subtasks whose last one ends it -- here  *)
(*     the step SubtasksEnd, the whole of which is BulkEmail.tla;          *)
(*   - watchers poll the status (get_updated_instructor_task), which looks *)
(*     at the row and at the result that celery keeps of the task.         *)
(*                                                                         *)
(* celery stores a task's result before it calls on_success or on_failure, *)
(* so the row lags behind the result.  Events may happen: publishing a     *)
(* message raises ("broker"), or an operator revokes a task ("revoke").    *)
(***************************************************************************)
EXTENDS Integers, Sequences, FiniteSets

CONSTANTS
  Requester, Worker, Watcher,
  UsesSubtasks,   \* does this kind of task define subtasks?
  Racing,         \* may two requests be between the check and the create?
  MaxTasks,       \* bound on the rows created
  Events,         \* of "broker", "revoke"
  MaxEvents       \* bound on how many events happen

ASSUME ConstantsAssumption ==
  /\ {UsesSubtasks, Racing} \subseteq BOOLEAN
  /\ {MaxTasks, MaxEvents} \subseteq Nat

VARIABLES
  entries,    \* the InstructorTask rows, in the order they were created
  subtasks,   \* what the subtasks of each task are doing
  results,    \* celery's result of each task (AsyncResult)
  broker,     \* tasks waiting for a worker
  revoked,    \* tasks an operator has revoked
  requester, worker, watcher,
  events

vars == <<entries, subtasks, results, broker, revoked, requester, worker, watcher, events>>

READY_STATES == {"SUCCESS", "FAILURE", "REVOKED"}

TaskId == DOMAIN entries

\* InstructorTask.create; of the column subtasks only whether it has any.
NewEntry == [task_state |-> "QUEUING", output |-> "none", subtasks |-> FALSE]

TaskState == {"QUEUING", "PENDING", "PROGRESS", "SUCCESS", "FAILURE", "REVOKED"}

Entry ==
  [task_state : TaskState,
   output : {"none", "result", "exception", "revoked"},
   subtasks : BOOLEAN]

\* No subtasks yet; all of them queued; only some, because queueing them
\* failed; all that were queued have ended.
SubtaskPhase == {"none", "all", "some", "over"}

IdleRequester == [pc |-> "idle", id |-> 0, answer |-> "none"]
IdleWorker == [pc |-> "idle", id |-> 0, row |-> NewEntry]
IdleWatcher == [pc |-> "idle", id |-> 0, row |-> NewEntry, shown |-> "none"]

Init ==
  /\ entries = <<>>
  /\ subtasks = <<>>
  /\ results = <<>>
  /\ broker = {}
  /\ revoked = {}
  /\ requester = [u \in Requester |-> IdleRequester]
  /\ worker = [w \in Worker |-> IdleWorker]
  /\ watcher = [v \in Watcher |-> IdleWatcher]
  /\ events = 0

Event(e) ==
  /\ e \in Events
  /\ events < MaxEvents
  /\ events' = events + 1

-----------------------------------------------------------------------------
(***************************************************************************)
(* submit_task.                                                            *)
(***************************************************************************)
\* Mutated: a task that has started no longer counts.
OnlyQueuedRuns == \E id \in TaskId : entries[id].task_state = "QUEUING"
\* _task_is_running: some row of this kind is in no ready state.
TaskIsRunning == \E id \in TaskId : entries[id].task_state \notin READY_STATES

\* The check of _reserve_task.  Two requests race when both have checked and
\* neither has created its row.
CheckRunning(u) ==
  /\ requester[u].pc = "idle"
  /\ Racing \/ \A other \in Requester : requester[other].pc # "create"
  /\ requester' =
       IF TaskIsRunning
       THEN [requester EXCEPT ![u].answer = "already running"]
       ELSE [requester EXCEPT ![u].pc = "create", ![u].answer = "none"]
  /\ UNCHANGED <<entries, subtasks, results, broker, revoked, worker, watcher, events>>

CreateEntry(u) ==
  /\ requester[u].pc = "create"
  /\ Len(entries) < MaxTasks
  /\ entries' = Append(entries, NewEntry)
  /\ subtasks' = Append(subtasks, "none")
  /\ results' = Append(results, "PENDING")
  /\ requester' = [requester EXCEPT ![u].pc = "submit", ![u].id = Len(entries) + 1]
  /\ UNCHANGED <<broker, revoked, worker, watcher, events>>

\* apply_async, after the row was committed; it may raise.
SubmitTask(u) ==
  /\ requester[u].pc = "submit"
  /\ \/ /\ broker' = broker \cup {requester[u].id}
        /\ requester' = [requester EXCEPT ![u].pc = "idle", ![u].answer = "submitted"]
        /\ UNCHANGED events
     \/ /\ Event("broker")
        /\ requester' = [requester EXCEPT ![u].pc = "idle", ![u].answer = "error"]
        /\ UNCHANGED broker
  /\ UNCHANGED <<entries, subtasks, results, revoked, worker, watcher>>

-----------------------------------------------------------------------------
(***************************************************************************)
(* The worker.                                                             *)
(***************************************************************************)
runVars == <<broker, revoked, requester, watcher>>  \* not changed by a run

Working(w) == entries[worker[w].id]
WorkerGoto(w, pc) == worker' = [worker EXCEPT ![w].pc = pc]

\* celery delivers a task, or drops one that was revoked.
Receive(w) ==
  /\ worker[w].pc = "idle"
  /\ \E id \in broker :
       /\ broker' = broker \ {id}
       /\ IF id \in revoked
          THEN results' = [results EXCEPT ![id] = "REVOKED"] /\ UNCHANGED worker
          ELSE worker' = [worker EXCEPT ![w].pc = "read", ![w].id = id] /\ UNCHANGED results
  /\ UNCHANGED <<entries, subtasks, revoked, requester, watcher, events>>

\* run_main_task reads the row and writes all of it back, marked PROGRESS.
ReadEntry(w) ==
  /\ worker[w].pc = "read"
  /\ worker' = [worker EXCEPT ![w].pc = "start", ![w].row = Working(w)]
  /\ UNCHANGED <<entries, subtasks, results, runVars, events>>

MarkProgress(w) ==
  /\ worker[w].pc = "start"
  /\ entries' = [entries EXCEPT ![worker[w].id] =
                   [worker[w].row EXCEPT !.task_state = "PROGRESS"]]
  /\ WorkerGoto(w, "work")
  /\ UNCHANGED <<subtasks, results, runVars, events>>

\* TaskProgress.update_task_state tells celery, not the row.
ReportProgress(w) ==
  /\ ~UsesSubtasks
  /\ worker[w].pc = "work"
  /\ results' = [results EXCEPT ![worker[w].id] = "PROGRESS"]
  /\ UNCHANGED <<entries, subtasks, worker, runVars, events>>

\* queue_subtasks_for_query: the row is written, then the subtasks are queued,
\* all of them unless the broker fails; that exception ends the task.
DefineSubtasks(w) ==
  LET id == worker[w].id
  IN /\ UsesSubtasks
     /\ worker[w].pc = "work"
     /\ subtasks[id] = "none"
     /\ entries' = [entries EXCEPT ![id] =
                      [task_state |-> "PROGRESS", output |-> "result", subtasks |-> TRUE]]
     /\ \/ /\ subtasks' = [subtasks EXCEPT ![id] = "all"]
           /\ UNCHANGED <<results, worker, events>>
        \/ /\ Event("broker")
           /\ subtasks' = [subtasks EXCEPT ![id] = "some"]
           /\ results' = [results EXCEPT ![id] = "FAILURE"]
           /\ WorkerGoto(w, "on_failure")
     /\ UNCHANGED runVars

\* The task function returns; celery stores the result first.
ReturnResult(w) ==
  /\ worker[w].pc = "work"
  /\ UsesSubtasks => subtasks[worker[w].id] # "none"
  /\ results' = [results EXCEPT ![worker[w].id] = "SUCCESS"]
  /\ WorkerGoto(w, "on_success")
  /\ UNCHANGED <<entries, subtasks, runVars, events>>

\* The task function raises, a task with subtasks before it has defined any.
RaiseError(w) ==
  /\ worker[w].pc = "work"
  /\ subtasks[worker[w].id] = "none"
  /\ results' = [results EXCEPT ![worker[w].id] = "FAILURE"]
  /\ WorkerGoto(w, "on_failure")
  /\ UNCHANGED <<entries, subtasks, runVars, events>>

\* Mutated: on_success closes no task.
NeverDone(row) == FALSE

\* on_success writes the row only if it finds no subtasks in it.
DoneByItself(row) == ~row.subtasks

OnSuccess(w) ==
  /\ worker[w].pc = "on_success"
  /\ worker' = IF DoneByItself(Working(w))
               THEN [worker EXCEPT ![w].pc = "succeed", ![w].row = Working(w)]
               ELSE [worker EXCEPT ![w] = IdleWorker]
  /\ UNCHANGED <<entries, subtasks, results, runVars, events>>

OnFailure(w) ==
  /\ worker[w].pc = "on_failure"
  /\ worker' = [worker EXCEPT ![w].pc = "fail", ![w].row = Working(w)]
  /\ UNCHANGED <<entries, subtasks, results, runVars, events>>

\* Both callbacks save the whole row they have read.
SaveOutcome(w) ==
  /\ \/ /\ worker[w].pc = "succeed"
        /\ entries' = [entries EXCEPT ![worker[w].id] =
                         [worker[w].row EXCEPT !.task_state = "SUCCESS", !.output = "result"]]
     \/ /\ worker[w].pc = "fail"
        /\ entries' = [entries EXCEPT ![worker[w].id] =
                         [worker[w].row EXCEPT !.task_state = "FAILURE", !.output = "exception"]]
  /\ worker' = [worker EXCEPT ![w] = IdleWorker]
  /\ UNCHANGED <<subtasks, results, runVars, events>>

\* The subtasks that were queued have ended.  The last of them closes the row,
\* if the row waits for no subtask that was never queued.
SubtasksEnd(id) ==
  /\ subtasks[id] \in {"all", "some"}
  /\ subtasks' = [subtasks EXCEPT ![id] = "over"]
  /\ entries' = IF subtasks[id] = "all"
                THEN [entries EXCEPT ![id].task_state = "SUCCESS"] ELSE entries
  /\ UNCHANGED <<results, worker, runVars, events>>

-----------------------------------------------------------------------------
(***************************************************************************)
(* get_updated_instructor_task.                                            *)
(***************************************************************************)
watchVars == <<subtasks, results, broker, revoked, requester, worker>>

\* The row is read; a ready one is shown as it is.
ReadStatus(v) ==
  /\ watcher[v].pc = "idle"
  /\ \E id \in TaskId :
       LET row == entries[id]
       IN watcher' = IF row.task_state \in READY_STATES
                     THEN [watcher EXCEPT ![v] = [pc |-> "idle", id |-> id, row |-> row,
                                                  shown |-> row.task_state]]
                     ELSE [watcher EXCEPT ![v] = [pc |-> "result", id |-> id, row |-> row,
                                                  shown |-> "none"]]
  /\ UNCHANGED <<entries, watchVars, events>>

OutputOf(result) ==
  CASE result = "REVOKED" -> "revoked" [] result = "FAILURE" -> "exception"
    [] result = "PENDING" -> "none" [] OTHER -> "result"

NeverTrusts(row) == FALSE  \* mutated
\* _update_instructor_task trusts the row, not celery, when subtasks run.
TrustsRow(row) == row.task_state = "PROGRESS" /\ row.subtasks

\* Mutated: the row is saved whatever the result is, or never.
SavesAlways(result) == TRUE
SavesNever(result) == FALSE

\* entry_needs_saving
NeedsSaving(result) == result = "REVOKED"

\* Then celery is asked for the result, which is shown, and saved if needed.
ReadResult(v) ==
  LET row == watcher[v].row
      shown == IF TrustsRow(row) THEN row.task_state ELSE results[watcher[v].id]
  IN /\ watcher[v].pc = "result"
     /\ watcher' = [watcher EXCEPT ![v].shown = shown,
                      ![v].pc = IF ~TrustsRow(row) /\ NeedsSaving(shown) THEN "save" ELSE "idle"]
     /\ UNCHANGED <<entries, watchVars, events>>

SaveResult(v) ==
  /\ watcher[v].pc = "save"
  /\ entries' = [entries EXCEPT ![watcher[v].id] =
                   [watcher[v].row EXCEPT !.task_state = watcher[v].shown,
                                          !.output = OutputOf(watcher[v].shown)]]
  /\ watcher' = [watcher EXCEPT ![v].pc = "idle"]
  /\ UNCHANGED <<watchVars, events>>

\* An operator revokes a task through celery.
Revoke(id) ==
  /\ id \notin revoked
  /\ Event("revoke")
  /\ revoked' = revoked \cup {id}
  /\ UNCHANGED <<entries, subtasks, results, broker, requester, worker, watcher>>

-----------------------------------------------------------------------------
RequesterNext(u) == CheckRunning(u) \/ CreateEntry(u) \/ SubmitTask(u)

WorkerNext(w) ==
  \/ Receive(w) \/ ReadEntry(w) \/ MarkProgress(w) \/ ReportProgress(w)
  \/ DefineSubtasks(w) \/ ReturnResult(w) \/ RaiseError(w)
  \/ OnSuccess(w) \/ OnFailure(w) \/ SaveOutcome(w)

WatcherNext(v) == ReadStatus(v) \/ ReadResult(v) \/ SaveResult(v)

Next ==
  \/ \E u \in Requester : RequesterNext(u)
  \/ \E w \in Worker : WorkerNext(w)
  \/ \E id \in TaskId : SubtasksEnd(id) \/ Revoke(id)
  \/ \E v \in Watcher : WatcherNext(v)

Spec == Init /\ [][Next]_vars

\* A request that has started goes on, celery runs what it is given, a task
\* function and its subtasks end, and watchers (the dashboard polls) look at
\* each task again and again.  Nothing obliges a requester to ask.
Fairness ==
  /\ \A u \in Requester : WF_vars(CreateEntry(u) \/ SubmitTask(u))
  /\ \A w \in Worker :
       /\ WF_vars(WorkerNext(w))
       /\ WF_vars(ReturnResult(w) \/ RaiseError(w) \/ DefineSubtasks(w))
  /\ \A id \in 1 .. MaxTasks : WF_vars(id \in TaskId /\ SubtasksEnd(id))
  /\ \A v \in Watcher :
       /\ WF_vars(ReadResult(v) \/ SaveResult(v))
       /\ \A id \in 1 .. MaxTasks : SF_vars(ReadStatus(v) /\ watcher'[v].id = id)

FairSpec == Spec /\ Fairness
=============================================================================
