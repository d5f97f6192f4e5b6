--------------------- MODULE InstructorTaskProperties ---------------------
(***************************************************************************)
(* What must be true of InstructorTask, and the inductive invariant from   *)
(* which InstructorTaskProofs derives it.                                  *)
(***************************************************************************)
EXTENDS InstructorTask

RequesterState ==
  [pc : {"idle", "create", "submit"}, id : Nat,
   answer : {"none", "submitted", "already running", "error"}]
WorkerState ==
  [pc : {"idle", "read", "start", "work", "on_success", "on_failure", "succeed", "fail"},
   id : Nat, row : Entry]
WatcherState ==
  [pc : {"idle", "result", "save"}, id : Nat, row : Entry, shown : TaskState \cup {"none"}]

\* Every variable has its type, and there is one result and one account of the
\* subtasks for each row.
TypeOK ==
  /\ entries \in Seq(Entry)
  /\ subtasks \in Seq(SubtaskPhase) /\ Len(subtasks) = Len(entries)
  /\ results \in Seq(TaskState) /\ Len(results) = Len(entries)
  /\ broker \subseteq TaskId
  /\ revoked \subseteq TaskId
  /\ requester \in [Requester -> RequesterState]
  /\ worker \in [Worker -> WorkerState]
  /\ watcher \in [Watcher -> WatcherState]
  /\ events \in 0 .. MaxEvents

\* The work of task id is going on: in its subtasks, or in a worker if it has
\* not handed the work to subtasks.
IsRunning(id) ==
  \/ subtasks[id] \in {"all", "some"}
  \/ /\ subtasks[id] = "none"
     /\ \E w \in Worker : worker[w].pc = "work" /\ worker[w].id = id

\* Something will still be done about task id.
IsAlive(id) ==
  \/ id \in broker
  \/ subtasks[id] = "all"
  \/ \E w \in Worker : worker[w].pc # "idle" /\ worker[w].id = id
  \/ \E u \in Requester : requester[u].pc = "submit" /\ requester[u].id = id

\* Two tasks of one kind never work at the same time (the purpose of
\* _reserve_task), if no two requests race.
OneAtATime == \A id, other \in TaskId : IsRunning(id) /\ IsRunning(other) => id = other

\* A row that is ready stays as it is: no callback, subtask or poll with an old
\* copy of the row rewrites it.
ReadyIsFinal ==
  [][\A id \in TaskId : entries[id].task_state \in READY_STATES => entries'[id] = entries[id]]_vars

\* A request is refused only because a task really is on its way or running, or
\* was revoked and no watcher has looked at it since ("AlreadyRunningError is
\* raised if the task is already running").
RefusedOnlyWhenAlive ==
  [][\A u \in Requester :
       CheckRunning(u) /\ requester'[u].answer = "already running" =>
         \E id \in TaskId : IsAlive(id) \/ results[id] = "REVOKED"]_vars

\* A poll that begins after the subtasks were defined is not deceived by the
\* result of their parent: it shows no SUCCESS while they run.
SubtasksNotHidden ==
  [][\A v \in Watcher :
       ReadResult(v) /\ watcher[v].row.subtasks /\ watcher'[v].shown = "SUCCESS" =>
         ~IsRunning(watcher[v].id)]_vars

\* A task whose row exists comes to an end, revoked tasks by way of a watcher
\* who saves what celery says; so its kind is not blocked for ever.
EveryTaskEnds ==
  \A id \in 1 .. MaxTasks :
    id \in TaskId ~> id \in TaskId /\ entries[id].task_state \in READY_STATES

-----------------------------------------------------------------------------
(***************************************************************************)
(* The inductive invariant.                                                *)
(***************************************************************************)
IsOpen(id) == entries[id].task_state \notin READY_STATES
Busy(w) == worker[w].pc # "idle"
Submitting(u) == requester[u].pc = "submit"

\* Before a worker takes it a task is untouched.
IsUntouched(id) ==
  id \in TaskId /\ IsOpen(id) /\ subtasks[id] = "none" /\ results[id] # "REVOKED"

\* A task is held by one requester, or the broker, or one worker.
OneHolder ==
  /\ \A u \in Requester : Submitting(u) =>
       /\ IsUntouched(requester[u].id)
       /\ requester[u].id \notin broker
       /\ \A w \in Worker : Busy(w) => worker[w].id # requester[u].id
       /\ \A other \in Requester :
            Submitting(other) /\ requester[other].id = requester[u].id => other = u
  /\ \A id \in broker :
       /\ IsUntouched(id)
       /\ \A w \in Worker : Busy(w) => worker[w].id # id
  /\ \A w, v \in Worker : Busy(w) /\ Busy(v) /\ worker[w].id = worker[v].id => w = v

\* What a worker may rely on about its task, and about its copy of the row.
Knows(w) ==
  LET id == worker[w].id
      pc == worker[w].pc
  IN /\ id \in TaskId
     /\ results[id] # "REVOKED"
     /\ pc \in {"read", "start", "on_failure", "succeed", "fail"} => IsOpen(id)
     /\ subtasks[id] = "none" => IsOpen(id)
     /\ pc \in {"read", "start", "succeed"} => subtasks[id] = "none"
     /\ pc \in {"on_failure", "fail"} => subtasks[id] # "all"
     /\ pc \in {"work", "on_success"} => subtasks[id] # "some"
     /\ pc \in {"start", "succeed", "fail"} => worker[w].row.subtasks = entries[id].subtasks

WorkerKnows == \A w \in Worker : Busy(w) => Knows(w)

\* The column subtasks tells whether there are any; a row whose subtasks are all
\* at work is open; a revoked task has none.
Matches(id) ==
  /\ entries[id].subtasks <=> subtasks[id] # "none"
  /\ subtasks[id] = "all" => IsOpen(id)
  /\ results[id] = "REVOKED" => subtasks[id] = "none"
  /\ entries[id].task_state = "REVOKED" => entries[id].output = "revoked"

RowsMatch == \A id \in TaskId : Matches(id)

\* A watcher's copy of the row may be old, but it saves only what was revoked
\* and so was never touched by a worker.
WatcherKnows ==
  \A v \in Watcher : watcher[v].pc # "idle" =>
    /\ watcher[v].id \in TaskId
    /\ watcher[v].row.subtasks => subtasks[watcher[v].id] # "none"
    /\ watcher[v].pc = "save" =>
         watcher[v].shown = "REVOKED" /\ results[watcher[v].id] = "REVOKED"

\* A revoked task's row is open or says so.
RevokedRows ==
  \A id \in TaskId : results[id] = "REVOKED" =>
    IsOpen(id) \/ entries[id].task_state = "REVOKED"

RowInvariant == TypeOK /\ OneHolder /\ WorkerKnows /\ RowsMatch /\ WatcherKnows /\ RevokedRows

\* Only one row of the kind is open, and none while a requester that has made
\* the check has not created its row.
OneOpenRow ==
  /\ \A id, other \in TaskId : IsOpen(id) /\ IsOpen(other) => id = other
  /\ \A u \in Requester : requester[u].pc = "create" =>
       /\ \A id \in TaskId : ~IsOpen(id)
       /\ \A other \in Requester : requester[other].pc = "create" => other = u

\* Queueing never stops half way.
NoStray == \A id \in TaskId : subtasks[id] # "some"

\* A row with subtasks that is not ready is in PROGRESS, and so is every copy
\* of such a row that a watcher goes to celery with.
SubtasksInProgress ==
  /\ \A id \in TaskId : IsOpen(id) /\ entries[id].subtasks => entries[id].task_state = "PROGRESS"
  /\ \A v \in Watcher : watcher[v].pc = "result" /\ watcher[v].row.subtasks =>
       watcher[v].row.task_state = "PROGRESS"

\* A row whose subtasks are over is ready; an open one has somebody to close it.
OverIsReady == \A id \in TaskId : subtasks[id] = "over" => ~IsOpen(id)
OpenIsAlive == \A id \in TaskId : IsOpen(id) => IsAlive(id) \/ results[id] = "REVOKED"
=============================================================================
