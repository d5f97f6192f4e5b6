----------------------------- MODULE BulkEmail -----------------------------
(***************************************************************************)
(* The bulk email pipeline: one InstructorTask of type bulk_course_email,  *)
(* from the delivery of its celery task to the end of its last subtask.    *)
(*                                                                         *)
(*   - the parent task (send_bulk_course_email): run_main_task,            *)
(*     perform_delegate_email_batches, queue_subtasks_for_query and the    *)
(*     on_success / on_failure callbacks of BaseInstructorTask;            *)
(*   - the subtasks (send_course_email), each run by some celery worker:   *)
(*     check_subtask_is_valid, _send_course_email, update_subtask_status,  *)
(*     _submit_for_retry.                                                  *)
(*                                                                         *)
(* They share the row of the InstructorTask (task), the memcached locks    *)
(* (lock) and the broker (queue).  Every database read, database write,    *)
(* cache call, broker call and email is a step of its own.                 *)
(*                                                                         *)
(* Things that may go wrong around the code are "events"; the constant     *)
(* Events says which of them may happen and MaxEvents how many in all:     *)
(*   duplicate   the broker delivers a subtask's message again             *)
(*   redeliver   it delivers the parent task again, at any time            *)
(*   broker      publishing a message raises                               *)
(*   database    _update_subtask_status raises DatabaseError               *)
(*   template    the email template is gone (get_template raises)          *)
(*   close       connection.close() raises                                 *)
(*   crash       a worker or the parent dies in the middle of its task     *)
(*   expire      a lock outlives SUBTASK_LOCK_EXPIRE                       *)
(*   enroll, unenroll, optout    a user joins, leaves, or opts out         *)
(***************************************************************************)
EXTENDS SubtaskInfo, FiniteSetsExt

CONSTANTS
  Recipient,       \* users who may be targets of the email
  Worker,          \* celery worker processes that run subtasks
  NoOne,           \* the value of a lock that is not held
  ParentRuns,      \* how many times the parent task is delivered at most
  ItemsPerTask,    \* BULK_EMAIL_EMAILS_PER_TASK
  MaxRetries,      \* BULK_EMAIL_MAX_RETRIES
  InfiniteRetryCap, \* BULK_EMAIL_INFINITE_RETRY_CAP
  MaxDatabaseTries, \* MAX_DATABASE_LOCK_RETRIES
  Outcomes,        \* what sending one email may end in
  Events, MaxEvents,
  OverlapTasks     \* may a duplicate subtask run beside the original?

ASSUME ConstantsAssumption ==
  /\ IsFiniteSet(Recipient)
  /\ NoOne \notin Worker
  /\ {ParentRuns, ItemsPerTask, MaxDatabaseTries} \subseteq Nat \ {0}
  /\ {MaxRetries, InfiniteRetryCap, MaxEvents} \subseteq Nat
  /\ Outcomes \subseteq {"sent", "refused", "throttled", "disconnected", "fatal"}
  /\ OverlapTasks \in BOOLEAN

VARIABLES
  task,      \* the row of the InstructorTask
  lock,      \* for each subtask id, who last took its lock (the cache holds 'true')
  queue,     \* messages the broker holds
  worker,    \* what each worker is doing
  parent,    \* what each run of the parent task is doing
  enrolled,  \* the users the email's targets select now
  optout,    \* the users in the Optout table now
  declined,  \* history: those who had opted out when the task was submitted
  sent,      \* history: how many times each user was sent the email
  events     \* history: how often each event has happened

envVars == <<enrolled, optout, declined>>
vars == <<task, lock, queue, worker, parent, envVars, sent, events>>

Parent == 1 .. ParentRuns

\* uuid4 makes the ids of one definition of subtasks distinct from all others.
SubtaskId == Parent \X (1 .. Cardinality(Recipient))

\* to_list comes in the order of a query without ORDER BY, and no property
\* depends on that order: it is the set of its members.
Message == [id : SubtaskId, to : SUBSET Recipient, st : SubtaskStatus]

\* A worker that runs send_course_email: its message, the recipients still on
\* to_list, the SubtaskStatus object it mutates, how many frames of
\* update_subtask_status are open, and the argument of _submit_for_retry.
Idle == [pc |-> "idle"]
Running(m) ==
  [pc |-> "check", msg |-> m, to |-> m.to, st |-> m.st, depth |-> 0,
   skip_retry_max |-> FALSE]

Busy(w) == worker[w].pc # "idle"

\* The parent task: the row object it holds, the total it counted, the chunks
\* not yet queued and the progress it will return.
NewParent ==
  [pc |-> "idle", row |-> NewTask, total |-> 0, next |-> 1, chunks |-> <<>>,
   progress |-> NoOutput]

Init ==
  /\ task = NewTask
  /\ lock = [id \in SubtaskId |-> NoOne]
  /\ queue = {}
  /\ worker = [w \in Worker |-> Idle]
  /\ parent = [p \in Parent |-> NewParent]
  /\ enrolled \in SUBSET Recipient
  /\ optout \in SUBSET Recipient
  /\ declined = optout
  /\ sent = [r \in Recipient |-> 0]
  /\ events = [e \in Events |-> 0]

\* e happens, if it may; NoEvent says nothing went wrong in this step.
Event(e) ==
  /\ e \in Events
  /\ MapThenSumSet(LAMBDA f : events[f], Events) < MaxEvents
  /\ events' = [events EXCEPT ![e] = @ + 1]

NoEvent == UNCHANGED events

-----------------------------------------------------------------------------
(***************************************************************************)
(* The parent task.                                                        *)
(***************************************************************************)
ParentStep(p, from, to) ==
  /\ parent[p].pc = from
  /\ parent' = [parent EXCEPT ![p].pc = to]

parentVars == <<lock, worker, envVars, sent>>  \* what the parent leaves alone

\* run_main_task reads the row, at the first delivery or at a redelivery ...
ReadTask(p) ==
  /\ parent[p].pc = "idle"
  /\ IF p = 1 THEN NoEvent ELSE parent[p - 1].pc # "idle" /\ Event("redeliver")
  /\ parent' = [parent EXCEPT ![p].pc = "start", ![p].row = task]
  /\ UNCHANGED <<task, queue, parentVars>>

\* ... and writes all of it back with task_state PROGRESS.
MarkProgress(p) ==
  /\ ParentStep(p, "start", "delegate")
  /\ task' = [parent[p].row EXCEPT !.task_state = "PROGRESS"]
  /\ UNCHANGED <<queue, parentVars, events>>

\* perform_delegate_email_batches: nothing to do if subtasks are defined.
Delegate(p) ==
  /\ parent[p].pc = "delegate"
  /\ parent' =
       IF HasSubtasks(task) /\ task.output.kind # "none"
       THEN [parent EXCEPT ![p].pc = "finish", ![p].progress = task.output]
       ELSE [parent EXCEPT ![p].pc = "count", ![p].row = task]
  /\ UNCHANGED <<task, queue, parentVars, events>>

\* combined_set.count(); an empty set raises ValueError.
CountRecipients(p) ==
  /\ parent[p].pc = "count"
  /\ parent' = [parent EXCEPT ![p].pc = IF enrolled = {} THEN "fail" ELSE "define",
                              ![p].total = Cardinality(enrolled)]
  /\ UNCHANGED <<task, queue, parentVars, events>>

SubtaskIds(p) == {p} \X (1 .. NumberOfSubtasks(parent[p].total, ItemsPerTask))

\* The ids are fixed, and the row saved, before any chunk is read.
DefineSubtasks(p) ==
  LET row == InitializeSubtaskInfo(parent[p].row, parent[p].total, SubtaskIds(p))
  IN /\ parent[p].pc = "define"
     /\ task' = row
     /\ parent' = [parent EXCEPT ![p].pc = "generate", ![p].progress = row.output]
     /\ UNCHANGED <<queue, parentVars, events>>

Orderings(S) ==
  {s \in [1 .. Cardinality(S) -> S] : \A i, j \in DOMAIN s : s[i] = s[j] => i = j}

\* The query runs again, now for the users themselves and in any order.
GenerateChunks(p) ==
  /\ parent[p].pc = "generate"
  /\ \E s \in Orderings(enrolled) :
       parent' = [parent EXCEPT ![p].pc = "queue",
                    ![p].chunks = Chunks(s, ItemsPerTask,
                                         NumberOfSubtasks(parent[p].total, ItemsPerTask))]
  /\ UNCHANGED <<task, queue, parentVars, events>>

Members(chunk) == {chunk[i] : i \in DOMAIN chunk}

\* new_subtask.apply_async(), which raises when the broker cannot be reached.
QueueSubtask(p) ==
  /\ parent[p].pc = "queue"
  /\ parent[p].chunks # <<>>
  /\ \/ /\ queue' = queue \cup {[id |-> <<p, parent[p].next>>,
                                 to |-> Members(Head(parent[p].chunks)), st |-> NewStatus]}
        /\ parent' = [parent EXCEPT ![p].next = @ + 1, ![p].chunks = Tail(@)]
        /\ NoEvent
     \/ /\ Event("broker")
        /\ parent' = [parent EXCEPT ![p].pc = "fail"]
        /\ UNCHANGED queue
  /\ UNCHANGED <<task, parentVars>>

QueuedAll(p) ==
  /\ parent[p].chunks = <<>>
  /\ ParentStep(p, "queue", "finish")
  /\ UNCHANGED <<task, queue, parentVars, events>>

\* on_success goes on to write the row only when it finds no subtasks in it: a
\* redelivered parent has written an old row back in the meantime.
OnSuccess(p) ==
  /\ parent[p].pc = "finish"
  /\ parent' = [parent EXCEPT ![p].pc = IF HasSubtasks(task) THEN "done" ELSE "succeed",
                              ![p].row = task]
  /\ UNCHANGED <<task, queue, parentVars, events>>

\* on_failure always does.
OnFailure(p) ==
  /\ parent[p].pc = "fail"
  /\ parent' = [parent EXCEPT ![p].pc = "failed", ![p].row = task]
  /\ UNCHANGED <<task, queue, parentVars, events>>

\* The row with the progress of a success, or with the report of an exception.
Ended(run) ==
  IF run.pc = "succeed"
  THEN [run.row EXCEPT !.output = run.progress, !.task_state = "SUCCESS"]
  ELSE [run.row EXCEPT !.output = FailureOutput, !.task_state = "FAILURE"]

\* Both write all of the row they have read.
SaveEnd(p) ==
  /\ parent[p].pc \in {"succeed", "failed"}
  /\ task' = Ended(parent[p])
  /\ parent' = [parent EXCEPT ![p].pc = "done"]
  /\ UNCHANGED <<queue, parentVars, events>>

ParentNext(p) ==
  \/ ReadTask(p) \/ MarkProgress(p) \/ Delegate(p) \/ CountRecipients(p)
  \/ DefineSubtasks(p) \/ GenerateChunks(p) \/ QueueSubtask(p) \/ QueuedAll(p)
  \/ OnSuccess(p) \/ OnFailure(p) \/ SaveEnd(p)

-----------------------------------------------------------------------------
(***************************************************************************)
(* A worker that runs one subtask.                                         *)
(***************************************************************************)
\* The same message is in the hands of some worker.
BeingRun(m) ==
  \E w \in Worker :
    /\ Busy(w)
    /\ worker[w].msg.id = m.id
    /\ RetryCount(worker[w].msg.st) = RetryCount(m.st)

WorkerGoto(w, pc) == worker' = [worker EXCEPT ![w].pc = pc]
WorkerStops(w) == worker' = [worker EXCEPT ![w] = Idle]

\* celery delivers a message; a duplicate may stay behind.
Receive(w) ==
  /\ ~Busy(w)
  /\ \E m \in queue :
       /\ OverlapTasks \/ ~BeingRun(m)
       /\ worker' = [worker EXCEPT ![w] = Running(m)]
       /\ \/ queue' = queue \ {m} /\ NoEvent
          \/ UNCHANGED queue /\ Event("duplicate")
  /\ UNCHANGED <<task, lock, parent, envVars, sent>>

\* check_subtask_is_valid reads the row, without a lock on it: a subtask that is
\* unknown, done or already retried is rejected with DuplicateTaskException ...
CheckSubtask(w) ==
  /\ worker[w].pc = "check"
  /\ IF IsStartable(task, worker[w].msg.id, worker[w].st)
     THEN WorkerGoto(w, "lock")
     ELSE WorkerStops(w)
  /\ UNCHANGED <<task, lock, queue, parent, envVars, sent, events>>

\* ... and then takes the lock, or is rejected too.
AcquireLock(w) ==
  LET id == worker[w].msg.id
  IN /\ worker[w].pc = "lock"
     /\ \/ /\ lock[id] = NoOne
           /\ lock' = [lock EXCEPT ![id] = w]
           /\ WorkerGoto(w, "prepare")
        \/ /\ lock[id] # NoOne
           /\ WorkerStops(w)
           /\ UNCHANGED lock
     /\ UNCHANGED <<task, queue, parent, envVars, sent, events>>

\* The steps of _send_course_email leave these alone.
sendVars == <<task, lock, queue, parent, envVars>>

\* The SubtaskStatus and to_list of w, and where it goes next.  A worker enters
\* update_subtask_status with one frame open.
WorkerSets(w, pc, to, st, skip) ==
  worker' = [worker EXCEPT ![w].pc = pc, ![w].to = to, ![w].st = st,
                           ![w].depth = 1, ![w].skip_retry_max = skip]

\* An exception that leaves _send_course_email reaches the handler of
\* send_course_email, which counts every recipient of the message as failed.
Escape(w, st) ==
  WorkerSets(w, "update", worker[w].to,
             [st EXCEPT !.failed = @ + Cardinality(worker[w].msg.to), !.state = "FAILURE"],
             FALSE)

\* The exceptions _send_course_email answers with a retry: an email sent too
\* fast (INFINITE_RETRY_ERRORS), and a lost connection or anything unforeseen.
Throttled(st) == [st EXCEPT !.retried_nomax = @ + 1, !.state = "RETRY"]
Disconnected(st) == [st EXCEPT !.retried_withmax = @ + 1, !.state = "RETRY"]

\* All the recipients that are left have failed.
GiveUpStillRetry(st, to) == [st EXCEPT !.failed = @ + Cardinality(to)]  \* mutated: state kept
GiveUp(st, to) == [st EXCEPT !.failed = @ + Cardinality(to), !.state = "FAILURE"]

\* The recipients that were on the list and are no longer.
SkippedSwapped(st, before, after) ==  \* mutated
  [st EXCEPT !.skipped = @ + Cardinality(after) - Cardinality(before)]
Skipped(st, before, after) ==
  [st EXCEPT !.skipped = @ + Cardinality(before) - Cardinality(after)]

\* Opted-out users leave to_list on the first attempt only; then the template
\* is fetched and the connection opened, which may fail for now or for good.
Prepare(w) ==
  LET job == worker[w]
      first == RetryCount(job.st) = 0
      to == IF first THEN job.to \ optout ELSE job.to
      st == Skipped(job.st, job.to, to)
  IN /\ job.pc = "prepare"
     /\ \/ WorkerSets(w, "send", to, st, FALSE) /\ NoEvent
        \/ /\ "disconnected" \in Outcomes
           /\ WorkerSets(w, "update", to, Disconnected(st), FALSE)
           /\ NoEvent
        \/ /\ "fatal" \in Outcomes
           /\ WorkerSets(w, "close", to, GiveUp(st, to), FALSE)
           /\ NoEvent
        \/ Escape(w, st) /\ Event("template")
     /\ UNCHANGED <<sendVars, sent>>

\* The loop of _send_course_email on the user at the end of to_list.
Sending(w, outcome) ==
  /\ outcome \in Outcomes
  /\ worker[w].pc = "send"
  /\ worker[w].to # {}

SendEmail(w) ==
  LET job == worker[w]
  IN /\ Sending(w, "sent")
     /\ \E r \in job.to :
          /\ sent' = [sent EXCEPT ![r] = @ + 1]
          /\ WorkerSets(w, "send", job.to \ {r}, [job.st EXCEPT !.succeeded = @ + 1], FALSE)
     /\ UNCHANGED <<sendVars, events>>

\* A 5xx answer or one of SINGLE_EMAIL_FAILURE_ERRORS.
RefuseEmail(w) ==
  LET job == worker[w]
  IN /\ Sending(w, "refused")
     /\ \E r \in job.to :
          WorkerSets(w, "send", job.to \ {r}, [job.st EXCEPT !.failed = @ + 1], FALSE)
     /\ UNCHANGED <<sendVars, sent, events>>

ThrottleEmail(w) ==
  /\ Sending(w, "throttled")
  /\ WorkerSets(w, "update", worker[w].to, Throttled(worker[w].st), TRUE)
  /\ UNCHANGED <<sendVars, sent, events>>

DropConnection(w) ==
  /\ Sending(w, "disconnected")
  /\ WorkerSets(w, "update", worker[w].to, Disconnected(worker[w].st), FALSE)
  /\ UNCHANGED <<sendVars, sent, events>>

\* One of BULK_EMAIL_FAILURE_ERRORS.
AbortSending(w) ==
  /\ Sending(w, "fatal")
  /\ WorkerSets(w, "close", worker[w].to, GiveUp(worker[w].st, worker[w].to), FALSE)
  /\ UNCHANGED <<sendVars, sent, events>>

FinishSending(w) ==
  /\ worker[w].pc = "send"
  /\ worker[w].to = {}
  /\ WorkerSets(w, "close", {}, [worker[w].st EXCEPT !.state = "SUCCESS"], FALSE)
  /\ UNCHANGED <<sendVars, sent, events>>

\* The finally clause of _send_course_email.  What follows is raising
\* RetryTaskError, or writing the final status; or the handler of
\* send_course_email, if closing the connection raises.
CloseConnection(w) ==
  /\ worker[w].pc = "close"
  /\ \/ /\ worker[w].st.state = "RETRY"
        /\ WorkerStops(w)
        /\ NoEvent
     \/ /\ worker[w].st.state # "RETRY"
        /\ WorkerSets(w, "update", worker[w].to, worker[w].st, FALSE)
        /\ NoEvent
     \/ Escape(w, worker[w].st) /\ Event("close")
  /\ UNCHANGED <<sendVars, sent>>

-----------------------------------------------------------------------------
(***************************************************************************)
(* update_subtask_status.  The write of the row takes a row lock and is    *)
(* one step; a DatabaseError opens another frame until MaxDatabaseTries    *)
(* are open, and each frame deletes the cache key when it is left.         *)
(***************************************************************************)
updateVars == <<queue, parent, envVars, sent>>

WriteStatus(w) ==
  LET id == worker[w].msg.id
  IN /\ worker[w].pc = "update"
     /\ IsUpdatable(task, id)
     /\ task' = UpdateSubtaskStatus(task, id, worker[w].st)
     /\ WorkerGoto(w, "release")
     /\ UNCHANGED <<lock, updateVars, events>>

\* ValueError or KeyError: not retried.
RejectWrite(w) ==
  /\ worker[w].pc = "update"
  /\ ~IsUpdatable(task, worker[w].msg.id)
  /\ WorkerGoto(w, "unwind")
  /\ UNCHANGED <<task, lock, updateVars, events>>

FailWrite(w) ==
  /\ worker[w].pc = "update"
  /\ Event("database")
  /\ IF worker[w].depth < MaxDatabaseTries
     THEN worker' = [worker EXCEPT ![w].depth = @ + 1]
     ELSE WorkerGoto(w, "unwind")
  /\ UNCHANGED <<task, lock, updateVars>>

\* Mutated: the lock is kept when the update raises.
DeletedKeyOnSuccess(w) ==
  IF worker[w].pc = "release" THEN [lock EXCEPT ![worker[w].msg.id] = NoOne] ELSE lock

\* _release_subtask_lock(current_task_id)
DeletedKey(w) == [lock EXCEPT ![worker[w].msg.id] = NoOne]

\* The key is deleted whoever added it.  After the last frame
\* a retry goes on to submit itself, an exception goes to the handler of
\* send_course_email if it came from _submit_for_retry, and all else ends.
ReleaseLock(w) ==
  LET job == worker[w]
  IN /\ job.pc \in {"release", "unwind"}
     /\ lock' = DeletedKey(w)
     /\ \/ /\ job.depth > 1
           /\ worker' = [worker EXCEPT ![w].depth = @ - 1]
        \/ /\ job.depth <= 1
           /\ job.st.state = "RETRY"
           /\ IF job.pc = "release" THEN WorkerGoto(w, "retry") ELSE Escape(w, job.st)
        \/ /\ job.depth <= 1
           /\ job.st.state # "RETRY"
           /\ WorkerStops(w)
     /\ UNCHANGED <<task, updateVars, events>>

\* Mutated: every retry so far raises the limit.
MaxRetriesLoose(st, skip_retry_max) == MaxRetries + RetryCount(st)

\* The max_retries _submit_for_retry hands to retry().
MaxRetriesOf(st, skip_retry_max) ==
  LET limited == MaxRetries + st.retried_nomax
      capped == InfiniteRetryCap + st.retried_withmax
  IN IF skip_retry_max /\ capped < limited THEN capped ELSE limited

\* Mutated: the list the attempt was given, with those it emailed or skipped.
NextAttemptFromStart(job) == [id |-> job.msg.id, to |-> job.msg.to, st |-> job.st]

\* The args of the retry: who is left, and the progress so far.
NextAttempt(job) == [id |-> job.msg.id, to |-> job.to, st |-> job.st]

\* retry() publishes the message of the next attempt with the recipients that
\* are left.  It raises past max_retries, and when the broker is away: then
\* they are counted as failed.
SubmitRetry(w) ==
  LET job == worker[w]
      exhausted == RetryCount(job.st) > MaxRetriesOf(job.st, job.skip_retry_max)
  IN /\ job.pc = "retry"
     /\ \/ /\ ~exhausted
           /\ queue' = queue \cup {NextAttempt(job)}
           /\ WorkerGoto(w, "close")
           /\ NoEvent
        \/ /\ (exhausted /\ NoEvent) \/ Event("broker")
           /\ WorkerSets(w, "close", job.to, GiveUp(job.st, job.to), FALSE)
           /\ UNCHANGED queue
     /\ UNCHANGED <<task, lock, parent, envVars, sent>>

WorkerNext(w) ==
  \/ Receive(w) \/ CheckSubtask(w) \/ AcquireLock(w) \/ Prepare(w)
  \/ SendEmail(w) \/ RefuseEmail(w) \/ ThrottleEmail(w) \/ DropConnection(w)
  \/ AbortSending(w) \/ FinishSending(w) \/ CloseConnection(w)
  \/ WriteStatus(w) \/ RejectWrite(w) \/ FailWrite(w) \/ ReleaseLock(w)
  \/ SubmitRetry(w)

-----------------------------------------------------------------------------
(***************************************************************************)
(* What happens around the tasks.                                          *)
(***************************************************************************)
CrashWorker(w) ==
  /\ Busy(w)
  /\ Event("crash")
  /\ WorkerStops(w)
  /\ UNCHANGED <<task, lock, queue, parent, envVars, sent>>

CrashParent(p) ==
  /\ parent[p].pc \notin {"idle", "done"}
  /\ Event("crash")
  /\ parent' = [parent EXCEPT ![p].pc = "done"]
  /\ UNCHANGED <<task, lock, queue, worker, envVars, sent>>

\* memcached drops a key SUBTASK_LOCK_EXPIRE seconds after it was added.
ExpireLock(id) ==
  /\ lock[id] # NoOne
  /\ Event("expire")
  /\ lock' = [lock EXCEPT ![id] = NoOne]
  /\ UNCHANGED <<task, queue, worker, parent, envVars, sent>>

ChangeUsers ==
  /\ \/ /\ Event("enroll")
        /\ \E r \in Recipient \ enrolled : enrolled' = enrolled \cup {r}
        /\ UNCHANGED optout
     \/ /\ Event("unenroll")
        /\ \E r \in enrolled : enrolled' = enrolled \ {r}
        /\ UNCHANGED optout
     \/ /\ Event("optout")
        /\ \E r \in Recipient \ optout : optout' = optout \cup {r}
        /\ UNCHANGED enrolled
  /\ UNCHANGED <<task, lock, queue, worker, parent, declined, sent>>

\* Nothing is left to run: the broker is empty and every process is at rest.
AtRest ==
  /\ queue = {}
  /\ \A w \in Worker : ~Busy(w)
  /\ \A p \in Parent : parent[p].pc = "done" \/ (p > 1 /\ parent[p].pc = "idle")

Next ==
  \/ \E p \in Parent : ParentNext(p) \/ CrashParent(p)
  \/ \E w \in Worker : WorkerNext(w) \/ CrashWorker(w)
  \/ \E id \in SubtaskId : ExpireLock(id)
  \/ ChangeUsers
  \/ AtRest /\ UNCHANGED vars

Spec == Init /\ [][Next]_vars

\* celery runs what it delivers, and goes on delivering while it has messages;
\* nothing obliges users, or the events, to happen.
Fairness ==
  /\ \A p \in Parent : WF_vars((p = 1 \/ parent[p].pc # "idle") /\ ParentNext(p))
  /\ \A w \in Worker : WF_vars(WorkerNext(w))

FairSpec == Spec /\ Fairness
=============================================================================
