------------------------ MODULE BulkEmailProperties ------------------------
(***************************************************************************)
(* What must be true of BulkEmail.                                         *)
(***************************************************************************)
EXTENDS BulkEmail

Happened(some) == \E e \in some \cap Events : events[e] > 0

\* No handler has reported a subtask as failed behind its own back: an error of
\* the broker or of connection.close() after the work is done makes the handlers
\* in send_course_email write a second result for it.
NoSecondResult == ~Happened({"broker", "close"})

IsSettled(id) == id \in DOMAIN task.status /\ task.status[id].state \in READY_STATES
InState(state) == {id \in DOMAIN task.status : task.status[id].state = state}

Job(m) ==
  [pc : {"check", "lock", "prepare", "send", "close", "update", "release", "unwind", "retry"},
   msg : {m}, to : SUBSET Recipient, st : SubtaskStatus, depth : Nat,
   skip_retry_max : BOOLEAN]

ParentState(row) ==
  [pc : {"idle", "start", "delegate", "count", "define", "generate", "queue",
         "finish", "succeed", "fail", "failed", "done"},
   row : {row}, total : Nat, next : Nat \ {0},
   chunks : Seq(Seq(Recipient)), progress : Output]

\* Every variable has its type; a worker is at rest or works on a message.
TypeOK ==
  /\ IsTask(task, SubtaskId)
  /\ lock \in [SubtaskId -> Worker \cup {NoOne}]
  /\ queue \subseteq Message
  /\ DOMAIN worker = Worker
  /\ \A w \in Worker :
       worker[w] = Idle \/ (worker[w].msg \in Message /\ worker[w] \in Job(worker[w].msg))
  /\ DOMAIN parent = Parent
  /\ \A p \in Parent :
       IsTask(parent[p].row, SubtaskId) /\ parent[p] \in ParentState(parent[p].row)
  /\ {enrolled, optout, declined} \subseteq SUBSET Recipient
  /\ sent \in [Recipient -> Nat]
  /\ events \in [Events -> Nat]

-----------------------------------------------------------------------------
(***************************************************************************)
(* The row of the InstructorTask.                                          *)
(***************************************************************************)
\* The two counters of finished subtasks, which _update_subtask_status keeps
\* "rather than scanning the entire dict", are what the scan would find.
LedgerCounts ==
  NoSecondResult =>
    /\ task.succeeded = Cardinality(InState("SUCCESS"))
    /\ task.failed = Cardinality(InState("FAILURE"))

\* A task with subtasks is marked SUCCESS only when all of them are over: no
\* subtask is counted twice, whatever is redelivered or retried.
DoneMeansAllSettled ==
  NoSecondResult /\ task.task_state = "SUCCESS" =>
    \A id \in DOMAIN task.status : IsSettled(id)

\* A job that is a SUCCESS has counted every recipient it announced, once, and
\* its 'succeeded' is the number of emails that were really sent.
EveryoneAccountedFor ==
  task.task_state = "SUCCESS" =>
    /\ task.output.succeeded + task.output.failed + task.output.skipped = task.output.total
    /\ task.output.succeeded = MapThenSumSet(LAMBDA r : sent[r], Recipient)

\* What _update_subtask_status wrote for a finished subtask is never rewritten:
\* a duplicate that slips in, or a stale copy of the row, does not undo it.
SettledIsFinal ==
  [][\A id \in DOMAIN task.status :
       IsSettled(id) /\ NoSecondResult =>
         id \in DOMAIN task'.status /\ task'.status[id] = task.status[id]]_vars

\* A task marked SUCCESS or FAILURE keeps its mark, also when the parent task is
\* delivered again (the comment in perform_delegate_email_batches).
MarkIsKept ==
  [][task.task_state \in READY_STATES => task'.task_state = task.task_state]_vars

\* When the broker is empty and every process is at rest, the task is over:
\* staff never watch a bar that no process will ever move again.
RestMeansOver ==
  AtRest /\ ~Happened({"crash", "database", "unenroll"}) => task.task_state \in READY_STATES

-----------------------------------------------------------------------------
(***************************************************************************)
(* The emails.                                                             *)
(***************************************************************************)
\* Nobody is sent the same course email twice.
SentAtMostOnce == \A r \in Recipient : sent[r] <= 1

\* Who had opted out when the task was submitted is not emailed, by a first
\* attempt or by a retry that skips the Optout table.
DeclinedNotEmailed == \A r \in declined : sent[r] = 0

\* How many recipients a subtask was given, when nobody joins or leaves.
ChunkSize(id) ==
  LET before == (id[2] - 1) * ItemsPerTask
  IN IF before + ItemsPerTask <= task.output.total
     THEN ItemsPerTask ELSE task.output.total - before

\* The message of a retry has only recipients nobody has emailed yet, and its
\* counters account for those that left the list.
RetryCarriesTheRest ==
  \A m \in queue :
    /\ \A r \in m.to : sent[r] = 0
    /\ \A n \in queue : m.id # n.id => m.to \cap n.to = {}
    /\ RetryCount(m.st) > 0 =>
         Cardinality(m.to) + m.st.succeeded + m.st.failed + m.st.skipped = ChunkSize(m.id)

\* Limited retries stop at the limit however they mix with unlimited ones, and
\* "unlimited" ones at their cap.
RetriesBounded ==
  \A m \in queue :
    /\ m.st.retried_withmax <= MaxRetries
    /\ m.st.retried_nomax <= InfiniteRetryCap

\* No lock outlives the work: at rest every lock has been released.
RestMeansUnlocked ==
  AtRest /\ ~Happened({"crash"}) => \A id \in SubtaskId : lock[id] = NoOne

-----------------------------------------------------------------------------
(***************************************************************************)
(* Liveness and refinement.                                                *)
(***************************************************************************)
\* The job as its watchers see it.
Outcome ==
  [id \in DOMAIN task.status |-> IF IsSettled(id) THEN task.status[id].state ELSE "open"]

Watched == INSTANCE EmailJob WITH state <- task.task_state, outcome <- Outcome

\* The pipeline keeps the promise of EmailJob, liveness included.
KeepsThePromise == Watched!FairSpec
=============================================================================
