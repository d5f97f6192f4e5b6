---------------------------- MODULE SubtaskInfo ----------------------------
(***************************************************************************)
(* The row of an InstructorTask and what instructor_task/subtasks.py does  *)
(* to it: the columns task_state, task_output and subtasks, the status     *)
(* record kept for each subtask, and the two functions that write them     *)
(* (initialize_subtask_info and _update_subtask_status).  No state: these  *)
(* are the operators the pipeline of BulkEmail.tla is built from.          *)
(*                                                                         *)
(* 'attempted' is succeeded + failed in every record the code builds       *)
(* (SubtaskStatus.__init__ and increment), so it is not a field of its     *)
(* own.  Times and action names are left out.                              *)
(***************************************************************************)
EXTENDS Integers, FiniteSets, Sequences

\* The celery states that mean "no longer running" (celery.states).
READY_STATES == {"SUCCESS", "FAILURE", "REVOKED"}

\* SubtaskStatus.create(id): what is recorded for a subtask, and carried by
\* its message across retries.
NewStatus ==
  [state |-> "QUEUING", succeeded |-> 0, failed |-> 0, skipped |-> 0,
   retried_nomax |-> 0, retried_withmax |-> 0]

SubtaskStatus ==
  [state : {"QUEUING", "RETRY", "SUCCESS", "FAILURE"},
   succeeded : Nat, failed : Nat, skipped : Nat,
   retried_nomax : Nat, retried_withmax : Nat]

\* SubtaskStatus.get_retry_count()
RetryCount(st) == st.retried_nomax + st.retried_withmax

\* task_output: empty, a progress record, or the report of an exception.
NoOutput == [kind |-> "none", succeeded |-> 0, failed |-> 0, skipped |-> 0, total |-> 0]
FailureOutput == [NoOutput EXCEPT !.kind = "exception"]
Output ==
  [kind : {"none", "progress", "exception"},
   succeeded : Nat, failed : Nat, skipped : Nat, total : Nat]

\* InstructorTask.create: the row before any worker sees it.  The column
\* subtasks is the text of a dict, empty until subtasks are defined; here its
\* 'status' dict is a function with an empty domain.
NewTask ==
  [task_state |-> "QUEUING", output |-> NoOutput,
   total |-> 0, succeeded |-> 0, failed |-> 0, status |-> [id \in {} |-> NewStatus]]

\* len(entry.subtasks) > 0
HasSubtasks(row) == DOMAIN row.status # {}

\* A row whose subtasks have their ids in Ids.
IsTask(row, Ids) ==
  \E ids \in SUBSET Ids :
    row \in [task_state : {"QUEUING", "PROGRESS", "SUCCESS", "FAILURE"}, output : Output,
            total : Nat, succeeded : Nat, failed : Nat, status : [ids -> SubtaskStatus]]

-----------------------------------------------------------------------------

\* _get_number_of_subtasks(total_num_items, items_per_task)
NumberOfSubtasks(total, per) ==
  IF total % per # 0 THEN total \div per + 1 ELSE total \div per

\* The chunks _generate_items_for_subtask yields of the items s when n ids
\* exist: full ones, but the last holds all that is left; none without items.
\* SubtaskChunks.tla shows that the loop yields them.
Chunks(s, per, n) ==
  LET needed == NumberOfSubtasks(Len(s), per)
      count == IF needed < n THEN needed ELSE n
  IN [k \in 1 .. count |->
        SubSeq(s, (k - 1) * per + 1, IF k = count THEN Len(s) ELSE k * per)]

\* initialize_subtask_info(entry, action_name, total_num, subtask_id_list)
InitializeSubtaskInfo(row, total_num, ids) ==
  [row EXCEPT !.output = [NoOutput EXCEPT !.kind = "progress", !.total = total_num],
              !.task_state = "PROGRESS",
              !.total = Cardinality(ids),
              !.succeeded = 0,
              !.failed = 0,
              !.status = [id \in ids |-> NewStatus]]

\* Mutated: a finished subtask may start again; an attempt that was followed by
\* a retry may start again.
StartsWhenReady(row, id, st) ==
  /\ id \in DOMAIN row.status
  /\ row.status[id].state = "RETRY" => RetryCount(st) >= RetryCount(row.status[id])
StartsWhenRetried(row, id, st) ==
  /\ id \in DOMAIN row.status
  /\ row.status[id].state \notin READY_STATES

\* The checks of check_subtask_is_valid that read the row; the lock is not
\* among them.
IsStartable(row, id, st) ==
  /\ id \in DOMAIN row.status
  /\ row.status[id].state \notin READY_STATES
  /\ row.status[id].state = "RETRY" => RetryCount(st) >= RetryCount(row.status[id])

\* _update_subtask_status raises ValueError on an id the row does not know, and
\* KeyError when task_output is no longer a progress record.
IsUpdatable(row, id) ==
  id \in DOMAIN row.status /\ row.output.kind = "progress"

\* Mutated: the skipped are forgotten.
AddCountsNoSkipped(output, st) ==
  IF st.state \in READY_STATES
  THEN [output EXCEPT !.succeeded = @ + st.succeeded, !.failed = @ + st.failed]
  ELSE output

\* Counts reach task_output only when the subtask is done.
AddCounts(output, st) ==
  IF st.state \in READY_STATES
  THEN [output EXCEPT !.succeeded = @ + st.succeeded,
                      !.failed = @ + st.failed,
                      !.skipped = @ + st.skipped]
  ELSE output

\* One more subtask that succeeded, or that ended in any other ready state.
CountSucceeded(row, st) ==
  IF st.state = "SUCCESS" THEN row.succeeded + 1 ELSE row.succeeded
CountFailed(row, st) ==
  IF st.state \in READY_STATES \ {"SUCCESS"} THEN row.failed + 1 ELSE row.failed

\* Mutated: the job is over when one subtask is left.
UpdateEndsEarly(row, id, st) ==
  [row EXCEPT !.status[id] = st, !.output = AddCounts(row.output, st),
              !.succeeded = CountSucceeded(row, st), !.failed = CountFailed(row, st),
              !.task_state = IF row.total - CountSucceeded(row, st) - CountFailed(row, st) <= 1
                             THEN "SUCCESS" ELSE row.task_state]

\* _update_subtask_status(entry_id, current_task_id, new_subtask_status)
UpdateSubtaskStatus(row, id, st) ==
  LET succeeded == CountSucceeded(row, st)
      failed == CountFailed(row, st)
  IN [row EXCEPT !.status[id] = st,
                 !.output = AddCounts(row.output, st),
                 !.succeeded = succeeded,
                 !.failed = failed,
                 !.task_state = IF row.total - succeeded - failed <= 0
                                THEN "SUCCESS" ELSE row.task_state]
=============================================================================
