--------------------------- MODULE SubtaskChunks ---------------------------
(***************************************************************************)
(* _generate_items_for_subtask: the generator that cuts the recipients of  *)
(* an email into chunks while the query is being read.  The ids of the     *)
(* subtasks were made before, from the count of an earlier query; the two  *)
(* may disagree, because users enroll and leave in between.                *)
(***************************************************************************)
EXTENDS SubtaskInfo, SequencesExt

CONSTANTS MaxItems, MaxPerTask  \* bounds of the inputs

ASSUME BoundsAssumption == MaxItems \in Nat /\ MaxPerTask \in Nat

VARIABLES
  source,           \* what the query returns
  items_per_task,
  total_num_items,  \* what the earlier query counted
  items,            \* what the query has still to return
  items_for_task,   \* the chunk being filled
  yielded           \* the chunks given to subtasks

inputs == <<source, items_per_task, total_num_items>>
vars == <<inputs, items, items_for_task, yielded>>

total_num_subtasks == NumberOfSubtasks(total_num_items, items_per_task)

\* perform_delegate_email_batches raises before it gets here if the count is 0.
Init ==
  /\ \E n \in 0 .. MaxItems : source = [i \in 1 .. n |-> i]
  /\ items_per_task \in 1 .. MaxPerTask
  /\ total_num_items \in 1 .. MaxItems
  /\ items = source
  /\ items_for_task = <<>>
  /\ yielded = <<>>

\* Mutated: the last subtask is not kept for all that is left.
YieldsWhenFull == Len(items_for_task) = items_per_task

\* The chunk is full, and it is not the last one.
YieldsNow ==
  /\ Len(items_for_task) = items_per_task
  /\ Len(yielded) < total_num_subtasks - 1

\* Mutated: the item that finds the chunk full is dropped.
RestartedEmpty == <<>>

\* The chunk that is begun when the last was yielded.
Restarted == <<Head(items)>>

NextItem ==
  /\ items # <<>>
  /\ items' = Tail(items)
  /\ \/ /\ YieldsNow
        /\ yielded' = Append(yielded, items_for_task)
        /\ items_for_task' = Restarted
     \/ /\ ~YieldsNow
        /\ items_for_task' = Append(items_for_task, Head(items))
        /\ UNCHANGED yielded
  /\ UNCHANGED inputs

\* "yield remainder items for task, if any"
YieldRemainder ==
  /\ items = <<>>
  /\ items_for_task # <<>>
  /\ yielded' = Append(yielded, items_for_task)
  /\ items_for_task' = <<>>
  /\ UNCHANGED <<inputs, items>>

Exhausted == items = <<>> /\ items_for_task = <<>>

Next == NextItem \/ YieldRemainder \/ (Exhausted /\ UNCHANGED vars)

Spec == Init /\ [][Next]_vars

-----------------------------------------------------------------------------
\* Every variable has its type.
TypeOK ==
  /\ source \in Seq(Nat)
  /\ items_per_task \in Nat \ {0}
  /\ total_num_items \in Nat \ {0}
  /\ items \in Seq(Nat)
  /\ items_for_task \in Seq(Nat)
  /\ yielded \in Seq(Seq(Nat))

\* There is an id for every chunk, whatever the query returns: the loop of
\* queue_subtasks_for_query never runs past the end of subtask_id_list.
EveryChunkHasAnId == Len(yielded) <= total_num_subtasks

\* And a chunk for every id, if the two queries agree: "the number of subtask_id
\* values returned by this should match the number of chunks returned by the
\* generate_items_for_subtask generator".
EveryIdHasAChunk ==
  Exhausted /\ Len(source) = total_num_items => Len(yielded) = total_num_subtasks

\* The loop yields what Chunks says, which BulkEmail gives to its subtasks.
YieldsChunks ==
  Exhausted => yielded = Chunks(source, items_per_task, total_num_subtasks)

\* No recipient is lost on the way into a chunk, and none is in two chunks.
NothingLost == FlattenSeq(yielded) \o items_for_task \o items = source
=============================================================================
