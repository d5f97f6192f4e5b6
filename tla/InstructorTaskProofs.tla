------------------------ MODULE InstructorTaskProofs ------------------------
(***************************************************************************)
(* Proofs about InstructorTask, for any number of requesters, workers,     *)
(* watchers, tasks and events.                                             *)
(***************************************************************************)
EXTENDS InstructorTaskProperties, SequenceTheorems, TLAPS

\* Changing one element of a sequence.
LEMMA ChangeOne ==
  ASSUME NEW S, NEW s \in Seq(S), NEW i \in DOMAIN s, NEW e \in S
  PROVE  /\ [s EXCEPT ![i] = e] \in Seq(S)
         /\ Len([s EXCEPT ![i] = e]) = Len(s)
         /\ DOMAIN [s EXCEPT ![i] = e] = DOMAIN s
<1>1. DOMAIN s = 1 .. Len(s)
  BY LenProperties
<1> QED BY <1>1, ExceptSeq

\* Appending one element to a sequence.
LEMMA AddOne ==
  ASSUME NEW S, NEW s \in Seq(S), NEW e \in S
  PROVE  /\ Append(s, e) \in Seq(S)
         /\ Len(Append(s, e)) = Len(s) + 1
         /\ DOMAIN s = 1 .. Len(s)
         /\ Len(s) \in Nat
         /\ DOMAIN Append(s, e) = DOMAIN s \cup {Len(s) + 1}
         /\ Len(s) + 1 \notin DOMAIN s
         /\ \A i \in DOMAIN s : Append(s, e)[i] = s[i]
         /\ Append(s, e)[Len(s) + 1] = e
<1>1. /\ Append(s, e) \in Seq(S)
      /\ Len(Append(s, e)) = Len(s) + 1
      /\ \A i \in 1 .. Len(s) : Append(s, e)[i] = s[i]
      /\ Append(s, e)[Len(s) + 1] = e
  BY AppendProperties
<1>2. /\ DOMAIN s = 1 .. Len(s)
      /\ Len(s) \in Nat
      /\ DOMAIN Append(s, e) = 1 .. (Len(s) + 1)
  BY <1>1, LenProperties
<1> QED BY <1>1, <1>2

\* The three sequences describe the same tasks.
LEMMA Typed ==
  ASSUME TypeOK
  PROVE  /\ DOMAIN entries = TaskId /\ DOMAIN subtasks = TaskId /\ DOMAIN results = TaskId
         /\ TaskId = 1 .. Len(entries) /\ Len(entries) \in Nat
         /\ \A id \in TaskId : /\ entries[id] \in Entry
                               /\ subtasks[id] \in SubtaskPhase
                               /\ results[id] \in TaskState
<1>1. entries \in Seq(Entry) /\ subtasks \in Seq(SubtaskPhase) /\ results \in Seq(TaskState)
  BY DEF TypeOK
<1>2. /\ DOMAIN entries = 1 .. Len(entries) /\ Len(entries) \in Nat
      /\ DOMAIN subtasks = 1 .. Len(subtasks) /\ DOMAIN results = 1 .. Len(results)
  BY <1>1, LenProperties
<1>3. Len(subtasks) = Len(entries) /\ Len(results) = Len(entries)
  BY DEF TypeOK
<1>4. /\ \A id \in 1 .. Len(entries) : entries[id] \in Entry
      /\ \A id \in 1 .. Len(subtasks) : subtasks[id] \in SubtaskPhase
      /\ \A id \in 1 .. Len(results) : results[id] \in TaskState
  BY <1>1, ElementOfSeq
<1> QED BY <1>2, <1>3, <1>4 DEF TaskId

-----------------------------------------------------------------------------
(***************************************************************************)
(* Every step keeps the types.                                             *)
(***************************************************************************)
LEMMA NewRow == NewEntry \in Entry
BY DEF NewEntry, Entry, TaskState

LEMMA InitTyped == ASSUME Init PROVE TypeOK
<1>1. /\ <<>> \in Seq(Entry) /\ <<>> \in Seq(SubtaskPhase) /\ <<>> \in Seq(TaskState)
      /\ Len(<<>>) = 0
  BY EmptySeq
<1>2. 0 \in 0 .. MaxEvents
  BY ConstantsAssumption
<1>3. /\ IdleRequester \in RequesterState
      /\ IdleWorker \in WorkerState
      /\ IdleWatcher \in WatcherState
  BY NewRow DEF IdleRequester, IdleWorker, IdleWatcher, RequesterState, WorkerState, WatcherState
<1> QED BY <1>1, <1>2, <1>3 DEF Init, TypeOK

LEMMA EventTyped ==
  ASSUME NEW e, events \in 0 .. MaxEvents, Event(e)
  PROVE  events' \in 0 .. MaxEvents
BY ConstantsAssumption DEF Event

LEMMA RequesterTyped ==
  ASSUME TypeOK, OneHolder, NEW u \in Requester, RequesterNext(u)
  PROVE  TypeOK'
<1>1. requester[u] \in RequesterState
  BY DEF TypeOK
<1>2. CASE CheckRunning(u)
  <2>1. requester' \in [Requester -> RequesterState]
    BY <1>1, <1>2 DEF CheckRunning, TypeOK, RequesterState
  <2> QED BY <1>2, <2>1 DEF CheckRunning, TypeOK, TaskId
<1>3. CASE CreateEntry(u)
  <2>1. /\ entries' \in Seq(Entry) /\ subtasks' \in Seq(SubtaskPhase)
        /\ results' \in Seq(TaskState)
        /\ Len(entries') = Len(entries) + 1
        /\ Len(subtasks') = Len(subtasks) + 1
        /\ Len(results') = Len(results) + 1
        /\ TaskId \subseteq TaskId'
        /\ Len(entries) + 1 \in Nat
    BY <1>3, AddOne, NewRow DEF CreateEntry, TypeOK, SubtaskPhase, TaskState, TaskId
  <2>2. requester' \in [Requester -> RequesterState]
    BY <1>1, <1>3, <2>1 DEF CreateEntry, TypeOK, RequesterState
  <2> QED BY <1>3, <2>1, <2>2 DEF CreateEntry, TypeOK
<1>4. CASE SubmitTask(u)
  <2>1. requester[u].id \in TaskId
    BY <1>4 DEF SubmitTask, OneHolder, Submitting, IsUntouched
  <2>2. /\ [requester EXCEPT ![u].pc = "idle", ![u].answer = "submitted"]
             \in [Requester -> RequesterState]
        /\ [requester EXCEPT ![u].pc = "idle", ![u].answer = "error"]
             \in [Requester -> RequesterState]
    BY <1>1 DEF TypeOK, RequesterState
  <2>3. requester' \in [Requester -> RequesterState]
    BY <1>4, <2>2 DEF SubmitTask
  <2>4. events' \in 0 .. MaxEvents
    BY <1>4, EventTyped DEF SubmitTask, TypeOK
  <2>5. broker' \subseteq TaskId
    BY <1>4, <2>1 DEF SubmitTask, TypeOK
  <2> QED BY <1>4, <2>3, <2>4, <2>5 DEF SubmitTask, TypeOK, TaskId
<1> QED BY <1>2, <1>3, <1>4 DEF RequesterNext

\* Rewriting the row, the result or the subtasks of one task.
LEMMA RowChanged ==
  ASSUME TypeOK, NEW id \in TaskId, NEW row \in Entry, entries' = [entries EXCEPT ![id] = row]
  PROVE  entries' \in Seq(Entry) /\ Len(entries') = Len(entries) /\ TaskId' = TaskId
BY ChangeOne DEF TypeOK, TaskId

LEMMA ResultChanged ==
  ASSUME TypeOK, NEW id \in TaskId, NEW r \in TaskState, results' = [results EXCEPT ![id] = r]
  PROVE  results' \in Seq(TaskState) /\ Len(results') = Len(results)
BY Typed, ChangeOne DEF TypeOK

LEMMA SubtasksChanged ==
  ASSUME TypeOK, NEW id \in TaskId, NEW p \in SubtaskPhase,
         subtasks' = [subtasks EXCEPT ![id] = p]
  PROVE  subtasks' \in Seq(SubtaskPhase) /\ Len(subtasks') = Len(subtasks)
BY Typed, ChangeOne DEF TypeOK

LEMMA WorkerTyped ==
  ASSUME TypeOK, OneHolder, WorkerKnows, NEW w \in Worker, WorkerNext(w)
  PROVE  TypeOK'
<1> DEFINE id == worker[w].id
<1>1. worker[w] \in WorkerState
  BY DEF TypeOK
<1>2. /\ worker[w].row \in Entry
      /\ \A st \in TaskState, out \in {"none", "result", "exception", "revoked"} :
           [worker[w].row EXCEPT !.task_state = st, !.output = out] \in Entry
      /\ [worker[w].row EXCEPT !.task_state = "PROGRESS"] \in Entry
  BY <1>1 DEF WorkerState, Entry, TaskState
<1>3. Busy(w) => id \in TaskId /\ Working(w) \in Entry
  BY Typed DEF WorkerKnows, Knows, Working
<1>4. /\ \A pc \in {"read", "start", "work", "on_success", "on_failure", "succeed", "fail"} :
           [worker EXCEPT ![w].pc = pc] \in [Worker -> WorkerState]
      /\ \A pc \in {"start", "succeed", "fail"} : \A row \in Entry :
           [worker EXCEPT ![w].pc = pc, ![w].row = row] \in [Worker -> WorkerState]
      /\ \A n \in Nat : [worker EXCEPT ![w].pc = "read", ![w].id = n] \in [Worker -> WorkerState]
      /\ [worker EXCEPT ![w] = IdleWorker] \in [Worker -> WorkerState]
  BY <1>1, NewRow DEF TypeOK, WorkerState, IdleWorker
<1>5. TaskId \subseteq Nat
  BY Typed
<1>6. CASE Receive(w)
  <2>1. PICK n \in broker :
          /\ broker' = broker \ {n}
          /\ IF n \in revoked
             THEN results' = [results EXCEPT ![n] = "REVOKED"] /\ UNCHANGED worker
             ELSE worker' = [worker EXCEPT ![w].pc = "read", ![w].id = n] /\ UNCHANGED results
    BY <1>6 DEF Receive
  <2>2. n \in TaskId /\ n \in Nat
    BY <1>5 DEF TypeOK
  <2>3. worker' \in [Worker -> WorkerState]
    <3>1. worker \in [Worker -> WorkerState]
      BY DEF TypeOK
    <3>2. [worker EXCEPT ![w].pc = "read", ![w].id = n] \in [Worker -> WorkerState]
      BY <1>4, <2>2
    <3>3. worker' = worker \/ worker' = [worker EXCEPT ![w].pc = "read", ![w].id = n]
      BY <2>1
    <3> QED BY <3>1, <3>2, <3>3
  <2>4. results' \in Seq(TaskState) /\ Len(results') = Len(results)
    BY <2>1, <2>2, ResultChanged DEF TypeOK, TaskState
  <2>5. UNCHANGED <<entries, subtasks, revoked, requester, watcher, events>>
    BY <1>6 DEF Receive
  <2> QED BY <2>1, <2>3, <2>4, <2>5 DEF TypeOK, TaskId
<1>7. CASE ReadEntry(w)
  <2>1. worker' \in [Worker -> WorkerState]
    BY <1>3, <1>4, <1>7 DEF ReadEntry, Busy
  <2> QED BY <1>7, <2>1 DEF ReadEntry, TypeOK, TaskId, runVars
<1>8. CASE MarkProgress(w)
  <2>1. worker' \in [Worker -> WorkerState]
    BY <1>4, <1>8 DEF MarkProgress, WorkerGoto
  <2>2. entries' \in Seq(Entry) /\ Len(entries') = Len(entries) /\ TaskId' = TaskId
    BY <1>2, <1>3, <1>8, RowChanged DEF MarkProgress, Busy
  <2> QED BY <1>8, <2>1, <2>2 DEF MarkProgress, TypeOK, runVars
<1>9. CASE ReportProgress(w)
  <2>1. results' \in Seq(TaskState) /\ Len(results') = Len(results)
    BY <1>3, <1>9, ResultChanged DEF ReportProgress, Busy, TaskState
  <2> QED BY <1>9, <2>1 DEF ReportProgress, TypeOK, TaskId, runVars
<1>10. CASE DefineSubtasks(w)
  <2>1. [task_state |-> "PROGRESS", output |-> "result", subtasks |-> TRUE] \in Entry
    BY DEF Entry, TaskState
  <2>2. entries' \in Seq(Entry) /\ Len(entries') = Len(entries) /\ TaskId' = TaskId
    BY <1>3, <1>10, <2>1, RowChanged DEF DefineSubtasks, Busy
  <2>3. subtasks' \in Seq(SubtaskPhase) /\ Len(subtasks') = Len(subtasks)
    BY <1>3, <1>10, SubtasksChanged DEF DefineSubtasks, Busy, SubtaskPhase
  <2>4. results' \in Seq(TaskState) /\ Len(results') = Len(results)
    <3>1. id \in TaskId /\ "FAILURE" \in TaskState
      BY <1>3, <1>10 DEF DefineSubtasks, Busy, TaskState
    <3>2. results' = results \/ results' = [results EXCEPT ![id] = "FAILURE"]
      BY <1>10 DEF DefineSubtasks
    <3> QED BY <3>1, <3>2, ResultChanged DEF TypeOK
  <2>5. worker' \in [Worker -> WorkerState]
    BY <1>4, <1>10 DEF DefineSubtasks, WorkerGoto, TypeOK
  <2>6. events' \in 0 .. MaxEvents
    BY <1>10, EventTyped DEF DefineSubtasks, TypeOK
  <2> QED BY <1>10, <2>2, <2>3, <2>4, <2>5, <2>6 DEF DefineSubtasks, TypeOK, runVars
<1>11. CASE ReturnResult(w) \/ RaiseError(w)
  <2>1. worker' \in [Worker -> WorkerState]
    BY <1>4, <1>11 DEF ReturnResult, RaiseError, WorkerGoto
  <2>2. results' \in Seq(TaskState) /\ Len(results') = Len(results)
    BY <1>3, <1>11, ResultChanged DEF ReturnResult, RaiseError, Busy, TaskState
  <2> QED BY <1>11, <2>1, <2>2 DEF ReturnResult, RaiseError, TypeOK, TaskId, runVars
<1>12. CASE OnSuccess(w) \/ OnFailure(w)
  <2>1. worker' \in [Worker -> WorkerState]
    <3>1. Working(w) \in Entry
      BY <1>3, <1>12 DEF OnSuccess, OnFailure, Busy
    <3>2. CASE OnSuccess(w)
      BY <1>4, <3>1, <3>2 DEF OnSuccess
    <3>3. CASE OnFailure(w)
      BY <1>4, <3>1, <3>3 DEF OnFailure
    <3> QED BY <1>12, <3>2, <3>3
  <2> QED BY <1>12, <2>1 DEF OnSuccess, OnFailure, TypeOK, TaskId, runVars
<1>13. CASE SaveOutcome(w)
  <2>1. worker' \in [Worker -> WorkerState]
    BY <1>4, <1>13 DEF SaveOutcome
  <2>2. entries' \in Seq(Entry) /\ Len(entries') = Len(entries) /\ TaskId' = TaskId
    <3>1. PICK row \in Entry : entries' = [entries EXCEPT ![id] = row]
      BY <1>2, <1>13 DEF SaveOutcome, TaskState
    <3>2. id \in TaskId
      BY <1>3, <1>13 DEF SaveOutcome, Busy
    <3> QED BY <3>1, <3>2, RowChanged
  <2> QED BY <1>13, <2>1, <2>2 DEF SaveOutcome, TypeOK, runVars
<1> QED BY <1>6, <1>7, <1>8, <1>9, <1>10, <1>11, <1>12, <1>13 DEF WorkerNext

LEMMA SubtasksTyped ==
  ASSUME TypeOK, NEW id \in TaskId, SubtasksEnd(id) \/ Revoke(id)
  PROVE  TypeOK'
<1>1. CASE SubtasksEnd(id)
  <2>1. [entries[id] EXCEPT !.task_state = "SUCCESS"] \in Entry
    BY Typed DEF Entry, TaskState
  <2>2. entries' \in Seq(Entry) /\ Len(entries') = Len(entries) /\ TaskId' = TaskId
    <3>1. CASE subtasks[id] = "all"
      BY <1>1, <2>1, <3>1, RowChanged DEF SubtasksEnd
    <3>2. CASE subtasks[id] # "all"
      BY <1>1, <3>2 DEF SubtasksEnd, TypeOK, TaskId
    <3> QED BY <3>1, <3>2
  <2>3. subtasks' \in Seq(SubtaskPhase) /\ Len(subtasks') = Len(subtasks)
    BY <1>1, SubtasksChanged DEF SubtasksEnd, SubtaskPhase
  <2> QED BY <1>1, <2>2, <2>3 DEF SubtasksEnd, TypeOK, runVars
<1>2. CASE Revoke(id)
  <2>1. events' \in 0 .. MaxEvents
    BY <1>2, EventTyped DEF Revoke, TypeOK
  <2> QED BY <1>2, <2>1 DEF Revoke, TypeOK, TaskId
<1> QED BY <1>1, <1>2

LEMMA WatcherTyped ==
  ASSUME TypeOK, WatcherKnows, NEW v \in Watcher, WatcherNext(v)
  PROVE  TypeOK'
<1>1. watcher[v] \in WatcherState
  BY DEF TypeOK
<1>2. CASE ReadStatus(v)
  <2>1. PICK id \in TaskId :
          LET row == entries[id]
          IN watcher' = IF row.task_state \in READY_STATES
                        THEN [watcher EXCEPT ![v] = [pc |-> "idle", id |-> id, row |-> row,
                                                     shown |-> row.task_state]]
                        ELSE [watcher EXCEPT ![v] = [pc |-> "result", id |-> id, row |-> row,
                                                     shown |-> "none"]]
    BY <1>2 DEF ReadStatus
  <2>2. /\ [pc |-> "idle", id |-> id, row |-> entries[id], shown |-> entries[id].task_state]
             \in WatcherState
        /\ [pc |-> "result", id |-> id, row |-> entries[id], shown |-> "none"] \in WatcherState
    BY Typed DEF WatcherState, Entry
  <2>3. watcher' \in [Watcher -> WatcherState]
    BY <2>1, <2>2 DEF TypeOK
  <2> QED BY <1>2, <2>3 DEF ReadStatus, TypeOK, TaskId, watchVars
<1>3. CASE ReadResult(v)
  <2>1. watcher[v].id \in TaskId
    BY <1>3 DEF ReadResult, WatcherKnows
  <2>2. results[watcher[v].id] \in TaskState /\ watcher[v].row.task_state \in TaskState
    BY <1>1, <2>1, Typed DEF WatcherState, Entry
  <2>3. \A shown \in TaskState, pc \in {"idle", "save"} :
          [watcher EXCEPT ![v].shown = shown, ![v].pc = pc] \in [Watcher -> WatcherState]
    BY <1>1 DEF TypeOK, WatcherState
  <2>4. watcher' \in [Watcher -> WatcherState]
    BY <1>3, <2>2, <2>3 DEF ReadResult
  <2> QED BY <1>3, <2>4 DEF ReadResult, TypeOK, TaskId, watchVars
<1>4. CASE SaveResult(v)
  <2>1. watcher[v].id \in TaskId /\ watcher[v].shown = "REVOKED"
    BY <1>4 DEF SaveResult, WatcherKnows
  <2>2. OutputOf("REVOKED") = "revoked"
    BY DEF OutputOf
  <2>3. [watcher[v].row EXCEPT !.task_state = "REVOKED", !.output = "revoked"] \in Entry
    BY <1>1 DEF WatcherState, Entry, TaskState
  <2>4. entries' \in Seq(Entry) /\ Len(entries') = Len(entries) /\ TaskId' = TaskId
    BY <1>4, <2>1, <2>2, <2>3, RowChanged DEF SaveResult
  <2>5. watcher' \in [Watcher -> WatcherState]
    BY <1>1, <1>4 DEF SaveResult, TypeOK, WatcherState
  <2> QED BY <1>4, <2>4, <2>5 DEF SaveResult, TypeOK, watchVars
<1> QED BY <1>2, <1>3, <1>4 DEF WatcherNext

-----------------------------------------------------------------------------
(***************************************************************************)
(* Every step keeps RowInvariant.                                          *)
(***************************************************************************)
LEMMA InitRows == ASSUME Init PROVE RowInvariant
<1>1. TypeOK
  BY InitTyped
<1>2. TaskId = {}
  BY EmptySeq DEF Init, TaskId
<1>3. OneHolder /\ WorkerKnows /\ WatcherKnows
  BY DEF Init, OneHolder, WorkerKnows, WatcherKnows, Submitting, Busy,
         IdleRequester, IdleWorker, IdleWatcher
<1>4. RowsMatch /\ RevokedRows
  BY <1>2 DEF RowsMatch, Matches, RevokedRows
<1> QED BY <1>1, <1>3, <1>4 DEF RowInvariant

LEMMA RequesterRows ==
  ASSUME RowInvariant, NEW u \in Requester, RequesterNext(u)
  PROVE  RowInvariant'
<1> USE DEF RowInvariant
<1>1. TypeOK'
  BY RequesterTyped
<1>2. requester \in [Requester -> RequesterState] /\ requester' \in [Requester -> RequesterState]
  BY <1>1 DEF TypeOK
<1>3. CASE CheckRunning(u)
  <2>1. /\ requester[u].pc = "idle" /\ requester'[u].pc \in {"idle", "create"}
        /\ requester'[u].id = requester[u].id
        /\ \A x \in Requester \ {u} : requester'[x] = requester[x]
    <3>1. /\ requester[u].pc = "idle"
          /\ \/ requester' = [requester EXCEPT ![u].answer = "already running"]
             \/ requester' = [requester EXCEPT ![u].pc = "create", ![u].answer = "none"]
      BY <1>3 DEF CheckRunning
    <3> requester[u] \in RequesterState /\ DOMAIN requester = Requester
      BY <1>2
    <3>2. CASE requester' = [requester EXCEPT ![u].answer = "already running"]
      <4>1. requester'[u] = [requester[u] EXCEPT !.answer = "already running"]
        BY <3>2
      <4> QED BY <3>1, <3>2, <4>1 DEF RequesterState
    <3>3. CASE requester' = [requester EXCEPT ![u].pc = "create", ![u].answer = "none"]
      <4>1. requester'[u] = [requester[u] EXCEPT !.pc = "create", !.answer = "none"]
        BY <3>3
      <4> QED BY <3>1, <3>3, <4>1 DEF RequesterState
    <3> QED BY <3>1, <3>2, <3>3
  <2>2. \A x \in Requester : /\ Submitting(x)' <=> Submitting(x)
                            /\ requester'[x].id = requester[x].id
    BY <2>1 DEF Submitting
  <2>3. UNCHANGED <<entries, subtasks, results, broker, worker, watcher>>
    BY <1>3 DEF CheckRunning
  <2>4. OneHolder'
    BY <2>1, <2>2, <2>3 DEF OneHolder, IsUntouched, IsOpen, TaskId, Busy
  <2> QED BY <1>1, <2>3, <2>4
          DEF WorkerKnows, Knows, RowsMatch, Matches, WatcherKnows, RevokedRows, IsOpen, TaskId, Busy
<1>4. CASE CreateEntry(u)
  <2>0. PICK new : new = Len(entries) + 1
    OBVIOUS
  <2>1. /\ TaskId' = TaskId \cup {new} /\ new \notin TaskId
        /\ \A id \in TaskId : entries'[id] = entries[id] /\ subtasks'[id] = subtasks[id]
                              /\ results'[id] = results[id]
        /\ entries'[new] = NewEntry /\ subtasks'[new] = "none" /\ results'[new] = "PENDING"
    BY <1>4, <2>0, AddOne, NewRow DEF CreateEntry, TypeOK, SubtaskPhase, TaskState, TaskId
  <2>2. /\ requester'[u].id = new
        /\ \A x \in Requester \ {u} : requester'[x] = requester[x]
    BY <1>2, <1>4, <2>0 DEF CreateEntry, RequesterState
  <2>3. UNCHANGED <<broker, worker, watcher>>
    BY <1>4 DEF CreateEntry
  <2>4. NewEntry.task_state = "QUEUING" /\ NewEntry.subtasks = FALSE
    BY DEF NewEntry
  <2>5. OneHolder'
    <3>1. \A id \in TaskId : IsUntouched(id) => IsUntouched(id)'
      BY <2>1 DEF IsUntouched, IsOpen
    <3>2. IsUntouched(new)'
      <4>1. entries'[new].task_state \notin READY_STATES
        BY <2>1, <2>4 DEF READY_STATES
      <4> QED BY <2>1, <4>1 DEF IsUntouched, IsOpen
    <3>3. \A w \in Worker : Busy(w) => worker[w].id \in TaskId
      BY DEF WorkerKnows, Knows
    <3>4. broker \subseteq TaskId
      BY DEF TypeOK
    <3>5. \A x \in Requester : Submitting(x) => requester[x].id \in TaskId
      BY DEF OneHolder, IsUntouched
    <3>6. \A x \in Requester \ {u} : Submitting(x)' => Submitting(x)
      BY <2>2 DEF Submitting
    <3>7. \A w \in Worker : Busy(w)' = Busy(w) /\ worker'[w].id = worker[w].id
      BY <2>3 DEF Busy
    <3> QED BY <2>1, <2>2, <2>3, <3>1, <3>2, <3>3, <3>4, <3>5, <3>6, <3>7 DEF OneHolder
  <2>6. WorkerKnows'
    BY <2>1, <2>3 DEF WorkerKnows, Knows, IsOpen, Busy
  <2>7. RowsMatch' /\ RevokedRows'
    BY <2>1, <2>4 DEF RowsMatch, Matches, RevokedRows, IsOpen, READY_STATES
  <2>8. WatcherKnows'
    BY <2>1, <2>3 DEF WatcherKnows
  <2> QED BY <1>1, <2>5, <2>6, <2>7, <2>8
<1>5. CASE SubmitTask(u)
  <2>1. /\ Submitting(u) /\ ~Submitting(u)'
        /\ \A x \in Requester \ {u} : requester'[x] = requester[x]
    <3>1. \/ requester' = [requester EXCEPT ![u].pc = "idle", ![u].answer = "submitted"]
          \/ requester' = [requester EXCEPT ![u].pc = "idle", ![u].answer = "error"]
      BY <1>5 DEF SubmitTask
    <3>2. requester'[u].pc = "idle" /\ \A x \in Requester \ {u} : requester'[x] = requester[x]
      <4>1. CASE requester' = [requester EXCEPT ![u].pc = "idle", ![u].answer = "submitted"]
        BY <1>2, <4>1 DEF RequesterState
      <4>2. CASE requester' = [requester EXCEPT ![u].pc = "idle", ![u].answer = "error"]
        BY <1>2, <4>2 DEF RequesterState
      <4> QED BY <3>1, <4>1, <4>2
    <3> QED BY <1>5, <3>1, <3>2 DEF SubmitTask, Submitting
  <2>2. UNCHANGED <<entries, subtasks, results, worker, watcher>>
    BY <1>5 DEF SubmitTask
  <2>3. broker' \subseteq broker \cup {requester[u].id}
    BY <1>5 DEF SubmitTask
  <2>4. OneHolder'
    BY <2>1, <2>2, <2>3 DEF OneHolder, IsUntouched, IsOpen, TaskId, Busy, Submitting
  <2> QED BY <1>1, <2>2, <2>4
          DEF WorkerKnows, Knows, RowsMatch, Matches, WatcherKnows, RevokedRows, IsOpen, TaskId, Busy
<1> QED BY <1>3, <1>4, <1>5 DEF RequesterNext

\* A step of worker w changes only its own task, so only that task and what w
\* knows of it need to be looked at.
LEMMA OwnTaskOnly ==
  ASSUME RowInvariant, TypeOK', NEW w \in Worker, Busy(w), NEW id, id = worker[w].id,
         TaskId' = TaskId, UNCHANGED runVars,
         \A x \in Worker \ {w} : worker'[x] = worker[x],
         \A other \in TaskId \ {id} : /\ entries'[other] = entries[other]
                                      /\ subtasks'[other] = subtasks[other]
                                      /\ results'[other] = results[other],
         worker'[w].id = id \/ worker'[w].pc = "idle",
         Busy(w)' => Knows(w)',
         Matches(id)',
         subtasks[id] # "none" => subtasks'[id] # "none",
         results'[id] # "REVOKED"
  PROVE  RowInvariant'
<1> USE DEF RowInvariant
<1>1. UNCHANGED <<broker, requester, watcher>>
  BY DEF runVars
<1>2. id \in TaskId /\ Knows(w)
  BY DEF WorkerKnows, Knows
<1>3. /\ id \notin broker
      /\ \A u \in Requester : Submitting(u) => requester[u].id # id
      /\ \A x \in Worker \ {w} : Busy(x) => worker[x].id # id
  BY DEF OneHolder
<1>4. \A x \in Worker \ {w} : Busy(x)' = Busy(x)
  BY DEF Busy
<1>5. OneHolder'
  <2>1. \A n \in TaskId \ {id} : IsUntouched(n) => IsUntouched(n)'
    BY DEF IsUntouched, IsOpen
  <2>2. \A u \in Requester : Submitting(u)' = Submitting(u) /\ requester'[u].id = requester[u].id
    BY <1>1 DEF Submitting
  <2>3. \A x \in Worker \ {w} : worker'[x].id = worker[x].id
    OBVIOUS
  <2>4. Busy(w)' => worker'[w].id = id
    BY DEF Busy
  <2>5. \A n : IsUntouched(n) => n \in TaskId
    BY DEF IsUntouched
  <2>6. ASSUME NEW u \in Requester, Submitting(u)'
        PROVE  /\ IsUntouched(requester[u].id)'
               /\ requester'[u].id \notin broker'
               /\ \A x \in Worker : Busy(x)' => worker'[x].id # requester'[u].id
               /\ \A other \in Requester :
                    Submitting(other)' /\ requester'[other].id = requester'[u].id => other = u
    <3>1. Submitting(u) /\ requester'[u].id = requester[u].id /\ requester[u].id # id
      BY <1>3, <2>2, <2>6
    <3>2. IsUntouched(requester[u].id)
      BY <3>1 DEF OneHolder
    <3>3. IsUntouched(requester[u].id)'
      BY <2>1, <2>5, <3>1, <3>2
    <3>4. \A x \in Worker : Busy(x)' => worker'[x].id # requester[u].id
      BY <1>4, <2>3, <2>4, <3>1 DEF OneHolder
    <3>5. \A other \in Requester :
            Submitting(other)' /\ requester'[other].id = requester[u].id => other = u
      BY <2>2, <3>1 DEF OneHolder
    <3> QED BY <1>1, <3>1, <3>3, <3>4, <3>5 DEF OneHolder
  <2>7. ASSUME NEW n \in broker'
        PROVE  /\ IsUntouched(n)'
               /\ \A x \in Worker : Busy(x)' => worker'[x].id # n
    BY <1>1, <1>3, <1>4, <2>1, <2>3, <2>4, <2>5, <2>7 DEF OneHolder
  <2>8. \A x, y \in Worker : Busy(x)' /\ Busy(y)' /\ worker'[x].id = worker'[y].id => x = y
    BY <1>3, <1>4, <2>3, <2>4 DEF OneHolder
  <2> QED BY <2>6, <2>7, <2>8 DEF OneHolder
<1>6. WorkerKnows'
  <2>1. \A x \in Worker \ {w} : Busy(x) /\ Knows(x) => Knows(x)'
    BY <1>3 DEF Knows, IsOpen
  <2> QED BY <1>4, <2>1 DEF WorkerKnows
<1>7. RowsMatch'
  <2>1. \A n \in TaskId \ {id} : Matches(n) => Matches(n)'
    BY DEF Matches, IsOpen
  <2> QED BY <2>1 DEF RowsMatch
<1>8. WatcherKnows'
  <2>1. results[id] # "REVOKED"
    BY <1>2 DEF Knows
  <2> QED BY <1>1, <2>1 DEF WatcherKnows
<1>9. RevokedRows'
  BY DEF RevokedRows, IsOpen
<1> QED BY <1>5, <1>6, <1>7, <1>8, <1>9

LEMMA WorkerRows ==
  ASSUME RowInvariant, NEW w \in Worker, WorkerNext(w), ~Receive(w)
  PROVE  RowInvariant'
<1> USE DEF RowInvariant
<1>1. TypeOK' /\ UNCHANGED runVars /\ Busy(w)
  <2>1. TypeOK'
    BY WorkerTyped
  <2>2. UNCHANGED runVars /\ Busy(w)
    BY DEF WorkerNext, ReadEntry, MarkProgress, ReportProgress, DefineSubtasks, ReturnResult,
           RaiseError, OnSuccess, OnFailure, SaveOutcome, Busy
  <2> QED BY <2>1, <2>2
<1>2. PICK id \in TaskId : id = worker[w].id
  BY <1>1 DEF WorkerKnows, Knows
<1>3. Knows(w) /\ Matches(id)
  BY <1>1, <1>2 DEF WorkerKnows, RowsMatch
<1>4. worker \in [Worker -> WorkerState] /\ worker[w] \in WorkerState
  BY DEF TypeOK
<1>5. /\ DOMAIN entries = TaskId /\ DOMAIN subtasks = TaskId /\ DOMAIN results = TaskId
      /\ entries[id] \in Entry
  BY <1>2, Typed
<1>6. CASE ReadEntry(w)
  <2>1. /\ worker'[w].pc = "start" /\ worker'[w].id = id /\ worker'[w].row = entries[id]
        /\ \A x \in Worker \ {w} : worker'[x] = worker[x]
    BY <1>2, <1>4, <1>6 DEF ReadEntry, Working, WorkerState
  <2>2. UNCHANGED <<entries, subtasks, results>>
    BY <1>6 DEF ReadEntry
  <2>3. Knows(w)'
    BY <1>2, <1>3, <1>6, <2>1, <2>2 DEF Knows, ReadEntry, TaskId, IsOpen
  <2>4. Matches(id)' /\ results'[id] # "REVOKED"
    BY <1>2, <1>3, <2>2 DEF Matches, IsOpen, Knows
  <2> QED BY <1>1, <1>2, <2>1, <2>2, <2>3, <2>4, OwnTaskOnly DEF TaskId
<1>7. CASE MarkProgress(w)
  <2>1. /\ worker'[w].pc = "work" /\ worker'[w].id = id
        /\ \A x \in Worker \ {w} : worker'[x] = worker[x]
    BY <1>2, <1>4, <1>7 DEF MarkProgress, WorkerGoto, WorkerState
  <2>2. /\ entries'[id].task_state = "PROGRESS"
        /\ entries'[id].subtasks = worker[w].row.subtasks
        /\ \A other \in TaskId \ {id} : entries'[other] = entries[other]
        /\ TaskId' = TaskId
    BY <1>2, <1>4, <1>5, <1>7 DEF MarkProgress, WorkerState, Entry, TaskId
  <2>3. UNCHANGED <<subtasks, results>>
    BY <1>7 DEF MarkProgress
  <2>4. subtasks[id] = "none" /\ worker[w].row.subtasks = entries[id].subtasks
        /\ results[id] # "REVOKED"
    BY <1>2, <1>3, <1>7 DEF Knows, MarkProgress
  <2>5. entries'[id].task_state \notin READY_STATES
    BY <2>2 DEF READY_STATES
  <2>6. Knows(w)'
    BY <2>1, <2>2, <2>3, <2>4, <2>5 DEF Knows, IsOpen
  <2>7. Matches(id)'
    BY <1>3, <2>2, <2>3, <2>4, <2>5 DEF Matches, IsOpen
  <2> QED BY <1>1, <1>2, <2>1, <2>2, <2>3, <2>4, <2>6, <2>7, OwnTaskOnly
<1>8. CASE ReportProgress(w)
  <2>1. /\ results'[id] = "PROGRESS"
        /\ \A other \in TaskId \ {id} : results'[other] = results[other]
    BY <1>2, <1>5, <1>8 DEF ReportProgress
  <2>2. UNCHANGED <<entries, subtasks, worker>>
    BY <1>8 DEF ReportProgress
  <2>3. Knows(w)'
    BY <1>2, <1>3, <2>1, <2>2 DEF Knows, TaskId, IsOpen
  <2>4. Matches(id)' /\ results'[id] # "REVOKED"
    BY <1>3, <2>1, <2>2 DEF Matches, IsOpen
  <2> QED BY <1>1, <1>2, <2>1, <2>2, <2>3, <2>4, OwnTaskOnly DEF TaskId
<1>9. CASE DefineSubtasks(w)
  <2>1. /\ subtasks[id] = "none" /\ worker[w].pc = "work"
        /\ \/ /\ subtasks'[id] = "all" /\ results' = results /\ worker' = worker
           \/ /\ subtasks'[id] = "some" /\ results'[id] = "FAILURE"
              /\ worker'[w].pc = "on_failure" /\ worker'[w].id = id
        /\ \A x \in Worker \ {w} : worker'[x] = worker[x]
        /\ \A other \in TaskId \ {id} : subtasks'[other] = subtasks[other]
                                        /\ results'[other] = results[other]
    <3>1. subtasks[id] = "none" /\ worker[w].pc = "work"
      BY <1>2, <1>9 DEF DefineSubtasks
    <3>2. CASE subtasks' = [subtasks EXCEPT ![id] = "all"] /\ UNCHANGED <<results, worker>>
      BY <1>5, <3>1, <3>2
    <3>3. CASE /\ subtasks' = [subtasks EXCEPT ![id] = "some"]
               /\ results' = [results EXCEPT ![id] = "FAILURE"]
               /\ worker' = [worker EXCEPT ![w].pc = "on_failure"]
      BY <1>2, <1>4, <1>5, <3>1, <3>3 DEF WorkerState
    <3> QED BY <1>2, <1>9, <3>2, <3>3 DEF DefineSubtasks, WorkerGoto
  <2>2. /\ entries'[id].task_state = "PROGRESS" /\ entries'[id].subtasks = TRUE
        /\ \A other \in TaskId \ {id} : entries'[other] = entries[other]
        /\ TaskId' = TaskId
    BY <1>2, <1>5, <1>9 DEF DefineSubtasks, TaskId
  <2>3. entries'[id].task_state \notin READY_STATES
    BY <2>2 DEF READY_STATES
  <2>4. results[id] # "REVOKED"
    BY <1>2, <1>3 DEF Knows
  <2>5. Knows(w)'
    BY <1>2, <2>1, <2>2, <2>3, <2>4 DEF Knows, IsOpen
  <2>6. Matches(id)' /\ results'[id] # "REVOKED" /\ worker'[w].id = id
    BY <1>2, <2>1, <2>2, <2>3, <2>4 DEF Matches, IsOpen
  <2> QED BY <1>1, <1>2, <2>1, <2>2, <2>5, <2>6, OwnTaskOnly
<1>10. CASE ReturnResult(w)
  <2>1. /\ worker'[w].pc = "on_success" /\ worker'[w].id = id
        /\ \A x \in Worker \ {w} : worker'[x] = worker[x]
        /\ results'[id] = "SUCCESS"
        /\ \A other \in TaskId \ {id} : results'[other] = results[other]
    BY <1>2, <1>4, <1>5, <1>10 DEF ReturnResult, WorkerGoto, WorkerState
  <2>2. UNCHANGED <<entries, subtasks>> /\ worker[w].pc = "work"
    BY <1>10 DEF ReturnResult
  <2>3. Knows(w)'
    BY <1>2, <1>3, <2>1, <2>2 DEF Knows, TaskId, IsOpen
  <2>4. Matches(id)'
    BY <1>3, <2>1, <2>2 DEF Matches, IsOpen
  <2> QED BY <1>1, <1>2, <2>1, <2>2, <2>3, <2>4, OwnTaskOnly DEF TaskId
<1>11. CASE RaiseError(w)
  <2>1. /\ worker'[w].pc = "on_failure" /\ worker'[w].id = id
        /\ \A x \in Worker \ {w} : worker'[x] = worker[x]
        /\ results'[id] = "FAILURE"
        /\ \A other \in TaskId \ {id} : results'[other] = results[other]
    BY <1>2, <1>4, <1>5, <1>11 DEF RaiseError, WorkerGoto, WorkerState
  <2>2. UNCHANGED <<entries, subtasks>> /\ worker[w].pc = "work" /\ subtasks[id] = "none"
    BY <1>2, <1>11 DEF RaiseError
  <2>3. Knows(w)'
    BY <1>2, <1>3, <2>1, <2>2 DEF Knows, TaskId, IsOpen
  <2>4. Matches(id)'
    BY <1>3, <2>1, <2>2 DEF Matches, IsOpen
  <2> QED BY <1>1, <1>2, <2>1, <2>2, <2>3, <2>4, OwnTaskOnly DEF TaskId
<1>12. CASE OnSuccess(w)
  <2>1. /\ worker[w].pc = "on_success"
        /\ \A x \in Worker \ {w} : worker'[x] = worker[x]
        /\ \/ /\ ~entries[id].subtasks
              /\ worker'[w].pc = "succeed" /\ worker'[w].id = id /\ worker'[w].row = entries[id]
           \/ worker'[w].pc = "idle"
    <3>1. \/ /\ ~entries[id].subtasks
             /\ worker' = [worker EXCEPT ![w].pc = "succeed", ![w].row = entries[id]]
          \/ worker' = [worker EXCEPT ![w] = IdleWorker]
      BY <1>2, <1>12 DEF OnSuccess, Working, DoneByItself
    <3>2. CASE /\ ~entries[id].subtasks
               /\ worker' = [worker EXCEPT ![w].pc = "succeed", ![w].row = entries[id]]
      BY <1>2, <1>4, <1>12, <3>2 DEF OnSuccess, WorkerState
    <3>3. CASE worker' = [worker EXCEPT ![w] = IdleWorker]
      BY <1>4, <1>12, <3>3 DEF OnSuccess, IdleWorker
    <3> QED BY <3>1, <3>2, <3>3
  <2>2. UNCHANGED <<entries, subtasks, results>>
    BY <1>12 DEF OnSuccess
  <2>3. Busy(w)' => Knows(w)'
    BY <1>2, <1>3, <2>1, <2>2 DEF Knows, TaskId, IsOpen, Busy, Matches
  <2>4. Matches(id)' /\ results'[id] # "REVOKED"
    BY <1>2, <1>3, <2>2 DEF Matches, IsOpen, Knows
  <2> QED BY <1>1, <1>2, <2>1, <2>2, <2>3, <2>4, OwnTaskOnly DEF TaskId
<1>13. CASE OnFailure(w)
  <2>1. /\ worker[w].pc = "on_failure"
        /\ worker'[w].pc = "fail" /\ worker'[w].id = id /\ worker'[w].row = entries[id]
        /\ \A x \in Worker \ {w} : worker'[x] = worker[x]
    BY <1>2, <1>4, <1>13 DEF OnFailure, Working, WorkerState
  <2>2. UNCHANGED <<entries, subtasks, results>>
    BY <1>13 DEF OnFailure
  <2>3. Knows(w)'
    BY <1>2, <1>3, <2>1, <2>2 DEF Knows, TaskId, IsOpen
  <2>4. Matches(id)' /\ results'[id] # "REVOKED"
    BY <1>2, <1>3, <2>2 DEF Matches, IsOpen, Knows
  <2> QED BY <1>1, <1>2, <2>1, <2>2, <2>3, <2>4, OwnTaskOnly DEF TaskId
<1>14. CASE SaveOutcome(w)
  <2>1. worker[w].row \in Entry
    BY <1>4 DEF WorkerState
  <2>2. /\ worker'[w].pc = "idle"
        /\ \A x \in Worker \ {w} : worker'[x] = worker[x]
    BY <1>4, <1>14 DEF SaveOutcome, IdleWorker
  <2>3. /\ worker[w].pc \in {"succeed", "fail"}
        /\ entries'[id].task_state \in {"SUCCESS", "FAILURE"}
        /\ entries'[id].subtasks = worker[w].row.subtasks
        /\ \A other \in TaskId \ {id} : entries'[other] = entries[other]
        /\ TaskId' = TaskId
    <3>1. entries \in Seq(Entry) /\ id \in DOMAIN entries
      BY <1>2, <1>5 DEF TypeOK, TaskId
    <3>2. PICK row \in Entry :
            /\ entries' = [entries EXCEPT ![id] = row]
            /\ row.task_state \in {"SUCCESS", "FAILURE"}
            /\ row.subtasks = worker[w].row.subtasks
      <4>1. CASE worker[w].pc = "succeed"
        <5> DEFINE row == [worker[w].row EXCEPT !.task_state = "SUCCESS", !.output = "result"]
        <5>1. entries' = [entries EXCEPT ![id] = row]
          BY <1>2, <1>14, <4>1 DEF SaveOutcome
        <5>2. /\ row \in Entry /\ row.task_state = "SUCCESS"
              /\ row.subtasks = worker[w].row.subtasks
          BY <2>1 DEF Entry, TaskState
        <5> QED BY <5>1, <5>2
      <4>2. CASE worker[w].pc = "fail"
        <5> DEFINE row == [worker[w].row EXCEPT !.task_state = "FAILURE", !.output = "exception"]
        <5>1. entries' = [entries EXCEPT ![id] = row]
          BY <1>2, <1>14, <4>2 DEF SaveOutcome
        <5>2. /\ row \in Entry /\ row.task_state = "FAILURE"
              /\ row.subtasks = worker[w].row.subtasks
          BY <2>1 DEF Entry, TaskState
        <5> QED BY <5>1, <5>2
      <4> QED BY <1>14, <4>1, <4>2 DEF SaveOutcome
    <3>3. worker[w].pc \in {"succeed", "fail"}
      BY <1>14 DEF SaveOutcome
    <3> QED BY <3>1, <3>2, <3>3 DEF TaskId
  <2>4. UNCHANGED <<subtasks, results>>
    BY <1>14 DEF SaveOutcome
  <2>5. /\ worker[w].row.subtasks = entries[id].subtasks
        /\ subtasks[id] # "all" /\ results[id] # "REVOKED"
    BY <1>2, <1>3, <2>3 DEF Knows
  <2>6. Matches(id)' /\ ~Busy(w)'
    BY <1>3, <2>2, <2>3, <2>4, <2>5 DEF Matches, IsOpen, Busy
  <2> QED BY <1>1, <1>2, <2>2, <2>3, <2>4, <2>5, <2>6, OwnTaskOnly
<1> QED BY <1>6, <1>7, <1>8, <1>9, <1>10, <1>11, <1>12, <1>13, <1>14 DEF WorkerNext

LEMMA ReceiveRows ==
  ASSUME RowInvariant, NEW w \in Worker, Receive(w)
  PROVE  RowInvariant'
<1> USE DEF RowInvariant
<1>1. TypeOK' /\ worker \in [Worker -> WorkerState]
  BY WorkerTyped DEF WorkerNext, TypeOK
<1>2. PICK id \in broker :
        /\ broker' = broker \ {id}
        /\ IF id \in revoked
           THEN results' = [results EXCEPT ![id] = "REVOKED"] /\ UNCHANGED worker
           ELSE worker' = [worker EXCEPT ![w].pc = "read", ![w].id = id] /\ UNCHANGED results
  BY DEF Receive
<1>3. UNCHANGED <<entries, subtasks, requester, watcher>> /\ ~Busy(w)
  BY DEF Receive, Busy
<1>4. /\ IsUntouched(id) /\ id \in TaskId
      /\ \A x \in Worker : Busy(x) => worker[x].id # id
      /\ \A u \in Requester : Submitting(u) => requester[u].id # id
      /\ \A u \in Requester : Submitting(u)' = Submitting(u)
      /\ TaskId' = TaskId /\ DOMAIN results = TaskId
      /\ \A n : IsOpen(n)' <=> IsOpen(n)
  BY <1>2, <1>3, Typed DEF OneHolder, IsUntouched, Submitting, TaskId, IsOpen
<1>5. CASE id \in revoked
  <2>1. /\ results'[id] = "REVOKED" /\ UNCHANGED worker
        /\ \A n \in TaskId \ {id} : results'[n] = results[n]
    BY <1>2, <1>4, <1>5
  <2>2. \A n \in TaskId \ {id} : IsUntouched(n)' <=> IsUntouched(n)
    BY <1>3, <1>4, <2>1 DEF IsUntouched
  <2>3. \A x \in Worker : Busy(x)' = Busy(x)
    BY <2>1 DEF Busy
  <2>4. OneHolder'
    <3>1. \A u \in Requester : Submitting(u) =>
            IsUntouched(requester[u].id) /\ requester[u].id \in TaskId \ {id}
      BY <1>4 DEF OneHolder, IsUntouched
    <3>2. \A n \in broker' : IsUntouched(n) /\ n \in TaskId \ {id}
      BY <1>2 DEF OneHolder, IsUntouched
    <3> QED BY <1>2, <1>3, <1>4, <2>1, <2>2, <2>3, <3>1, <3>2 DEF OneHolder
  <2>5. WorkerKnows'
    <3>1. \A x \in Worker : Busy(x) /\ Knows(x) => Knows(x)'
      BY <1>3, <1>4, <2>1 DEF Knows
    <3> QED BY <2>3, <3>1 DEF WorkerKnows
  <2>6. RowsMatch'
    <3>1. \A n \in TaskId : Matches(n) => Matches(n)'
      BY <1>3, <1>4, <2>1 DEF Matches, IsUntouched
    <3> QED BY <1>4, <3>1 DEF RowsMatch
  <2>7. WatcherKnows'
    BY <1>3, <1>4, <2>1 DEF WatcherKnows
  <2>8. RevokedRows'
    BY <1>3, <1>4, <2>1 DEF RevokedRows, IsUntouched
  <2> QED BY <1>1, <2>4, <2>5, <2>6, <2>7, <2>8
<1>6. CASE id \notin revoked
  <2>1. /\ worker'[w].pc = "read" /\ worker'[w].id = id
        /\ \A x \in Worker \ {w} : worker'[x] = worker[x]
        /\ UNCHANGED results
    BY <1>1, <1>2, <1>6 DEF WorkerState
  <2>2. \A n : IsUntouched(n)' <=> IsUntouched(n)
    BY <1>3, <1>4, <2>1 DEF IsUntouched
  <2>3. \A x \in Worker \ {w} : Busy(x)' = Busy(x)
    BY <2>1 DEF Busy
  <2>4. OneHolder'
    BY <1>2, <1>3, <1>4, <2>1, <2>2, <2>3 DEF OneHolder
  <2>5. WorkerKnows'
    <3>1. \A x \in Worker \ {w} : Busy(x) /\ Knows(x) => Knows(x)'
      BY <1>3, <1>4, <2>1 DEF Knows
    <3>2. Knows(w)'
      BY <1>3, <1>4, <2>1 DEF Knows, IsUntouched
    <3> QED BY <2>3, <3>1, <3>2 DEF WorkerKnows
  <2>6. RowsMatch' /\ WatcherKnows' /\ RevokedRows'
    BY <1>3, <1>4, <2>1 DEF RowsMatch, Matches, WatcherKnows, RevokedRows
  <2> QED BY <1>1, <2>4, <2>5, <2>6
<1> QED BY <1>5, <1>6

LEMMA SubtasksRows ==
  ASSUME RowInvariant, NEW id \in TaskId, SubtasksEnd(id) \/ Revoke(id)
  PROVE  RowInvariant'
<1> USE DEF RowInvariant
<1>1. TypeOK'
  BY SubtasksTyped
<1>2. CASE SubtasksEnd(id)
  <2>1. UNCHANGED <<results, worker, broker, requester, watcher>>
    BY <1>2 DEF SubtasksEnd, runVars
  <2>2. DOMAIN entries = TaskId /\ DOMAIN subtasks = TaskId /\ entries[id] \in Entry
    BY Typed
  <2>3. /\ subtasks[id] \in {"all", "some"} /\ subtasks'[id] = "over"
        /\ \A n \in TaskId \ {id} : subtasks'[n] = subtasks[n] /\ entries'[n] = entries[n]
        /\ TaskId' = TaskId
        /\ entries'[id].subtasks = entries[id].subtasks
        /\ \/ subtasks[id] = "all" /\ entries'[id].task_state = "SUCCESS"
           \/ subtasks[id] = "some" /\ entries'[id] = entries[id]
    <3>1. CASE subtasks[id] = "all"
      BY <1>2, <2>2, <3>1 DEF SubtasksEnd, Entry, TaskId
    <3>2. CASE subtasks[id] # "all"
      BY <1>2, <2>2, <3>2 DEF SubtasksEnd, TaskId
    <3> QED BY <3>1, <3>2
  <2>4. Matches(id)
    BY DEF RowsMatch
  <2>5. results[id] # "REVOKED"
    BY <2>3, <2>4 DEF Matches
  <2>6. \A n \in TaskId : IsUntouched(n) => n # id /\ IsUntouched(n)'
    BY <2>1, <2>3 DEF IsUntouched, IsOpen
  <2>7. OneHolder'
    <3>1. \A n : IsUntouched(n) => n \in TaskId /\ IsUntouched(n)'
      BY <2>6 DEF IsUntouched
    <3> QED BY <2>1, <3>1 DEF OneHolder, Submitting, Busy
  <2>8. WorkerKnows'
    <3>1. ASSUME NEW x \in Worker, Busy(x), Knows(x) PROVE Knows(x)'
      <4>1. CASE worker[x].id = id
        <5>1. worker[x].pc \notin {"read", "start", "succeed"}
          BY <2>3, <3>1, <4>1 DEF Knows
        <5>2. subtasks[id] = "some" \/ worker[x].pc \notin {"on_failure", "fail"}
          BY <2>3, <3>1, <4>1 DEF Knows
        <5> QED BY <2>1, <2>3, <3>1, <4>1, <5>1, <5>2 DEF Knows, IsOpen
      <4>2. CASE worker[x].id # id
        BY <2>1, <2>3, <3>1, <4>2 DEF Knows, IsOpen
      <4> QED BY <4>1, <4>2
    <3> QED BY <2>1, <3>1 DEF WorkerKnows, Busy
  <2>9. RowsMatch'
    <3>1. \A n \in TaskId \ {id} : Matches(n) => Matches(n)'
      BY <2>1, <2>3 DEF Matches, IsOpen
    <3>2. Matches(id)'
      BY <2>1, <2>3, <2>4, <2>5 DEF Matches, IsOpen
    <3> QED BY <2>3, <3>1, <3>2 DEF RowsMatch
  <2>10. WatcherKnows'
    BY <2>1, <2>3 DEF WatcherKnows
  <2>11. RevokedRows'
    BY <2>1, <2>3, <2>5 DEF RevokedRows, IsOpen
  <2> QED BY <1>1, <2>7, <2>8, <2>9, <2>10, <2>11
<1>3. CASE Revoke(id)
  <2>1. UNCHANGED <<entries, subtasks, results, broker, requester, worker, watcher>>
    BY <1>3 DEF Revoke
  <2> QED BY <1>1, <2>1 DEF OneHolder, WorkerKnows, RowsMatch, WatcherKnows, RevokedRows,
          IsUntouched, Knows, Matches, IsOpen, Busy, Submitting, TaskId
<1> QED BY <1>2, <1>3

\* A row is its three columns.
LEMMA SameRow ==
  ASSUME NEW a \in Entry, NEW b \in Entry,
         a.task_state = b.task_state, a.output = b.output, a.subtasks = b.subtasks
  PROVE  a = b
BY DEF Entry

\* A watcher rewrites a row only to say REVOKED, of a task nobody holds.
LEMMA SaveOfRevoked ==
  ASSUME RowInvariant, NEW v \in Watcher, SaveResult(v)
  PROVE  LET id == watcher[v].id
         IN /\ id \in TaskId
            /\ results[id] = "REVOKED" /\ subtasks[id] = "none"
            /\ entries' = [entries EXCEPT ![id] = [task_state |-> "REVOKED", output |-> "revoked",
                                                   subtasks |-> FALSE]]
<1> USE DEF RowInvariant
<1>1. /\ watcher[v].id \in TaskId /\ watcher[v].shown = "REVOKED"
      /\ results[watcher[v].id] = "REVOKED"
      /\ watcher[v].row.subtasks => subtasks[watcher[v].id] # "none"
  BY DEF WatcherKnows, SaveResult
<1>2. subtasks[watcher[v].id] = "none"
  BY <1>1 DEF RowsMatch, Matches
<1>3. watcher[v].row \in Entry
  BY DEF TypeOK, WatcherState
<1>4. [watcher[v].row EXCEPT !.task_state = "REVOKED", !.output = "revoked"]
        = [task_state |-> "REVOKED", output |-> "revoked", subtasks |-> FALSE]
  <2> DEFINE row == [watcher[v].row EXCEPT !.task_state = "REVOKED", !.output = "revoked"]
             new == [task_state |-> "REVOKED", output |-> "revoked", subtasks |-> FALSE]
  <2>1. row \in Entry /\ new \in Entry
    BY <1>3 DEF Entry, TaskState
  <2>2. /\ row.task_state = new.task_state /\ row.output = new.output
        /\ row.subtasks = watcher[v].row.subtasks
    BY <1>3 DEF Entry
  <2>3. watcher[v].row.subtasks \in BOOLEAN /\ ~watcher[v].row.subtasks
    BY <1>1, <1>2, <1>3 DEF Entry
  <2>4. row.subtasks = new.subtasks
    BY <2>2, <2>3
  <2> HIDE DEF row, new
  <2>5. row = new
    BY <2>1, <2>2, <2>4, SameRow
  <2> QED BY <2>5 DEF row, new
<1>5. OutputOf("REVOKED") = "revoked"
  BY DEF OutputOf
<1> QED BY <1>1, <1>2, <1>4, <1>5 DEF SaveResult

LEMMA WatcherRows ==
  ASSUME RowInvariant, NEW v \in Watcher, WatcherNext(v)
  PROVE  RowInvariant'
<1> USE DEF RowInvariant
<1>1. TypeOK'
  BY WatcherTyped
<1>2. watcher \in [Watcher -> WatcherState] /\ watcher[v] \in WatcherState
  BY DEF TypeOK
<1>3. CASE ReadStatus(v) \/ ReadResult(v)
  <2>1. UNCHANGED <<entries, subtasks, results, broker, requester, worker>>
    BY <1>3 DEF ReadStatus, ReadResult, watchVars
  <2>2. \A x \in Watcher \ {v} : watcher'[x] = watcher[x]
    BY <1>2, <1>3 DEF ReadStatus, ReadResult
  <2>3. watcher'[v].pc # "idle" =>
          /\ watcher'[v].id \in TaskId
          /\ watcher'[v].row.subtasks => subtasks[watcher'[v].id] # "none"
          /\ watcher'[v].pc = "save" =>
               watcher'[v].shown = "REVOKED" /\ results[watcher'[v].id] = "REVOKED"
    <3>1. CASE ReadStatus(v)
      <4>1. PICK id \in TaskId : LET row == entries[id]
              IN watcher' = IF row.task_state \in READY_STATES
                            THEN [watcher EXCEPT ![v] = [pc |-> "idle", id |-> id, row |-> row,
                                                         shown |-> row.task_state]]
                            ELSE [watcher EXCEPT ![v] = [pc |-> "result", id |-> id, row |-> row,
                                                         shown |-> "none"]]
        BY <3>1 DEF ReadStatus
      <4>2. /\ watcher'[v].pc \in {"idle", "result"}
            /\ watcher'[v].id = id /\ watcher'[v].row = entries[id]
        BY <1>2, <4>1
      <4> QED BY <4>2 DEF RowsMatch, Matches
    <3>2. CASE ReadResult(v)
      <4>1. /\ watcher[v].pc = "result"
            /\ watcher'[v].id = watcher[v].id /\ watcher'[v].row = watcher[v].row
            /\ watcher'[v].pc = "save" =>
                 ~TrustsRow(watcher[v].row) /\ watcher'[v].shown = results[watcher[v].id]
                 /\ NeedsSaving(watcher'[v].shown)
        BY <1>2, <3>2 DEF ReadResult, WatcherState
      <4> QED BY <4>1 DEF WatcherKnows, NeedsSaving
    <3> QED BY <1>3, <3>1, <3>2
  <2>4. WatcherKnows'
    BY <2>1, <2>2, <2>3 DEF WatcherKnows, TaskId
  <2> QED BY <1>1, <2>1, <2>4 DEF OneHolder, WorkerKnows, RowsMatch, RevokedRows,
          IsUntouched, Knows, Matches, IsOpen, Busy, Submitting, TaskId
<1>4. CASE SaveResult(v)
  <2>1. PICK id \in TaskId : id = watcher[v].id
    BY <1>4, SaveOfRevoked
  <2>2. UNCHANGED <<subtasks, results, broker, requester, worker>>
    BY <1>4 DEF SaveResult, watchVars
  <2>3. /\ \A x \in Watcher \ {v} : watcher'[x] = watcher[x]
        /\ watcher'[v].pc = "idle"
    BY <1>2, <1>4 DEF SaveResult, WatcherState
  <2>4. /\ results[id] = "REVOKED" /\ subtasks[id] = "none"
        /\ entries'[id] = [task_state |-> "REVOKED", output |-> "revoked", subtasks |-> FALSE]
        /\ \A n \in TaskId \ {id} : entries'[n] = entries[n]
        /\ TaskId' = TaskId
    BY <1>4, <2>1, SaveOfRevoked, Typed DEF TaskId
  <2>5. OneHolder'
    <3>1. \A n : IsUntouched(n) => IsUntouched(n)'
      BY <2>2, <2>4 DEF IsUntouched, IsOpen
    <3> QED BY <2>2, <3>1 DEF OneHolder, Submitting, Busy
  <2>6. WorkerKnows'
    <3>1. \A x \in Worker : Busy(x) /\ Knows(x) => Knows(x)'
      BY <2>2, <2>4 DEF Knows, IsOpen
    <3> QED BY <2>2, <3>1 DEF WorkerKnows, Busy
  <2>7. RowsMatch'
    <3>1. \A n \in TaskId : Matches(n) => Matches(n)'
      BY <2>2, <2>4 DEF Matches, IsOpen
    <3> QED BY <2>4, <3>1 DEF RowsMatch
  <2>8. WatcherKnows'
    BY <2>2, <2>3, <2>4 DEF WatcherKnows
  <2>9. RevokedRows'
    BY <2>2, <2>4 DEF RevokedRows, IsOpen
  <2> QED BY <1>1, <2>5, <2>6, <2>7, <2>8, <2>9
<1> QED BY <1>3, <1>4 DEF WatcherNext

\* Nothing rewrites a row that is ready.
LEMMA ReadyKept ==
  ASSUME RowInvariant, Next, NEW id \in TaskId, ~IsOpen(id)
  PROVE  entries'[id] = entries[id]
<1> USE DEF RowInvariant
<1>1. /\ DOMAIN entries = TaskId /\ entries[id] \in Entry
      /\ \A n \in TaskId : n # id => \A row : [entries EXCEPT ![n] = row][id] = entries[id]
  BY Typed
<1>2. \A w \in Worker : Busy(w) =>
        /\ worker[w].id \in TaskId
        /\ worker[w].id = id => /\ worker[w].pc \in {"work", "on_success"}
                                /\ subtasks[id] # "none"
  <2>1. \A w \in Worker : worker[w] \in WorkerState
    BY DEF TypeOK
  <2> QED BY <2>1 DEF WorkerKnows, Knows, Busy, WorkerState
<1>3. CASE \E u \in Requester : RequesterNext(u)
  <2>1. PICK u \in Requester : RequesterNext(u)
    BY <1>3
  <2>2. CASE CreateEntry(u)
    BY <2>2, AddOne, NewRow DEF CreateEntry, TypeOK, TaskId
  <2>3. CASE ~CreateEntry(u)
    BY <2>1, <2>3 DEF RequesterNext, CheckRunning, SubmitTask
  <2> QED BY <2>2, <2>3
<1>4. CASE \E w \in Worker : WorkerNext(w)
  <2>1. PICK w \in Worker : WorkerNext(w)
    BY <1>4
  <2>2. CASE MarkProgress(w)
    <3>1. Busy(w) /\ worker[w].id \in TaskId /\ worker[w].id # id
      BY <1>2, <2>2 DEF MarkProgress, Busy
    <3> QED BY <1>1, <2>2, <3>1 DEF MarkProgress
  <2>3. CASE DefineSubtasks(w)
    <3>1. Busy(w) /\ worker[w].id \in TaskId /\ worker[w].id # id
      BY <1>2, <2>3 DEF DefineSubtasks, Busy
    <3> QED BY <1>1, <2>3, <3>1 DEF DefineSubtasks
  <2>4. CASE SaveOutcome(w)
    <3>1. Busy(w) /\ worker[w].id \in TaskId /\ worker[w].id # id
      BY <1>2, <2>4 DEF SaveOutcome, Busy
    <3> QED BY <1>1, <2>4, <3>1 DEF SaveOutcome
  <2>5. CASE ~(MarkProgress(w) \/ DefineSubtasks(w) \/ SaveOutcome(w))
    BY <2>1, <2>5 DEF WorkerNext, Receive, ReadEntry, ReportProgress, ReturnResult, RaiseError,
                      OnSuccess, OnFailure
  <2> QED BY <2>2, <2>3, <2>4, <2>5
<1>5. CASE \E n \in TaskId : SubtasksEnd(n) \/ Revoke(n)
  <2>1. PICK n \in TaskId : SubtasksEnd(n) \/ Revoke(n)
    BY <1>5
  <2>2. subtasks[n] = "all" => n # id
    BY DEF RowsMatch, Matches
  <2> QED BY <1>1, <2>1, <2>2 DEF SubtasksEnd, Revoke
<1>6. CASE \E v \in Watcher : WatcherNext(v)
  <2>1. PICK v \in Watcher : WatcherNext(v)
    BY <1>6
  <2>2. CASE SaveResult(v)
    <3>1. CASE watcher[v].id = id
      <4>1. /\ results[id] = "REVOKED" /\ subtasks[id] = "none"
            /\ entries'[id] = [task_state |-> "REVOKED", output |-> "revoked", subtasks |-> FALSE]
        BY <1>1, <2>2, <3>1, SaveOfRevoked
      <4>2. /\ entries[id].task_state = "REVOKED" /\ entries[id].output = "revoked"
            /\ ~entries[id].subtasks
        BY <4>1 DEF RevokedRows, RowsMatch, Matches
      <4>3. entries'[id] \in Entry /\ entries[id].subtasks \in BOOLEAN
        BY <1>1, <4>1 DEF Entry, TaskState
      <4> QED BY <1>1, <4>1, <4>2, <4>3, SameRow
    <3>2. CASE watcher[v].id # id
      BY <1>1, <2>2, <3>2, SaveOfRevoked
    <3> QED BY <3>1, <3>2
  <2>3. CASE ~SaveResult(v)
    BY <2>1, <2>3 DEF WatcherNext, ReadStatus, ReadResult
  <2> QED BY <2>2, <2>3
<1> QED BY <1>3, <1>4, <1>5, <1>6 DEF Next

-----------------------------------------------------------------------------
(***************************************************************************)
(* What holds however requests race and whatever happens.                  *)
(***************************************************************************)
LEMMA NextRows == ASSUME RowInvariant, [Next]_vars PROVE RowInvariant'
<1>1. CASE Next
  BY <1>1, RequesterRows, WorkerRows, ReceiveRows, SubtasksRows, WatcherRows DEF Next
<1>2. CASE UNCHANGED vars
  BY <1>2 DEF vars, RowInvariant, TypeOK, OneHolder, WorkerKnows, RowsMatch, WatcherKnows,
              RevokedRows, IsUntouched, Knows, Matches, IsOpen, Busy, Submitting, TaskId
<1> QED BY <1>1, <1>2

\* The inductive invariant: who holds a task, and what each holder may rely on.
THEOREM RowsAgree == Spec => []RowInvariant
BY InitRows, NextRows, PTL DEF Spec

\* The variables always have their types; every row has its result.
THEOREM TypeCorrect == Spec => []TypeOK
<1>1. RowInvariant => TypeOK
  BY DEF RowInvariant
<1> QED BY <1>1, RowsAgree, PTL

\* No callback, no subtask and no poll with an old copy of a row changes a row
\* that is already ready.
THEOREM ReadyNeverRewritten == Spec => ReadyIsFinal
<1>1. ASSUME RowInvariant, [Next]_vars
      PROVE  [\A id \in TaskId : entries[id].task_state \in READY_STATES =>
                 entries'[id] = entries[id]]_vars
  BY <1>1, ReadyKept DEF IsOpen
<1> QED BY <1>1, RowsAgree, PTL DEF Spec, ReadyIsFinal

\* Only CreateEntry makes a row.
LEMMA SameTasks ==
  ASSUME Next, ~\E u \in Requester : CreateEntry(u)
  PROVE  TaskId' = TaskId
<1>1. CASE \E u \in Requester : RequesterNext(u)
  BY <1>1 DEF RequesterNext, CheckRunning, SubmitTask, TaskId
<1>2. CASE \E w \in Worker : WorkerNext(w)
  BY <1>2 DEF WorkerNext, Receive, ReadEntry, MarkProgress, ReportProgress, DefineSubtasks,
              ReturnResult, RaiseError, OnSuccess, OnFailure, SaveOutcome, TaskId
<1>3. CASE \E id \in TaskId : SubtasksEnd(id) \/ Revoke(id)
  BY <1>3 DEF SubtasksEnd, Revoke, TaskId
<1>4. CASE \E v \in Watcher : WatcherNext(v)
  BY <1>4 DEF WatcherNext, ReadStatus, ReadResult, SaveResult, TaskId
<1> QED BY <1>1, <1>2, <1>3, <1>4 DEF Next

-----------------------------------------------------------------------------
(***************************************************************************)
(* What needs that no two requests race, and that queueing subtasks does   *)
(* not fail half way.                                                      *)
(***************************************************************************)
LEMMA NextOpenRow ==
  ASSUME ~Racing, RowInvariant, OneOpenRow, Next
  PROVE  OneOpenRow'
<1>1. \A id \in TaskId : IsOpen(id)' => IsOpen(id)
  BY ReadyKept DEF IsOpen
<1>2. requester \in [Requester -> RequesterState]
  BY DEF RowInvariant, TypeOK
<1>3. CASE \E u \in Requester : CreateEntry(u)
  <2>1. PICK u \in Requester : CreateEntry(u)
    BY <1>3
  <2>2. PICK new : new = Len(entries) + 1
    OBVIOUS
  <2>3. TaskId' = TaskId \cup {new}
    BY <2>1, <2>2, AddOne, NewRow DEF CreateEntry, RowInvariant, TypeOK, TaskId
  <2>4. \A id \in TaskId : ~IsOpen(id)
    BY <2>1 DEF OneOpenRow, CreateEntry
  <2>5. \A x \in Requester : requester'[x].pc # "create"
    BY <1>2, <2>1 DEF OneOpenRow, CreateEntry, RequesterState
  <2> QED BY <1>1, <2>3, <2>4, <2>5 DEF OneOpenRow
<1>4. CASE \E u \in Requester : CheckRunning(u)
  <2>1. PICK u \in Requester : CheckRunning(u)
    BY <1>4
  <2>2. UNCHANGED entries /\ \A x \in Requester : requester[x].pc # "create"
    BY <2>1 DEF CheckRunning
  <2>3. \A x \in Requester \ {u} : requester'[x] = requester[x]
    BY <1>2, <2>1 DEF CheckRunning
  <2>4. CASE TaskIsRunning
    <3>1. requester'[u].pc = "idle"
      BY <1>2, <2>1, <2>4 DEF CheckRunning, RequesterState
    <3> QED BY <2>2, <2>3, <3>1 DEF OneOpenRow, IsOpen, TaskId
  <2>5. CASE ~TaskIsRunning
    BY <2>2, <2>3, <2>5 DEF OneOpenRow, IsOpen, TaskId, TaskIsRunning
  <2> QED BY <2>4, <2>5
<1>5. CASE ~\E u \in Requester : CreateEntry(u) \/ CheckRunning(u)
  <2>1. TaskId' = TaskId
    BY <1>5, SameTasks
  <2>2. \A x \in Requester : requester'[x].pc = "create" => requester[x].pc = "create"
    <3>1. CASE \E u \in Requester : SubmitTask(u)
      <4>1. PICK u \in Requester : SubmitTask(u)
        BY <3>1
      <4>2. \A x \in Requester \ {u} : requester'[x] = requester[x]
        BY <1>2, <4>1 DEF SubmitTask
      <4>3. requester'[u].pc = "idle"
        <5>1. CASE requester' = [requester EXCEPT ![u].pc = "idle", ![u].answer = "submitted"]
          BY <1>2, <5>1 DEF RequesterState
        <5>2. CASE requester' = [requester EXCEPT ![u].pc = "idle", ![u].answer = "error"]
          BY <1>2, <5>2 DEF RequesterState
        <5> QED BY <4>1, <5>1, <5>2 DEF SubmitTask
      <4> QED BY <4>2, <4>3
    <3>2. CASE ~\E u \in Requester : RequesterNext(u)
      BY <3>2 DEF Next, WorkerNext, Receive, ReadEntry, MarkProgress, ReportProgress,
                  DefineSubtasks, ReturnResult, RaiseError, OnSuccess, OnFailure, SaveOutcome,
                  SubtasksEnd, Revoke, WatcherNext, ReadStatus, ReadResult, SaveResult,
                  runVars, watchVars
    <3> QED BY <1>5, <3>1, <3>2 DEF RequesterNext
  <2> QED BY <1>1, <2>1, <2>2 DEF OneOpenRow
<1> QED BY <1>3, <1>4, <1>5

LEMMA NextNoStray ==
  ASSUME "broker" \notin Events \/ ~UsesSubtasks, TypeOK, NoStray, Next
  PROVE  NoStray'
<1>1. DOMAIN subtasks = TaskId
  BY Typed
<1>2. CASE \E u \in Requester : CreateEntry(u)
  <2>1. PICK u \in Requester : CreateEntry(u)
    BY <1>2
  <2>2. PICK new : new = Len(subtasks) + 1
    OBVIOUS
  <2>3. /\ subtasks'[new] = "none" /\ TaskId' = TaskId \cup {new}
        /\ \A id \in TaskId : subtasks'[id] = subtasks[id]
    BY <2>1, <2>2, AddOne, NewRow DEF CreateEntry, TypeOK, TaskId, SubtaskPhase
  <2> QED BY <2>3 DEF NoStray
<1>3. CASE ~\E u \in Requester : CreateEntry(u)
  <2>1. TaskId' = TaskId
    BY <1>3, SameTasks
  <2>2. \/ UNCHANGED subtasks
        \/ \E id : subtasks' = [subtasks EXCEPT ![id] = "all"]
        \/ \E id : subtasks' = [subtasks EXCEPT ![id] = "over"]
    <3>1. CASE \E u \in Requester : RequesterNext(u)
      BY <1>3, <3>1 DEF RequesterNext, CheckRunning, SubmitTask
    <3>2. CASE \E w \in Worker : WorkerNext(w)
      BY <3>2 DEF WorkerNext, Receive, ReadEntry, MarkProgress, ReportProgress, DefineSubtasks,
                  ReturnResult, RaiseError, OnSuccess, OnFailure, SaveOutcome, Event
    <3>3. CASE \E id \in TaskId : SubtasksEnd(id) \/ Revoke(id)
      BY <3>3 DEF SubtasksEnd, Revoke
    <3>4. CASE \E v \in Watcher : WatcherNext(v)
      BY <3>4 DEF WatcherNext, ReadStatus, ReadResult, SaveResult, watchVars
    <3> QED BY <3>1, <3>2, <3>3, <3>4 DEF Next
  <2> QED BY <1>1, <2>1, <2>2 DEF NoStray
<1> QED BY <1>2, <1>3

\* A task that works has an open row, and only one row is open.
LEMMA OpenMeansOne ==
  ASSUME RowInvariant, OneOpenRow, NoStray
  PROVE  OneAtATime
<1>1. ASSUME NEW id \in TaskId, IsRunning(id) PROVE IsOpen(id)
  <2>1. CASE subtasks[id] \in {"all", "some"}
    BY <2>1 DEF RowInvariant, RowsMatch, Matches, NoStray
  <2>2. CASE subtasks[id] = "none" /\ \E w \in Worker : worker[w].pc = "work" /\ worker[w].id = id
    BY <2>2 DEF RowInvariant, WorkerKnows, Knows, Busy
  <2> QED BY <1>1, <2>1, <2>2 DEF IsRunning
<1> QED BY <1>1 DEF OneAtATime, OneOpenRow

\* _reserve_task keeps its promise: two tasks of a kind never work at the same
\* time, as long as no two requests race and queueing does not fail half way.
THEOREM TasksRunOneAtATime ==
  ASSUME ~Racing, "broker" \notin Events \/ ~UsesSubtasks
  PROVE  Spec => []OneAtATime
<1>1. Init => OneOpenRow /\ NoStray
  BY EmptySeq DEF Init, OneOpenRow, NoStray, TaskId, IdleRequester
<1>2. RowInvariant /\ OneOpenRow /\ NoStray /\ [Next]_vars => (OneOpenRow /\ NoStray)'
  <2>1. ASSUME RowInvariant, OneOpenRow, NoStray, Next PROVE (OneOpenRow /\ NoStray)'
    BY <2>1, NextOpenRow, NextNoStray DEF RowInvariant
  <2>2. ASSUME OneOpenRow, NoStray, UNCHANGED vars PROVE (OneOpenRow /\ NoStray)'
    BY <2>2 DEF vars, OneOpenRow, NoStray, IsOpen, TaskId
  <2> QED BY <2>1, <2>2
<1>3. RowInvariant /\ OneOpenRow /\ NoStray => OneAtATime
  BY OpenMeansOne
<1> QED BY <1>1, <1>2, <1>3, RowsAgree, PTL DEF Spec

-----------------------------------------------------------------------------
(***************************************************************************)
(* What a poll shows of a row with subtasks.                               *)
(***************************************************************************)
\* The rows, as a function.
LEMMA RowsFunction ==
  ASSUME RowInvariant
  PROVE  entries \in [TaskId -> Entry] /\ DOMAIN subtasks = TaskId
<1>1. TypeOK
  BY DEF RowInvariant
<1>2. entries \in Seq(Entry) /\ TaskId = 1 .. Len(entries) /\ DOMAIN subtasks = TaskId
  BY <1>1, Typed DEF TypeOK
<1>3. entries \in [1 .. Len(entries) -> Entry]
  BY <1>2, LenProperties
<1> QED BY <1>2, <1>3

\* A row that a step writes is ready, or in PROGRESS, or new and without subtasks.
LEMMA RowWritten ==
  ASSUME RowInvariant, Next, NEW id \in TaskId'
  PROVE  \/ id \in TaskId /\ entries'[id] = entries[id]
         \/ entries'[id].task_state \in READY_STATES \cup {"PROGRESS"}
         \/ ~entries'[id].subtasks
<1>1. entries \in [TaskId -> Entry]
  BY RowsFunction
<1>2. CASE \E u \in Requester : CreateEntry(u)
  <2>1. PICK u \in Requester : CreateEntry(u)
    BY <1>2
  <2>2. /\ \A n \in TaskId : entries'[n] = entries[n]
        /\ TaskId' = TaskId \cup {Len(entries) + 1}
        /\ entries'[Len(entries) + 1] = NewEntry
    BY <2>1, AddOne, NewRow DEF CreateEntry, RowInvariant, TypeOK, TaskId
  <2>3. ~NewEntry.subtasks
    BY DEF NewEntry
  <2> QED BY <2>2, <2>3
<1>3. CASE ~\E u \in Requester : CreateEntry(u)
  <2>1. TaskId' = TaskId
    BY <1>3, SameTasks
  <2>2. CASE \E u \in Requester : RequesterNext(u)
    BY <1>3, <2>1, <2>2 DEF RequesterNext, CheckRunning, SubmitTask
  <2>3. CASE \E w \in Worker : WorkerNext(w)
    <3>1. PICK w \in Worker : WorkerNext(w)
      BY <2>3
    <3>2. worker[w] \in WorkerState
      BY DEF RowInvariant, TypeOK
    <3>3. worker[w].row \in Entry
      BY <3>2 DEF WorkerState
    <3>4. CASE MarkProgress(w)
      BY <1>1, <2>1, <3>3, <3>4 DEF MarkProgress, Entry
    <3>5. CASE DefineSubtasks(w)
      BY <1>1, <2>1, <3>5 DEF DefineSubtasks, Entry
    <3>6. CASE SaveOutcome(w)
      <4>1. PICK state \in READY_STATES, output \in {"result", "exception"} :
              entries' = [entries EXCEPT ![worker[w].id] =
                            [worker[w].row EXCEPT !.task_state = state, !.output = output]]
        BY <3>6 DEF SaveOutcome, READY_STATES
      <4>2. [worker[w].row EXCEPT !.task_state = state, !.output = output].task_state = state
        BY <3>3 DEF Entry
      <4> QED BY <1>1, <2>1, <4>1, <4>2
    <3>7. CASE ~(MarkProgress(w) \/ DefineSubtasks(w) \/ SaveOutcome(w))
      BY <2>1, <3>1, <3>7 DEF WorkerNext, Receive, ReadEntry, ReportProgress, ReturnResult,
                              RaiseError, OnSuccess, OnFailure
    <3> QED BY <3>4, <3>5, <3>6, <3>7
  <2>4. CASE \E n \in TaskId : SubtasksEnd(n) \/ Revoke(n)
    <3>1. PICK n \in TaskId : SubtasksEnd(n) \/ Revoke(n)
      BY <2>4
    <3>2. entries' = entries \/ entries' = [entries EXCEPT ![n].task_state = "SUCCESS"]
      BY <3>1 DEF SubtasksEnd, Revoke
    <3> QED BY <1>1, <2>1, <3>2 DEF Entry, READY_STATES
  <2>5. CASE \E v \in Watcher : WatcherNext(v)
    <3>1. PICK v \in Watcher : WatcherNext(v)
      BY <2>5
    <3>2. CASE SaveResult(v)
      BY <1>1, <2>1, <3>2, SaveOfRevoked DEF READY_STATES
    <3>3. CASE ~SaveResult(v)
      BY <2>1, <3>1, <3>3 DEF WatcherNext, ReadStatus, ReadResult
    <3> QED BY <3>2, <3>3
  <2> QED BY <2>2, <2>3, <2>4, <2>5 DEF Next
<1> QED BY <1>2, <1>3

LEMMA NextInProgress ==
  ASSUME RowInvariant, SubtasksInProgress, [Next]_vars
  PROVE  SubtasksInProgress'
<1>1. CASE Next
  <2>1. \A id \in TaskId : IsOpen(id) /\ entries[id].subtasks => entries[id].task_state = "PROGRESS"
    BY DEF SubtasksInProgress
  <2>2. ASSUME NEW id \in TaskId', IsOpen(id)', entries'[id].subtasks
        PROVE  entries'[id].task_state = "PROGRESS"
    BY <1>1, <2>1, <2>2, RowWritten DEF IsOpen
  <2>3. ASSUME NEW v \in Watcher, watcher'[v].pc = "result", watcher'[v].row.subtasks
        PROVE  watcher'[v].row.task_state = "PROGRESS"
    <3>1. watcher \in [Watcher -> WatcherState]
      BY DEF RowInvariant, TypeOK
    <3>2. CASE watcher'[v] = watcher[v]
      BY <2>3, <3>2 DEF SubtasksInProgress
    <3>3. CASE ReadStatus(v)
      <4>1. PICK id \in TaskId : LET row == entries[id]
              IN watcher' = IF row.task_state \in READY_STATES
                            THEN [watcher EXCEPT ![v] = [pc |-> "idle", id |-> id, row |-> row,
                                                         shown |-> row.task_state]]
                            ELSE [watcher EXCEPT ![v] = [pc |-> "result", id |-> id, row |-> row,
                                                         shown |-> "none"]]
        BY <3>3 DEF ReadStatus
      <4>2. IsOpen(id) /\ watcher'[v].row = entries[id]
        BY <2>3, <3>1, <4>1 DEF IsOpen
      <4> QED BY <2>1, <2>3, <4>2
    <3>4. CASE ReadResult(v)
      BY <2>3, <3>1, <3>4 DEF ReadResult, WatcherState
    <3>5. CASE SaveResult(v)
      BY <2>3, <3>1, <3>5 DEF SaveResult, WatcherState
    <3>6. \/ watcher' = watcher
          \/ \E x \in Watcher : WatcherNext(x)
      BY <1>1 DEF Next, RequesterNext, CheckRunning, CreateEntry, SubmitTask, WorkerNext, Receive,
                  ReadEntry, MarkProgress, ReportProgress, DefineSubtasks, ReturnResult, RaiseError,
                  OnSuccess, OnFailure, SaveOutcome, SubtasksEnd, Revoke, runVars
    <3>7. ASSUME NEW x \in Watcher \ {v}, WatcherNext(x) PROVE watcher'[v] = watcher[v]
      BY <3>1, <3>7 DEF WatcherNext, ReadStatus, ReadResult, SaveResult
    <3> QED BY <3>2, <3>3, <3>4, <3>5, <3>6, <3>7 DEF WatcherNext
  <2> QED BY <2>2, <2>3 DEF SubtasksInProgress
<1>2. CASE UNCHANGED vars
  BY <1>2 DEF vars, SubtasksInProgress, IsOpen, TaskId
<1> QED BY <1>1, <1>2

\* A poll that has read a row with subtasks never answers with the result of
\* their parent: the row it read says PROGRESS, and that is what it shows.
THEOREM SubtasksAreShown == Spec => SubtasksNotHidden
<1>1. Init => SubtasksInProgress
  BY EmptySeq DEF Init, SubtasksInProgress, TaskId, IdleWatcher
<1>2. ASSUME RowInvariant, SubtasksInProgress, [Next]_vars
      PROVE  [\A v \in Watcher :
                ReadResult(v) /\ watcher[v].row.subtasks /\ watcher'[v].shown = "SUCCESS" =>
                  ~IsRunning(watcher[v].id)]_vars
  <2>1. SUFFICES ASSUME NEW v \in Watcher, ReadResult(v), watcher[v].row.subtasks,
                        watcher'[v].shown = "SUCCESS"
                 PROVE  FALSE
    OBVIOUS
  <2>2. watcher \in [Watcher -> WatcherState] /\ watcher[v] \in WatcherState
    BY <1>2 DEF RowInvariant, TypeOK
  <2>3. TrustsRow(watcher[v].row)
    BY <1>2, <2>1 DEF SubtasksInProgress, ReadResult, TrustsRow
  <2>4. watcher'[v].shown = "PROGRESS"
    BY <2>1, <2>2, <2>3 DEF ReadResult, TrustsRow, WatcherState
  <2> QED BY <2>1, <2>4
<1> QED BY <1>1, <1>2, NextInProgress, RowsAgree, PTL DEF Spec, SubtasksNotHidden

-----------------------------------------------------------------------------
(***************************************************************************)
(* What needs that publishing a message does not fail: a row that is open  *)
(* has somebody who will close it.                                         *)
(***************************************************************************)
LEMMA NextOverIsReady ==
  ASSUME RowInvariant, NoStray, OverIsReady, Next
  PROVE  OverIsReady'
<1>1. DOMAIN subtasks = TaskId /\ entries \in [TaskId -> Entry]
  BY RowsFunction
<1>2. CASE \E u \in Requester : CreateEntry(u)
  <2>1. PICK u \in Requester : CreateEntry(u)
    BY <1>2
  <2>2. PICK new : new = Len(subtasks) + 1
    OBVIOUS
  <2>3. /\ subtasks'[new] = "none" /\ TaskId' = TaskId \cup {new}
        /\ \A id \in TaskId : subtasks'[id] = subtasks[id]
    BY <2>1, <2>2, AddOne, NewRow DEF CreateEntry, RowInvariant, TypeOK, TaskId, SubtaskPhase
  <2> QED BY <2>3, ReadyKept DEF OverIsReady, IsOpen
<1>3. CASE ~\E u \in Requester : CreateEntry(u)
  <2>1. TaskId' = TaskId
    BY <1>3, SameTasks
  <2>2. ASSUME NEW id \in TaskId, subtasks'[id] = "over", subtasks[id] # "over"
        PROVE  ~IsOpen(id)'
    <3>1. \/ \E n \in TaskId : SubtasksEnd(n)
          \/ UNCHANGED subtasks
          \/ \E n, phase : subtasks' = [subtasks EXCEPT ![n] = phase] /\ phase \in {"all", "some"}
      <4>1. CASE \E u \in Requester : RequesterNext(u)
        BY <1>3, <4>1 DEF RequesterNext, CheckRunning, SubmitTask
      <4>2. CASE \E w \in Worker : WorkerNext(w)
        BY <4>2 DEF WorkerNext, Receive, ReadEntry, MarkProgress, ReportProgress, DefineSubtasks,
                    ReturnResult, RaiseError, OnSuccess, OnFailure, SaveOutcome
      <4>3. CASE \E n \in TaskId : SubtasksEnd(n) \/ Revoke(n)
        BY <4>3 DEF Revoke
      <4>4. CASE \E v \in Watcher : WatcherNext(v)
        BY <4>4 DEF WatcherNext, ReadStatus, ReadResult, SaveResult, watchVars
      <4> QED BY <4>1, <4>2, <4>3, <4>4 DEF Next
    <3>2. PICK n \in TaskId : SubtasksEnd(n)
      BY <1>1, <2>2, <3>1
    <3>3. n = id /\ subtasks[id] = "all"
      BY <1>1, <2>2, <3>2 DEF SubtasksEnd, NoStray
    <3>4. entries'[id].task_state = "SUCCESS"
      BY <1>1, <3>2, <3>3 DEF SubtasksEnd, Entry
    <3> QED BY <3>4 DEF IsOpen, READY_STATES
  <2> QED BY <2>1, <2>2, ReadyKept DEF OverIsReady, IsOpen
<1> QED BY <1>2, <1>3

LEMMA NextOpenIsAlive ==
  ASSUME "broker" \notin Events, RowInvariant, NoStray, OverIsReady, OpenIsAlive, Next
  PROVE  OpenIsAlive'
<1>1. /\ entries \in [TaskId -> Entry]
      /\ DOMAIN subtasks = TaskId /\ DOMAIN results = TaskId /\ broker \subseteq TaskId
      /\ requester \in [Requester -> RequesterState] /\ worker \in [Worker -> WorkerState]
  BY RowsFunction, Typed DEF RowInvariant, TypeOK
<1>2. ASSUME NEW id \in TaskId, IsOpen(id)'
      PROVE  IsOpen(id) /\ (IsAlive(id) \/ results[id] = "REVOKED")
  BY <1>2, ReadyKept DEF OpenIsAlive, IsOpen
<1>3. CASE \E u \in Requester : RequesterNext(u)
  <2>1. PICK u \in Requester : RequesterNext(u)
    BY <1>3
  <2>2. /\ \A x \in Requester \ {u} : requester'[x] = requester[x]
        /\ UNCHANGED worker
    BY <1>1, <2>1 DEF RequesterNext, CheckRunning, CreateEntry, SubmitTask
  <2>3. CASE CheckRunning(u)
    <3>1. UNCHANGED <<entries, subtasks, results, broker>> /\ requester[u].pc = "idle"
      BY <2>3 DEF CheckRunning
    <3> QED BY <1>2, <2>2, <3>1 DEF OpenIsAlive, IsAlive, TaskId
  <2>4. CASE CreateEntry(u)
    <3>1. PICK new : new = Len(entries) + 1
      OBVIOUS
    <3>2. /\ TaskId' = TaskId \cup {new}
          /\ \A id \in TaskId : subtasks'[id] = subtasks[id] /\ results'[id] = results[id]
      <4>1. /\ TaskId' = TaskId \cup {new}
            /\ \A id \in TaskId : id \in DOMAIN subtasks /\ id \in DOMAIN results
        BY <1>1, <2>4, <3>1, AddOne, NewRow DEF CreateEntry, RowInvariant, TypeOK, TaskId
      <4>2. /\ "none" \in SubtaskPhase /\ "PENDING" \in TaskState
            /\ subtasks \in Seq(SubtaskPhase) /\ results \in Seq(TaskState)
        BY DEF SubtaskPhase, TaskState, RowInvariant, TypeOK
      <4>3. /\ \A id \in DOMAIN subtasks : Append(subtasks, "none")[id] = subtasks[id]
            /\ \A id \in DOMAIN results : Append(results, "PENDING")[id] = results[id]
        BY <4>2, AddOne
      <4> QED BY <2>4, <4>1, <4>3 DEF CreateEntry
    <3>3. requester'[u].pc = "submit" /\ requester'[u].id = new
      BY <1>1, <2>4, <3>1 DEF CreateEntry, RequesterState
    <3>4. UNCHANGED broker /\ requester[u].pc # "submit"
      BY <2>4 DEF CreateEntry
    <3>5. ASSUME NEW id \in TaskId, IsOpen(id)' PROVE IsAlive(id)' \/ results'[id] = "REVOKED"
      BY <1>2, <2>2, <3>2, <3>4, <3>5 DEF IsAlive
    <3>6. IsAlive(new)'
      BY <3>3 DEF IsAlive
    <3> QED BY <3>2, <3>5, <3>6 DEF OpenIsAlive
  <2>5. CASE SubmitTask(u)
    <3>1. /\ broker' = broker \cup {requester[u].id}
          /\ UNCHANGED <<entries, subtasks, results>>
      BY <2>5 DEF SubmitTask, Event
    <3> QED BY <1>2, <2>2, <3>1 DEF OpenIsAlive, IsAlive, TaskId
  <2> QED BY <2>1, <2>3, <2>4, <2>5 DEF RequesterNext
<1>4. CASE \E w \in Worker : WorkerNext(w)
  <2>1. PICK w \in Worker : WorkerNext(w)
    BY <1>4
  <2>2. /\ TaskId' = TaskId /\ UNCHANGED requester
        /\ \A x \in Worker \ {w} : worker'[x] = worker[x]
    BY <1>1, <2>1 DEF WorkerNext, Receive, ReadEntry, MarkProgress, ReportProgress,
       DefineSubtasks, ReturnResult, RaiseError, OnSuccess, OnFailure, SaveOutcome, TaskId,
       WorkerGoto, runVars
  <2>3. SUFFICES ASSUME NEW id \in TaskId, IsOpen(id)'
                 PROVE  IsAlive(id)' \/ results'[id] = "REVOKED"
    BY <2>2 DEF OpenIsAlive
  <2>4. IsOpen(id) /\ (IsAlive(id) \/ results[id] = "REVOKED")
    BY <1>2, <2>3
  <2>5. CASE Receive(w)
    <3>1. PICK n \in broker :
            /\ broker' = broker \ {n}
            /\ IF n \in revoked
               THEN results' = [results EXCEPT ![n] = "REVOKED"] /\ UNCHANGED worker
               ELSE worker' = [worker EXCEPT ![w].pc = "read", ![w].id = n] /\ UNCHANGED results
      BY <2>5 DEF Receive
    <3>2. worker[w].pc = "idle" /\ UNCHANGED subtasks
      BY <2>5 DEF Receive
    <3>3. CASE n = id
      BY <1>1, <3>1, <3>3 DEF IsAlive, WorkerState
    <3>4. CASE n # id
      BY <1>1, <2>2, <2>4, <3>1, <3>2, <3>4 DEF IsAlive
    <3> QED BY <3>3, <3>4
  <2>6. CASE ~Receive(w)
    <3>1. Busy(w) /\ UNCHANGED broker
      BY <2>1, <2>6 DEF WorkerNext, ReadEntry, MarkProgress, ReportProgress, DefineSubtasks,
         ReturnResult, RaiseError, OnSuccess, OnFailure, SaveOutcome, Busy, runVars
    <3>2. Knows(w)
      BY <3>1 DEF RowInvariant, WorkerKnows
    <3>3. CASE worker[w].id # id
      <4>1. subtasks'[id] = subtasks[id] /\ results'[id] = results[id]
        BY <1>1, <2>1, <2>6, <3>3 DEF WorkerNext, ReadEntry, MarkProgress, ReportProgress,
           DefineSubtasks, ReturnResult, RaiseError, OnSuccess, OnFailure, SaveOutcome
      <4> QED BY <2>2, <2>4, <3>1, <3>3, <4>1 DEF IsAlive
    <3>4. CASE worker[w].id = id
      <4>1. CASE OnSuccess(w) /\ ~DoneByItself(Working(w))
        <5>1. entries[id].subtasks
          BY <1>1, <3>4, <4>1 DEF DoneByItself, Working
        <5>2. subtasks[id] \in SubtaskPhase /\ subtasks[id] # "none"
          BY <5>1, Typed DEF RowInvariant, RowsMatch, Matches
        <5>3. subtasks[id] = "all"
          BY <2>4, <5>2 DEF SubtaskPhase, NoStray, OverIsReady
        <5> QED BY <4>1, <5>3 DEF OnSuccess, IsAlive
      <4>2. CASE SaveOutcome(w)
        <5>1. PICK state \in READY_STATES, output \in {"result", "exception"} :
                entries' = [entries EXCEPT ![id] =
                              [worker[w].row EXCEPT !.task_state = state, !.output = output]]
          BY <3>4, <4>2 DEF SaveOutcome, READY_STATES
        <5>2. worker[w].row \in Entry
          BY <1>1 DEF WorkerState
        <5>3. [worker[w].row EXCEPT !.task_state = state, !.output = output].task_state = state
          BY <5>2 DEF Entry
        <5>4. ~IsOpen(id)'
          BY <1>1, <5>1, <5>3 DEF IsOpen
        <5> QED BY <2>3, <5>4
      <4>3. CASE ~(OnSuccess(w) /\ ~DoneByItself(Working(w))) /\ ~SaveOutcome(w)
        <5>1. worker'[w].id = id /\ worker'[w].pc # "idle"
          <6>1. CASE UNCHANGED worker
            BY <3>1, <3>4, <6>1 DEF Busy
          <6>2. CASE \E pc \in {"start", "work", "on_failure", "on_success", "succeed", "fail"} :
                       \/ worker' = [worker EXCEPT ![w].pc = pc]
                       \/ worker' = [worker EXCEPT ![w].pc = pc, ![w].row = Working(w)]
            <7>1. PICK pc \in {"start", "work", "on_failure", "on_success", "succeed", "fail"} :
                       \/ worker' = [worker EXCEPT ![w].pc = pc]
                       \/ worker' = [worker EXCEPT ![w].pc = pc, ![w].row = Working(w)]
              BY <6>2
            <7>2. worker'[w].pc = pc /\ worker'[w].id = worker[w].id
              BY <1>1, <7>1 DEF WorkerState
            <7> QED BY <3>4, <7>2
          <6> QED BY <2>1, <2>6, <4>3, <6>1, <6>2 DEF WorkerNext, ReadEntry, MarkProgress,
             ReportProgress, DefineSubtasks, ReturnResult, RaiseError, OnSuccess, OnFailure,
             WorkerGoto
        <5> QED BY <5>1 DEF IsAlive
      <4> QED BY <4>1, <4>2, <4>3
    <3> QED BY <3>3, <3>4
  <2> QED BY <2>5, <2>6
<1>5. CASE \E n \in TaskId : SubtasksEnd(n) \/ Revoke(n)
  <2>1. PICK n \in TaskId : SubtasksEnd(n) \/ Revoke(n)
    BY <1>5
  <2>2. UNCHANGED <<results, broker, worker, requester>>
    BY <2>1 DEF SubtasksEnd, Revoke, runVars
  <2>3. TaskId' = TaskId
    BY <2>1 DEF SubtasksEnd, Revoke, TaskId
  <2>4. CASE SubtasksEnd(n)
    <3>1. subtasks[n] = "all" /\ entries' = [entries EXCEPT ![n].task_state = "SUCCESS"]
      BY <2>4 DEF SubtasksEnd, NoStray
    <3>2. ~IsOpen(n)'
      BY <1>1, <3>1 DEF IsOpen, READY_STATES, Entry
    <3>3. \A id \in TaskId \ {n} : subtasks'[id] = subtasks[id]
      BY <1>1, <2>4 DEF SubtasksEnd
    <3> QED BY <1>2, <2>2, <2>3, <3>2, <3>3 DEF OpenIsAlive, IsAlive
  <2>5. CASE Revoke(n)
    <3>1. UNCHANGED subtasks
      BY <2>5 DEF Revoke
    <3> QED BY <1>2, <2>2, <2>3, <3>1 DEF OpenIsAlive, IsAlive
  <2> QED BY <2>1, <2>4, <2>5
<1>6. CASE \E v \in Watcher : WatcherNext(v)
  <2>1. UNCHANGED watchVars
    BY <1>6 DEF WatcherNext, ReadStatus, ReadResult, SaveResult
  <2>2. TaskId' = TaskId
    BY <1>6 DEF WatcherNext, ReadStatus, ReadResult, SaveResult, TaskId
  <2> QED BY <1>2, <2>1, <2>2 DEF watchVars, OpenIsAlive, IsAlive
<1> QED BY <1>3, <1>4, <1>5, <1>6 DEF Next

\* "AlreadyRunningError is raised if the task is already running": a request is
\* refused only when a task of its kind is alive or was revoked, as long as
\* publishing a message does not fail; requests may race.
THEOREM RefusalsAreRight ==
  ASSUME "broker" \notin Events
  PROVE  Spec => RefusedOnlyWhenAlive
<1>1. Init => NoStray /\ OverIsReady /\ OpenIsAlive
  BY EmptySeq DEF Init, NoStray, OverIsReady, OpenIsAlive, TaskId
<1>2. RowInvariant /\ NoStray /\ OverIsReady /\ OpenIsAlive /\ [Next]_vars =>
        (NoStray /\ OverIsReady /\ OpenIsAlive)'
  <2>1. ASSUME RowInvariant, NoStray, OverIsReady, OpenIsAlive, Next
        PROVE  (NoStray /\ OverIsReady /\ OpenIsAlive)'
    BY <2>1, NextNoStray, NextOverIsReady, NextOpenIsAlive DEF RowInvariant
  <2>2. ASSUME NoStray, OverIsReady, OpenIsAlive, UNCHANGED vars
        PROVE  (NoStray /\ OverIsReady /\ OpenIsAlive)'
    BY <2>2 DEF vars, NoStray, OverIsReady, OpenIsAlive, IsAlive, IsOpen, TaskId
  <2> QED BY <2>1, <2>2
<1>3. ASSUME RowInvariant, OpenIsAlive, [Next]_vars
      PROVE  [\A u \in Requester :
                CheckRunning(u) /\ requester'[u].answer = "already running" =>
                  \E id \in TaskId : IsAlive(id) \/ results[id] = "REVOKED"]_vars
  <2>1. SUFFICES ASSUME NEW u \in Requester, CheckRunning(u),
                        requester'[u].answer = "already running"
                 PROVE  \E id \in TaskId : IsAlive(id) \/ results[id] = "REVOKED"
    OBVIOUS
  <2>2. requester \in [Requester -> RequesterState] /\ requester[u] \in RequesterState
    BY <1>3 DEF RowInvariant, TypeOK
  <2>3. TaskIsRunning
    BY <2>1, <2>2 DEF CheckRunning, RequesterState
  <2> QED BY <1>3, <2>3 DEF TaskIsRunning, OpenIsAlive, IsOpen
<1> QED BY <1>1, <1>2, <1>3, RowsAgree, PTL DEF Spec, RefusedOnlyWhenAlive
=============================================================================
