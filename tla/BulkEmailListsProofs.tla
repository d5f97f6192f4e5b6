------------------------ MODULE BulkEmailListsProofs ------------------------
(***************************************************************************)
(* Proofs about the recipients of BulkEmail and its subtasks: nobody is    *)
(* sent the email twice, when every process is at rest the job is over,    *)
(* and what a finished job has counted is everybody, once.  The            *)
(* assumptions of BulkEmailProofs on the deliveries (OneAtATime) are made  *)
(* here too.                                                               *)
(***************************************************************************)
EXTENDS BulkEmailProofs

(***************************************************************************)
(* Who is still to be emailed.  As long as every result is written, a list *)
(* that some worker may yet work through holds nobody who has been sent    *)
(* the email, and the lists of different subtasks have nobody in common.   *)
(***************************************************************************)
AllWritten == NoSecondResult /\ ~Happened({"crash", "database"})

Unsent(some) == \A r \in some : sent[r] = 0

\* Past the check and the lock, with a result to write.
Working(j) == j.pc \notin Fresh /\ (Early(j) \/ Final(j))

Free(id) == \A w \in Worker : Busy(w) /\ worker[w].msg.id = id => ~Working(worker[w])

\* Retrying what is left of its list.
Retrying(j) == j.st.state = "RETRY" /\ j.pc \in {"update", "release", "retry"}

JobListOK(j) ==
  /\ j.to \subseteq j.msg.to
  /\ j.pc # "unwind"
  /\ j.pc \in Fresh /\ Open(j.msg) => Unsent(j.msg.to)
  /\ j.pc = "send" \/ Retrying(j) => Unsent(j.to)

ListsUnsent ==
  /\ \A m \in queue : Open(m) /\ Free(m.id) => Unsent(m.to)
  /\ \A w \in Worker : Busy(w) => JobListOK(worker[w])

Held == queue \cup {worker[w].msg : w \in {v \in Worker : Busy(v)}}

ListsApart == \A m, n \in Held : m.id # n.id => m.to \cap n.to = {}

ChunksOK(run) ==
  /\ run.pc = "queue" =>
       /\ \A k \in DOMAIN run.chunks :
            /\ Unsent(Members(run.chunks[k]))
            /\ \A m \in Held : m.to \cap Members(run.chunks[k]) = {}
       /\ \A k, l \in DOMAIN run.chunks :
            k # l => Members(run.chunks[k]) \cap Members(run.chunks[l]) = {}
  /\ run.pc \notin {"queue", "finish", "done"} => Held = {} /\ Unsent(Recipient)

ListsInvariant == ListsUnsent /\ ListsApart /\ ChunksOK(parent[1]) /\ SentAtMostOnce

-----------------------------------------------------------------------------
LEMMA BusyJobs ==
  ASSUME JobInvariant
  PROVE  /\ DOMAIN worker = Worker /\ queue \subseteq Message
         /\ \A w \in Worker : Busy(w) <=> HasJob(w)
         /\ sent \in [Recipient -> Nat]
         /\ \A m \in Held : m \in Message
<1>1. WorkersTyped /\ queue \subseteq Message /\ sent \in [Recipient -> Nat]
  BY TypeParts DEF JobInvariant
<1>2. \A w \in Worker : Busy(w) <=> HasJob(w)
  BY <1>1, JobFields DEF WorkersTyped, Busy, Idle, HasJob
<1>3. \A w \in Worker : Busy(w) => worker[w].msg \in Message
  BY <1>2, JobFields DEF HasJob
<1> QED BY <1>1, <1>2, <1>3 DEF WorkersTyped, Held

LEMMA MembersTyped ==
  ASSUME JobInvariant
  PROVE  /\ 1 \in Parent /\ parent[1].chunks \in Seq(Seq(Recipient))
         /\ \A k \in DOMAIN parent[1].chunks : Members(parent[1].chunks[k]) \in SUBSET Recipient
<1>1. 1 \in Parent
  BY ConstantsAssumption DEF Parent
<1>2. parent[1].chunks \in Seq(Seq(Recipient))
  BY <1>1, TypeParts DEF JobInvariant, ParentsTyped, RunTyped, ParentState
<1>3. ASSUME NEW k \in DOMAIN parent[1].chunks
      PROVE  Members(parent[1].chunks[k]) \subseteq Recipient
  <2>1. parent[1].chunks[k] \in Seq(Recipient)
    BY <1>2, <1>3
  <2> QED BY <2>1 DEF Members
<1> QED BY <1>1, <1>2, <1>3

\* Nothing is lost in a step after which nothing has been lost.
LEMMA StillAllWritten ==
  ASSUME JobInvariant, [Next]_vars, AllWritten'
  PROVE  /\ AllWritten /\ NoSecondResult /\ NoSecondResult'
         /\ \A e \in {"crash", "database", "broker", "close"} : ~Event(e)
<1>1. events \in [Events -> Nat] /\ EventsGoOn
  BY EventsOnlyGrow
<1>2. AllWritten /\ NoSecondResult /\ NoSecondResult'
  BY <1>1, HappenedStays, NothingSecond DEF AllWritten
<1>3. ASSUME NEW e \in {"crash", "database", "broker", "close"}, Event(e) PROVE FALSE
  <2>1. e \in Events /\ events'[e] > 0
    BY <1>1, <1>3, EventCounted
  <2> QED BY <2>1 DEF AllWritten, NoSecondResult, Happened
<1> QED BY <1>2, <1>3

\* A step of w on its own list: nobody is emailed, and it does not let go of a
\* subtask it has emailed somebody of.
LEMMA QuietLists ==
  ASSUME ListsInvariant, NEW w \in Worker, OnlyMoves(w), Busy(w),
         UNCHANGED <<task, parent, queue, sent>>,
         \/ worker'[w] = Idle
         \/ worker'[w].msg = worker[w].msg /\ worker'[w].pc # "idle" /\ JobListOK(worker[w])',
         Working(worker[w]) => worker'[w] # Idle /\ Working(worker'[w])
  PROVE  ListsInvariant'
<1>1. \A v \in Worker : Busy(v)' => Busy(v) /\ worker'[v].msg = worker[v].msg
  BY DEF OnlyMoves, Busy, Idle
<1>2. Held' \subseteq Held
  BY <1>1 DEF Held
<1>3. \A m : Open(m)' <=> Open(m)
  BY DEF Open, Unsettled, IsSettled, Recorded, Attempt
<1>4. \A m : Free(m.id)' => Free(m.id)
  <2> SUFFICES ASSUME NEW m, Free(m.id)', NEW v \in Worker, Busy(v), worker[v].msg.id = m.id,
                      Working(worker[v])
               PROVE  FALSE
    BY DEF Free
  <2>1. Busy(v)' /\ worker'[v].msg = worker[v].msg /\ Working(worker'[v])
    <3>1. CASE v = w
      BY <3>1 DEF Busy, Working, Early, Final, Idle
    <3>2. CASE v # w
      BY <3>2 DEF OnlyMoves, Busy
    <3> QED BY <3>1, <3>2
  <2> QED BY <2>1 DEF Free, Working, Early, Final
<1>5. ListsUnsent'
  <2>1. \A m \in queue' : (Open(m) /\ Free(m.id) => Unsent(m.to))'
    BY <1>3, <1>4 DEF ListsInvariant, ListsUnsent, Unsent, Open, Free
  <2>2. \A v \in Worker \ {w} : (Busy(v) => JobListOK(worker[v]))'
    BY <1>3 DEF OnlyMoves, ListsInvariant, ListsUnsent, JobListOK, Unsent, Busy, Retrying
  <2>3. (Busy(w) => JobListOK(worker[w]))'
    BY DEF Busy, Idle
  <2> QED BY <2>1, <2>2, <2>3 DEF ListsUnsent
<1>6. ListsApart'
  BY <1>2 DEF ListsInvariant, ListsApart
<1>7. ChunksOK(parent[1])'
  BY <1>2 DEF ListsInvariant, ChunksOK, Unsent
<1> QED BY <1>5, <1>6, <1>7 DEF ListsInvariant, SentAtMostOnce

\* A worker is given a message only when nobody else may email its recipients.
LEMMA ReceiveLists ==
  ASSUME ~OverlapTasks, JobInvariant, LedgerInvariant, ListsInvariant,
         NEW w \in Worker, Receive(w)
  PROVE  ListsInvariant'
<1>1. DOMAIN worker = Worker /\ queue \subseteq Message
  BY BusyJobs
<1>2. PICK m \in queue : worker'[w] = Running(m) /\ ~BeingRun(m)
  BY <1>1, Receives
<1>3. /\ OnlyMoves(w) /\ ~Busy(w) /\ queue' \subseteq queue
      /\ task' = task /\ parent' = parent /\ sent' = sent
  BY <1>1, Receives DEF Receive, Busy
<1>4. /\ \A v \in Worker \ {w} : worker'[v] = worker[v]
      /\ worker'[w].pc = "check" /\ worker'[w].msg = m /\ worker'[w].to = m.to
  BY <1>2, <1>3 DEF OnlyMoves, Running
<1>5. Held' \subseteq Held
  BY <1>3, <1>4 DEF Held, Busy
<1>6. \A n : (Open(n)' <=> Open(n)) /\ (Free(n.id)' => Free(n.id))
  BY <1>3, <1>4 DEF Open, Unsettled, IsSettled, Recorded, Attempt, Free, Busy
<1>7. Open(m) => Free(m.id)
  <2> SUFFICES ASSUME Open(m), NEW v \in Worker, Busy(v), worker[v].msg.id = m.id,
                      Working(worker[v])
               PROVE  FALSE
    BY DEF Free
  <2>1. Open(worker[v].msg) \/ Waiting(worker[v].msg)
    BY DEF Working, LedgerInvariant, ClaimOK
  <2>2. CASE Open(worker[v].msg)
    BY <1>2, <2>2 DEF Open, Attempt, BeingRun
  <2>3. CASE Waiting(worker[v].msg)
    BY <2>3 DEF Open, Waiting
  <2> QED BY <2>1, <2>2, <2>3
<1>8. ListsUnsent'
  <2>1. \A n \in queue' : (Open(n) /\ Free(n.id) => Unsent(n.to))'
    BY <1>3, <1>6 DEF ListsInvariant, ListsUnsent, Unsent
  <2>2. \A v \in Worker \ {w} : (Busy(v) => JobListOK(worker[v]))'
    BY <1>3, <1>4, <1>6 DEF ListsInvariant, ListsUnsent, JobListOK, Unsent, Busy, Retrying
  <2>3. JobListOK(worker[w])'
    BY <1>3, <1>4, <1>6, <1>7 DEF ListsInvariant, ListsUnsent, JobListOK, Unsent, Retrying, Fresh
  <2> QED BY <2>1, <2>2, <2>3 DEF ListsUnsent
<1>9. ListsApart' /\ ChunksOK(parent[1])'
  BY <1>3, <1>5 DEF ListsInvariant, ListsApart, ChunksOK, Unsent
<1> QED BY <1>3, <1>8, <1>9 DEF ListsInvariant, SentAtMostOnce

\* What w may make of its job without emailing anybody.
LEMMA KeepsToList ==
  ASSUME ListsInvariant, NEW w \in Worker, OnlyMoves(w), Busy(w),
         UNCHANGED <<task, parent, queue, sent>>,
         NEW pc, NEW to, NEW st, NEW depth, NEW skip,
         Becomes(worker'[w], worker[w], pc, to, st, depth, skip),
         to \subseteq worker[w].msg.to, pc \notin {"idle", "unwind"},
         pc \in Fresh => worker[w].pc \in Fresh,
         pc = "send" \/ (st.state = "RETRY" /\ pc \in {"update", "release", "retry"})
           => Unsent(to),
         Working(worker[w]) =>
           \/ pc = "send" \/ pc = "update"
           \/ pc = "close" /\ st.state # "RETRY"
  PROVE  ListsInvariant'
<1>1. /\ worker'[w].msg = worker[w].msg /\ worker'[w].pc = pc /\ worker'[w].to = to
      /\ worker'[w].st = st /\ worker'[w] # Idle
  BY DEF Becomes, Idle
<1>2. \A m : Open(m)' <=> Open(m)
  BY DEF Open, Unsettled, IsSettled, Recorded, Attempt
<1>3. JobListOK(worker[w])'
  <2>1. JobListOK(worker[w])
    BY DEF ListsInvariant, ListsUnsent
  <2> QED BY <1>1, <1>2, <2>1 DEF JobListOK, Unsent, Retrying
<1>4. Working(worker[w]) => worker'[w] # Idle /\ Working(worker'[w])
  BY <1>1 DEF Working, Early, Final, Fresh
<1> QED BY <1>1, <1>3, <1>4, QuietLists

\* The steps of a worker that neither email, nor write, nor submit a retry.
LEMMA QuietWorker ==
  ASSUME JobInvariant, LedgerInvariant, ListsInvariant, NEW w \in Worker, HasJob(w),
         UNCHANGED <<task, parent, queue, sent>>, ~Event("close"),
         \/ CheckSubtask(w) \/ AcquireLock(w) \/ Prepare(w) \/ RefuseEmail(w)
         \/ ThrottleEmail(w) \/ DropConnection(w) \/ AbortSending(w) \/ FinishSending(w)
         \/ CloseConnection(w) \/ ReleaseLock(w) \/ SubmitRetry(w)
  PROVE  ListsInvariant'
<1> DEFINE job == worker[w]
           q == worker'[w]
<1>1. /\ Busy(w) /\ JobOK(job) /\ ClaimOK(job) /\ JobListOK(job)
      /\ job.st \in SubtaskStatus /\ job.to \subseteq job.msg.to /\ job.pc \notin {"idle", "unwind"}
  BY BusyJobs, JobFields DEF HasJob, JobInvariant, LedgerInvariant, ListsInvariant, ListsUnsent,
     JobListOK
<1> DEFINE Keeps(pc, to, st) ==
             /\ to \subseteq job.msg.to /\ pc \notin {"idle", "unwind"}
             /\ pc \in Fresh => job.pc \in Fresh
             /\ pc = "send" \/ (st.state = "RETRY" /\ pc \in {"update", "release", "retry"})
                  => Unsent(to)
             /\ Working(job) => \/ pc = "send" \/ pc = "update"
                                \/ pc = "close" /\ st.state # "RETRY"
<1>2. ASSUME OnlyMoves(w), NEW pc, NEW to, NEW st, NEW depth, NEW skip,
             Becomes(q, job, pc, to, st, depth, skip), Keeps(pc, to, st)
      PROVE  ListsInvariant'
  BY <1>1, <1>2, KeepsToList
<1>3. ASSUME OnlyMoves(w), q = Idle, ~Working(job)
      PROVE  ListsInvariant'
  BY <1>1, <1>3, QuietLists
<1>4. job.pc \in Fresh => ~Working(job)
  BY DEF Working
<1>5. CASE CheckSubtask(w)
  <2>1. job.pc = "check" /\ ~Working(job) /\ job.pc \in Fresh
    BY <1>4, <1>5, Checks DEF Fresh
  <2>2. OnlyMoves(w) /\ \/ Becomes(q, job, "lock", job.to, job.st, job.depth, job.skip_retry_max)
                        \/ q = Idle
    BY <1>5, Checks
  <2> QED BY <1>1, <1>2, <1>3, <2>1, <2>2
<1>6. CASE AcquireLock(w)
  <2>1. job.pc = "lock" /\ ~Working(job) /\ job.pc \in Fresh
    BY <1>4, <1>6, Locks DEF Fresh
  <2>2. OnlyMoves(w) /\ \/ Becomes(q, job, "prepare", job.to, job.st, job.depth, job.skip_retry_max)
                        \/ q = Idle
    BY <1>6, Locks
  <2> QED BY <1>1, <1>2, <1>3, <2>1, <2>2
<1>7. CASE Prepare(w)
  <2> DEFINE to == IF RetryCount(job.st) = 0 THEN job.to \ optout ELSE job.to
  <2>1. job.pc = "prepare" /\ ~Working(job) /\ job.pc \in Fresh /\ Open(job.msg)
    BY <1>1, <1>4, <1>7, Prepares DEF Fresh, ClaimOK, Early
  <2>2. Unsent(job.msg.to) /\ to \subseteq job.msg.to /\ Unsent(to)
    BY <1>1, <2>1 DEF JobListOK, Unsent
  <2>3. PICK st :
          /\ OnlyMoves(w)
          /\ \/ Becomes(q, job, "send", to, st, 1, FALSE)
             \/ Becomes(q, job, "update", to, Disconnected(st), 1, FALSE)
             \/ Becomes(q, job, "close", to, GiveUp(st, to), 1, FALSE)
             \/ \E t : /\ Becomes(q, job, "update", job.to, t, 1, FALSE)
                       /\ t.state = "FAILURE"
    BY <1>7, Prepares
  <2> HIDE DEF to
  <2>4. /\ Keeps("send", to, st) /\ Keeps("update", to, Disconnected(st))
        /\ Keeps("close", to, GiveUp(st, to))
        /\ \A t : t.state = "FAILURE" => Keeps("update", job.to, t)
    BY <1>1, <2>1, <2>2 DEF Fresh
  <2> HIDE DEF Keeps
  <2> QED BY <1>2, <2>3, <2>4
<1>8. CASE \/ RefuseEmail(w) \/ ThrottleEmail(w) \/ DropConnection(w)
           \/ AbortSending(w) \/ FinishSending(w)
  <2>1. job.pc = "send" /\ OnlyMoves(w) /\ Unsent(job.to)
    BY <1>1, <1>8, Sends DEF JobListOK
  <2>2. \/ \E r \in job.to : \E t : Becomes(q, job, "send", job.to \ {r}, t, 1, FALSE)
        \/ \E t, skip : Becomes(q, job, "update", job.to, t, 1, skip)
        \/ \E t : t.state # "RETRY" /\ Becomes(q, job, "close", job.to, t, 1, FALSE)
    BY <1>8, Sends
  <2>3. \A r, t : Keeps("send", job.to \ {r}, t)
    <3>1. \A r : Unsent(job.to \ {r})
      BY <2>1 DEF Unsent
    <3> QED BY <1>1, <2>1, <3>1 DEF Fresh
  <2>4. \A t : /\ Keeps("update", job.to, t)
               /\ t.state # "RETRY" => Keeps("close", job.to, t)
    BY <1>1, <2>1 DEF Fresh
  <2> HIDE DEF Keeps
  <2> QED BY <1>2, <2>1, <2>2, <2>3, <2>4
<1>9. CASE CloseConnection(w)
  <2>1. /\ job.pc = "close" /\ OnlyMoves(w)
        /\ \/ job.st.state = "RETRY" /\ q = Idle
           \/ job.st.state # "RETRY" /\ Becomes(q, job, "update", job.to, job.st, 1, FALSE)
    BY <1>9, Closes
  <2>2. job.st.state = "RETRY" => ~Working(job)
    BY <2>1 DEF Working, Early, Final
  <2>3. job.st.state # "RETRY" => Keeps("update", job.to, job.st)
    BY <1>1 DEF Fresh
  <2> HIDE DEF Keeps
  <2> QED BY <1>2, <1>3, <2>1, <2>2, <2>3
<1>10. CASE ReleaseLock(w)
  <2>1. job.pc = "release" /\ OnlyMoves(w)
    BY <1>1, <1>10, Releases
  <2>2. ~Working(job) /\ (job.st.state = "RETRY" => Unsent(job.to))
    BY <1>1, <2>1 DEF Working, Early, Final, JobListOK, Retrying
  <2>3. CASE \/ Becomes(q, job, "release", job.to, job.st, job.depth - 1, job.skip_retry_max)
             \/ Becomes(q, job, "retry", job.to, job.st, job.depth, job.skip_retry_max)
    BY <1>1, <1>2, <2>1, <2>2, <2>3 DEF Fresh
  <2>4. CASE q = Idle
    BY <1>3, <2>1, <2>2, <2>4
  <2> QED BY <1>10, <2>1, <2>3, <2>4, Releases
<1>11. CASE SubmitRetry(w)
  <2>1. /\ job.pc = "retry" /\ OnlyMoves(w)
        /\ \E t, depth, skip : Becomes(q, job, "close", job.to, t, depth, skip)
    BY <1>11, Submits
  <2>2. ~Working(job)
    BY <2>1 DEF Working, Early, Final
  <2> QED BY <1>1, <1>2, <2>1, <2>2 DEF Fresh
<1> QED BY <1>5, <1>6, <1>7, <1>8, <1>9, <1>10, <1>11

\* The steps of w that leave the ids of the others alone.
LEMMA OthersFree ==
  ASSUME NEW w \in Worker, OnlyMoves(w), NEW id, Free(id)',
         Busy(w) /\ worker[w].msg.id = id => ~Working(worker[w])
  PROVE  Free(id)
BY DEF Free, OnlyMoves, Busy, Working, Early, Final

\* Nobody else has the recipient of the email on a list he might use.
LEMMA SendLists ==
  ASSUME JobInvariant, LedgerInvariant, ListsInvariant, NEW w \in Worker, HasJob(w), SendEmail(w)
  PROVE  ListsInvariant'
<1> DEFINE job == worker[w]
           q == worker'[w]
<1>1. /\ job.pc = "send" /\ OnlyMoves(w) /\ Busy(w)
      /\ UNCHANGED <<task, queue, parent>> /\ sent \in [Recipient -> Nat]
  BY BusyJobs, Sends DEF SendEmail, sendVars, Busy
<1>2. PICK r \in job.to :
        /\ sent' = [sent EXCEPT ![r] = @ + 1]
        /\ WorkerSets(w, "send", job.to \ {r}, [job.st EXCEPT !.succeeded = @ + 1], FALSE)
  BY DEF SendEmail
<1>3. job.st \in SubtaskStatus /\ job.to \in SUBSET Recipient /\ job.msg \in Message
  BY JobFields DEF HasJob
<1>4. /\ q.msg = job.msg /\ q.pc = "send" /\ q.to = job.to \ {r}
  <2>1. [job.st EXCEPT !.succeeded = @ + 1] \in SubtaskStatus /\ job.to \ {r} \in SUBSET Recipient
    BY <1>3, CountsTyped DEF SameRetries
  <2>2. "send" \in Pcs
    BY DEF Pcs
  <2>3. Becomes(q, job, "send", job.to \ {r}, [job.st EXCEPT !.succeeded = @ + 1], 1, FALSE)
    BY <1>2, <2>1, <2>2, Sets DEF HasJob
  <2> QED BY <2>3 DEF Becomes
<1>5. /\ JobListOK(job) /\ Open(job.msg) /\ Unsent(job.to) /\ r \in job.msg.to
      /\ job.msg \in Held
  BY <1>1 DEF ListsInvariant, ListsUnsent, LedgerInvariant, ClaimOK, Early, JobListOK, Held
<1>6. sent'[r] = 1 /\ \A o \in Recipient \ {r} : sent'[o] = sent[o]
  BY <1>1, <1>2, <1>3, <1>5 DEF Unsent
<1>7. ASSUME NEW some \in SUBSET Recipient, r \notin some, Unsent(some) PROVE Unsent(some)'
  BY <1>6, <1>7 DEF Unsent
<1>8. \A m \in Held : m \in Message /\ (m.id # job.msg.id => r \notin m.to)
  BY <1>5, BusyJobs DEF ListsInvariant, ListsApart
<1>9. Held' = Held
  BY <1>1, <1>4 DEF Held, OnlyMoves, Busy
<1>10. \A m : Open(m)' <=> Open(m)
  BY <1>1 DEF Open, Unsettled, IsSettled, Recorded, Attempt
<1>11. ASSUME NEW m \in queue', Open(m)', Free(m.id)' PROVE Unsent(m.to)'
  <2>1. m.id # job.msg.id
    <3>1. Busy(w)' /\ Working(q)
      BY <1>4 DEF Busy, Working, Early, Fresh
    <3> QED BY <1>4, <1>11, <3>1 DEF Free, Working, Early, Final
  <2>2. m \in Held /\ m \in queue /\ Open(m) /\ Free(m.id)
    BY <1>1, <1>10, <1>11, <2>1, OthersFree DEF Held
  <2>3. m.to \in SUBSET Recipient /\ r \notin m.to
    BY <1>8, <2>1, <2>2 DEF Message
  <2> QED BY <1>7, <2>2, <2>3 DEF ListsInvariant, ListsUnsent
<1>12. ASSUME NEW v \in Worker, Busy(v)' PROVE JobListOK(worker[v])'
  <2>1. CASE v = w
    <3>1. job.to \ {r} \in SUBSET Recipient /\ Unsent(job.to \ {r})
      BY <1>3, <1>5 DEF Unsent
    <3>2. Unsent(worker[w].to)'
      BY <1>4, <1>7, <3>1
    <3> QED BY <1>4, <1>5, <2>1, <3>2 DEF JobListOK, Fresh
  <2>2. CASE v # w
    <3>1. /\ worker'[v] = worker[v] /\ Busy(v) /\ JobListOK(worker[v]) /\ JobTyped(worker[v])
          /\ worker[v].msg \in Held /\ ClaimOK(worker[v])
      BY <1>1, <1>12, <2>2, BusyJobs
         DEF OnlyMoves, Busy, ListsInvariant, ListsUnsent, Held, HasJob, LedgerInvariant
    <3>2. worker[v].to \in SUBSET Recipient /\ worker[v].msg.to \in SUBSET Recipient
      BY <3>1, JobFields
    <3>3. CASE worker[v].msg.id # job.msg.id
      <4>1. r \notin worker[v].msg.to /\ r \notin worker[v].to
        BY <1>8, <3>1, <3>3 DEF JobListOK
      <4> QED BY <1>7, <1>10, <3>1, <3>2, <4>1 DEF JobListOK, Retrying
    <3>4. CASE worker[v].msg.id = job.msg.id
      <4>1. ~Claims(worker[v])
        <5>1. Claims(job) /\ ClaimOK(job)
          BY <1>1 DEF LedgerInvariant, Claims, Early
        <5> QED BY <2>2, <3>1, <3>4, <5>1, SoleClaim DEF HasJob, LedgerInvariant
      <4>2. ~Open(worker[v].msg)
        BY <1>1, <1>5, <2>2, <3>1, <3>4 DEF LedgerInvariant, OneHand, Open
      <4>3. worker[v].pc # "send" /\ ~Retrying(worker[v])
        BY <4>1 DEF Claims, Early, Late, Retrying
      <4> QED BY <1>10, <3>1, <4>2, <4>3 DEF JobListOK, Retrying
    <3> QED BY <3>3, <3>4
  <2> QED BY <2>1, <2>2
<1>13. ListsUnsent'
  BY <1>11, <1>12 DEF ListsUnsent
<1>14. ListsApart'
  BY <1>9 DEF ListsInvariant, ListsApart
<1>15. ChunksOK(parent[1])'
  <2>1. Held # {} /\ ChunksOK(parent[1])
    BY <1>5 DEF ListsInvariant
  <2>2. \A k \in DOMAIN parent[1].chunks : parent[1].pc = "queue" =>
          Unsent(Members(parent[1].chunks[k]))'
    <3> SUFFICES ASSUME NEW k \in DOMAIN parent[1].chunks, parent[1].pc = "queue"
                 PROVE  Unsent(Members(parent[1].chunks[k]))'
      OBVIOUS
    <3> DEFINE some == Members(parent[1].chunks[k])
    <3>1. Unsent(some) /\ r \notin some
      BY <1>5, <2>1 DEF ChunksOK
    <3>2. some \in SUBSET Recipient
      BY MembersTyped
    <3>3. Members(parent'[1].chunks[k]) = some
      BY <1>1
    <3> HIDE DEF some
    <3>4. \A o \in some : sent'[o] = 0
      BY <1>6, <3>1, <3>2 DEF Unsent
    <3> QED BY <3>3, <3>4 DEF Unsent
  <2> QED BY <1>1, <1>9, <2>1, <2>2 DEF ChunksOK, Unsent
<1>16. SentAtMostOnce'
  BY <1>6 DEF ListsInvariant, SentAtMostOnce
<1> QED BY <1>13, <1>14, <1>15, <1>16 DEF ListsInvariant

\* Once its result is written the attempt is over, and nobody has the next one.
LEMMA WriteLists ==
  ASSUME JobInvariant, LedgerInvariant, ListsInvariant, NEW w \in Worker, HasJob(w),
         WriteStatus(w), LedgerInvariant'
  PROVE  ListsInvariant'
<1> DEFINE job == worker[w]
           q == worker'[w]
<1>1. /\ job.pc = "update" /\ OnlyMoves(w) /\ Busy(w)
      /\ UNCHANGED <<queue, parent, sent>>
      /\ Becomes(q, job, "release", job.to, job.st, job.depth, job.skip_retry_max)
  BY Writes DEF WriteStatus, updateVars, Busy
<1>2. /\ q.msg = job.msg /\ q.pc = "release" /\ q.to = job.to /\ q.st = job.st
  BY <1>1 DEF Becomes
<1>3. /\ Unsettled(job.msg.id)
      /\ task'.status = [task.status EXCEPT ![job.msg.id] = job.st]
  BY WriteLedger
<1>4. job.st \in SubtaskStatus /\ job.st.state # "QUEUING" /\ JobOK(job) /\ JobListOK(job)
  BY <1>1, JobFields
     DEF HasJob, JobInvariant, JobOK, RetriesOK, Fresh, ListsInvariant, ListsUnsent
<1>5. Held' = Held
  BY <1>1, <1>2 DEF Held, OnlyMoves, Busy
<1>6. ASSUME NEW m, m.id # job.msg.id PROVE Open(m)' => Open(m)
  BY <1>3, <1>6 DEF Open, Unsettled, IsSettled, Recorded, Attempt
<1>7. ASSUME NEW m, m.id = job.msg.id, Open(m)'
      PROVE  Waiting(job.msg)' /\ Attempt(m) = Attempt(job.msg) + 1
  <2>1. task'.status[job.msg.id] = job.st
    BY <1>3 DEF Unsettled
  <2>2. job.st.state = "RETRY"
    BY <1>4, <1>7, <2>1 DEF Open, Unsettled, IsSettled, READY_STATES, SubtaskStatus
  <2>3. Waiting(job.msg)'
    <3>1. Late(q) /\ ClaimOK(worker[w])'
      BY <1>2, <2>2 DEF Late, LedgerInvariant, Busy
    <3> QED BY <1>2, <3>1 DEF ClaimOK, Late, Waiting, Attempt
  <2> QED BY <1>2, <1>7, <2>3 DEF Open, Waiting, Attempt, Recorded
<1>8. ASSUME NEW m \in queue', Open(m)', Free(m.id)' PROVE Unsent(m.to)'
  <2>1. m.id # job.msg.id
    BY <1>2, <1>7, <1>8 DEF Waiting, Attempt
  <2>2. Open(m) /\ Free(m.id) /\ m \in queue
    BY <1>1, <1>6, <1>8, <2>1, OthersFree
  <2> QED BY <1>1, <2>2 DEF ListsInvariant, ListsUnsent, Unsent
<1>9. ASSUME NEW v \in Worker, Busy(v)' PROVE JobListOK(worker[v])'
  <2>1. CASE v = w
    BY <1>1, <1>2, <1>4, <2>1 DEF JobListOK, Retrying, Unsent, Fresh
  <2>2. CASE v # w
    <3>1. worker'[v] = worker[v] /\ Busy(v) /\ JobListOK(worker[v])
      BY <1>1, <1>9, <2>2 DEF OnlyMoves, Busy, ListsInvariant, ListsUnsent
    <3>2. Open(worker[v].msg)' => Open(worker[v].msg)
      <4>1. CASE worker[v].msg.id # job.msg.id
        BY <1>6, <3>1, <4>1 DEF Open, Unsettled, IsSettled, Recorded, Attempt
      <4>2. CASE worker[v].msg.id = job.msg.id
        <5>1. Open(worker[v].msg)' =>
                Waiting(job.msg)' /\ Attempt(worker[v].msg) = Attempt(job.msg) + 1
          BY <1>7, <3>1, <4>2 DEF Open, Unsettled, IsSettled, Recorded, Attempt
        <5> QED BY <1>2, <1>9, <3>1, <4>2, <5>1 DEF Waiting, Attempt
      <4> QED BY <4>1, <4>2
    <3> QED BY <1>1, <3>1, <3>2 DEF JobListOK, Retrying, Unsent
  <2> QED BY <2>1, <2>2
<1>10. ListsUnsent'
  BY <1>8, <1>9 DEF ListsUnsent
<1>11. ListsApart' /\ ChunksOK(parent[1])'
  BY <1>1, <1>5 DEF ListsInvariant, ListsApart, ChunksOK, Unsent
<1> QED BY <1>1, <1>10, <1>11 DEF ListsInvariant, SentAtMostOnce

\* The next attempt is given those who are left.
LEMMA SubmitLists ==
  ASSUME JobInvariant, LedgerInvariant, ListsInvariant, NEW w \in Worker, HasJob(w),
         SubmitRetry(w), ~Event("close")
  PROVE  ListsInvariant'
<1> DEFINE job == worker[w]
           q == worker'[w]
           m == NextAttempt(job)
<1>1. /\ job.pc = "retry" /\ OnlyMoves(w) /\ Busy(w)
      /\ UNCHANGED <<task, parent, sent>>
  BY Submits DEF SubmitRetry, Busy
<1>2. CASE queue' = queue
  BY <1>1, <1>2, QuietWorker
<1>3. CASE /\ queue' = queue \cup {m}
           /\ Becomes(q, job, "close", job.to, job.st, job.depth, job.skip_retry_max)
  <2>1. q.msg = job.msg /\ q.pc = "close" /\ q.to = job.to /\ q.st = job.st
    BY <1>3 DEF Becomes
  <2>2. /\ JobOK(job) /\ JobListOK(job) /\ job.st.state = "RETRY" /\ job.msg \in Held
        /\ ~Working(job)
    BY <1>1 DEF JobInvariant, JobOK, RetriesOK, ListsInvariant, ListsUnsent, Held, Working,
       Early, Final
  <2>3. Unsent(job.to) /\ job.to \subseteq job.msg.to /\ m.to = job.to /\ m.id = job.msg.id
    BY <1>1, <2>2 DEF JobListOK, Retrying, NextAttempt
  <2> HIDE DEF m
  <2>4. Held' = Held \cup {m}
    BY <1>1, <1>3, <2>1 DEF Held, OnlyMoves, Busy
  <2>5. \A n : Open(n)' <=> Open(n)
    BY <1>1 DEF Open, Unsettled, IsSettled, Recorded, Attempt
  <2>6. ASSUME NEW n \in queue', Open(n)', Free(n.id)' PROVE Unsent(n.to)'
    <3>1. CASE n = m
      BY <1>1, <2>3, <3>1 DEF Unsent
    <3>2. CASE n # m
      <4>1. n \in queue /\ Open(n) /\ Free(n.id)
        BY <1>1, <1>3, <2>2, <2>5, <2>6, <3>2, OthersFree
      <4> QED BY <1>1, <4>1 DEF ListsInvariant, ListsUnsent, Unsent
    <3> QED BY <3>1, <3>2
  <2>7. ASSUME NEW v \in Worker, Busy(v)' PROVE JobListOK(worker[v])'
    <3>1. CASE v = w
      BY <2>1, <2>2, <3>1 DEF JobListOK, Retrying, Fresh
    <3>2. CASE v # w
      <4>1. worker'[v] = worker[v] /\ Busy(v) /\ JobListOK(worker[v])
        BY <1>1, <2>7, <3>2 DEF OnlyMoves, Busy, ListsInvariant, ListsUnsent
      <4> QED BY <1>1, <2>5, <4>1 DEF JobListOK, Retrying, Unsent
    <3> QED BY <3>1, <3>2
  <2>8. ListsUnsent'
    BY <2>6, <2>7 DEF ListsUnsent
  <2>9. ListsApart'
    <3>1. \A n \in Held : n.id # m.id => n.to \cap m.to = {}
      BY <2>2, <2>3 DEF ListsInvariant, ListsApart
    <3> QED BY <2>4, <3>1 DEF ListsInvariant, ListsApart
  <2>10. ChunksOK(parent[1])'
    <3>1. ChunksOK(parent[1]) /\ Held # {}
      BY <2>2 DEF ListsInvariant
    <3>2. parent[1].pc = "queue" => \A k \in DOMAIN parent[1].chunks :
            \A n \in Held' : n.to \cap Members(parent[1].chunks[k]) = {}
      BY <2>2, <2>3, <2>4, <3>1 DEF ChunksOK
    <3> QED BY <1>1, <3>1, <3>2 DEF ChunksOK, Unsent
  <2> QED BY <1>1, <2>8, <2>9, <2>10 DEF ListsInvariant, SentAtMostOnce
<1> QED BY <1>2, <1>3, Submits

-----------------------------------------------------------------------------
(***************************************************************************)
(* The parent and the surroundings.                                        *)
(***************************************************************************)
LEMMA SameLists ==
  ASSUME ListsInvariant, UNCHANGED <<worker, queue, sent>>, ChunksOK(parent[1])',
         task' = task \/ Held = {}
  PROVE  ListsInvariant'
<1>1. Held' = Held
  BY DEF Held, Busy
<1>2. CASE task' = task
  <2>1. \A m : (Open(m)' <=> Open(m)) /\ (Free(m.id)' <=> Free(m.id))
    BY <1>2 DEF Open, Unsettled, IsSettled, Recorded, Attempt, Free, Busy, Working, Early, Final
  <2>2. \A m \in queue' : (Open(m) /\ Free(m.id) => Unsent(m.to))'
    BY <2>1 DEF ListsInvariant, ListsUnsent, Unsent
  <2>3. \A v \in Worker : (Busy(v) => JobListOK(worker[v]))'
    BY <1>2 DEF ListsInvariant, ListsUnsent, JobListOK, Unsent, Busy, Retrying, Open, Unsettled,
       IsSettled, Recorded, Attempt
  <2>4. ListsUnsent'
    BY <2>2, <2>3 DEF ListsUnsent
  <2> QED BY <1>1, <2>4 DEF ListsInvariant, ListsApart, SentAtMostOnce
<1>3. CASE Held = {}
  <2>1. queue' = {} /\ \A v \in Worker : ~Busy(v)'
    BY <1>3 DEF Held, Busy
  <2>2. ListsUnsent' /\ ListsApart'
    BY <1>1, <1>3, <2>1 DEF ListsUnsent, ListsApart
  <2> QED BY <2>2 DEF ListsInvariant, SentAtMostOnce
<1> QED BY <1>2, <1>3

\* Orderings are injective sequences.
LEMMA OrderingsAre ==
  ASSUME NEW S \in SUBSET Recipient, NEW s \in Orderings(S)
  PROVE  s \in Seq(S) /\ \A i, j \in 1 .. Len(s) : s[i] = s[j] => i = j
<1>1. Cardinality(S) \in Nat
  BY SizeOf
<1>2. s \in [1 .. Cardinality(S) -> S] /\ \A i, j \in DOMAIN s : s[i] = s[j] => i = j
  BY DEF Orderings
<1>3. s \in Seq(S) /\ DOMAIN s = 1 .. Len(s)
  BY <1>1, <1>2
<1> QED BY <1>2, <1>3

\* No recipient is in two chunks, and none has been emailed when they are made.
LEMMA GenerateLists ==
  ASSUME JobInvariant, ListsInvariant, GenerateChunks(1)
  PROVE  ListsInvariant'
<1> DEFINE n == NumberOfSubtasks(parent[1].total, ItemsPerTask)
<1>1. ParentsTyped /\ enrolled \subseteq Recipient /\ 1 \in Parent /\ RunOK(parent[1])
  BY TypeParts, MembersTyped DEF JobInvariant
<1>2. PICK s \in Orderings(enrolled) :
        /\ Chunks(s, ItemsPerTask, n) \in Seq(Seq(Recipient))
        /\ parent'[1].pc = "queue" /\ parent'[1].chunks = Chunks(s, ItemsPerTask, n)
  BY <1>1, ParentGenerates DEF RunBecomes
<1>3. Held = {} /\ Unsent(Recipient) /\ UNCHANGED <<worker, queue, sent, task>>
  BY DEF GenerateChunks, ListsInvariant, ChunksOK, parentVars
<1>4. s \in Seq(enrolled) /\ \A i, j \in 1 .. Len(s) : s[i] = s[j] => i = j
  BY <1>1, <1>2, OrderingsAre
<1>5. n \in Nat /\ ItemsPerTask \in Nat \ {0}
  BY <1>1, IdsTyped, ConstantsAssumption DEF RunOK
<1> HIDE DEF n
<1> DEFINE chunks == Chunks(s, ItemsPerTask, n)
<1>6. DOMAIN chunks = 1 .. Len(chunks)
  BY <1>2
<1>7. ASSUME NEW k \in DOMAIN chunks, NEW l \in DOMAIN chunks, k # l
      PROVE  Members(chunks[k]) \cap Members(chunks[l]) = {}
  <2>1. \A a \in DOMAIN chunks[k], b \in DOMAIN chunks[l] : chunks[k][a] # chunks[l][b]
    BY <1>4, <1>5, <1>6, <1>7, ChunksApart
  <2> HIDE DEF chunks
  <2> QED BY <2>1 DEF Members
<1>8. ASSUME NEW k \in DOMAIN chunks PROVE \A r \in Members(chunks[k]) : sent'[r] = 0
  <2>1. chunks[k] \in Seq(Recipient)
    BY <1>2, <1>8
  <2> HIDE DEF chunks
  <2>2. Members(chunks[k]) \subseteq Recipient
    BY <2>1 DEF Members
  <2> QED BY <1>3, <2>2 DEF Unsent
<1>9. Held' = {}
  BY <1>3 DEF Held, Busy
<1>10. ChunksOK(parent[1])'
  BY <1>2, <1>7, <1>8, <1>9 DEF ChunksOK, Unsent
<1> QED BY <1>3, <1>10, SameLists

\* The chunk that is queued has recipients of its own.
LEMMA QueueLists ==
  ASSUME JobInvariant, ListsInvariant, QueueSubtask(1), ~Event("broker")
  PROVE  ListsInvariant'
<1> DEFINE chunks == parent[1].chunks
           m == [id |-> <<1, parent[1].next>>, to |-> Members(Head(chunks)), st |-> NewStatus]
<1>1. ParentsTyped /\ RunOK(parent[1])
  BY TypeParts, MembersTyped DEF JobInvariant
<1>2. /\ parent[1].pc = "queue" /\ chunks # <<>> /\ chunks \in Seq(Seq(Recipient))
      /\ queue' = queue \cup {m} /\ UNCHANGED <<worker, sent, task>>
      /\ parent'[1].pc = "queue" /\ parent'[1].chunks = Tail(chunks)
  BY <1>1, MembersTyped, ParentQueues DEF RunBecomes, QueueSubtask, parentVars
<1>3. ChunksOK(parent[1]) /\ 1 \in DOMAIN chunks /\ m.to = Members(chunks[1])
  BY <1>2 DEF ListsInvariant
<1>4. /\ Unsent(m.to) /\ \A n \in Held : n.to \cap m.to = {}
      /\ \A k \in DOMAIN chunks : k # 1 => m.to \cap Members(chunks[k]) = {}
  BY <1>2, <1>3 DEF ChunksOK
<1>5. \A k \in DOMAIN Tail(chunks) :
        k \in Nat /\ k + 1 \in DOMAIN chunks /\ k + 1 # 1 /\ Tail(chunks)[k] = chunks[k + 1]
  BY <1>2
<1> HIDE DEF m, chunks
<1>6. Held' = Held \cup {m}
  BY <1>2 DEF Held, Busy
<1>7. \A n : (Open(n)' <=> Open(n)) /\ (Free(n.id)' <=> Free(n.id))
  BY <1>2 DEF Open, Unsettled, IsSettled, Recorded, Attempt, Free, Busy, Working, Early, Final
<1>8. ASSUME NEW n \in queue', Open(n)', Free(n.id)' PROVE Unsent(n.to)'
  BY <1>2, <1>4, <1>7, <1>8 DEF ListsInvariant, ListsUnsent, Unsent
<1>9. \A v \in Worker : (Busy(v) => JobListOK(worker[v]))'
  BY <1>2 DEF ListsInvariant, ListsUnsent, JobListOK, Unsent, Busy, Retrying, Open, Unsettled,
     IsSettled, Recorded, Attempt
<1>10. ListsUnsent'
  BY <1>8, <1>9 DEF ListsUnsent
<1>11. ListsApart'
  BY <1>4, <1>6 DEF ListsInvariant, ListsApart
<1>12. ChunksOK(parent[1])'
  <2>1. ASSUME NEW k \in DOMAIN Tail(chunks)
        PROVE  /\ \A r \in Members(Tail(chunks)[k]) : sent'[r] = 0
               /\ \A n \in Held' : n.to \cap Members(Tail(chunks)[k]) = {}
    BY <1>2, <1>3, <1>4, <1>5, <1>6, <2>1 DEF ChunksOK, Unsent, chunks
  <2>2. ASSUME NEW k \in DOMAIN Tail(chunks), NEW l \in DOMAIN Tail(chunks), k # l
        PROVE  Members(Tail(chunks)[k]) \cap Members(Tail(chunks)[l]) = {}
    <3>1. k + 1 \in DOMAIN chunks /\ l + 1 \in DOMAIN chunks /\ k + 1 # l + 1
      BY <1>5, <2>2
    <3> QED BY <1>2, <1>3, <1>5, <2>2, <3>1 DEF ChunksOK, chunks
  <2> QED BY <1>2, <2>1, <2>2 DEF ChunksOK, Unsent
<1> QED BY <1>2, <1>10, <1>11, <1>12 DEF ListsInvariant, SentAtMostOnce

LEMMA ParentLists ==
  ASSUME "redeliver" \notin Events, JobInvariant, LedgerInvariant, ListsInvariant,
         NEW p \in Parent, ParentNext(p), ~Event("broker")
  PROVE  ListsInvariant'
<1>1. /\ ParentsTyped /\ IsTask(task, SubtaskId) /\ enrolled \subseteq Recipient /\ RunOK(parent[p])
  BY TypeParts DEF JobInvariant
<1>2. p = 1 /\ UNCHANGED <<worker, sent>>
  BY ParentLedger, ParentLeavesAlone, TypeParts DEF JobInvariant, parentVars
<1>3. parent[1].pc \notin {"queue", "finish", "done"} => Held = {} /\ Unsent(Recipient)
  BY DEF ListsInvariant, ChunksOK
<1>4. ASSUME parent[1].pc \notin {"queue", "finish", "done"}, queue' = queue,
             parent'[1].pc # "queue"
      PROVE  ListsInvariant'
  <2>1. ChunksOK(parent[1])'
    BY <1>2, <1>3, <1>4 DEF ChunksOK, Held, Busy, Unsent
  <2> QED BY <1>2, <1>3, <1>4, <2>1, SameLists
<1>5. ASSUME parent'[1].pc \in {"finish", "done"}, queue' = queue, task' = task
      PROVE  ListsInvariant'
  <2>1. ChunksOK(parent[1])'
    BY <1>5 DEF ChunksOK
  <2> QED BY <1>2, <1>5, <2>1, SameLists
<1>6. CASE ReadTask(p)
  <2>1. parent[1].pc = "idle" /\ parent'[1].pc = "start" /\ queue' = queue
    BY <1>1, <1>2, <1>6, ParentReads DEF RunBecomes, ReadTask
  <2> QED BY <1>4, <2>1
<1>7. CASE MarkProgress(p)
  <2>1. parent[1].pc = "start" /\ parent'[1].pc = "delegate" /\ queue' = queue
    BY <1>1, <1>2, <1>7, ParentMarks DEF RunBecomes, MarkProgress
  <2> QED BY <1>4, <2>1
<1>8. CASE Delegate(p)
  <2>1. parent[1].pc = "delegate" /\ parent'[1].pc \in {"finish", "count"} /\ queue' = queue
    <3>1. parent[p].pc = "delegate" /\ parent'[p].pc \in {"finish", "count"}
      BY <1>1, <1>8, ParentDelegates DEF RunBecomes
    <3> QED BY <1>2, <1>8, <3>1 DEF Delegate
  <2> QED BY <1>4, <2>1
<1>9. CASE CountRecipients(p)
  <2>1. parent[1].pc = "count" /\ parent'[1].pc \in {"fail", "define"} /\ queue' = queue
    BY <1>1, <1>2, <1>9, ParentCounts DEF RunBecomes, CountRecipients
  <2> QED BY <1>4, <2>1
<1>10. CASE DefineSubtasks(p)
  <2>1. parent[1].pc = "define" /\ parent'[1].pc = "generate" /\ queue' = queue
    BY <1>1, <1>2, <1>10, ParentDefines DEF RunBecomes, DefineSubtasks
  <2> QED BY <1>4, <2>1
<1>11. CASE GenerateChunks(p)
  BY <1>2, <1>11, GenerateLists
<1>12. CASE QueueSubtask(p)
  BY <1>2, <1>12, QueueLists
<1>13. CASE QueuedAll(p) \/ OnSuccess(p) \/ OnFailure(p)
  <2>1. task' = task /\ queue' = queue
    BY <1>13 DEF QueuedAll, OnSuccess, OnFailure
  <2>2. parent[1].pc = "finish" => HasSubtasks(task)
    BY DEF LedgerInvariant, ParentPhase, Defined
  <2>3. \/ parent'[1].pc \in {"finish", "done"}
        \/ parent[1].pc = "fail" /\ parent'[1].pc = "failed"
    BY <1>1, <1>2, <1>13, <2>2, ParentEnds DEF RunBecomes
  <2> QED BY <1>4, <1>5, <2>1, <2>3
<1>14. CASE SaveEnd(p)
  <2>1. parent[1].pc \in {"succeed", "failed"} /\ parent'[1].pc = "done" /\ queue' = queue
    BY <1>1, <1>2, <1>14, ParentSaves DEF RunBecomes, SaveEnd
  <2> QED BY <1>4, <2>1
<1> QED BY <1>6, <1>7, <1>8, <1>9, <1>10, <1>11, <1>12, <1>13, <1>14 DEF ParentNext

\* The row never refuses the result of a worker.
LEMMA NothingRejected ==
  ASSUME LedgerInvariant, NEW w \in Worker, Busy(w)
  PROVE  ~RejectWrite(w)
<1> SUFFICES ASSUME RejectWrite(w) PROVE FALSE
  OBVIOUS
<1>1. worker[w].pc = "update" /\ ~IsUpdatable(task, worker[w].msg.id)
  BY DEF RejectWrite
<1>2. Unsettled(worker[w].msg.id)
  BY <1>1 DEF LedgerInvariant, ClaimOK, Early, Final, Open, Waiting
<1> QED BY <1>1, <1>2 DEF LedgerInvariant, RowPhase, HasSubtasks, Unsettled, IsUpdatable

LEMMA WorkerLists ==
  ASSUME ~OverlapTasks, JobInvariant, LedgerInvariant, LedgerInvariant', ListsInvariant,
         NEW w \in Worker, WorkerNext(w), ~Event("close"), ~Event("database")
  PROVE  ListsInvariant'
<1>1. CASE ~Busy(w)
  <2>1. Receive(w)
    BY <1>1 DEF WorkerNext, Busy, CheckSubtask, AcquireLock, Prepare, SendEmail, RefuseEmail,
         ThrottleEmail, DropConnection, AbortSending, FinishSending, Sending, CloseConnection,
         WriteStatus, RejectWrite, FailWrite, ReleaseLock, SubmitRetry
  <2> QED BY <2>1, ReceiveLists
<1>2. CASE Busy(w)
  <2>1. HasJob(w) /\ ~Receive(w)
    BY <1>2, BusyJobs DEF Receive
  <2>2. CASE SendEmail(w)
    BY <2>1, <2>2, SendLists
  <2>3. CASE WriteStatus(w)
    BY <2>1, <2>3, WriteLists
  <2>4. CASE SubmitRetry(w)
    BY <2>1, <2>4, SubmitLists
  <2>5. ~RejectWrite(w) /\ ~FailWrite(w)
    BY <1>2, NothingRejected DEF FailWrite
  <2>6. CASE \/ CheckSubtask(w) \/ AcquireLock(w) \/ Prepare(w) \/ RefuseEmail(w)
             \/ ThrottleEmail(w) \/ DropConnection(w) \/ AbortSending(w) \/ FinishSending(w)
             \/ CloseConnection(w) \/ ReleaseLock(w)
    <3>1. UNCHANGED <<task, parent, queue, sent>>
      BY <2>6 DEF CheckSubtask, AcquireLock, Prepare, RefuseEmail, ThrottleEmail,
         DropConnection, AbortSending, FinishSending, CloseConnection, ReleaseLock, sendVars,
         updateVars
    <3> QED BY <2>1, <2>6, <3>1, QuietWorker
  <2> QED BY <2>1, <2>2, <2>3, <2>4, <2>5, <2>6 DEF WorkerNext
<1> QED BY <1>1, <1>2

LEMMA ListsStep ==
  ASSUME OneAtATime, JobInvariant, LedgerInvariant, LedgerInvariant', ListsInvariant,
         [Next]_vars, AllWritten'
  PROVE  ListsInvariant'
<1>1. \A e \in {"crash", "database", "broker", "close"} : ~Event(e)
  BY StillAllWritten
<1>2. CASE \E w \in Worker : WorkerNext(w)
  BY <1>1, <1>2, WorkerLists DEF OneAtATime
<1>3. CASE \E p \in Parent : ParentNext(p)
  BY <1>1, <1>3, ParentLists DEF OneAtATime
<1>4. CASE \/ \E id \in SubtaskId : ExpireLock(id)
           \/ ChangeUsers
           \/ UNCHANGED vars
  <2>1. UNCHANGED <<task, queue, worker, parent, sent>>
    BY <1>4 DEF ExpireLock, ChangeUsers, vars
  <2>2. ChunksOK(parent[1])'
    BY <2>1 DEF ListsInvariant, ChunksOK, Held, Busy, Unsent
  <2> QED BY <2>1, <2>2, SameLists
<1> QED BY <1>1, <1>2, <1>3, <1>4 DEF Next, CrashParent, CrashWorker

LEMMA ListsInit == Init => ListsInvariant
<1> SUFFICES ASSUME Init PROVE ListsInvariant
  OBVIOUS
<1>1. /\ queue = {} /\ (\A w \in Worker : ~Busy(w)) /\ \A r \in Recipient : sent[r] = 0
      /\ parent[1].pc = "idle"
  BY ConstantsAssumption DEF Init, Busy, Idle, Parent, NewParent
<1>2. Held = {}
  BY <1>1 DEF Held
<1> QED BY <1>1, <1>2
        DEF ListsInvariant, ListsUnsent, ListsApart, ChunksOK, Unsent, SentAtMostOnce

\* As long as every result is written: a list that may still be worked through
\* holds nobody who has been emailed, and no two subtasks share a recipient.
THEOREM ListsAreKept ==
  ASSUME OneAtATime
  PROVE  Spec => [](AllWritten => ListsInvariant)
<1>1. Init => (AllWritten => ListsInvariant)
  BY ListsInit
<1>2. /\ JobInvariant /\ (NoSecondResult => LedgerInvariant) /\ (NoSecondResult => LedgerInvariant)'
      /\ (AllWritten => ListsInvariant) /\ [Next]_vars
      => (AllWritten => ListsInvariant)'
  <2>1. ASSUME JobInvariant, NoSecondResult => LedgerInvariant,
               (NoSecondResult => LedgerInvariant)', AllWritten => ListsInvariant,
               [Next]_vars, AllWritten'
        PROVE  ListsInvariant'
    <3>1. AllWritten /\ NoSecondResult /\ NoSecondResult'
      BY <2>1, StillAllWritten
    <3> QED BY <2>1, <3>1, ListsStep
  <2> QED BY <2>1
<1> QED BY <1>1, <1>2, JobsAgree, LedgerIsKept, PTL DEF Spec

\* Nobody is sent the email twice, however often attempts are retried, locks run out
\* and messages of subtasks are delivered again, provided that the parent comes once
\* and a duplicate only when the worker of the original is done or dead (OneAtATime:
\* overlapping copies do send twice), and as long as no worker dies and no write
\* fails: those lose the record of emails that were sent.
THEOREM NobodyIsEmailedTwice ==
  ASSUME OneAtATime
  PROVE  Spec => [](AllWritten => SentAtMostOnce)
<1>1. ListsInvariant => SentAtMostOnce
  BY DEF ListsInvariant
<1> QED BY <1>1, ListsAreKept, PTL
-----------------------------------------------------------------------------
(***************************************************************************)
(* No work is lost.  A subtask that is not settled is carried on by        *)
(* something: a message of its open attempt, a worker that will write a    *)
(* result or submit a retry, or the parent, which has yet to queue it.     *)
(***************************************************************************)
Undisturbed == AllWritten /\ ~Happened({"unenroll"})

\* A worker that will not let go of the subtask before it has passed it on.
Carries(j) == Claims(j) \/ (j.pc = "check" /\ Open(j.msg))

Queueing == {"generate", "queue"}

CarriedOn(id) ==
  \/ \E m \in queue : m.id = id /\ Open(m)
  \/ \E w \in Worker : Busy(w) /\ worker[w].msg.id = id /\ Carries(worker[w])
  \/ parent[1].pc \in Queueing /\ id[2] >= parent[1].next

\* What is written is settled before the lock is released.
ReleasedOK(j) == j.pc = "release" /\ j.st.state # "RETRY" => IsSettled(j.msg.id)

\* The ids that have no message yet are those at the end, and there is a chunk
\* for each: the query that counted the users found no more of them than the one
\* that cut them.
RunLeft(run) ==
  /\ run.pc \in {"define", "generate"} => run.total <= Cardinality(enrolled)
  /\ run.pc \in Queueing =>
       /\ DOMAIN task.status = {1} \X (1 .. NumberOfSubtasks(run.total, ItemsPerTask))
       /\ \A id \in DOMAIN task.status :
            id[2] >= run.next => task.status[id] = NewStatus /\ \A m \in Held : m.id # id
  /\ run.pc = "queue" =>
       NumberOfSubtasks(run.total, ItemsPerTask) <= run.next - 1 + Len(run.chunks)
  /\ run.pc = "done" => HasSubtasks(task) \/ task.task_state \in READY_STATES

WorkInvariant ==
  /\ \A id \in DOMAIN task.status : IsSettled(id) \/ CarriedOn(id)
  /\ \A w \in Worker : Busy(w) => ReleasedOK(worker[w])
  /\ HasSubtasks(task) /\ (\A id \in DOMAIN task.status : IsSettled(id)) =>
       task.task_state = "SUCCESS"
  /\ RunLeft(parent[1])

\* Nothing is disturbed in a step after which nothing has been disturbed.
LEMMA StillUndisturbed ==
  ASSUME JobInvariant, [Next]_vars, Undisturbed'
  PROVE  /\ Undisturbed /\ AllWritten' /\ LocksHeld
         /\ \A e \in {"crash", "database", "broker", "close", "unenroll"} : ~Event(e)
<1>1. events \in [Events -> Nat] /\ EventsGoOn
  BY EventsOnlyGrow
<1>2. AllWritten' /\ AllWritten /\ \A e \in {"crash", "database", "broker", "close"} : ~Event(e)
  BY StillAllWritten DEF Undisturbed
<1>3. ~Happened({"unenroll"})
  BY <1>1, HappenedStays DEF Undisturbed
<1>4. ASSUME Event("unenroll") PROVE FALSE
  <2>1. "unenroll" \in Events /\ events'["unenroll"] > 0
    BY <1>1, <1>4, EventCounted
  <2> QED BY <2>1 DEF Undisturbed, Happened
<1>5. LocksHeld
  BY <1>2 DEF AllWritten, Happened, JobInvariant
<1> QED BY <1>2, <1>3, <1>4, <1>5 DEF Undisturbed

\* A step of w on its own job that does not let go of what it carries.
LEMMA QuietWork ==
  ASSUME WorkInvariant, NEW w \in Worker, OnlyMoves(w), Busy(w),
         UNCHANGED <<task, parent, queue, enrolled>>,
         \/ worker'[w] = Idle
         \/ worker'[w].msg = worker[w].msg /\ worker'[w].pc # "idle" /\ ReleasedOK(worker[w])',
         Carries(worker[w]) => worker'[w] # Idle /\ Carries(worker[w])'
  PROVE  WorkInvariant'
<1>1. \A v \in Worker : Busy(v)' => Busy(v) /\ worker'[v].msg = worker[v].msg
  BY DEF OnlyMoves, Busy, Idle
<1>2. Held' \subseteq Held
  BY <1>1 DEF Held
<1>3. \A m : Open(m)' <=> Open(m)
  BY DEF Open, Unsettled, IsSettled, Recorded, Attempt
<1>4. ASSUME NEW id \in DOMAIN task.status, CarriedOn(id) PROVE CarriedOn(id)'
  <2>1. CASE \E m \in queue : m.id = id /\ Open(m)
    BY <1>3, <2>1 DEF CarriedOn, Open, Unsettled, IsSettled, Recorded, Attempt
  <2>2. ASSUME NEW v \in Worker, Busy(v), worker[v].msg.id = id, Carries(worker[v])
        PROVE  CarriedOn(id)'
    <3>1. Busy(v)' /\ worker'[v].msg.id = id /\ Carries(worker[v])'
      <4>1. CASE v = w
        BY <2>2, <4>1 DEF Busy, Idle
      <4>2. CASE v # w
        <5>1. worker'[v] = worker[v]
          BY <4>2 DEF OnlyMoves
        <5> QED BY <1>3, <2>2, <5>1 DEF Busy, Carries, Claims, Early, Late, Final
      <4> QED BY <4>1, <4>2
    <3> QED BY <3>1 DEF CarriedOn
  <2>3. CASE parent[1].pc \in Queueing /\ id[2] >= parent[1].next
    BY <2>3 DEF CarriedOn
  <2> QED BY <1>4, <2>1, <2>2, <2>3 DEF CarriedOn
<1>5. \A id \in DOMAIN task'.status : (IsSettled(id) \/ CarriedOn(id))'
  BY <1>4 DEF WorkInvariant, IsSettled
<1>6. ASSUME NEW v \in Worker, Busy(v)' PROVE ReleasedOK(worker[v])'
  <2>1. CASE v = w
    BY <1>6, <2>1 DEF Busy, Idle
  <2>2. CASE v # w
    BY <1>6, <2>2 DEF OnlyMoves, Busy, WorkInvariant, ReleasedOK, IsSettled
  <2> QED BY <2>1, <2>2
<1>7. RunLeft(parent[1])'
  BY <1>2 DEF WorkInvariant, RunLeft, HasSubtasks
<1> QED BY <1>5, <1>6, <1>7 DEF WorkInvariant, HasSubtasks, IsSettled

\* Where a job may go, in a step that neither receives, nor writes, nor submits.
Goes(j, pc, st) ==
  /\ pc \notin {"idle", "check"}
  /\ pc = "release" /\ st.state # "RETRY" => IsSettled(j.msg.id)
  /\ Carries(j) =>
       \/ pc \in {"lock", "prepare", "send", "update", "retry"}
       \/ pc = "release" /\ st.state = "RETRY"
       \/ pc = "close" /\ st.state # "RETRY"

LEMMA GoesSomewhere ==
  ASSUME NEW j, NEW st
  PROVE  /\ \A pc \in {"lock", "prepare", "send", "update", "retry"} : Goes(j, pc, st)
         /\ st.state # "RETRY" => Goes(j, "close", st)
BY DEF Goes

LEMMA KeepsCarrying ==
  ASSUME WorkInvariant, NEW w \in Worker, OnlyMoves(w), Busy(w),
         UNCHANGED <<task, parent, queue, enrolled>>,
         NEW pc, NEW to, NEW st, NEW depth, NEW skip,
         Becomes(worker'[w], worker[w], pc, to, st, depth, skip), Goes(worker[w], pc, st)
  PROVE  WorkInvariant'
<1>1. /\ worker'[w].msg = worker[w].msg /\ worker'[w].pc = pc /\ worker'[w].st = st
      /\ worker'[w] # Idle /\ pc \notin {"idle", "check"}
  BY DEF Becomes, Idle, Goes
<1>2. ReleasedOK(worker[w])'
  BY <1>1 DEF ReleasedOK, IsSettled, Goes
<1>3. Carries(worker[w]) => Carries(worker[w])'
  BY <1>1 DEF Carries, Claims, Early, Late, Final, Goes
<1> QED BY <1>1, <1>2, <1>3, QuietWork

\* The lock of a subtask is free when its open attempt comes for it.
LEMMA LockIsFree ==
  ASSUME JobInvariant, LocksHeld, LedgerInvariant, ListsInvariant, WorkInvariant,
         NEW w \in Worker, HasJob(w), worker[w].pc = "lock"
  PROVE  lock[worker[w].msg.id] = NoOne
<1> DEFINE id == worker[w].msg.id
<1>1. Busy(w) /\ Claims(worker[w]) /\ ClaimOK(worker[w]) /\ Open(worker[w].msg)
  BY DEF Busy, Claims, Early, LedgerInvariant, ClaimOK
<1>2. id \in SubtaskId /\ lock \in [SubtaskId -> Worker \cup {NoOne}]
  <2>1. worker[w].msg \in Message
    BY JobFields DEF HasJob
  <2>2. lock \in [SubtaskId -> Worker \cup {NoOne}]
    BY DEF JobInvariant, TypeOK
  <2> QED BY <2>1, <2>2 DEF Message
<1>3. ASSUME NEW v \in Worker, lock[id] = v PROVE FALSE
  <2>1. Busy(v) /\ worker[v].msg.id = id /\ MustUnlock(worker[v])
    BY <1>2, <1>3 DEF LocksHeld
  <2>2. /\ worker[v].pc # "unwind" /\ ReleasedOK(worker[v]) /\ HasJob(v) /\ ClaimOK(worker[v])
        /\ v # w
    BY <2>1, BusyJobs DEF ListsInvariant, ListsUnsent, JobListOK, WorkInvariant,
       LedgerInvariant, MustUnlock
  <2>3. ~Claims(worker[v])
    BY <1>1, <2>1, <2>2, SoleClaim DEF LedgerInvariant, HasJob
  <2>4. worker[v].pc = "release" /\ worker[v].st.state # "RETRY"
    BY <2>1, <2>2, <2>3 DEF MustUnlock, Claims, Early, Late, Final
  <2> QED BY <1>1, <2>1, <2>2, <2>4 DEF ReleasedOK, Open, Unsettled
<1> QED BY <1>2, <1>3

LEMMA ReceiveWork ==
  ASSUME JobInvariant, WorkInvariant, NEW w \in Worker, Receive(w)
  PROVE  WorkInvariant'
<1>1. DOMAIN worker = Worker /\ queue \subseteq Message
  BY BusyJobs
<1>2. PICK m \in queue :
        /\ worker' = [worker EXCEPT ![w] = Running(m)]
        /\ queue' = queue \ {m} \/ queue' = queue
  BY DEF Receive
<1>3. /\ ~Busy(w) /\ UNCHANGED <<task, parent, enrolled>>
  BY DEF Receive, envVars
<1>4. /\ \A v \in Worker \ {w} : worker'[v] = worker[v]
      /\ worker'[w].pc = "check" /\ worker'[w].msg = m
  BY <1>1, <1>2 DEF Running
<1>5. Held' \subseteq Held
  BY <1>2, <1>3, <1>4 DEF Held, Busy
<1>6. \A n : Open(n)' <=> Open(n)
  BY <1>3 DEF Open, Unsettled, IsSettled, Recorded, Attempt
<1>7. ASSUME NEW id \in DOMAIN task.status, CarriedOn(id) PROVE CarriedOn(id)'
  <2>1. ASSUME NEW n \in queue, n.id = id, Open(n) PROVE CarriedOn(id)'
    <3>1. CASE n = m
      <4>1. Busy(w)' /\ worker'[w].msg.id = id /\ Carries(worker[w])'
        BY <1>4, <1>6, <2>1, <3>1
           DEF Busy, Carries, Open, Unsettled, IsSettled, Recorded, Attempt
      <4> QED BY <4>1 DEF CarriedOn
    <3>2. CASE n # m
      <4>1. n \in queue' /\ Open(n)'
        BY <1>2, <1>6, <2>1, <3>2
      <4> QED BY <2>1, <4>1 DEF CarriedOn, Open, Unsettled, IsSettled, Recorded, Attempt
    <3> QED BY <3>1, <3>2
  <2>2. ASSUME NEW v \in Worker, Busy(v), worker[v].msg.id = id, Carries(worker[v])
        PROVE  CarriedOn(id)'
    <3>1. worker'[v] = worker[v]
      BY <1>3, <1>4, <2>2
    <3>2. Busy(v)' /\ worker'[v].msg.id = id /\ Carries(worker[v])'
      BY <1>6, <2>2, <3>1 DEF Busy, Carries, Claims, Early, Late, Final
    <3> QED BY <3>2 DEF CarriedOn
  <2>3. CASE parent[1].pc \in Queueing /\ id[2] >= parent[1].next
    BY <1>3, <2>3 DEF CarriedOn
  <2> QED BY <1>7, <2>1, <2>2, <2>3 DEF CarriedOn
<1>8. \A id \in DOMAIN task'.status : (IsSettled(id) \/ CarriedOn(id))'
  BY <1>3, <1>7 DEF WorkInvariant, IsSettled
<1>9. \A v \in Worker : (Busy(v) => ReleasedOK(worker[v]))'
  BY <1>3, <1>4 DEF Busy, WorkInvariant, ReleasedOK, IsSettled
<1>10. RunLeft(parent[1])'
  BY <1>3, <1>5 DEF WorkInvariant, RunLeft, HasSubtasks
<1> QED BY <1>3, <1>8, <1>9, <1>10 DEF WorkInvariant, HasSubtasks, IsSettled

\* The result of a subtask settles it, or this worker will submit the retry.
LEMMA WriteWork ==
  ASSUME JobInvariant, LedgerInvariant, WorkInvariant, NEW w \in Worker, HasJob(w),
         WriteStatus(w)
  PROVE  WorkInvariant'
<1> DEFINE job == worker[w]
           q == worker'[w]
<1>1. /\ job.pc = "update" /\ OnlyMoves(w) /\ Busy(w)
      /\ UNCHANGED <<queue, parent, enrolled>>
      /\ Becomes(q, job, "release", job.to, job.st, job.depth, job.skip_retry_max)
  BY Writes DEF WriteStatus, updateVars, envVars, Busy
<1>2. /\ q.msg = job.msg /\ q.pc = "release" /\ q.st = job.st /\ Busy(w)'
  BY <1>1 DEF Becomes, Busy
<1>3. /\ Unsettled(job.msg.id)
      /\ task'.status = [task.status EXCEPT ![job.msg.id] = job.st]
      /\ (\A id \in DOMAIN task'.status : IsSettled(id)') => task'.task_state = "SUCCESS"
  BY WriteLedger
<1>4. job.st.state \in {"RETRY", "SUCCESS", "FAILURE"}
  <2>1. job.st \in SubtaskStatus /\ JobOK(job)
    BY <1>1, JobFields DEF HasJob, JobInvariant
  <2> QED BY <1>1, <2>1 DEF JobOK, RetriesOK, Fresh, SubtaskStatus
<1>5. Held' = Held /\ job.msg \in Held
  BY <1>1, <1>2 DEF Held, OnlyMoves, Busy
<1>6. /\ DOMAIN task'.status = DOMAIN task.status /\ job.msg.id \in DOMAIN task.status
      /\ task'.status[job.msg.id] = job.st
      /\ \A id \in DOMAIN task.status :
           id # job.msg.id => task'.status[id] = task.status[id]
  BY <1>3 DEF Unsettled
<1>7. ASSUME NEW id \in DOMAIN task.status, id # job.msg.id, CarriedOn(id)
      PROVE  CarriedOn(id)'
  <2>1. \A m : m.id = id => (Open(m)' <=> Open(m))
    BY <1>6, <1>7 DEF Open, Unsettled, IsSettled, Recorded, Attempt
  <2>2. ASSUME NEW v \in Worker, Busy(v), worker[v].msg.id = id, Carries(worker[v])
        PROVE  CarriedOn(id)'
    <3>1. worker'[v] = worker[v]
      BY <1>1, <1>7, <2>2 DEF OnlyMoves
    <3>2. Busy(v)' /\ worker'[v].msg.id = id /\ Carries(worker[v])'
      BY <2>1, <2>2, <3>1 DEF Busy, Carries, Claims, Early, Late, Final, Open, Unsettled,
         IsSettled, Recorded, Attempt
    <3> QED BY <3>2 DEF CarriedOn
  <2>3. CASE \E m \in queue : m.id = id /\ Open(m)
    BY <1>1, <2>1, <2>3 DEF CarriedOn, Open, Unsettled, IsSettled, Recorded, Attempt
  <2>4. CASE parent[1].pc \in Queueing /\ id[2] >= parent[1].next
    BY <1>1, <2>4 DEF CarriedOn
  <2> QED BY <1>7, <2>2, <2>3, <2>4 DEF CarriedOn
<1>8. (IsSettled(job.msg.id) \/ CarriedOn(job.msg.id))'
  <2>1. CASE job.st.state = "RETRY"
    <3>1. Busy(w)' /\ worker'[w].msg.id = job.msg.id /\ Carries(worker[w])'
      BY <1>2, <2>1 DEF Carries, Claims, Late
    <3>2. CarriedOn(worker[w].msg.id)'
      BY <3>1 DEF CarriedOn
    <3> QED BY <1>2, <3>2
  <2>2. CASE job.st.state # "RETRY"
    BY <1>2, <1>4, <1>6, <2>2 DEF IsSettled, READY_STATES
  <2> QED BY <2>1, <2>2
<1>9. \A id \in DOMAIN task'.status : (IsSettled(id) \/ CarriedOn(id))'
  <2> SUFFICES ASSUME NEW id \in DOMAIN task.status PROVE (IsSettled(id) \/ CarriedOn(id))'
    BY <1>6
  <2>1. CASE id = job.msg.id
    BY <1>2, <1>8, <2>1
  <2>2. CASE id # job.msg.id
    <3>1. IsSettled(id) => IsSettled(id)'
      BY <1>6, <2>2 DEF IsSettled
    <3> QED BY <1>7, <2>2, <3>1 DEF WorkInvariant
  <2> QED BY <2>1, <2>2
<1>10. ASSUME NEW v \in Worker, Busy(v)' PROVE ReleasedOK(worker[v])'
  <2>1. CASE v = w
    BY <1>2, <1>4, <1>6, <2>1 DEF ReleasedOK, IsSettled, READY_STATES
  <2>2. CASE v # w
    <3>1. worker'[v] = worker[v] /\ Busy(v) /\ ReleasedOK(worker[v])
      BY <1>1, <1>10, <2>2 DEF OnlyMoves, Busy, WorkInvariant
    <3>2. IsSettled(worker[v].msg.id) => worker[v].msg.id # job.msg.id
      BY <1>3 DEF Unsettled
    <3> QED BY <1>6, <3>1, <3>2 DEF ReleasedOK, IsSettled
  <2> QED BY <2>1, <2>2
<1>11. RunLeft(parent[1])'
  <2>1. RunLeft(parent[1]) /\ HasSubtasks(task)'
    BY <1>6 DEF WorkInvariant, HasSubtasks
  <2>2. ASSUME parent[1].pc \in Queueing, NEW id \in DOMAIN task.status,
               id[2] >= parent[1].next
        PROVE  task'.status[id] = NewStatus /\ \A m \in Held' : m.id # id
    <3>1. id # job.msg.id
      BY <1>5, <2>1, <2>2 DEF RunLeft
    <3> QED BY <1>5, <1>6, <2>1, <2>2, <3>1 DEF RunLeft
  <2> QED BY <1>1, <1>6, <2>1, <2>2 DEF RunLeft
<1> QED BY <1>3, <1>9, <1>10, <1>11 DEF WorkInvariant

\* The message of the retry carries the subtask on, or the worker gives it up.
LEMMA SubmitWork ==
  ASSUME JobInvariant, LedgerInvariant, WorkInvariant, NEW w \in Worker, HasJob(w),
         SubmitRetry(w)
  PROVE  WorkInvariant'
<1> DEFINE job == worker[w]
           q == worker'[w]
<1>1. /\ job.pc = "retry" /\ OnlyMoves(w) /\ Busy(w)
      /\ UNCHANGED <<task, parent, enrolled>>
  BY Submits DEF SubmitRetry, envVars, Busy
<1>2. CASE /\ queue' = queue
           /\ \E t : Becomes(q, job, "close", job.to, t, 1, FALSE) /\ t.state = "FAILURE"
  <2>1. PICK t : Becomes(q, job, "close", job.to, t, 1, FALSE) /\ t.state = "FAILURE"
    BY <1>2
  <2>2. Goes(job, "close", t)
    BY <2>1, GoesSomewhere
  <2> HIDE DEF job
  <2> QED BY <1>1, <1>2, <2>1, <2>2, KeepsCarrying DEF job
<1>3. CASE /\ queue' = queue \cup {NextAttempt(job)}
           /\ Becomes(q, job, "close", job.to, job.st, job.depth, job.skip_retry_max)
  <2> PICK m : m = NextAttempt(job)
    OBVIOUS
  <2>1. q.msg = job.msg /\ q.pc = "close" /\ Busy(w)'
    BY <1>3 DEF Becomes, Busy
  <2>2. m.id = job.msg.id /\ Open(m) /\ job.msg \in Held
    <3>1. JobOK(job) /\ Waiting(job.msg)
      BY <1>1 DEF JobInvariant, LedgerInvariant, ClaimOK, Late
    <3>2. RetryCount(job.st) = RetryCount(job.msg.st) + 1
      BY <1>1, <3>1 DEF JobOK, RetriesOK, Fresh
    <3> QED BY <1>1, <3>1, <3>2 DEF NextAttempt, Open, Waiting, Attempt, Held
  <2>3. Held' = Held \cup {m}
    BY <1>1, <1>3, <2>1 DEF Held, OnlyMoves, Busy
  <2>4. \A n : Open(n)' <=> Open(n)
    BY <1>1 DEF Open, Unsettled, IsSettled, Recorded, Attempt
  <2>5. m \in queue' /\ Open(m)'
    BY <1>3, <2>2, <2>4
  <2>6. CarriedOn(m.id)'
    BY <2>5 DEF CarriedOn, Open, Unsettled, IsSettled, Recorded, Attempt
  <2>7. ASSUME NEW id \in DOMAIN task.status, id # m.id, CarriedOn(id) PROVE CarriedOn(id)'
    <3>1. ASSUME NEW v \in Worker, Busy(v), worker[v].msg.id = id, Carries(worker[v])
          PROVE  CarriedOn(id)'
      <4>1. worker'[v] = worker[v]
        BY <1>1, <2>2, <2>7, <3>1 DEF OnlyMoves
      <4>2. Busy(v)' /\ worker'[v].msg.id = id /\ Carries(worker[v])'
        BY <2>4, <3>1, <4>1 DEF Busy, Carries, Claims, Early, Late, Final
      <4> QED BY <4>2 DEF CarriedOn
    <3>2. CASE \E n \in queue : n.id = id /\ Open(n)
      BY <1>3, <2>4, <3>2 DEF CarriedOn, Open, Unsettled, IsSettled, Recorded, Attempt
    <3>3. CASE parent[1].pc \in Queueing /\ id[2] >= parent[1].next
      BY <1>1, <3>3 DEF CarriedOn
    <3> QED BY <2>7, <3>1, <3>2, <3>3 DEF CarriedOn
  <2>8. \A id \in DOMAIN task'.status : (IsSettled(id) \/ CarriedOn(id))'
    <3> SUFFICES ASSUME NEW id \in DOMAIN task.status PROVE (IsSettled(id) \/ CarriedOn(id))'
      BY <1>1
    <3>1. CASE id = m.id
      <4>1. CarriedOn(id)'
        BY <2>5, <3>1 DEF CarriedOn, Open, Unsettled, IsSettled, Recorded, Attempt
      <4> QED BY <4>1
    <3>2. CASE id # m.id
      <4>1. IsSettled(id) => IsSettled(id)'
        BY <1>1 DEF IsSettled
      <4> QED BY <2>7, <3>2, <4>1 DEF WorkInvariant
    <3> QED BY <3>1, <3>2
  <2>9. \A v \in Worker : (Busy(v) => ReleasedOK(worker[v]))'
    BY <1>1, <2>1 DEF OnlyMoves, Busy, WorkInvariant, ReleasedOK, IsSettled
  <2>10. RunLeft(parent[1])'
    BY <1>1, <2>2, <2>3 DEF WorkInvariant, RunLeft, HasSubtasks
  <2> QED BY <1>1, <2>8, <2>9, <2>10 DEF WorkInvariant, HasSubtasks, IsSettled
<1> QED BY <1>2, <1>3, Submits

LEMMA CarriesOn ==
  ASSUME JobInvariant, LocksHeld, LedgerInvariant, ListsInvariant, WorkInvariant,
         NEW w \in Worker, HasJob(w), UNCHANGED <<task, parent, queue, enrolled>>,
         ~Event("close"),
         \/ CheckSubtask(w) \/ AcquireLock(w) \/ Prepare(w) \/ SendEmail(w) \/ RefuseEmail(w)
         \/ ThrottleEmail(w) \/ DropConnection(w) \/ AbortSending(w) \/ FinishSending(w)
         \/ CloseConnection(w) \/ ReleaseLock(w)
  PROVE  WorkInvariant'
<1> DEFINE job == worker[w]
           q == worker'[w]
<1>1. /\ Busy(w) /\ JobOK(job) /\ JobListOK(job) /\ ReleasedOK(job) /\ job.st \in SubtaskStatus
      /\ job.pc \notin {"idle", "unwind"}
  BY BusyJobs, JobFields
     DEF HasJob, JobInvariant, ListsInvariant, ListsUnsent, JobListOK, WorkInvariant
<1>2. ASSUME OnlyMoves(w), NEW pc, NEW to, NEW st, NEW depth, NEW skip,
             Becomes(q, job, pc, to, st, depth, skip), Goes(job, pc, st)
      PROVE  WorkInvariant'
  BY <1>1, <1>2, KeepsCarrying
<1>3. ASSUME OnlyMoves(w), q = Idle, ~Carries(job)
      PROVE  WorkInvariant'
  BY <1>1, <1>3, QuietWork
<1>4. \A st : /\ \A pc \in {"lock", "prepare", "send", "update", "retry"} : Goes(job, pc, st)
              /\ st.state # "RETRY" => Goes(job, "close", st)
  BY GoesSomewhere
<1>5. CASE CheckSubtask(w)
  <2>1. /\ job.pc = "check" /\ OnlyMoves(w)
        /\ \/ Becomes(q, job, "lock", job.to, job.st, job.depth, job.skip_retry_max)
           \/ q = Idle
    BY <1>5, Checks
  <2>2. CASE ~Carries(job)
    BY <1>2, <1>3, <1>4, <2>1, <2>2
  <2>3. CASE Carries(job)
    <3>1. Open(job.msg) /\ job.st = job.msg.st
      BY <1>1, <2>1, <2>3 DEF Carries, Claims, Early, Late, Final, JobOK, RetriesOK, Fresh
    <3>2. RetryCount(job.st) \in Nat
      BY <1>1, RetryNumbers
    <3>3. IsStartable(task, job.msg.id, job.st)
      BY <3>1, <3>2 DEF IsStartable, Open, Unsettled, IsSettled, Recorded, Attempt
    <3>4. WorkerGoto(w, "lock") /\ "lock" \in Pcs
      BY <1>5, <3>3 DEF CheckSubtask, Pcs
    <3>5. Becomes(q, job, "lock", job.to, job.st, job.depth, job.skip_retry_max)
      BY <3>4, GoesTo DEF HasJob
    <3> QED BY <1>2, <1>4, <2>1, <3>5
  <2> QED BY <2>2, <2>3
<1>6. CASE AcquireLock(w)
  <2>1. job.pc = "lock" /\ OnlyMoves(w) /\ lock[job.msg.id] = NoOne
    BY <1>6, Locks, LockIsFree
  <2>2. Becomes(q, job, "prepare", job.to, job.st, job.depth, job.skip_retry_max)
    BY <1>6, <2>1, Locks
  <2> QED BY <1>2, <1>4, <2>1, <2>2
<1>7. CASE Prepare(w)
  <2> DEFINE to == IF RetryCount(job.st) = 0 THEN job.to \ optout ELSE job.to
  <2>1. PICK st :
          /\ OnlyMoves(w) /\ SameRetries(st, job.st)
          /\ \/ Becomes(q, job, "send", to, st, 1, FALSE)
             \/ Becomes(q, job, "update", to, Disconnected(st), 1, FALSE)
             \/ Becomes(q, job, "close", to, GiveUp(st, to), 1, FALSE)
             \/ \E t : Becomes(q, job, "update", job.to, t, 1, FALSE)
    BY <1>7, Prepares
  <2>2. GiveUp(st, to).state = "FAILURE"
    <3>1. to \in SUBSET Recipient
      BY JobFields DEF HasJob
    <3> QED BY <2>1, <3>1, GiveUpTyped DEF SameRetries
  <2> HIDE DEF to
  <2> QED BY <1>2, <1>4, <2>1, <2>2
<1>8. CASE \/ SendEmail(w) \/ RefuseEmail(w) \/ ThrottleEmail(w) \/ DropConnection(w)
           \/ AbortSending(w) \/ FinishSending(w)
  <2>1. OnlyMoves(w) /\ \/ \E r, t : Becomes(q, job, "send", job.to \ {r}, t, 1, FALSE)
                        \/ \E t, skip : Becomes(q, job, "update", job.to, t, 1, skip)
                        \/ \E t : t.state # "RETRY" /\ Becomes(q, job, "close", job.to, t, 1, FALSE)
    BY <1>8, Sends
  <2> QED BY <1>2, <1>4, <2>1
<1>9. CASE CloseConnection(w)
  <2>1. /\ job.pc = "close" /\ OnlyMoves(w)
        /\ \/ job.st.state = "RETRY" /\ q = Idle
           \/ Becomes(q, job, "update", job.to, job.st, 1, FALSE)
    BY <1>9, Closes
  <2>2. job.st.state = "RETRY" => ~Carries(job)
    BY <2>1 DEF Carries, Claims, Early, Late, Final
  <2> QED BY <1>2, <1>3, <1>4, <2>1, <2>2
<1>10. CASE ReleaseLock(w)
  <2>1. job.pc = "release" /\ OnlyMoves(w)
    BY <1>1, <1>10, Releases
  <2>2. CASE job.st.state = "RETRY"
    <3>1. Goes(job, "release", job.st)
      BY <2>2 DEF Goes
    <3>2. \/ Becomes(q, job, "release", job.to, job.st, job.depth - 1, job.skip_retry_max)
          \/ Becomes(q, job, "retry", job.to, job.st, job.depth, job.skip_retry_max)
      BY <1>10, <2>1, <2>2, Releases
    <3> QED BY <1>2, <1>4, <2>1, <3>1, <3>2
  <2>3. CASE job.st.state # "RETRY"
    <3>1. ~Carries(job) /\ Goes(job, "release", job.st)
      BY <1>1, <2>1, <2>3 DEF Carries, Claims, Early, Late, Final, ReleasedOK, Goes
    <3>2. \/ Becomes(q, job, "release", job.to, job.st, job.depth - 1, job.skip_retry_max)
          \/ q = Idle
      BY <1>10, <2>1, <2>3, Releases
    <3> QED BY <1>2, <1>3, <2>1, <3>1, <3>2
  <2> QED BY <2>2, <2>3
<1> QED BY <1>5, <1>6, <1>7, <1>8, <1>9, <1>10

-----------------------------------------------------------------------------
(***************************************************************************)
(* The parent hands out what it defined, and the users may only grow.      *)
(***************************************************************************)
LEMMA SameWork ==
  ASSUME WorkInvariant, UNCHANGED <<task, worker, queue>>, RunLeft(parent[1])',
         \A id \in DOMAIN task.status :
           parent[1].pc \in Queueing /\ id[2] >= parent[1].next =>
             parent'[1].pc \in Queueing /\ id[2] >= parent'[1].next
  PROVE  WorkInvariant'
<1>1. \A m : Open(m)' <=> Open(m)
  BY DEF Open, Unsettled, IsSettled, Recorded, Attempt
<1>2. \A v \in Worker : /\ Busy(v)' <=> Busy(v)
                        /\ Carries(worker[v]) => Carries(worker[v])'
                        /\ ReleasedOK(worker[v]) => ReleasedOK(worker[v])'
  BY <1>1 DEF Busy, Carries, Claims, Early, Late, Final, ReleasedOK, IsSettled
<1>3. ASSUME NEW id \in DOMAIN task.status, CarriedOn(id) PROVE CarriedOn(id)'
  <2>1. CASE \E m \in queue : m.id = id /\ Open(m)
    BY <1>1, <2>1 DEF CarriedOn, Open, Unsettled, IsSettled, Recorded, Attempt
  <2>2. ASSUME NEW v \in Worker, Busy(v), worker[v].msg.id = id, Carries(worker[v])
        PROVE  CarriedOn(id)'
    BY <1>2, <2>2 DEF CarriedOn
  <2>3. CASE parent[1].pc \in Queueing /\ id[2] >= parent[1].next
    BY <2>3 DEF CarriedOn
  <2> QED BY <1>3, <2>1, <2>2, <2>3 DEF CarriedOn
<1>4. \A id \in DOMAIN task'.status : (IsSettled(id) \/ CarriedOn(id))'
  BY <1>3 DEF WorkInvariant, IsSettled
<1> QED BY <1>2, <1>4 DEF WorkInvariant, HasSubtasks, IsSettled

\* While there are no subtasks there is no work to be lost.
LEMMA NoWorkYet ==
  ASSUME LedgerInvariant, ~HasSubtasks(task), UNCHANGED worker, ~HasSubtasks(task'),
         RunLeft(parent[1])'
  PROVE  WorkInvariant'
<1>1. \A v \in Worker : ~Busy(v)'
  BY DEF LedgerInvariant, RowPhase, Busy
<1> QED BY <1>1 DEF WorkInvariant, HasSubtasks

\* Nothing that is defined is settled yet, and the parent carries all of it.
LEMMA DefineWork ==
  ASSUME JobInvariant, LedgerInvariant, WorkInvariant, DefineSubtasks(1)
  PROVE  WorkInvariant'
<1>1. /\ ParentsTyped /\ 1 \in Parent /\ RunOK(parent[1]) /\ IsTask(parent[1].row, SubtaskId)
  BY MembersTyped, TypeParts, RunFields DEF JobInvariant, ParentsTyped, RunTyped
<1>2. /\ parent[1].pc = "define" /\ parent[1].next = 1
      /\ task' = InitializeSubtaskInfo(parent[1].row, parent[1].total, SubtaskIds(1))
      /\ parent'[1].pc = "generate" /\ parent'[1].next = 1
      /\ parent'[1].total = parent[1].total
      /\ UNCHANGED <<queue, worker, enrolled>>
  BY <1>1, ParentDefines DEF RunBecomes, RunOK, DefineSubtasks, parentVars, envVars
<1>3. /\ ~HasSubtasks(task) /\ parent[1].total # 0
      /\ parent[1].total \in 0 .. Cardinality(Recipient)
  BY <1>1, <1>2 DEF LedgerInvariant, ParentPhase, Defined, Blank, RunOK
<1>4. /\ HasSubtasks(task')
      /\ task'.status = [id \in SubtaskIds(1) |-> NewStatus]
      /\ SubtaskIds(1) \in (SUBSET SubtaskId) \ {{}}
  BY <1>1, <1>2, <1>3, DefinedRow
<1>5. Held' = {} /\ \A v \in Worker : ~Busy(v)'
  BY <1>2, <1>3 DEF LedgerInvariant, RowPhase, Busy, Held
<1> DEFINE n == NumberOfSubtasks(parent[1].total, ItemsPerTask)
<1>6. SubtaskIds(1) = {1} \X (1 .. n) /\ n \in Nat
  <2>1. n \in 0 .. Cardinality(Recipient)
    BY <1>1, <1>3, IdsTyped
  <2>2. SubtaskIds(1) = {1} \X (1 .. n)
    BY DEF SubtaskIds
  <2> HIDE DEF n
  <2>3. Cardinality(Recipient) \in Nat
    BY SizeOf
  <2> QED BY <2>1, <2>2, <2>3
<1>7. /\ DOMAIN task'.status = {1} \X (1 .. n)
      /\ \A id \in DOMAIN task'.status : task'.status[id] = NewStatus /\ id[2] >= 1
  BY <1>4, <1>6
<1>8. \A id \in DOMAIN task'.status : ~IsSettled(id)' /\ CarriedOn(id)'
  BY <1>2, <1>7 DEF IsSettled, NewStatus, READY_STATES, CarriedOn, Queueing
<1>9. RunLeft(parent[1])'
  <2>1. parent[1].total <= Cardinality(enrolled)
    BY <1>2 DEF WorkInvariant, RunLeft
  <2> QED BY <1>2, <1>5, <1>7, <2>1 DEF RunLeft, Queueing
<1>10. DOMAIN task'.status # {}
  BY <1>4 DEF HasSubtasks
<1> QED BY <1>5, <1>8, <1>9, <1>10 DEF WorkInvariant

\* The second query finds at least as many users as the first, so that there is
\* a chunk for every id.
LEMMA GenerateWork ==
  ASSUME JobInvariant, WorkInvariant, GenerateChunks(1)
  PROVE  WorkInvariant'
<1> DEFINE n == NumberOfSubtasks(parent[1].total, ItemsPerTask)
<1>1. ParentsTyped /\ enrolled \in SUBSET Recipient /\ 1 \in Parent /\ RunOK(parent[1])
  BY TypeParts, MembersTyped DEF JobInvariant
<1>2. PICK s \in Orderings(enrolled) :
        /\ parent[1].pc = "generate" /\ parent[1].next = 1
        /\ parent'[1].pc = "queue" /\ parent'[1].chunks = Chunks(s, ItemsPerTask, n)
        /\ parent'[1].next = 1 /\ parent'[1].total = parent[1].total
  BY <1>1, ParentGenerates DEF RunBecomes, RunOK
<1>3. UNCHANGED <<worker, queue, task, enrolled>>
  BY DEF GenerateChunks, parentVars, envVars
<1>4. n \in Nat /\ ItemsPerTask \in Nat \ {0} /\ parent[1].total \in Nat
  BY <1>1, IdsTyped, ConstantsAssumption, SizeOf DEF RunOK
<1>5. Cardinality(enrolled) \in Nat /\ s \in Seq(enrolled) /\ Len(s) = Cardinality(enrolled)
  <2>1. Cardinality(enrolled) \in Nat /\ s \in [1 .. Cardinality(enrolled) -> enrolled]
    BY <1>1, SizeOf DEF Orderings
  <2> QED BY <1>1, <2>1, OrderingTyped
<1>6. parent[1].total <= Len(s)
  BY <1>2, <1>5 DEF WorkInvariant, RunLeft
<1>7. n <= NumberOfSubtasks(Len(s), ItemsPerTask)
  BY <1>4, <1>5, <1>6, NumberGrows
<1> HIDE DEF n
<1>8. Len(Chunks(s, ItemsPerTask, n)) = n
  BY <1>4, <1>5, <1>7, ChunksEnough
<1>9. Held' = Held
  BY <1>3 DEF Held, Busy
<1>10. RunLeft(parent[1])'
  <2>1. n <= 1 - 1 + Len(Chunks(s, ItemsPerTask, n))
    BY <1>4, <1>8
  <2>2. RunLeft(parent[1])
    BY DEF WorkInvariant
  <2> QED BY <1>2, <1>3, <1>9, <2>1, <2>2 DEF RunLeft, Queueing, n
<1> QED BY <1>2, <1>3, <1>10, SameWork DEF Queueing

\* The message takes over from the parent.
LEMMA QueueWork ==
  ASSUME JobInvariant, WorkInvariant, QueueSubtask(1), ~Event("broker")
  PROVE  WorkInvariant'
<1> PICK n : n = NumberOfSubtasks(parent[1].total, ItemsPerTask)
  OBVIOUS
<1> PICK k : k = parent[1].next
  OBVIOUS
<1>1. ParentsTyped /\ 1 \in Parent /\ RunOK(parent[1]) /\ k \in Nat
  BY TypeParts, MembersTyped, RunFields DEF JobInvariant, ParentsTyped, RunTyped
<1>2. PICK m : m = [id |-> <<1, k>>, to |-> Members(Head(parent[1].chunks)), st |-> NewStatus]
  OBVIOUS
<1>3. /\ parent[1].pc = "queue" /\ queue' = queue \cup {m}
      /\ UNCHANGED <<worker, task, enrolled>>
      /\ parent'[1].pc = "queue" /\ parent'[1].next = k + 1
      /\ parent'[1].total = parent[1].total
      /\ Len(parent[1].chunks) \in Nat
      /\ Len(parent'[1].chunks) = Len(parent[1].chunks) - 1
  BY <1>1, <1>2, ParentQueues DEF RunBecomes, QueueSubtask, parentVars, envVars
<1>4. /\ DOMAIN task.status = {1} \X (1 .. n)
      /\ \A id \in DOMAIN task.status :
           id[2] >= k => task.status[id] = NewStatus /\ \A o \in Held : o.id # id
      /\ n <= k - 1 + Len(parent[1].chunks) /\ n \in Nat
  <2>1. n \in 0 .. Cardinality(Recipient) /\ Cardinality(Recipient) \in Nat
    BY <1>1, IdsTyped, SizeOf DEF RunOK
  <2> QED BY <1>3, <2>1 DEF WorkInvariant, RunLeft, Queueing
<1>5. Held' = Held \cup {m}
  BY <1>3 DEF Held, Busy
<1>6. \A o : Open(o)' <=> Open(o)
  BY <1>3 DEF Open, Unsettled, IsSettled, Recorded, Attempt
<1>7. ASSUME NEW id \in DOMAIN task.status, CarriedOn(id) PROVE CarriedOn(id)'
  <2>1. ASSUME NEW o \in queue, o.id = id, Open(o) PROVE CarriedOn(id)'
    <3>1. o \in queue' /\ Open(o)'
      BY <1>3, <1>6, <2>1
    <3> QED BY <2>1, <3>1 DEF CarriedOn, Open, Unsettled, IsSettled, Recorded, Attempt
  <2>2. ASSUME NEW v \in Worker, Busy(v), worker[v].msg.id = id, Carries(worker[v])
        PROVE  CarriedOn(id)'
    <3>1. Busy(v)' /\ worker'[v].msg.id = id /\ Carries(worker[v])'
      BY <1>3, <1>6, <2>2 DEF Busy, Carries, Claims, Early, Late, Final
    <3> QED BY <3>1 DEF CarriedOn
  <2>3. CASE id[2] >= k
    <3>1. id[1] = 1 /\ id[2] \in Nat /\ id = <<id[1], id[2]>>
      BY <1>4
    <3>2. CASE id[2] = k
      <4>1. m.id = id /\ task.status[id] = NewStatus /\ Attempt(m) = Recorded(id)
        BY <1>2, <1>4, <2>3, <3>1, <3>2 DEF Attempt, Recorded
      <4>2. Open(m)
        BY <4>1 DEF Open, Unsettled, IsSettled, NewStatus, READY_STATES
      <4>3. m \in queue' /\ Open(m)'
        BY <1>3, <1>6, <4>2
      <4> QED BY <4>1, <4>3 DEF CarriedOn, Open, Unsettled, IsSettled, Recorded, Attempt
    <3>3. CASE id[2] # k
      <4>1. id[2] >= k + 1
        BY <1>1, <2>3, <3>1, <3>3
      <4> QED BY <1>3, <4>1 DEF CarriedOn, Queueing
    <3> QED BY <3>2, <3>3
  <2> QED BY <1>7, <2>1, <2>2, <2>3 DEF CarriedOn
<1>8. \A id \in DOMAIN task'.status : (IsSettled(id) \/ CarriedOn(id))'
  BY <1>3, <1>7 DEF WorkInvariant, IsSettled
<1>9. \A v \in Worker : (Busy(v) => ReleasedOK(worker[v]))'
  BY <1>3 DEF Busy, WorkInvariant, ReleasedOK, IsSettled
<1>10. RunLeft(parent[1])'
  <2>1. ASSUME NEW id \in DOMAIN task.status, id[2] >= k + 1
        PROVE  task.status[id] = NewStatus /\ \A o \in Held' : o.id # id
    <3>1. id[2] \in Nat /\ id[2] >= k /\ id # <<1, k>>
      BY <1>1, <1>4, <2>1
    <3> QED BY <1>2, <1>4, <1>5, <3>1
  <2>2. k - 1 + Len(parent[1].chunks) = parent'[1].next - 1 + Len(parent'[1].chunks)
    <3>1. \A a, b \in Nat : a - 1 + b = (a + 1) - 1 + (b - 1)
      OBVIOUS
    <3> QED BY <1>1, <1>3, <3>1
  <2>3. n = NumberOfSubtasks(parent'[1].total, ItemsPerTask)
    BY <1>3
  <2>4. parent'[1].pc = "queue" /\ parent'[1].next = k + 1 /\ task' = task
    BY <1>3
  <2>5. /\ DOMAIN task'.status = {1} \X (1 .. n)
        /\ \A id \in DOMAIN task'.status :
             id[2] >= parent'[1].next =>
               task'.status[id] = NewStatus /\ \A o \in Held' : o.id # id
    BY <1>4, <2>1, <2>4
  <2>6. n <= parent'[1].next - 1 + Len(parent'[1].chunks)
    BY <1>4, <2>2
  <2> QED BY <2>3, <2>4, <2>5, <2>6 DEF RunLeft, Queueing
<1> QED BY <1>3, <1>8, <1>9, <1>10 DEF WorkInvariant, HasSubtasks, IsSettled

LEMMA ParentWork ==
  ASSUME "redeliver" \notin Events, JobInvariant, LedgerInvariant, LedgerInvariant',
         WorkInvariant, NEW p \in Parent, ParentNext(p), ~Event("broker")
  PROVE  WorkInvariant'
<1>1. /\ ParentsTyped /\ IsTask(task, SubtaskId) /\ enrolled \in SUBSET Recipient
      /\ RunOK(parent[p])
  BY TypeParts DEF JobInvariant
<1>2. p = 1 /\ UNCHANGED <<worker, enrolled>>
  BY ParentLedger, ParentLeavesAlone, TypeParts DEF JobInvariant, parentVars, envVars
<1>3. /\ parent[1].pc \notin Defined \cup {"done"} => ~HasSubtasks(task)
      /\ parent[1].pc = "finish" => HasSubtasks(task)
      /\ parent'[1].pc \notin Defined \cup {"done"} => ~HasSubtasks(task')
  BY DEF LedgerInvariant, ParentPhase, Blank, HasSubtasks, Defined
<1>4. ASSUME parent[1].pc \notin Defined \cup {"done"}, parent'[1].pc \notin Defined \cup {"done"},
             parent'[1].pc = "define" => parent'[1].total = Cardinality(enrolled)
      PROVE  WorkInvariant'
  <2>1. Cardinality(enrolled) \in Nat
    BY <1>1, SizeOf
  <2>2. RunLeft(parent[1])'
    BY <1>2, <1>4, <2>1 DEF RunLeft, Queueing, Defined
  <2> QED BY <1>2, <1>3, <1>4, <2>2, NoWorkYet
<1>5. CASE ReadTask(p)
  <2>1. parent[1].pc = "idle" /\ parent'[1].pc = "start"
    BY <1>1, <1>2, <1>5, ParentReads DEF RunBecomes
  <2> QED BY <1>4, <2>1 DEF Defined
<1>6. CASE MarkProgress(p)
  <2>1. parent[1].pc = "start" /\ parent'[1].pc = "delegate"
    BY <1>1, <1>2, <1>6, ParentMarks DEF RunBecomes
  <2> QED BY <1>4, <2>1 DEF Defined
<1>7. CASE Delegate(p)
  <2>1. parent[1].pc = "delegate" /\ ~HasSubtasks(task)
    BY <1>1, <1>2, <1>3, <1>7, ParentDelegates DEF Defined
  <2>2. parent'[1].pc = "count"
    BY <1>1, <1>2, <1>7, <2>1, ParentDelegates DEF RunBecomes
  <2> QED BY <1>4, <2>1, <2>2 DEF Defined
<1>8. CASE CountRecipients(p)
  <2>1. /\ parent[1].pc = "count"
        /\ \/ parent'[1].pc = "fail"
           \/ parent'[1].pc = "define" /\ parent'[1].total = Cardinality(enrolled)
    BY <1>1, <1>2, <1>8, ParentCounts DEF RunBecomes
  <2> QED BY <1>2, <1>4, <2>1 DEF Defined
<1>9. CASE DefineSubtasks(p)
  BY <1>2, <1>9, DefineWork
<1>10. CASE GenerateChunks(p)
  BY <1>2, <1>10, GenerateWork
<1>11. CASE QueueSubtask(p)
  BY <1>2, <1>11, QueueWork
<1>12. CASE QueuedAll(p)
  <2>1. /\ parent[1].pc = "queue" /\ parent[1].chunks = <<>> /\ parent'[1].pc = "finish"
        /\ UNCHANGED <<task, queue>>
    <3>1. parent[p].pc = "queue" /\ parent[p].chunks = <<>> /\ UNCHANGED <<task, queue>>
      BY <1>12 DEF QueuedAll, ParentStep
    <3>2. parent'[p].pc = "finish"
      BY <1>1, <1>12, <3>1, ParentEnds DEF RunBecomes
    <3> QED BY <1>2, <3>1, <3>2
  <2> DEFINE n == NumberOfSubtasks(parent[1].total, ItemsPerTask)
  <2>2. parent[1].next \in Nat /\ n \in Nat
    BY <1>1, <1>2, RunFields, IdsTyped DEF ParentsTyped, RunTyped, RunOK
  <2>3. DOMAIN task.status = {1} \X (1 .. n) /\ n <= parent[1].next - 1 + 0
    BY <2>1 DEF WorkInvariant, RunLeft, Queueing
  <2>4. \A id \in DOMAIN task.status : ~(id[2] >= parent[1].next)
    <3> HIDE DEF n
    <3> QED BY <2>2, <2>3
  <2>5. RunLeft(parent[1])'
    BY <2>1 DEF RunLeft, Queueing
  <2> QED BY <1>2, <2>1, <2>4, <2>5, SameWork
<1>13. CASE OnSuccess(p)
  <2>1. /\ parent[1].pc = "finish" /\ parent'[1].pc = "done" /\ HasSubtasks(task)
        /\ UNCHANGED <<task, queue>>
    <3>1. parent[p].pc = "finish" /\ UNCHANGED <<task, queue>>
      BY <1>13 DEF OnSuccess
    <3>2. HasSubtasks(task)
      BY <1>2, <1>3, <3>1
    <3>3. parent'[p].pc = "done"
      BY <1>1, <1>13, <3>1, <3>2, ParentEnds DEF RunBecomes
    <3> QED BY <1>2, <3>1, <3>2, <3>3
  <2>2. RunLeft(parent[1])'
    BY <2>1 DEF RunLeft, Queueing, HasSubtasks
  <2> QED BY <1>2, <2>1, <2>2, SameWork DEF Queueing
<1>14. CASE OnFailure(p)
  <2>1. parent[1].pc = "fail" /\ parent'[1].pc = "failed"
    <3>1. parent[p].pc = "fail"
      BY <1>14 DEF OnFailure
    <3>2. parent'[p].pc = "failed"
      BY <1>1, <1>14, <3>1, ParentEnds DEF RunBecomes
    <3> QED BY <1>2, <3>1, <3>2
  <2> QED BY <1>4, <2>1 DEF Defined
<1>15. CASE SaveEnd(p)
  <2>1. /\ parent[1].pc \in {"succeed", "failed"} /\ parent'[1].pc = "done"
        /\ task'.status = parent[1].row.status
        /\ parent[1].pc = "failed" => task'.task_state = "FAILURE"
    BY <1>1, <1>2, <1>15, ParentSaves DEF RunBecomes
  <2>2. /\ parent[1].pc = "failed" /\ ~HasSubtasks(task) /\ ~HasSubtasks(task')
    BY <2>1 DEF LedgerInvariant, ParentPhase, Defined, Blank, HasSubtasks
  <2>3. RunLeft(parent[1])'
    BY <2>1, <2>2 DEF RunLeft, Queueing, READY_STATES
  <2> QED BY <1>2, <2>2, <2>3, NoWorkYet
<1> QED BY <1>5, <1>6, <1>7, <1>8, <1>9, <1>10, <1>11, <1>12, <1>13, <1>14, <1>15 DEF ParentNext

LEMMA WorkerWork ==
  ASSUME ~OverlapTasks, JobInvariant, LocksHeld, LedgerInvariant, ListsInvariant, WorkInvariant,
         NEW w \in Worker, WorkerNext(w), ~Event("close"), ~Event("database")
  PROVE  WorkInvariant'
<1>1. CASE ~Busy(w)
  <2>1. Receive(w)
    BY <1>1 DEF WorkerNext, Busy, CheckSubtask, AcquireLock, Prepare, SendEmail, RefuseEmail,
         ThrottleEmail, DropConnection, AbortSending, FinishSending, Sending, CloseConnection,
         WriteStatus, RejectWrite, FailWrite, ReleaseLock, SubmitRetry
  <2> QED BY <2>1, ReceiveWork
<1>2. CASE Busy(w)
  <2>1. HasJob(w) /\ ~Receive(w)
    BY <1>2, BusyJobs DEF Receive
  <2>2. CASE WriteStatus(w)
    BY <2>1, <2>2, WriteWork
  <2>3. CASE SubmitRetry(w)
    BY <2>1, <2>3, SubmitWork
  <2>4. ~RejectWrite(w) /\ ~FailWrite(w)
    BY <1>2, NothingRejected DEF FailWrite
  <2>5. CASE \/ CheckSubtask(w) \/ AcquireLock(w) \/ Prepare(w) \/ SendEmail(w)
             \/ RefuseEmail(w) \/ ThrottleEmail(w) \/ DropConnection(w) \/ AbortSending(w)
             \/ FinishSending(w) \/ CloseConnection(w) \/ ReleaseLock(w)
    <3>1. UNCHANGED <<task, parent, queue, enrolled>>
      BY <2>5 DEF CheckSubtask, AcquireLock, Prepare, SendEmail, RefuseEmail, ThrottleEmail,
         DropConnection, AbortSending, FinishSending, CloseConnection, ReleaseLock, sendVars,
         updateVars, envVars
    <3> QED BY <2>1, <2>5, <3>1, CarriesOn
  <2> QED BY <2>1, <2>2, <2>3, <2>4, <2>5 DEF WorkerNext
<1> QED BY <1>1, <1>2

LEMMA WorkStep ==
  ASSUME OneAtATime, JobInvariant, LedgerInvariant, LedgerInvariant', ListsInvariant,
         WorkInvariant, [Next]_vars, Undisturbed'
  PROVE  WorkInvariant'
<1>1. LocksHeld /\ \A e \in {"crash", "database", "broker", "close", "unenroll"} : ~Event(e)
  BY StillUndisturbed
<1>2. CASE \E w \in Worker : WorkerNext(w)
  BY <1>1, <1>2, WorkerWork DEF OneAtATime
<1>3. CASE \E p \in Parent : ParentNext(p)
  BY <1>1, <1>3, ParentWork DEF OneAtATime
<1>4. CASE \/ \E id \in SubtaskId : ExpireLock(id)
           \/ ChangeUsers
           \/ UNCHANGED vars
  <2>1. UNCHANGED <<task, queue, worker, parent>>
    BY <1>4 DEF ExpireLock, ChangeUsers, vars
  <2>2. enrolled \in SUBSET Recipient /\ enrolled' \in SUBSET Recipient
    <3>1. enrolled \in SUBSET Recipient
      BY TypeParts DEF JobInvariant
    <3> QED BY <1>4, <3>1 DEF ExpireLock, ChangeUsers, envVars, vars
  <2>3. enrolled \subseteq enrolled'
    BY <1>1, <1>4 DEF ExpireLock, ChangeUsers, envVars, vars
  <2>4. /\ Cardinality(enrolled) \in Nat /\ Cardinality(enrolled') \in Nat
        /\ Cardinality(enrolled) <= Cardinality(enrolled')
    BY <2>2, <2>3, SizeOf
  <2>5. Held' = Held
    BY <2>1 DEF Held, Busy
  <2>6. RunLeft(parent[1])'
    <3>1. parent[1].total \in Nat /\ RunLeft(parent[1])
      BY MembersTyped, TypeParts, RunFields
         DEF JobInvariant, ParentsTyped, RunTyped, WorkInvariant
    <3> QED BY <2>1, <2>4, <2>5, <3>1 DEF RunLeft, HasSubtasks
  <2> QED BY <2>1, <2>6, SameWork
<1> QED BY <1>1, <1>2, <1>3, <1>4 DEF Next, CrashParent, CrashWorker

LEMMA WorkInit == Init => WorkInvariant
<1> SUFFICES ASSUME Init PROVE WorkInvariant
  OBVIOUS
<1>1. /\ task = NewTask /\ (\A w \in Worker : ~Busy(w)) /\ parent[1].pc = "idle"
  BY ConstantsAssumption DEF Init, Busy, Idle, Parent, NewParent
<1>2. DOMAIN task.status = {}
  BY <1>1, NewTaskTyped
<1> QED BY <1>1, <1>2 DEF WorkInvariant, RunLeft, Queueing, HasSubtasks

\* As long as nothing is disturbed, every subtask that is not settled is carried
\* on: by a message of its open attempt, by a worker that has yet to write a
\* result or to submit a retry, or by the parent.
THEOREM WorkIsKept ==
  ASSUME OneAtATime
  PROVE  Spec => [](Undisturbed => WorkInvariant)
<1>1. Init => (Undisturbed => WorkInvariant)
  BY WorkInit
<1>2. /\ JobInvariant /\ (NoSecondResult => LedgerInvariant) /\ (NoSecondResult => LedgerInvariant)'
      /\ (AllWritten => ListsInvariant) /\ (Undisturbed => WorkInvariant) /\ [Next]_vars
      => (Undisturbed => WorkInvariant)'
  <2>1. ASSUME JobInvariant, NoSecondResult => LedgerInvariant,
               (NoSecondResult => LedgerInvariant)', AllWritten => ListsInvariant,
               Undisturbed => WorkInvariant, [Next]_vars, Undisturbed'
        PROVE  WorkInvariant'
    <3>1. Undisturbed /\ AllWritten /\ NoSecondResult /\ NoSecondResult'
      BY <2>1, StillUndisturbed DEF Undisturbed, AllWritten
    <3> QED BY <2>1, <3>1, WorkStep
  <2> QED BY <2>1
<1> QED BY <1>1, <1>2, JobsAgree, LedgerIsKept, ListsAreKept, PTL DEF Spec

\* When nothing is left to run the task is over, so that staff do not watch a bar
\* that no process will ever move again: unless a process died, a write failed,
\* a user left between the two queries, or a handler wrote a second result.
THEOREM NothingIsLeftUndone ==
  ASSUME OneAtATime
  PROVE  Spec => [](NoSecondResult => RestMeansOver)
<1>1. ASSUME JobInvariant, NoSecondResult, Undisturbed => WorkInvariant PROVE RestMeansOver
  <2> SUFFICES ASSUME AtRest, ~Happened({"crash", "database", "unenroll"})
               PROVE  task.task_state \in READY_STATES
    BY DEF RestMeansOver
  <2>1. WorkInvariant
    BY <1>1 DEF Undisturbed, AllWritten, Happened
  <2>2. queue = {} /\ (\A w \in Worker : ~Busy(w)) /\ parent[1].pc = "done"
    BY MembersTyped, <1>1 DEF AtRest
  <2>3. \A id \in DOMAIN task.status : IsSettled(id)
    BY <2>1, <2>2 DEF WorkInvariant, CarriedOn, Queueing
  <2>4. HasSubtasks(task) \/ task.task_state \in READY_STATES
    BY <2>1, <2>2 DEF WorkInvariant, RunLeft
  <2> QED BY <2>1, <2>3, <2>4 DEF WorkInvariant, READY_STATES
<1> QED BY <1>1, JobsAgree, WorkIsKept, PTL
-----------------------------------------------------------------------------
(***************************************************************************)
(* Every recipient is accounted for.  When messages are not duplicated and *)
(* the users stay the same, a subtask is carried by one message or one     *)
(* worker at a time, and the counters of the one that carries it make up   *)
(* for those who have left its list.                                       *)
(***************************************************************************)
Regular == Undisturbed /\ ~Happened({"duplicate", "enroll"})

\* Done with its message: the one it has submitted takes over.
PassedOn(j) == j.pc = "close" /\ j.st.state = "RETRY"
Carrier(w) == Busy(w) /\ ~PassedOn(worker[w])

OneCarrier ==
  /\ \A m \in queue : Open(m)
  /\ \A m, n \in queue : m.id = n.id => m = n
  /\ \A w \in Worker, m \in queue : Carrier(w) => m.id # worker[w].msg.id
  /\ \A v, w \in Worker :
       Carrier(v) /\ Carrier(w) /\ worker[v].msg.id = worker[w].msg.id => v = w

JobAccounted(j) ==
  j.pc \in Fresh \cup {"send"} \/ Retrying(j) => Accounted(j.to, j.st) = ChunkSize(j.msg.id)

\* The chunks have the sizes that the number of users counted asks for.
RunSized(run) ==
  /\ run.pc \in {"define", "generate"} => run.total = Cardinality(enrolled)
  /\ run.pc \in Queueing => task.output.total = run.total
  /\ run.pc = "queue" => \A k \in DOMAIN run.chunks :
       Cardinality(Members(run.chunks[k])) = ChunkSize(<<1, run.next - 1 + k>>)

AccountInvariant ==
  /\ OneCarrier
  /\ \A m \in queue : Accounted(m.to, m.st) = ChunkSize(m.id)
  /\ \A w \in Worker : Busy(w) => JobAccounted(worker[w])
  /\ RunSized(parent[1])

LEMMA StillRegular ==
  ASSUME JobInvariant, [Next]_vars, Regular'
  PROVE  /\ Regular /\ Undisturbed'
         /\ \A e \in {"crash", "database", "broker", "close", "unenroll", "duplicate", "enroll"} :
              ~Event(e)
<1>1. events \in [Events -> Nat] /\ EventsGoOn
  BY EventsOnlyGrow
<1>2. /\ Undisturbed' /\ Undisturbed
      /\ \A e \in {"crash", "database", "broker", "close", "unenroll"} : ~Event(e)
  BY StillUndisturbed DEF Regular
<1>3. ~Happened({"duplicate", "enroll"})
  BY <1>1, HappenedStays DEF Regular
<1>4. ASSUME NEW e \in {"duplicate", "enroll"}, Event(e) PROVE FALSE
  <2>1. e \in Events /\ events'[e] > 0
    BY <1>1, <1>4, EventCounted
  <2> QED BY <2>1 DEF Regular, Happened
<1> QED BY <1>2, <1>3, <1>4 DEF Regular

\* As many elements as the stretch is long, if nobody is twice among the items.
LEMMA PartSize ==
  ASSUME NEW S, NEW s \in Seq(S), IsInjective(s),
         NEW a \in Nat, NEW b \in Nat, a <= b, b <= Len(s),
         NEW part, part = SubSeq(s, a + 1, b)
  PROVE  Cardinality(Members(part)) = b - a
<1>2. Len(s) \in Nat /\ b - a \in Nat
  BY LenProperties
<1>3. \A j \in a + 1 .. b : s[j] \in S
  <2>1. \A j \in a + 1 .. b : j \in 1 .. Len(s)
    BY <1>2
  <2> QED BY <2>1, ElementOfSeq
<1>4. /\ part \in Seq(S) /\ Len(part) = b - a
      /\ \A h \in 1 .. b - a : part[h] = s[a + h]
  <2>1. /\ Len(part) = IF a + 1 <= b THEN b - (a + 1) + 1 ELSE 0
        /\ part \in Seq(S)
        /\ \A h \in 1 .. b - (a + 1) + 1 : part[h] = s[a + 1 + h - 1]
    <3>1. a + 1 \in Int /\ b \in Int
      OBVIOUS
    <3> QED BY <1>3, <3>1, SubSeqProperties
  <2>2. \A h \in 1 .. b - a : a + 1 + h - 1 = a + h
    OBVIOUS
  <2>3. b - (a + 1) + 1 = b - a
    OBVIOUS
  <2> QED BY <1>2, <2>1, <2>2, <2>3
<1>5. DOMAIN part = 1 .. b - a
  BY <1>4, LenProperties
<1> DEFINE T == Members(part)
<1>6. part \in [1 .. b - a -> T] /\ \A t \in T : \E i \in 1 .. b - a : part[i] = t
  <2>1. part = [i \in 1 .. b - a |-> part[i]]
    BY <1>4, <1>5, SeqDef
  <2> QED BY <1>5, <2>1 DEF Members
<1>7. \A i, j \in 1 .. b - a : part[i] = part[j] => i = j
  <2> SUFFICES ASSUME NEW i \in 1 .. b - a, NEW j \in 1 .. b - a, part[i] = part[j]
               PROVE  i = j
    OBVIOUS
  <2>1. a + i \in 1 .. Len(s) /\ a + j \in 1 .. Len(s)
    BY <1>2
  <2>2. s[a + i] = s[a + j]
    BY <1>4
  <2>3. a + i = a + j
    BY <2>1, <2>2 DEF IsInjective
  <2> QED BY <1>2, <2>3
<1> HIDE DEF T
<1>8. part \in Bijection(1 .. b - a, T)
  BY <1>6, <1>7 DEF Bijection, Injection, Surjection, IsInjective
<1>9. ExistsBijection(1 .. b - a, T)
  BY <1>8 DEF ExistsBijection
<1>10. IsFiniteSet(1 .. b - a) /\ Cardinality(1 .. b - a) = b - a
  <2>1. 1 \in Int /\ b - a \in Int
    BY <1>2
  <2>2. /\ IsFiniteSet(1 .. b - a)
        /\ Cardinality(1 .. b - a) = IF 1 > b - a THEN 0 ELSE b - a - 1 + 1
    BY <2>1, FS_Interval
  <2> QED BY <1>2, <2>2
<1>11. Cardinality(T) = b - a
  BY <1>9, <1>10, FS_Bijection
<1> QED BY <1>11 DEF T

\* If the count was right every chunk is full, but the last, which holds the rest.
LEMMA ChunkSizes ==
  ASSUME NEW S, NEW s \in Seq(S), NEW per \in Nat \ {0},
         IsInjective(s),
         NEW k \in 1 .. NumberOfSubtasks(Len(s), per)
  PROVE  LET n == NumberOfSubtasks(Len(s), per)
             chunk == Chunks(s, per, n)[k]
             before == (k - 1) * per
         IN  Cardinality(Members(chunk)) =
              IF before + per <= Len(s) THEN per ELSE Len(s) - before
<1>1. PICK n : n = NumberOfSubtasks(Len(s), per)
  OBVIOUS
<1>2. PICK a : a = (k - 1) * per
  OBVIOUS
<1>3. PICK size : size = Len(s)
  OBVIOUS
<1>4. size \in Nat /\ k \in Nat \ {0}
  <2>1. Len(s) \in Nat
    BY LenProperties
  <2> QED BY <1>3, <2>1, NumberWithinTotal
<1>5. n \in Nat \ {0} /\ per * (n - 1) < size /\ size <= per * n /\ k <= n
  <2>1. n \in 0 .. size /\ n # 0 /\ k <= n
    BY <1>1, <1>3, <1>4, NumberWithinTotal
  <2>2. size \in Nat \ {0}
    BY <1>4, <2>1
  <2> QED BY <1>1, <1>3, <2>1, <2>2, NumberRoundsUp
<1>6. a \in Nat /\ k * per = a + per /\ per * k = a + per
  <2>1. k - 1 \in Nat /\ k = (k - 1) + 1
    BY <1>4
  <2>2. (k - 1) * per \in Nat /\ ((k - 1) + 1) * per = (k - 1) * per + per
    BY <2>1
  <2>3. per * k = k * per
    BY <1>4
  <2> QED BY <1>2, <2>1, <2>2, <2>3
<1>7. PICK b : b = IF k = n THEN size ELSE a + per
  OBVIOUS
<1>8. b \in Nat /\ a <= b /\ b <= size /\ b - a = IF a + per <= size THEN per ELSE size - a
  <2>1. CASE k = n
    <3>1. per * (n - 1) = a
      <4>1. n - 1 \in Nat /\ a = (n - 1) * per
        BY <1>2, <1>5, <2>1
      <4> QED BY <4>1
    <3>2. a < size /\ size <= a + per /\ b = size
      BY <1>5, <1>6, <1>7, <2>1, <3>1
    <3> QED BY <1>4, <1>6, <3>2
  <2>2. CASE k # n
    <3>1. k <= n - 1 /\ n - 1 \in Nat
      BY <1>4, <1>5, <2>2
    <3>2. per * k <= per * (n - 1)
      BY <1>4, <3>1, ProductGrows
    <3>3. per * (n - 1) \in Nat
      BY <3>1
    <3>4. a + per <= size /\ b = a + per
      BY <1>4, <1>5, <1>6, <1>7, <2>2, <3>2, <3>3
    <3> QED BY <1>4, <1>6, <3>4
  <2> QED BY <2>1, <2>2
<1>9. Chunks(s, per, n)[k] = SubSeq(s, a + 1, b)
  <2>1. Chunks(s, per, n) =
          [l \in 1 .. n |-> SubSeq(s, (l - 1) * per + 1, IF l = n THEN Len(s) ELSE l * per)]
    BY <1>1, <1>5 DEF Chunks
  <2>2. k \in 1 .. n
    BY <1>1
  <2>3. Chunks(s, per, n)[k] =
          SubSeq(s, (k - 1) * per + 1, IF k = n THEN Len(s) ELSE k * per)
    BY <2>1, <2>2
  <2> QED BY <1>2, <1>3, <1>6, <1>7, <2>3
<1>10. PICK part : part = SubSeq(s, a + 1, b)
  OBVIOUS
<1>11. Cardinality(Members(part)) = b - a
  <2>1. b <= Len(s)
    BY <1>3, <1>8
  <2> QED BY <1>6, <1>8, <1>10, <2>1, PartSize
<1> QED BY <1>1, <1>2, <1>3, <1>8, <1>9, <1>10, <1>11

\* A step of w on its own job.
LEMMA QuietAccount ==
  ASSUME AccountInvariant, NEW w \in Worker, OnlyMoves(w),
         UNCHANGED <<task, parent, queue, enrolled>>,
         Busy(w)' => /\ Carrier(w) /\ worker'[w].msg = worker[w].msg
                     /\ JobAccounted(worker[w])'
  PROVE  AccountInvariant'
<1>1. \A v \in Worker : Carrier(v)' => Carrier(v) /\ worker'[v].msg = worker[v].msg
  BY DEF OnlyMoves, Carrier, Busy
<1>2. \A m : Open(m)' <=> Open(m)
  BY DEF Open, Unsettled, IsSettled, Recorded, Attempt
<1>3. OneCarrier'
  <2>1. \A v, u \in Worker :
          Carrier(v)' /\ Carrier(u)' /\ worker'[v].msg.id = worker'[u].msg.id => v = u
    BY <1>1 DEF AccountInvariant, OneCarrier
  <2>2. \A v \in Worker, m \in queue' : Carrier(v)' => m.id # worker'[v].msg.id
    BY <1>1 DEF AccountInvariant, OneCarrier
  <2>3. \A m \in queue' : Open(m)'
    BY <1>2 DEF AccountInvariant, OneCarrier
  <2>4. \A m, n \in queue' : m.id = n.id => m = n
    BY DEF AccountInvariant, OneCarrier
  <2> QED BY <2>1, <2>2, <2>3, <2>4 DEF OneCarrier
<1>4. \A v \in Worker : (Busy(v) => JobAccounted(worker[v]))'
  BY DEF OnlyMoves, Busy, AccountInvariant, JobAccounted, Retrying, ChunkSize
<1>5. \A m \in queue' : (Accounted(m.to, m.st) = ChunkSize(m.id))'
  BY DEF AccountInvariant, Accounted, ChunkSize
<1>6. RunSized(parent[1])'
  BY DEF AccountInvariant, RunSized, ChunkSize
<1> QED BY <1>3, <1>4, <1>5, <1>6 DEF AccountInvariant

\* What a job that has not been passed on may become.
LEMMA KeepsAccount ==
  ASSUME AccountInvariant, NEW w \in Worker, OnlyMoves(w), Carrier(w),
         UNCHANGED <<task, parent, queue, enrolled>>,
         NEW pc, NEW to, NEW st, NEW depth, NEW skip,
         Becomes(worker'[w], worker[w], pc, to, st, depth, skip),
         pc \in Fresh \cup {"send"} \/ (st.state = "RETRY" /\ pc \in {"update", "release", "retry"})
           => Accounted(to, st) = ChunkSize(worker[w].msg.id)
  PROVE  AccountInvariant'
<1>1. /\ worker'[w].msg = worker[w].msg /\ worker'[w].pc = pc
      /\ worker'[w].to = to /\ worker'[w].st = st
  BY DEF Becomes
<1>2. JobAccounted(worker[w])'
  BY <1>1 DEF JobAccounted, Retrying, Accounted, ChunkSize
<1> QED BY <1>1, <1>2, QuietAccount

\* The steps of a worker that neither receive, nor write, nor submit a retry.
LEMMA QuietSizes ==
  ASSUME JobInvariant, ListsInvariant, AccountInvariant, NEW w \in Worker, HasJob(w),
         UNCHANGED <<task, parent, queue, enrolled>>, ~Event("close"),
         \/ CheckSubtask(w) \/ AcquireLock(w) \/ Prepare(w) \/ SendEmail(w) \/ RefuseEmail(w)
         \/ ThrottleEmail(w) \/ DropConnection(w) \/ AbortSending(w) \/ FinishSending(w)
         \/ CloseConnection(w) \/ ReleaseLock(w) \/ SubmitRetry(w)
  PROVE  AccountInvariant'
<1> DEFINE job == worker[w]
           q == worker'[w]
           size == ChunkSize(job.msg.id)
           Keeps(pc, to, st) ==
             pc \in Fresh \cup {"send"} \/ (st.state = "RETRY" /\ pc \in {"update", "release", "retry"})
               => Accounted(to, st) = size
<1>1. /\ Busy(w) /\ JobAccounted(job) /\ job.st \in SubtaskStatus /\ job.to \in SUBSET Recipient
      /\ job.pc # "unwind"
  BY BusyJobs, JobFields DEF HasJob, AccountInvariant, ListsInvariant, ListsUnsent, JobListOK
<1>2. job.pc # "close" => Carrier(w)
  BY <1>1 DEF Carrier, PassedOn
<1>3. ASSUME OnlyMoves(w), Carrier(w), NEW pc, NEW to, NEW st, NEW depth, NEW skip,
             Becomes(q, job, pc, to, st, depth, skip), Keeps(pc, to, st)
      PROVE  AccountInvariant'
  BY <1>3, KeepsAccount
<1>4. ASSUME OnlyMoves(w), q = Idle PROVE AccountInvariant'
  BY <1>4, QuietAccount DEF Busy, Idle
<1>5. CASE CheckSubtask(w)
  <2>1. job.pc = "check" /\ Accounted(job.to, job.st) = size
    BY <1>1, <1>5, Checks DEF JobAccounted, Fresh
  <2>2. OnlyMoves(w) /\ \/ Becomes(q, job, "lock", job.to, job.st, job.depth, job.skip_retry_max)
                        \/ q = Idle
    BY <1>5, Checks
  <2> QED BY <1>2, <1>3, <1>4, <2>1, <2>2
<1>6. CASE AcquireLock(w)
  <2>1. job.pc = "lock" /\ Accounted(job.to, job.st) = size
    BY <1>1, <1>6, Locks DEF JobAccounted, Fresh
  <2>2. OnlyMoves(w) /\ \/ Becomes(q, job, "prepare", job.to, job.st, job.depth, job.skip_retry_max)
                        \/ q = Idle
    BY <1>6, Locks
  <2> QED BY <1>2, <1>3, <1>4, <2>1, <2>2
<1>7. CASE Prepare(w)
  <2> DEFINE to == IF RetryCount(job.st) = 0 THEN job.to \ optout ELSE job.to
  <2>1. job.pc = "prepare" /\ Accounted(job.to, job.st) = size
    BY <1>1, <1>7, Prepares DEF JobAccounted, Fresh
  <2>2. PICK st :
          /\ OnlyMoves(w) /\ SameRetries(st, job.st)
          /\ Accounted(to, st) = Accounted(job.to, job.st)
          /\ \/ Becomes(q, job, "send", to, st, 1, FALSE)
             \/ Becomes(q, job, "update", to, Disconnected(st), 1, FALSE)
             \/ Becomes(q, job, "close", to, GiveUp(st, to), 1, FALSE)
             \/ \E t : /\ Becomes(q, job, "update", job.to, t, 1, FALSE)
                       /\ t.state = "FAILURE"
    BY <1>7, Prepares
  <2>3. to \in SUBSET Recipient /\ st \in SubtaskStatus
    BY <1>1, <2>2 DEF SameRetries
  <2> HIDE DEF to
  <2>4. Accounted(to, Disconnected(st)) = size
    BY <2>1, <2>2, <2>3, CountsKept
  <2>5. /\ Keeps("send", to, st) /\ Keeps("update", to, Disconnected(st))
        /\ Keeps("close", to, GiveUp(st, to))
        /\ \A t : t.state = "FAILURE" => Keeps("update", job.to, t)
    BY <2>1, <2>2, <2>4 DEF Fresh
  <2> HIDE DEF Keeps
  <2> QED BY <1>2, <1>3, <2>1, <2>2, <2>5
<1>8. CASE \/ SendEmail(w) \/ RefuseEmail(w) \/ ThrottleEmail(w) \/ DropConnection(w)
           \/ AbortSending(w) \/ FinishSending(w)
  <2>1. job.pc = "send" /\ OnlyMoves(w) /\ Accounted(job.to, job.st) = size
    BY <1>1, <1>8, Sends DEF JobAccounted
  <2>2. \/ \E r \in job.to : \E t :
             /\ Accounted(job.to \ {r}, t) = size
             /\ Becomes(q, job, "send", job.to \ {r}, t, 1, FALSE)
        \/ Becomes(q, job, "update", job.to, Throttled(job.st), 1, TRUE)
        \/ Becomes(q, job, "update", job.to, Disconnected(job.st), 1, FALSE)
        \/ \E t : Becomes(q, job, "close", job.to, t, 1, FALSE)
    BY <1>8, <2>1, Sends
  <2>3. /\ Accounted(job.to, Throttled(job.st)) = size
        /\ Accounted(job.to, Disconnected(job.st)) = size
    BY <1>1, <2>1, CountsKept
  <2>4. /\ \A r, t : Accounted(job.to \ {r}, t) = size => Keeps("send", job.to \ {r}, t)
        /\ Keeps("update", job.to, Throttled(job.st))
        /\ Keeps("update", job.to, Disconnected(job.st))
        /\ \A t : Keeps("close", job.to, t)
    BY <2>3 DEF Fresh
  <2> HIDE DEF Keeps
  <2> QED BY <1>2, <1>3, <2>1, <2>2, <2>4
<1>9. CASE CloseConnection(w)
  <2>1. /\ job.pc = "close" /\ OnlyMoves(w)
        /\ \/ q = Idle
           \/ job.st.state # "RETRY" /\ Becomes(q, job, "update", job.to, job.st, 1, FALSE)
    BY <1>9, Closes
  <2>2. job.st.state # "RETRY" => Carrier(w) /\ Keeps("update", job.to, job.st)
    BY <1>1 DEF Carrier, PassedOn, Fresh
  <2> HIDE DEF Keeps
  <2> QED BY <1>3, <1>4, <2>1, <2>2
<1>10. CASE ReleaseLock(w)
  <2>1. job.pc = "release" /\ OnlyMoves(w)
    BY <1>1, <1>10, Releases
  <2>2. job.st.state = "RETRY" => Accounted(job.to, job.st) = size
    BY <1>1, <2>1 DEF JobAccounted, Retrying
  <2>3. /\ Keeps("release", job.to, job.st) /\ Keeps("retry", job.to, job.st)
    BY <2>2 DEF Fresh
  <2>4. \/ Becomes(q, job, "release", job.to, job.st, job.depth - 1, job.skip_retry_max)
        \/ Becomes(q, job, "retry", job.to, job.st, job.depth, job.skip_retry_max)
        \/ q = Idle
    BY <1>10, <2>1, Releases
  <2> HIDE DEF Keeps
  <2> QED BY <1>2, <1>3, <1>4, <2>1, <2>3, <2>4
<1>11. CASE SubmitRetry(w)
  <2>1. /\ job.pc = "retry" /\ OnlyMoves(w)
        /\ \E t, depth, skip : Becomes(q, job, "close", job.to, t, depth, skip)
    BY <1>11, Submits
  <2>2. \A t : Keeps("close", job.to, t)
    BY DEF Fresh
  <2> HIDE DEF Keeps
  <2> QED BY <1>2, <1>3, <2>1, <2>2
<1> QED BY <1>5, <1>6, <1>7, <1>8, <1>9, <1>10, <1>11

\* The worker takes the place of its message.
LEMMA ReceiveAccount ==
  ASSUME JobInvariant, AccountInvariant, NEW w \in Worker, Receive(w), ~Event("duplicate")
  PROVE  AccountInvariant'
<1>1. DOMAIN worker = Worker
  BY BusyJobs
<1>2. PICK m \in queue : worker' = [worker EXCEPT ![w] = Running(m)] /\ queue' = queue \ {m}
  BY DEF Receive
<1>3. ~Busy(w) /\ UNCHANGED <<task, parent, enrolled>>
  BY DEF Receive, envVars
<1>4. /\ \A v \in Worker \ {w} : worker'[v] = worker[v]
      /\ worker'[w].pc = "check" /\ worker'[w].msg = m /\ worker'[w].to = m.to
      /\ worker'[w].st = m.st
  BY <1>1, <1>2 DEF Running
<1>5. \A n : Open(n)' <=> Open(n)
  BY <1>3 DEF Open, Unsettled, IsSettled, Recorded, Attempt
<1>6. \A v \in Worker \ {w} : Carrier(v)' => Carrier(v) /\ m.id # worker[v].msg.id
  BY <1>4 DEF Carrier, Busy, AccountInvariant, OneCarrier
<1>7. OneCarrier'
  <2>1. \A n \in queue' : Open(n)'
    BY <1>2, <1>5 DEF AccountInvariant, OneCarrier
  <2>2. \A n, o \in queue' : n.id = o.id => n = o
    BY <1>2 DEF AccountInvariant, OneCarrier
  <2>3. \A v \in Worker, n \in queue' : Carrier(v)' => n.id # worker'[v].msg.id
    <3>1. \A n \in queue' : n.id # worker'[w].msg.id
      BY <1>2, <1>4 DEF AccountInvariant, OneCarrier
    <3>2. \A v \in Worker \ {w}, n \in queue' : Carrier(v)' => n.id # worker'[v].msg.id
      BY <1>2, <1>4, <1>6 DEF AccountInvariant, OneCarrier
    <3> QED BY <3>1, <3>2
  <2>4. \A u, v \in Worker :
          Carrier(u)' /\ Carrier(v)' /\ worker'[u].msg.id = worker'[v].msg.id => u = v
    BY <1>4, <1>6 DEF AccountInvariant, OneCarrier
  <2> QED BY <2>1, <2>2, <2>3, <2>4 DEF OneCarrier
<1>8. \A n \in queue' : (Accounted(n.to, n.st) = ChunkSize(n.id))'
  BY <1>2, <1>3 DEF AccountInvariant, Accounted, ChunkSize
<1>9. \A v \in Worker : (Busy(v) => JobAccounted(worker[v]))'
  <2>1. JobAccounted(worker[w])'
    BY <1>2, <1>3, <1>4 DEF AccountInvariant, JobAccounted, Accounted, ChunkSize
  <2>2. \A v \in Worker \ {w} : (Busy(v) => JobAccounted(worker[v]))'
    BY <1>3, <1>4 DEF AccountInvariant, JobAccounted, Retrying, Accounted, ChunkSize, Busy
  <2> QED BY <2>1, <2>2
<1>10. RunSized(parent[1])'
  BY <1>3 DEF AccountInvariant, RunSized, ChunkSize
<1> QED BY <1>7, <1>8, <1>9, <1>10 DEF AccountInvariant

\* No message is about the subtask whose result is written.
LEMMA WriteAccount ==
  ASSUME JobInvariant, LedgerInvariant, AccountInvariant, NEW w \in Worker, HasJob(w),
         WriteStatus(w)
  PROVE  AccountInvariant'
<1> DEFINE job == worker[w]
           q == worker'[w]
<1>1. /\ job.pc = "update" /\ OnlyMoves(w) /\ Carrier(w)
      /\ UNCHANGED <<queue, parent, enrolled>>
      /\ Becomes(q, job, "release", job.to, job.st, job.depth, job.skip_retry_max)
  BY Writes DEF WriteStatus, updateVars, envVars, Busy, Carrier, PassedOn
<1>2. /\ q.msg = job.msg /\ q.pc = "release" /\ q.to = job.to /\ q.st = job.st
  BY <1>1 DEF Becomes
<1>3. /\ Unsettled(job.msg.id)
      /\ task'.status = [task.status EXCEPT ![job.msg.id] = job.st]
      /\ task'.output.total = task.output.total
  BY WriteLedger
<1>4. \A id : ChunkSize(id)' = ChunkSize(id)
  BY <1>3 DEF ChunkSize
<1>5. \A m \in queue : m.id # job.msg.id
  BY <1>1 DEF AccountInvariant, OneCarrier
<1>6. \A m \in queue : Open(m) => Open(m)'
  BY <1>3, <1>5 DEF Open, Unsettled, IsSettled, Recorded, Attempt
<1>7. \A v \in Worker : (Carrier(v)' => Carrier(v)) /\ (Busy(v)' => worker'[v].msg = worker[v].msg)
  BY <1>1, <1>2 DEF OnlyMoves, Carrier, Busy
<1>8. OneCarrier'
  <2>1. \A m \in queue' : Open(m)'
    BY <1>1, <1>6 DEF AccountInvariant, OneCarrier
  <2>2. \A m, n \in queue' : m.id = n.id => m = n
    BY <1>1 DEF AccountInvariant, OneCarrier
  <2>3. \A v \in Worker, m \in queue' : Carrier(v)' => m.id # worker'[v].msg.id
    BY <1>1, <1>7 DEF AccountInvariant, OneCarrier, Carrier
  <2>4. \A u, v \in Worker :
          Carrier(u)' /\ Carrier(v)' /\ worker'[u].msg.id = worker'[v].msg.id => u = v
    BY <1>7 DEF AccountInvariant, OneCarrier, Carrier
  <2> QED BY <2>1, <2>2, <2>3, <2>4 DEF OneCarrier
<1>9. \A m \in queue' : (Accounted(m.to, m.st) = ChunkSize(m.id))'
  BY <1>1, <1>4 DEF AccountInvariant, Accounted
<1>10. ASSUME NEW v \in Worker, Busy(v)' PROVE JobAccounted(worker[v])'
  <2>1. CASE v = w
    BY <1>1, <1>2, <1>4, <2>1 DEF AccountInvariant, JobAccounted, Retrying, Accounted, Carrier, Fresh
  <2>2. CASE v # w
    BY <1>1, <1>4, <1>10, <2>2
       DEF OnlyMoves, Busy, AccountInvariant, JobAccounted, Retrying, Accounted
  <2> QED BY <2>1, <2>2
<1>11. RunSized(parent[1])'
  BY <1>1, <1>3, <1>4 DEF AccountInvariant, RunSized
<1> QED BY <1>8, <1>9, <1>10, <1>11 DEF AccountInvariant

\* The message of the retry takes the place of the worker.
LEMMA SubmitAccount ==
  ASSUME JobInvariant, LedgerInvariant, ListsInvariant, AccountInvariant,
         NEW w \in Worker, HasJob(w), SubmitRetry(w), ~Event("close")
  PROVE  AccountInvariant'
<1> DEFINE job == worker[w]
           q == worker'[w]
<1>1. /\ job.pc = "retry" /\ OnlyMoves(w) /\ Carrier(w)
      /\ UNCHANGED <<task, parent, enrolled>>
  BY Submits DEF SubmitRetry, envVars, Busy, Carrier, PassedOn
<1>2. CASE queue' = queue
  BY <1>1, <1>2, QuietSizes
<1>3. CASE /\ queue' = queue \cup {NextAttempt(job)}
           /\ Becomes(q, job, "close", job.to, job.st, job.depth, job.skip_retry_max)
  <2> PICK m : m = NextAttempt(job)
    OBVIOUS
  <2>1. JobOK(job) /\ job.st.state = "RETRY" /\ Waiting(job.msg) /\ Busy(w)
    BY <1>1 DEF JobInvariant, JobOK, RetriesOK, LedgerInvariant, ClaimOK, Late, Carrier
  <2>2. /\ q.msg = job.msg /\ q.pc = "close" /\ q.st = job.st /\ ~Carrier(w)'
    BY <1>3, <2>1 DEF Becomes, Carrier, PassedOn
  <2>3. m.id = job.msg.id /\ m.to = job.to /\ m.st = job.st /\ Open(m)
    <3>1. RetryCount(job.st) = RetryCount(job.msg.st) + 1
      BY <1>1, <2>1 DEF JobOK, RetriesOK, Fresh
    <3> QED BY <2>1, <3>1 DEF NextAttempt, Open, Waiting, Attempt
  <2>4. \A n : Open(n)' <=> Open(n)
    BY <1>1 DEF Open, Unsettled, IsSettled, Recorded, Attempt
  <2>5. \A n \in queue : n.id # m.id
    BY <1>1, <2>3 DEF AccountInvariant, OneCarrier
  <2>6. \A v \in Worker :
          Carrier(v)' => v # w /\ Carrier(v) /\ worker'[v] = worker[v] /\ m.id # worker[v].msg.id
    BY <1>1, <2>2, <2>3 DEF OnlyMoves, Carrier, Busy, AccountInvariant, OneCarrier
  <2>7. OneCarrier'
    <3>1. \A n \in queue' : Open(n)'
      BY <1>3, <2>3, <2>4 DEF AccountInvariant, OneCarrier
    <3>2. \A n, o \in queue' : n.id = o.id => n = o
      BY <1>3, <2>5 DEF AccountInvariant, OneCarrier
    <3>3. \A v \in Worker, n \in queue' : Carrier(v)' => n.id # worker'[v].msg.id
      BY <1>3, <2>6 DEF AccountInvariant, OneCarrier
    <3>4. \A u, v \in Worker :
            Carrier(u)' /\ Carrier(v)' /\ worker'[u].msg.id = worker'[v].msg.id => u = v
      BY <2>6 DEF AccountInvariant, OneCarrier
    <3> QED BY <3>1, <3>2, <3>3, <3>4 DEF OneCarrier
  <2>8. \A n \in queue' : (Accounted(n.to, n.st) = ChunkSize(n.id))'
    <3>1. Accounted(m.to, m.st) = ChunkSize(m.id)
      BY <1>1, <2>1, <2>3 DEF AccountInvariant, JobAccounted, Retrying
    <3> QED BY <1>1, <1>3, <3>1 DEF AccountInvariant, Accounted, ChunkSize
  <2>9. ASSUME NEW v \in Worker, Busy(v)' PROVE JobAccounted(worker[v])'
    <3>1. CASE v = w
      BY <2>2, <3>1 DEF JobAccounted, Retrying, Fresh
    <3>2. CASE v # w
      BY <1>1, <2>9, <3>2
         DEF OnlyMoves, Busy, AccountInvariant, JobAccounted, Retrying, Accounted, ChunkSize
    <3> QED BY <3>1, <3>2
  <2>10. RunSized(parent[1])'
    BY <1>1 DEF AccountInvariant, RunSized, ChunkSize
  <2> QED BY <2>7, <2>8, <2>9, <2>10 DEF AccountInvariant
<1> QED BY <1>2, <1>3, Submits

LEMMA WorkerAccount ==
  ASSUME JobInvariant, LedgerInvariant, ListsInvariant, AccountInvariant,
         NEW w \in Worker, WorkerNext(w), ~Event("close"), ~Event("database"), ~Event("duplicate")
  PROVE  AccountInvariant'
<1>1. CASE ~Busy(w)
  <2>1. Receive(w)
    BY <1>1 DEF WorkerNext, Busy, CheckSubtask, AcquireLock, Prepare, SendEmail, RefuseEmail,
         ThrottleEmail, DropConnection, AbortSending, FinishSending, Sending, CloseConnection,
         WriteStatus, RejectWrite, FailWrite, ReleaseLock, SubmitRetry
  <2> QED BY <2>1, ReceiveAccount
<1>2. CASE Busy(w)
  <2>1. HasJob(w) /\ ~Receive(w)
    BY <1>2, BusyJobs DEF Receive
  <2>2. CASE WriteStatus(w)
    BY <2>1, <2>2, WriteAccount
  <2>3. CASE SubmitRetry(w)
    BY <2>1, <2>3, SubmitAccount
  <2>4. ~RejectWrite(w) /\ ~FailWrite(w)
    BY <1>2, NothingRejected DEF FailWrite
  <2>5. CASE \/ CheckSubtask(w) \/ AcquireLock(w) \/ Prepare(w) \/ SendEmail(w)
             \/ RefuseEmail(w) \/ ThrottleEmail(w) \/ DropConnection(w) \/ AbortSending(w)
             \/ FinishSending(w) \/ CloseConnection(w) \/ ReleaseLock(w)
    <3>1. UNCHANGED <<task, parent, queue, enrolled>>
      BY <2>5 DEF CheckSubtask, AcquireLock, Prepare, SendEmail, RefuseEmail, ThrottleEmail,
         DropConnection, AbortSending, FinishSending, CloseConnection, ReleaseLock, sendVars,
         updateVars, envVars
    <3> QED BY <2>1, <2>5, <3>1, QuietSizes
  <2> QED BY <2>1, <2>2, <2>3, <2>4, <2>5 DEF WorkerNext
<1> QED BY <1>1, <1>2

LEMMA SameAccount ==
  ASSUME AccountInvariant, UNCHANGED <<task, worker, queue>>, RunSized(parent[1])'
  PROVE  AccountInvariant'
<1>1. \A m : Open(m)' <=> Open(m)
  BY DEF Open, Unsettled, IsSettled, Recorded, Attempt
<1>2. OneCarrier'
  BY <1>1 DEF AccountInvariant, OneCarrier, Carrier, Busy
<1>3. \A m \in queue' : (Accounted(m.to, m.st) = ChunkSize(m.id))'
  BY DEF AccountInvariant, Accounted, ChunkSize
<1>4. \A v \in Worker : (Busy(v) => JobAccounted(worker[v]))'
  BY DEF AccountInvariant, JobAccounted, Retrying, Accounted, ChunkSize, Busy
<1> QED BY <1>2, <1>3, <1>4 DEF AccountInvariant

\* Before the first message there is nobody to account for.
LEMMA NoAccountYet ==
  ASSUME LedgerInvariant, ~HasSubtasks(task), UNCHANGED <<worker, queue>>, RunSized(parent[1])'
  PROVE  AccountInvariant'
<1>1. queue' = {} /\ \A v \in Worker : ~Busy(v)'
  BY DEF LedgerInvariant, RowPhase, Busy
<1> QED BY <1>1 DEF AccountInvariant, OneCarrier, Carrier

LEMMA DefineAccount ==
  ASSUME JobInvariant, LedgerInvariant, AccountInvariant, DefineSubtasks(1)
  PROVE  AccountInvariant'
<1>1. /\ ParentsTyped /\ 1 \in Parent /\ RunOK(parent[1]) /\ IsTask(parent[1].row, SubtaskId)
  BY MembersTyped, TypeParts, RunFields DEF JobInvariant, ParentsTyped, RunTyped
<1>2. /\ parent[1].pc = "define"
      /\ task' = InitializeSubtaskInfo(parent[1].row, parent[1].total, SubtaskIds(1))
      /\ parent'[1].pc = "generate" /\ parent'[1].total = parent[1].total
      /\ UNCHANGED <<queue, worker, enrolled>>
  BY <1>1, ParentDefines DEF RunBecomes, DefineSubtasks, parentVars, envVars
<1>3. /\ ~HasSubtasks(task) /\ parent[1].total # 0
      /\ parent[1].total \in 0 .. Cardinality(Recipient)
  BY <1>1, <1>2 DEF LedgerInvariant, ParentPhase, Defined, Blank, RunOK
<1>4. task'.output.total = parent[1].total
  BY <1>1, <1>2, <1>3, DefinedRow
<1>5. RunSized(parent[1])'
  BY <1>2, <1>4 DEF AccountInvariant, RunSized
<1> QED BY <1>2, <1>3, <1>5, NoAccountYet

\* The users are those that were counted, so that the chunks have the right sizes.
LEMMA GenerateAccount ==
  ASSUME JobInvariant, AccountInvariant, GenerateChunks(1)
  PROVE  AccountInvariant'
<1> PICK n : n = NumberOfSubtasks(parent[1].total, ItemsPerTask)
  OBVIOUS
<1>1. ParentsTyped /\ enrolled \in SUBSET Recipient /\ 1 \in Parent /\ RunOK(parent[1])
  BY TypeParts, MembersTyped DEF JobInvariant
<1>2. PICK s \in Orderings(enrolled) :
        /\ parent[1].pc = "generate" /\ parent[1].next = 1
        /\ parent'[1].pc = "queue" /\ parent'[1].chunks = Chunks(s, ItemsPerTask, n)
        /\ parent'[1].next = 1 /\ parent'[1].total = parent[1].total
  BY <1>1, ParentGenerates DEF RunBecomes, RunOK
<1>3. UNCHANGED <<worker, queue, task, enrolled>>
  BY DEF GenerateChunks, parentVars, envVars
<1>4. n \in Nat /\ ItemsPerTask \in Nat \ {0}
  BY <1>1, IdsTyped, ConstantsAssumption, SizeOf DEF RunOK
<1>5. s \in Seq(enrolled) /\ Len(s) = Cardinality(enrolled) /\ IsInjective(s)
  <2>1. Cardinality(enrolled) \in Nat /\ s \in [1 .. Cardinality(enrolled) -> enrolled]
    BY <1>1, SizeOf DEF Orderings
  <2>2. s \in Seq(enrolled) /\ Len(s) = Cardinality(enrolled)
    BY <1>1, <2>1, OrderingTyped
  <2> QED BY <2>1, <2>2 DEF Orderings, IsInjective
<1>6. /\ parent[1].total = Len(s) /\ task.output.total = Len(s)
      /\ n = NumberOfSubtasks(Len(s), ItemsPerTask)
  BY <1>2, <1>5 DEF AccountInvariant, RunSized, Queueing
<1>7. ASSUME NEW k \in DOMAIN parent'[1].chunks
      PROVE  Cardinality(Members(parent'[1].chunks[k])) = ChunkSize(<<1, 1 - 1 + k>>)'
  <2>1. DOMAIN Chunks(s, ItemsPerTask, n) = 1 .. n
    <3>1. n <= NumberOfSubtasks(Len(s), ItemsPerTask)
      BY <1>4, <1>6
    <3>2. Len(Chunks(s, ItemsPerTask, n)) = n
      BY <1>4, <1>5, <3>1, ChunksEnough
    <3>3. Chunks(s, ItemsPerTask, n) \in Seq(Seq(Recipient))
      BY <1>1, <1>4, <1>5, ChunksTyped
    <3> QED BY <3>2, <3>3
  <2>2. k \in 1 .. n /\ k \in Nat /\ 1 - 1 + k = k
    BY <1>2, <1>4, <1>7, <2>1
  <2>3. Cardinality(Members(Chunks(s, ItemsPerTask, n)[k])) =
          IF (k - 1) * ItemsPerTask + ItemsPerTask <= Len(s)
          THEN ItemsPerTask ELSE Len(s) - (k - 1) * ItemsPerTask
    BY <1>4, <1>5, <1>6, <2>2, ChunkSizes
  <2> QED BY <1>2, <1>3, <1>6, <2>2, <2>3 DEF ChunkSize
<1>8. RunSized(parent[1])'
  BY <1>2, <1>3, <1>7 DEF AccountInvariant, RunSized, Queueing
<1> QED BY <1>3, <1>8, SameAccount

\* Nobody carries the subtask that is queued, and its message has all of the chunk.
LEMMA QueueAccount ==
  ASSUME JobInvariant, WorkInvariant, AccountInvariant, QueueSubtask(1), ~Event("broker")
  PROVE  AccountInvariant'
<1> PICK k : k = parent[1].next
  OBVIOUS
<1> PICK chunks : chunks = parent[1].chunks
  OBVIOUS
<1>1. /\ ParentsTyped /\ 1 \in Parent /\ RunOK(parent[1]) /\ k \in Nat
      /\ chunks \in Seq(Seq(Recipient))
  BY TypeParts, MembersTyped, RunFields DEF JobInvariant, ParentsTyped, RunTyped
<1>2. PICK m : m = [id |-> <<1, k>>, to |-> Members(Head(chunks)), st |-> NewStatus]
  OBVIOUS
<1>3. /\ parent[1].pc = "queue" /\ queue' = queue \cup {m} /\ chunks # <<>>
      /\ UNCHANGED <<worker, task, enrolled>> /\ m.id \in SubtaskIds(1)
      /\ parent'[1].pc = "queue" /\ parent'[1].next = k + 1
      /\ parent'[1].total = parent[1].total /\ parent'[1].chunks = Tail(chunks)
  BY <1>1, <1>2, ParentQueues DEF RunBecomes, QueueSubtask, parentVars, envVars
<1>4. /\ m.id \in DOMAIN task.status /\ task.status[m.id] = NewStatus
      /\ \A o \in Held : o.id # m.id
  <2>1. /\ DOMAIN task.status = {1} \X (1 .. NumberOfSubtasks(parent[1].total, ItemsPerTask))
        /\ \A id \in DOMAIN task.status :
             id[2] >= k => task.status[id] = NewStatus /\ \A o \in Held : o.id # id
    BY <1>3 DEF WorkInvariant, RunLeft, Queueing
  <2>2. m.id \in DOMAIN task.status /\ m.id[2] >= k
    BY <1>1, <1>2, <1>3, <2>1 DEF SubtaskIds
  <2> QED BY <2>1, <2>2
<1>5. Open(m)
  <2>1. Attempt(m) = Recorded(m.id)
    BY <1>2, <1>4 DEF Attempt, Recorded
  <2> QED BY <1>4, <2>1 DEF Open, Unsettled, IsSettled, NewStatus, READY_STATES
<1>6. \A o : Open(o)' <=> Open(o)
  BY <1>3 DEF Open, Unsettled, IsSettled, Recorded, Attempt
<1>7. /\ \A o \in queue : o.id # m.id
      /\ \A w \in Worker : Busy(w) => worker[w].msg.id # m.id
  BY <1>4 DEF Held
<1>8. OneCarrier'
  <2>1. \A o \in queue' : Open(o)'
    BY <1>3, <1>5, <1>6 DEF AccountInvariant, OneCarrier
  <2>2. \A o, q \in queue' : o.id = q.id => o = q
    BY <1>3, <1>7 DEF AccountInvariant, OneCarrier
  <2>3. \A w \in Worker, o \in queue' : Carrier(w)' => o.id # worker'[w].msg.id
    BY <1>3, <1>7 DEF AccountInvariant, OneCarrier, Carrier, Busy
  <2>4. \A v, w \in Worker :
          Carrier(v)' /\ Carrier(w)' /\ worker'[v].msg.id = worker'[w].msg.id => v = w
    BY <1>3 DEF AccountInvariant, OneCarrier, Carrier, Busy
  <2> QED BY <2>1, <2>2, <2>3, <2>4 DEF OneCarrier
<1>9. \A c \in DOMAIN chunks : Cardinality(Members(chunks[c])) = ChunkSize(<<1, k - 1 + c>>)
  BY <1>3 DEF AccountInvariant, RunSized
<1>10. Accounted(m.to, m.st) = ChunkSize(m.id)
  <2>1. 1 \in DOMAIN chunks /\ m.to = Members(chunks[1]) /\ k - 1 + 1 = k
    BY <1>1, <1>2, <1>3
  <2>2. Cardinality(m.to) = ChunkSize(<<1, k>>)
    BY <1>9, <2>1
  <2>3. /\ m.st.succeeded = 0 /\ m.st.failed = 0 /\ m.st.skipped = 0
        /\ Cardinality(m.to) \in Nat /\ m.id = <<1, k>>
    <3>1. m.to \in SUBSET Recipient
      BY <1>1, <1>2, <1>3, ParentQueues DEF Message
    <3> QED BY <1>2, <3>1, SizeOf DEF NewStatus
  <2> QED BY <2>2, <2>3 DEF Accounted
<1>11. \A o \in queue' : (Accounted(o.to, o.st) = ChunkSize(o.id))'
  BY <1>3, <1>10 DEF AccountInvariant, Accounted, ChunkSize
<1>12. \A w \in Worker : (Busy(w) => JobAccounted(worker[w]))'
  BY <1>3 DEF AccountInvariant, JobAccounted, Retrying, Accounted, ChunkSize, Busy
<1>13. RunSized(parent[1])'
  <2> PICK rest : rest = Tail(chunks)
    OBVIOUS
  <2> PICK next : next = k + 1
    OBVIOUS
  <2>1. parent'[1].pc = "queue" /\ parent'[1].chunks = rest /\ parent'[1].next = next
    BY <1>3
  <2>2. ASSUME NEW c \in DOMAIN rest
        PROVE  Cardinality(Members(rest[c])) = ChunkSize(<<1, next - 1 + c>>)
    <3>1. c \in Nat /\ c + 1 \in DOMAIN chunks /\ rest[c] = chunks[c + 1]
      BY <1>1, <1>3, <2>2
    <3>2. k - 1 + (c + 1) = next - 1 + c
      <4>1. \A a, b \in Nat : a - 1 + (b + 1) = (a + 1) - 1 + b
        OBVIOUS
      <4> QED BY <1>1, <3>1, <4>1
    <3> QED BY <1>9, <3>1, <3>2
  <2>3. ASSUME NEW c \in DOMAIN parent'[1].chunks
        PROVE  (Cardinality(Members(parent[1].chunks[c])) =
                  ChunkSize(<<1, parent[1].next - 1 + c>>))'
    <3>1. Cardinality(Members(parent'[1].chunks[c])) = ChunkSize(<<1, parent'[1].next - 1 + c>>)
      BY <2>1, <2>2, <2>3
    <3> QED BY <1>3, <3>1 DEF ChunkSize
  <2>4. task'.output.total = parent'[1].total
    BY <1>3 DEF AccountInvariant, RunSized, Queueing
  <2> QED BY <2>1, <2>3, <2>4 DEF RunSized
<1> QED BY <1>8, <1>11, <1>12, <1>13 DEF AccountInvariant

LEMMA ParentAccount ==
  ASSUME "redeliver" \notin Events, JobInvariant, LedgerInvariant, WorkInvariant,
         AccountInvariant, NEW p \in Parent, ParentNext(p), ~Event("broker")
  PROVE  AccountInvariant'
<1>1. /\ ParentsTyped /\ IsTask(task, SubtaskId) /\ RunOK(parent[p])
  BY TypeParts DEF JobInvariant
<1>2. p = 1 /\ UNCHANGED <<worker, enrolled>>
  BY ParentLedger, ParentLeavesAlone, TypeParts DEF JobInvariant, parentVars, envVars
<1>3. /\ parent[1].pc \notin Defined \cup {"done"} => ~HasSubtasks(task)
      /\ parent[1].pc = "finish" => HasSubtasks(task)
  BY DEF LedgerInvariant, ParentPhase, Blank, HasSubtasks, Defined
<1>4. ASSUME parent[1].pc \notin Defined \cup {"done"}, UNCHANGED queue,
             parent'[1].pc \notin {"define", "generate", "queue"}
      PROVE  AccountInvariant'
  BY <1>2, <1>3, <1>4, NoAccountYet DEF RunSized, Queueing
<1>5. ASSUME UNCHANGED <<task, queue>>, parent'[1].pc \notin {"define", "generate", "queue"}
      PROVE  AccountInvariant'
  BY <1>2, <1>5, SameAccount DEF RunSized, Queueing
<1>6. CASE ReadTask(p)
  <2>1. parent'[1].pc = "start" /\ UNCHANGED <<task, queue>>
    BY <1>1, <1>2, <1>6, ParentReads DEF RunBecomes, ReadTask
  <2> QED BY <1>5, <2>1
<1>7. CASE MarkProgress(p)
  <2>1. parent[1].pc = "start" /\ parent'[1].pc = "delegate" /\ UNCHANGED queue
    BY <1>1, <1>2, <1>7, ParentMarks DEF RunBecomes, MarkProgress
  <2> QED BY <1>4, <2>1 DEF Defined
<1>8. CASE Delegate(p)
  <2>1. parent'[1].pc \in {"finish", "count"} /\ UNCHANGED <<task, queue>>
    BY <1>1, <1>2, <1>8, ParentDelegates DEF RunBecomes, Delegate
  <2> QED BY <1>5, <2>1
<1>9. CASE CountRecipients(p)
  <2>1. /\ UNCHANGED <<task, queue>>
        /\ \/ parent'[1].pc = "fail"
           \/ parent'[1].pc = "define" /\ parent'[1].total = Cardinality(enrolled)
    <3>1. UNCHANGED <<task, queue>>
      BY <1>9 DEF CountRecipients
    <3>2. enrolled \subseteq Recipient
      BY TypeParts DEF JobInvariant
    <3> QED BY <1>1, <1>2, <1>9, <3>1, <3>2, ParentCounts DEF RunBecomes
  <2>2. RunSized(parent[1])'
    BY <1>2, <2>1 DEF RunSized, Queueing
  <2> QED BY <1>2, <2>1, <2>2, SameAccount
<1>10. CASE DefineSubtasks(p)
  BY <1>2, <1>10, DefineAccount
<1>11. CASE GenerateChunks(p)
  BY <1>2, <1>11, GenerateAccount
<1>12. CASE QueueSubtask(p)
  BY <1>2, <1>12, QueueAccount
<1>13. CASE QueuedAll(p) \/ OnSuccess(p) \/ OnFailure(p)
  <2>1. parent'[1].pc \in {"finish", "done", "succeed", "failed"} /\ UNCHANGED <<task, queue>>
    BY <1>1, <1>2, <1>13, ParentEnds DEF RunBecomes, QueuedAll, OnSuccess, OnFailure
  <2> QED BY <1>5, <2>1
<1>14. CASE SaveEnd(p)
  <2>1. parent[1].pc \in {"succeed", "failed"} /\ parent'[1].pc = "done" /\ UNCHANGED queue
    BY <1>1, <1>2, <1>14, ParentSaves DEF RunBecomes, SaveEnd
  <2> QED BY <1>4, <2>1 DEF Defined
<1> QED BY <1>6, <1>7, <1>8, <1>9, <1>10, <1>11, <1>12, <1>13, <1>14 DEF ParentNext

LEMMA AccountStep ==
  ASSUME OneAtATime, JobInvariant, LedgerInvariant, ListsInvariant, WorkInvariant,
         AccountInvariant, [Next]_vars, Regular'
  PROVE  AccountInvariant'
<1>1. \A e \in {"crash", "database", "broker", "close", "unenroll", "duplicate", "enroll"} :
        ~Event(e)
  BY StillRegular
<1>2. CASE \E w \in Worker : WorkerNext(w)
  BY <1>1, <1>2, WorkerAccount
<1>3. CASE \E p \in Parent : ParentNext(p)
  BY <1>1, <1>3, ParentAccount DEF OneAtATime
<1>4. CASE \/ \E id \in SubtaskId : ExpireLock(id)
           \/ ChangeUsers
           \/ UNCHANGED vars
  <2>1. UNCHANGED <<task, queue, worker, parent, enrolled>>
    BY <1>1, <1>4 DEF ExpireLock, ChangeUsers, envVars, vars
  <2>2. RunSized(parent[1])'
    BY <2>1 DEF AccountInvariant, RunSized, ChunkSize
  <2> QED BY <2>1, <2>2, SameAccount
<1> QED BY <1>1, <1>2, <1>3, <1>4 DEF Next, CrashParent, CrashWorker

LEMMA AccountInit == Init => AccountInvariant
<1> SUFFICES ASSUME Init PROVE AccountInvariant
  OBVIOUS
<1>1. queue = {} /\ (\A w \in Worker : ~Busy(w)) /\ parent[1].pc = "idle"
  BY ConstantsAssumption DEF Init, Busy, Idle, Parent, NewParent
<1> QED BY <1>1 DEF AccountInvariant, OneCarrier, Carrier, RunSized, Queueing

\* As long as nothing is disturbed, no message comes twice and nobody enrolls, a
\* subtask is carried by one message or worker at a time, and its list and its
\* counters together make up the chunk it was given.
THEOREM AccountsAreKept ==
  ASSUME OneAtATime
  PROVE  Spec => [](Regular => AccountInvariant)
<1>1. Init => (Regular => AccountInvariant)
  BY AccountInit
<1>2. /\ JobInvariant /\ (NoSecondResult => LedgerInvariant) /\ (AllWritten => ListsInvariant)
      /\ (Undisturbed => WorkInvariant) /\ (Regular => AccountInvariant) /\ [Next]_vars
      => (Regular => AccountInvariant)'
  <2>1. ASSUME JobInvariant, NoSecondResult => LedgerInvariant, AllWritten => ListsInvariant,
               Undisturbed => WorkInvariant, Regular => AccountInvariant, [Next]_vars, Regular'
        PROVE  AccountInvariant'
    <3>1. Regular /\ Undisturbed /\ AllWritten /\ NoSecondResult
      BY <2>1, StillRegular DEF Regular, Undisturbed, AllWritten
    <3> QED BY <2>1, <3>1, AccountStep
  <2> QED BY <2>1
<1> QED BY <1>1, <1>2, JobsAgree, LedgerIsKept, ListsAreKept, WorkIsKept, PTL DEF Spec

\* The message of a retry has only recipients nobody has emailed, in no other
\* message, and its counters account for all who have left the list.
THEOREM RetriesCarryTheRest ==
  ASSUME OneAtATime
  PROVE  Spec => [](Regular => RetryCarriesTheRest)
<1>1. ASSUME JobInvariant, ListsInvariant, AccountInvariant PROVE RetryCarriesTheRest
  <2> SUFFICES ASSUME NEW m \in queue
               PROVE  /\ \A r \in m.to : sent[r] = 0
                      /\ \A n \in queue : m.id # n.id => m.to \cap n.to = {}
                      /\ RetryCount(m.st) > 0 =>
                           Cardinality(m.to) + m.st.succeeded + m.st.failed + m.st.skipped
                             = ChunkSize(m.id)
    BY DEF RetryCarriesTheRest
  <2>1. Open(m) /\ \A w \in Worker : Carrier(w) => m.id # worker[w].msg.id
    BY <1>1 DEF AccountInvariant, OneCarrier
  <2>2. \A w \in Worker : Busy(w) /\ worker[w].msg.id = m.id => ~Working(worker[w])
    BY <2>1 DEF Carrier, PassedOn, Working, Early, Final
  <2>3. Unsent(m.to)
    BY <1>1, <2>1, <2>2 DEF ListsInvariant, ListsUnsent, Free
  <2>4. \A n \in queue : m.id # n.id => m.to \cap n.to = {}
    BY <1>1 DEF ListsInvariant, ListsApart, Held
  <2>5. Cardinality(m.to) + m.st.succeeded + m.st.failed + m.st.skipped = ChunkSize(m.id)
    BY <1>1 DEF AccountInvariant, Accounted
  <2> QED BY <2>3, <2>4, <2>5 DEF Unsent
<1>2. Regular => AllWritten
  BY DEF Regular, Undisturbed
<1> QED BY <1>1, <1>2, JobsAgree, ListsAreKept, AccountsAreKept, PTL

-----------------------------------------------------------------------------
(***************************************************************************)
(* The totals of the job.  As long as the template is there too, a result  *)
(* that is written accounts for the whole chunk; what task_output adds up  *)
(* is therefore the sizes of the chunks that are over, and the emails that *)
(* were sent are those counted by the results and by the carriers.         *)
(***************************************************************************)
Countable == Regular /\ ~Happened({"template"})

Done(st) == st.succeeded + st.failed + st.skipped

\* A result that is ready to be written accounts for the chunk.
Closed(j) == Final(j) => Done(j.st) = ChunkSize(j.msg.id)

\* The ids are those that the number of users asks for, and only a job with
\* subtasks is a success.
RowShaped ==
  /\ HasSubtasks(task) =>
       DOMAIN task.status = {1} \X (1 .. NumberOfSubtasks(task.output.total, ItemsPerTask))
  /\ task.task_state = "SUCCESS" => HasSubtasks(task)

SettledMails == [id \in DOMAIN task.status |-> IF IsSettled(id) THEN task.status[id].succeeded ELSE 0]
SettledSizes == [id \in DOMAIN task.status |-> IF IsSettled(id) THEN ChunkSize(id) ELSE 0]

RowAdded ==
  HasSubtasks(task) =>
    /\ task.output.succeeded = Total(SettledMails, DOMAIN task.status)
    /\ Done(task.output) = Total(SettledSizes, DOMAIN task.status)

\* mails[id] emails were sent by the subtask id.
Mailed(mails) ==
  /\ mails \in [DOMAIN task.status -> Nat]
  /\ Total(mails, DOMAIN task.status) = Total(sent, Recipient)
  /\ \A id \in DOMAIN task.status :
       /\ IsSettled(id) => mails[id] = task.status[id].succeeded
       /\ parent[1].pc \in Queueing /\ id[2] >= parent[1].next => mails[id] = 0
  /\ \A m \in queue : mails[m.id] = m.st.succeeded
  /\ \A w \in Worker : Carrier(w) => mails[worker[w].msg.id] = worker[w].st.succeeded

TotalInvariant ==
  /\ RowShaped /\ RowAdded
  /\ \A w \in Worker : Busy(w) => Closed(worker[w])
  /\ \E mails : Mailed(mails)

LEMMA CountsOf ==
  ASSUME NEW st \in SubtaskStatus, NEW to \in SUBSET Recipient
  PROVE  /\ \A rest : Skipped(st, to, rest).succeeded = st.succeeded
         /\ Throttled(st).succeeded = st.succeeded
         /\ Disconnected(st).succeeded = st.succeeded
         /\ GiveUp(st, to).succeeded = st.succeeded
         /\ Done(GiveUp(st, to)) = Accounted(to, st)
         /\ [st EXCEPT !.failed = @ + 1].succeeded = st.succeeded
         /\ [st EXCEPT !.state = "SUCCESS"].succeeded = st.succeeded
         /\ Done([st EXCEPT !.state = "SUCCESS"]) = Accounted({}, st)
         /\ Done(st) \in Nat
<1>1. st.succeeded \in Nat /\ st.failed \in Nat /\ st.skipped \in Nat
  BY DEF SubtaskStatus
<1>2. Cardinality(to) \in Nat /\ Cardinality({}) = 0
  BY SizeOf, FS_EmptySet
<1>3. /\ \A rest : Skipped(st, to, rest).succeeded = st.succeeded
      /\ Throttled(st).succeeded = st.succeeded
      /\ Disconnected(st).succeeded = st.succeeded
      /\ GiveUp(st, to).succeeded = st.succeeded
      /\ [st EXCEPT !.failed = @ + 1].succeeded = st.succeeded
      /\ [st EXCEPT !.state = "SUCCESS"].succeeded = st.succeeded
  BY DEF SubtaskStatus, Skipped, Throttled, Disconnected, GiveUp
<1>4. Done(GiveUp(st, to)) = st.succeeded + (st.failed + Cardinality(to)) + st.skipped
  BY DEF SubtaskStatus, GiveUp, Done
<1>5. Done([st EXCEPT !.state = "SUCCESS"]) = st.succeeded + st.failed + st.skipped
  BY DEF SubtaskStatus, Done
<1>6. Done(GiveUp(st, to)) = Accounted(to, st)
  BY <1>1, <1>2, <1>4 DEF Accounted
<1>7. Done([st EXCEPT !.state = "SUCCESS"]) = Accounted({}, st) /\ Done(st) \in Nat
  BY <1>1, <1>2, <1>5 DEF Accounted, Done
<1> QED BY <1>3, <1>6, <1>7

\* What a step of a job that is not the sending of an email does to its counts.
KeepsCounts(j, q) ==
  /\ q.msg = j.msg /\ q.st.succeeded = j.st.succeeded
  /\ JobAccounted(j) /\ Closed(j) => Closed(q)

LEMMA CountsGoOn ==
  ASSUME NEW w \in Worker, HasJob(w), JobOK(worker[w]), worker[w].pc # "unwind",
         ~Event("close"), ~Event("template"),
         \/ CheckSubtask(w) \/ AcquireLock(w) \/ Prepare(w) \/ RefuseEmail(w)
         \/ ThrottleEmail(w) \/ DropConnection(w) \/ AbortSending(w) \/ FinishSending(w)
         \/ CloseConnection(w) \/ ReleaseLock(w) \/ SubmitRetry(w)
  PROVE  OnlyMoves(w) /\ (worker'[w] = Idle \/ KeepsCounts(worker[w], worker'[w]))
<1> DEFINE job == worker[w]
           q == worker'[w]
<1>1. /\ job.st \in SubtaskStatus /\ job.to \in SUBSET Recipient
      /\ {"send", "update", "close"} \subseteq Pcs
  BY JobFields DEF HasJob, Pcs
<1>2. ASSUME NEW pc \in Pcs, NEW to \in SUBSET Recipient, NEW st \in SubtaskStatus,
             NEW skip \in BOOLEAN, WorkerSets(w, pc, to, st, skip),
             st.succeeded = job.st.succeeded,
             pc \notin {"update", "close"} \/ st.state = "RETRY"
               \/ (JobAccounted(job) => Done(st) = ChunkSize(job.msg.id))
      PROVE  OnlyMoves(w) /\ KeepsCounts(job, q)
  <2>1. OnlyMoves(w) /\ Becomes(q, job, pc, to, st, 1, skip)
    BY <1>2, Sets DEF HasJob
  <2> QED BY <1>2, <2>1 DEF KeepsCounts, Becomes, Closed, Final
<1>3. ASSUME NEW pc, NEW to, NEW depth, NEW skip, Becomes(q, job, pc, to, job.st, depth, skip),
             Final(q) => Final(job)
      PROVE  KeepsCounts(job, q)
  BY <1>3 DEF KeepsCounts, Becomes, Closed
<1>4. CASE CheckSubtask(w)
  <2>1. /\ OnlyMoves(w)
        /\ \/ Becomes(q, job, "lock", job.to, job.st, job.depth, job.skip_retry_max)
           \/ q = Idle
    BY <1>4, Checks
  <2>2. Becomes(q, job, "lock", job.to, job.st, job.depth, job.skip_retry_max) => ~Final(q)
    BY DEF Becomes, Final
  <2> QED BY <1>3, <2>1, <2>2
<1>5. CASE AcquireLock(w)
  <2>1. /\ OnlyMoves(w)
        /\ \/ Becomes(q, job, "prepare", job.to, job.st, job.depth, job.skip_retry_max)
           \/ q = Idle
    BY <1>5, Locks
  <2>2. Becomes(q, job, "prepare", job.to, job.st, job.depth, job.skip_retry_max) => ~Final(q)
    BY DEF Becomes, Final
  <2> QED BY <1>3, <2>1, <2>2
<1>6. CASE Prepare(w)
  <2> PICK to : to = IF RetryCount(job.st) = 0 THEN job.to \ optout ELSE job.to
    OBVIOUS
  <2> PICK st : st = Skipped(job.st, job.to, to)
    OBVIOUS
  <2>1. to \in SUBSET job.to /\ to \in SUBSET Recipient
    BY <1>1
  <2>2. /\ st \in SubtaskStatus /\ Accounted(to, st) = Accounted(job.to, job.st)
        /\ st.succeeded = job.st.succeeded
    <3>1. SameRetries(st, job.st) /\ st.succeeded = job.st.succeeded
      <4>1. SameRetries(Skipped(job.st, job.to, to), job.st)
        BY <1>1, <2>1, SkippedTyped
      <4>2. Skipped(job.st, job.to, to).succeeded = job.st.succeeded
        BY <1>1, CountsOf
      <4> QED BY <4>1, <4>2
    <3>2. Accounted(to, st) = Accounted(job.to, job.st)
      BY <1>1, <2>1, CountsKept
    <3> QED BY <3>1, <3>2 DEF SameRetries
  <2>3. /\ job.pc = "prepare"
        /\ \/ WorkerSets(w, "send", to, st, FALSE)
           \/ WorkerSets(w, "update", to, Disconnected(st), FALSE)
           \/ WorkerSets(w, "close", to, GiveUp(st, to), FALSE)
    BY <1>6 DEF Prepare
  <2>4. /\ Disconnected(st) \in SubtaskStatus /\ Disconnected(st).state = "RETRY"
        /\ Disconnected(st).succeeded = job.st.succeeded
    <3>1. Disconnected(st).state = "RETRY"
      BY <2>2 DEF Disconnected, SubtaskStatus
    <3> QED BY <2>1, <2>2, <3>1, RetriesTyped, CountsOf
  <2>5. /\ GiveUp(st, to) \in SubtaskStatus
        /\ GiveUp(st, to).succeeded = job.st.succeeded
        /\ Done(GiveUp(st, to)) = Accounted(job.to, job.st)
    BY <2>1, <2>2, GiveUpTyped, CountsOf DEF SameRetries
  <2>6. JobAccounted(job) => Accounted(job.to, job.st) = ChunkSize(job.msg.id)
    BY <2>3 DEF JobAccounted, Fresh
  <2>7. OnlyMoves(w) /\ KeepsCounts(job, q)
    <3>1. CASE WorkerSets(w, "send", to, st, FALSE)
      BY <1>1, <1>2, <2>1, <2>2, <3>1
    <3>2. CASE WorkerSets(w, "update", to, Disconnected(st), FALSE)
      BY <1>1, <1>2, <2>1, <2>4, <3>2
    <3>3. CASE WorkerSets(w, "close", to, GiveUp(st, to), FALSE)
      BY <1>1, <1>2, <2>1, <2>5, <2>6, <3>3
    <3> QED BY <2>3, <3>1, <3>2, <3>3
  <2> QED BY <2>7
<1>7. CASE RefuseEmail(w)
  <2>1. PICK r \in job.to :
          WorkerSets(w, "send", job.to \ {r}, [job.st EXCEPT !.failed = @ + 1], FALSE)
    BY <1>7 DEF RefuseEmail
  <2>2. /\ [job.st EXCEPT !.failed = @ + 1] \in SubtaskStatus
        /\ [job.st EXCEPT !.failed = @ + 1].succeeded = job.st.succeeded
        /\ job.to \ {r} \in SUBSET Recipient
    BY <1>1, CountsTyped, CountsOf DEF SameRetries
  <2> QED BY <1>1, <1>2, <2>1, <2>2
<1>8. CASE ThrottleEmail(w)
  <2>1. WorkerSets(w, "update", job.to, Throttled(job.st), TRUE)
    BY <1>8 DEF ThrottleEmail
  <2>2. /\ Throttled(job.st) \in SubtaskStatus /\ Throttled(job.st).state = "RETRY"
        /\ Throttled(job.st).succeeded = job.st.succeeded
    BY <1>1, RetriesTyped, CountsOf DEF Throttled, SubtaskStatus
  <2> QED BY <1>1, <1>2, <2>1, <2>2
<1>9. CASE DropConnection(w)
  <2>1. WorkerSets(w, "update", job.to, Disconnected(job.st), FALSE)
    BY <1>9 DEF DropConnection
  <2>2. /\ Disconnected(job.st) \in SubtaskStatus /\ Disconnected(job.st).state = "RETRY"
        /\ Disconnected(job.st).succeeded = job.st.succeeded
    BY <1>1, RetriesTyped, CountsOf DEF Disconnected, SubtaskStatus
  <2> QED BY <1>1, <1>2, <2>1, <2>2
<1>10. /\ GiveUp(job.st, job.to) \in SubtaskStatus
       /\ GiveUp(job.st, job.to).succeeded = job.st.succeeded
       /\ Done(GiveUp(job.st, job.to)) = Accounted(job.to, job.st)
  BY <1>1, GiveUpTyped, CountsOf DEF SameRetries
<1>11. CASE AbortSending(w)
  <2>1. job.pc = "send" /\ WorkerSets(w, "close", job.to, GiveUp(job.st, job.to), FALSE)
    BY <1>11 DEF AbortSending, Sending
  <2>2. JobAccounted(job) => Accounted(job.to, job.st) = ChunkSize(job.msg.id)
    BY <2>1 DEF JobAccounted
  <2> QED BY <1>1, <1>2, <1>10, <2>1, <2>2
<1>12. CASE FinishSending(w)
  <2> PICK st : st = [job.st EXCEPT !.state = "SUCCESS"]
    OBVIOUS
  <2>1. job.pc = "send" /\ job.to = {} /\ WorkerSets(w, "close", {}, st, FALSE)
    BY <1>12 DEF FinishSending
  <2>2. JobAccounted(job) => Accounted({}, job.st) = ChunkSize(job.msg.id)
    BY <2>1 DEF JobAccounted
  <2>3. /\ st \in SubtaskStatus /\ st.succeeded = job.st.succeeded
        /\ Done(st) = Accounted({}, job.st)
    BY <1>1, CountsTyped, CountsOf DEF SameRetries
  <2> QED BY <1>1, <1>2, <2>1, <2>2, <2>3
<1>13. CASE CloseConnection(w)
  <2>1. /\ job.pc = "close" /\ OnlyMoves(w)
        /\ \/ q = Idle
           \/ job.st.state # "RETRY" /\ Becomes(q, job, "update", job.to, job.st, 1, FALSE)
    BY <1>13, Closes
  <2>2. job.st.state # "RETRY" => Final(job)
    BY <2>1 DEF Final
  <2> QED BY <1>3, <2>1, <2>2
<1>14. CASE ReleaseLock(w)
  <2>1. /\ job.pc = "release" /\ OnlyMoves(w)
        /\ \/ Becomes(q, job, "release", job.to, job.st, job.depth - 1, job.skip_retry_max)
           \/ Becomes(q, job, "retry", job.to, job.st, job.depth, job.skip_retry_max)
           \/ q = Idle
    BY <1>14, Releases
  <2>2. q.pc \in {"release", "retry"} => ~Final(q)
    BY DEF Final
  <2>3. \/ q = Idle
        \/ \E pc, depth : Becomes(q, job, pc, job.to, job.st, depth, job.skip_retry_max) /\ ~Final(q)
    BY <2>1, <2>2 DEF Becomes
  <2> QED BY <1>3, <2>1, <2>3
<1>15. CASE SubmitRetry(w)
  <2>1. job.pc = "retry" /\ job.st.state = "RETRY"
    BY <1>15 DEF SubmitRetry, JobOK, RetriesOK
  <2>2. \/ WorkerGoto(w, "close")
        \/ WorkerSets(w, "close", job.to, GiveUp(job.st, job.to), FALSE)
    BY <1>15 DEF SubmitRetry
  <2>3. CASE WorkerGoto(w, "close")
    <3>1. /\ OnlyMoves(w)
          /\ Becomes(q, job, "close", job.to, job.st, job.depth, job.skip_retry_max)
      BY <1>1, <2>3, GoesTo DEF HasJob
    <3>2. ~Final(q)
      BY <2>1, <3>1 DEF Becomes, Final
    <3> QED BY <1>3, <3>1, <3>2
  <2>4. CASE WorkerSets(w, "close", job.to, GiveUp(job.st, job.to), FALSE)
    <3>1. JobAccounted(job) => Accounted(job.to, job.st) = ChunkSize(job.msg.id)
      BY <2>1 DEF JobAccounted, Retrying
    <3> QED BY <1>1, <1>2, <1>10, <2>4, <3>1
  <2> QED BY <2>2, <2>3, <2>4
<1> QED BY <1>4, <1>5, <1>6, <1>7, <1>8, <1>9, <1>11, <1>12, <1>13, <1>14, <1>15

LEMMA SumsTyped ==
  ASSUME JobInvariant
  PROVE  /\ IsFiniteSet(DOMAIN task.status) /\ DOMAIN task.status \subseteq SubtaskId
         /\ \A id \in DOMAIN task.status : task.status[id] \in SubtaskStatus
         /\ IsFiniteSet(Recipient) /\ Counts(sent, Recipient)
<1>1. IsTask(task, SubtaskId) /\ sent \in [Recipient -> Nat]
  BY DEF JobInvariant, TypeOK
<1>2. IsFiniteSet(SubtaskId)
  <2>1. IsFiniteSet(Parent)
    BY ConstantsAssumption, FS_Interval DEF Parent
  <2>2. IsFiniteSet(1 .. Cardinality(Recipient))
    BY ConstantsAssumption, FS_CardinalityType, FS_Interval
  <2> QED BY <2>1, <2>2, FS_Product DEF SubtaskId
<1>3. /\ DOMAIN task.status \subseteq SubtaskId
      /\ \A id \in DOMAIN task.status : task.status[id] \in SubtaskStatus
  BY <1>1, TaskIsRow DEF RowOver
<1> QED BY <1>1, <1>2, <1>3, ConstantsAssumption, FS_Subset DEF Counts

\* A step that leaves the row alone leaves what was added up alone.
LEMMA SameRow ==
  ASSUME UNCHANGED task, RowShaped, RowAdded
  PROVE  RowShaped' /\ RowAdded'
<1>1. RowShaped'
  BY DEF RowShaped, HasSubtasks
<1>2. SettledMails' = SettledMails /\ SettledSizes' = SettledSizes
  BY DEF SettledMails, SettledSizes, IsSettled, ChunkSize
<1> QED BY <1>1, <1>2 DEF RowAdded, HasSubtasks

\* A step of w on its own job in which no email is sent.
LEMMA QuietTotals ==
  ASSUME TotalInvariant, NEW w \in Worker, OnlyMoves(w), HasJob(w), JobAccounted(worker[w]),
         UNCHANGED <<task, parent, queue, sent>>,
         worker'[w] = Idle \/ (Carrier(w) /\ KeepsCounts(worker[w], worker'[w]))
  PROVE  TotalInvariant'
<1>1. RowShaped' /\ RowAdded'
  BY SameRow DEF TotalInvariant
<1>2. ASSUME NEW v \in Worker, Busy(v)' PROVE Closed(worker[v])'
  <2>1. CASE v = w
    <3>1. Busy(w) /\ Closed(worker[w]) /\ KeepsCounts(worker[w], worker'[w])
      BY <1>2, <2>1, JobFields DEF HasJob, Busy, Idle, TotalInvariant
    <3>2. Closed(worker'[w])
      BY <3>1 DEF KeepsCounts
    <3> QED BY <2>1, <3>2 DEF Closed, ChunkSize
  <2>2. CASE v # w
    <3>1. Busy(v) /\ worker'[v] = worker[v]
      BY <1>2, <2>2 DEF OnlyMoves, Busy
    <3> QED BY <3>1 DEF TotalInvariant, Closed, ChunkSize
  <2> QED BY <2>1, <2>2
<1>3. \E mails : Mailed(mails)'
  <2>1. PICK mails : Mailed(mails)
    BY DEF TotalInvariant
  <2>2. \A v \in Worker : Carrier(v)' =>
          /\ Carrier(v) /\ worker'[v].msg = worker[v].msg
          /\ worker'[v].st.succeeded = worker[v].st.succeeded
    BY DEF OnlyMoves, Carrier, Busy, Idle, KeepsCounts
  <2>3. Mailed(mails)'
    BY <2>1, <2>2 DEF Mailed, IsSettled
  <2> QED BY <2>3
<1> QED BY <1>1, <1>2, <1>3 DEF TotalInvariant

\* Mailed(mails)', spelled out.
LEMMA MailedNext ==
  ASSUME NEW mails, mails \in [DOMAIN task'.status -> Nat],
         Total(mails, DOMAIN task'.status) = Total(sent', Recipient),
         \A id \in DOMAIN task'.status :
           /\ task'.status[id].state \in READY_STATES => mails[id] = task'.status[id].succeeded
           /\ parent'[1].pc \in Queueing /\ id[2] >= parent'[1].next => mails[id] = 0,
         \A m \in queue' : mails[m.id] = m.st.succeeded,
         \A w \in Worker : Carrier(w)' => mails[worker'[w].msg.id] = worker'[w].st.succeeded
  PROVE  Mailed(mails)'
BY DEF Mailed, IsSettled

\* One email more, one more by this subtask.
LEMMA SendTotals ==
  ASSUME JobInvariant, LedgerInvariant, WorkInvariant, AccountInvariant, TotalInvariant,
         NEW w \in Worker, HasJob(w), SendEmail(w)
  PROVE  TotalInvariant'
<1> DEFINE job == worker[w]
           q == worker'[w]
<1> PICK id : id = job.msg.id
  OBVIOUS
<1>1. /\ job.pc = "send" /\ Busy(w) /\ Carrier(w) /\ UNCHANGED <<task, parent, queue>>
      /\ job.st \in SubtaskStatus /\ job.to \in SUBSET Recipient
  BY JobFields DEF SendEmail, Sending, sendVars, Busy, Carrier, PassedOn, HasJob
<1>2. PICK r \in job.to :
        /\ sent' = [sent EXCEPT ![r] = @ + 1]
        /\ WorkerSets(w, "send", job.to \ {r}, [job.st EXCEPT !.succeeded = @ + 1], FALSE)
  BY DEF SendEmail
<1>3. OnlyMoves(w) /\ q.msg = job.msg /\ q.pc = "send" /\ q.st.succeeded = job.st.succeeded + 1
  <2>1. /\ [job.st EXCEPT !.succeeded = @ + 1] \in SubtaskStatus
        /\ [job.st EXCEPT !.succeeded = @ + 1].succeeded = job.st.succeeded + 1
        /\ job.to \ {r} \in SUBSET Recipient /\ "send" \in Pcs
    BY <1>1, CountsTyped DEF SameRetries, SubtaskStatus, Pcs
  <2>2. OnlyMoves(w) /\ Becomes(q, job, "send", job.to \ {r}, [job.st EXCEPT !.succeeded = @ + 1],
                                1, FALSE)
    BY <1>2, <2>1, Sets DEF HasJob
  <2> QED BY <2>1, <2>2 DEF Becomes
<1>4. id \in DOMAIN task.status /\ ~IsSettled(id)
  BY <1>1 DEF LedgerInvariant, ClaimOK, Early, Open, Unsettled
<1>5. ~(parent[1].pc \in Queueing /\ id[2] >= parent[1].next)
  <2>1. job.msg \in Held
    BY <1>1 DEF Held
  <2> QED BY <1>4, <2>1 DEF WorkInvariant, RunLeft
<1>6. RowShaped' /\ RowAdded'
  BY <1>1, SameRow DEF TotalInvariant
<1>7. ASSUME NEW v \in Worker, Busy(v)' PROVE Closed(worker[v])'
  <2>1. CASE v = w
    BY <1>3, <2>1 DEF Closed, Final
  <2>2. CASE v # w
    <3>1. Busy(v) /\ worker'[v] = worker[v]
      BY <1>3, <1>7, <2>2 DEF OnlyMoves, Busy
    <3> QED BY <1>1, <3>1 DEF TotalInvariant, Closed, ChunkSize
  <2> QED BY <2>1, <2>2
<1>8. \E mails : Mailed(mails)'
  <2>1. PICK mails : Mailed(mails)
    BY DEF TotalInvariant
  <2> PICK ids : ids = DOMAIN task.status
    OBVIOUS
  <2>2. PICK more : more = [mails EXCEPT ![id] = @ + 1]
    OBVIOUS
  <2>3. /\ mails \in [ids -> Nat] /\ more \in [ids -> Nat]
        /\ id \in ids /\ more[id] = mails[id] + 1 /\ \A i \in ids \ {id} : more[i] = mails[i]
    BY <1>4, <2>1, <2>2 DEF Mailed
  <2>4. IsFiniteSet(ids) /\ IsFiniteSet(Recipient) /\ Counts(sent, Recipient) /\ Counts(mails, ids)
    BY <2>3, SumsTyped DEF Counts
  <2>5. Total(more, ids) = Total(mails, ids) + 1
    <3>1. Total(more, ids) + mails[id] = Total(mails, ids) + more[id]
      BY <2>3, <2>4, TotalChanged
    <3>2. Total(more, ids) \in Nat /\ Total(mails, ids) \in Nat /\ mails[id] \in Nat
      BY <2>3, <2>4, TotalTyped DEF Counts
    <3> QED BY <2>3, <3>1, <3>2
  <2>6. Total(sent', Recipient) = Total(sent, Recipient) + 1
    <3>1. /\ r \in Recipient /\ sent'[r] = sent[r] + 1 /\ sent[r] \in Nat /\ sent'[r] \in Nat
          /\ \A s \in Recipient \ {r} : sent'[s] = sent[s]
          /\ sent' \in [Recipient -> Nat]
      BY <1>1, <1>2, BusyJobs
    <3>2. Total(sent', Recipient) + sent[r] = Total(sent, Recipient) + sent'[r]
      BY <2>4, <3>1, TotalChanged
    <3>3. Total(sent', Recipient) \in Nat /\ Total(sent, Recipient) \in Nat
      BY <2>4, <3>1, TotalTyped DEF Counts
    <3> QED BY <3>1, <3>2, <3>3
  <2>7. Total(more, ids) = Total(sent', Recipient)
    BY <2>1, <2>5, <2>6 DEF Mailed
  <2>8. /\ \A m \in queue : m.id # id /\ m.id \in ids
        /\ \A v \in Worker : Carrier(v) /\ worker[v].msg.id = id => v = w
    BY <1>1 DEF AccountInvariant, OneCarrier, Open, Unsettled
  <2>9. ASSUME NEW v \in Worker, Carrier(v)'
        PROVE  more[worker'[v].msg.id] = worker'[v].st.succeeded
    <3>1. CASE v = w
      BY <1>1, <1>3, <2>1, <2>3, <3>1 DEF Mailed
    <3>2. CASE v # w
      <4>1. Carrier(v) /\ worker'[v] = worker[v] /\ worker[v].msg.id # id
        BY <1>3, <2>8, <2>9, <3>2 DEF OnlyMoves, Carrier, Busy
      <4>2. mails[worker[v].msg.id] = worker[v].st.succeeded
        BY <2>1, <4>1 DEF Mailed
      <4>3. more[worker[v].msg.id] = mails[worker[v].msg.id]
        BY <2>2, <2>3, <4>1
      <4> QED BY <4>1, <4>2, <4>3
    <3> QED BY <3>1, <3>2
  <2>10. \A m \in queue : more[m.id] = m.st.succeeded
    BY <2>1, <2>3, <2>8 DEF Mailed
  <2>11. \A i \in ids : /\ IsSettled(i) => more[i] = task.status[i].succeeded
                        /\ parent[1].pc \in Queueing /\ i[2] >= parent[1].next => more[i] = 0
    <3> SUFFICES ASSUME NEW i \in ids
                 PROVE  /\ IsSettled(i) => more[i] = task.status[i].succeeded
                        /\ parent[1].pc \in Queueing /\ i[2] >= parent[1].next => more[i] = 0
      OBVIOUS
    <3>1. CASE i = id
      BY <1>4, <1>5, <3>1
    <3>2. CASE i # id
      BY <2>1, <2>3, <3>2 DEF Mailed
    <3> QED BY <3>1, <3>2
  <2>12. ASSUME NEW i \in ids
         PROVE  /\ task.status[i].state \in READY_STATES => more[i] = task.status[i].succeeded
                /\ parent[1].pc \in Queueing /\ i[2] >= parent[1].next => more[i] = 0
    BY <2>11 DEF IsSettled
  <2>13. Mailed(more)'
    BY <1>1, <2>3, <2>7, <2>9, <2>10, <2>12, MailedNext
  <2> QED BY <2>13
<1> QED BY <1>6, <1>7, <1>8 DEF TotalInvariant

\* A worker is given a message, and carries what it carried.
LEMMA ReceiveTotals ==
  ASSUME JobInvariant, TotalInvariant, NEW w \in Worker, Receive(w), ~Event("duplicate")
  PROVE  TotalInvariant'
<1>1. DOMAIN worker = Worker
  BY BusyJobs
<1>2. PICK m \in queue : worker' = [worker EXCEPT ![w] = Running(m)] /\ queue' = queue \ {m}
  BY DEF Receive
<1>3. /\ \A v \in Worker \ {w} : worker'[v] = worker[v]
      /\ worker'[w].pc = "check" /\ worker'[w].msg = m /\ worker'[w].st = m.st
      /\ UNCHANGED <<task, parent, sent>>
  BY <1>1, <1>2 DEF Running, Receive
<1>4. RowShaped' /\ RowAdded'
  BY <1>3, SameRow DEF TotalInvariant
<1>5. ASSUME NEW v \in Worker, Busy(v)' PROVE Closed(worker[v])'
  <2>1. CASE v = w
    BY <1>3, <2>1 DEF Closed, Final
  <2>2. CASE v # w
    <3>1. Busy(v) /\ worker'[v] = worker[v]
      BY <1>3, <1>5, <2>2 DEF Busy
    <3> QED BY <1>3, <3>1 DEF TotalInvariant, Closed, ChunkSize
  <2> QED BY <2>1, <2>2
<1>6. \E mails : Mailed(mails)'
  <2>1. PICK mails : Mailed(mails)
    BY DEF TotalInvariant
  <2>2. ASSUME NEW v \in Worker, Carrier(v)'
        PROVE  mails[worker'[v].msg.id] = worker'[v].st.succeeded
    <3>1. CASE v = w
      BY <1>3, <2>1, <3>1 DEF Mailed
    <3>2. CASE v # w
      <4>1. Carrier(v) /\ worker'[v] = worker[v]
        BY <1>3, <2>2, <3>2 DEF Carrier, Busy
      <4> QED BY <2>1, <4>1 DEF Mailed
    <3> QED BY <3>1, <3>2
  <2>3. Mailed(mails)'
    BY <1>2, <1>3, <2>1, <2>2, MailedNext DEF Mailed, IsSettled
  <2> QED BY <2>3
<1> QED BY <1>4, <1>5, <1>6 DEF TotalInvariant

\* The message of the retry counts what the worker has counted.
LEMMA SubmitTotals ==
  ASSUME JobInvariant, AccountInvariant, TotalInvariant, NEW w \in Worker, HasJob(w),
         JobOK(worker[w]), SubmitRetry(w), ~Event("close"), ~Event("template")
  PROVE  TotalInvariant'
<1> DEFINE job == worker[w]
           q == worker'[w]
<1>1. /\ job.pc = "retry" /\ OnlyMoves(w) /\ Carrier(w) /\ Busy(w) /\ JobAccounted(job)
      /\ UNCHANGED <<task, parent, sent>>
  BY Submits DEF SubmitRetry, Busy, Carrier, PassedOn, AccountInvariant
<1>2. CASE queue' = queue
  <2>1. worker'[w] = Idle \/ KeepsCounts(worker[w], worker'[w])
    BY <1>1, CountsGoOn
  <2> QED BY <1>1, <1>2, <2>1, QuietTotals
<1>3. CASE /\ queue' = queue \cup {NextAttempt(job)}
           /\ Becomes(q, job, "close", job.to, job.st, job.depth, job.skip_retry_max)
  <2>1. job.st.state = "RETRY"
    BY <1>1 DEF JobOK, RetriesOK
  <2>2. q.pc = "close" /\ q.st = job.st /\ ~Carrier(w)' /\ ~Final(q)
    BY <1>3, <2>1 DEF Becomes, Carrier, PassedOn, Final
  <2>3. RowShaped' /\ RowAdded'
    BY <1>1, SameRow DEF TotalInvariant
  <2>4. ASSUME NEW v \in Worker, Busy(v)' PROVE Closed(worker[v])'
    <3>1. CASE v = w
      BY <2>2, <3>1 DEF Closed, Final
    <3>2. CASE v # w
      <4>1. Busy(v) /\ worker'[v] = worker[v]
        BY <1>1, <2>4, <3>2 DEF OnlyMoves, Busy
      <4> QED BY <1>1, <4>1 DEF TotalInvariant, Closed, ChunkSize
    <3> QED BY <3>1, <3>2
  <2>5. \E mails : Mailed(mails)'
    <3>1. PICK mails : Mailed(mails)
      BY DEF TotalInvariant
    <3>2. ASSUME NEW v \in Worker, Carrier(v)'
          PROVE  mails[worker'[v].msg.id] = worker'[v].st.succeeded
      <4>1. Carrier(v) /\ worker'[v] = worker[v]
        BY <1>1, <2>2, <3>2 DEF OnlyMoves, Carrier, Busy
      <4> QED BY <3>1, <4>1 DEF Mailed
    <3>3. \A m \in queue' : mails[m.id] = m.st.succeeded
      <4>1. mails[NextAttempt(job).id] = NextAttempt(job).st.succeeded
        BY <1>1, <3>1 DEF Mailed, NextAttempt
      <4> QED BY <1>3, <3>1, <4>1 DEF Mailed
    <3>4. Mailed(mails)'
      BY <1>1, <3>1, <3>2, <3>3, MailedNext DEF Mailed, IsSettled
    <3> QED BY <3>4
  <2> QED BY <2>3, <2>4, <2>5 DEF TotalInvariant
<1> QED BY <1>2, <1>3, Submits

\* What _update_subtask_status adds to task_output.
LEMMA CountsWritten ==
  ASSUME NEW Ids, NEW row, IsTask(row, Ids), NEW id \in DOMAIN row.status,
         NEW st \in SubtaskStatus
  PROVE  LET q == UpdateSubtaskStatus(row, id, st)
         IN /\ st.state \in READY_STATES =>
                 /\ q.output.succeeded = row.output.succeeded + st.succeeded
                 /\ Done(q.output) = Done(row.output) + Done(st)
            /\ st.state \notin READY_STATES => q.output = row.output
<1>1. row \in RowOver(DOMAIN row.status)
  BY TaskIsRow
<1>2. /\ row.output \in Output
      /\ UpdateSubtaskStatus(row, id, st).output = AddCounts(row.output, st)
  BY <1>1 DEF RowOver, UpdateSubtaskStatus
<1>3. PICK out \in Output : out = row.output
  BY <1>2
<1>4. /\ out.succeeded \in Nat /\ out.failed \in Nat /\ out.skipped \in Nat
      /\ st.succeeded \in Nat /\ st.failed \in Nat /\ st.skipped \in Nat
  BY DEF Output, SubtaskStatus
<1>5. CASE st.state \in READY_STATES
  <2>1. /\ AddCounts(out, st).succeeded = out.succeeded + st.succeeded
        /\ AddCounts(out, st).failed = out.failed + st.failed
        /\ AddCounts(out, st).skipped = out.skipped + st.skipped
    BY <1>5 DEF AddCounts, Output
  <2>2. Done(AddCounts(out, st)) = Done(out) + Done(st)
    <3> PICK sum : sum = AddCounts(out, st)
      OBVIOUS
    <3>1. /\ sum.succeeded = out.succeeded + st.succeeded /\ sum.failed = out.failed + st.failed
          /\ sum.skipped = out.skipped + st.skipped
      BY <2>1
    <3>2. Done(sum) = Done(out) + Done(st)
      BY <1>4, <3>1 DEF Done
    <3> QED BY <3>2
  <2> QED BY <1>2, <1>3, <1>5, <2>1, <2>2
<1>6. CASE st.state \notin READY_STATES
  BY <1>2, <1>6 DEF AddCounts
<1> QED BY <1>5, <1>6

\* A chunk that has an id is as long as a natural number says.
LEMMA SizeIsNatural ==
  ASSUME task.output.total \in Nat,
         NEW id \in {1} \X (1 .. NumberOfSubtasks(task.output.total, ItemsPerTask))
  PROVE  ChunkSize(id) \in Nat
<1> PICK total : total = task.output.total
  OBVIOUS
<1> PICK n : n = NumberOfSubtasks(total, ItemsPerTask)
  OBVIOUS
<1> PICK k : k = id[2]
  OBVIOUS
<1>1. total \in Nat /\ ItemsPerTask \in Nat \ {0} /\ k \in 1 .. n
  BY ConstantsAssumption
<1>2. n \in 0 .. total /\ k - 1 \in Nat
  BY <1>1, NumberWithinTotal
<1>3. total \in Nat \ {0}
  BY <1>1, <1>2
<1>4. n \in Nat \ {0} /\ ItemsPerTask * (n - 1) < total
  BY <1>1, <1>3, NumberRoundsUp
<1>5. ItemsPerTask * (k - 1) <= ItemsPerTask * (n - 1)
  <2>1. n - 1 \in Nat /\ k - 1 <= n - 1
    BY <1>1, <1>2, <1>4
  <2> QED BY <1>1, <1>2, <2>1, ProductGrows
<1> PICK before : before = (k - 1) * ItemsPerTask
  OBVIOUS
<1>6. before \in Nat /\ before < total
  <2>1. before = ItemsPerTask * (k - 1) /\ before \in Nat /\ ItemsPerTask * (n - 1) \in Int
    BY <1>1, <1>2, <1>4
  <2> QED BY <1>3, <1>4, <1>5, <2>1
<1>7. ChunkSize(id) = IF before + ItemsPerTask <= total THEN ItemsPerTask ELSE total - before
  BY DEF ChunkSize
<1> QED BY <1>1, <1>6, <1>7

LEMMA SettledTyped ==
  ASSUME JobInvariant, RowShaped, HasSubtasks(task)
  PROVE  /\ Counts(SettledMails, DOMAIN task.status) /\ Counts(SettledSizes, DOMAIN task.status)
         /\ task.output.total \in Nat
<1>1. \A id \in DOMAIN task.status : task.status[id] \in SubtaskStatus
  BY SumsTyped
<1>2. task.output.total \in Nat
  <2>1. IsTask(task, SubtaskId)
    BY DEF JobInvariant, TypeOK
  <2>2. task.output \in Output
    BY <2>1, TaskIsRow DEF RowOver
  <2> QED BY <2>2 DEF Output
<1>3. \A id \in DOMAIN task.status : ChunkSize(id) \in Nat
  BY <1>2, SizeIsNatural DEF RowShaped
<1> QED BY <1>1, <1>2, <1>3 DEF Counts, SettledMails, SettledSizes, SubtaskStatus

\* The result of a subtask adds what it counted to task_output, once.
LEMMA WriteTotals ==
  ASSUME JobInvariant, LedgerInvariant, AccountInvariant, TotalInvariant,
         NEW w \in Worker, HasJob(w), WriteStatus(w)
  PROVE  TotalInvariant'
<1> DEFINE job == worker[w]
           q == worker'[w]
<1> PICK id : id = job.msg.id
  OBVIOUS
<1> PICK st : st = job.st
  OBVIOUS
<1> PICK ids : ids = DOMAIN task.status
  OBVIOUS
<1>1. /\ job.pc = "update" /\ OnlyMoves(w) /\ Carrier(w) /\ Busy(w)
      /\ UNCHANGED <<queue, parent, sent>> /\ IsUpdatable(task, id)
      /\ task' = UpdateSubtaskStatus(task, id, st)
      /\ q.msg = job.msg /\ q.pc = "release" /\ q.st = st /\ st \in SubtaskStatus
  BY Writes, JobFields DEF WriteStatus, updateVars, Busy, Carrier, PassedOn, Becomes, RejectWrite,
     HasJob
<1>2. /\ Unsettled(id) /\ id \in ids
      /\ task'.status = [task.status EXCEPT ![id] = st]
      /\ task'.output.total = task.output.total
  BY WriteLedger DEF Unsettled
<1>3. /\ DOMAIN task'.status = ids /\ HasSubtasks(task) /\ HasSubtasks(task')
      /\ task'.status[id] = st
      /\ \A i \in ids \ {id} : task'.status[i] = task.status[i]
  BY <1>2 DEF HasSubtasks
<1>4. RowShaped'
  <2>1. ids = {1} \X (1 .. NumberOfSubtasks(task.output.total, ItemsPerTask))
    BY <1>3 DEF TotalInvariant, RowShaped
  <2> QED BY <1>2, <1>3, <2>1 DEF RowShaped
<1>5. RowAdded'
  <2> PICK mails : mails = SettledMails
    OBVIOUS
  <2> PICK sizes : sizes = SettledSizes
    OBVIOUS
  <2> PICK mailsNext : mailsNext = SettledMails'
    OBVIOUS
  <2> PICK sizesNext : sizesNext = SettledSizes'
    OBVIOUS
  <2>1. /\ IsFiniteSet(ids) /\ Counts(mails, ids) /\ Counts(sizes, ids) /\ task.output.total \in Nat
    BY <1>3, SumsTyped, SettledTyped DEF TotalInvariant
  <2>2. /\ task.output.succeeded = Total(mails, ids)
        /\ Done(task.output) = Total(sizes, ids)
    BY <1>3 DEF TotalInvariant, RowAdded
  <2>3. mails[id] = 0 /\ sizes[id] = 0
    BY <1>2 DEF SettledMails, SettledSizes, Unsettled
  <2>4. \A i \in ids \ {id} : mailsNext[i] = mails[i] /\ sizesNext[i] = sizes[i]
    BY <1>2, <1>3 DEF SettledMails, SettledSizes, IsSettled, ChunkSize
  <2>5. /\ mailsNext[id] = IF st.state \in READY_STATES THEN st.succeeded ELSE 0
        /\ sizesNext[id] = IF st.state \in READY_STATES THEN ChunkSize(id) ELSE 0
    BY <1>2, <1>3 DEF SettledMails, SettledSizes, IsSettled, ChunkSize
  <2>6. IsTask(task, SubtaskId)
    BY DEF JobInvariant, TypeOK
  <2>7. /\ st.succeeded \in Nat /\ ChunkSize(id) \in Nat
    BY <1>1, <1>2, <1>3, <2>1, SizeIsNatural DEF SubtaskStatus, TotalInvariant, RowShaped
  <2>8. /\ Total(mailsNext, ids) + mails[id] = Total(mails, ids) + mailsNext[id]
        /\ Total(sizesNext, ids) + sizes[id] = Total(sizes, ids) + sizesNext[id]
    <3>1. mailsNext[id] \in Nat /\ sizesNext[id] \in Nat
      BY <2>5, <2>7
    <3> QED BY <1>2, <2>1, <2>4, <3>1, TotalChanged
  <2>9. /\ Total(mails, ids) \in Nat /\ Total(sizes, ids) \in Nat
        /\ Total(mailsNext, ids) \in Nat /\ Total(sizesNext, ids) \in Nat
    <3>1. Counts(mailsNext, ids) /\ Counts(sizesNext, ids)
      BY <2>1, <2>4, <2>5, <2>7 DEF Counts
    <3> QED BY <2>1, <3>1, TotalTyped
  <2>10. /\ Total(mailsNext, ids) = Total(mails, ids) + mailsNext[id]
         /\ Total(sizesNext, ids) = Total(sizes, ids) + sizesNext[id]
    BY <2>3, <2>8, <2>9
  <2>11. CASE st.state \in READY_STATES
    <3>1. Done(st) = ChunkSize(id)
      <4>1. Final(job)
        BY <1>1, <2>11 DEF Final, READY_STATES
      <4> QED BY <1>1, <4>1 DEF TotalInvariant, Closed
    <3>2. /\ task'.output.succeeded = task.output.succeeded + st.succeeded
          /\ Done(task'.output) = Done(task.output) + Done(st)
      BY <1>1, <1>2, <2>6, <2>11, CountsWritten
    <3>3. /\ task'.output.succeeded = Total(mailsNext, ids)
          /\ Done(task'.output) = Total(sizesNext, ids)
      BY <2>2, <2>5, <2>10, <2>11, <3>1, <3>2
    <3>4. Done(task.output)' = Done(task'.output)
      BY DEF Done
    <3> QED BY <1>3, <3>3, <3>4 DEF RowAdded
  <2>12. CASE st.state \notin READY_STATES
    <3>1. task'.output = task.output
      BY <1>1, <1>2, <2>6, <2>12, CountsWritten
    <3>2. /\ task'.output.succeeded = Total(mailsNext, ids)
          /\ Done(task'.output) = Total(sizesNext, ids)
      BY <2>2, <2>5, <2>9, <2>10, <2>12, <3>1
    <3>3. Done(task.output)' = Done(task'.output)
      BY DEF Done
    <3> QED BY <1>3, <3>2, <3>3 DEF RowAdded
  <2> QED BY <2>11, <2>12
<1>6. ASSUME NEW v \in Worker, Busy(v)' PROVE Closed(worker[v])'
  <2>1. CASE v = w
    BY <1>1, <2>1 DEF Closed, Final
  <2>2. CASE v # w
    <3>1. Busy(v) /\ worker'[v] = worker[v]
      BY <1>1, <1>6, <2>2 DEF OnlyMoves, Busy
    <3> QED BY <1>2, <3>1 DEF TotalInvariant, Closed, ChunkSize
  <2> QED BY <2>1, <2>2
<1>7. \E mails : Mailed(mails)'
  <2>1. PICK mails : Mailed(mails)
    BY DEF TotalInvariant
  <2>2. mails \in [ids -> Nat] /\ Total(mails, ids) = Total(sent, Recipient)
    BY <2>1 DEF Mailed
  <2>3. mails[id] = st.succeeded
    BY <1>1, <2>1 DEF Mailed
  <2>4. ASSUME NEW v \in Worker, Carrier(v)'
        PROVE  mails[worker'[v].msg.id] = worker'[v].st.succeeded
    <3>1. CASE v = w
      BY <1>1, <2>3, <3>1
    <3>2. CASE v # w
      <4>1. Carrier(v) /\ worker'[v] = worker[v]
        BY <1>1, <2>4, <3>2 DEF OnlyMoves, Carrier, Busy
      <4> QED BY <2>1, <4>1 DEF Mailed
    <3> QED BY <3>1, <3>2
  <2>5. ASSUME NEW i \in ids
        PROVE  /\ task'.status[i].state \in READY_STATES => mails[i] = task'.status[i].succeeded
               /\ parent[1].pc \in Queueing /\ i[2] >= parent[1].next => mails[i] = 0
    <3>1. CASE i = id
      BY <1>3, <2>1, <2>3, <3>1 DEF Mailed
    <3>2. CASE i # id
      BY <1>3, <2>1, <3>2 DEF Mailed, IsSettled
    <3> QED BY <3>1, <3>2
  <2>6. \A m \in queue : mails[m.id] = m.st.succeeded
    BY <2>1 DEF Mailed
  <2>7. Mailed(mails)'
    BY <1>1, <1>3, <2>2, <2>4, <2>5, <2>6, MailedNext
  <2> QED BY <2>7
<1> QED BY <1>4, <1>5, <1>6, <1>7 DEF TotalInvariant

LEMMA WorkerTotals ==
  ASSUME JobInvariant, LedgerInvariant, ListsInvariant, WorkInvariant, AccountInvariant,
         TotalInvariant, NEW w \in Worker, WorkerNext(w), ~Event("close"), ~Event("database"),
         ~Event("duplicate"), ~Event("template")
  PROVE  TotalInvariant'
<1>1. CASE ~Busy(w)
  <2>1. Receive(w)
    BY <1>1 DEF WorkerNext, Busy, CheckSubtask, AcquireLock, Prepare, SendEmail, RefuseEmail,
         ThrottleEmail, DropConnection, AbortSending, FinishSending, Sending, CloseConnection,
         WriteStatus, RejectWrite, FailWrite, ReleaseLock, SubmitRetry
  <2> QED BY <2>1, ReceiveTotals
<1>2. CASE Busy(w)
  <2>1. /\ HasJob(w) /\ ~Receive(w) /\ JobOK(worker[w]) /\ JobAccounted(worker[w])
        /\ worker[w].pc # "unwind"
    BY <1>2, BusyJobs
       DEF Receive, JobInvariant, AccountInvariant, ListsInvariant, ListsUnsent, JobListOK
  <2>2. CASE WriteStatus(w)
    BY <2>1, <2>2, WriteTotals
  <2>3. CASE SubmitRetry(w)
    BY <2>1, <2>3, SubmitTotals
  <2>4. CASE SendEmail(w)
    BY <2>1, <2>4, SendTotals
  <2>5. ~RejectWrite(w) /\ ~FailWrite(w)
    BY <1>2, NothingRejected DEF FailWrite
  <2>6. CASE \/ CheckSubtask(w) \/ AcquireLock(w) \/ Prepare(w) \/ RefuseEmail(w)
             \/ ThrottleEmail(w) \/ DropConnection(w) \/ AbortSending(w)
             \/ FinishSending(w) \/ CloseConnection(w) \/ ReleaseLock(w)
    <3>1. UNCHANGED <<task, parent, queue, sent>>
      BY <2>6 DEF CheckSubtask, AcquireLock, Prepare, RefuseEmail, ThrottleEmail,
         DropConnection, AbortSending, FinishSending, CloseConnection, ReleaseLock, sendVars,
         updateVars
    <3>2. OnlyMoves(w) /\ (worker'[w] = Idle \/ KeepsCounts(worker[w], worker'[w]))
      BY <2>1, <2>6, CountsGoOn
    <3>3. Carrier(w) \/ worker'[w] = Idle
      <4>1. ASSUME PassedOn(worker[w]) PROVE worker'[w] = Idle
        <5>1. CloseConnection(w)
          BY <2>6, <4>1 DEF PassedOn, CheckSubtask, AcquireLock, Prepare, RefuseEmail, Sending,
             ThrottleEmail, DropConnection, AbortSending, FinishSending, ReleaseLock
        <5> QED BY <2>1, <4>1, <5>1, Closes DEF PassedOn
      <4> QED BY <1>2, <4>1 DEF Carrier
    <3> QED BY <2>1, <3>1, <3>2, <3>3, QuietTotals
  <2> QED BY <2>1, <2>2, <2>3, <2>4, <2>5, <2>6 DEF WorkerNext
<1> QED BY <1>1, <1>2

LEMMA SameTotals ==
  ASSUME TotalInvariant, UNCHANGED <<task, worker, queue, sent>>,
         parent'[1].pc \in Queueing => parent[1].pc \in Queueing /\ parent'[1].next = parent[1].next
  PROVE  TotalInvariant'
<1>1. RowShaped' /\ RowAdded'
  BY SameRow DEF TotalInvariant
<1>2. \A w \in Worker : (Busy(w) => Closed(worker[w]))'
  BY DEF TotalInvariant, Closed, ChunkSize, Busy
<1>3. \E mails : Mailed(mails)'
  <2>1. PICK mails : Mailed(mails)
    BY DEF TotalInvariant
  <2>2. \A w \in Worker : Carrier(w)' => Carrier(w) /\ worker'[w] = worker[w]
    BY DEF Carrier, Busy
  <2>3. Mailed(mails)'
    BY <2>1, <2>2, MailedNext DEF Mailed, IsSettled
  <2> QED BY <2>3
<1> QED BY <1>1, <1>2, <1>3 DEF TotalInvariant

\* Without subtasks there is nothing to add up.
LEMMA NoTotalsYet ==
  ASSUME LedgerInvariant, TotalInvariant, ~HasSubtasks(task), ~HasSubtasks(task'),
         task'.task_state # "SUCCESS", UNCHANGED <<worker, queue, sent>>
  PROVE  TotalInvariant'
<1>1. queue' = {} /\ (\A v \in Worker : ~Busy(v)') /\ DOMAIN task.status = {} /\ DOMAIN task'.status = {}
  BY DEF LedgerInvariant, RowPhase, Busy, HasSubtasks
<1>2. RowShaped' /\ RowAdded'
  BY DEF RowShaped, RowAdded
<1>3. \E mails : Mailed(mails)'
  <2>1. PICK mails : Mailed(mails)
    BY DEF TotalInvariant
  <2>2. mails \in [{} -> Nat] /\ Total(mails, {}) = Total(sent, Recipient)
    BY <1>1, <2>1 DEF Mailed
  <2>3. Mailed(mails)'
    BY <1>1, <2>2, MailedNext DEF Carrier
  <2> QED BY <2>3
<1> QED BY <1>1, <1>2, <1>3 DEF TotalInvariant

\* Nobody has been emailed when the subtasks are defined.
LEMMA DefineTotals ==
  ASSUME JobInvariant, LedgerInvariant, TotalInvariant, DefineSubtasks(1)
  PROVE  TotalInvariant'
<1>1. /\ ParentsTyped /\ 1 \in Parent /\ RunOK(parent[1]) /\ IsTask(parent[1].row, SubtaskId)
  BY MembersTyped, TypeParts, RunFields DEF JobInvariant, ParentsTyped, RunTyped
<1>2. /\ parent[1].pc = "define"
      /\ task' = InitializeSubtaskInfo(parent[1].row, parent[1].total, SubtaskIds(1))
      /\ UNCHANGED <<queue, worker, sent>>
  BY <1>1, ParentDefines DEF DefineSubtasks, parentVars
<1>3. /\ ~HasSubtasks(task) /\ parent[1].total # 0
      /\ parent[1].total \in 0 .. Cardinality(Recipient)
  BY <1>1, <1>2 DEF LedgerInvariant, ParentPhase, Defined, Blank, RunOK
<1> PICK ids : ids = SubtaskIds(1)
  OBVIOUS
<1>4. /\ task'.status = [id \in ids |-> NewStatus] /\ HasSubtasks(task')
      /\ task'.output.total = parent[1].total /\ task'.task_state = "PROGRESS"
      /\ IsFiniteSet(ids)
      /\ ids = {1} \X (1 .. NumberOfSubtasks(parent[1].total, ItemsPerTask))
  BY <1>1, <1>2, <1>3, DefinedRow, IdsTyped DEF SubtaskIds
<1>5. task'.output.succeeded = 0 /\ Done(task'.output) = 0
  <2>1. parent[1].row \in RowOver(DOMAIN parent[1].row.status)
    BY <1>1, TaskIsRow
  <2>2. /\ task'.output.succeeded = 0 /\ task'.output.failed = 0 /\ task'.output.skipped = 0
    BY <1>2, <2>1 DEF InitializeSubtaskInfo, RowOver, NoOutput
  <2> QED BY <2>2 DEF Done
<1>6. DOMAIN task'.status = ids /\ \A id \in ids : task'.status[id] = NewStatus
  BY <1>4
<1>7. NewStatus.state \notin READY_STATES
  BY DEF NewStatus, READY_STATES
<1>8. RowShaped'
  BY <1>4, <1>6 DEF RowShaped
<1>9. RowAdded'
  <2> PICK mails : mails = SettledMails'
    OBVIOUS
  <2> PICK sizes : sizes = SettledSizes'
    OBVIOUS
  <2>1. \A id \in ids : mails[id] = 0 /\ sizes[id] = 0
    BY <1>6, <1>7 DEF SettledMails, SettledSizes, IsSettled
  <2>2. Total(mails, ids) = 0 /\ Total(sizes, ids) = 0
    BY <1>4, <2>1, TotalOfNone
  <2>3. Done(task.output)' = Done(task'.output)
    BY DEF Done
  <2> QED BY <1>5, <1>6, <2>2, <2>3 DEF RowAdded
<1>10. queue' = {} /\ \A v \in Worker : ~Busy(v)'
  BY <1>2, <1>3 DEF LedgerInvariant, RowPhase, Busy
<1>11. \E mails : Mailed(mails)'
  <2>1. Total(sent, Recipient) = 0
    <3>1. PICK mails : Mailed(mails)
      BY DEF TotalInvariant
    <3>2. DOMAIN task.status = {}
      BY <1>3 DEF HasSubtasks
    <3>3. Total(mails, {}) = Total(sent, Recipient)
      BY <3>1, <3>2 DEF Mailed
    <3>4. Total(mails, {}) = 0
      BY FS_EmptySet, TotalOfNone
    <3> QED BY <3>3, <3>4
  <2> PICK none : none = [id \in ids |-> 0]
    OBVIOUS
  <2>2. none \in [ids -> Nat] /\ \A id \in ids : none[id] = 0
    OBVIOUS
  <2>3. Total(none, ids) = Total(sent', Recipient)
    BY <1>2, <1>4, <2>1, <2>2, TotalOfNone
  <2>4. Mailed(none)'
    BY <1>6, <1>7, <1>10, <2>2, <2>3, MailedNext DEF Carrier
  <2> QED BY <2>4
<1> QED BY <1>8, <1>9, <1>10, <1>11 DEF TotalInvariant

\* A first message has counted nothing.
LEMMA QueueTotals ==
  ASSUME JobInvariant, WorkInvariant, TotalInvariant, QueueSubtask(1), ~Event("broker")
  PROVE  TotalInvariant'
<1> PICK k : k = parent[1].next
  OBVIOUS
<1>1. ParentsTyped /\ 1 \in Parent /\ RunOK(parent[1]) /\ k \in Nat
  BY TypeParts, MembersTyped, RunFields DEF JobInvariant, ParentsTyped, RunTyped
<1>2. PICK m : m = [id |-> <<1, k>>, to |-> Members(Head(parent[1].chunks)), st |-> NewStatus]
  OBVIOUS
<1>3. /\ parent[1].pc = "queue" /\ queue' = queue \cup {m}
      /\ UNCHANGED <<worker, task, sent>> /\ m.id \in SubtaskIds(1)
      /\ parent'[1].pc = "queue" /\ parent'[1].next = k + 1
  BY <1>1, <1>2, ParentQueues DEF RunBecomes, QueueSubtask, parentVars
<1>4. /\ m.id \in DOMAIN task.status /\ m.id[2] = k /\ m.st.succeeded = 0
      /\ \A id \in DOMAIN task.status : id[2] \in Nat
  <2>1. DOMAIN task.status = SubtaskIds(1)
    BY <1>3 DEF WorkInvariant, RunLeft, Queueing, SubtaskIds
  <2> QED BY <1>2, <1>3, <2>1 DEF NewStatus, SubtaskIds
<1>5. RowShaped' /\ RowAdded'
  BY <1>3, SameRow DEF TotalInvariant
<1>6. \A w \in Worker : (Busy(w) => Closed(worker[w]))'
  BY <1>3 DEF TotalInvariant, Closed, ChunkSize, Busy
<1>7. \E mails : Mailed(mails)'
  <2>1. PICK mails : Mailed(mails)
    BY DEF TotalInvariant
  <2>2. ASSUME NEW id \in DOMAIN task.status
        PROVE  /\ task.status[id].state \in READY_STATES => mails[id] = task.status[id].succeeded
               /\ id[2] >= k => mails[id] = 0
    BY <1>3, <2>1, <2>2 DEF Mailed, IsSettled, Queueing
  <2>3. mails[m.id] = m.st.succeeded
    <3>1. m.id[2] >= k
      BY <1>1, <1>4
    <3> QED BY <1>4, <2>2, <3>1
  <2>4. \A n \in queue' : mails[n.id] = n.st.succeeded
    BY <1>3, <2>1, <2>3 DEF Mailed
  <2>5. \A id \in DOMAIN task'.status :
          /\ task'.status[id].state \in READY_STATES => mails[id] = task'.status[id].succeeded
          /\ id[2] >= k + 1 => mails[id] = 0
    <3>1. \A j \in Nat : j >= k + 1 => j >= k
      BY <1>1
    <3> QED BY <1>3, <1>4, <2>2, <3>1
  <2>6. \A w \in Worker : Carrier(w)' => Carrier(w) /\ worker'[w] = worker[w]
    BY <1>3 DEF Carrier, Busy
  <2>7. /\ mails \in [DOMAIN task'.status -> Nat]
        /\ Total(mails, DOMAIN task'.status) = Total(sent', Recipient)
        /\ \A w \in Worker : Carrier(w)' => mails[worker'[w].msg.id] = worker'[w].st.succeeded
    BY <1>3, <2>1, <2>6 DEF Mailed
  <2>8. Mailed(mails)'
    BY <1>3, <2>4, <2>5, <2>7, MailedNext
  <2> QED BY <2>8
<1> QED BY <1>5, <1>6, <1>7 DEF TotalInvariant

LEMMA ParentTotals ==
  ASSUME "redeliver" \notin Events, JobInvariant, LedgerInvariant, WorkInvariant,
         TotalInvariant, NEW p \in Parent, ParentNext(p), ~Event("broker")
  PROVE  TotalInvariant'
<1>1. ParentsTyped /\ IsTask(task, SubtaskId) /\ RunOK(parent[p])
  BY TypeParts DEF JobInvariant
<1>2. p = 1 /\ UNCHANGED <<worker, sent>>
  BY ParentLedger, ParentLeavesAlone, TypeParts DEF JobInvariant, parentVars
<1>3. /\ parent[1].pc \notin Defined \cup {"done"} =>
           /\ ~HasSubtasks(task) /\ parent[1].pc # "succeed"
           /\ parent[1].pc # "idle" => DOMAIN parent[1].row.status = {}
  BY DEF LedgerInvariant, ParentPhase, Blank, HasSubtasks
<1>4. ASSUME UNCHANGED <<task, queue>>, parent'[1].pc \notin {"generate", "queue"}
      PROVE  TotalInvariant'
  BY <1>2, <1>4, SameTotals DEF Queueing
<1>5. CASE ReadTask(p)
  <2>1. parent'[1].pc = "start" /\ UNCHANGED <<task, queue>>
    BY <1>1, <1>2, <1>5, ParentReads DEF RunBecomes, ReadTask
  <2> QED BY <1>4, <2>1
<1>6. CASE MarkProgress(p)
  <2>1. /\ parent[1].pc = "start" /\ UNCHANGED queue /\ task'.task_state = "PROGRESS"
        /\ task'.status = parent[1].row.status
    BY <1>1, <1>2, <1>6, ParentMarks DEF MarkProgress
  <2>2. ~HasSubtasks(task) /\ ~HasSubtasks(task')
    BY <1>3, <2>1 DEF HasSubtasks, Defined
  <2> QED BY <1>2, <2>1, <2>2, NoTotalsYet
<1>7. CASE Delegate(p)
  <2>1. parent'[1].pc \in {"finish", "count"} /\ UNCHANGED <<task, queue>>
    BY <1>1, <1>2, <1>7, ParentDelegates DEF RunBecomes, Delegate
  <2> QED BY <1>4, <2>1
<1>8. CASE CountRecipients(p)
  <2>1. enrolled \subseteq Recipient
    BY TypeParts DEF JobInvariant
  <2>2. parent'[1].pc \in {"fail", "define"} /\ UNCHANGED <<task, queue>>
    BY <1>1, <1>2, <1>8, <2>1, ParentCounts DEF RunBecomes, CountRecipients
  <2> QED BY <1>4, <2>2
<1>9. CASE DefineSubtasks(p)
  BY <1>2, <1>9, DefineTotals
<1>10. CASE GenerateChunks(p)
  <2>1. enrolled \subseteq Recipient
    BY TypeParts DEF JobInvariant
  <2>2. /\ parent[1].pc = "generate" /\ parent'[1].next = parent[1].next
        /\ UNCHANGED <<task, queue>>
    BY <1>1, <1>2, <1>10, <2>1, ParentGenerates DEF RunBecomes, GenerateChunks
  <2> QED BY <1>2, <2>2, SameTotals DEF Queueing
<1>11. CASE QueueSubtask(p)
  BY <1>2, <1>11, QueueTotals
<1>12. CASE QueuedAll(p) \/ OnSuccess(p) \/ OnFailure(p)
  <2>1. parent'[1].pc \in {"finish", "done", "succeed", "failed"} /\ UNCHANGED <<task, queue>>
    BY <1>1, <1>2, <1>12, ParentEnds DEF RunBecomes, QueuedAll, OnSuccess, OnFailure
  <2> QED BY <1>4, <2>1
<1>13. CASE SaveEnd(p)
  <2>1. /\ parent[1].pc \in {"succeed", "failed"} /\ UNCHANGED queue
        /\ task'.status = parent[1].row.status
        /\ parent[1].pc = "failed" => task'.task_state = "FAILURE"
    BY <1>1, <1>2, <1>13, ParentSaves DEF SaveEnd
  <2>2. ~HasSubtasks(task) /\ ~HasSubtasks(task') /\ task'.task_state # "SUCCESS"
    BY <1>3, <2>1 DEF HasSubtasks, Defined
  <2> QED BY <1>2, <2>1, <2>2, NoTotalsYet
<1> QED BY <1>5, <1>6, <1>7, <1>8, <1>9, <1>10, <1>11, <1>12, <1>13 DEF ParentNext

LEMMA StillCountable ==
  ASSUME JobInvariant, [Next]_vars, Countable'
  PROVE  /\ Countable /\ Regular'
         /\ \A e \in {"crash", "database", "broker", "close", "unenroll", "duplicate", "enroll",
                      "template"} : ~Event(e)
<1>1. events \in [Events -> Nat] /\ EventsGoOn
  BY EventsOnlyGrow
<1>2. /\ Regular' /\ Regular
      /\ \A e \in {"crash", "database", "broker", "close", "unenroll", "duplicate", "enroll"} :
           ~Event(e)
  BY StillRegular DEF Countable
<1>3. ~Happened({"template"})
  BY <1>1, HappenedStays DEF Countable
<1>4. ASSUME Event("template") PROVE FALSE
  <2>1. "template" \in Events /\ events'["template"] > 0
    BY <1>1, <1>4, EventCounted
  <2> QED BY <2>1 DEF Countable, Happened
<1> QED BY <1>2, <1>3, <1>4 DEF Countable

LEMMA TotalStep ==
  ASSUME OneAtATime, JobInvariant, LedgerInvariant, ListsInvariant, WorkInvariant,
         AccountInvariant, TotalInvariant, [Next]_vars, Countable'
  PROVE  TotalInvariant'
<1>1. \A e \in {"crash", "database", "broker", "close", "unenroll", "duplicate", "enroll",
                "template"} : ~Event(e)
  BY StillCountable
<1>2. CASE \E w \in Worker : WorkerNext(w)
  BY <1>1, <1>2, WorkerTotals
<1>3. CASE \E p \in Parent : ParentNext(p)
  BY <1>1, <1>3, ParentTotals DEF OneAtATime
<1>4. CASE \/ \E id \in SubtaskId : ExpireLock(id)
           \/ ChangeUsers
           \/ UNCHANGED vars
  <2>1. UNCHANGED <<task, queue, worker, parent, sent>>
    BY <1>4 DEF ExpireLock, ChangeUsers, vars
  <2> QED BY <2>1, SameTotals
<1> QED BY <1>1, <1>2, <1>3, <1>4 DEF Next, CrashParent, CrashWorker

LEMMA TotalInit == Init => TotalInvariant
<1> SUFFICES ASSUME Init PROVE TotalInvariant
  OBVIOUS
<1>1. /\ queue = {} /\ (\A w \in Worker : ~Busy(w)) /\ DOMAIN task.status = {}
      /\ task.task_state # "SUCCESS" /\ \A r \in Recipient : sent[r] = 0
  BY DEF Init, Busy, Idle, NewTask
<1>2. RowShaped /\ RowAdded
  BY <1>1 DEF RowShaped, RowAdded, HasSubtasks
<1>3. Mailed([id \in {} |-> 0])
  <2> PICK none : none = [id \in {} |-> 0]
    OBVIOUS
  <2>1. none \in [DOMAIN task.status -> Nat]
    BY <1>1
  <2>2. Total(none, DOMAIN task.status) = Total(sent, Recipient)
    <3>1. Total(none, {}) = 0 /\ Total(sent, Recipient) = 0
      BY <1>1, FS_EmptySet, ConstantsAssumption, TotalOfNone
    <3> QED BY <1>1, <3>1
  <2>3. Mailed(none)
    BY <1>1, <2>1, <2>2 DEF Mailed, Carrier
  <2> QED BY <2>3
<1> QED BY <1>1, <1>2, <1>3 DEF TotalInvariant

\* As long as the template is there too, task_output counts the chunks that are
\* over, all of each, and the emails that were sent are those counted by the
\* results and by whoever carries a subtask.
THEOREM TotalsAreKept ==
  ASSUME OneAtATime
  PROVE  Spec => [](Countable => TotalInvariant)
<1>1. Init => (Countable => TotalInvariant)
  BY TotalInit
<1>2. /\ JobInvariant /\ (NoSecondResult => LedgerInvariant) /\ (AllWritten => ListsInvariant)
      /\ (Undisturbed => WorkInvariant) /\ (Regular => AccountInvariant)
      /\ (Countable => TotalInvariant) /\ [Next]_vars
      => (Countable => TotalInvariant)'
  <2>1. ASSUME JobInvariant, NoSecondResult => LedgerInvariant, AllWritten => ListsInvariant,
               Undisturbed => WorkInvariant, Regular => AccountInvariant,
               Countable => TotalInvariant, [Next]_vars, Countable'
        PROVE  TotalInvariant'
    <3>1. Countable /\ Regular /\ Undisturbed /\ AllWritten /\ NoSecondResult
      BY <2>1, StillCountable DEF Countable, Regular, Undisturbed, AllWritten
    <3> QED BY <2>1, <3>1, TotalStep
  <2> QED BY <2>1
<1> QED BY <1>1, <1>2, JobsAgree, LedgerIsKept, ListsAreKept, WorkIsKept, AccountsAreKept, PTL
        DEF Spec

\* The sizes of the chunks add up to the number of users.
LEMMA SizesAddUp ==
  ASSUME NEW total \in Nat, NEW per \in Nat \ {0}, NEW f, NEW n,
         n = NumberOfSubtasks(total, per),
         \A k \in 1 .. n :
           f[<<1, k>>] = IF (k - 1) * per + per <= total THEN per ELSE total - (k - 1) * per
  PROVE  Total(f, {1} \X (1 .. n)) = total
<1> DEFINE first(k) == {1} \X (1 .. k)
           T == {k \in Nat : k <= n =>
                   Total(f, first(k)) = IF per * k <= total THEN per * k ELSE total}
<1>1. n \in Nat /\ (n # 0 => per * (n - 1) < total) /\ total <= per * n
  <2>1. n \in 0 .. total /\ (total # 0 => n # 0)
    BY NumberWithinTotal
  <2>2. CASE total = 0
    BY <2>1, <2>2
  <2>3. CASE total # 0
    BY <2>1, <2>3, NumberRoundsUp
  <2> QED BY <2>1, <2>2, <2>3
<1>2. \A k \in 1 .. n : f[<<1, k>>] \in Nat /\ (k - 1) * per = per * (k - 1) /\ per * (k - 1) < total
                        /\ per * (k - 1) \in Nat
  <2> SUFFICES ASSUME NEW k \in 1 .. n
               PROVE  f[<<1, k>>] \in Nat /\ (k - 1) * per = per * (k - 1) /\ per * (k - 1) < total
                      /\ per * (k - 1) \in Nat
    OBVIOUS
  <2>1. k - 1 \in Nat /\ n - 1 \in Nat /\ k - 1 <= n - 1 /\ n # 0
    BY <1>1
  <2>2. per * (k - 1) <= per * (n - 1)
    BY <2>1, ProductGrows
  <2>3. per * (k - 1) \in Nat /\ per * (n - 1) \in Nat /\ (k - 1) * per = per * (k - 1)
    BY <2>1
  <2>4. per * (k - 1) < total
    BY <1>1, <2>1, <2>2, <2>3
  <2>5. f[<<1, k>>] = IF per * (k - 1) + per <= total THEN per ELSE total - per * (k - 1)
    BY <2>3
  <2> QED BY <2>3, <2>4, <2>5
<1>3. \A k \in Nat : IsFiniteSet(first(k)) /\ (k <= n => Counts(f, first(k)))
  <2> SUFFICES ASSUME NEW k \in Nat
               PROVE  IsFiniteSet(first(k)) /\ (k <= n => Counts(f, first(k)))
    OBVIOUS
  <2>1. IsFiniteSet({1}) /\ IsFiniteSet(1 .. k)
    <3>1. 1 \in Int /\ k \in Int
      OBVIOUS
    <3>2. IsFiniteSet(1 .. k)
      BY <3>1, FS_Interval
    <3> QED BY <3>2, FS_Singleton
  <2>2. IsFiniteSet(first(k))
    BY <2>1, FS_Product
  <2>3. k <= n => Counts(f, first(k))
    <3>1. k <= n => \A i \in 1 .. k : i \in 1 .. n
      BY <1>1
    <3> QED BY <1>2, <3>1 DEF Counts
  <2> QED BY <2>2, <2>3
<1>4. 0 \in T
  <2>1. first(0) = {} /\ per * 0 = 0
    OBVIOUS
  <2>2. Total(f, {}) = 0
    BY FS_EmptySet, TotalOfNone
  <2> QED BY <2>1, <2>2
<1>5. ASSUME NEW k \in Nat, k \in T PROVE k + 1 \in T
  <2> SUFFICES ASSUME k + 1 <= n
               PROVE  Total(f, first(k + 1)) =
                        IF per * (k + 1) <= total THEN per * (k + 1) ELSE total
    OBVIOUS
  <2>1. k + 1 \in 1 .. n /\ k <= n /\ (k + 1) - 1 = k
    BY <1>1
  <2>2. k * per = per * k /\ per * k < total /\ per * k \in Nat /\ per * (k + 1) = per * k + per
    <3>1. k * per = per * k /\ per * (k + 1) = per * k + per
      OBVIOUS
    <3> QED BY <1>2, <2>1, <3>1
  <2>3. Total(f, first(k)) = per * k
    BY <1>5, <2>1, <2>2
  <2>4. f[<<1, k + 1>>] = IF per * k + per <= total THEN per ELSE total - per * k
    BY <2>1, <2>2
  <2>5. first(k + 1) = first(k) \cup {<<1, k + 1>>} /\ <<1, k + 1>> \notin first(k)
    <3>1. 1 .. k + 1 = (1 .. k) \cup {k + 1} /\ k + 1 \notin 1 .. k
      OBVIOUS
    <3> QED BY <3>1
  <2> HIDE DEF first
  <2>6. IsFiniteSet(first(k)) /\ Counts(f, first(k + 1))
    <3>1. k + 1 \in Nat /\ k + 1 <= n
      OBVIOUS
    <3>2. Counts(f, first(k + 1))
      BY <1>3, <3>1
    <3> QED BY <1>3, <3>2
  <2>7. Total(f, first(k) \cup {<<1, k + 1>>}) = Total(f, first(k)) + f[<<1, k + 1>>]
    BY <2>5, <2>6, TotalAdded
  <2>8. Total(f, first(k + 1)) = per * k + f[<<1, k + 1>>]
    BY <2>3, <2>5, <2>7
  <2> QED BY <2>2, <2>4, <2>8
<1>6. n \in T
  <2> HIDE DEF T
  <2> QED BY <1>1, <1>4, <1>5, Induct
<1>7. Total(f, first(n)) = IF per * n <= total THEN per * n ELSE total
  BY <1>1, <1>6
<1>8. per * n \in Nat
  BY <1>1
<1> QED BY <1>1, <1>7, <1>8

\* A job that is a SUCCESS has counted every recipient it announced, once, and
\* its 'succeeded' is the number of emails that were really sent.
THEOREM EveryoneIsAccountedFor ==
  ASSUME OneAtATime
  PROVE  Spec => [](Countable => EveryoneAccountedFor)
<1>1. ASSUME JobInvariant, LedgerInvariant, TotalInvariant PROVE EveryoneAccountedFor
  <2> SUFFICES ASSUME task.task_state = "SUCCESS"
               PROVE  /\ Done(task.output) = task.output.total
                      /\ task.output.succeeded = Total(sent, Recipient)
    BY DEF EveryoneAccountedFor, Done, Total
  <2> PICK ids : ids = DOMAIN task.status
    OBVIOUS
  <2> PICK total : total = task.output.total
    OBVIOUS
  <2> PICK n : n = NumberOfSubtasks(total, ItemsPerTask)
    OBVIOUS
  <2>1. HasSubtasks(task) /\ ids = {1} \X (1 .. n) /\ \A id \in ids : IsSettled(id)
    BY <1>1 DEF TotalInvariant, RowShaped, LedgerInvariant, RowPhase
  <2>2. /\ task.output.succeeded = Total(SettledMails, ids)
        /\ Done(task.output) = Total(SettledSizes, ids)
    BY <1>1, <2>1 DEF TotalInvariant, RowAdded
  <2>3. total \in Nat /\ Counts(SettledMails, ids) /\ IsFiniteSet(ids)
    BY <1>1, <2>1, SettledTyped, SumsTyped DEF TotalInvariant
  <2>4. Total(SettledSizes, ids) = total
    <3> PICK f : f = SettledSizes
      OBVIOUS
    <3>1. \A k \in 1 .. n :
            f[<<1, k>>] = IF (k - 1) * ItemsPerTask + ItemsPerTask <= total
                          THEN ItemsPerTask ELSE total - (k - 1) * ItemsPerTask
      <4>1. ASSUME NEW k \in 1 .. n
            PROVE  f[<<1, k>>] = IF (k - 1) * ItemsPerTask + ItemsPerTask <= total
                                 THEN ItemsPerTask ELSE total - (k - 1) * ItemsPerTask
        <5>1. <<1, k>> \in ids
          BY <2>1, <4>1
        <5>2. f[<<1, k>>] = ChunkSize(<<1, k>>)
          BY <2>1, <5>1 DEF SettledSizes
        <5> QED BY <5>2 DEF ChunkSize
      <4> QED BY <4>1
    <3>2. ItemsPerTask \in Nat \ {0}
      BY ConstantsAssumption
    <3>3. Total(f, {1} \X (1 .. n)) = total
      BY <2>3, <3>1, <3>2, SizesAddUp
    <3> QED BY <2>1, <3>3
  <2>5. Total(SettledMails, ids) = Total(sent, Recipient)
    <3>1. PICK mails : Mailed(mails)
      BY <1>1 DEF TotalInvariant
    <3> PICK f : f = SettledMails
      OBVIOUS
    <3>2. \A id \in ids : mails[id] = f[id]
      BY <2>1, <3>1 DEF Mailed, SettledMails
    <3>3. Total(mails, ids) = Total(f, ids)
      BY <2>3, <3>2, TotalSame
    <3>4. Total(mails, ids) = Total(sent, Recipient)
      BY <3>1 DEF Mailed
    <3> QED BY <3>3, <3>4
  <2> QED BY <2>2, <2>4, <2>5
<1>2. Countable => NoSecondResult
  BY DEF Countable, Regular, Undisturbed, AllWritten
<1> QED BY <1>1, <1>2, JobsAgree, LedgerIsKept, TotalsAreKept, PTL
=============================================================================
