-------------------------- MODULE BulkEmailProofs --------------------------
(***************************************************************************)
(* Proofs about BulkEmail, for any recipients, workers, limits and events. *)
(***************************************************************************)
EXTENDS BulkEmailProperties, SubtaskInfoProofs

-----------------------------------------------------------------------------
(***************************************************************************)
(* Jobs: what a worker has in hand.                                        *)
(***************************************************************************)
Pcs == {"check", "lock", "prepare", "send", "close", "update", "release", "unwind", "retry"}

JobTyped(j) == j.msg \in Message /\ j \in Job(j.msg)

WorkersTyped ==
  /\ DOMAIN worker = Worker
  /\ \A w \in Worker : worker[w] = Idle \/ JobTyped(worker[w])

LEMMA JobFields ==
  ASSUME NEW j, JobTyped(j)
  PROVE  /\ j.pc \in Pcs /\ j.pc # "idle" /\ j # Idle
         /\ j.msg \in Message
         /\ j.msg.id \in SubtaskId /\ j.msg.to \in SUBSET Recipient /\ j.msg.st \in SubtaskStatus
         /\ j.to \in SUBSET Recipient /\ j.st \in SubtaskStatus /\ j.depth \in Nat
         /\ j.skip_retry_max \in BOOLEAN
BY DEF JobTyped, Job, Message, Pcs, Idle

\* The job q is j with these fields.
Becomes(q, j, pc, to, st, depth, skip) ==
  /\ JobTyped(q) /\ q.msg = j.msg
  /\ q.pc = pc /\ q.to = to /\ q.st = st /\ q.depth = depth /\ q.skip_retry_max = skip

\* Only worker w moves.
OnlyMoves(w) ==
  DOMAIN worker' = Worker /\ \A v \in Worker \ {w} : worker'[v] = worker[v]

\* What the ways to write worker[w] come to.
LEMMA GoesTo ==
  ASSUME NEW w \in Worker, DOMAIN worker = Worker, JobTyped(worker[w]), NEW pc \in Pcs,
         WorkerGoto(w, pc)
  PROVE  /\ OnlyMoves(w)
         /\ Becomes(worker'[w], worker[w], pc, worker[w].to, worker[w].st, worker[w].depth,
                    worker[w].skip_retry_max)
<1>1. worker' = [worker EXCEPT ![w] = [worker[w] EXCEPT !.pc = pc]]
  BY DEF WorkerGoto
<1>2. OnlyMoves(w) /\ worker'[w] = [worker[w] EXCEPT !.pc = pc]
  BY <1>1 DEF OnlyMoves
<1>3. Becomes([worker[w] EXCEPT !.pc = pc], worker[w], pc, worker[w].to, worker[w].st,
              worker[w].depth, worker[w].skip_retry_max)
  BY DEF JobTyped, Job, Pcs, Becomes
<1> QED BY <1>2, <1>3

LEMMA Sets ==
  ASSUME NEW w \in Worker, DOMAIN worker = Worker, JobTyped(worker[w]),
         NEW pc \in Pcs, NEW to \in SUBSET Recipient, NEW st \in SubtaskStatus,
         NEW skip \in BOOLEAN, WorkerSets(w, pc, to, st, skip)
  PROVE  OnlyMoves(w) /\ Becomes(worker'[w], worker[w], pc, to, st, 1, skip)
<1> DEFINE k == [worker[w] EXCEPT !.pc = pc, !.to = to, !.st = st, !.depth = 1,
                                  !.skip_retry_max = skip]
<1>1. worker' = [worker EXCEPT ![w] = k]
  BY DEF WorkerSets
<1>2. Becomes(k, worker[w], pc, to, st, 1, skip)
  BY DEF JobTyped, Job, Pcs, Becomes
<1> HIDE DEF k
<1>3. OnlyMoves(w) /\ worker'[w] = k
  BY <1>1 DEF OnlyMoves
<1> QED BY <1>2, <1>3

LEMMA Nests ==
  ASSUME NEW w \in Worker, DOMAIN worker = Worker, JobTyped(worker[w]), NEW n \in Nat,
         worker' = [worker EXCEPT ![w].depth = n]
  PROVE  /\ OnlyMoves(w)
         /\ Becomes(worker'[w], worker[w], worker[w].pc, worker[w].to, worker[w].st, n,
                    worker[w].skip_retry_max)
<1> DEFINE k == [worker[w] EXCEPT !.depth = n]
<1>1. worker' = [worker EXCEPT ![w] = k]
  OBVIOUS
<1>2. Becomes(k, worker[w], worker[w].pc, worker[w].to, worker[w].st, n,
              worker[w].skip_retry_max)
  BY DEF JobTyped, Job, Becomes
<1> HIDE DEF k
<1>3. OnlyMoves(w) /\ worker'[w] = k
  BY <1>1 DEF OnlyMoves
<1> QED BY <1>2, <1>3

LEMMA Stops ==
  ASSUME NEW w \in Worker, DOMAIN worker = Worker, WorkerStops(w)
  PROVE  OnlyMoves(w) /\ worker'[w] = Idle
BY DEF WorkerStops, OnlyMoves

\* The SubtaskStatus is changed by counting; these keep the retries counted so far.
SameRetries(t, st) ==
  /\ t \in SubtaskStatus
  /\ t.retried_nomax = st.retried_nomax /\ t.retried_withmax = st.retried_withmax

LEMMA CountsTyped ==
  ASSUME NEW st \in SubtaskStatus, NEW n \in Nat
  PROVE  /\ SameRetries([st EXCEPT !.failed = @ + n, !.state = "FAILURE"], st)
         /\ [st EXCEPT !.failed = @ + n, !.state = "FAILURE"].state = "FAILURE"
         /\ SameRetries([st EXCEPT !.succeeded = @ + 1], st)
         /\ [st EXCEPT !.succeeded = @ + 1].state = st.state
         /\ SameRetries([st EXCEPT !.failed = @ + 1], st)
         /\ [st EXCEPT !.failed = @ + 1].state = st.state
         /\ SameRetries([st EXCEPT !.state = "SUCCESS"], st)
         /\ [st EXCEPT !.state = "SUCCESS"].state = "SUCCESS"
<1>1. /\ st.failed + n \in Nat /\ st.failed + 1 \in Nat /\ st.succeeded + 1 \in Nat
  BY DEF SubtaskStatus
<1>2. /\ SameRetries([st EXCEPT !.failed = @ + n, !.state = "FAILURE"], st)
      /\ [st EXCEPT !.failed = @ + n, !.state = "FAILURE"].state = "FAILURE"
  BY <1>1 DEF SubtaskStatus, SameRetries
<1>3. /\ SameRetries([st EXCEPT !.succeeded = @ + 1], st)
      /\ [st EXCEPT !.succeeded = @ + 1].state = st.state
  BY <1>1 DEF SubtaskStatus, SameRetries
<1>4. /\ SameRetries([st EXCEPT !.failed = @ + 1], st)
      /\ [st EXCEPT !.failed = @ + 1].state = st.state
  BY <1>1 DEF SubtaskStatus, SameRetries
<1>5. /\ SameRetries([st EXCEPT !.state = "SUCCESS"], st)
      /\ [st EXCEPT !.state = "SUCCESS"].state = "SUCCESS"
  BY DEF SubtaskStatus, SameRetries
<1> QED BY <1>2, <1>3, <1>4, <1>5

LEMMA RetriesTyped ==
  ASSUME NEW st \in SubtaskStatus
  PROVE  /\ Throttled(st) \in SubtaskStatus /\ Throttled(st).state = "RETRY"
         /\ Throttled(st).retried_nomax = st.retried_nomax + 1
         /\ Throttled(st).retried_withmax = st.retried_withmax
         /\ Disconnected(st) \in SubtaskStatus /\ Disconnected(st).state = "RETRY"
         /\ Disconnected(st).retried_nomax = st.retried_nomax
         /\ Disconnected(st).retried_withmax = st.retried_withmax + 1
<1>1. /\ st.retried_nomax + 1 \in Nat /\ st.retried_withmax + 1 \in Nat
  BY DEF SubtaskStatus
<1>2. /\ Throttled(st) \in SubtaskStatus /\ Throttled(st).state = "RETRY"
      /\ Throttled(st).retried_nomax = st.retried_nomax + 1
      /\ Throttled(st).retried_withmax = st.retried_withmax
  BY <1>1 DEF SubtaskStatus, Throttled
<1>3. /\ Disconnected(st) \in SubtaskStatus /\ Disconnected(st).state = "RETRY"
      /\ Disconnected(st).retried_nomax = st.retried_nomax
      /\ Disconnected(st).retried_withmax = st.retried_withmax + 1
  BY <1>1 DEF SubtaskStatus, Disconnected
<1> QED BY <1>2, <1>3

LEMMA SizeOf ==
  ASSUME NEW to \in SUBSET Recipient
  PROVE  /\ IsFiniteSet(to) /\ Cardinality(to) \in Nat
         /\ \A part \in SUBSET to : Cardinality(part) \in 0 .. Cardinality(to)
<1>1. ASSUME NEW u \in SUBSET Recipient PROVE IsFiniteSet(u) /\ Cardinality(u) \in Nat
  BY ConstantsAssumption, FS_Subset, FS_CardinalityType
<1>2. ASSUME NEW part \in SUBSET to PROVE Cardinality(part) <= Cardinality(to)
  BY <1>1, FS_Subset
<1> QED BY <1>1, <1>2

LEMMA GiveUpTyped ==
  ASSUME NEW st \in SubtaskStatus, NEW to \in SUBSET Recipient
  PROVE  SameRetries(GiveUp(st, to), st) /\ GiveUp(st, to).state = "FAILURE"
BY SizeOf, CountsTyped DEF GiveUp

LEMMA SkippedTyped ==
  ASSUME NEW st \in SubtaskStatus, NEW before \in SUBSET Recipient, NEW after \in SUBSET before
  PROVE  SameRetries(Skipped(st, before, after), st) /\ Skipped(st, before, after).state = st.state
<1>1. ASSUME NEW b \in Nat, NEW a \in 0 .. b
      PROVE  /\ SameRetries([st EXCEPT !.skipped = @ + b - a], st)
             /\ [st EXCEPT !.skipped = @ + b - a].state = st.state
  <2>1. st.skipped + b - a \in Nat
    BY DEF SubtaskStatus
  <2> QED BY <2>1 DEF SubtaskStatus, SameRetries
<1>2. Cardinality(before) \in Nat /\ Cardinality(after) \in 0 .. Cardinality(before)
  BY SizeOf
<1> QED BY <1>1, <1>2 DEF Skipped

\* What a list and a status account for: those still on the list, and those the
\* counters know to have left it.
Accounted(to, st) == Cardinality(to) + st.succeeded + st.failed + st.skipped

LEMMA CountsKept ==
  ASSUME NEW st \in SubtaskStatus, NEW to \in SUBSET Recipient
  PROVE  /\ Accounted(to, Throttled(st)) = Accounted(to, st)
         /\ Accounted(to, Disconnected(st)) = Accounted(to, st)
         /\ \A r \in to :
              /\ Accounted(to \ {r}, [st EXCEPT !.succeeded = @ + 1]) = Accounted(to, st)
              /\ Accounted(to \ {r}, [st EXCEPT !.failed = @ + 1]) = Accounted(to, st)
         /\ \A rest \in SUBSET to : Accounted(rest, Skipped(st, to, rest)) = Accounted(to, st)
<1>1. st.succeeded \in Nat /\ st.failed \in Nat /\ st.skipped \in Nat
  BY DEF SubtaskStatus
<1>2. IsFiniteSet(to) /\ Cardinality(to) \in Nat
  BY SizeOf
<1>3. /\ Accounted(to, Throttled(st)) = Accounted(to, st)
      /\ Accounted(to, Disconnected(st)) = Accounted(to, st)
  BY DEF Accounted, Throttled, Disconnected, SubtaskStatus
<1>4. ASSUME NEW r \in to
      PROVE  /\ Accounted(to \ {r}, [st EXCEPT !.succeeded = @ + 1]) = Accounted(to, st)
             /\ Accounted(to \ {r}, [st EXCEPT !.failed = @ + 1]) = Accounted(to, st)
  <2>1. Cardinality(to \ {r}) = Cardinality(to) - 1
    BY <1>2, FS_RemoveElement
  <2>2. \A n, s, f, k \in Nat : /\ n - 1 + (s + 1) + f + k = n + s + f + k
                                 /\ n - 1 + s + (f + 1) + k = n + s + f + k
    OBVIOUS
  <2>3. /\ Accounted(to \ {r}, [st EXCEPT !.succeeded = @ + 1]) =
             Cardinality(to) - 1 + (st.succeeded + 1) + st.failed + st.skipped
        /\ Accounted(to \ {r}, [st EXCEPT !.failed = @ + 1]) =
             Cardinality(to) - 1 + st.succeeded + (st.failed + 1) + st.skipped
    BY <2>1 DEF Accounted, SubtaskStatus
  <2> QED BY <1>1, <1>2, <2>2, <2>3 DEF Accounted
<1>5. ASSUME NEW rest \in SUBSET to
      PROVE  Accounted(rest, Skipped(st, to, rest)) = Accounted(to, st)
  <2>1. Cardinality(rest) \in Nat
    BY <1>2, SizeOf
  <2>2. \A n, m, s, f, k \in Nat : m + s + f + (k + n - m) = n + s + f + k
    OBVIOUS
  <2>3. Accounted(rest, Skipped(st, to, rest)) =
          Cardinality(rest) + st.succeeded + st.failed
            + (st.skipped + Cardinality(to) - Cardinality(rest))
    BY DEF Accounted, Skipped, SubtaskStatus
  <2> QED BY <1>1, <1>2, <2>1, <2>2, <2>3 DEF Accounted
<1> QED BY <1>3, <1>4, <1>5

-----------------------------------------------------------------------------
(***************************************************************************)
(* What each action of a worker makes of its job.                          *)
(***************************************************************************)
HasJob(w) == DOMAIN worker = Worker /\ JobTyped(worker[w])

\* Escape, from a status with the retries counted so far.
LEMMA Escapes ==
  ASSUME NEW w \in Worker, HasJob(w), NEW st \in SubtaskStatus, Escape(w, st)
  PROVE  /\ OnlyMoves(w)
         /\ \E t : /\ Becomes(worker'[w], worker[w], "update", worker[w].to, t, 1, FALSE)
                   /\ SameRetries(t, st) /\ t.state = "FAILURE"
<1> DEFINE t == [st EXCEPT !.failed = @ + Cardinality(worker[w].msg.to), !.state = "FAILURE"]
<1>1. worker[w].msg.to \in SUBSET Recipient /\ worker[w].to \in SUBSET Recipient
  BY JobFields DEF HasJob
<1>2. SameRetries(t, st) /\ t.state = "FAILURE"
  BY <1>1, SizeOf, CountsTyped
<1>3. WorkerSets(w, "update", worker[w].to, t, FALSE)
  BY DEF Escape
<1> HIDE DEF t
<1>4. t \in SubtaskStatus /\ "update" \in Pcs
  BY <1>2 DEF SameRetries, Pcs
<1>5. OnlyMoves(w) /\ Becomes(worker'[w], worker[w], "update", worker[w].to, t, 1, FALSE)
  BY <1>1, <1>3, <1>4, Sets DEF HasJob
<1> QED BY <1>2, <1>5

LEMMA Prepares ==
  ASSUME NEW w \in Worker, HasJob(w), Prepare(w)
  PROVE  LET job == worker[w]
             to == IF RetryCount(job.st) = 0 THEN job.to \ optout ELSE job.to
         IN /\ job.pc = "prepare"
            /\ OnlyMoves(w)
            /\ \E st :
                 /\ SameRetries(st, job.st) /\ st.state = job.st.state
                 /\ Accounted(to, st) = Accounted(job.to, job.st)
                 /\ \/ Becomes(worker'[w], job, "send", to, st, 1, FALSE)
                    \/ Becomes(worker'[w], job, "update", to, Disconnected(st), 1, FALSE)
                    \/ Becomes(worker'[w], job, "close", to, GiveUp(st, to), 1, FALSE)
                    \/ \E t : /\ Becomes(worker'[w], job, "update", job.to, t, 1, FALSE)
                              /\ SameRetries(t, st) /\ t.state = "FAILURE"
                              /\ Event("template")
<1> DEFINE job == worker[w]
           to == IF RetryCount(job.st) = 0 THEN job.to \ optout ELSE job.to
           st == Skipped(job.st, job.to, to)
<1>1. /\ job.to \in SUBSET Recipient /\ job.st \in SubtaskStatus
      /\ to \in SUBSET job.to /\ to \in SUBSET Recipient
  BY JobFields DEF HasJob
<1>2. /\ SameRetries(st, job.st) /\ st.state = job.st.state /\ st \in SubtaskStatus
      /\ Accounted(to, st) = Accounted(job.to, job.st)
  BY <1>1, SkippedTyped, CountsKept DEF SameRetries
<1>3. /\ job.pc = "prepare"
      /\ \/ WorkerSets(w, "send", to, st, FALSE)
         \/ WorkerSets(w, "update", to, Disconnected(st), FALSE)
         \/ WorkerSets(w, "close", to, GiveUp(st, to), FALSE)
         \/ Escape(w, st) /\ Event("template")
  BY DEF Prepare
<1>4. {"send", "update", "close"} \subseteq Pcs
  BY DEF Pcs
<1> HIDE DEF to, st
<1>5. Disconnected(st) \in SubtaskStatus /\ GiveUp(st, to) \in SubtaskStatus
  BY <1>1, <1>2, RetriesTyped, GiveUpTyped DEF SameRetries
<1>6. CASE WorkerSets(w, "send", to, st, FALSE)
  <2>1. OnlyMoves(w) /\ Becomes(worker'[w], job, "send", to, st, 1, FALSE)
    BY <1>1, <1>2, <1>4, <1>6, Sets DEF HasJob
  <2> QED BY <1>2, <1>3, <2>1 DEF to
<1>7. CASE WorkerSets(w, "update", to, Disconnected(st), FALSE)
  <2>1. OnlyMoves(w) /\ Becomes(worker'[w], job, "update", to, Disconnected(st), 1, FALSE)
    BY <1>1, <1>4, <1>5, <1>7, Sets DEF HasJob
  <2> QED BY <1>2, <1>3, <2>1 DEF to
<1>8. CASE WorkerSets(w, "close", to, GiveUp(st, to), FALSE)
  <2>1. OnlyMoves(w) /\ Becomes(worker'[w], job, "close", to, GiveUp(st, to), 1, FALSE)
    BY <1>1, <1>4, <1>5, <1>8, Sets DEF HasJob
  <2> QED BY <1>2, <1>3, <2>1 DEF to
<1>9. CASE Escape(w, st) /\ Event("template")
  <2>1. /\ OnlyMoves(w)
        /\ \E t : /\ Becomes(worker'[w], job, "update", job.to, t, 1, FALSE)
                  /\ SameRetries(t, st) /\ t.state = "FAILURE"
    BY <1>2, <1>9, Escapes
  <2> QED BY <1>2, <1>3, <1>9, <2>1 DEF to
<1> QED BY <1>3, <1>6, <1>7, <1>8, <1>9

\* The steps of the loop, and its end.
LEMMA Sends ==
  ASSUME NEW w \in Worker, HasJob(w),
         \/ SendEmail(w) \/ RefuseEmail(w) \/ ThrottleEmail(w) \/ DropConnection(w)
         \/ AbortSending(w) \/ FinishSending(w)
  PROVE  LET job == worker[w]
         IN /\ job.pc = "send"
            /\ OnlyMoves(w)
            /\ \/ \E r \in job.to : \E t :
                    /\ SameRetries(t, job.st) /\ t.state = job.st.state
                    /\ Accounted(job.to \ {r}, t) = Accounted(job.to, job.st)
                    /\ Becomes(worker'[w], job, "send", job.to \ {r}, t, 1, FALSE)
               \/ Becomes(worker'[w], job, "update", job.to, Throttled(job.st), 1, TRUE)
               \/ Becomes(worker'[w], job, "update", job.to, Disconnected(job.st), 1, FALSE)
               \/ \E t \in {u \in SubtaskStatus : u.state \in {"SUCCESS", "FAILURE"}} :
                    /\ SameRetries(t, job.st)
                    /\ Becomes(worker'[w], job, "close", job.to, t, 1, FALSE)
<1> DEFINE job == worker[w]
<1>1. job.to \in SUBSET Recipient /\ job.st \in SubtaskStatus
  BY JobFields DEF HasJob
<1>2. {"send", "update", "close"} \subseteq Pcs /\ {TRUE, FALSE} \subseteq BOOLEAN
  BY DEF Pcs
<1>3. /\ Throttled(job.st) \in SubtaskStatus /\ Disconnected(job.st) \in SubtaskStatus
      /\ GiveUp(job.st, job.to) \in SubtaskStatus
      /\ SameRetries(GiveUp(job.st, job.to), job.st)
      /\ GiveUp(job.st, job.to).state = "FAILURE"
  BY <1>1, RetriesTyped, GiveUpTyped DEF SameRetries
<1>4. ASSUME NEW r \in job.to, NEW t, SameRetries(t, job.st), t.state = job.st.state,
             WorkerSets(w, "send", job.to \ {r}, t, FALSE)
      PROVE  OnlyMoves(w) /\ Becomes(worker'[w], job, "send", job.to \ {r}, t, 1, FALSE)
  <2>1. job.to \ {r} \in SUBSET Recipient /\ t \in SubtaskStatus
    BY <1>1, <1>4 DEF SameRetries
  <2> QED BY <1>2, <1>4, <2>1, Sets DEF HasJob
<1>5. CASE SendEmail(w)
  <2>1. job.pc = "send"
    BY <1>5 DEF SendEmail, Sending
  <2>2. PICK r \in job.to :
          WorkerSets(w, "send", job.to \ {r}, [job.st EXCEPT !.succeeded = @ + 1], FALSE)
    BY <1>5 DEF SendEmail
  <2>3. /\ SameRetries([job.st EXCEPT !.succeeded = @ + 1], job.st)
        /\ [job.st EXCEPT !.succeeded = @ + 1].state = job.st.state
        /\ Accounted(job.to \ {r}, [job.st EXCEPT !.succeeded = @ + 1]) = Accounted(job.to, job.st)
    BY <1>1, CountsTyped, CountsKept
  <2> QED BY <1>4, <2>1, <2>2, <2>3
<1>6. CASE RefuseEmail(w)
  <2>1. job.pc = "send"
    BY <1>6 DEF RefuseEmail, Sending
  <2>2. PICK r \in job.to :
          WorkerSets(w, "send", job.to \ {r}, [job.st EXCEPT !.failed = @ + 1], FALSE)
    BY <1>6 DEF RefuseEmail
  <2>3. /\ SameRetries([job.st EXCEPT !.failed = @ + 1], job.st)
        /\ [job.st EXCEPT !.failed = @ + 1].state = job.st.state
        /\ Accounted(job.to \ {r}, [job.st EXCEPT !.failed = @ + 1]) = Accounted(job.to, job.st)
    BY <1>1, CountsTyped, CountsKept
  <2> QED BY <1>4, <2>1, <2>2, <2>3
<1>7. CASE ThrottleEmail(w)
  <2>1. job.pc = "send" /\ WorkerSets(w, "update", job.to, Throttled(job.st), TRUE)
    BY <1>7 DEF ThrottleEmail, Sending
  <2>2. /\ OnlyMoves(w)
        /\ Becomes(worker'[w], job, "update", job.to, Throttled(job.st), 1, TRUE)
    BY <1>1, <1>2, <1>3, <2>1, Sets DEF HasJob
  <2> QED BY <2>1, <2>2
<1>8. CASE DropConnection(w)
  <2>1. job.pc = "send" /\ WorkerSets(w, "update", job.to, Disconnected(job.st), FALSE)
    BY <1>8 DEF DropConnection, Sending
  <2>2. /\ OnlyMoves(w)
        /\ Becomes(worker'[w], job, "update", job.to, Disconnected(job.st), 1, FALSE)
    BY <1>1, <1>2, <1>3, <2>1, Sets DEF HasJob
  <2> QED BY <2>1, <2>2
<1>9. CASE AbortSending(w)
  <2>1. job.pc = "send" /\ WorkerSets(w, "close", job.to, GiveUp(job.st, job.to), FALSE)
    BY <1>9 DEF AbortSending, Sending
  <2>2. /\ OnlyMoves(w)
        /\ Becomes(worker'[w], job, "close", job.to, GiveUp(job.st, job.to), 1, FALSE)
    BY <1>1, <1>2, <1>3, <2>1, Sets DEF HasJob
  <2> QED BY <1>3, <2>1, <2>2
<1>10. CASE FinishSending(w)
  <2> DEFINE t == [job.st EXCEPT !.state = "SUCCESS"]
  <2>1. job.pc = "send" /\ job.to = {} /\ WorkerSets(w, "close", {}, t, FALSE)
    BY <1>10 DEF FinishSending
  <2>2. SameRetries(t, job.st) /\ t.state = "SUCCESS" /\ t \in SubtaskStatus
    BY <1>1, CountsTyped DEF SameRetries
  <2> HIDE DEF t
  <2>3. OnlyMoves(w) /\ Becomes(worker'[w], job, "close", {}, t, 1, FALSE)
    BY <1>2, <2>1, <2>2, Sets DEF HasJob
  <2> QED BY <2>1, <2>2, <2>3
<1> QED BY <1>5, <1>6, <1>7, <1>8, <1>9, <1>10

LEMMA Receives ==
  ASSUME NEW w \in Worker, DOMAIN worker = Worker, queue \subseteq Message, Receive(w)
  PROVE  /\ worker[w].pc = "idle"
         /\ OnlyMoves(w)
         /\ \E m \in queue :
              /\ worker'[w] = Running(m) /\ JobTyped(Running(m))
              /\ OverlapTasks \/ ~BeingRun(m)
         /\ queue' \subseteq queue
<1>1. worker[w].pc = "idle"
  BY DEF Receive, Busy
<1>2. PICK m \in queue :
        /\ OverlapTasks \/ ~BeingRun(m)
        /\ worker' = [worker EXCEPT ![w] = Running(m)]
        /\ queue' = queue \ {m} \/ queue' = queue
  BY DEF Receive
<1>3. JobTyped(Running(m))
  BY DEF JobTyped, Running, Job, Message
<1>4. OnlyMoves(w) /\ worker'[w] = Running(m)
  BY <1>2 DEF OnlyMoves
<1> QED BY <1>1, <1>2, <1>3, <1>4

LEMMA Checks ==
  ASSUME NEW w \in Worker, HasJob(w), CheckSubtask(w)
  PROVE  LET job == worker[w]
         IN /\ job.pc = "check"
            /\ OnlyMoves(w)
            /\ \/ /\ IsStartable(task, job.msg.id, job.st)
                  /\ Becomes(worker'[w], job, "lock", job.to, job.st, job.depth, job.skip_retry_max)
               \/ worker'[w] = Idle
<1> "lock" \in Pcs
  BY DEF Pcs
<1> QED BY GoesTo, Stops DEF CheckSubtask, HasJob

LEMMA Locks ==
  ASSUME NEW w \in Worker, HasJob(w), AcquireLock(w)
  PROVE  LET job == worker[w]
         IN /\ job.pc = "lock"
            /\ OnlyMoves(w)
            /\ \/ /\ lock[job.msg.id] = NoOne
                  /\ lock' = [lock EXCEPT ![job.msg.id] = w]
                  /\ Becomes(worker'[w], job, "prepare", job.to, job.st, job.depth,
                             job.skip_retry_max)
               \/ /\ lock[job.msg.id] # NoOne
                  /\ worker'[w] = Idle
                  /\ lock' = lock
<1> "prepare" \in Pcs
  BY DEF Pcs
<1> QED BY GoesTo, Stops DEF AcquireLock, HasJob

LEMMA Closes ==
  ASSUME NEW w \in Worker, HasJob(w), CloseConnection(w)
  PROVE  LET job == worker[w]
         IN /\ job.pc = "close"
            /\ OnlyMoves(w)
            /\ \/ job.st.state = "RETRY" /\ worker'[w] = Idle
               \/ /\ job.st.state # "RETRY"
                  /\ Becomes(worker'[w], job, "update", job.to, job.st, 1, FALSE)
               \/ /\ \E t : /\ Becomes(worker'[w], job, "update", job.to, t, 1, FALSE)
                            /\ SameRetries(t, job.st) /\ t.state = "FAILURE"
                  /\ Event("close")
<1> DEFINE job == worker[w]
<1>1. "update" \in Pcs /\ job.to \in SUBSET Recipient /\ job.st \in SubtaskStatus
  BY JobFields DEF Pcs, HasJob
<1>2. CASE job.st.state = "RETRY" /\ WorkerStops(w)
  BY <1>2, Stops DEF CloseConnection, HasJob
<1>3. CASE job.st.state # "RETRY" /\ WorkerSets(w, "update", job.to, job.st, FALSE)
  BY <1>1, <1>3, Sets DEF CloseConnection, HasJob
<1>4. CASE Escape(w, job.st) /\ Event("close")
  BY <1>1, <1>4, Escapes DEF CloseConnection, HasJob
<1> QED BY <1>2, <1>3, <1>4 DEF CloseConnection

LEMMA Writes ==
  ASSUME NEW w \in Worker, HasJob(w), WriteStatus(w) \/ RejectWrite(w)
  PROVE  LET job == worker[w]
             id == job.msg.id
         IN /\ job.pc = "update"
            /\ OnlyMoves(w)
            /\ \/ /\ IsUpdatable(task, id)
                  /\ task' = UpdateSubtaskStatus(task, id, job.st)
                  /\ Becomes(worker'[w], job, "release", job.to, job.st, job.depth,
                             job.skip_retry_max)
               \/ /\ ~IsUpdatable(task, id)
                  /\ task' = task
                  /\ Becomes(worker'[w], job, "unwind", job.to, job.st, job.depth,
                             job.skip_retry_max)
<1> "release" \in Pcs /\ "unwind" \in Pcs
  BY DEF Pcs
<1> QED BY GoesTo DEF WriteStatus, RejectWrite, HasJob

LEMMA Fails ==
  ASSUME NEW w \in Worker, HasJob(w), FailWrite(w)
  PROVE  LET job == worker[w]
         IN /\ job.pc = "update"
            /\ OnlyMoves(w)
            /\ Event("database")
            /\ \/ Becomes(worker'[w], job, "update", job.to, job.st, job.depth + 1,
                          job.skip_retry_max)
               \/ Becomes(worker'[w], job, "unwind", job.to, job.st, job.depth,
                          job.skip_retry_max)
<1> DEFINE job == worker[w]
<1>1. "unwind" \in Pcs /\ job.depth + 1 \in Nat
  BY JobFields DEF Pcs, HasJob
<1>2. CASE worker' = [worker EXCEPT ![w].depth = @ + 1]
  <2>1. worker' = [worker EXCEPT ![w].depth = job.depth + 1]
    BY <1>2
  <2> QED BY <1>1, <2>1, Nests DEF FailWrite, HasJob
<1>3. CASE WorkerGoto(w, "unwind")
  BY <1>1, <1>3, GoesTo DEF FailWrite, HasJob
<1> QED BY <1>2, <1>3 DEF FailWrite

LEMMA Releases ==
  ASSUME NEW w \in Worker, HasJob(w), ReleaseLock(w)
  PROVE  LET job == worker[w]
         IN /\ job.pc \in {"release", "unwind"}
            /\ OnlyMoves(w)
            /\ lock' = [lock EXCEPT ![job.msg.id] = NoOne]
            /\ \/ Becomes(worker'[w], job, job.pc, job.to, job.st, job.depth - 1,
                          job.skip_retry_max)
               \/ /\ job.pc = "release" /\ job.st.state = "RETRY"
                  /\ Becomes(worker'[w], job, "retry", job.to, job.st, job.depth,
                             job.skip_retry_max)
               \/ /\ job.pc = "unwind" /\ job.st.state = "RETRY"
                  /\ \E t : /\ Becomes(worker'[w], job, "update", job.to, t, 1, FALSE)
                            /\ SameRetries(t, job.st) /\ t.state = "FAILURE"
               \/ job.st.state # "RETRY" /\ worker'[w] = Idle
<1> DEFINE job == worker[w]
<1>1. "retry" \in Pcs /\ job.depth \in Nat /\ job.st \in SubtaskStatus
  BY JobFields DEF Pcs, HasJob
<1>2. job.pc \in {"release", "unwind"} /\ lock' = [lock EXCEPT ![job.msg.id] = NoOne]
  BY DEF ReleaseLock, DeletedKey
<1>3. CASE job.depth > 1 /\ worker' = [worker EXCEPT ![w].depth = @ - 1]
  <2>1. worker' = [worker EXCEPT ![w].depth = job.depth - 1] /\ job.depth - 1 \in Nat
    BY <1>1, <1>3
  <2> QED BY <1>2, <2>1, Nests DEF HasJob
<1>4. CASE job.pc = "release" /\ job.st.state = "RETRY" /\ WorkerGoto(w, "retry")
  BY <1>1, <1>2, <1>4, GoesTo DEF HasJob
<1>5. CASE job.pc = "unwind" /\ job.st.state = "RETRY" /\ Escape(w, job.st)
  BY <1>1, <1>2, <1>5, Escapes
<1>6. CASE job.st.state # "RETRY" /\ WorkerStops(w)
  BY <1>2, <1>6, Stops DEF HasJob
<1> QED BY <1>2, <1>3, <1>4, <1>5, <1>6 DEF ReleaseLock

LEMMA Submits ==
  ASSUME NEW w \in Worker, HasJob(w), SubmitRetry(w)
  PROVE  LET job == worker[w]
         IN /\ job.pc = "retry"
            /\ OnlyMoves(w)
            /\ \/ /\ RetryCount(job.st) <= MaxRetriesOf(job.st, job.skip_retry_max)
                  /\ queue' = queue \cup {NextAttempt(job)}
                  /\ Becomes(worker'[w], job, "close", job.to, job.st, job.depth,
                             job.skip_retry_max)
               \/ /\ queue' = queue
                  /\ \E t : /\ Becomes(worker'[w], job, "close", job.to, t, 1, FALSE)
                            /\ SameRetries(t, job.st) /\ t.state = "FAILURE"
<1> DEFINE job == worker[w]
<1>1. /\ "close" \in Pcs /\ job.to \in SUBSET Recipient /\ job.st \in SubtaskStatus
      /\ RetryCount(job.st) \in Nat /\ MaxRetriesOf(job.st, job.skip_retry_max) \in Nat
  <2>1. /\ job.to \in SUBSET Recipient /\ job.st \in SubtaskStatus
        /\ job.st.retried_nomax \in Nat /\ job.st.retried_withmax \in Nat
    BY JobFields DEF HasJob, SubtaskStatus
  <2>2. MaxRetries \in Nat /\ InfiniteRetryCap \in Nat
    BY ConstantsAssumption
  <2> QED BY <2>1, <2>2 DEF Pcs, RetryCount, MaxRetriesOf
<1>2. CASE /\ ~(RetryCount(job.st) > MaxRetriesOf(job.st, job.skip_retry_max))
           /\ queue' = queue \cup {NextAttempt(job)}
           /\ WorkerGoto(w, "close")
  <2>1. RetryCount(job.st) <= MaxRetriesOf(job.st, job.skip_retry_max)
    BY <1>1, <1>2
  <2>2. /\ OnlyMoves(w)
        /\ Becomes(worker'[w], job, "close", job.to, job.st, job.depth, job.skip_retry_max)
    BY <1>1, <1>2, GoesTo DEF HasJob
  <2>3. job.pc = "retry"
    BY DEF SubmitRetry
  <2> HIDE DEF job
  <2> QED BY <1>2, <2>1, <2>2, <2>3 DEF job
<1>3. CASE WorkerSets(w, "close", job.to, GiveUp(job.st, job.to), FALSE) /\ queue' = queue
  <2>1. SameRetries(GiveUp(job.st, job.to), job.st) /\ GiveUp(job.st, job.to).state = "FAILURE"
    BY <1>1, GiveUpTyped
  <2>2. GiveUp(job.st, job.to) \in SubtaskStatus
    BY <2>1 DEF SameRetries
  <2>3. /\ OnlyMoves(w)
        /\ Becomes(worker'[w], job, "close", job.to, GiveUp(job.st, job.to), 1, FALSE)
    BY <1>1, <1>3, <2>2, Sets DEF HasJob
  <2> QED BY <1>3, <2>1, <2>3 DEF SubmitRetry
<1> QED BY <1>2, <1>3 DEF SubmitRetry

-----------------------------------------------------------------------------
(***************************************************************************)
(* The invariant that holds whatever goes wrong.  A message and a job keep *)
(* within the limits on retries, and carry nobody who declined once the    *)
(* Optout table has been looked at; a run of the parent has as many ids as *)
(* chunks; and a lock belongs to a worker that still has to delete it.     *)
(***************************************************************************)
MessageOK(m) ==
  /\ m.st.retried_withmax <= MaxRetries
  /\ m.st.retried_nomax <= InfiniteRetryCap
  /\ RetryCount(m.st) > 0 => m.to \cap declined = {}

\* The steps before the list is filtered.
Fresh == {"check", "lock", "prepare"}

\* The attempt j counts at most one retry more than its message, and exactly one
\* when it is to be retried; only a throttled attempt may add to retried_nomax.
RetriesOK(j) ==
  /\ j.pc \in Fresh => j.st = j.msg.st
  /\ j.pc = "send" => SameRetries(j.st, j.msg.st)
  /\ j.pc \notin Fresh \cup {"send"} =>
       /\ j.st.state # "QUEUING"
       /\ RetryCount(j.st) \in {RetryCount(j.msg.st), RetryCount(j.msg.st) + 1}
       /\ j.st.state = "RETRY" =>
            /\ RetryCount(j.st) = RetryCount(j.msg.st) + 1
            /\ j.skip_retry_max \/ j.st.retried_nomax = j.msg.st.retried_nomax
  /\ j.pc = "retry" => j.st.state = "RETRY"

JobOK(j) ==
  /\ MessageOK(j.msg)
  /\ RetriesOK(j)
  /\ j.pc \in Fresh => j.to = j.msg.to
  /\ j.pc \notin Fresh /\ (j.pc = "send" \/ j.st.state = "RETRY") => j.to \cap declined = {}

RunOK(run) ==
  /\ run.total \in 0 .. Cardinality(Recipient)
  /\ run.pc \in {"idle", "start", "delegate", "count", "define", "generate"} => run.next = 1
  /\ run.pc = "queue" =>
       run.next - 1 + Len(run.chunks) <= NumberOfSubtasks(run.total, ItemsPerTask)

\* A worker that has taken the lock of its subtask and not deleted it yet.
MustUnlock(j) ==
  \/ j.pc \in {"prepare", "send", "update", "release", "unwind"}
  \/ j.pc = "close" /\ j.st.state # "RETRY"

LocksHeld ==
  \A w \in Worker, id \in SubtaskId :
    lock[id] = w => Busy(w) /\ worker[w].msg.id = id /\ MustUnlock(worker[w])

JobInvariant ==
  /\ TypeOK
  /\ declined \subseteq optout
  /\ \A m \in queue : MessageOK(m)
  /\ \A w \in Worker : Busy(w) => JobOK(worker[w])
  /\ \A p \in Parent : RunOK(parent[p])
  /\ \A r \in declined : sent[r] = 0
  /\ Happened({"crash"}) \/ LocksHeld

LEMMA RetryNumbers ==
  ASSUME NEW st \in SubtaskStatus
  PROVE  /\ st.retried_nomax \in Nat /\ st.retried_withmax \in Nat
         /\ RetryCount(st) \in Nat /\ RetryCount(st) = st.retried_nomax + st.retried_withmax
BY DEF SubtaskStatus, RetryCount

\* What a change of a status does to its number of retries.
LEMMA RetriesKept ==
  ASSUME NEW st \in SubtaskStatus, NEW t, SameRetries(t, st)
  PROVE  t \in SubtaskStatus /\ RetryCount(t) = RetryCount(st)
BY DEF SameRetries, RetryCount

LEMMA RetriesAdded ==
  ASSUME NEW st \in SubtaskStatus, NEW s, SameRetries(s, st)
  PROVE  /\ RetryCount(Throttled(s)) = RetryCount(st) + 1
         /\ RetryCount(Disconnected(s)) = RetryCount(st) + 1
         /\ Disconnected(s).retried_nomax = st.retried_nomax
<1>1. s \in SubtaskStatus
  BY DEF SameRetries
<1>2. RetryCount(st) = st.retried_nomax + st.retried_withmax
  BY DEF RetryCount
<1>3. /\ Throttled(s).retried_nomax = st.retried_nomax + 1
      /\ Throttled(s).retried_withmax = st.retried_withmax
      /\ Disconnected(s).retried_nomax = st.retried_nomax
      /\ Disconnected(s).retried_withmax = st.retried_withmax + 1
  BY <1>1, RetriesTyped DEF SameRetries
<1>4. /\ RetryCount(Throttled(s)) = Throttled(s).retried_nomax + Throttled(s).retried_withmax
      /\ RetryCount(Disconnected(s)) =
           Disconnected(s).retried_nomax + Disconnected(s).retried_withmax
  BY DEF RetryCount
<1> QED BY <1>2, <1>3, <1>4, RetryNumbers

-----------------------------------------------------------------------------
(***************************************************************************)
(* Jobs stay within the invariant.                                         *)
(***************************************************************************)

\* The worker w is done with its job, or has got on with it.
JobGoesOn(w) ==
  /\ OnlyMoves(w)
  /\ \/ worker'[w] = Idle
     \/ /\ JobTyped(worker'[w]) /\ JobOK(worker'[w])
        /\ worker'[w].msg = worker[w].msg

\* A job with a result to write.
LEMMA EndsOK ==
  ASSUME NEW j, JobOK(j), NEW q, NEW pc \in {"close", "update", "release", "unwind"},
         NEW to, NEW st, NEW depth, NEW skip, Becomes(q, j, pc, to, st, depth, skip),
         st.state \in {"SUCCESS", "FAILURE"},
         RetryCount(st) \in {RetryCount(j.msg.st), RetryCount(j.msg.st) + 1}
  PROVE  JobOK(q)
BY DEF JobOK, RetriesOK, Becomes, Fresh

\* The number of retries of a job that has reached the handlers.
LEMMA ResultOK ==
  ASSUME NEW j, JobTyped(j), JobOK(j)
  PROVE  RetryCount(j.st) \in {RetryCount(j.msg.st), RetryCount(j.msg.st) + 1}
<1>1. CASE j.pc \in Fresh
  BY <1>1 DEF JobOK, RetriesOK
<1>2. CASE j.pc = "send"
  <2>1. SameRetries(j.st, j.msg.st) /\ j.msg.st \in SubtaskStatus
    BY <1>2, JobFields DEF JobOK, RetriesOK
  <2> QED BY <2>1, RetriesKept
<1>3. CASE j.pc \notin Fresh \cup {"send"}
  BY <1>3 DEF JobOK, RetriesOK
<1> QED BY <1>1, <1>2, <1>3

\* A job that is to be retried, in the steps that see to it.
LEMMA RetriesOn ==
  ASSUME NEW j, JobTyped(j), JobOK(j), NEW s, SameRetries(s, j.msg.st),
         NEW q, NEW to \in SUBSET Recipient, to \cap declined = {}, NEW depth
  PROVE  /\ Becomes(q, j, "update", to, Throttled(s), depth, TRUE) => JobOK(q)
         /\ Becomes(q, j, "update", to, Disconnected(s), depth, FALSE) => JobOK(q)
<1>1. j.msg.st \in SubtaskStatus /\ s \in SubtaskStatus
  BY JobFields DEF SameRetries
<1>2. /\ Throttled(s).state = "RETRY" /\ Disconnected(s).state = "RETRY"
      /\ RetryCount(Throttled(s)) = RetryCount(j.msg.st) + 1
      /\ RetryCount(Disconnected(s)) = RetryCount(j.msg.st) + 1
      /\ Disconnected(s).retried_nomax = j.msg.st.retried_nomax
  BY <1>1, RetriesTyped, RetriesAdded
<1>3. ASSUME Becomes(q, j, "update", to, Throttled(s), depth, TRUE) PROVE JobOK(q)
  BY <1>2, <1>3 DEF JobOK, RetriesOK, Becomes, Fresh
<1>4. ASSUME Becomes(q, j, "update", to, Disconnected(s), depth, FALSE) PROVE JobOK(q)
  BY <1>2, <1>4 DEF JobOK, RetriesOK, Becomes, Fresh
<1> QED BY <1>3, <1>4

LEMMA BusyGoesOn ==
  ASSUME NEW w \in Worker, HasJob(w), JobOK(worker[w]), declined \subseteq optout, WorkerNext(w)
  PROVE  JobGoesOn(w)
<1> DEFINE job == worker[w]
           q == worker'[w]
<1>1. /\ job.pc # "idle" /\ job.pc \in Pcs /\ job.st \in SubtaskStatus
      /\ job.to \in SUBSET Recipient /\ job.msg.st \in SubtaskStatus
      /\ RetryCount(job.st) \in {RetryCount(job.msg.st), RetryCount(job.msg.st) + 1}
  BY JobFields, ResultOK DEF HasJob
<1>2. ASSUME NEW pc, NEW to, NEW st, NEW depth, NEW skip,
             Becomes(q, job, pc, to, st, depth, skip), OnlyMoves(w), JobOK(q)
      PROVE  JobGoesOn(w)
  BY <1>2 DEF JobGoesOn, Becomes
<1>3. ASSUME NEW t, SameRetries(t, job.st), t.state = "FAILURE", NEW to, NEW depth, NEW skip,
             NEW pc \in {"close", "update"}, Becomes(q, job, pc, to, t, depth, skip), OnlyMoves(w)
      PROVE  JobGoesOn(w)
  <2>1. RetryCount(t) = RetryCount(job.st)
    BY <1>1, <1>3, RetriesKept
  <2>2. JobOK(q)
    BY <1>1, <1>3, <2>1, EndsOK
  <2> QED BY <1>2, <1>3, <2>2
<1>4. CASE Receive(w)
  BY <1>1, <1>4 DEF Receive, Busy
<1>5. CASE CheckSubtask(w)
  <2>1. ASSUME Becomes(q, job, "lock", job.to, job.st, job.depth, job.skip_retry_max),
               job.pc = "check"
        PROVE  JobOK(q)
    BY <2>1 DEF JobOK, RetriesOK, Becomes, Fresh
  <2> QED BY <1>2, <1>5, <2>1, Checks DEF JobGoesOn
<1>6. CASE AcquireLock(w)
  <2>1. ASSUME Becomes(q, job, "prepare", job.to, job.st, job.depth, job.skip_retry_max),
               job.pc = "lock"
        PROVE  JobOK(q)
    BY <2>1 DEF JobOK, RetriesOK, Becomes, Fresh
  <2> QED BY <1>2, <1>6, <2>1, Locks DEF JobGoesOn
<1>7. CASE Prepare(w)
  <2> DEFINE to == IF RetryCount(job.st) = 0 THEN job.to \ optout ELSE job.to
  <2>1. /\ job.pc = "prepare" /\ OnlyMoves(w)
        /\ \E st :
             /\ SameRetries(st, job.st) /\ st.state = job.st.state
             /\ \/ Becomes(q, job, "send", to, st, 1, FALSE)
                \/ Becomes(q, job, "update", to, Disconnected(st), 1, FALSE)
                \/ Becomes(q, job, "close", to, GiveUp(st, to), 1, FALSE)
                \/ \E t : /\ Becomes(q, job, "update", job.to, t, 1, FALSE)
                          /\ SameRetries(t, st) /\ t.state = "FAILURE"
    BY <1>7, Prepares
  <2>2. job.st = job.msg.st /\ job.to = job.msg.to /\ MessageOK(job.msg)
    BY <2>1 DEF JobOK, RetriesOK, Fresh
  <2>3. to \in SUBSET Recipient /\ to \cap declined = {}
    BY <1>1, <2>2, RetryNumbers DEF MessageOK
  <2> HIDE DEF to
  <2>4. PICK st :
             /\ SameRetries(st, job.st) /\ st.state = job.st.state
             /\ \/ Becomes(q, job, "send", to, st, 1, FALSE)
                \/ Becomes(q, job, "update", to, Disconnected(st), 1, FALSE)
                \/ Becomes(q, job, "close", to, GiveUp(st, to), 1, FALSE)
                \/ \E t : /\ Becomes(q, job, "update", job.to, t, 1, FALSE)
                          /\ SameRetries(t, st) /\ t.state = "FAILURE"
    BY <2>1
  <2>5. ASSUME Becomes(q, job, "send", to, st, 1, FALSE) PROVE JobOK(q)
    BY <2>2, <2>3, <2>4, <2>5 DEF JobOK, RetriesOK, Becomes, Fresh
  <2>6. ASSUME Becomes(q, job, "update", to, Disconnected(st), 1, FALSE) PROVE JobOK(q)
    <3>1. SameRetries(st, job.msg.st)
      BY <2>2, <2>4
    <3> QED BY <2>3, <2>6, <3>1, RetriesOn DEF HasJob
  <2>7. SameRetries(GiveUp(st, to), job.st) /\ GiveUp(st, to).state = "FAILURE"
    <3>1. st \in SubtaskStatus
      BY <2>4 DEF SameRetries
    <3>2. SameRetries(GiveUp(st, to), st) /\ GiveUp(st, to).state = "FAILURE"
      BY <2>3, <3>1, GiveUpTyped
    <3> QED BY <2>4, <3>2 DEF SameRetries
  <2>8. \A t : SameRetries(t, st) => SameRetries(t, job.st)
    BY <2>4 DEF SameRetries
  <2> QED BY <1>2, <1>3, <2>1, <2>4, <2>5, <2>6, <2>7, <2>8
<1>8. CASE \/ SendEmail(w) \/ RefuseEmail(w) \/ ThrottleEmail(w) \/ DropConnection(w)
           \/ AbortSending(w) \/ FinishSending(w)
  <2>1. /\ job.pc = "send" /\ OnlyMoves(w)
        /\ \/ \E r \in job.to : \E t :
                /\ SameRetries(t, job.st) /\ t.state = job.st.state
                /\ Becomes(q, job, "send", job.to \ {r}, t, 1, FALSE)
           \/ Becomes(q, job, "update", job.to, Throttled(job.st), 1, TRUE)
           \/ Becomes(q, job, "update", job.to, Disconnected(job.st), 1, FALSE)
           \/ \E t \in {u \in SubtaskStatus : u.state \in {"SUCCESS", "FAILURE"}} :
                /\ SameRetries(t, job.st)
                /\ Becomes(q, job, "close", job.to, t, 1, FALSE)
    BY <1>8, Sends
  <2>2. SameRetries(job.st, job.msg.st) /\ job.to \cap declined = {}
    BY <2>1 DEF JobOK, RetriesOK, Fresh
  <2>3. ASSUME NEW r \in job.to, NEW t, SameRetries(t, job.st),
               Becomes(q, job, "send", job.to \ {r}, t, 1, FALSE)
        PROVE  JobOK(q)
    BY <2>1, <2>2, <2>3 DEF JobOK, RetriesOK, Becomes, Fresh, SameRetries
  <2>4. /\ Becomes(q, job, "update", job.to, Throttled(job.st), 1, TRUE) => JobOK(q)
        /\ Becomes(q, job, "update", job.to, Disconnected(job.st), 1, FALSE) => JobOK(q)
    BY <1>1, <2>2, RetriesOn DEF HasJob
  <2>5. ASSUME NEW t \in SubtaskStatus, t.state \in {"SUCCESS", "FAILURE"},
               SameRetries(t, job.st), Becomes(q, job, "close", job.to, t, 1, FALSE)
        PROVE  JobOK(q)
    <3>1. RetryCount(t) = RetryCount(job.st)
      BY <1>1, <2>5, RetriesKept
    <3> QED BY <1>1, <2>5, <3>1, EndsOK
  <2> QED BY <1>2, <2>1, <2>3, <2>4, <2>5
<1>9. CASE CloseConnection(w)
  <2>1. ASSUME Becomes(q, job, "update", job.to, job.st, 1, FALSE), job.st.state # "RETRY",
               job.pc = "close"
        PROVE  JobOK(q)
    BY <2>1 DEF JobOK, RetriesOK, Becomes, Fresh
  <2> QED BY <1>2, <1>3, <1>9, <2>1, Closes DEF JobGoesOn
<1>10. CASE WriteStatus(w) \/ RejectWrite(w) \/ FailWrite(w)
  <2>1. ASSUME NEW pc \in {"update", "release", "unwind"}, NEW depth, job.pc = "update",
               Becomes(q, job, pc, job.to, job.st, depth, job.skip_retry_max)
        PROVE  JobOK(q)
    BY <2>1 DEF JobOK, RetriesOK, Becomes, Fresh
  <2> QED BY <1>2, <1>10, <2>1, Writes, Fails
<1>11. CASE ReleaseLock(w)
  <2>1. ASSUME NEW pc \in {job.pc, "retry"}, NEW depth, job.pc \in {"release", "unwind"},
               pc = "retry" => job.st.state = "RETRY",
               Becomes(q, job, pc, job.to, job.st, depth, job.skip_retry_max)
        PROVE  JobOK(q)
    BY <2>1 DEF JobOK, RetriesOK, Becomes, Fresh
  <2>2. OnlyMoves(w) /\ job.pc \in {"release", "unwind"}
    BY <1>11, Releases
  <2>3. CASE Becomes(q, job, job.pc, job.to, job.st, job.depth - 1, job.skip_retry_max)
    BY <1>2, <2>1, <2>2, <2>3
  <2>4. CASE /\ job.st.state = "RETRY"
             /\ Becomes(q, job, "retry", job.to, job.st, job.depth, job.skip_retry_max)
    BY <1>2, <2>1, <2>2, <2>4
  <2>5. CASE \E t : /\ Becomes(q, job, "update", job.to, t, 1, FALSE)
                    /\ SameRetries(t, job.st) /\ t.state = "FAILURE"
    BY <1>3, <2>2, <2>5
  <2>6. CASE q = Idle
    BY <2>2, <2>6 DEF JobGoesOn
  <2> QED BY <1>11, <2>3, <2>4, <2>5, <2>6, Releases
<1>12. CASE SubmitRetry(w)
  <2>1. ASSUME job.pc = "retry",
               Becomes(q, job, "close", job.to, job.st, job.depth, job.skip_retry_max)
        PROVE  JobOK(q)
    BY <2>1 DEF JobOK, RetriesOK, Becomes, Fresh
  <2> QED BY <1>2, <1>3, <1>12, <2>1, Submits
<1> QED BY <1>4, <1>5, <1>6, <1>7, <1>8, <1>9, <1>10, <1>11, <1>12 DEF WorkerNext

LEMMA ReceivedOK ==
  ASSUME NEW w \in Worker, DOMAIN worker = Worker, queue \subseteq Message,
         \A m \in queue : MessageOK(m), Receive(w)
  PROVE  OnlyMoves(w) /\ JobTyped(worker'[w]) /\ JobOK(worker'[w])
<1>1. PICK m \in queue : worker'[w] = Running(m) /\ JobTyped(Running(m))
  BY Receives
<1>2. JobOK(Running(m))
  BY DEF JobOK, RetriesOK, Running, Fresh
<1> QED BY <1>1, <1>2, Receives

\* What a worker may do to the broker's messages.
LEMMA MessagesGoOn ==
  ASSUME NEW w \in Worker, DOMAIN worker = Worker, worker[w] = Idle \/ JobTyped(worker[w]),
         Busy(w) => JobOK(worker[w]),
         queue \subseteq Message, \A m \in queue : MessageOK(m), WorkerNext(w)
  PROVE  queue' \subseteq Message /\ \A m \in queue' : MessageOK(m)
<1> DEFINE job == worker[w]
<1>1. CASE Receive(w)
  BY <1>1, Receives
<1>2. CASE SubmitRetry(w)
  <2>1. HasJob(w) /\ Busy(w)
    BY <1>2, Submits DEF SubmitRetry, Idle, HasJob, Busy
  <2>2. CASE queue' = queue
    BY <2>2
  <2>3. CASE /\ RetryCount(job.st) <= MaxRetriesOf(job.st, job.skip_retry_max)
             /\ queue' = queue \cup {NextAttempt(job)}
    <3>1. /\ job.msg.id \in SubtaskId /\ job.to \in SUBSET Recipient /\ job.st \in SubtaskStatus
          /\ job.msg.st \in SubtaskStatus
      BY <2>1, JobFields DEF HasJob
    <3>2. NextAttempt(job) \in Message
      BY <3>1 DEF NextAttempt, Message
    <3>3. job.pc = "retry" /\ job.st.state = "RETRY"
      BY <1>2, <2>1, Submits DEF JobOK, RetriesOK
    <3>4. job.to \cap declined = {}
      BY <2>1, <3>3 DEF JobOK, Fresh
    <3>5. job.st.retried_withmax <= MaxRetries /\ job.st.retried_nomax <= InfiniteRetryCap
      <4>1. job.skip_retry_max \/ job.st.retried_nomax <= InfiniteRetryCap
        BY <2>1, <3>3 DEF JobOK, RetriesOK, Fresh, MessageOK
      <4>2. MaxRetries \in Nat /\ InfiniteRetryCap \in Nat
        BY ConstantsAssumption
      <4>3. /\ job.st.retried_nomax \in Nat /\ job.st.retried_withmax \in Nat
            /\ RetryCount(job.st) = job.st.retried_nomax + job.st.retried_withmax
        BY <3>1, RetryNumbers
      <4> QED BY <2>3, <4>1, <4>2, <4>3 DEF MaxRetriesOf
    <3>6. MessageOK(NextAttempt(job))
      BY <3>4, <3>5 DEF MessageOK, NextAttempt
    <3> QED BY <2>3, <3>2, <3>6
  <2> QED BY <1>2, <2>1, <2>2, <2>3, Submits
<1>3. CASE UNCHANGED queue
  BY <1>3
<1> QED BY <1>1, <1>2, <1>3 DEF WorkerNext, CheckSubtask, AcquireLock, Prepare, SendEmail,
           RefuseEmail, ThrottleEmail, DropConnection, AbortSending, FinishSending,
           CloseConnection, WriteStatus, RejectWrite, FailWrite, ReleaseLock, sendVars, updateVars

LEMMA RowGoesOn ==
  ASSUME NEW w \in Worker, worker[w] = Idle \/ JobTyped(worker[w]),
         IsTask(task, SubtaskId), WorkerNext(w)
  PROVE  /\ IsTask(task', SubtaskId)
         /\ \/ task' = task
            \/ /\ Busy(w) /\ worker[w].pc = "update" /\ IsUpdatable(task, worker[w].msg.id)
               /\ task' = UpdateSubtaskStatus(task, worker[w].msg.id, worker[w].st)
<1>1. CASE WriteStatus(w)
  <2>1. /\ Busy(w) /\ worker[w].pc = "update" /\ IsUpdatable(task, worker[w].msg.id)
        /\ task' = UpdateSubtaskStatus(task, worker[w].msg.id, worker[w].st)
    BY <1>1 DEF WriteStatus, Busy
  <2>2. worker[w].st \in SubtaskStatus /\ worker[w].msg.id \in DOMAIN task.status
    BY <2>1, JobFields DEF Busy, Idle, IsUpdatable
  <2> QED BY <2>1, <2>2, UpdatedRow
<1>2. CASE UNCHANGED task
  BY <1>2
<1> QED BY <1>1, <1>2 DEF WorkerNext, Receive, CheckSubtask, AcquireLock, Prepare, SendEmail,
           RefuseEmail, ThrottleEmail, DropConnection, AbortSending, FinishSending,
           CloseConnection, RejectWrite, FailWrite, ReleaseLock, SubmitRetry, sendVars,
           updateVars

\* Only those who are still on the list are sent the email.
LEMMA SentGoesOn ==
  ASSUME NEW w \in Worker, DOMAIN worker = Worker, worker[w] = Idle \/ JobTyped(worker[w]),
         sent \in [Recipient -> Nat], WorkerNext(w)
  PROVE  /\ sent' \in [Recipient -> Nat]
         /\ \/ sent' = sent
            \/ /\ worker[w].pc = "send"
               /\ \E r \in worker[w].to :
                    /\ worker'[w].to = worker[w].to \ {r}
                    /\ sent'[r] = sent[r] + 1
                    /\ \A o \in Recipient \ {r} : sent'[o] = sent[o]
<1>1. CASE SendEmail(w)
  <2>1. worker[w].pc = "send" /\ JobTyped(worker[w])
    BY <1>1 DEF SendEmail, Sending, Idle
  <2>2. worker[w].to \in SUBSET Recipient
    BY <2>1, JobFields
  <2>3. PICK r \in worker[w].to :
          /\ sent' = [sent EXCEPT ![r] = @ + 1]
          /\ WorkerSets(w, "send", worker[w].to \ {r},
                        [worker[w].st EXCEPT !.succeeded = @ + 1], FALSE)
    BY <1>1 DEF SendEmail
  <2> DEFINE st == [worker[w].st EXCEPT !.succeeded = @ + 1]
  <2>4. worker'[w].to = worker[w].to \ {r}
    <3>1. st \in SubtaskStatus /\ "send" \in Pcs /\ worker[w].to \ {r} \in SUBSET Recipient
      BY <2>1, <2>2, JobFields, CountsTyped DEF SameRetries, Pcs
    <3> HIDE DEF st
    <3>2. Becomes(worker'[w], worker[w], "send", worker[w].to \ {r}, st, 1, FALSE)
      BY <2>1, <2>3, <3>1, Sets DEF st
    <3> QED BY <3>2 DEF Becomes
  <2>5. /\ sent' \in [Recipient -> Nat] /\ sent'[r] = sent[r] + 1
        /\ \A o \in Recipient \ {r} : sent'[o] = sent[o]
    BY <2>2, <2>3
  <2> QED BY <2>1, <2>4, <2>5
<1>2. CASE UNCHANGED sent
  BY <1>2
<1> QED BY <1>1, <1>2 DEF WorkerNext, Receive, CheckSubtask, AcquireLock, Prepare,
           RefuseEmail, ThrottleEmail, DropConnection, AbortSending, FinishSending,
           CloseConnection, WriteStatus, RejectWrite, FailWrite, ReleaseLock, SubmitRetry, sendVars,
           updateVars

\* The locks: w keeps what it holds, takes one that is free, or deletes its own.
LocksGoOn(w) ==
  /\ lock' \in [SubtaskId -> Worker \cup {NoOne}]
  /\ \/ /\ lock' = lock
        /\ \/ ~Busy(w) \/ ~MustUnlock(worker[w])
           \/ worker'[w] # Idle /\ MustUnlock(worker'[w])
     \/ /\ Busy(w)
        /\ lock' = [lock EXCEPT ![worker[w].msg.id] = NoOne]
     \/ /\ Busy(w) /\ ~MustUnlock(worker[w]) /\ worker'[w] # Idle /\ MustUnlock(worker'[w])
        /\ lock' = [lock EXCEPT ![worker[w].msg.id] = w]

LEMMA LocksStep ==
  ASSUME NEW w \in Worker, HasJob(w), JobOK(worker[w]),
         lock \in [SubtaskId -> Worker \cup {NoOne}], WorkerNext(w)
  PROVE  LocksGoOn(w)
<1> DEFINE job == worker[w]
           q == worker'[w]
<1>1. job.pc # "idle" /\ job.msg.id \in SubtaskId
  BY JobFields DEF HasJob
<1>2. \A pc, to, st, depth, skip :
         Becomes(q, job, pc, to, st, depth, skip) => q # Idle /\ q.pc = pc /\ q.st = st
  BY JobFields DEF Becomes
<1>3. ASSUME lock' = lock, ~MustUnlock(job) \/ (q # Idle /\ MustUnlock(q))
      PROVE  LocksGoOn(w)
  BY <1>3 DEF LocksGoOn
<1>4. CASE Receive(w)
  BY <1>1, <1>4 DEF Receive, Busy
<1>5. CASE CheckSubtask(w)
  <2>1. lock' = lock /\ job.pc = "check"
    BY <1>5 DEF CheckSubtask
  <2> QED BY <1>3, <2>1 DEF MustUnlock
<1>6. CASE AcquireLock(w)
  <2>1. job.pc = "lock" /\ ~MustUnlock(job) /\ Busy(w)
    BY <1>6 DEF AcquireLock, MustUnlock, Busy
  <2>2. CASE lock' = lock
    BY <1>3, <2>1, <2>2
  <2>3. CASE /\ lock' = [lock EXCEPT ![job.msg.id] = w]
             /\ Becomes(q, job, "prepare", job.to, job.st, job.depth, job.skip_retry_max)
    <3>1. q # Idle /\ MustUnlock(q)
      BY <1>2, <2>3 DEF MustUnlock
    <3> QED BY <2>1, <2>3, <3>1 DEF LocksGoOn
  <2> QED BY <1>6, <2>2, <2>3, Locks
<1>7. CASE Prepare(w)
  <2>1. lock' = lock
    BY <1>7 DEF Prepare, sendVars
  <2>2. \/ q # Idle /\ q.pc \in {"send", "update"}
        \/ \E st \in SubtaskStatus, to \in SUBSET Recipient :
             q # Idle /\ q.pc = "close" /\ q.st = GiveUp(st, to)
    <3> DEFINE to == IF RetryCount(job.st) = 0 THEN job.to \ optout ELSE job.to
    <3>1. to \in SUBSET Recipient
      BY JobFields DEF HasJob
    <3>2. PICK st \in SubtaskStatus :
            \/ Becomes(q, job, "send", to, st, 1, FALSE)
            \/ Becomes(q, job, "update", to, Disconnected(st), 1, FALSE)
            \/ Becomes(q, job, "close", to, GiveUp(st, to), 1, FALSE)
            \/ \E t : Becomes(q, job, "update", job.to, t, 1, FALSE)
      BY <1>7, Prepares DEF SameRetries
    <3> HIDE DEF to
    <3> QED BY <1>2, <3>1, <3>2
  <2>3. q # Idle /\ MustUnlock(q)
    BY <2>2, GiveUpTyped DEF MustUnlock
  <2> QED BY <1>3, <2>1, <2>3
<1>8. CASE \/ SendEmail(w) \/ RefuseEmail(w) \/ ThrottleEmail(w) \/ DropConnection(w)
           \/ AbortSending(w) \/ FinishSending(w)
  <2>1. lock' = lock
    BY <1>8 DEF SendEmail, RefuseEmail, ThrottleEmail, DropConnection, AbortSending,
                FinishSending, sendVars
  <2>2. q # Idle /\ (q.pc \in {"send", "update"} \/ (q.pc = "close" /\ q.st.state # "RETRY"))
    BY <1>2, <1>8, Sends
  <2> QED BY <1>3, <2>1, <2>2 DEF MustUnlock
<1>9. CASE CloseConnection(w)
  <2>1. lock' = lock /\ job.pc = "close"
    BY <1>9 DEF CloseConnection, sendVars
  <2>2. CASE job.st.state = "RETRY"
    BY <1>3, <2>1, <2>2 DEF MustUnlock
  <2>3. CASE q # Idle /\ q.pc = "update"
    BY <1>3, <2>1, <2>3 DEF MustUnlock
  <2> QED BY <1>2, <1>9, <2>2, <2>3, Closes
<1>10. CASE WriteStatus(w) \/ RejectWrite(w) \/ FailWrite(w)
  <2>1. lock' = lock
    BY <1>10 DEF WriteStatus, RejectWrite, FailWrite
  <2>2. q # Idle /\ q.pc \in {"release", "update", "unwind"}
    BY <1>2, <1>10, Writes, Fails
  <2> QED BY <1>3, <2>1, <2>2 DEF MustUnlock
<1>11. CASE ReleaseLock(w)
  <2>1. lock' = [lock EXCEPT ![job.msg.id] = NoOne]
    BY <1>11, Releases
  <2> QED BY <1>1, <2>1 DEF LocksGoOn, Busy
<1>12. CASE SubmitRetry(w)
  <2>1. lock' = lock /\ job.pc = "retry"
    BY <1>12 DEF SubmitRetry
  <2> QED BY <1>3, <2>1 DEF MustUnlock
<1> QED BY <1>4, <1>5, <1>6, <1>7, <1>8, <1>9, <1>10, <1>11, <1>12 DEF WorkerNext

LEMMA LocksStayHeld ==
  ASSUME NEW w \in Worker, LocksHeld, LocksGoOn(w), OnlyMoves(w),
         lock \in [SubtaskId -> Worker \cup {NoOne}],
         Busy(w) /\ worker'[w] # Idle => worker'[w].msg = worker[w].msg,
         Busy(w) => worker[w].msg.id \in SubtaskId,
         worker'[w] # Idle => worker'[w].pc # "idle"
  PROVE  LocksHeld'
<1> SUFFICES ASSUME NEW v \in Worker, NEW id \in SubtaskId, lock'[id] = v
             PROVE  Busy(v)' /\ worker'[v].msg.id = id /\ MustUnlock(worker'[v])
  BY DEF LocksHeld
<1>1. NoOne # v
  BY ConstantsAssumption
<1>2. \/ lock[id] = v
      \/ /\ v = w /\ id = worker[w].msg.id /\ worker'[w] # Idle
         /\ Busy(w) /\ MustUnlock(worker'[w])
  BY <1>1 DEF LocksGoOn
<1>3. CASE lock[id] = v
  <2>1. Busy(v) /\ worker[v].msg.id = id /\ MustUnlock(worker[v])
    BY <1>3 DEF LocksHeld
  <2>2. CASE v # w
    BY <2>1, <2>2 DEF OnlyMoves, Busy
  <2>3. CASE v = w
    <3>1. worker'[w] # Idle /\ MustUnlock(worker'[w])
      BY <1>1, <2>1, <2>3 DEF LocksGoOn
    <3> QED BY <2>1, <2>3, <3>1 DEF Busy
  <2> QED BY <2>2, <2>3
<1>4. CASE lock[id] # v
  BY <1>2, <1>4 DEF Busy
<1> QED BY <1>3, <1>4

-----------------------------------------------------------------------------
(***************************************************************************)
(* Events are only ever counted up.                                        *)
(***************************************************************************)
EventsGoOn ==
  /\ events' \in [Events -> Nat]
  /\ \A e \in Events : events'[e] >= events[e]

LEMMA EventCounted ==
  ASSUME events \in [Events -> Nat], NEW e, Event(e)
  PROVE  EventsGoOn /\ e \in Events /\ events'[e] > 0
<1>1. e \in Events /\ events' = [events EXCEPT ![e] = events[e] + 1]
  BY DEF Event
<1>2. \A f \in Events : events[f] \in Nat
  OBVIOUS
<1>3. \A f \in Events : events'[f] = IF f = e THEN events[f] + 1 ELSE events[f]
  BY <1>1
<1>4. \A f \in Events : events'[f] \in Nat /\ events'[f] >= events[f]
  BY <1>2, <1>3
<1>5. events' \in [Events -> Nat]
  BY <1>1, <1>4
<1>6. events'[e] > 0
  BY <1>1, <1>2, <1>3
<1> QED BY <1>1, <1>4, <1>5, <1>6 DEF EventsGoOn

LEMMA NothingCounted ==
  ASSUME events \in [Events -> Nat], NoEvent
  PROVE  EventsGoOn
BY DEF EventsGoOn, NoEvent

LEMMA HappenedStays ==
  ASSUME events \in [Events -> Nat], EventsGoOn, NEW some, Happened(some)
  PROVE  Happened(some)'
<1>1. PICK e \in some \cap Events : events[e] > 0
  BY DEF Happened
<1>2. events'[e] \in Nat /\ events[e] \in Nat /\ events'[e] >= events[e]
  BY DEF EventsGoOn
<1>3. events'[e] > 0
  BY <1>1, <1>2
<1> QED BY <1>3 DEF Happened

LEMMA WorkerLeavesAlone ==
  ASSUME NEW w \in Worker, events \in [Events -> Nat], WorkerNext(w)
  PROVE  EventsGoOn /\ parent' = parent /\ UNCHANGED envVars
<1>1. UNCHANGED <<parent, envVars>>
  BY DEF WorkerNext, Receive, CheckSubtask, AcquireLock, Prepare, SendEmail, RefuseEmail,
         ThrottleEmail, DropConnection, AbortSending, FinishSending, CloseConnection,
         WriteStatus, RejectWrite, FailWrite, ReleaseLock, SubmitRetry, sendVars,
           updateVars
<1>2. NoEvent \/ \E e : Event(e)
  <2>1. CASE Receive(w) \/ Prepare(w) \/ CloseConnection(w) \/ FailWrite(w) \/ SubmitRetry(w)
    BY <2>1 DEF Receive, Prepare, CloseConnection, FailWrite, SubmitRetry
  <2>2. CASE UNCHANGED events
    BY <2>2 DEF NoEvent
  <2> QED BY <2>1, <2>2 DEF WorkerNext, CheckSubtask, AcquireLock, SendEmail, RefuseEmail,
         ThrottleEmail, DropConnection, AbortSending, FinishSending, WriteStatus, RejectWrite,
         ReleaseLock
<1> QED BY <1>1, <1>2, EventCounted, NothingCounted

\* The type of the variables, part by part.
ParentsTyped ==
  /\ DOMAIN parent = Parent
  /\ \A p \in Parent :
       IsTask(parent[p].row, SubtaskId) /\ parent[p] \in ParentState(parent[p].row)

LEMMA TypeParts ==
  TypeOK <=> /\ IsTask(task, SubtaskId)
             /\ lock \in [SubtaskId -> Worker \cup {NoOne}]
             /\ queue \subseteq Message
             /\ WorkersTyped /\ ParentsTyped
             /\ {enrolled, optout, declined} \subseteq SUBSET Recipient
             /\ sent \in [Recipient -> Nat]
             /\ events \in [Events -> Nat]
BY DEF TypeOK, WorkersTyped, ParentsTyped, JobTyped

LEMMA WorkerStep ==
  ASSUME JobInvariant, NEW w \in Worker, WorkerNext(w)
  PROVE  JobInvariant'
<1>1. /\ IsTask(task, SubtaskId) /\ lock \in [SubtaskId -> Worker \cup {NoOne}]
      /\ queue \subseteq Message /\ WorkersTyped /\ ParentsTyped
      /\ {enrolled, optout, declined} \subseteq SUBSET Recipient
      /\ sent \in [Recipient -> Nat] /\ events \in [Events -> Nat]
  BY TypeParts DEF JobInvariant
<1>2. /\ DOMAIN worker = Worker
      /\ \A v \in Worker : worker[v] = Idle \/ JobTyped(worker[v])
      /\ \A v \in Worker : Busy(v) <=> JobTyped(worker[v])
  BY <1>1, JobFields DEF WorkersTyped, Busy, Idle
<1>3. EventsGoOn /\ parent' = parent /\ UNCHANGED <<enrolled, optout, declined>>
  BY <1>1, WorkerLeavesAlone DEF envVars
<1>4. /\ OnlyMoves(w)
      /\ \/ worker'[w] = Idle
         \/ /\ JobTyped(worker'[w]) /\ JobOK(worker'[w])
            /\ Busy(w) => worker'[w].msg = worker[w].msg
  <2>1. CASE Busy(w)
    BY <1>2, <2>1, BusyGoesOn DEF JobInvariant, HasJob, JobGoesOn
  <2>2. CASE ~Busy(w)
    <3>1. Receive(w)
      BY <2>2 DEF WorkerNext, Busy, CheckSubtask, AcquireLock, Prepare, SendEmail, RefuseEmail,
           ThrottleEmail, DropConnection, AbortSending, FinishSending, Sending, CloseConnection,
           WriteStatus, RejectWrite, FailWrite, ReleaseLock, SubmitRetry
    <3> QED BY <1>1, <1>2, <2>2, <3>1, ReceivedOK DEF JobInvariant
  <2> QED BY <2>1, <2>2
<1>5. queue' \subseteq Message /\ \A m \in queue' : MessageOK(m)
  BY <1>1, <1>2, MessagesGoOn DEF JobInvariant
<1>6. IsTask(task', SubtaskId)
  BY <1>1, <1>2, RowGoesOn
<1>7. sent' \in [Recipient -> Nat] /\ \A r \in declined : sent'[r] = 0
  <2>1. CASE sent' = sent
    BY <1>1, <2>1 DEF JobInvariant
  <2>2. CASE worker[w].pc = "send"
    <3>1. Busy(w) /\ worker[w].to \cap declined = {}
      BY <2>2 DEF Busy, JobInvariant, JobOK, Fresh
    <3> QED BY <1>1, <1>2, <3>1, SentGoesOn DEF JobInvariant
  <2> QED BY <1>1, <1>2, <2>1, <2>2, SentGoesOn
<1>8. /\ lock' \in [SubtaskId -> Worker \cup {NoOne}]
      /\ LocksHeld => LocksHeld'
  <2>1. CASE Busy(w)
    <3>1. LocksGoOn(w)
      BY <1>1, <1>2, <2>1, LocksStep DEF HasJob, JobInvariant
    <3>2. worker[w].msg.id \in SubtaskId /\ (worker'[w] # Idle => worker'[w].pc # "idle")
      BY <1>2, <1>4, <2>1, JobFields
    <3> QED BY <1>1, <1>4, <2>1, <3>1, <3>2, LocksStayHeld DEF LocksGoOn
  <2>2. CASE ~Busy(w)
    <3>1. lock' = lock
      BY <2>2 DEF WorkerNext, Busy, Receive, CheckSubtask, AcquireLock, Prepare, SendEmail,
           RefuseEmail, ThrottleEmail, DropConnection, AbortSending, FinishSending, Sending,
           CloseConnection, WriteStatus, RejectWrite, FailWrite, ReleaseLock, SubmitRetry
    <3> QED BY <1>1, <1>4, <2>2, <3>1 DEF LocksHeld, OnlyMoves, Busy
  <2> QED BY <2>1, <2>2
<1>9. WorkersTyped' /\ \A v \in Worker : Busy(v)' => JobOK(worker'[v])
  BY <1>2, <1>4 DEF WorkersTyped, OnlyMoves, JobInvariant, Busy, Idle
<1>10. TypeOK'
  BY <1>1, <1>3, <1>5, <1>6, <1>7, <1>8, <1>9
  DEF TypeOK, EventsGoOn, ParentsTyped, WorkersTyped, JobTyped
<1>11. \A m : MessageOK(m)' <=> MessageOK(m)
  BY <1>3 DEF MessageOK
<1>12. \A v \in Worker : Busy(v)' => JobOK(worker[v])'
  BY <1>3, <1>9 DEF JobOK, MessageOK
<1>13. Happened({"crash"}) => Happened({"crash"})'
  BY <1>1, <1>3, HappenedStays
<1> QED BY <1>3, <1>5, <1>7, <1>8, <1>10, <1>11, <1>12, <1>13 DEF JobInvariant, RunOK

-----------------------------------------------------------------------------
(***************************************************************************)
(* Runs of the parent task.                                                *)
(***************************************************************************)
RunTyped(run) == IsTask(run.row, SubtaskId) /\ run \in ParentState(run.row)

RunPcs ==
  {"idle", "start", "delegate", "count", "define", "generate", "queue", "finish", "succeed",
   "fail", "failed", "done"}

LEMMA RunFields ==
  ASSUME NEW run, RunTyped(run)
  PROVE  /\ IsTask(run.row, SubtaskId) /\ run.pc \in RunPcs
         /\ run.total \in Nat /\ run.next \in Nat \ {0}
         /\ run.chunks \in Seq(Seq(Recipient)) /\ run.progress \in Output
BY DEF RunTyped, ParentState, RunPcs

\* Only the run p moves, and has these fields now.
RunBecomes(p, pc, row, total, next, chunks, progress) ==
  /\ DOMAIN parent' = Parent
  /\ \A q \in Parent \ {p} : parent'[q] = parent[q]
  /\ RunTyped(parent'[p])
  /\ parent'[p].pc = pc /\ parent'[p].row = row /\ parent'[p].total = total
  /\ parent'[p].next = next /\ parent'[p].chunks = chunks /\ parent'[p].progress = progress

\* Moving on.
LEMMA RunMoves ==
  ASSUME ParentsTyped, NEW p \in Parent, NEW pc \in RunPcs,
         parent' = [parent EXCEPT ![p].pc = pc]
  PROVE  RunBecomes(p, pc, parent[p].row, parent[p].total, parent[p].next, parent[p].chunks,
                    parent[p].progress)
<1> DEFINE k == [parent[p] EXCEPT !.pc = pc]
<1>1. RunTyped(parent[p]) /\ DOMAIN parent = Parent
  BY DEF ParentsTyped, RunTyped
<1>2. RunTyped(k)
  BY <1>1 DEF RunTyped, ParentState, RunPcs
<1>3. \A f \in {"pc", "row", "total", "next", "chunks", "progress"} :
        k[f] = CASE f = "pc" -> pc
                 [] OTHER -> parent[p][f]
  BY <1>1 DEF RunTyped, ParentState
<1> HIDE DEF k
<1>4. parent'[p] = k /\ DOMAIN parent' = Parent /\ \A q \in Parent \ {p} : parent'[q] = parent[q]
  BY <1>1 DEF k
<1> QED BY <1>2, <1>3, <1>4 DEF RunBecomes

\* Reading the row.
LEMMA RunReads ==
  ASSUME ParentsTyped, NEW p \in Parent, NEW pc \in RunPcs, NEW row, IsTask(row, SubtaskId),
         parent' = [parent EXCEPT ![p].pc = pc, ![p].row = row]
  PROVE  RunBecomes(p, pc, row, parent[p].total, parent[p].next, parent[p].chunks,
                    parent[p].progress)
<1> DEFINE k == [parent[p] EXCEPT !.pc = pc, !.row = row]
<1>1. RunTyped(parent[p]) /\ DOMAIN parent = Parent
  BY DEF ParentsTyped, RunTyped
<1>2. RunTyped(k)
  BY <1>1 DEF RunTyped, ParentState, RunPcs
<1>3. \A f \in {"pc", "row", "total", "next", "chunks", "progress"} :
        k[f] = CASE f = "pc" -> pc
                 [] f = "row" -> row
                 [] OTHER -> parent[p][f]
  BY <1>1 DEF RunTyped, ParentState
<1> HIDE DEF k
<1>4. parent'[p] = k /\ DOMAIN parent' = Parent /\ \A q \in Parent \ {p} : parent'[q] = parent[q]
  BY <1>1 DEF k
<1> QED BY <1>2, <1>3, <1>4 DEF RunBecomes

\* Keeping the progress to return.
LEMMA RunReports ==
  ASSUME ParentsTyped, NEW p \in Parent, NEW pc \in RunPcs, NEW progress \in Output,
         parent' = [parent EXCEPT ![p].pc = pc, ![p].progress = progress]
  PROVE  RunBecomes(p, pc, parent[p].row, parent[p].total, parent[p].next, parent[p].chunks,
                    progress)
<1> DEFINE k == [parent[p] EXCEPT !.pc = pc, !.progress = progress]
<1>1. RunTyped(parent[p]) /\ DOMAIN parent = Parent
  BY DEF ParentsTyped, RunTyped
<1>2. RunTyped(k)
  BY <1>1 DEF RunTyped, ParentState, RunPcs
<1>3. \A f \in {"pc", "row", "total", "next", "chunks", "progress"} :
        k[f] = CASE f = "pc" -> pc
                 [] f = "progress" -> progress
                 [] OTHER -> parent[p][f]
  BY <1>1 DEF RunTyped, ParentState
<1> HIDE DEF k
<1>4. parent'[p] = k /\ DOMAIN parent' = Parent /\ \A q \in Parent \ {p} : parent'[q] = parent[q]
  BY <1>1 DEF k
<1> QED BY <1>2, <1>3, <1>4 DEF RunBecomes

\* Counting the recipients.
LEMMA RunCounts ==
  ASSUME ParentsTyped, NEW p \in Parent, NEW pc \in RunPcs, NEW total \in Nat,
         parent' = [parent EXCEPT ![p].pc = pc, ![p].total = total]
  PROVE  RunBecomes(p, pc, parent[p].row, total, parent[p].next, parent[p].chunks,
                    parent[p].progress)
<1> DEFINE k == [parent[p] EXCEPT !.pc = pc, !.total = total]
<1>1. RunTyped(parent[p]) /\ DOMAIN parent = Parent
  BY DEF ParentsTyped, RunTyped
<1>2. RunTyped(k)
  BY <1>1 DEF RunTyped, ParentState, RunPcs
<1>3. \A f \in {"pc", "row", "total", "next", "chunks", "progress"} :
        k[f] = CASE f = "pc" -> pc
                 [] f = "total" -> total
                 [] OTHER -> parent[p][f]
  BY <1>1 DEF RunTyped, ParentState
<1> HIDE DEF k
<1>4. parent'[p] = k /\ DOMAIN parent' = Parent /\ \A q \in Parent \ {p} : parent'[q] = parent[q]
  BY <1>1 DEF k
<1> QED BY <1>2, <1>3, <1>4 DEF RunBecomes

\* Cutting them into chunks.
LEMMA RunCuts ==
  ASSUME ParentsTyped, NEW p \in Parent, NEW pc \in RunPcs, NEW chunks \in Seq(Seq(Recipient)),
         parent' = [parent EXCEPT ![p].pc = pc, ![p].chunks = chunks]
  PROVE  RunBecomes(p, pc, parent[p].row, parent[p].total, parent[p].next, chunks,
                    parent[p].progress)
<1> DEFINE k == [parent[p] EXCEPT !.pc = pc, !.chunks = chunks]
<1>1. RunTyped(parent[p]) /\ DOMAIN parent = Parent
  BY DEF ParentsTyped, RunTyped
<1>2. RunTyped(k)
  BY <1>1 DEF RunTyped, ParentState, RunPcs
<1>3. \A f \in {"pc", "row", "total", "next", "chunks", "progress"} :
        k[f] = CASE f = "pc" -> pc
                 [] f = "chunks" -> chunks
                 [] OTHER -> parent[p][f]
  BY <1>1 DEF RunTyped, ParentState
<1> HIDE DEF k
<1>4. parent'[p] = k /\ DOMAIN parent' = Parent /\ \A q \in Parent \ {p} : parent'[q] = parent[q]
  BY <1>1 DEF k
<1> QED BY <1>2, <1>3, <1>4 DEF RunBecomes

\* Queueing one chunk.
LEMMA RunSends ==
  ASSUME ParentsTyped, NEW p \in Parent, NEW next \in Nat \ {0}, NEW chunks \in Seq(Seq(Recipient)),
         parent' = [parent EXCEPT ![p].next = next, ![p].chunks = chunks]
  PROVE  RunBecomes(p, parent[p].pc, parent[p].row, parent[p].total, next, chunks,
                    parent[p].progress)
<1> DEFINE k == [parent[p] EXCEPT !.next = next, !.chunks = chunks]
<1>1. RunTyped(parent[p]) /\ DOMAIN parent = Parent
  BY DEF ParentsTyped, RunTyped
<1>2. RunTyped(k)
  BY <1>1 DEF RunTyped, ParentState, RunPcs
<1>3. \A f \in {"pc", "row", "total", "next", "chunks", "progress"} :
        k[f] = CASE f = "next" -> next
                 [] f = "chunks" -> chunks
                 [] OTHER -> parent[p][f]
  BY <1>1 DEF RunTyped, ParentState
<1> HIDE DEF k
<1>4. parent'[p] = k /\ DOMAIN parent' = Parent /\ \A q \in Parent \ {p} : parent'[q] = parent[q]
  BY <1>1 DEF k
<1> QED BY <1>2, <1>3, <1>4 DEF RunBecomes

LEMMA IdsTyped ==
  ASSUME NEW p \in Parent, parent[p].total \in 0 .. Cardinality(Recipient)
  PROVE  /\ NumberOfSubtasks(parent[p].total, ItemsPerTask) \in 0 .. Cardinality(Recipient)
         /\ SubtaskIds(p) \subseteq SubtaskId /\ IsFiniteSet(SubtaskIds(p))
         /\ parent[p].total # 0 => SubtaskIds(p) # {}
<1> DEFINE n == NumberOfSubtasks(parent[p].total, ItemsPerTask)
<1>1. Cardinality(Recipient) \in Nat /\ ItemsPerTask \in Nat \ {0}
  BY ConstantsAssumption, FS_CardinalityType
<1>2. n \in 0 .. parent[p].total /\ (parent[p].total # 0 => n # 0)
  BY <1>1, NumberWithinTotal
<1>3. n \in 0 .. Cardinality(Recipient) /\ n \in Nat
  BY <1>1, <1>2
<1> HIDE DEF n
<1>4. SubtaskIds(p) = {p} \X (1 .. n)
  BY DEF SubtaskIds, n
<1>5. 1 .. n \subseteq 1 .. Cardinality(Recipient)
  BY <1>1, <1>3
<1>6. SubtaskIds(p) \subseteq SubtaskId
  BY <1>4, <1>5 DEF SubtaskId
<1>7. IsFiniteSet({p} \X (1 .. n))
  <2>1. IsFiniteSet({p})
    BY FS_Singleton
  <2>2. 1 \in Int /\ n \in Int
    BY <1>3
  <2>3. IsFiniteSet(1 .. n)
    BY <2>2, FS_Interval
  <2> QED BY <2>1, <2>3, FS_Product
<1>8. n # 0 => <<p, 1>> \in {p} \X (1 .. n)
  BY <1>3
<1> QED BY <1>2, <1>3, <1>4, <1>6, <1>7, <1>8 DEF n

\* What each action makes of its run of the parent.
LEMMA ParentReads ==
  ASSUME ParentsTyped, IsTask(task, SubtaskId), NEW p \in Parent, ReadTask(p)
  PROVE  /\ parent[p].pc = "idle" /\ RunBecomes(p, "start", task, parent[p].total,
                                                parent[p].next, parent[p].chunks,
                                                parent[p].progress)
         /\ p # 1 => Event("redeliver")
<1>1. "start" \in RunPcs
  BY DEF RunPcs
<1> QED BY <1>1, RunReads DEF ReadTask

LEMMA ParentMarks ==
  ASSUME ParentsTyped, NEW p \in Parent, MarkProgress(p)
  PROVE  /\ parent[p].pc = "start" /\ RunBecomes(p, "delegate", parent[p].row, parent[p].total,
                                                 parent[p].next, parent[p].chunks,
                                                 parent[p].progress)
         /\ task' = [parent[p].row EXCEPT !.task_state = "PROGRESS"] /\ IsTask(task', SubtaskId)
         /\ task'.task_state = "PROGRESS" /\ task'.status = parent[p].row.status
<1>1. "delegate" \in RunPcs
  BY DEF RunPcs
<1>2. RunTyped(parent[p])
  BY DEF ParentsTyped, RunTyped
<1>3. IsTask([parent[p].row EXCEPT !.task_state = "PROGRESS"], SubtaskId)
  BY <1>2, RunFields, MarkedRow
<1>4. parent[p].row \in RowOver(DOMAIN parent[p].row.status)
  BY <1>2, RunFields, TaskIsRow
<1>5. LET r == [parent[p].row EXCEPT !.task_state = "PROGRESS"]
      IN  r.task_state = "PROGRESS" /\ r.status = parent[p].row.status
  BY <1>4 DEF RowOver
<1> QED BY <1>1, <1>3, <1>5, RunMoves DEF MarkProgress, ParentStep

LEMMA ParentDelegates ==
  ASSUME ParentsTyped, IsTask(task, SubtaskId), NEW p \in Parent, Delegate(p)
  PROVE  /\ parent[p].pc = "delegate"
         /\ \/ /\ HasSubtasks(task)
               /\ RunBecomes(p, "finish", parent[p].row, parent[p].total, parent[p].next,
                             parent[p].chunks, task.output)
            \/ /\ ~HasSubtasks(task) \/ task.output.kind = "none"
               /\ RunBecomes(p, "count", task, parent[p].total, parent[p].next, parent[p].chunks,
                             parent[p].progress)
<1>1. "finish" \in RunPcs /\ "count" \in RunPcs
  BY DEF RunPcs
<1>2. task.output \in Output
  BY TaskIsRow DEF RowOver
<1>3. CASE HasSubtasks(task) /\ task.output.kind # "none"
  BY <1>1, <1>2, <1>3, RunReports DEF Delegate
<1>4. CASE ~(HasSubtasks(task) /\ task.output.kind # "none")
  BY <1>1, <1>4, RunReads DEF Delegate
<1> QED BY <1>3, <1>4

LEMMA ParentCounts ==
  ASSUME ParentsTyped, enrolled \subseteq Recipient, NEW p \in Parent, CountRecipients(p)
  PROVE  /\ parent[p].pc = "count"
         /\ Cardinality(enrolled) \in 0 .. Cardinality(Recipient)
         /\ \/ /\ enrolled = {}
               /\ RunBecomes(p, "fail", parent[p].row, Cardinality(enrolled), parent[p].next,
                             parent[p].chunks, parent[p].progress)
            \/ /\ Cardinality(enrolled) # 0
               /\ RunBecomes(p, "define", parent[p].row, Cardinality(enrolled), parent[p].next,
                             parent[p].chunks, parent[p].progress)
<1> DEFINE n == Cardinality(enrolled)
<1>1. "fail" \in RunPcs /\ "define" \in RunPcs
  BY DEF RunPcs
<1>2. IsFiniteSet(enrolled) /\ n \in Nat /\ Recipient \in SUBSET Recipient
  BY SizeOf
<1>3. n \in 0 .. Cardinality(Recipient)
  BY <1>2, SizeOf
<1>4. n = 0 <=> enrolled = {}
  BY <1>2, FS_EmptySet
<1> HIDE DEF n
<1>5. /\ parent[p].pc = "count"
      /\ parent' = [parent EXCEPT ![p].pc = IF enrolled = {} THEN "fail" ELSE "define",
                                  ![p].total = n]
  BY DEF CountRecipients, n
<1>6. CASE enrolled = {}
  <2>1. parent' = [parent EXCEPT ![p].pc = "fail", ![p].total = n]
    BY <1>5, <1>6
  <2>2. RunBecomes(p, "fail", parent[p].row, n, parent[p].next, parent[p].chunks,
                   parent[p].progress)
    BY <1>1, <1>2, <2>1, RunCounts
  <2> QED BY <1>3, <1>5, <1>6, <2>2 DEF n
<1>7. CASE enrolled # {}
  <2>1. parent' = [parent EXCEPT ![p].pc = "define", ![p].total = n]
    BY <1>5, <1>7
  <2>2. RunBecomes(p, "define", parent[p].row, n, parent[p].next, parent[p].chunks,
                   parent[p].progress)
    BY <1>1, <1>2, <2>1, RunCounts
  <2>3. n # 0
    BY <1>4, <1>7
  <2> QED BY <1>3, <1>5, <2>2, <2>3 DEF n
<1> QED BY <1>6, <1>7

LEMMA ParentDefines ==
  ASSUME ParentsTyped, NEW p \in Parent, RunOK(parent[p]), DefineSubtasks(p)
  PROVE  /\ parent[p].pc = "define"
         /\ task' = InitializeSubtaskInfo(parent[p].row, parent[p].total, SubtaskIds(p))
         /\ IsTask(task', SubtaskId)
         /\ RunBecomes(p, "generate", parent[p].row, parent[p].total, parent[p].next,
                       parent[p].chunks, task'.output)
<1> DEFINE row == InitializeSubtaskInfo(parent[p].row, parent[p].total, SubtaskIds(p))
<1>1. IsTask(parent[p].row, SubtaskId) /\ parent[p].total \in Nat
  BY RunFields DEF ParentsTyped, RunTyped
<1>2. SubtaskIds(p) \subseteq SubtaskId /\ IsFiniteSet(SubtaskIds(p))
  BY IdsTyped DEF RunOK
<1>3. IsTask(row, SubtaskId) /\ row.output \in Output
  BY <1>1, <1>2, InitializedRow
<1>4. /\ parent[p].pc = "define" /\ task' = row
      /\ parent' = [parent EXCEPT ![p].pc = "generate", ![p].progress = row.output]
  BY DEF DefineSubtasks
<1>5. "generate" \in RunPcs
  BY DEF RunPcs
<1> HIDE DEF row
<1>6. RunBecomes(p, "generate", parent[p].row, parent[p].total, parent[p].next, parent[p].chunks,
                 row.output)
  BY <1>3, <1>4, <1>5, RunReports
<1> QED BY <1>3, <1>4, <1>6 DEF row

LEMMA OrderingTyped ==
  ASSUME NEW S \in SUBSET Recipient, NEW s \in Orderings(S)
  PROVE  s \in Seq(S) /\ s \in Seq(Recipient)
<1>1. Cardinality(S) \in Nat /\ s \in [1 .. Cardinality(S) -> S]
  BY SizeOf DEF Orderings
<1> QED BY <1>1, SeqDef

LEMMA ParentGenerates ==
  ASSUME ParentsTyped, enrolled \subseteq Recipient, NEW p \in Parent, RunOK(parent[p]),
         GenerateChunks(p)
  PROVE  LET n == NumberOfSubtasks(parent[p].total, ItemsPerTask)
         IN /\ parent[p].pc = "generate"
            /\ \E s \in Orderings(enrolled) :
                 LET chunks == Chunks(s, ItemsPerTask, n)
                 IN /\ chunks \in Seq(Seq(Recipient)) /\ Len(chunks) <= n
                    /\ RunBecomes(p, "queue", parent[p].row, parent[p].total, parent[p].next,
                                  chunks, parent[p].progress)
<1> DEFINE n == NumberOfSubtasks(parent[p].total, ItemsPerTask)
<1>1. "queue" \in RunPcs /\ n \in Nat /\ ItemsPerTask \in Nat \ {0}
  BY IdsTyped, ConstantsAssumption DEF RunPcs, RunOK
<1>2. PICK s \in Orderings(enrolled) :
        parent' = [parent EXCEPT ![p].pc = "queue", ![p].chunks = Chunks(s, ItemsPerTask, n)]
  BY DEF GenerateChunks
<1> HIDE DEF n
<1>3. Chunks(s, ItemsPerTask, n) \in Seq(Seq(Recipient)) /\ Len(Chunks(s, ItemsPerTask, n)) <= n
  BY <1>1, OrderingTyped, ChunksTyped
<1>4. RunBecomes(p, "queue", parent[p].row, parent[p].total, parent[p].next, Chunks(s,
                 ItemsPerTask, n), parent[p].progress)
  BY <1>1, <1>2, <1>3, RunCuts
<1>5. parent[p].pc = "generate"
  BY DEF GenerateChunks
<1> QED BY <1>3, <1>4, <1>5 DEF n

LEMMA ParentQueues ==
  ASSUME ParentsTyped, NEW p \in Parent, RunOK(parent[p]), QueueSubtask(p)
  PROVE  LET chunks == parent[p].chunks
             m == [id |-> <<p, parent[p].next>>, to |-> Members(Head(chunks)), st |-> NewStatus]
         IN /\ parent[p].pc = "queue"
            /\ chunks # <<>> /\ Len(chunks) \in Nat \ {0} /\ Head(chunks) \in Seq(Recipient)
            /\ \/ /\ queue' = queue \cup {m} /\ m \in Message /\ m.id \in SubtaskIds(p)
                  /\ Len(Tail(chunks)) = Len(chunks) - 1
                  /\ RunBecomes(p, parent[p].pc, parent[p].row, parent[p].total,
                                parent[p].next + 1, Tail(chunks), parent[p].progress)
               \/ /\ queue' = queue /\ Event("broker")
                  /\ RunBecomes(p, "fail", parent[p].row, parent[p].total, parent[p].next,
                                parent[p].chunks, parent[p].progress)
<1> DEFINE chunks == parent[p].chunks
           m == [id |-> <<p, parent[p].next>>, to |-> Members(Head(chunks)), st |-> NewStatus]
           n == NumberOfSubtasks(parent[p].total, ItemsPerTask)
<1>1. /\ parent[p].next \in Nat \ {0} /\ chunks \in Seq(Seq(Recipient)) /\ parent[p].pc \in RunPcs
      /\ "fail" \in RunPcs
  BY RunFields DEF ParentsTyped, RunTyped, RunPcs
<1>2. parent[p].pc = "queue" /\ chunks # <<>>
  BY DEF QueueSubtask
<1>3. /\ Len(chunks) \in Nat \ {0} /\ Head(chunks) \in Seq(Recipient)
      /\ Tail(chunks) \in Seq(Seq(Recipient)) /\ Len(Tail(chunks)) = Len(chunks) - 1
  BY <1>1, <1>2, EmptySeq, HeadTailProperties
<1>4. CASE /\ queue' = queue \cup {m}
           /\ parent' = [parent EXCEPT ![p].next = @ + 1, ![p].chunks = Tail(@)]
  <2>1. parent' = [parent EXCEPT ![p].next = parent[p].next + 1, ![p].chunks = Tail(chunks)]
    BY <1>4
  <2>2. RunBecomes(p, parent[p].pc, parent[p].row, parent[p].total, parent[p].next + 1,
                   Tail(chunks), parent[p].progress)
    <3>1. parent[p].next + 1 \in Nat \ {0}
      BY <1>1
    <3> QED BY <1>3, <2>1, <3>1, RunSends
  <2>3. n \in 0 .. Cardinality(Recipient) /\ SubtaskIds(p) \subseteq SubtaskId
    BY IdsTyped DEF RunOK
  <2>4. parent[p].next - 1 + Len(chunks) <= n
    BY <1>2 DEF RunOK
  <2>5. parent[p].next \in 1 .. n
    <3>1. n \in Nat
      BY <2>3
    <3> QED BY <1>1, <1>3, <2>4, <3>1
  <2>6. <<p, parent[p].next>> \in SubtaskIds(p)
    BY <2>5 DEF SubtaskIds
  <2>7. Members(Head(chunks)) \in SUBSET Recipient
    BY <1>3, ElementOfSeq, LenProperties DEF Members
  <2>8. NewStatus \in SubtaskStatus
    BY DEF NewStatus, SubtaskStatus
  <2>9. m \in Message
    BY <2>3, <2>6, <2>7, <2>8 DEF Message
  <2> QED BY <1>2, <1>3, <1>4, <2>2, <2>6, <2>9
<1>5. CASE Event("broker") /\ parent' = [parent EXCEPT ![p].pc = "fail"] /\ UNCHANGED queue
  <2>1. RunBecomes(p, "fail", parent[p].row, parent[p].total, parent[p].next, parent[p].chunks,
                   parent[p].progress)
    BY <1>1, <1>5, RunMoves
  <2> QED BY <1>2, <1>3, <1>5, <2>1
<1> QED BY <1>4, <1>5 DEF QueueSubtask

LEMMA ParentEnds ==
  ASSUME ParentsTyped, IsTask(task, SubtaskId), NEW p \in Parent,
         QueuedAll(p) \/ OnSuccess(p) \/ OnFailure(p)
  PROVE  \/ /\ parent[p].pc = "queue"
            /\ RunBecomes(p, "finish", parent[p].row, parent[p].total, parent[p].next,
                          parent[p].chunks, parent[p].progress)
         \/ /\ parent[p].pc = "finish"
            /\ \/ HasSubtasks(task) /\ RunBecomes(p, "done", task, parent[p].total,
                                                  parent[p].next, parent[p].chunks,
                                                  parent[p].progress)
               \/ ~HasSubtasks(task) /\ RunBecomes(p, "succeed", task, parent[p].total,
                                                   parent[p].next, parent[p].chunks,
                                                   parent[p].progress)
         \/ /\ parent[p].pc = "fail"
            /\ RunBecomes(p, "failed", task, parent[p].total, parent[p].next, parent[p].chunks,
                          parent[p].progress)
<1>1. {"finish", "done", "succeed", "failed"} \subseteq RunPcs
  BY DEF RunPcs
<1>2. CASE QueuedAll(p)
  BY <1>1, <1>2, RunMoves DEF QueuedAll, ParentStep
<1>3. CASE OnSuccess(p)
  <2>1. CASE HasSubtasks(task)
    BY <1>1, <1>3, <2>1, RunReads DEF OnSuccess
  <2>2. CASE ~HasSubtasks(task)
    BY <1>1, <1>3, <2>2, RunReads DEF OnSuccess
  <2> QED BY <2>1, <2>2
<1>4. CASE OnFailure(p)
  BY <1>1, <1>4, RunReads DEF OnFailure
<1> QED BY <1>2, <1>3, <1>4

LEMMA ParentSaves ==
  ASSUME ParentsTyped, NEW p \in Parent, SaveEnd(p)
  PROVE  /\ parent[p].pc \in {"succeed", "failed"} /\ RunBecomes(p, "done", parent[p].row,
                                                                 parent[p].total, parent[p].next,
                                                                 parent[p].chunks, parent[p].progress)
         /\ task' = Ended(parent[p]) /\ IsTask(task', SubtaskId)
         /\ task'.status = parent[p].row.status
         /\ parent[p].pc = "failed" => task'.task_state = "FAILURE"
<1>1. RunTyped(parent[p]) /\ "done" \in RunPcs
  BY DEF ParentsTyped, RunTyped, RunPcs
<1>2. IsTask(parent[p].row, SubtaskId) /\ parent[p].progress \in Output
  BY <1>1, RunFields
<1>3. FailureOutput \in Output
  BY DEF FailureOutput, NoOutput, Output
<1>4. parent[p].row \in RowOver(DOMAIN parent[p].row.status)
  BY <1>2, TaskIsRow
<1>5. \A o \in Output, state \in {"SUCCESS", "FAILURE"} :
        LET r == [parent[p].row EXCEPT !.output = o, !.task_state = state]
        IN r.status = parent[p].row.status /\ r.task_state = state /\ IsTask(r, SubtaskId)
  <2> TAKE o \in Output, state \in {"SUCCESS", "FAILURE"}
  <2>1. IsTask([parent[p].row EXCEPT !.output = o, !.task_state = state], SubtaskId)
    BY <1>2, MarkedRow
  <2>2. LET r == [parent[p].row EXCEPT !.output = o, !.task_state = state]
        IN r.status = parent[p].row.status /\ r.task_state = state
    BY <1>4 DEF RowOver
  <2> QED BY <2>1, <2>2
<1>6. LET r == Ended(parent[p])
      IN /\ r.status = parent[p].row.status /\ IsTask(r, SubtaskId)
         /\ parent[p].pc = "failed" => r.task_state = "FAILURE"
  BY <1>2, <1>3, <1>5 DEF Ended
<1>7. /\ parent[p].pc \in {"succeed", "failed"} /\ task' = Ended(parent[p])
      /\ RunBecomes(p, "done", parent[p].row, parent[p].total, parent[p].next, parent[p].chunks,
                    parent[p].progress)
  BY <1>1, RunMoves DEF SaveEnd
<1> QED BY <1>6, <1>7

LEMMA ParentLeavesAlone ==
  ASSUME NEW p \in Parent, events \in [Events -> Nat], ParentNext(p)
  PROVE  EventsGoOn /\ UNCHANGED parentVars
<1>1. UNCHANGED parentVars
  BY DEF ParentNext, ReadTask, MarkProgress, Delegate, CountRecipients, DefineSubtasks,
         GenerateChunks, QueueSubtask, QueuedAll, OnSuccess, OnFailure, SaveEnd
<1>2. NoEvent \/ \E e : Event(e)
  BY DEF ParentNext, ReadTask, MarkProgress, Delegate, CountRecipients, DefineSubtasks,
         GenerateChunks, QueueSubtask, QueuedAll, OnSuccess, OnFailure, SaveEnd, NoEvent
<1> QED BY <1>1, <1>2, EventCounted, NothingCounted

\* A run keeps its types and its count of ids.
LEMMA ParentGoesOn ==
  ASSUME ParentsTyped, \A p \in Parent : RunOK(parent[p]), IsTask(task, SubtaskId),
         queue \subseteq Message, enrolled \subseteq Recipient, NEW p \in Parent, ParentNext(p)
  PROVE  /\ IsTask(task', SubtaskId)
         /\ queue' \subseteq Message
         /\ \A m \in queue' \ queue : m.st = NewStatus
         /\ DOMAIN parent' = Parent
         /\ \A q \in Parent \ {p} : parent'[q] = parent[q]
         /\ RunTyped(parent'[p]) /\ RunOK(parent'[p])
<1> DEFINE run == parent[p]
<1>1. /\ RunTyped(run) /\ RunOK(run) /\ run.total \in Nat /\ run.next \in Nat \ {0}
      /\ run.total \in 0 .. Cardinality(Recipient)
      /\ NumberOfSubtasks(run.total, ItemsPerTask) \in Nat
  BY RunFields, IdsTyped DEF ParentsTyped, RunTyped, RunOK
<1>2. ASSUME NEW pc, NEW row, NEW total, NEW next, NEW chunks, NEW progress,
             RunBecomes(p, pc, row, total, next, chunks, progress),
             IsTask(task', SubtaskId), queue' = queue,
             total \in 0 .. Cardinality(Recipient),
             pc \in {"idle", "start", "delegate", "count", "define", "generate"} => next = 1,
             pc = "queue" => next - 1 + Len(chunks) <= NumberOfSubtasks(total, ItemsPerTask)
      PROVE  /\ IsTask(task', SubtaskId)
             /\ queue' \subseteq Message
             /\ \A m \in queue' \ queue : m.st = NewStatus
             /\ DOMAIN parent' = Parent
             /\ \A q \in Parent \ {p} : parent'[q] = parent[q]
             /\ RunTyped(parent'[p]) /\ RunOK(parent'[p])
  BY <1>2 DEF RunBecomes, RunOK
<1>3. CASE ReadTask(p)
  BY <1>1, <1>2, <1>3, ParentReads DEF RunOK, ReadTask
<1>4. CASE MarkProgress(p)
  BY <1>1, <1>2, <1>4, ParentMarks DEF RunOK, MarkProgress
<1>5. CASE Delegate(p)
  BY <1>1, <1>2, <1>5, ParentDelegates DEF RunOK, Delegate
<1>6. CASE CountRecipients(p)
  BY <1>1, <1>2, <1>6, ParentCounts DEF RunOK, CountRecipients
<1>7. CASE DefineSubtasks(p)
  BY <1>1, <1>2, <1>7, ParentDefines DEF RunOK, DefineSubtasks
<1>8. CASE GenerateChunks(p)
  <2>1. run.next = 1 /\ queue' = queue /\ task' = task
    BY <1>8 DEF RunOK, GenerateChunks
  <2>2. PICK chunks \in Seq(Seq(Recipient)) :
          /\ Len(chunks) <= NumberOfSubtasks(run.total, ItemsPerTask)
          /\ RunBecomes(p, "queue", run.row, run.total, run.next, chunks, run.progress)
    BY <1>8, ParentGenerates
  <2>3. Len(chunks) \in Nat
    BY LenProperties
  <2> QED BY <1>1, <1>2, <2>1, <2>2, <2>3
<1>9. CASE QueueSubtask(p)
  <2> DEFINE m == [id |-> <<p, run.next>>, to |-> Members(Head(run.chunks)), st |-> NewStatus]
  <2>1. /\ task' = task /\ run.pc = "queue"
        /\ run.next - 1 + Len(run.chunks) <= NumberOfSubtasks(run.total, ItemsPerTask)
    BY <1>9 DEF QueueSubtask, RunOK
  <2>2. CASE /\ queue' = queue \cup {m} /\ m \in Message
             /\ Len(run.chunks) \in Nat /\ Len(Tail(run.chunks)) = Len(run.chunks) - 1
             /\ RunBecomes(p, run.pc, run.row, run.total, run.next + 1, Tail(run.chunks),
                           run.progress)
    <3>1. m.st = NewStatus
      OBVIOUS
    <3> HIDE DEF m
    <3>2. run.next + 1 - 1 + Len(Tail(run.chunks)) <= NumberOfSubtasks(run.total, ItemsPerTask)
      BY <1>1, <2>1, <2>2
    <3>3. RunOK(parent'[p])
      BY <1>1, <2>1, <2>2, <3>2 DEF RunBecomes, RunOK
    <3> QED BY <2>1, <2>2, <3>1, <3>3 DEF RunBecomes
  <2>3. CASE /\ queue' = queue
             /\ RunBecomes(p, "fail", run.row, run.total, run.next, run.chunks, run.progress)
    BY <1>1, <1>2, <2>1, <2>3
  <2> QED BY <1>9, <2>2, <2>3, ParentQueues
<1>10. CASE QueuedAll(p) \/ OnSuccess(p) \/ OnFailure(p)
  <2>1. task' = task /\ queue' = queue
    BY <1>10 DEF QueuedAll, OnSuccess, OnFailure
  <2> QED BY <1>1, <1>2, <1>10, <2>1, ParentEnds
<1>11. CASE SaveEnd(p)
  BY <1>1, <1>2, <1>11, ParentSaves DEF SaveEnd
<1> QED BY <1>3, <1>4, <1>5, <1>6, <1>7, <1>8, <1>9, <1>10, <1>11 DEF ParentNext

LEMMA ParentStepOK ==
  ASSUME JobInvariant, NEW p \in Parent, ParentNext(p)
  PROVE  JobInvariant'
<1>1. /\ IsTask(task, SubtaskId) /\ lock \in [SubtaskId -> Worker \cup {NoOne}]
      /\ queue \subseteq Message /\ WorkersTyped /\ ParentsTyped
      /\ {enrolled, optout, declined} \subseteq SUBSET Recipient
      /\ sent \in [Recipient -> Nat] /\ events \in [Events -> Nat]
  BY TypeParts DEF JobInvariant
<1>2. EventsGoOn /\ UNCHANGED <<lock, worker, enrolled, optout, declined, sent>>
  BY <1>1, ParentLeavesAlone DEF parentVars, envVars
<1>3. /\ IsTask(task', SubtaskId) /\ queue' \subseteq Message
      /\ \A m \in queue' \ queue : m.st = NewStatus
      /\ ParentsTyped' /\ \A q \in Parent : RunOK(parent'[q])
  BY <1>1, ParentGoesOn DEF JobInvariant, ParentsTyped, RunTyped
<1>4. TypeOK'
  BY <1>1, <1>2, <1>3 DEF TypeOK, EventsGoOn, ParentsTyped, WorkersTyped, JobTyped
<1>5. \A m \in queue' : MessageOK(m)
  <2>1. \A m : m.st = NewStatus => MessageOK(m)
    BY ConstantsAssumption DEF MessageOK, NewStatus, RetryCount
  <2> QED BY <1>3, <2>1 DEF JobInvariant
<1>6. \A m : MessageOK(m)' <=> MessageOK(m)
  BY <1>2 DEF MessageOK
<1>7. \A w \in Worker : Busy(w)' => JobOK(worker[w])'
  BY <1>2 DEF JobInvariant, JobOK, MessageOK, Busy
<1>8. Happened({"crash"}) => Happened({"crash"})'
  BY <1>1, <1>2, HappenedStays
<1>9. LocksHeld => LocksHeld'
  BY <1>2 DEF LocksHeld, Busy
<1> QED BY <1>2, <1>3, <1>4, <1>5, <1>6, <1>7, <1>8, <1>9 DEF JobInvariant, RunOK

LEMMA InitOK == Init => JobInvariant
<1> SUFFICES ASSUME Init PROVE JobInvariant
  OBVIOUS
<1> USE DEF Init
<1>1. IsTask(NewTask, SubtaskId)
  BY NewTaskTyped
<1>2. RunTyped(NewParent) /\ RunOK(NewParent)
  <2>1. NoOutput \in Output /\ <<>> \in Seq(Seq(Recipient))
    BY EmptySeq DEF NoOutput, Output
  <2>2. RunTyped(NewParent)
    BY <1>1, <2>1 DEF RunTyped, NewParent, ParentState
  <2>3. Cardinality(Recipient) \in Nat
    BY ConstantsAssumption, FS_CardinalityType
  <2>4. NewParent.pc = "idle" /\ NewParent.total = 0 /\ NewParent.next = 1
    BY DEF NewParent
  <2> QED BY <2>2, <2>3, <2>4 DEF RunOK
<1>3. ParentsTyped /\ \A p \in Parent : RunOK(parent[p])
  BY <1>2 DEF ParentsTyped, RunTyped
<1>4. WorkersTyped /\ \A w \in Worker : ~Busy(w)
  BY DEF WorkersTyped, Busy, Idle
<1>5. TypeOK
  <2>1. sent \in [Recipient -> Nat] /\ events \in [Events -> Nat]
    OBVIOUS
  <2>2. lock \in [SubtaskId -> Worker \cup {NoOne}]
    OBVIOUS
  <2> QED BY <1>1, <1>3, <1>4, <2>1, <2>2, TypeParts
<1>6. LocksHeld
  BY ConstantsAssumption DEF LocksHeld
<1> QED BY <1>3, <1>4, <1>5, <1>6 DEF JobInvariant

\* A worker or the parent dies, a lock expires, users come and go.
LEMMA SurroundingsStep ==
  ASSUME JobInvariant,
         \/ \E p \in Parent : CrashParent(p)
         \/ \E w \in Worker : CrashWorker(w)
         \/ \E id \in SubtaskId : ExpireLock(id)
         \/ ChangeUsers
  PROVE  JobInvariant'
<1>1. /\ IsTask(task, SubtaskId) /\ lock \in [SubtaskId -> Worker \cup {NoOne}]
      /\ queue \subseteq Message /\ WorkersTyped /\ ParentsTyped
      /\ {enrolled, optout, declined} \subseteq SUBSET Recipient
      /\ sent \in [Recipient -> Nat] /\ events \in [Events -> Nat]
  BY TypeParts DEF JobInvariant
<1>2. /\ UNCHANGED <<task, queue, sent, declined>>
      /\ \E e : Event(e)
  BY DEF CrashParent, CrashWorker, ExpireLock, ChangeUsers, envVars
<1>3. EventsGoOn /\ (Happened({"crash"}) => Happened({"crash"})')
  BY <1>1, <1>2, EventCounted, HappenedStays
<1>4. /\ lock' \in [SubtaskId -> Worker \cup {NoOne}] /\ WorkersTyped'
      /\ \A w \in Worker : Busy(w)' => JobOK(worker'[w])
      /\ Happened({"crash"})' \/ (LocksHeld => LocksHeld')
  <2>1. CASE \E w \in Worker : CrashWorker(w)
    <3>1. PICK w \in Worker : CrashWorker(w)
      BY <2>1
    <3>2. OnlyMoves(w) /\ worker'[w] = Idle /\ lock' = lock
      BY <1>1, <3>1, Stops DEF CrashWorker, WorkersTyped
    <3>3. Happened({"crash"})'
      BY <1>1, <3>1, EventCounted DEF CrashWorker, Happened
    <3> QED BY <1>1, <3>2, <3>3 DEF OnlyMoves, WorkersTyped, JobInvariant, Busy, Idle
  <2>2. CASE \E id \in SubtaskId : ExpireLock(id)
    <3>1. PICK id \in SubtaskId : ExpireLock(id)
      BY <2>2
    <3>2. worker' = worker /\ lock' = [lock EXCEPT ![id] = NoOne]
      BY <3>1 DEF ExpireLock
    <3>3. LocksHeld => LocksHeld'
      BY <1>1, <3>2, ConstantsAssumption DEF LocksHeld, Busy
    <3> QED BY <1>1, <3>2, <3>3 DEF WorkersTyped, JobInvariant, Busy
  <2>3. CASE UNCHANGED <<worker, lock>>
    BY <1>1, <2>3 DEF WorkersTyped, JobInvariant, LocksHeld, Busy
  <2> QED BY <2>1, <2>2, <2>3 DEF CrashParent, ChangeUsers
<1>5. ParentsTyped' /\ \A p \in Parent : RunOK(parent'[p])
  <2>1. CASE \E p \in Parent : CrashParent(p)
    <3>1. PICK p \in Parent : parent' = [parent EXCEPT ![p].pc = "done"]
      BY <2>1 DEF CrashParent
    <3>2. RunBecomes(p, "done", parent[p].row, parent[p].total, parent[p].next,
                     parent[p].chunks, parent[p].progress)
      BY <1>1, <3>1, RunMoves DEF RunPcs
    <3> QED BY <1>1, <3>2 DEF RunBecomes, ParentsTyped, RunTyped, RunOK, JobInvariant
  <2>2. CASE parent' = parent
    BY <1>1, <2>2 DEF ParentsTyped, JobInvariant
  <2> QED BY <2>1, <2>2 DEF CrashWorker, ExpireLock, ChangeUsers
<1>6. {enrolled', optout'} \subseteq SUBSET Recipient /\ declined \subseteq optout'
  <2>1. CASE ChangeUsers
    BY <1>1, <2>1 DEF ChangeUsers, JobInvariant
  <2>2. CASE UNCHANGED envVars
    BY <1>1, <2>2 DEF envVars, JobInvariant
  <2> QED BY <2>1, <2>2 DEF CrashParent, CrashWorker, ExpireLock
<1>7. TypeOK'
  BY <1>1, <1>2, <1>3, <1>4, <1>5, <1>6
  DEF TypeOK, EventsGoOn, ParentsTyped, WorkersTyped, JobTyped
<1>8. \A m : MessageOK(m)' <=> MessageOK(m)
  BY <1>2 DEF MessageOK
<1>9. \A w \in Worker : Busy(w)' => JobOK(worker[w])'
  BY <1>2, <1>4 DEF JobOK, MessageOK
<1>10. \A m \in queue' : MessageOK(m)'
  BY <1>2, <1>8 DEF JobInvariant
<1>11. \A r \in declined' : sent'[r] = 0
  BY <1>2 DEF JobInvariant
<1>12. \A p \in Parent : RunOK(parent[p])'
  BY <1>5 DEF RunOK
<1>13. Happened({"crash"})' \/ LocksHeld'
  BY <1>3, <1>4 DEF JobInvariant
<1> QED BY <1>2, <1>9, <1>10, <1>11, <1>12, <1>13, <1>6, <1>7 DEF JobInvariant

LEMMA NextOK == JobInvariant /\ [Next]_vars => JobInvariant'
<1> SUFFICES ASSUME JobInvariant, [Next]_vars PROVE JobInvariant'
  OBVIOUS
<1>1. CASE UNCHANGED vars
  <2>1. UNCHANGED <<task, lock, queue, worker, parent, enrolled, optout, declined, sent, events>>
    BY <1>1 DEF vars, envVars
  <2> QED BY <2>1 DEF JobInvariant, TypeOK, MessageOK, JobOK, RunOK, LocksHeld, Happened, Busy
<1>2. CASE Next
  BY <1>1, <1>2, ParentStepOK, WorkerStep, SurroundingsStep DEF Next
<1> QED BY <1>1, <1>2

\* Whatever goes wrong, and however many workers, recipients and retries there
\* are: jobs and messages keep within the limits and within their lists, and
\* every lock has an owner that will delete it.
THEOREM JobsAgree == Spec => []JobInvariant
BY InitOK, NextOK, PTL DEF Spec

\* Every variable has its type; in particular each chunk finds an id, and
\* update_subtask_status is never handed a list that grew.
THEOREM TypeCorrect == Spec => []TypeOK
<1>1. JobInvariant => TypeOK
  BY DEF JobInvariant
<1> QED BY <1>1, JobsAgree, PTL

\* Neither limit on retries is passed in any message, however the two kinds of
\* error mix (_submit_for_retry).
THEOREM RetriesAreBounded == Spec => []RetriesBounded
<1>1. JobInvariant => RetriesBounded
  BY DEF JobInvariant, RetriesBounded, MessageOK
<1> QED BY <1>1, JobsAgree, PTL

\* Nobody who had opted out is emailed, although a retry does not look at the
\* Optout table again and the message was built before the first look.
THEOREM DeclinedAreNotEmailed == Spec => []DeclinedNotEmailed
<1>1. JobInvariant => DeclinedNotEmailed
  BY DEF JobInvariant, DeclinedNotEmailed
<1> QED BY <1>1, JobsAgree, PTL

\* Unless a worker has died, no lock is left when all is over, through database
\* errors, failing connections and a broker that is away.
THEOREM LocksAreReleased == Spec => []RestMeansUnlocked
<1>1. ASSUME JobInvariant, AtRest, ~Happened({"crash"}), NEW id \in SubtaskId
      PROVE  lock[id] = NoOne
  <2>1. lock[id] \in Worker \cup {NoOne} /\ LocksHeld
    BY <1>1 DEF JobInvariant, TypeOK
  <2>2. \A w \in Worker : lock[id] # w
    BY <1>1, <2>1 DEF LocksHeld, AtRest
  <2> QED BY <2>1, <2>2
<1>2. JobInvariant => RestMeansUnlocked
  BY <1>1 DEF RestMeansUnlocked
<1> QED BY <1>2, JobsAgree, PTL

-----------------------------------------------------------------------------
(***************************************************************************)
(* The ledger.  As long as nothing is written behind the back of a subtask *)
(* (NoSecondResult), the parent task is delivered once and copies of a     *)
(* message do not overlap, the row is written by the one worker that has a *)
(* claim on the subtask.  An attempt is told from the others of its        *)
(* subtask by the number of retries its message carries; a worker claims   *)
(* its subtask while the row is open to that attempt, or waits for the     *)
(* retry that only this worker can submit.                                 *)
(***************************************************************************)
Attempt(m) == RetryCount(m.st)
Recorded(id) == RetryCount(task.status[id])
Unsettled(id) == id \in DOMAIN task.status /\ ~IsSettled(id)

\* The row waits for the result of this attempt ...
Open(m) == Unsettled(m.id) /\ Recorded(m.id) = Attempt(m)

\* ... or for the attempt after it, which does not exist yet.
Waiting(m) ==
  /\ Unsettled(m.id) /\ task.status[m.id].state = "RETRY" /\ Recorded(m.id) = Attempt(m) + 1
  /\ \A n \in queue : n.id = m.id => Attempt(n) # Attempt(m) + 1
  /\ \A w \in Worker :
       Busy(w) /\ worker[w].msg.id = m.id => Attempt(worker[w].msg) # Attempt(m) + 1

\* Before the row knows of the attempt's end; between the record of a retry and
\* its message; and with a result to write.
Early(j) ==
  \/ j.pc \in {"lock", "prepare", "send"}
  \/ j.pc \in {"update", "unwind"} /\ j.st.state = "RETRY"
Late(j) == j.pc = "retry" \/ (j.pc = "release" /\ j.st.state = "RETRY")
Final(j) == j.pc \in {"update", "close"} /\ j.st.state # "RETRY"

Claims(j) == Early(j) \/ Late(j) \/ Final(j)

ClaimOK(j) ==
  /\ Early(j) => Open(j.msg)
  /\ Late(j) => Waiting(j.msg)
  /\ Final(j) => Open(j.msg) \/ Waiting(j.msg)

\* No attempt is in two hands, and none is ahead of the row.
OneHand ==
  \A v, w \in Worker :
    /\ Busy(v) /\ Busy(w) /\ worker[v].msg.id = worker[w].msg.id
    /\ Attempt(worker[v].msg) = Attempt(worker[w].msg)
    => v = w

NoneAhead ==
  /\ \A m \in queue : Unsettled(m.id) => Attempt(m) <= Recorded(m.id)
  /\ \A w \in Worker :
       Busy(w) /\ Unsettled(worker[w].msg.id) =>
         Attempt(worker[w].msg) <= Recorded(worker[w].msg.id)

Blank(row) == ~HasSubtasks(row) /\ row.succeeded = 0 /\ row.failed = 0

\* Before its subtasks are defined the job has no messages and a blank row, as
\* the parent read it; afterwards only the subtasks write the row.
Defined == {"generate", "queue", "finish"}

ParentPhase ==
  /\ \A p \in Parent \ {1} : parent[p].pc = "idle"
  /\ parent[1].pc \notin Defined \cup {"done"} =>
       /\ Blank(task) /\ task.task_state \in {"QUEUING", "PROGRESS"}
       /\ parent[1].pc # "succeed"
       /\ parent[1].pc # "idle" => Blank(parent[1].row)
       /\ parent[1].pc \notin {"idle", "start"} => task.task_state = "PROGRESS"
  /\ parent[1].pc = "define" => parent[1].total # 0
  /\ parent[1].pc \in Defined => HasSubtasks(task)

RowPhase ==
  /\ ~HasSubtasks(task) => queue = {} /\ \A w \in Worker : ~Busy(w)
  /\ HasSubtasks(task) =>
       /\ task.output.kind = "progress"
       /\ task.total = Cardinality(DOMAIN task.status)
       /\ task.task_state \in {"PROGRESS", "SUCCESS"}
  /\ \A id \in DOMAIN task.status : task.status[id].state = "QUEUING" => Recorded(id) = 0
  /\ Counted(task)
  /\ task.task_state = "SUCCESS" => \A id \in DOMAIN task.status : IsSettled(id)

LedgerInvariant ==
  /\ OneHand /\ NoneAhead
  /\ \A w \in Worker : Busy(w) => ClaimOK(worker[w])
  /\ ParentPhase /\ RowPhase

LEMMA StagesGoOn ==
  ASSUME NEW w \in Worker, HasJob(w), WorkerNext(w),
         ~CheckSubtask(w), ~WriteStatus(w), ~Event("close"), worker'[w] # Idle
  PROVE  /\ Early(worker'[w]) => Early(worker[w])
         /\ Late(worker'[w]) => Late(worker[w])
         /\ Final(worker'[w]) => Claims(worker[w])
<1> DEFINE job == worker[w]
           q == worker'[w]
<1>1. job.pc # "idle"
  BY JobFields DEF HasJob
<1>2. \A pc, to, st, depth, skip : Becomes(q, job, pc, to, st, depth, skip) => q.pc = pc /\ q.st = st
  BY DEF Becomes
<1>3. ASSUME Early(job), q.pc \in {"prepare", "send", "update", "unwind", "close"}
      PROVE  /\ Early(q) => Early(job)
             /\ Late(q) => Late(job)
             /\ Final(q) => Claims(job)
  BY <1>3 DEF Late, Claims
<1>4. CASE Receive(w)
  BY <1>1, <1>4 DEF Receive, Busy
<1>5. CASE AcquireLock(w)
  <2>1. job.pc = "lock" /\ q.pc = "prepare"
    BY <1>2, <1>5, Locks
  <2> QED BY <1>3, <2>1 DEF Early
<1>6. CASE Prepare(w)
  <2>1. job.pc = "prepare" /\ q.pc \in {"send", "update", "close"}
    BY <1>2, <1>6, Prepares
  <2> QED BY <1>3, <2>1 DEF Early
<1>7. CASE \/ SendEmail(w) \/ RefuseEmail(w) \/ ThrottleEmail(w) \/ DropConnection(w)
           \/ AbortSending(w) \/ FinishSending(w)
  <2>1. job.pc = "send" /\ q.pc \in {"send", "update", "close"}
    BY <1>2, <1>7, Sends
  <2> QED BY <1>3, <2>1 DEF Early
<1>8. CASE CloseConnection(w)
  <2>1. job.pc = "close" /\ job.st.state # "RETRY" /\ q.pc = "update" /\ q.st = job.st
    BY <1>2, <1>8, Closes
  <2> QED BY <2>1 DEF Early, Late, Final, Claims
<1>9. CASE RejectWrite(w) \/ FailWrite(w)
  <2>1. job.pc = "update" /\ q.pc \in {"update", "unwind"} /\ q.st = job.st
    <3>1. CASE RejectWrite(w)
      BY <1>2, <3>1, Writes DEF RejectWrite
    <3>2. CASE FailWrite(w)
      BY <1>2, <3>2, Fails
    <3> QED BY <1>9, <3>1, <3>2
  <2> QED BY <2>1 DEF Early, Late, Final, Claims
<1>10. CASE ReleaseLock(w)
  <2>1. /\ job.pc \in {"release", "unwind"}
        /\ \/ q.pc = job.pc /\ q.st = job.st
           \/ job.pc = "release" /\ job.st.state = "RETRY" /\ q.pc = "retry"
           \/ job.pc = "unwind" /\ job.st.state = "RETRY" /\ q.pc = "update" /\ q.st.state = "FAILURE"
    <3> DEFINE goal == \/ q.pc = job.pc /\ q.st = job.st
                       \/ job.pc = "release" /\ job.st.state = "RETRY" /\ q.pc = "retry"
                       \/ /\ job.pc = "unwind" /\ job.st.state = "RETRY"
                          /\ q.pc = "update" /\ q.st.state = "FAILURE"
    <3>1. Becomes(q, job, job.pc, job.to, job.st, job.depth - 1, job.skip_retry_max) => goal
      BY <1>2
    <3>2. /\ job.pc = "release" /\ job.st.state = "RETRY"
          /\ Becomes(q, job, "retry", job.to, job.st, job.depth, job.skip_retry_max)
          => goal
      BY <1>2
    <3>3. /\ job.pc = "unwind" /\ job.st.state = "RETRY"
          /\ \E t : Becomes(q, job, "update", job.to, t, 1, FALSE) /\ t.state = "FAILURE"
          => goal
      BY <1>2
    <3> HIDE DEF goal
    <3>4. job.pc \in {"release", "unwind"} /\ goal
      BY <1>10, <3>1, <3>2, <3>3, Releases
    <3> QED BY <3>4 DEF goal
  <2> QED BY <2>1 DEF Early, Late, Final, Claims
<1>11. CASE SubmitRetry(w)
  <2>1. job.pc = "retry" /\ q.pc = "close"
    BY <1>2, <1>11, Submits
  <2> QED BY <2>1 DEF Early, Late, Claims
<1> QED BY <1>4, <1>5, <1>6, <1>7, <1>8, <1>9, <1>10, <1>11 DEF WorkerNext

\* Two workers with a claim on one subtask are the same.
LEMMA SoleClaim ==
  ASSUME OneHand, NEW v \in Worker, NEW w \in Worker, JobTyped(worker[v]), JobTyped(worker[w]),
         Claims(worker[v]), ClaimOK(worker[v]), Claims(worker[w]), ClaimOK(worker[w]),
         worker[v].msg.id = worker[w].msg.id
  PROVE  v = w
<1>1. Busy(v) /\ Busy(w) /\ Attempt(worker[v].msg) \in Nat /\ Attempt(worker[w].msg) \in Nat
  BY JobFields, RetryNumbers DEF Busy, Attempt
<1>2. /\ Open(worker[v].msg) \/ Waiting(worker[v].msg)
      /\ Open(worker[w].msg) \/ Waiting(worker[w].msg)
  BY DEF Claims, ClaimOK
<1>3. Attempt(worker[v].msg) = Attempt(worker[w].msg)
  BY <1>1, <1>2 DEF Open, Waiting
<1> QED BY <1>1, <1>3 DEF OneHand

\* A step of w that leaves the row and the broker alone.
LEMMA QuietStep ==
  ASSUME LedgerInvariant, NEW w \in Worker, OnlyMoves(w),
         task' = task, queue' \subseteq queue, parent' = parent, Busy(w),
         \/ worker'[w] = Idle
         \/ /\ worker'[w].msg = worker[w].msg /\ worker'[w].pc # "idle"
            /\ Early(worker'[w]) => Open(worker[w].msg)
            /\ Late(worker'[w]) => Waiting(worker[w].msg)
            /\ Final(worker'[w]) => Open(worker[w].msg) \/ Waiting(worker[w].msg)
  PROVE  LedgerInvariant'
<1>1. \A v \in Worker : Busy(v)' => Busy(v) /\ worker'[v].msg = worker[v].msg
  BY DEF OnlyMoves, Busy, Idle
<1>2. \A m : Open(m) => Open(m)'
  BY DEF Open, Unsettled, IsSettled, Recorded, Attempt
<1>3. \A m : Waiting(m) => Waiting(m)'
  BY <1>1 DEF Waiting, Unsettled, IsSettled, Recorded, Attempt
<1>4. OneHand' /\ NoneAhead'
  BY <1>1 DEF LedgerInvariant, OneHand, NoneAhead, Unsettled, IsSettled, Recorded, Attempt
<1>5. \A v \in Worker : Busy(v)' => ClaimOK(worker[v])'
  <2> SUFFICES ASSUME NEW v \in Worker, Busy(v)' PROVE ClaimOK(worker[v])'
    OBVIOUS
  <2>1. CASE v = w
    BY <1>2, <1>3, <2>1 DEF ClaimOK, Early, Late, Final, Busy, Idle
  <2>2. CASE v # w
    <3>1. Busy(v) /\ worker'[v] = worker[v] /\ ClaimOK(worker[v])
      BY <1>1, <2>2 DEF OnlyMoves, LedgerInvariant
    <3> QED BY <1>2, <1>3, <3>1 DEF ClaimOK, Early, Late, Final
  <2> QED BY <2>1, <2>2
<1>6. ParentPhase' /\ RowPhase'
  BY <1>1 DEF LedgerInvariant, ParentPhase, RowPhase, Counted, StatusIn, HasSubtasks, Blank, IsSettled,
     Recorded
<1> QED BY <1>4, <1>5, <1>6 DEF LedgerInvariant

LEMMA ReceiveLedger ==
  ASSUME ~OverlapTasks, JobInvariant, LedgerInvariant, NEW w \in Worker, Receive(w)
  PROVE  LedgerInvariant'
<1>1. queue \subseteq Message /\ DOMAIN worker = Worker
  BY DEF JobInvariant, TypeOK
<1>2. PICK m \in queue : worker'[w] = Running(m) /\ JobTyped(Running(m)) /\ ~BeingRun(m)
  BY <1>1, Receives
<1>3. /\ OnlyMoves(w) /\ ~Busy(w) /\ queue' \subseteq queue
      /\ task' = task /\ parent' = parent
  BY <1>1, Receives DEF Receive, Busy
<1>4. /\ \A v \in Worker \ {w} : worker'[v] = worker[v]
      /\ worker'[w].pc = "check" /\ worker'[w].msg = m
  BY <1>2, <1>3 DEF OnlyMoves, Running
<1>5. \A n : Open(n) => Open(n)'
  BY <1>3 DEF Open, Unsettled, IsSettled, Recorded, Attempt
<1>6. \A n : Waiting(n) => Waiting(n)'
  BY <1>3, <1>4 DEF Waiting, Unsettled, IsSettled, Recorded, Attempt, Busy
<1>7. OneHand'
  <2>1. \A v \in Worker : Busy(v) => ~(worker[v].msg.id = m.id /\ Attempt(worker[v].msg) = Attempt(m))
    BY <1>2 DEF BeingRun, Attempt
  <2> QED BY <1>4, <2>1 DEF LedgerInvariant, OneHand, Busy, Attempt
<1>8. NoneAhead'
  BY <1>3, <1>4 DEF LedgerInvariant, NoneAhead, Unsettled, IsSettled, Recorded, Attempt, Busy
<1>9. \A v \in Worker : Busy(v)' => ClaimOK(worker[v])'
  <2> SUFFICES ASSUME NEW v \in Worker, Busy(v)' PROVE ClaimOK(worker[v])'
    OBVIOUS
  <2>1. CASE v = w
    BY <1>4, <2>1 DEF ClaimOK, Early, Late, Final
  <2>2. CASE v # w
    <3>1. worker'[v] = worker[v] /\ ClaimOK(worker[v])
      BY <1>4, <2>2 DEF LedgerInvariant, Busy
    <3> QED BY <1>5, <1>6, <3>1 DEF ClaimOK, Early, Late, Final
  <2> QED BY <2>1, <2>2
<1>10. HasSubtasks(task)
  BY DEF LedgerInvariant, RowPhase
<1>11. ParentPhase' /\ RowPhase'
  BY <1>3, <1>10 DEF LedgerInvariant, ParentPhase, RowPhase, Counted, StatusIn, HasSubtasks, Blank,
     IsSettled, Recorded
<1> QED BY <1>7, <1>8, <1>9, <1>11 DEF LedgerInvariant

LEMMA CheckLedger ==
  ASSUME JobInvariant, LedgerInvariant, NEW w \in Worker, HasJob(w), CheckSubtask(w)
  PROVE  LedgerInvariant'
<1> DEFINE job == worker[w]
           q == worker'[w]
<1>1. /\ job.pc = "check" /\ OnlyMoves(w) /\ Busy(w)
      /\ task' = task /\ queue' = queue /\ parent' = parent
  BY Checks DEF CheckSubtask, Busy
<1>2. CASE q = Idle
  BY <1>1, <1>2, QuietStep
<1>3. CASE /\ IsStartable(task, job.msg.id, job.st)
           /\ Becomes(q, job, "lock", job.to, job.st, job.depth, job.skip_retry_max)
  <2>1. q.pc = "lock" /\ q.msg = job.msg /\ job.st = job.msg.st
    BY <1>1, <1>3 DEF Becomes, JobInvariant, JobOK, RetriesOK, Fresh
  <2>2. /\ job.msg.id \in DOMAIN task.status
        /\ task.status[job.msg.id].state \notin READY_STATES
        /\ task.status[job.msg.id].state = "RETRY" => Attempt(job.msg) >= Recorded(job.msg.id)
    BY <1>3, <2>1 DEF IsStartable, Attempt, Recorded
  <2>3. task.status[job.msg.id] \in SubtaskStatus /\ Recorded(job.msg.id) \in Nat
    <3>1. IsTask(task, SubtaskId)
      BY DEF JobInvariant, TypeOK
    <3>2. task.status[job.msg.id] \in SubtaskStatus
      BY <2>2, <3>1, TaskIsRow DEF RowOver
    <3> QED BY <3>2, RetryNumbers DEF Recorded
  <2>4. Attempt(job.msg) \in Nat
    BY JobFields, RetryNumbers DEF Attempt, HasJob
  <2>5. Attempt(job.msg) <= Recorded(job.msg.id)
    BY <1>1, <2>2 DEF LedgerInvariant, NoneAhead, Unsettled, IsSettled
  <2>6. task.status[job.msg.id].state \in {"QUEUING", "RETRY"}
    BY <2>2, <2>3 DEF SubtaskStatus, READY_STATES
  <2>7. Recorded(job.msg.id) = Attempt(job.msg)
    BY <2>2, <2>3, <2>4, <2>5, <2>6 DEF LedgerInvariant, RowPhase
  <2>8. Open(job.msg)
    BY <2>2, <2>7 DEF Open, Unsettled, IsSettled
  <2> QED BY <1>1, <2>1, <2>8, QuietStep DEF Late, Final
<1> QED BY <1>2, <1>3, Checks

\* The message of the next attempt appears.
LEMMA SubmitLedger ==
  ASSUME JobInvariant, LedgerInvariant, NEW w \in Worker, HasJob(w), SubmitRetry(w)
  PROVE  LedgerInvariant'
<1> DEFINE job == worker[w]
           q == worker'[w]
           m == NextAttempt(job)
<1>1. /\ job.pc = "retry" /\ OnlyMoves(w) /\ Busy(w)
      /\ task' = task /\ parent' = parent
  BY Submits DEF SubmitRetry, Busy
<1>2. Waiting(job.msg) /\ JobOK(job)
  BY <1>1 DEF LedgerInvariant, ClaimOK, Late, JobInvariant
<1>3. q.msg = job.msg /\ q.pc = "close"
  BY Submits DEF Becomes
<1>4. CASE queue' = queue
  BY <1>1, <1>2, <1>3, <1>4, QuietStep DEF Early, Late
<1>5. CASE /\ queue' = queue \cup {m}
           /\ Becomes(q, job, "close", job.to, job.st, job.depth, job.skip_retry_max)
  <2>1. /\ m.id = job.msg.id /\ Attempt(m) = Attempt(job.msg) + 1
        /\ Attempt(job.msg) \in Nat /\ q.st.state = "RETRY"
    <3>1. job.st.state = "RETRY" /\ RetryCount(job.st) = RetryCount(job.msg.st) + 1
      BY <1>1, <1>2 DEF JobOK, RetriesOK, Fresh
    <3> QED BY <1>5, <3>1, JobFields, RetryNumbers DEF NextAttempt, Attempt, HasJob, Becomes
  <2> HIDE DEF m
  <2>2. \A v \in Worker : Busy(v)' => Busy(v) /\ worker'[v].msg = worker[v].msg
    BY <1>1, <1>3 DEF OnlyMoves, Busy
  <2>3. \A n : Open(n) => Open(n)'
    BY <1>1 DEF Open, Unsettled, IsSettled, Recorded, Attempt
  <2>4. ASSUME NEW v \in Worker \ {w}, Busy(v), Waiting(worker[v].msg) PROVE Waiting(worker[v].msg)'
    <3>1. worker'[v] = worker[v] /\ Attempt(worker[v].msg) \in Nat
      <4>1. JobTyped(worker[v])
        BY <2>4 DEF JobInvariant, TypeOK, JobTyped, Busy, Idle
      <4> QED BY <1>1, <4>1, JobFields, RetryNumbers DEF OnlyMoves, Attempt
    <3>2. m.id = worker[v].msg.id => Attempt(m) # Attempt(worker[v].msg) + 1
      <4>1. ASSUME Attempt(m) = Attempt(worker[v].msg) + 1
            PROVE  Attempt(worker[v].msg) = Attempt(job.msg)
        BY <2>1, <3>1, <4>1
      <4>2. ~(job.msg.id = worker[v].msg.id /\ Attempt(worker[v].msg) = Attempt(job.msg))
        BY <1>1, <2>4 DEF LedgerInvariant, OneHand
      <4> QED BY <2>1, <4>1, <4>2
    <3>3. \A n \in queue' : n.id = worker[v].msg.id => Attempt(n) # Attempt(worker[v].msg) + 1
      BY <1>5, <2>4, <3>2 DEF Waiting
    <3> QED BY <1>1, <2>2, <2>4, <3>1, <3>3 DEF Waiting, Unsettled, IsSettled, Recorded, Attempt
  <2>5. OneHand'
    BY <2>2 DEF LedgerInvariant, OneHand, Attempt
  <2>6. NoneAhead'
    <3>1. Attempt(m) <= Recorded(m.id)
      BY <1>2, <2>1 DEF Waiting
    <3> QED BY <1>1, <1>5, <2>2, <3>1
        DEF LedgerInvariant, NoneAhead, Unsettled, IsSettled, Recorded, Attempt
  <2>7. \A v \in Worker : Busy(v)' => ClaimOK(worker[v])'
    <3> SUFFICES ASSUME NEW v \in Worker, Busy(v)' PROVE ClaimOK(worker[v])'
      OBVIOUS
    <3>1. CASE v = w
      BY <1>3, <2>1, <3>1 DEF ClaimOK, Early, Late, Final
    <3>2. CASE v # w
      <4>1. Busy(v) /\ worker'[v] = worker[v] /\ ClaimOK(worker[v])
        BY <1>1, <2>2, <3>2 DEF OnlyMoves, LedgerInvariant
      <4> QED BY <2>3, <2>4, <3>2, <4>1 DEF ClaimOK, Early, Late, Final
    <3> QED BY <3>1, <3>2
  <2>8. HasSubtasks(task)
    BY <1>2 DEF Waiting, Unsettled, HasSubtasks
  <2>9. ParentPhase' /\ RowPhase'
    BY <1>1, <2>8 DEF LedgerInvariant, ParentPhase, RowPhase, Counted, StatusIn, HasSubtasks, Blank,
       IsSettled, Recorded
  <2> QED BY <2>5, <2>6, <2>7, <2>9 DEF LedgerInvariant
<1> QED BY <1>4, <1>5, Submits

\* What is recorded of the subtask id is replaced by st.
LEMMA WriteLedger ==
  ASSUME JobInvariant, LedgerInvariant, NEW w \in Worker, HasJob(w), WriteStatus(w)
  PROVE  /\ LedgerInvariant'
         /\ Unsettled(worker[w].msg.id)
         /\ task'.status = [task.status EXCEPT ![worker[w].msg.id] = worker[w].st]
         /\ task'.output.total = task.output.total
         /\ task.task_state = "PROGRESS" /\ task'.task_state \in {"PROGRESS", "SUCCESS"}
         /\ task'.task_state = "SUCCESS" <=> \A id \in DOMAIN task'.status : IsSettled(id)'
<1> DEFINE job == worker[w]
           q == worker'[w]
           id == job.msg.id
<1>1. /\ job.pc = "update" /\ OnlyMoves(w) /\ Busy(w) /\ IsUpdatable(task, id)
      /\ task' = UpdateSubtaskStatus(task, id, job.st)
      /\ q.pc = "release" /\ q.msg = job.msg /\ q.st = job.st
      /\ queue' = queue /\ parent' = parent
  BY Writes DEF WriteStatus, updateVars, Becomes, Busy, RejectWrite
<1>2. JobOK(job) /\ ClaimOK(job) /\ Claims(job)
  BY <1>1 DEF LedgerInvariant, JobInvariant, Claims, Early, Final
<1>3. Unsettled(id)
  BY <1>2 DEF Claims, ClaimOK, Open, Waiting
<1>4. /\ job.st \in SubtaskStatus /\ job.st.state \in {"RETRY", "SUCCESS", "FAILURE"}
      /\ Attempt(job.msg) \in Nat /\ RetryCount(job.st) \in Nat
      /\ job.st.state = "RETRY" => RetryCount(job.st) = Attempt(job.msg) + 1
  <2>1. job.st \in SubtaskStatus /\ Attempt(job.msg) \in Nat /\ RetryCount(job.st) \in Nat
    BY JobFields, RetryNumbers DEF HasJob, Attempt
  <2> QED BY <1>1, <1>2, <2>1 DEF JobOK, RetriesOK, Fresh, SubtaskStatus, Attempt
<1>5. IsTask(task, SubtaskId) /\ IsFiniteSet(SubtaskId) /\ id \in DOMAIN task.status
  <2>1. IsFiniteSet(Parent)
    BY ConstantsAssumption, FS_Interval DEF Parent
  <2>2. IsFiniteSet(1 .. Cardinality(Recipient))
    BY ConstantsAssumption, FS_CardinalityType, FS_Interval
  <2> QED BY <1>3, <2>1, <2>2, FS_Product DEF JobInvariant, TypeOK, Unsettled, SubtaskId
<1>6. /\ IsTask(task', SubtaskId)
      /\ DOMAIN task'.status = DOMAIN task.status
      /\ task'.status = [task.status EXCEPT ![id] = job.st]
      /\ task'.total = task.total
      /\ task'.output.kind = task.output.kind /\ task'.output.total = task.output.total
      /\ task'.task_state = IF task'.total - task'.succeeded - task'.failed <= 0
                            THEN "SUCCESS" ELSE task.task_state
  BY <1>1, <1>4, <1>5, UpdatedRow
<1>7. /\ task'.status[id] = job.st
      /\ \A o \in DOMAIN task.status : o # id => task'.status[o] = task.status[o]
      /\ Unsettled(id)' => job.st.state = "RETRY"
      /\ job.st.state = "RETRY" => Unsettled(id)'
  <2>1. /\ task'.status[id] = job.st
        /\ \A o \in DOMAIN task.status : o # id => task'.status[o] = task.status[o]
    BY <1>5, <1>6
  <2>2. Unsettled(id)' = (job.st.state \notin READY_STATES)
    BY <1>1, <1>5, <1>6, <2>1 DEF Unsettled, IsSettled
  <2> QED BY <1>4, <2>1, <2>2 DEF READY_STATES
<1>8. \A v \in Worker : Busy(v)' => Busy(v) /\ worker'[v].msg = worker[v].msg
  BY <1>1 DEF OnlyMoves, Busy
<1>9. ASSUME NEW m, m.id # id
      PROVE  (Open(m) => Open(m)') /\ (Waiting(m) => Waiting(m)')
  <2>1. /\ Unsettled(m.id) <=> Unsettled(m.id)'
        /\ Unsettled(m.id) => Recorded(m.id)' = Recorded(m.id) /\ task'.status[m.id] = task.status[m.id]
    BY <1>6, <1>7, <1>9 DEF Unsettled, IsSettled, Recorded
  <2> QED BY <1>1, <1>8, <2>1 DEF Open, Waiting, Attempt
<1>10. OneHand'
  BY <1>8 DEF LedgerInvariant, OneHand, Attempt
<1>11. /\ \A m \in queue : m.id = id => Attempt(m) \in Nat /\ Attempt(m) <= Recorded(id)
       /\ \A v \in Worker : Busy(v) /\ worker[v].msg.id = id =>
            Attempt(worker[v].msg) \in Nat /\ Attempt(worker[v].msg) <= Recorded(id)
  <2>1. \A m \in queue : Attempt(m) \in Nat
    BY RetryNumbers DEF JobInvariant, TypeOK, Message, Attempt
  <2>2. \A v \in Worker : Busy(v) => Attempt(worker[v].msg) \in Nat
    <3>1. \A v \in Worker : Busy(v) => JobTyped(worker[v])
      BY DEF JobInvariant, TypeOK, JobTyped, Busy, Idle
    <3> QED BY <3>1, JobFields, RetryNumbers DEF Attempt
  <2> QED BY <1>3, <2>1, <2>2 DEF LedgerInvariant, NoneAhead
<1>12. job.st.state = "RETRY" =>
         Recorded(id) = Attempt(job.msg) /\ Recorded(id)' = Attempt(job.msg) + 1
  BY <1>1, <1>2, <1>4, <1>7 DEF ClaimOK, Early, Open, Recorded
<1>13. ASSUME job.st.state = "RETRY"
       PROVE  /\ \A m \in queue : m.id = id => Attempt(m) < Recorded(id)'
              /\ \A v \in Worker : Busy(v) /\ worker[v].msg.id = id =>
                   Attempt(worker[v].msg) < Recorded(id)'
  BY <1>4, <1>11, <1>12, <1>13
<1>14. NoneAhead'
  <2> DEFINE Behind(m) == Unsettled(m.id) => Attempt(m) <= Recorded(m.id)
  <2>1. ASSUME NEW m, m.id # id, Behind(m) PROVE Behind(m)'
    BY <1>6, <1>7, <2>1 DEF Unsettled, IsSettled, Recorded, Attempt
  <2>2. ASSUME NEW m, m.id = id, Unsettled(id)' => Attempt(m) < Recorded(id)', Attempt(m) \in Nat
        PROVE  Behind(m)'
    <3>1. ASSUME Unsettled(id)' PROVE Attempt(m) <= Recorded(id)'
      <4>1. Attempt(m) < Recorded(id)' /\ Recorded(id)' \in Nat
        BY <1>4, <1>7, <1>12, <2>2, <3>1
      <4> QED BY <2>2, <4>1
    <3> QED BY <1>1, <2>2, <3>1 DEF Attempt
  <2>3. \A m \in queue : Behind(m)'
    BY <1>7, <1>11, <1>13, <2>1, <2>2 DEF LedgerInvariant, NoneAhead
  <2>4. \A v \in Worker : Busy(v) => Behind(worker[v].msg)
    BY DEF LedgerInvariant, NoneAhead
  <2> HIDE DEF Behind
  <2>5. ASSUME NEW v \in Worker, NEW m, Busy(v), m = worker[v].msg PROVE Behind(m)'
    BY <1>7, <1>11, <1>13, <2>1, <2>2, <2>4, <2>5
  <2> USE DEF Behind
  <2>6. ASSUME NEW v \in Worker, NEW m, Busy(v)', m = worker'[v].msg PROVE Behind(m)'
    <3>1. Busy(v) /\ m = worker[v].msg
      BY <1>8, <2>6
    <3> QED BY <2>5, <3>1
  <2>7. /\ \A m \in queue' : Unsettled(m.id)' => Attempt(m)' <= Recorded(m.id)'
        /\ \A v \in Worker : Busy(v)' => \A m : m = worker'[v].msg =>
             (Unsettled(m.id)' => Attempt(m)' <= Recorded(m.id)')
    BY <1>1, <2>3, <2>6
  <2> QED BY <2>7 DEF NoneAhead, Unsettled, IsSettled, Recorded, Attempt
<1>15. \A v \in Worker : Busy(v)' => ClaimOK(worker[v])'
  <2> SUFFICES ASSUME NEW v \in Worker, Busy(v)' PROVE ClaimOK(worker[v])'
    OBVIOUS
  <2>1. CASE v = w
    <3>1. job.st.state = "RETRY" => Waiting(job.msg)'
      <4>1. ASSUME job.st.state = "RETRY" PROVE Waiting(job.msg)'
        <5>1. /\ Unsettled(id)' /\ task'.status[id].state = "RETRY"
              /\ Recorded(id)' = Attempt(job.msg) + 1
          BY <1>7, <1>12, <4>1
        <5>2. \A m \in queue : m.id = id => Attempt(m) # Attempt(job.msg) + 1
          BY <1>4, <1>11, <1>13, <4>1, <5>1
        <5>3. \A u \in Worker : Busy(u) /\ worker[u].msg.id = id =>
                Attempt(worker[u].msg) # Attempt(job.msg) + 1
          BY <1>4, <1>11, <1>13, <4>1, <5>1
        <5> QED BY <1>1, <1>8, <5>1, <5>2, <5>3 DEF Waiting, Attempt
      <4> QED BY <4>1
    <3> QED BY <1>1, <2>1, <3>1 DEF ClaimOK, Early, Late, Final
  <2>2. CASE v # w
    <3>1. Busy(v) /\ worker'[v] = worker[v] /\ ClaimOK(worker[v])
      BY <1>1, <1>8, <2>2 DEF OnlyMoves, LedgerInvariant
    <3>2. Claims(worker[v]) => worker[v].msg.id # id
      <4>1. JobTyped(worker[v])
        BY <3>1 DEF JobInvariant, TypeOK, JobTyped, Busy, Idle
      <4> QED BY <1>2, <2>2, <3>1, <4>1, SoleClaim DEF HasJob, LedgerInvariant
    <3> QED BY <1>9, <3>1, <3>2 DEF ClaimOK, Claims, Early, Late, Final
  <2> QED BY <2>1, <2>2
<1>16. Counted(task')
  <2>1. task.status[id].state \notin READY_STATES
    BY <1>3 DEF Unsettled, IsSettled
  <2> QED BY <1>1, <1>4, <1>5, <2>1, CountsUpdated DEF LedgerInvariant, RowPhase
<1>17. HasSubtasks(task) /\ HasSubtasks(task)' /\ task.task_state = "PROGRESS"
  <2>1. HasSubtasks(task) /\ HasSubtasks(task)'
    BY <1>5, <1>6 DEF HasSubtasks
  <2> QED BY <1>3, <2>1 DEF LedgerInvariant, RowPhase, Unsettled
<1>18. task'.total = Cardinality(DOMAIN task'.status)
  BY <1>6, <1>17 DEF LedgerInvariant, RowPhase
<1>19. /\ task'.task_state = "SUCCESS" <=> \A o \in DOMAIN task'.status : IsSettled(o)'
       /\ task'.task_state \in {"PROGRESS", "SUCCESS"}
  <2>1. task'.total - task'.succeeded - task'.failed <= 0
          <=> \A o \in DOMAIN task'.status : task'.status[o].state \in READY_STATES
    BY <1>5, <1>6, <1>16, <1>18, AllOver
  <2> QED BY <1>6, <1>17, <2>1 DEF IsSettled
<1>20. RowPhase'
  <2>1. \A o \in DOMAIN task'.status : task'.status[o].state = "QUEUING" => Recorded(o)' = 0
    BY <1>4, <1>6, <1>7 DEF LedgerInvariant, RowPhase, Recorded
  <2>2. task'.output.kind = "progress"
    BY <1>6, <1>17 DEF LedgerInvariant, RowPhase
  <2> QED BY <1>16, <1>17, <1>18, <1>19, <2>1, <2>2 DEF RowPhase, Counted, StatusIn
<1>21. ParentPhase'
  <2>1. parent[1].pc \in Defined \cup {"done"}
    BY <1>17 DEF LedgerInvariant, ParentPhase, Blank
  <2> QED BY <1>1, <1>17, <2>1 DEF LedgerInvariant, ParentPhase, Defined
<1> QED BY <1>3, <1>6, <1>10, <1>14, <1>15, <1>17, <1>19, <1>20, <1>21 DEF LedgerInvariant

\* No handler reports a second result in a step after which none has.
LEMMA NothingSecond ==
  ASSUME events \in [Events -> Nat], EventsGoOn, NoSecondResult'
  PROVE  NoSecondResult /\ ~Event("close") /\ ~Event("broker")
<1>1. NoSecondResult
  BY HappenedStays DEF NoSecondResult
<1>2. ASSUME NEW e \in {"close", "broker"}, Event(e) PROVE FALSE
  <2>1. e \in Events /\ events'[e] > 0
    BY <1>2, EventCounted
  <2> QED BY <2>1 DEF NoSecondResult, Happened
<1> QED BY <1>1, <1>2

LEMMA WorkerLedger ==
  ASSUME ~OverlapTasks, JobInvariant, LedgerInvariant, NEW w \in Worker, WorkerNext(w),
         ~Event("close")
  PROVE  LedgerInvariant'
<1>1. /\ IsTask(task, SubtaskId) /\ queue \subseteq Message /\ WorkersTyped
      /\ events \in [Events -> Nat]
  BY TypeParts DEF JobInvariant
<1>2. /\ DOMAIN worker = Worker
      /\ \A v \in Worker : worker[v] = Idle \/ JobTyped(worker[v])
      /\ \A v \in Worker : Busy(v) <=> JobTyped(worker[v])
  BY <1>1, JobFields DEF WorkersTyped, Busy, Idle
<1>3. CASE ~Busy(w)
  <2>1. Receive(w)
    BY <1>3 DEF WorkerNext, Busy, CheckSubtask, AcquireLock, Prepare, SendEmail, RefuseEmail,
         ThrottleEmail, DropConnection, AbortSending, FinishSending, Sending, CloseConnection,
         WriteStatus, RejectWrite, FailWrite, ReleaseLock, SubmitRetry
  <2> QED BY <2>1, ReceiveLedger
<1>4. CASE CheckSubtask(w) /\ Busy(w)
  BY <1>2, <1>4, CheckLedger DEF HasJob
<1>5. CASE SubmitRetry(w) /\ Busy(w)
  BY <1>2, <1>5, SubmitLedger DEF HasJob
<1>6. CASE WriteStatus(w) /\ Busy(w)
  BY <1>2, <1>6, WriteLedger DEF HasJob
<1>7. CASE Busy(w) /\ ~CheckSubtask(w) /\ ~SubmitRetry(w) /\ ~WriteStatus(w)
  <2>1. HasJob(w) /\ ClaimOK(worker[w]) /\ JobOK(worker[w])
    BY <1>2, <1>7 DEF HasJob, LedgerInvariant, JobInvariant
  <2>2. JobGoesOn(w)
    BY <2>1, BusyGoesOn DEF JobInvariant
  <2>3. /\ OnlyMoves(w)
        /\ worker'[w] = Idle \/ (JobTyped(worker'[w]) /\ worker'[w].msg = worker[w].msg)
    BY <2>2 DEF JobGoesOn
  <2>4. task' = task /\ queue' = queue /\ parent' = parent
    BY <1>7 DEF WorkerNext, Busy, Receive, AcquireLock, Prepare, SendEmail, RefuseEmail,
       ThrottleEmail, DropConnection, AbortSending, FinishSending, CloseConnection,
       RejectWrite, FailWrite, ReleaseLock, sendVars, updateVars
  <2>5. CASE worker'[w] = Idle
    BY <1>7, <2>3, <2>4, <2>5, QuietStep
  <2>6. CASE worker'[w] # Idle
    <3>1. /\ Early(worker'[w]) => Early(worker[w])
          /\ Late(worker'[w]) => Late(worker[w])
          /\ Final(worker'[w]) => Claims(worker[w])
      BY <1>7, <2>1, <2>6, StagesGoOn
    <3>2. worker'[w].msg = worker[w].msg /\ worker'[w].pc # "idle"
      BY <2>3, <2>6, JobFields
    <3>3. /\ Early(worker'[w]) => Open(worker[w].msg)
          /\ Late(worker'[w]) => Waiting(worker[w].msg)
          /\ Final(worker'[w]) => Open(worker[w].msg) \/ Waiting(worker[w].msg)
      BY <2>1, <3>1 DEF ClaimOK, Claims
    <3> QED BY <1>7, <2>3, <2>4, <3>2, <3>3, QuietStep
  <2> QED BY <2>5, <2>6
<1> QED BY <1>3, <1>4, <1>5, <1>6, <1>7

\* Only the parent moves, or a lock or a list of users changes.
LEMMA ParentMoves ==
  ASSUME LedgerInvariant, UNCHANGED <<task, queue, worker>>, ParentPhase'
  PROVE  LedgerInvariant'
<1>1. \A m : (Open(m) <=> Open(m)') /\ (Waiting(m) <=> Waiting(m)')
  BY DEF Open, Waiting, Unsettled, IsSettled, Recorded, Attempt, Busy
<1>2. OneHand' /\ NoneAhead'
  BY DEF LedgerInvariant, OneHand, NoneAhead, Unsettled, IsSettled, Recorded, Attempt, Busy
<1>3. \A w \in Worker : Busy(w)' => ClaimOK(worker[w])'
  BY <1>1 DEF LedgerInvariant, ClaimOK, Busy, Early, Late, Final
<1>4. RowPhase'
  BY DEF LedgerInvariant, RowPhase, Counted, StatusIn, HasSubtasks, IsSettled, Recorded, Busy
<1> QED BY <1>2, <1>3, <1>4 DEF LedgerInvariant

\* Before the subtasks are defined nothing else can be wrong.
LEMMA BeforeSubtasks ==
  ASSUME LedgerInvariant, ~HasSubtasks(task), UNCHANGED <<queue, worker>>, ParentPhase', RowPhase'
  PROVE  LedgerInvariant'
<1>1. queue' = {} /\ \A w \in Worker : ~Busy(w)'
  BY DEF LedgerInvariant, RowPhase, Busy
<1> QED BY <1>1 DEF LedgerInvariant, OneHand, NoneAhead

LEMMA BlankRow ==
  ASSUME NEW row, IsTask(row, SubtaskId), Blank(row),
         NEW state \in {"QUEUING", "PROGRESS", "SUCCESS", "FAILURE"}, NEW o
  PROVE  /\ Blank([row EXCEPT !.task_state = state])
         /\ [row EXCEPT !.task_state = state].task_state = state
         /\ Blank([row EXCEPT !.output = o, !.task_state = state])
         /\ [row EXCEPT !.output = o, !.task_state = state].task_state = state
         /\ Counted(row)
<1>1. row \in RowOver(DOMAIN row.status)
  BY TaskIsRow
<1>2. /\ Blank([row EXCEPT !.task_state = state])
      /\ [row EXCEPT !.task_state = state].task_state = state
  BY <1>1 DEF RowOver, Blank, HasSubtasks
<1>3. /\ Blank([row EXCEPT !.output = o, !.task_state = state])
      /\ [row EXCEPT !.output = o, !.task_state = state].task_state = state
  BY <1>1 DEF RowOver, Blank, HasSubtasks
<1>4. Counted(row)
  <2>1. \A s : StatusIn(row, s) = {}
    BY DEF Blank, HasSubtasks, StatusIn
  <2> QED BY <2>1, FS_EmptySet DEF Counted, Blank
<1> QED BY <1>2, <1>3, <1>4

\* While the row is blank there is nothing to be wrong with it.
LEMMA BlankPhase ==
  ASSUME LedgerInvariant, Blank(task), UNCHANGED <<queue, worker>>,
         IsTask(task', SubtaskId), Blank(task'), task'.task_state # "SUCCESS", ParentPhase'
  PROVE  LedgerInvariant'
<1>1. queue' = {} /\ (\A w \in Worker : ~Busy(w)') /\ DOMAIN task'.status = {}
  BY DEF LedgerInvariant, RowPhase, Busy, Blank, HasSubtasks
<1>2. Counted(task')
  BY BlankRow
<1>3. RowPhase'
  BY <1>1, <1>2 DEF RowPhase, HasSubtasks, Counted, StatusIn
<1> QED BY <1>1, <1>3 DEF LedgerInvariant, OneHand, NoneAhead

\* What initialize_subtask_info writes: nothing is settled, nothing counted.
LEMMA DefinedRow ==
  ASSUME NEW p \in Parent, parent[p].total \in 0 .. Cardinality(Recipient), parent[p].total # 0,
         IsTask(parent[p].row, SubtaskId),
         task' = InitializeSubtaskInfo(parent[p].row, parent[p].total, SubtaskIds(p))
  PROVE  /\ HasSubtasks(task') /\ Counted(task')
         /\ task'.status = [id \in SubtaskIds(p) |-> NewStatus]
         /\ SubtaskIds(p) \in (SUBSET SubtaskId) \ {{}}
         /\ task'.total = Cardinality(DOMAIN task'.status)
         /\ task'.output.kind = "progress" /\ task'.task_state = "PROGRESS"
         /\ task'.output.total = parent[p].total
<1>1. SubtaskIds(p) \subseteq SubtaskId /\ IsFiniteSet(SubtaskIds(p)) /\ SubtaskIds(p) # {}
  BY IdsTyped
<1>2. parent[p].total \in Nat
  BY ConstantsAssumption, FS_CardinalityType
<1>3. /\ task'.status = [id \in SubtaskIds(p) |-> NewStatus] /\ DOMAIN task'.status = SubtaskIds(p)
      /\ task'.total = Cardinality(SubtaskIds(p)) /\ task'.succeeded = 0 /\ task'.failed = 0
      /\ task'.output.kind = "progress" /\ task'.task_state = "PROGRESS"
      /\ task'.output.total = parent[p].total
  <2>1. parent[p].row \in RowOver(DOMAIN parent[p].row.status)
    BY TaskIsRow
  <2> QED BY <2>1 DEF InitializeSubtaskInfo, RowOver, NoOutput
<1>4. StatusIn(task', "SUCCESS") = {} /\ StatusIn(task', "FAILURE") = {}
  BY <1>3 DEF StatusIn, NewStatus
<1>5. Counted(task')
  BY <1>3, <1>4, FS_EmptySet DEF Counted
<1> QED BY <1>1, <1>3, <1>5 DEF HasSubtasks

\* The message of a first attempt appears.
LEMMA FirstAttempts ==
  ASSUME LedgerInvariant, HasSubtasks(task), IsTask(task, SubtaskId), WorkersTyped,
         UNCHANGED <<task, worker>>, NEW m, m.st = NewStatus,
         queue' = queue \cup {m}, ParentPhase'
  PROVE  LedgerInvariant'
<1>1. Attempt(m) = 0
  BY DEF Attempt, RetryCount, NewStatus
<1>2. \A n : Open(n) => Open(n)'
  BY DEF Open, Unsettled, IsSettled, Recorded, Attempt
<1>3. ASSUME NEW w \in Worker, Busy(w), Waiting(worker[w].msg) PROVE Waiting(worker[w].msg)'
  <2>1. JobTyped(worker[w])
    BY <1>3 DEF WorkersTyped, Busy, Idle
  <2>2. Attempt(worker[w].msg) \in Nat
    BY <2>1, JobFields, RetryNumbers DEF Attempt
  <2>3. Attempt(m) # Attempt(worker[w].msg) + 1
    BY <1>1, <2>2
  <2> QED BY <1>3, <2>3 DEF Waiting, Unsettled, IsSettled, Recorded, Attempt, Busy
<1>4. OneHand'
  BY DEF LedgerInvariant, OneHand, Attempt, Busy
<1>5. NoneAhead'
  <2>1. ASSUME Unsettled(m.id) PROVE Attempt(m) <= Recorded(m.id)
    <3>1. task.status[m.id] \in SubtaskStatus
      BY <2>1, TaskIsRow DEF RowOver, Unsettled
    <3>2. Recorded(m.id) \in Nat
      BY <3>1, RetryNumbers DEF Recorded
    <3> QED BY <1>1, <3>2
  <2> QED BY <2>1 DEF LedgerInvariant, NoneAhead, Unsettled, IsSettled, Recorded, Attempt, Busy
<1>6. \A w \in Worker : Busy(w)' => ClaimOK(worker[w])'
  BY <1>2, <1>3 DEF LedgerInvariant, ClaimOK, Early, Late, Final, Busy
<1>7. RowPhase'
  BY DEF LedgerInvariant, RowPhase, Counted, StatusIn, HasSubtasks, IsSettled, Recorded, Busy
<1> QED BY <1>4, <1>5, <1>6, <1>7 DEF LedgerInvariant

\* The steps of the only run of the parent, without a word of the broker's.
LEMMA ParentLedger ==
  ASSUME "redeliver" \notin Events, JobInvariant, LedgerInvariant,
         NEW p \in Parent, ParentNext(p), ~Event("broker")
  PROVE  LedgerInvariant' /\ p = 1
<1>1. /\ IsTask(task, SubtaskId) /\ ParentsTyped /\ enrolled \subseteq Recipient
      /\ RunOK(parent[p]) /\ IsTask(parent[p].row, SubtaskId) /\ IsTask(task', SubtaskId)
      /\ WorkersTyped
  <2>1. IsTask(task, SubtaskId) /\ ParentsTyped /\ WorkersTyped /\ enrolled \subseteq Recipient
        /\ RunOK(parent[p])
    BY TypeParts DEF JobInvariant
  <2>2. IsTask(task', SubtaskId)
    BY ParentStepOK, TypeParts DEF JobInvariant, TypeOK
  <2> QED BY <2>1, <2>2 DEF ParentsTyped
<1>2. worker' = worker
  BY ParentLeavesAlone DEF parentVars, JobInvariant, TypeOK
<1>3. p = 1
  <2>1. ~ReadTask(p) \/ p = 1
    BY DEF ReadTask, Event
  <2>2. ~ReadTask(p) => parent[p].pc # "idle"
    BY DEF ParentNext, MarkProgress, ParentStep, Delegate, CountRecipients, DefineSubtasks,
       GenerateChunks, QueueSubtask, QueuedAll, OnSuccess, OnFailure, SaveEnd
  <2> QED BY <2>1, <2>2 DEF LedgerInvariant, ParentPhase
<1>4. ASSUME NEW pc, NEW row, NEW total, NEW next, NEW chunks, NEW progress,
             RunBecomes(p, pc, row, total, next, chunks, progress)
      PROVE  /\ parent'[1].pc = pc /\ parent'[1].row = row /\ parent'[1].total = total
             /\ \A q \in Parent \ {1} : parent'[q].pc = "idle"
  BY <1>3, <1>4 DEF RunBecomes, LedgerInvariant, ParentPhase
<1>5. parent[1].pc \notin Defined \cup {"done"} =>
        /\ Blank(task) /\ task.task_state \in {"QUEUING", "PROGRESS"}
        /\ parent[1].pc # "succeed"
        /\ parent[1].pc # "idle" => Blank(parent[1].row)
        /\ parent[1].pc \notin {"idle", "start"} => task.task_state = "PROGRESS"
  BY DEF LedgerInvariant, ParentPhase
<1>6. CASE ReadTask(p)
  <2>1. parent[1].pc = "idle" /\ parent'[1].pc = "start" /\ parent'[1].row = task
    BY <1>1, <1>3, <1>4, <1>6, ParentReads
  <2>2. task' = task /\ queue' = queue
    BY <1>6 DEF ReadTask
  <2>3. \A q \in Parent \ {1} : parent'[q].pc = "idle"
    BY <1>1, <1>4, <1>6, ParentReads
  <2>4. Blank(task)' /\ task'.task_state \in {"QUEUING", "PROGRESS"}
    BY <1>5, <2>1, <2>2 DEF Defined, Blank, HasSubtasks
  <2>5. ParentPhase'
    BY <2>1, <2>2, <2>3, <2>4 DEF ParentPhase, Defined, Blank, HasSubtasks
  <2> QED BY <1>2, <1>3, <2>2, <2>5, ParentMoves
<1>7. CASE MarkProgress(p)
  <2>1. /\ parent[1].pc = "start" /\ parent'[1].pc = "delegate" /\ parent'[1].row = parent[1].row
        /\ \A q \in Parent \ {1} : parent'[q].pc = "idle"
        /\ task' = [parent[1].row EXCEPT !.task_state = "PROGRESS"]
    BY <1>1, <1>3, <1>4, <1>7, ParentMarks
  <2>2. queue' = queue
    BY <1>7 DEF MarkProgress
  <2>3. Blank(task) /\ Blank(parent[1].row)
    BY <1>5, <2>1 DEF Defined
  <2>4. Blank(task') /\ task'.task_state = "PROGRESS"
    BY <1>1, <1>3, <2>1, <2>3, BlankRow
  <2>5. ParentPhase'
    BY <2>1, <2>3, <2>4 DEF ParentPhase, Defined, Blank, HasSubtasks
  <2> QED BY <1>1, <1>2, <1>3, <2>2, <2>3, <2>4, <2>5, BlankPhase
<1>8. CASE Delegate(p)
  <2>1. parent[1].pc = "delegate"
    BY <1>3, <1>8 DEF Delegate
  <2>2. Blank(task) /\ task.task_state = "PROGRESS"
    BY <1>5, <2>1 DEF Defined
  <2>3. /\ parent'[1].pc = "count" /\ parent'[1].row = task
        /\ \A q \in Parent \ {1} : parent'[q].pc = "idle"
    BY <1>1, <1>3, <1>4, <1>8, <2>2, ParentDelegates DEF Blank
  <2>4. task' = task /\ queue' = queue
    BY <1>8 DEF Delegate
  <2>5. ParentPhase'
    BY <2>2, <2>3, <2>4 DEF ParentPhase, Defined, Blank, HasSubtasks
  <2> QED BY <1>2, <1>3, <2>4, <2>5, ParentMoves
<1>9. CASE CountRecipients(p)
  <2>1. /\ parent[1].pc = "count" /\ parent'[1].pc \in {"fail", "define"}
        /\ parent'[1].row = parent[1].row
        /\ parent'[1].pc = "define" => parent'[1].total # 0
        /\ \A q \in Parent \ {1} : parent'[q].pc = "idle"
    BY <1>1, <1>3, <1>4, <1>9, ParentCounts
  <2>2. Blank(task) /\ Blank(parent[1].row) /\ task.task_state = "PROGRESS"
    BY <1>5, <2>1 DEF Defined
  <2>3. task' = task /\ queue' = queue
    BY <1>9 DEF CountRecipients
  <2>4. ParentPhase'
    BY <2>1, <2>2, <2>3 DEF ParentPhase, Defined, Blank, HasSubtasks
  <2> QED BY <1>2, <1>3, <2>3, <2>4, ParentMoves
<1>10. CASE DefineSubtasks(p)
  <2>1. /\ parent[1].pc = "define" /\ parent'[1].pc = "generate"
        /\ \A q \in Parent \ {1} : parent'[q].pc = "idle"
        /\ task' = InitializeSubtaskInfo(parent[p].row, parent[p].total, SubtaskIds(p))
    BY <1>1, <1>3, <1>4, <1>10, ParentDefines
  <2>2. queue' = queue
    BY <1>10 DEF DefineSubtasks
  <2>3. ~HasSubtasks(task) /\ parent[1].total # 0
    BY <1>5, <2>1 DEF Defined, Blank, LedgerInvariant, ParentPhase
  <2>4. /\ HasSubtasks(task') /\ Counted(task')
        /\ task'.status = [id \in SubtaskIds(p) |-> NewStatus]
        /\ task'.total = Cardinality(DOMAIN task'.status)
        /\ task'.output.kind = "progress" /\ task'.task_state = "PROGRESS"
    BY <1>1, <1>3, <2>1, <2>3, DefinedRow DEF RunOK
  <2>5. \A id \in DOMAIN task'.status : RetryCount(task'.status[id]) = 0
    BY <2>4 DEF RetryCount, NewStatus
  <2>6. RowPhase'
    BY <2>4, <2>5 DEF RowPhase, HasSubtasks, Counted, StatusIn, Recorded
  <2>7. ParentPhase'
    BY <2>1, <2>4 DEF ParentPhase, Defined, HasSubtasks
  <2> QED BY <1>2, <1>3, <2>2, <2>3, <2>6, <2>7, BeforeSubtasks
<1>11. CASE GenerateChunks(p)
  <2>1. /\ parent[1].pc = "generate" /\ parent'[1].pc = "queue"
        /\ \A q \in Parent \ {1} : parent'[q].pc = "idle"
    BY <1>1, <1>3, <1>4, <1>11, ParentGenerates
  <2>2. HasSubtasks(task)
    BY <2>1 DEF LedgerInvariant, ParentPhase, Defined
  <2>3. task' = task /\ queue' = queue
    BY <1>11 DEF GenerateChunks
  <2>4. ParentPhase'
    BY <2>1, <2>2, <2>3 DEF ParentPhase, Defined, HasSubtasks
  <2> QED BY <1>2, <1>3, <2>3, <2>4, ParentMoves
<1>12. CASE QueueSubtask(p)
  <2>1. PICK m : /\ parent[1].pc = "queue" /\ m.st = NewStatus /\ queue' = queue \cup {m}
                 /\ parent'[1].pc = "queue" /\ \A q \in Parent \ {1} : parent'[q].pc = "idle"
    BY <1>1, <1>3, <1>4, <1>12, ParentQueues
  <2>2. HasSubtasks(task) /\ task' = task
    BY <1>12, <2>1 DEF LedgerInvariant, ParentPhase, Defined, QueueSubtask
  <2>3. ParentPhase'
    BY <2>1, <2>2 DEF ParentPhase, Defined, HasSubtasks
  <2> QED BY <1>1, <1>2, <1>3, <2>1, <2>2, <2>3, FirstAttempts
<1>13. CASE QueuedAll(p) \/ OnSuccess(p)
  <2>1. /\ parent[1].pc \in {"queue", "finish"} /\ task' = task /\ queue' = queue
    BY <1>3, <1>13 DEF QueuedAll, OnSuccess, ParentStep
  <2>2. HasSubtasks(task)
    BY <2>1 DEF LedgerInvariant, ParentPhase, Defined
  <2>3. /\ parent'[1].pc \in {"finish", "done"}
        /\ \A q \in Parent \ {1} : parent'[q].pc = "idle"
    BY <1>1, <1>3, <1>4, <1>13, <2>1, <2>2, ParentEnds
  <2>4. ParentPhase'
    BY <2>1, <2>2, <2>3 DEF ParentPhase, Defined, HasSubtasks
  <2> QED BY <1>2, <1>3, <2>1, <2>4, ParentMoves
<1>14. CASE OnFailure(p)
  <2>1. parent[1].pc = "fail" /\ task' = task /\ queue' = queue
    BY <1>3, <1>14 DEF OnFailure
  <2>2. /\ parent'[1].pc = "failed" /\ parent'[1].row = task
        /\ \A q \in Parent \ {1} : parent'[q].pc = "idle"
    BY <1>1, <1>3, <1>4, <1>14, <2>1, ParentEnds
  <2>3. Blank(task) /\ task.task_state = "PROGRESS"
    BY <1>5, <2>1 DEF Defined
  <2>4. ParentPhase'
    BY <2>1, <2>2, <2>3 DEF ParentPhase, Defined, Blank, HasSubtasks
  <2> QED BY <1>2, <1>3, <2>1, <2>4, ParentMoves
<1>15. CASE SaveEnd(p)
  <2>1. /\ parent[1].pc \in {"succeed", "failed"} /\ parent'[1].pc = "done"
        /\ \A q \in Parent \ {1} : parent'[q].pc = "idle"
        /\ task' = Ended(parent[1])
    BY <1>1, <1>3, <1>4, <1>15, ParentSaves
  <2>2. queue' = queue
    BY <1>15 DEF SaveEnd
  <2>3. parent[1].pc = "failed" /\ Blank(task) /\ Blank(parent[1].row)
    BY <1>5, <2>1 DEF Defined
  <2>4. Blank(task') /\ task'.task_state = "FAILURE"
    <3> DEFINE row == parent[1].row
    <3>1. task' = [row EXCEPT !.output = FailureOutput, !.task_state = "FAILURE"]
      BY <2>1, <2>3 DEF Ended
    <3>2. IsTask(row, SubtaskId) /\ Blank(row)
      BY <1>1, <1>3, <2>3
    <3>3. row \in RowOver(DOMAIN row.status)
      BY <3>2, TaskIsRow
    <3> HIDE DEF row
    <3> QED BY <3>1, <3>2, <3>3 DEF RowOver, Blank, HasSubtasks
  <2>5. ParentPhase'
    BY <2>1 DEF ParentPhase, Defined
  <2> QED BY <1>1, <1>2, <1>3, <2>2, <2>3, <2>4, <2>5, BlankPhase
<1> QED BY <1>6, <1>7, <1>8, <1>9, <1>10, <1>11, <1>12, <1>13, <1>14, <1>15 DEF ParentNext

LEMMA SurroundingsLedger ==
  ASSUME JobInvariant, LedgerInvariant,
         \/ \E p \in Parent : CrashParent(p)
         \/ \E w \in Worker : CrashWorker(w)
         \/ \E id \in SubtaskId : ExpireLock(id)
         \/ ChangeUsers
         \/ UNCHANGED vars
  PROVE  LedgerInvariant'
<1>1. WorkersTyped /\ ParentsTyped
  BY TypeParts DEF JobInvariant
<1>2. CASE \E p \in Parent : CrashParent(p)
  <2>1. PICK p \in Parent : CrashParent(p)
    BY <1>2
  <2>2. p = 1
    BY <2>1 DEF CrashParent, LedgerInvariant, ParentPhase
  <2>3. RunBecomes(p, "done", parent[p].row, parent[p].total, parent[p].next,
                   parent[p].chunks, parent[p].progress)
    BY <1>1, <2>1, RunMoves DEF CrashParent, RunPcs
  <2>4. ParentPhase'
    BY <2>2, <2>3 DEF RunBecomes, LedgerInvariant, ParentPhase, Defined
  <2> QED BY <2>1, <2>4, ParentMoves DEF CrashParent
<1>3. CASE \E w \in Worker : CrashWorker(w)
  <2>1. PICK w \in Worker : CrashWorker(w)
    BY <1>3
  <2>2. OnlyMoves(w) /\ worker'[w] = Idle /\ Busy(w)
    BY <1>1, <2>1, Stops DEF CrashWorker, WorkersTyped
  <2>3. task' = task /\ queue' \subseteq queue /\ parent' = parent
    BY <2>1 DEF CrashWorker
  <2> QED BY <2>2, <2>3, QuietStep
<1>4. CASE \/ \E id \in SubtaskId : ExpireLock(id)
           \/ ChangeUsers
           \/ UNCHANGED vars
  <2>1. UNCHANGED <<task, queue, worker, parent>>
    BY <1>4 DEF ExpireLock, ChangeUsers, vars
  <2>2. ParentPhase'
    BY <2>1 DEF LedgerInvariant, ParentPhase, Defined, Blank, HasSubtasks
  <2> QED BY <2>1, <2>2, ParentMoves
<1> QED BY <1>2, <1>3, <1>4

LEMMA LedgerInit == Init => LedgerInvariant
<1> SUFFICES ASSUME Init PROVE LedgerInvariant
  OBVIOUS
<1>1. /\ task = NewTask /\ queue = {} /\ \A w \in Worker : ~Busy(w)
      /\ \A p \in Parent : parent[p] = NewParent
  BY DEF Init, Busy, Idle
<1>2. IsTask(task, SubtaskId) /\ Blank(task) /\ task.task_state = "QUEUING"
      /\ DOMAIN task.status = {}
  BY <1>1, NewTaskTyped DEF Blank, HasSubtasks, NewTask
<1>3. Counted(task)
  BY <1>2, BlankRow
<1>4. 1 \in Parent
  BY ConstantsAssumption DEF Parent
<1>5. ParentPhase
  BY <1>1, <1>2, <1>4 DEF ParentPhase, NewParent, Defined
<1>6. RowPhase
  BY <1>1, <1>2, <1>3 DEF RowPhase, HasSubtasks
<1> QED BY <1>1, <1>5, <1>6 DEF LedgerInvariant, OneHand, NoneAhead

\* celery delivers the message of the parent once, and a duplicate of a subtask's
\* message only after the worker that has the original is done with it or dead.
OneAtATime == ~OverlapTasks /\ "redeliver" \notin Events

LEMMA LedgerStep ==
  ASSUME OneAtATime, JobInvariant, LedgerInvariant, [Next]_vars, NoSecondResult'
  PROVE  LedgerInvariant'
<1>1. events \in [Events -> Nat]
  BY TypeParts DEF JobInvariant
<1>2. CASE \E w \in Worker : WorkerNext(w)
  <2>1. PICK w \in Worker : WorkerNext(w)
    BY <1>2
  <2>2. ~Event("close")
    BY <1>1, <2>1, WorkerLeavesAlone, NothingSecond
  <2> QED BY <2>1, <2>2, WorkerLedger DEF OneAtATime
<1>3. CASE \E p \in Parent : ParentNext(p)
  <2>1. PICK p \in Parent : ParentNext(p)
    BY <1>3
  <2>2. ~Event("broker")
    BY <1>1, <2>1, ParentLeavesAlone, NothingSecond
  <2> QED BY <2>1, <2>2, ParentLedger DEF OneAtATime
<1> QED BY <1>2, <1>3, SurroundingsLedger DEF Next

LEMMA EventsOnlyGrow ==
  ASSUME JobInvariant, [Next]_vars
  PROVE  events \in [Events -> Nat] /\ EventsGoOn
<1>1. events \in [Events -> Nat]
  BY TypeParts DEF JobInvariant
<1>2. CASE \E w \in Worker : WorkerNext(w)
  BY <1>1, <1>2, WorkerLeavesAlone
<1>3. CASE \E p \in Parent : ParentNext(p)
  BY <1>1, <1>3, ParentLeavesAlone
<1>4. CASE \E e : Event(e)
  BY <1>1, <1>4, EventCounted
<1>5. CASE UNCHANGED vars
  BY <1>1, <1>5, NothingCounted DEF vars, NoEvent
<1> QED BY <1>1, <1>2, <1>3, <1>4, <1>5
        DEF Next, CrashParent, CrashWorker, ExpireLock, ChangeUsers

LEMMA LedgerNext ==
  OneAtATime /\ JobInvariant /\ (NoSecondResult => LedgerInvariant) /\ [Next]_vars
    => (NoSecondResult => LedgerInvariant)'
<1>1. ASSUME OneAtATime, JobInvariant, NoSecondResult => LedgerInvariant, [Next]_vars, NoSecondResult'
      PROVE  LedgerInvariant'
  <2>1. LedgerInvariant
    BY <1>1, EventsOnlyGrow, NothingSecond
  <2> QED BY <1>1, <2>1, LedgerStep
<1> QED BY <1>1

THEOREM LedgerIsKept ==
  ASSUME OneAtATime
  PROVE  Spec => [](NoSecondResult => LedgerInvariant)
<1>1. Init => (NoSecondResult => LedgerInvariant)
  BY LedgerInit
<1>2. JobInvariant /\ (NoSecondResult => LedgerInvariant) /\ [Next]_vars
        => (NoSecondResult => LedgerInvariant)'
  BY LedgerNext
<1> QED BY <1>1, <1>2, JobsAgree, PTL DEF Spec

\* The two counters of finished subtasks are what a scan of the dict would find,
\* whatever is delivered twice, dies or times out.
THEOREM CountersAreRight ==
  ASSUME OneAtATime
  PROVE  Spec => []LedgerCounts
<1>1. (NoSecondResult => LedgerInvariant) => LedgerCounts
  BY DEF LedgerInvariant, RowPhase, Counted, StatusIn, InState, LedgerCounts
<1> QED BY <1>1, LedgerIsKept, PTL

\* The job is marked SUCCESS only when every one of its subtasks is over.
THEOREM SuccessMeansSettled ==
  ASSUME OneAtATime
  PROVE  Spec => []DoneMeansAllSettled
<1>1. (NoSecondResult => LedgerInvariant) => DoneMeansAllSettled
  BY DEF LedgerInvariant, RowPhase, DoneMeansAllSettled
<1> QED BY <1>1, LedgerIsKept, PTL

-----------------------------------------------------------------------------
(***************************************************************************)
(* What a step makes of the row, and the job its watchers see.             *)
(***************************************************************************)
RowMarked ==
  /\ Blank(task) /\ Blank(task')
  /\ task.task_state \in {"QUEUING", "PROGRESS"} /\ task'.task_state = "PROGRESS"

RowDefined ==
  /\ Blank(task) /\ task.task_state = "PROGRESS" /\ task'.task_state = "PROGRESS"
  /\ \E ids \in (SUBSET SubtaskId) \ {{}} : task'.status = [id \in ids |-> NewStatus]

RowFailed ==
  /\ Blank(task) /\ Blank(task')
  /\ task.task_state = "PROGRESS" /\ task'.task_state = "FAILURE"

RowWritten(id, st) ==
  /\ Unsettled(id)
  /\ st \in SubtaskStatus /\ st.state \in {"RETRY", "SUCCESS", "FAILURE"}
  /\ task'.status = [task.status EXCEPT ![id] = st]
  /\ task.task_state = "PROGRESS" /\ task'.task_state \in {"PROGRESS", "SUCCESS"}
  /\ task'.task_state = "SUCCESS"
       <=> \A o \in DOMAIN task'.status : task'.status[o].state \in READY_STATES

LEMMA RowStep ==
  ASSUME OneAtATime, JobInvariant, LedgerInvariant, [Next]_vars
  PROVE  \/ task' = task
         \/ RowMarked \/ RowDefined \/ RowFailed
         \/ \E id \in DOMAIN task.status : \E st : RowWritten(id, st)
<1>1. /\ IsTask(task, SubtaskId) /\ WorkersTyped /\ ParentsTyped
      /\ \A p \in Parent : RunOK(parent[p]) /\ IsTask(parent[p].row, SubtaskId)
  BY TypeParts DEF JobInvariant, ParentsTyped
<1>2. CASE \E w \in Worker : WriteStatus(w)
  <2>1. PICK w \in Worker : WriteStatus(w)
    BY <1>2
  <2>2. HasJob(w)
    BY <1>1, <2>1 DEF WriteStatus, WorkersTyped, HasJob, Idle
  <2> DEFINE id == worker[w].msg.id
             st == worker[w].st
  <2>3. /\ Unsettled(id) /\ task'.status = [task.status EXCEPT ![id] = st]
        /\ task.task_state = "PROGRESS" /\ task'.task_state \in {"PROGRESS", "SUCCESS"}
        /\ task'.task_state = "SUCCESS" <=> \A o \in DOMAIN task'.status : IsSettled(o)'
    BY <2>1, <2>2, WriteLedger
  <2>4. st \in SubtaskStatus /\ st.state \in {"RETRY", "SUCCESS", "FAILURE"}
    <3>1. st \in SubtaskStatus
      BY <2>2, JobFields DEF HasJob
    <3>2. worker[w].pc = "update" /\ JobOK(worker[w])
      BY <2>1 DEF WriteStatus, JobInvariant, Busy
    <3> QED BY <3>1, <3>2 DEF JobOK, RetriesOK, Fresh, SubtaskStatus
  <2> HIDE DEF id, st
  <2>5. RowWritten(id, st)
    BY <2>3, <2>4 DEF RowWritten, IsSettled
  <2> QED BY <2>3, <2>5 DEF Unsettled
<1>3. CASE \E p \in Parent : MarkProgress(p) \/ DefineSubtasks(p) \/ SaveEnd(p)
  <2>1. PICK p \in Parent : MarkProgress(p) \/ DefineSubtasks(p) \/ SaveEnd(p)
    BY <1>3
  <2>2. p = 1 /\ parent[p].pc \in {"start", "define", "succeed", "failed"}
    BY <2>1 DEF MarkProgress, ParentStep, DefineSubtasks, SaveEnd, LedgerInvariant, ParentPhase
  <2>3. /\ Blank(task) /\ task.task_state \in {"QUEUING", "PROGRESS"}
        /\ parent[p].pc # "succeed" /\ Blank(parent[p].row)
        /\ parent[p].pc # "start" => task.task_state = "PROGRESS"
        /\ parent[p].pc = "define" => parent[p].total # 0
    BY <2>2 DEF LedgerInvariant, ParentPhase, Defined
  <2> DEFINE row == parent[p].row
  <2>4. row \in RowOver(DOMAIN row.status)
    BY <1>1, TaskIsRow
  <2>5. CASE MarkProgress(p)
    <3>1. task' = [row EXCEPT !.task_state = "PROGRESS"] /\ Blank(row)
      BY <2>3, <2>5 DEF MarkProgress
    <3> HIDE DEF row
    <3>2. Blank(task') /\ task'.task_state = "PROGRESS"
      BY <2>4, <3>1 DEF RowOver, Blank, HasSubtasks
    <3> QED BY <2>3, <3>2 DEF RowMarked
  <2>6. CASE DefineSubtasks(p)
    <3>1. /\ parent[p].pc = "define"
          /\ task' = InitializeSubtaskInfo(parent[p].row, parent[p].total, SubtaskIds(p))
      BY <2>6 DEF DefineSubtasks
    <3>2. /\ task'.status = [id \in SubtaskIds(p) |-> NewStatus]
          /\ SubtaskIds(p) \in (SUBSET SubtaskId) \ {{}}
          /\ task'.task_state = "PROGRESS"
      BY <1>1, <2>3, <3>1, DefinedRow DEF RunOK
    <3> QED BY <2>3, <3>1, <3>2 DEF RowDefined
  <2>7. CASE SaveEnd(p)
    <3>1. parent[p].pc = "failed"
      BY <2>3, <2>7 DEF SaveEnd
    <3>2. task' = [row EXCEPT !.output = FailureOutput, !.task_state = "FAILURE"] /\ Blank(row)
      BY <2>3, <2>7, <3>1 DEF SaveEnd, Ended
    <3> HIDE DEF row
    <3>3. Blank(task') /\ task'.task_state = "FAILURE"
      BY <2>4, <3>2 DEF RowOver, Blank, HasSubtasks
    <3> QED BY <2>3, <3>1, <3>3 DEF RowFailed
  <2> QED BY <2>1, <2>5, <2>6, <2>7
<1>4. CASE UNCHANGED task
  BY <1>4
<1>5. CASE \E w \in Worker : WorkerNext(w)
  <2>1. PICK w \in Worker : WorkerNext(w)
    BY <1>5
  <2>2. WriteStatus(w) \/ UNCHANGED task
    BY <2>1 DEF WorkerNext, Receive, CheckSubtask, AcquireLock, Prepare, SendEmail, RefuseEmail,
       ThrottleEmail, DropConnection, AbortSending, FinishSending, CloseConnection,
       RejectWrite, FailWrite, ReleaseLock, SubmitRetry, sendVars,
           updateVars
  <2> QED BY <1>2, <1>4, <2>2
<1>6. CASE \E p \in Parent : ParentNext(p)
  <2>1. PICK p \in Parent : ParentNext(p)
    BY <1>6
  <2>2. MarkProgress(p) \/ DefineSubtasks(p) \/ SaveEnd(p) \/ UNCHANGED task
    BY <2>1 DEF ParentNext, ReadTask, Delegate, CountRecipients, GenerateChunks, QueueSubtask,
       QueuedAll, OnSuccess, OnFailure
  <2> QED BY <1>3, <1>4, <2>2
<1>7. CASE \/ \E p \in Parent : CrashParent(p)
           \/ \E w \in Worker : CrashWorker(w)
           \/ \E id \in SubtaskId : ExpireLock(id)
           \/ ChangeUsers
           \/ UNCHANGED vars
  BY <1>4, <1>7 DEF CrashParent, CrashWorker, ExpireLock, ChangeUsers, vars
<1> QED BY <1>5, <1>6, <1>7 DEF Next

\* What was written for a finished subtask is never rewritten, by a duplicate
\* that slips past the check, a worker that comes late or the parent.
THEOREM ResultsAreFinal ==
  ASSUME OneAtATime
  PROVE  Spec => SettledIsFinal
<1>1. ASSUME JobInvariant, LedgerInvariant, [Next]_vars, NEW id \in DOMAIN task.status, IsSettled(id)
      PROVE  id \in DOMAIN task'.status /\ task'.status[id] = task.status[id]
  <2>1. CASE task' = task
    BY <1>1, <2>1
  <2>2. CASE RowMarked \/ RowDefined \/ RowFailed
    BY <1>1, <2>2 DEF RowMarked, RowDefined, RowFailed, Blank, HasSubtasks
  <2>3. CASE \E o \in DOMAIN task.status : \E st : RowWritten(o, st)
    BY <1>1, <2>3 DEF RowWritten, Unsettled
  <2> QED BY <1>1, <2>1, <2>2, <2>3, RowStep
<1>2. JobInvariant /\ (NoSecondResult => LedgerInvariant) /\ [Next]_vars =>
        [\A id \in DOMAIN task.status :
           IsSettled(id) /\ NoSecondResult =>
             id \in DOMAIN task'.status /\ task'.status[id] = task.status[id]]_vars
  BY <1>1
<1> QED BY <1>2, JobsAgree, LedgerIsKept, PTL DEF Spec, SettledIsFinal

-----------------------------------------------------------------------------
(***************************************************************************)
(* BulkEmail implements EmailJob.                                          *)
(***************************************************************************)
LEMMA OutcomeOf ==
  /\ DOMAIN Outcome = DOMAIN task.status
  /\ \A id \in DOMAIN task.status :
       /\ Outcome[id] = IF task.status[id].state \in READY_STATES
                        THEN task.status[id].state ELSE "open"
       /\ Outcome[id] = "open" <=> task.status[id].state \notin READY_STATES
BY DEF Outcome, IsSettled, READY_STATES

LEMMA OutcomeNext ==
  /\ DOMAIN Outcome' = DOMAIN task'.status
  /\ \A id \in DOMAIN task'.status :
       /\ Outcome'[id] = IF task'.status[id].state \in READY_STATES
                         THEN task'.status[id].state ELSE "open"
       /\ Outcome'[id] = "open" <=> task'.status[id].state \notin READY_STATES
BY DEF Outcome, IsSettled, READY_STATES

LEMMA OutcomeIsFunction ==
  /\ Outcome = [id \in DOMAIN task.status |-> Outcome[id]]
  /\ Outcome' = [id \in DOMAIN task'.status |-> Outcome'[id]]
BY DEF Outcome, IsSettled

LEMMA WatchedInit == Init => Watched!Init
<1> SUFFICES ASSUME Init PROVE Watched!Init
  OBVIOUS
<1>1. task.task_state = "QUEUING" /\ DOMAIN task.status = {}
  BY DEF Init, NewTask
<1>2. Outcome = [id \in {} |-> "open"]
  BY <1>1, OutcomeIsFunction
<1> QED BY <1>1, <1>2 DEF Watched!Init

\* The result of a subtask settles it, unless there will be another attempt.
LEMMA WatchedWrite ==
  ASSUME NEW id \in DOMAIN task.status, NEW st, RowWritten(id, st)
  PROVE  Watched!Settle(id) \/ (task'.task_state = task.task_state /\ Outcome' = Outcome)
<1>1. /\ DOMAIN task'.status = DOMAIN task.status
      /\ task'.status[id] = st
      /\ \A o \in DOMAIN task.status \ {id} : task'.status[o] = task.status[o]
      /\ task.status[id].state \notin READY_STATES
  BY DEF RowWritten, Unsettled, IsSettled
<1>2. /\ \A o \in DOMAIN task.status \ {id} : Outcome'[o] = Outcome[o]
      /\ Outcome[id] = "open"
      /\ Outcome'[id] = IF st.state \in READY_STATES THEN st.state ELSE "open"
  BY <1>1, OutcomeOf, OutcomeNext
<1>3. CASE st.state = "RETRY"
  <2>1. st.state \notin READY_STATES
    BY <1>3 DEF READY_STATES
  <2>2. \A o \in DOMAIN task.status : Outcome'[o] = Outcome[o]
    BY <1>2, <2>1
  <2>3. Outcome' = Outcome
    BY <1>1, <2>2, OutcomeIsFunction
  <2>4. task'.task_state # "SUCCESS"
    BY <1>1, <2>1 DEF RowWritten
  <2> QED BY <2>3, <2>4 DEF RowWritten
<1>4. CASE st.state \in {"SUCCESS", "FAILURE"}
  <2>1. st.state \in READY_STATES
    BY <1>4 DEF READY_STATES
  <2>2. Outcome' = [Outcome EXCEPT ![id] = st.state]
    BY <1>1, <1>2, <2>1, OutcomeIsFunction, OutcomeOf
  <2>3. task'.task_state = IF \A o \in DOMAIN Outcome \ {id} : Outcome[o] # "open"
                           THEN "SUCCESS" ELSE "PROGRESS"
    BY <1>1, <2>1, OutcomeOf DEF RowWritten
  <2>4. task.task_state = "PROGRESS"
    BY DEF RowWritten
  <2> QED BY <1>2, <1>4, <2>2, <2>3, <2>4 DEF Watched!Settle, Watched!Named
<1> QED BY <1>3, <1>4 DEF RowWritten

LEMMA WatchedStep ==
  ASSUME OneAtATime, JobInvariant, LedgerInvariant, [Next]_vars
  PROVE  [Watched!Next]_(Watched!vars)
<1>1. CASE task' = task
  <2>1. Outcome' = Outcome
    BY <1>1 DEF Outcome, IsSettled
  <2> QED BY <1>1, <2>1 DEF Watched!vars
<1>2. ASSUME Blank(task), Blank(task') PROVE Outcome' = Outcome
  BY <1>2, OutcomeIsFunction DEF Blank, HasSubtasks
<1>3. CASE RowMarked
  BY <1>2, <1>3 DEF RowMarked, Watched!Next, Watched!Start, Watched!vars
<1>4. CASE RowFailed
  BY <1>2, <1>4 DEF RowFailed, Watched!Next, Watched!Fail, Watched!vars
<1>5. CASE RowDefined
  <2>1. PICK ids \in (SUBSET SubtaskId) \ {{}} : task'.status = [id \in ids |-> NewStatus]
    BY <1>5 DEF RowDefined
  <2>2. DOMAIN task'.status = ids /\ \A id \in ids : Outcome'[id] = "open"
    BY <2>1, OutcomeNext DEF NewStatus, READY_STATES
  <2>3. Outcome' = [id \in ids |-> "open"]
    BY <2>2, OutcomeIsFunction
  <2>4. DOMAIN Outcome = {}
    BY <1>5, OutcomeOf DEF RowDefined, Blank, HasSubtasks
  <2> QED BY <1>5, <2>1, <2>3, <2>4 DEF RowDefined, Watched!Next, Watched!Name, Watched!Named
<1>6. CASE \E id \in DOMAIN task.status : \E st : RowWritten(id, st)
  <2>1. PICK id \in DOMAIN task.status :
          Watched!Settle(id) \/ (task'.task_state = task.task_state /\ Outcome' = Outcome)
    BY <1>6, WatchedWrite
  <2>2. id \in Watched!Named
    BY OutcomeOf DEF Watched!Named
  <2> QED BY <2>1, <2>2 DEF Watched!Next, Watched!vars
<1> QED BY <1>1, <1>3, <1>4, <1>5, <1>6, RowStep

\* Unless handlers report second results, whoever watches the row sees an
\* EmailJob: subtasks are named once and settled once, the job is a SUCCESS from
\* the step that settles the last of them, and never a FAILURE after that.
THEOREM ImplementsEmailJob ==
  ASSUME OneAtATime, {"broker", "close"} \cap Events = {}
  PROVE  Spec => Watched!Spec
<1>1. NoSecondResult
  BY DEF NoSecondResult, Happened
<1>2. JobInvariant /\ (NoSecondResult => LedgerInvariant) /\ [Next]_vars
        => [Watched!Next]_(Watched!vars)
  BY <1>1, WatchedStep
<1> QED BY <1>2, WatchedInit, JobsAgree, LedgerIsKept, PTL DEF Spec, Watched!Spec
=============================================================================
