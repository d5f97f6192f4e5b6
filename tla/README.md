# A TLA+ model of Labster's edX platform

This directory holds TLA+ modules that model parts of the Labster.EdX
repository (a fork of edx-platform), TLC configurations that check them on small
instances, and proofs for TLAPS. Paths below are relative to the repository,
which `PROJECT.json` names `src/`.

Two kinds of code are modelled, chosen because what is hard in them is the order
in which things happen:

* on the server, **instructor background tasks** and, among them, **bulk email**.
  A task is a row of a table, written by web requests, by celery workers, by the
  callbacks of celery and, for bulk email, by many subtasks at once; the broker
  may deliver a message twice, a worker may die, the cache that holds the locks
  forgets them after a while;
* in the browser, the **video player**, a **response of a discussion**, and the
  **drag-and-drop input** of a problem: JavaScript whose handlers run one at a
  time, but after timers, requests and elements that answer when they like.

1. [The system](#1-the-system)
2. [The modules](#2-the-modules)
3. [What TLC checks](#3-what-tlc-checks)
4. [What is proved](#4-what-is-proved)
5. [Where the code differs from what it says](#5-where-the-code-differs-from-what-it-says)
6. [What is left out](#6-what-is-left-out)
7. [Plan](#7-plan)

## 1. The system

The platform is a set of Django applications: the LMS (`lms/`), the Studio
(`cms/`), what they share (`common/`, `openedx/`), and Labster's own
applications. Nearly all of them keep their state in MySQL or MongoDB and handle
one request at a time; concurrency comes from many web processes, from celery
workers, and from services that call back. A page of the LMS runs JavaScript
modules that talk to each other by events, and to the server by requests.

### Components that are modelled

| Component | State | Operations | What is hard | What must be true |
|---|---|---|---|---|
| Task reservation and status, `instructor_task/api_helper.py` | rows of `InstructorTask` | `submit_task` (check, create, commit, publish), `get_updated_instructor_task` | check and create are not atomic; the row is committed before the task is published; a poll joins a row and a celery result read at different times, and may save the row | one task of a kind at a time; a refusal has a reason; no poll undoes a final row; every task ends |
| Task row and callbacks, `instructor_task/models.py`, `tasks_helper.py`, `tasks.py` | `task_state`, `task_output`, `subtasks`; celery's result | `create`, `run_main_task`, `on_success`, `on_failure`, `TaskProgress` | whole rows are read, changed and saved without a lock; celery stores its result before the callback runs | a final row stays final; progress is not lost |
| Subtask bookkeeping, `instructor_task/subtasks.py` | the status dict in column `subtasks`, counters in `task_output`, lock keys in memcached | define, queue, check, lock, update, release | several subtasks end together; messages come twice; database errors are retried inside the lock; the recipients are queried twice | counters agree with statuses; the task closes exactly when the last subtask is over |
| Bulk email, `bulk_email/tasks.py` | `to_list` and `SubtaskStatus` of a running subtask | the parent task, the send loop, retries, the outer exception handler | five classes of errors, two limits on retries, a list that shrinks as it is sent and is carried by the retry | nobody is emailed twice; nobody who declined is emailed; everybody is counted once |
| Email targets, `bulk_email/models.py` | enrolments, the `Optout` table | `Target.get_users`, opt-outs | both change while the job runs | see above |
| Video player, `xmodule/js/src/video/` | the state of a video and its players; what is shared by the videos of a page: the YouTube API, the deferred of `03_video_player.js`, `isBumperShown`; the storage that outlives a player | building a player, falling back on HTML5, the poster and the pre-roll; playing, stalling, seeking, the slider, the region, saving the position, leaving a unit and coming back | three sources race to build a player; the element reports what it did later; seeks are debounced, and wait while YouTube buffers; four sources of times | one player, and one for everybody who can have one; what the page shows agrees with what plays; no seek is lost once the duration is known; the video starts where it should |
| Discussion response, `common/js/discussion/views/thread_response_view.js`, `response_comment_view.js` and the views they swap | which view an element holds, the comments and their models, the thread's count, requests under way | edit, cancel, update, reply, delete, vote, endorse | answers come after the learner has gone on; a comment is shown before it is sent; editors are closed by hand | one editor at a time; an answer closes no other editor; the count agrees with the page |
| Drag-and-drop input, `static/js/capa/drag_and_drop/` | draggables, copies, targets and target fields that point at each other and at their own positions in arrays; the input | drag, drop, copy, take back, cycle the order, restore from the answer | positions, counters and z-indexes are kept by hand; copies are made when an icon has loaded; restoring looks things up by names that copies share | positions and counters agree; the answer says what is on the image; the image is restored as answered |

How they interact on the server: a view calls `submit_task`, which creates a row in `QUEUING`
and publishes a celery task. A worker runs `run_main_task`, which marks the row
`PROGRESS` and calls the task's own function. Most functions do the work there
and return a progress record that `on_success` stores. The one for bulk email
counts the recipients, writes one status per subtask into the row, queries the
recipients again, cuts them into chunks, and publishes one subtask for each; it
then returns, and `on_success` leaves the row alone because it has subtasks. Each
subtask checks the row, takes a lock in the cache, sends its emails, and adds its
counts to the row under a row lock; the one that brings the number of unfinished
subtasks to zero marks the task `SUCCESS`. A subtask that may be retried records
`RETRY`, releases its lock, and publishes a message with the recipients that are
left. Meanwhile the dashboard polls the row.

In the browser: `window.Video` (`10_main.js`) makes the state of each video and,
if there is a pre-roll, a second one for that; `01_initialize.js` waits for the
YouTube API, the script tag and a timer, and builds a player; from then on
`03_video_player.js` translates between the element and its modules with events
(`ready`, `play`, `pause`, `ended`, `seek`), of which the button, the slider, the log and the
saving of the position hang. The views of a discussion response call each other
directly and through Backbone events, and all send their requests through
`DiscussionUtil.safeAjax`, which disables the button until the answer. The
drag-and-drop input talks to nobody but the form's input element, from which the
page is rebuilt.

### Components that are not modelled

| Component | State and operations | What is hard | Properties to state |
|---|---|---|---|
| Shopping cart, `shoppingcart/models.py` | `Order` and `OrderItem` statuses cart, paying, purchased, refunded, defunct; `get_cart_for_user`, `start_purchase`, `purchase`, `refund`, `retire` | two tabs and the payment processor's callback; `get_cart_for_user` relies on there being "zero or one" order with status cart; items are fulfilled one after another | one cart per user; a paid order is fulfilled once; items follow their order |
| Photo verification, `verify_student/models.py` | created, ready, submitted, must_retry, approved, denied; `mark_ready`, `submit`, `approve`, `deny`, `system_error` guarded by `status_before_must_be` | late or repeated callbacks of the verification service, checked against a copy of the row | the guards hold of the stored row, not only of the copy |
| Certificates, `certificates/queue.py`, `views/xqueue.py` | `GeneratedCertificate` statuses, queue key | answers that come late, twice or for an older request | an old answer changes nothing |
| Credit, `credit/models.py`, `credit/api/provider.py` | `CreditRequest` pending, approved, rejected | a request made again reuses its uuid; the provider calls back at any time | a decided request is not requested again |
| Course action state, `course_action_state/managers.py`, `contentstore/tasks.py` | in_progress, succeeded, failed of a course rerun | failure half way through a clone | a rerun ends in one state and its course is there or removed |
| Split modulestore, `modulestore/split_mongo/split.py` | structures, versions, branches, the course index | optimistic update of the index by two authors | no published version is lost |
| Cohorts, `course_groups/cohorts.py` | memberships | random assignment by two requests at once | one cohort per learner and course |
| Enrollment, `student/models.py`, `instructor/enrollment.py` | `CourseEnrollment` is_active, mode | activation, mode change and refund at once | one active mode; refunds only when due |
| Problem attempts, `capa_base.py`, `capa_problem.py` | attempts, done, correct map | rescoring while a learner submits | attempts are not lost |
| Teams, LTI outcomes, configuration cache, library content, programs | counts kept by signals; versions of an assignment; a cached current row; a selection; awards | stale caches, retries | counts agree with members; an old score does not overwrite a new one |
| Discussion thread, list and new post views | pages of responses and threads loaded while others are added | a page that is loaded after something was added or deleted | no response twice or missing |
| Other front end of the LMS; Studio front end | the receipt page that polls for an order, teams, bookmarks, notes; the outline, the container page, uploads | as many small protocols of one request each | a late answer does not undo a later action |

Left aside for good, as they hold no shared state of their own, only forward to
a service, or render: the entry points of instructor tasks (`api.py`,
`views.py`: check arguments, call `submit_task`, lay out its status), the
courseware state cache (within one request), the Labster applications
(`labster_vouchers`, `labster_enroll`, `openedx/core/djangoapps/labster`), email
marketing, CCX overrides, block structures and rendering, and the other inputs
of problems (the schematic editor and its circuit simulation are numerical; the
rest wrap applets of third parties). `PROJECT.json` lists every component with its files, and
under `hazards` every place in the modelled code where something hard to test
can go wrong, with the properties that watch it.

## 2. The modules

| Module | Models | Kind |
|---|---|---|
| `SubtaskInfo` | the row of a task, `SubtaskStatus`, `initialize_subtask_info`, `_update_subtask_status`, the checks of `check_subtask_is_valid`, the number of subtasks | operators |
| `SubtaskChunks` | the generator `_generate_items_for_subtask`, item by item | state machine |
| `BulkEmail` | one email job: parent task, subtasks, row, locks, broker, users, faults | state machine |
| `EmailJob` | what a job promises to those who watch it | abstract specification |
| `BulkEmailProperties` | properties of `BulkEmail`, and the refinement mapping to `EmailJob` | properties |
| `InstructorTask` | all tasks of one kind: requests, workers, callbacks, polls, revocation | state machine |
| `InstructorTaskProperties` | its properties and its inductive invariant | properties |
| `VideoStart` | all videos of a page until each has its player | state machine |
| `VideoPlayback` | one video with its player: element, controller, slider, storage | state machine |
| `ThreadResponse` | one response with its comments in the browser, and its requests | state machine |
| `DragAndDrop` | the drag-and-drop input with targets | state machine |
| `VideoStartProperties`, `VideoPlaybackProperties`, `ThreadResponseProperties`, `DragAndDropProperties` | their properties, and for the first three the inductive invariant | properties |
| `SubtaskInfoProofs` | induction, totals over a set, and lemmas about the operators of `SubtaskInfo`: the row after an update, the counters, how many chunks and what is in them | proofs |
| `BulkEmailProofs` | theorems about the jobs and the row of `BulkEmail` | proofs |
| `BulkEmailListsProofs` | theorems about its recipients, the end of the job, and its accounts | proofs |
| `SubtaskChunksProofs`, `InstructorTaskProofs`, `VideoStartProofs`, `VideoPlaybackProofs`, `ThreadResponseProofs` | theorems about these modules | proofs |
| `MCBulkEmail`, `MCInstructorTask`, `MCVideoStart`, `MCVideoPlayback`, `MCThreadResponse`, `MCDragAndDrop` | constants and symmetry for TLC | instances |

A definition that says "Mutated" above one named otherwise is a deliberately
wrong variant of it, kept beside the right one: putting it in place of the right
one must make the property it is listed with in `PROJECT.json` fail. No
specification uses them.

### BulkEmail

The unit of atomicity is one interaction with something shared: one read or
write of the row, one call of the cache, one of the broker, one email. In
between, other workers and faults may step in.

* **The row** is the variable `task`. The column `subtasks`, the text of a dict,
  is the function `status` with two counters and a total beside it. Code that
  reads a row, changes the object and calls `save()` appears as two actions, and
  the second writes every column of the copy (`ReadTask` and `MarkProgress`,
  `OnSuccess` or `OnFailure` and `SaveEnd`).
  `_update_subtask_status` selects the row for update within a transaction, so it
  is one action, `WriteStatus`.
* **The parent** goes through `start`, `delegate`, `count`, `define`, `generate`,
  `queue`, `finish`. It counts the users (`CountRecipients`) and queries them
  again (`GenerateChunks`), in any order; in between they may change.
  With the event "redeliver" it may be delivered `ParentRuns` times, each delivery
  at any time after the one before, so that they may run beside each other.
* **A worker** goes through `check` (the row is read), `lock` (`cache.add`),
  `prepare` (opt-outs on the first attempt, template, connection), `send` (one
  email a step), `update`, `release`, and on a retry `retry` and `close`. Five
  outcomes of an email stand for the classes of errors in `bulk_email/tasks.py`:
  sent, refused (`SINGLE_EMAIL_FAILURE_ERRORS`, 5xx), throttled
  (`INFINITE_RETRY_ERRORS`), disconnected (`LIMITED_RETRY_ERRORS` and any
  other exception), fatal (`BULK_EMAIL_FAILURE_ERRORS`).
  Exceptions travel as in Python: the `finally` that closes the connection, then
  the handler of `send_course_email`, which counts the whole message as failed.
  `update_subtask_status` calls itself after a `DatabaseError`; `depth` counts its
  open frames, each of which deletes the lock key when it is left.
* **`to_list`** is the variable `to`, a set: recipients of a chunk are distinct, and nothing
  that is modelled depends on the order in which `_send_course_email` works them off, so `send`
  takes any. A chunk before it is queued is the sequence that the generator
  yields; `Members` is what a message keeps of it.
* **The lock** records who added the key, which the cache does not know: `DeletedKey`
  deletes the key whoever added it, as the code does.
* **Faults** are events (`Events`): a message delivered again, a broker that
  raises, a database error, a missing template, a `close()` that raises, a crash
  of a worker or of the parent, a lock that expires; and users who enrol, leave or
  opt out. A fault takes the place of the step at which it strikes. `MaxEvents`
  bounds their number, and `events` says how often each has happened.
* `sent`, `declined` and `events` are history variables; nothing reads them but
  properties and the bound. Properties that some fault really breaks say which:
  `RestMeansOver` excepts crashes, database errors and users who leave,
  `RestMeansUnlocked` crashes; `LedgerCounts`, `DoneMeansAllSettled` and
  `SettledIsFinal` are about jobs in which no handler wrote a second result for a
  subtask after an error of the broker or of `close()`. Section 5 says what
  happens otherwise.

### EmailJob

Five actions: a job starts, names its subtasks once, settles each once, is a
SUCCESS exactly when the last is settled, or fails before that. In the
refinement the job's state is `task_state`, and the outcome of a subtask is its
recorded state once that is ready and "open" before. Retries, locks, copies of
messages and the steps of the parent are stuttering.

### InstructorTask

The rows of one kind (same course, type and key) in the order of creation;
celery's result of each; what its subtasks are doing as a whole. Requesters run
`CheckRunning`, `CreateEntry`, `SubmitTask`; between the first two, `Racing` lets
another requester in. Workers run a task with the same split of read and save as
above. Celery stores its result (`ReturnResult`, `RaiseError`) before the callback runs
(`OnSuccess`, `OnFailure`, `SaveOutcome`). A watcher reads a row, later asks for
the result, and later still may save the row it read (`ReadStatus`, `ReadResult`,
`SaveResult`). `SubtasksEnd` stands for all of `BulkEmail` after the subtasks
were defined: it closes the row exactly when all of them were queued.

### SubtaskChunks

The loop, with `items_for_task` and the number of chunks yielded, on a query
and a count that need not agree. `BulkEmail` uses `Chunks`, a closed form of
what the loop yields; `YieldsChunks` ties the two together.

### The browser

JavaScript runs a handler to its end before the next one starts, so in these
modules one handler is one step, written as an operator from a state to a state
where it calls other functions. What interleaves is everything that is not a call:
timers, answers of the server, events of an element or of an iframe, icons that
load, and the learner.

**VideoStart.** The videos of a page (`Video`), each with any choice of YouTube
streams, HTML5 sources and a pre-roll. `NewState` is `window.Video`;
`ClickPoster`, `BumperEnds` and `BumperTimer` are the poster and the pre-roll;
`ScriptLoads`, `ScriptFails`, `ApiReady` and `YtTestTimeout` are the race of
`_waitForYoutubeApi`, the script tag and `YT.ready`; `SequenceChange` is the learner
who goes to another unit. `api`, `anyReady` and `isBumperShown` are shared by
all videos, as the code's globals and module variables are. A player is a count
(`youtube`, `html5`), so that two on one element can be seen. A second timer of the pre-roll
leaves `destroyAndResolve` on the event `initialize` (`hanging`). When the main video
fires that event inside `__dfd__.resolve()`, jQuery lets what `destroy` throws pass through
`trigger` and `resolve`, so the handler that was building a player ends there (`Throws`), with
the player built and its flag not set (`aborted`). If instead `initialize` waits
for the first player to be ready, the exception leaves the deferred of
`03_video_player.js` in the middle of its callbacks (`anyReady` is `"stuck"`) and the videos
that wait for it are not initialized. Whether an exception in one callback of `YT.ready` keeps
YouTube from running the next is not in this repository: `ApiReady` allows both.

**VideoPlayback.** One video from the construction of its player. `native` and
`pos` are what the element really does, `due` what it has not reported yet, and
`playerState`, `currentTime`, `button`, `emitPlayVideoEvent` and `timer` what the
page made of it. `OnStateChange` delivers the reports in order; `Tick` is the
interval of 200 ms; a seek of the slider waits in `ask` for its debounce and, if a
YouTube video is buffering, in `rewind` for the next `play`; `wanted` is the history of
the last position the learner asked for and the element has not reached; only reaching it clears it (`Got`), so a
seek that `seekTo` refuses stays in it. `OnSlide`, `OnStop` and `Thaw` are the slider, which stays frozen for
200 ms after it is let go. `Destroy` and `Return` are leaving the unit and coming
back; `storage` outlives the player. Times are whole seconds.

**ThreadResponse.** A response with the comments it came with (`Loaded`) and
those the learner may write (`Reply`). An element holds its show view or its
edit view; a button belongs to the view that was rendered when it was pressed, so
`live` says whether a request still disables the button that one sees. The server
takes a request up, refuses it or loses it (`Answer`), and the callback runs later
(`ResponseUpdated`, `CommentUpdated`, `CommentDeleted`, `Replied`, ...).

**DragAndDrop.** `page` holds the graph of objects: draggables with the target they
are on and their position there, targets with their lists, both with their
positions in the arrays of the state, and the counters kept by hand. A drop is
`MouseUp` with everything `checkLandingElement` does, from taking the draggable off one target and putting it on another,
correcting z-indexes and making or destroying target fields, to writing the input. A copy of a reusable draggable appears when its
icon has loaded (`CopyLoaded`). `Render` rebuilds the page, and `ProcessAnswerTarget`
puts back one element of the answer a step. The module assumes that icons of the originals have
loaded before the learner acts and that the learner waits for the restoration to end; `config.hasty` is the
learner who presses something else while the icon of a copy loads.

## 3. What TLC checks

Run one with `tlc -config <run>.cfg <module>`; the modules are `MCBulkEmail` for
`email_*`, `SubtaskChunks` itself for `chunks`, `MCInstructorTask` for `task_*`,
`MCVideoStart` for `video_start`, `MCVideoPlayback` for `video_play` and
`video_rewind`, `MCThreadResponse` for `response`, `MCDragAndDrop` for `dnd*`.

| Run | Instance | Distinct states | Shows |
|---|---|---|---|
| `email_retries` | 3 users, chunks of 2, 1 worker, all five outcomes, one opt-out | 979 thousand | types; the message of a retry has exactly those nobody has emailed yet (`RetryCarriesTheRest`); both limits hold however errors mix (`RetriesBounded`); a job that ends has counted everyone once (`EveryoneAccountedFor`); nobody who had declined is emailed (`DeclinedNotEmailed`) |
| `email_unreliable` | 2 users, 1 worker, any 2 of: duplicate, database error, crash, expiry, broker, close, a user who leaves | 857 thousand | counters agree with statuses (`LedgerCounts`), nothing settled is rewritten (`SettledIsFinal`), at rest the job is over (`RestMeansOver`) and every lock free (`RestMeansUnlocked`), with the exceptions above |
| `email_job` | 2 users, 2 workers, one of: duplicate, missing template, a user who enrols; fair scheduling | 538 thousand | refinement of `EmailJob` with its liveness (`KeepsThePromise`), no double email (`SentAtMostOnce`), SUCCESS means all settled (`DoneMeansAllSettled`) |
| `chunks` | every count from 1 and every query from 0 to 7 items, chunks of 1 to 4 | 1.2 thousand | the loop yields the closed form (`YieldsChunks`), nothing is lost (`NothingLost`) |
| `task_plain` | 2 requesters, 2 workers, 1 watcher, 2 tasks, one revocation, fair scheduling | 39 thousand | one task at a time (`OneAtATime`), refusals have a reason (`RefusedOnlyWhenAlive`), every task ends (`EveryTaskEnds`) |
| `task_racing` | tasks with subtasks, racing requests, 2 of: broker, revocation | 144 thousand | the inductive invariant of the proofs (`RowInvariant`), final rows stay (`ReadyIsFinal`), and a poll does not mistake the parent's result for the end of the job (`SubtasksNotHidden`) |
| `video_start` | 2 videos in every configuration, fair timers | 705 thousand | one player at a time but in two named cases (`OnePlayerAtATime`), one for every video with sources (`GetsAPlayer`), a fallback is final (`FallbackIsFinal`), the speeds offered are the player's (`SpeedsOfThePlayer`), the inductive invariant (`StartInvariant`) |
| `video_play` | 4 seconds, 6 regions and saved positions for each kind of player, with early and late metadata; 3 acts, 2 reports due | 3.23 million | the button, the log and the interval agree with the element once it has reported (`SettledViewAgrees`); once the duration is known no seek is lost (`SeekNotLost`); the video starts in its region (`StartsInsideRegion`) and resumes where it was left (`ResumesWhereLeft`); the inductive invariant (`PlaybackInvariant`) |
| `video_rewind` | YouTube, 2 seconds, 5 acts | – | violates `JumpsAreAsked`, see section 5 |
| `response` | 2 comments, 2 replies, 4 acts, the thread closed or reopened once | 586 thousand | one editor at a time (`OneEditView`), closed by no other answer (`CommentEditorKept`); the count agrees with the page (`CountShown`); the inductive invariant (`ResponseInvariant`) |
| `dnd` | a box with two target fields, a reusable atom with one, one base target, two copies | 860 thousand | positions (`PositionsMatch`), counters (`CountersMatch`) and z-indexes (`StackOrder`) agree with the image; a drop is answered (`DropAnswered`); an answer that names no chain twice and nests no deeper than the code admits is put back (`DistinctRestored`) |
| `dnd_restore` | the same | – | violates `RestoredAsAnswered`, see section 5 |

### Bounds, and why they are enough

* **Users and chunks.** Two users in chunks of one give two subtasks, so that one may
  end while another works and the last one closes the job. Three users
  in chunks of two give a full chunk and a remainder, and a list of which one
  part was sent and another is left when a retry is made.
* **Workers.** Two workers are needed for two subtasks to interleave: `email_job` has them, with
  every order of their checks, locks, updates and releases. `email_retries` has one, as its
  properties are about what one chain of attempts carries along. `email_unreliable` has one
  as well, because two faults of seven kinds beside two workers are beyond TLC in minutes; a fault
  still meets the parent, which runs beside the worker, and a subtask begun after
  a crash finds what the dead attempt left. Faults among several workers are what the theorems of section 4 cover: they
  hold for any number of both.
* **`MaxRetries`, `InfiniteRetryCap`** are 1 (5 and 1000 in
  `lms/envs/common.py`): every mixture of the two kinds of retry, each limit being reached, and
  giving up, all occur. `MaxDatabaseTries` is 2 (5 in the code): one frame that
  recovers and one that gives up.
* **`MaxEvents`** is 1 or 2: in `email_unreliable` and `task_racing` two faults meet in every combination the run names, the same one twice included.
* **`ParentRuns`** is 1: with two deliveries of the parent beside two workers TLC
  needs far more than minutes. What a redelivery does is in section 5; the
  counterexamples there are found quickly.
* **`MaxTasks`** is 2: one task ends, or not, before another is asked for. It is
  a bound on `CreateEntry`, so a requester may wait at it for ever; that is why
  the `task_*` configurations have no fairness obligation to ask.
* **`MaxItems`, `MaxPerTask`**: counts below, at and above multiples of the size of a chunk,
  queries that shrank to nothing or grew by more than a chunk.
* **Videos.** Two videos share everything a page shares; a third would only be
  one more of those that wait. Each takes every configuration, so that every source of a player meets every other.
* **`Duration`** is 4, the shortest in which a region can have a first, a middle and
  a last second that all differ from those of the video. **`MaxDue`** is 2: a report
  that is late, and one behind it. **`MaxActs`** is 3 for playing (a drag, its
  end and a click; or two clicks and leaving), and 5 for the counterexample.
* **`MaxActs`** is 4 for a response: two editors opened, one request sent from each; or
  a comment sent, deleted, and both again. **`MaxToggles`** is 1.
* **Draggables.** Two fields and a copy that has one give chains of up to three
  draggables and cycles if the code allowed them; two copies can stand on one target. **`MaxZ`** is 3 in place of 1000:
  only its being above all z-indexes but one that is held counts.

Users, workers, comments and replies are interchangeable; symmetry is used in the runs without
liveness only. Every job that ends stutters at `AtRest`, so that TLC's deadlock check
means something in all `email_*` runs: a state without a successor is one
where work is left and nobody can do it. The same holds for `Exhausted` in
`chunks`; in the `task_*` runs a watcher may always poll, in the `dnd` runs the
problem may always be rendered again. In `video_*` and `response` the deadlock
check is off: a page where nothing is left to happen, and a learner whose acts are
used up, are ends.

### Fairness

* `BulkEmail`: weak fairness of each worker and of a parent that was delivered: celery delivers what
  the broker has to a free worker and keeps running what it has started. Events
  and users are not obliged to anything, and each choice among the outcomes of an
  email stays free, so a job must end whatever they are. No fairness rescues a
  crashed worker.
* `InstructorTask`: weak fairness of a request under way, of the workers, of the
  end of a task function and of its subtasks (`BulkEmail` shows the latter under its own
  assumptions), and of a poll under way. Strong fairness of the start of a poll of each
  task: the dashboard polls every task it shows again and again, but one poll
  disables another of the same watcher. It is needed because a task revoked
  before it starts is closed by nobody but a poll. No requester has to ask.
* `VideoStart`: weak fairness of what the page does by itself: `window.Video` runs,
  and timers fire. The learner, the network and YouTube owe nothing, so `GetsAPlayer`
  rests on the timeout alone.

## 4. What is proved

`tlapm` checks every theorem; together there are 42 theorems and 363 lemmas. The only
assumptions about constants are the `ASSUME`s of the modules (a duration and bounds
are numbers, configurations have their fields, comments and replies are disjoint
finite sets, ...); where a theorem has a hypothesis of its own, it is named below.

**`BulkEmailProofs`** and **`BulkEmailListsProofs`**, for any recipients, any number of workers, chunks of any
size, any limits, and any number of events in any combination. What is proved comes in six
layers, each with an inductive invariant that uses some of those before it.

1. *Jobs* (`JobsAgree`: `JobInvariant`), without hypothesis, for redelivered parents and overlapping copies too.
   It gives `TypeCorrect` (`TypeOK`), `RetriesAreBounded` (`RetriesBounded`),
   `DeclinedAreNotEmailed` (`DeclinedNotEmailed`) and `LocksAreReleased` (`RestMeansUnlocked`). None of
   them is inductive. Types need that a chunk finds an id, so `RunOK` relates the
   parent's chunks to the total it has counted (lemmas `NumberGrows`, `ChunksEnough` of
   `SubtaskInfoProofs`). The limits hold of a message because they hold of the job that submits it, whose
   counts have gone up before the comparison (`RetriesOK`). Who declined is kept out by the first attempt
   only, so every later message has to be known to hold none of them (`MessageOK`, `JobOK`). A lock is free in
   the end because its owner is at a step from which it cannot stop without deleting it (`LocksHeld`, `MustUnlock`).
2. *The row* (`LedgerIsKept`: `NoSecondResult => LedgerInvariant`), if `OneAtATime`: `OverlapTasks` is FALSE and "redeliver" is not
   among the events, that is, celery delivers the parent once and a duplicate of a subtask's
   message only once the worker of the original is done or dead. Section 5 says what
   happens otherwise. It gives `CountersAreRight` (`LedgerCounts`), `SuccessMeansSettled` (`DoneMeansAllSettled`),
   `ResultsAreFinal` (`SettledIsFinal`) and `ImplementsEmailJob`, with duplicates, crashes, database errors and expiring locks. The
   heart is that of all the workers and messages of a subtask one at most may still write its
   result: an attempt is in at most one worker's hands (`OneHand`), and no other can pass the check any more. The lock does not give that, since it may expire, and the check alone does not either, since it
   reads the row first. What does is that an attempt is known by its retry count: the row is
   open for one count (`Open`), a job past the check has that count until it writes (`ClaimOK`), and after RETRY was
   recorded nothing with the next count exists before `retry()` publishes it (`Waiting`, `NoneAhead`). `ParentPhase`
   and `RowPhase` say that the parent's stale copies of the row are saved only before there are subtasks.
   The refinement is proved step by step: whatever changes the row's state and outcomes is a step
   of `EmailJob`, all else stutters. It has the hypothesis that "broker" and "close" are not among the events, since
   then handlers write second results.
3. *The recipients* (`ListsAreKept`: `AllWritten => ListsInvariant`), if `OneAtATime`. It gives `NobodyIsEmailedTwice`: `SentAtMostOnce` as long as no
   worker died and no write failed (`AllWritten`), whatever is delivered again or expires. The list of
   a message holds nobody who was emailed only while it may still be worked through (`ListsUnsent`), which is why this layer needs layer 2; that lists of different
   subtasks have nobody in common (`ListsApart`) goes back to the parent's chunks (`ChunksOK`, `ChunksApart`).
4. *The work* (`WorkIsKept`: `Undisturbed => WorkInvariant`), if `OneAtATime`. It gives `NothingIsLeftUndone`: `RestMeansOver`, unless a handler wrote a second result. Nothing is
   lost because each subtask that is not settled is carried on (`CarriedOn`): by a message of the open attempt, by a worker that
   will write a result or submit a retry, or by the parent, which has a chunk for every id still to be queued (`RunLeft`) as long as nobody left between its two queries.
   This is the safety half of "every job ends"; that what is carried on does move is liveness, and TLC's (`KeepsThePromise`).
5. *The accounts* (`AccountsAreKept`: `Regular => AccountInvariant`), if `OneAtATime`. It gives `RetriesCarryTheRest`: `RetryCarriesTheRest`,
   as long as besides nothing came twice and nobody enrolled (`Regular`). Then a subtask has one carrier, a message or a worker (`OneCarrier`),
   and its list and its counters make up the chunk it was given, from the first message to the last retry (`JobAccounted`): whoever leaves the list is
   counted in the same step. The sizes of the chunks go back to the arithmetic of `Chunks` over an order in which nobody is twice (`PartSize`, `ChunkSizes`, `RunSized`).
   In the run `email_retries` users only opt out, so that `Regular` holds throughout.
6. *The totals* (`TotalsAreKept`: `Countable => TotalInvariant`), if `OneAtATime`. It gives `EveryoneIsAccountedFor`: `EveryoneAccountedFor`, as long
   as besides the template was not missing (`Countable`): that error comes after the opt-outs are skipped and its handler then counts the whole
   message as failed, which counts them twice. The other layers look at one subtask at a time; here the row's totals are sums over its subtasks
   (`RowAdded`), and some division of the emails that were sent among the subtasks agrees with every result, message and
   carrier (`Mailed`), which rules out an email that nobody counts. That the chunks of the subtasks make up the announced total is `SizesAddUp`.
   The sums are folds over finite sets; `SubtaskInfoProofs` shows that such a fold counts (`TotalIsCount`) and how a total
   changes in one place (`TotalChanged`).

The hypotheses of layers 3 to 6 are on what has happened so far, not on the constants: the theorems hold in every
state of every behaviour until the first such fault. The layers were checked with TLC as invariants on
instances with one and two workers before they were proved.

**`InstructorTaskProofs`**, for any sets of requesters, workers and watchers, any
number of tasks and events:

1. `RowsAgree`: `RowInvariant` always holds. It is inductive, and holds whether
   or not requests race.
2. `TypeCorrect`: `TypeOK` follows.
3. `ReadyNeverRewritten`: a ready row is never changed again (`ReadyIsFinal`),
   under every fault of the model.
4. `TasksRunOneAtATime`: `OneAtATime`, if requests do not race and the
   broker does not fail while subtasks are queued.
5. `SubtasksAreShown`: a poll that has read a row with subtasks does not show the
   SUCCESS of their parent while they run (`SubtasksNotHidden`), under every fault of the model.
6. `RefusalsAreRight`: a request is refused only if a task of its kind is alive or was revoked
   (`RefusedOnlyWhenAlive`), if publishing does not fail; requests may race.

Neither `ReadyIsFinal` nor `OneAtATime` is inductive. A worker, a callback or
a poll saves a copy of a row it read earlier; that this undoes nothing depends on
who else could have written in between. `RowInvariant` says why: a task is
held by one requester, the broker or one worker (`OneHolder`), so a worker's
copy can only be out of date by what subtasks did; what a worker relies on at
each of its steps (`WorkerKnows`), in particular that it saves over no
finished row; the column `subtasks` tells the truth (`RowsMatch`); a watcher saves only
what was revoked, and no worker touches that (`WatcherKnows`, `RevokedRows`).
The proof has a lemma per process (`RequesterRows`, `WorkerRows`, `ReceiveRows`, `SubtasksRows`,
`WatcherRows`), with a step per action in it. `OwnTaskOnly` serves every action of a worker: what touches
one task keeps all that is said of the others. For theorem 4, `OneOpenRow` (only
one row is open, none while somebody is about to create one) and `NoStray` (no
subtasks of a failed task are at work) are added: what works has an open row. For
theorem 5, `SubtasksInProgress`: the row trusted over celery's result is recognized by its
state PROGRESS, so no copy with subtasks may be in another open state. For theorem 6,
`OpenIsAlive` and `OverIsReady`, beside `NoStray`: whoever lets go of a task hands it on or has closed its row.

**`SubtaskChunksProofs`**, for every count, size and query:
`EnoughIds` (the generator never yields more chunks than there are ids, so
`queue_subtasks_for_query` does not run past the end of its list, however the
query grew), `AsManyChunksAsIds` (if the count was right there is a chunk for
every id, so no subtask waits for ever), `NobodyIsLost` (`NothingLost`) and `LoopYieldsChunks`
(`YieldsChunks`: the loop yields the closed form that `BulkEmail` delivers), on top of `TypeCorrect`. `Progress`
bounds the items left by the room in the chunks still to come; the arithmetic of
`_get_number_of_subtasks` is a lemma of its own. `NothingLost` is inductive once it is known what
flattening a sequence of sequences does to an element appended (`FlattenAppend`). For the closed form,
`Placed` says where in the query the chunk being filled begins and which parts the yielded ones are.

**`VideoStartProofs`**, for any videos on a page and any configurations of them:
`OnePlayer` (`OnePlayerAtATime`), `FallbackStays` (`FallbackIsFinal`) and `SpeedsAgree`
(`SpeedsOfThePlayer`), on top of `HandlersAgree` (`StartInvariant`). The properties
speak of players; what keeps them is that two flags of the code remember which
player was built (`FlagsRemember`), that nothing of a video exists before it is
initialized (`NotStarted`), and that a video that waits for the API has no YouTube
player. The flags do not remember the player whose callback was aborted; `FlagsAgree` says what
is left then: such a video is not built again by the API, as it waits for that only if it has fallen back on HTML5.
`OnePlayer` names it as one of its two exceptions; `FallbackStays`, an action property, has none. Each handler is a function of one video, so the proof has a lemma for
each, and `OneVideoChanges` puts them together.

**`VideoPlaybackProofs`**, for any duration, region, saved position and number of acts:
`LastSeekIsKept` (`SeekNotLost`), `StartIsInside` (`StartsInsideRegion`),
`ReturnsToWhereLeft` (`ResumesWhereLeft`) and `ViewSettles` (`SettledViewAgrees`), on top of `PlayerAndSliderAgree`
(`PlaybackInvariant`). `LastSeekIsKept` is about steps: with the duration known, `seekTo` refuses nothing, so each handler
keeps the seek that waits or brings the element there (`SeekKept`). It needs that a seek waiting for its debounce
is the one asked for last (`SeekWaits`), which the invariant adds to the types, and that a player which is not ready yet has
the position that the storage holds (`Untouched`). The lemmas follow the code's calls:
the commands to the element, `update`, `runTimer`, `seekTo`, then the handlers. The arithmetic of
regions is in `RegionTyped` and `StartingTimeTyped`. `ViewSettles` is about the end of a queue of reports of
which any number may be due; its invariant `Tells` says what the last of them must be for what the element does now (`Reported`):
an element that plays has PLAYING due as the last or the page has heard it, one that stands still has PAUSED due as the last,
or the ENDED of a `<video>` behind it, or the page has heard that. A handler may move the element again, which only adds to the queue (`Moves`).

**`ThreadResponseProofs`**, for any comments and any number of acts: `CountIsShown`
(`CountShown`), `OneEditorIsOpen` (`OneEditView`) and `EditorsAreKept`
(`CommentEditorKept`), on top of `PageAndRequestsAgree` (`ResponseInvariant`). The
count survives late answers because the server says yes to one deletion of a
comment only, and then the page still shows it (`Deleting`), and because a comment being
sent is on the page and is the only one (`Replying`); one editor is open because
the response closes its own only if it ever had one (`Editors`).

**Only model-checked:**

* Liveness under fairness, which the prover has no rule for: `EveryTaskEnds`, `GetsAPlayer`, and the liveness half of
  `KeepsThePromise` (its safety half is `ImplementsEmailJob`).
* All of `DragAndDrop`. Its arrays are spliced and searched with `SelectSeq`, of which the prover
  knows neither the definition nor a theorem, so that not even the type of what a splice leaves could be derived.

Where a definition is recursive (`FlattenSeq`, a sum over a set), the proofs use induction stated with sets (`Induct`,
`InductOnSubsets` of `SubtaskInfoProofs`, from the well-foundedness of `<`), since the library's
own induction theorems take an operator as parameter and the backends cannot instantiate it.

## 5. Where the code differs from what it says

Two differences have a run that shows them, and three more a property that the code refutes
when it is checked in place of the others of a run.

1. **A seek is made again and again** (`video_rewind`, `JumpsAreAsked`). While a
   YouTube video buffers, `seekTo` binds the handler `play.seek`
   (`03_video_player.js:511`); only the next `seekTo` unbinds it. So it runs on
   every later `play`, and a learner who pauses and plays, or whose video stalls, is sent
   back to the place of the old seek. The comment (`03_video_player.js:508-509`) has it
   that the video should "wait to finish bufferization and then rewind": once.
2. **Of two copies one is restored** (`dnd_restore`, `RestoredAsAnswered`).
   `checkBaseDraggable` (`update_input.js:135`) looks for a restored draggable by id and
   target; for the second copy of a reusable draggable on a target it finds the first. The
   comment (`update_input.js:67-68`) says "position all draggables according to answer",
   and the grader counts duplicates (`common/lib/sandbox-packages/verifiers/draganddrop.py:166`).
   The next drop writes the shorter answer.
3. **A second player after a pre-roll that ended twice** (`UnavailableHasNoPlayer`, as an
   invariant of `video_start`).
   The end of a pre-roll, its error and a skip each start a timer (`09_bumper.js:41-47`). The
   second one finds no `videoPlayer` and binds `destroyAndResolve` to `initialize`
   (`09_bumper.js:58`), which the main video fires while `onYTApiReady` builds its player;
   `destroy` throws (`09_bumper.js:94-106`), and `youtubeApiAvailable` (`01_initialize.js:138-142`) is
   never set. The timeout reports YouTube unavailable and builds an HTML5 player beside the YouTube
   one. The comment (`01_initialize.js:213-216`) has it that the callback "will set
   `state.youtubeApiAvailable` to `true`" if the API loads.
4. **A seek is dropped** (`NoSeekDropped`, as an invariant of `video_play`). `seekTo` refuses a time past the
   duration (`03_video_player.js:492`), which is 0 until it is known. Nothing asks for the position again, while
   the slider shows it and `onSeek` reports a `seek`. The comment (`03_video_player.js:481-482`): "After the user
   seeks, the video will start playing from the sought point".
5. **A deep answer is not restored** (`DeepRestored`, as a property of `dnd`). A draggable may be dropped on a
   field of one that stands on a field of another, and the input then has that answer; but
   `repositionDraggables` returns at once if any chain is deeper than a draggable on a field of a draggable on a target (`update_input.js:281`), and puts
   back nothing, not even what is shallow. "For now we support only one case", it says there;
   the comment at `update_input.js:67-68` knows of no limit.

The following showed up while the runs were being set up. In the first table each needs only a
change of a configuration to be seen; the runs above state their properties
without the event that breaks them.

| Where | What happens | To see it |
|---|---|---|
| `bulk_email/tasks.py:157-158`, `tasks_helper.py:267` | A parent delivered again finds the row already saved as PROGRESS by `run_main_task`, although "we want the current task to be marked with whatever it had been marked with before". If the job had ended, no subtask is left to end it again. | `email_job` with `ParentRuns = 2` and the event "redeliver": `MarkIsKept` |
| `tasks_helper.py:265-268` | A redelivered parent saves a row it read before a subtask ended, and loses its status. | the same: `SettledIsFinal` |
| `subtasks.py:412`, `458` | `check_subtask_is_valid` reads the row first and takes the lock afterwards. A copy that reads it while the original is sending, and takes the lock once the original released it, sends the emails again. | `email_job` with `OverlapTasks = TRUE`: `SentAtMostOnce` |
| `bulk_email/tasks.py:304-311`, `697-699`; `subtasks.py:443` | An error of the broker in `retry()`, or a `connection.close()` that raises, makes the handler of `send_course_email` count the whole message as failed although its subtask was updated or sent; the comment says this "keeps the counts consistent". | `email_unreliable` with two workers and the event "close" alone, `NoSecondResult` taken out of `LedgerCounts` (the retry is run while its predecessor is counted as failed); `email_retries` with the event "close": `EveryoneAccountedFor` |
| `bulk_email/tasks.py:477`, `486`, `310` | The template is missing: the opt-outs of the chunk were counted as skipped before, and the handler counts the whole chunk as failed, so the totals exceed the number of recipients. | `email_retries` with "template" and `MaxEvents = 2`: `EveryoneAccountedFor` |
| `subtasks.py:309`, `327` | Users leave between the count and the query: there are ids without a chunk, and the job never ends. | `email_unreliable`: `RestMeansOver` without "unenroll" in its exceptions |
| `api_helper.py:336` | Publishing fails after the commit: the row stays QUEUING and its kind is refused for ever. | `task_plain` with "broker": `RefusedOnlyWhenAlive` |
| `api_helper.py:193`, `134` | A poll that read the row before subtasks were defined, and the result after the parent returned, shows SUCCESS while subtasks run. | `task_racing`: `SubtasksNotHidden` without its condition on the row read |
| `subtasks.py:349` | Queueing fails half way: the task is FAILURE, its queued subtasks run on, and a new task of the kind may start beside them. | `task_racing` with `Racing = FALSE`: `OneAtATime` |

In the browser the models follow the code where it does the following; no property
claims otherwise, or the property names the exception. File names are those of section 1.

* Video, starting. If a video's own script tag fails after another video's brought the API, a
  second player is built beside the YouTube player (`01_initialize.js:590-600`; the exception
  of `OnePlayerAtATime`). Leaving the unit neither destroys the pre-roll nor cancels
  YouTube callbacks still to come (`10_main.js:146`). All
  players share one deferred (`03_video_player.js:602`): what the late timer of a pre-roll (difference 3) throws in
  its callbacks leaves the other videos of the page uninitialized. A late timer can also abort the building of an HTML5 player;
  a script that then loads offers YouTube's speeds with it (the exception of `SpeedsOfThePlayer`), one that then fails builds
  a second HTML5 player (the other exception of `OnePlayerAtATime`). An error shown because there are no
  sources is hidden again when YouTube fails too (`01_initialize.js:495`).
* Video, playing. The pause at the end time repeats on every resume, although it is "only
  done once per video playing from start to end" (`03_video_player.js:368-370`). A saved position
  of 0 gives way to the rendered one (`01_initialize.js:367`). Metadata that come late move the
  slider to the start time and do not seek (`03_video_player.js:247`). ENDED of YouTube
  does not stop the interval (`03_video_player.js:562`). A thaw timer of an earlier drag unfreezes
  the slider during the next (`06_video_progress_slider.js:235`).
* Discussion. The answer to an update of the response opens the comment form beside a comment's editor
  (`thread_response_view.js:337`; a test says "Only one editor should be visible at a time
  within a single response", `common/test/acceptance/tests/discussion/test_discussion.py:794`).
  A second comment submitted while the first is being sent is shown and counted but never sent
  (`thread_response_view.js:198-201`). A response whose deletion fails stays off the page
  (`thread_response_view.js:227`). Deleting a response takes comments deleted one by one off the count
  twice (`content.js:101`, `383`). `updateWithUndo` undoes what others set meanwhile
  (`utils.js:242-245`). A vote answered while the response is edited renders the show view over the editor.
* Drag and drop. A learner who presses two draggables at once through copies whose icons
  load late can make cycles, put a draggable on a target that is gone, and lose one from the answer (`config.hasty`).
  The 50 ms polling of `moveDraggableTo` and drops during a restoration overwrite the input with a
  partial answer (`draggable_logic.js:7-15`). A z-index that reaches 1000 is taken for that of a
  held draggable. An unknown id ends the restoration (`update_input.js:185-210`). Rendering again puts back the submitted answer, not later moves.

## 6. What is left out

* The text, headers and links of emails; templates other than their being there
  or not; delays and backoff; times, action names, statistics and logs.
* The length limits of `task_output` (`models.py`, `create_output_for_*`) and the
  encoding of the row's columns: records and functions stand for the JSON text.
* Serialization of the task's arguments.
* In `InstructorTask`, a task that is delivered twice and a worker that dies:
  `BulkEmail` has both, for the parent as well. Without them `OneHolder` says
  what celery promises in the normal case only.
* `SentAtMostOnce` is not claimed after a crash or a database
  error: a subtask that died after some of its emails and whose message comes again
  sends them again, by design of the code.
* In `BulkEmail`, errors that no state of the model leads to: a `CourseEmail` that is gone when a
  subtask looks it up (`bulk_email/tasks.py:458-467`; like the missing template it fails the whole message, but
  before the opt-outs are counted), and in the parent a missing `CourseEmail`, a course that does not match or does not exist
  (`tasks.py:137-150`, `165-171`), each of which fails the task.
* What other kinds of tasks compute (rescoring, reports, certificates).
* Video, starting: on touch devices an HTML5 player's deferred is resolved when it is built, not when it
  is ready. When a hanging handler throws in `onReady`, the rest of that `onReady` is lost too; `VideoPlayback` has only players whose `onReady` ran.
* Video: Flash, speeds, volume, captions, quality, full screen, the context menu, the
  skip control of a main video. They have a state of one value each that a click sets.
* Discussion: reporting (it works as endorsing does), permissions, rendering; who voted. An endorsement that fails always renders
  the view again in the model; the code's `model.set(undo)` does so only if the old value differs from the current one (`utils.js:244-246`).
* Drag and drop: the mode of positions without targets, the scroller, the parsing of the
  configuration, the loading of the image.

**How much of the code this is.** Of the 128 750 lines of JavaScript in some 750 files
the modules model about 2900, those of the three components above. The rest is for the largest part not code with a
protocol to check: translations (`djangojs.js` of every language, some 2000 lines each, the largest
files there are), editors and renderers taken over from elsewhere (`Markdown.Editor.js` and its kin), the
circuit simulator `schematic.js`, and views that lay out one form or list and send one request.
The Python code, in which most of the platform's shared state lives, is modelled in the part that has most concurrency, and
comes on top of these lines.

## 7. Plan

Done: `SubtaskInfo`, `BulkEmail`, `SubtaskChunks`, `EmailJob`, `InstructorTask` for the
server; `VideoStart`, `VideoPlayback`, `ThreadResponse`, `DragAndDrop` for the browser; and the
theorems of section 4.

What would come next, in this order:

1. The types, positions and counters of `DragAndDrop`, once its splices are written with operators the prover knows.
2. A redelivered parent and overlapping copies in layers 2 to 6 of `BulkEmail`: what is still true without `OneAtATime`.
3. `ModuleStateUpdate`: `perform_module_state_update` and the rescore, reset and
   delete functions of `tasks_helper.py` against a learner's submission: a row of
   `StudentModule` read, changed and saved while the learner writes it too.
4. `ShoppingCart`: orders, items, two tabs, the payment callback coming late or twice;
   an abstract order (cart, paying, paid, refunded) that it implements.
5. `PhotoVerification`: the guards of `status_before_must_be` on a copy of the
   row, with the callback and a resubmission.
6. `CourseRerun`, `Credit`, `Certificates`: a status with a requester and an answer
   that may be late; one abstract protocol for the last two if the code allows it.
7. `SplitModulestore`: versions and the optimistic update of the index.
8. The discussion thread around `ThreadResponse`: pages of responses loaded while others are added.
9. Composition: the row of `InstructorTask` as refined by `BulkEmail`, which
   would turn `SubtasksEnd` from an assumption into a result.
