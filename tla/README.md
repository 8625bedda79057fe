# FluxDM: models, checks and proofs

FluxDM is a desktop download manager written in Go. This directory holds TLA+
modules that model its core logic, the TLC configurations that check them on
small instances, and proofs that TLAPS checks for every instance. Paths below
are relative to `src/` of the repository.

Run anything from this directory: `tlc -workers 2 -config X.cfg M` for a run of
the table in section 4 (`M` is the module the name begins with), `tlapm
XProofs.tla` for the proofs.

## 1. The system

### 1.1 Components

**Download state machine** (`internal/download/state.go`). Ten persisted states
and two transition tables: one for `Transition`, one for `Recover` at startup.
It is right when every write of a row follows a table, `completed` is final,
and nothing rests in a transient state that no operation accepts.

**Dispatch core** (`internal/application/download_service.go`, 92-165 and
731-846). State, all under `s.mu`: the slice `pending`, the set `queued`, the
map `running` from a download to the control of its run, and the counter
`queueRunning` of each queue; beside it a wake channel of capacity one. Callers
`enqueue`; sixteen workers claim the best job whose queue has a slot, register a
control, run `process`, forget the control and give the slot back. Hard parts:
the claim and the registration are two critical sections; the wake channel
drops sends; limits are captured when a job is enqueued and queues are edited
later; Cancel withdraws an identifier but not its job. It is right when slots
never leak, capacity holds, no wake-up is lost, controls and runs correspond,
and Close returns.

**Lifecycle** (same file, 321-500, 642-697, 848-1119). `process` takes a row
from `queued` through `probing`, `preparing` and `downloading` to its end, with a
database write between any two steps, while `Start`, `Pause`, `Resume`,
`Restart`, `Cancel` and the queue-wide operations read and write the same row and
the run's control (`intent`, `finished`, `cancel`, under `control.mu`). Every write
is of the whole row. Hard parts: every read of a row is used after other writes;
a pause is a request that the run answers later; the context of a run aborts its
own writes. It is right when no two engines write one partial file, a paused
download is quiet, an accepted pause or cancel has its effect, and nothing is
left behind in a transient state.

**Queues and assignments** (`organization_service.go`, `internal/organization`,
`organization_repository.go`). Rows of queues (enabled, sequential, number of
parallel downloads, priority) and `queue_id` of each download. They are edited
while jobs wait and runs write their rows back.

**Download repository** (`internal/persistence/download_repository.go`). `Save`
of one row with its segments is a SQLite transaction. `Get` is two queries, one for
the row and one for its segments, outside a transaction; the models read the state
and the queue, which the first one returns.

**Recovery and checkpoints** (`download_service.go` 167-182, 1062-1226). At
startup `Recover` reconciles each transient row with its partial file; during a
run the reporter's snapshots are synced and saved. Hard: a crash between any
write to the file and the next checkpoint; a fallback that truncates the file
after cursors were saved; the loop that stops at its first error. It is right
when a resumed download never keeps bytes that were not written.

**Segment planner** (`internal/download/planner.go`). Splits a size into at most
n non-empty ranges and validates stored ranges. It is right when the ranges
cover every byte once, for each size and count.

**Segmented engine** (`engine.go` 168-275, 314-690). A coordinator, up to 16
workers fed by bounded channels, tail splitting, retries, the fallback to one
stream and a reporter that merges cursors. Hard: the capacity of the job and
result channels, the split of a segment whose cancellation races with its end
or with the failure of another segment, snapshots delivered out of order. It is
right when every byte has one writer, no send blocks for good, and the cursors
reported are bytes written.

**Connection controller** (`engine.go` 277-312, 697-768). Limit, number of
active requests and success streak under `c.mu`, and a channel of capacity one.
Workers acquire before each attempt and release after it; 429 and 503 halve the
limit, a window of successes raises it by one. Hard: sends are dropped while
the limit moves both ways and waiters are cancelled. It is right when slots
never leak, nobody sleeps on a free slot, and the limit stays in range.

**Bandwidth limiter** (`engine.go` 691-695, 770-826). Shared clock reservations
for a download, its queue and the application.

**Prober and request options** (`probe.go`, `request_options.go`). One request and
the parsing of its headers.

**Scheduler** (`scheduler_service.go`, `internal/scheduler`,
`scheduler_repository.go`). Every 30 s the due occurrences are claimed (an insert
with a unique key), executed and finished. Hard: a crash between claim and
finish; an error that ends the loop of one tick.

**Pending handoff store and bridge** (`internal/browserintegration`). Requests of
the browser wait in memory, expire, and are claimed, released, completed or
discarded by the user's confirmation. Hard: expiry during a claim, a handoff
sent again.

**Completed file management** (`file_management_service.go`). Rename and move a
file, then write its row, and move it back when the row cannot be written.
Hard: the move back may fail or meet a name taken meanwhile.

**File names and reservations** (`internal/filesystem/filename.go`). Names are
reserved by exclusive creation of the partial file.

**Site profiles and secrets** (`site_profile_service.go`, `internal/siteprofile`,
`internal/secrets`). Encrypted headers and cookies, kept per download and cleared
at its end.

**Event bus, single instance, shell, database opening, logging, transport,
frontend, extension, scripts.** Fan-out to displays, operating-system calls and
user interface; no state of the core depends on them beyond the calls they
make.

### 1.2 How they interact

The frontend, the bridge and the scheduler call the lifecycle and the queue
operations. The lifecycle enqueues jobs for the dispatch core; a worker runs
`process`, which reads and writes rows through the repository, asks the prober,
plans segments and calls the engine with a callback that saves checkpoints. The
engine starts one controller for each download and shares the limiters. Policies
of the organization service are read by `enqueue`, and once more by `process`
for the bandwidth of the queue. Recovery runs before any worker has a job.

## 2. Plan

In this order; all of the modules below exist.

| module | models | composes / refines |
| --- | --- | --- |
| `DownloadStates` | states and transition tables | |
| `Dispatcher`, `DispatcherProofs` | admission, slots, worker pool, wake channel | the pool with callers that do anything; checked inside `DownloadService` |
| `DownloadService`, `DownloadServiceProofs` | runs and user operations | EXTENDS `Dispatcher` and fills in its step "run" |
| `ConnectionController`, `ConnectionControllerProofs` | the adaptive gate of a download | |
| `Segments`, `SegmentsProofs` | the planner, validation, and the reporter's changes to segments | used by `SegmentEngine` |
| `SegmentEngine` | one call of the engine: coordinator, channels, splits, retries, fallback, reporter, rename | EXTENDS `Segments` |
| `CheckpointRecovery`, `CheckpointRecoveryProofs` | row, file and cursors across runs, pauses, shutdowns, crashes and `Recover` | EXTENDS `SegmentEngine` and `DownloadStates`; implements `Transfer` |
| `Transfer` | what a download promises about its bytes | abstract specification |
| `Files`, `FilesProofs` | names, temporary files, completed files, rows and cookies of several downloads | |
| `Handoff`, `HandoffProofs` | the native host, the pending store and confirmations | EXTENDS `Files`: a confirmation creates a download |
| `Scheduler`, `SchedulerProofs` | ticker, due occurrences, claims, actions, post actions | |

What is left: models of the bandwidth limiter and of a stream of unknown length.

## 3. The modules

### 3.1 Dispatcher

| state | code |
| --- | --- |
| `pending`, `queued`, `queueRunning` | the fields of the same name |
| `running` | `s.running`; a control is named by the worker that made it |
| `wake` | the token in `s.wake` |
| `closed` | `s.ctx` is cancelled |
| `policy`, `assigned` | rows of queues, `queue_id` of downloads |
| `pc`, `job` | where a worker is in `worker`/`nextJob`, and its job |

Every critical section of `s.mu` is one action, each step outside the lock
another: `Claim` and `ScanNothing` are the two ends of the scan in `nextJob`,
`SignalClaim` its send, `Receive` and `Exit` its select, `Register`, `Release` and
`SignalFree` the body of `worker`, `Unregister` the part of `finishPause` that
removes the control early. `Enqueue` is the accepting path of `enqueue`, `Refuses`
its errors, `Withdraw` the end of `Cancel`. `SetPolicy` and `Assign` are the edits
of queues and assignments. The scan takes the first of the jobs with the
highest priority among those with a free slot (`Beats`). `Priority` is a
constant: the column of a download is not edited in the model.

### 3.2 DownloadService

`DownloadService` extends `Dispatcher`: each of its actions conjoins the
`Dispatcher` action it performs, so a worker in step "run" has a `phase` and
everything else is as before. (That the one implements the other follows from this
form and is not a result; it is a lemma that carries the theorems about the pool over.) A phase is a point of `process` between two
database operations or two uses of `control.mu`. `db` is the state column, `row`
the queue a run read with its row (it writes it back with each state), and
`intent`, `finished`, `stopped` are the fields of its control. A caller's record
`call` says where its operation is, which control it looked up and which row it
read; `todo` holds the calls a queue-wide operation has listed and not yet made.

* `transitionAndSave` writes under the run's context (`SaveOrStop`); the final
  writes ignore it (`FinalSave`).
* `Pause` holds `control.mu` from its check of the row to its write of `pausing`
  (`PauseLock`, `PauseSave`, `Locked`); the run reads the intent under the same
  mutex (`Settle`).
* `EndRun` conjoins `Release`; a caller that still holds the control of an ended
  run keeps its `finished` flag (`over`), as the pointer does in Go.
* What the network and the file system answer is a choice: `Probe`,
  `EngineReturns`, `FinishPause`.

Not modelled here: database writes that fail while the context is alive, the
segments and byte counts of a row (`CheckpointRecovery`), create, RemoveRecord
and DeleteCompletedFile (`Files`). `checkpointInterruptedTask` reads and writes its row in
one step, since only shutdown reaches it. `budget` holds the calls an instance makes;
a scenario (`Scenarios`) gives it its value together with the queues to begin with.

### 3.3 ConnectionController

`limit`, `active`, `successStreak` are the fields of the controller, `notify` the
token of its channel. Its users are calls of `downloadSegmentWithRetry`, one for
each segment a worker takes (a segment started again after a split is another
call); `pc` follows the call through the retry loop. The number of segment
workers is not bounded here, which allows more than the code does. How a
request ends is a choice among success, overload (429, 503), a transient and a
fatal error; the coordinator may cancel a call at any time.

### 3.4 Segments, SegmentEngine

A segment is its bounds and its cursor; states and identifiers of segments are
left out. `PlanSegments` is in closed form: where the i-th range starts is
computed (`StartOf`), not accumulated as in the loop of the code.

`SegmentEngine` is one call of `Engine.Download` for a resource of known length,
a byte at a time.

| state | code |
| --- | --- |
| `at` | where the call is: `downloadRanges`, the single stream, the last report, the rename |
| `segs`, `told`, `snap` | the reporter's segments; the ones last given to the callback; snapshots taken and not yet delivered |
| `base` | `task.Segments`, the ones the call began with |
| `size`, `good`, `durable` | the temporary file: length, offsets with bytes of the resource, those of them that are synced |
| `jobs`, `results`, `width` | the two channels and the number of workers |
| `toStart`, `active`, `cancelled`, `splitting`, `failure` | locals of the coordinator's loop |
| `work`, `attempt`, `until` | what the worker of each segment does, its attempt, the end of its request |

The temporary file has its full length from the start (`Download`,
`RequestWhole`), so its length says nothing: `good` is a history variable for
what really is in it. A worker holds `r.mu` while it writes its cursor and while
it takes a snapshot, and delivers the snapshot outside it: `WriteByte`, then
`Deliver`. The gate in front of a request is `ConnectionController`; here a
worker passes it whenever it likes.

Two abstractions of error paths: the two truncations with which a stream of the whole
resource begins (391, 395) are one step of `RequestWhole`, since what a crash finds
between them, an empty file, is what `EndRanges` leaves as well; and neither they nor
writes and syncs of the temporary file fail.

### 3.5 CheckpointRecovery, Transfer

`CheckpointRecovery` adds the row (`row`, `ranged`), the intent of the run and
the life of the process (`up`). `Probe`, `Prepare`, `Run`, `Report` and `Finish` are
`process`; `Report` is a delivery of the engine together with what the callback
saves. `Continue` is what a resume and a retry do alike: another probe,
`validateResume`, `reconcileTemporaryFile`. `Crash` takes the process away at any
point of a transient state; of the file either everything written remains or
only what was synced. `Recover` is the loop at startup for this row. One run at a
time: which runs may overlap is the subject of `DownloadService`.

`Checkpoint` takes the look at the intent (942) and the `Save` (943) as one step. The
pause that falls between them is in `DownloadService` (`CheckpointDue`,
`SaveCheckpoint`); here it would leave a row "downloading" instead of "pausing", with
the same cursors, and recovery treats the two alike.

`CrashInFallback` is an assumption about the environment. When it is FALSE no
crash falls into the window `Torn`: one stream has emptied the file, which still
exists under its temporary name, and the row still claims bytes that are gone, or
that have been received again and not yet synced. With TRUE the window is open; run `_hole`
shows what happens.

`Transfer` says what all of this is for, in five variables and seven actions: a
call starts from some of the bytes in the file, bytes are added, they are thrown
away only by a call that started from none, published only when whole; a crash
loses none of those the call started from. `CheckpointRecovery` implements it
(`ProgressIsKept`) with `kept` the bytes claimed by `base`, `stored` the set
`good`, `published` the file under the final name.

### 3.6 Files, Handoff

`Files` has several downloads and their names. A name is a path; `file` says
whose bytes it holds, `part` beside which names a `.fluxpart` lies, `row` and
`secret` are the tables, and `call` is the operation a caller is in the middle of,
one action for each system call or transaction. A step "works" or, within a
budget, "fails"; then the code's compensation runs, which may fail too.
`wanted` is a history variable: the downloads whose file the user has and has not
deleted. Calls for one download are not interleaved with each other here
(`DownloadService` does that), only those for different ones.

Names are chosen as the code chooses them: `AvailableDestination` and
`availableFilePath` look at the disk and at nothing else, a reservation is the
exclusive creation of the temporary file, and `Restart` opens its old temporary file
without one. So a name can come into the use of two downloads: a
cancelled download is restarted after another was created under its name; a
completed file is moved to a name another download has reserved; a move or a
completion takes a name between its look-up and its reservation; or, after a failed
step, a row still has a name at which nothing lies any more, and the name is given
away. The code does not prevent any of them. `shared` is a history variable that says whether it has
happened yet: it becomes TRUE when a reservation, a restart or a move takes a name
that another row which is not over has, that a call is about to give to a row, or at
which a file of another download lies. What holds up to that moment is
stated with `~shared` (`FailuresKeepFiles`, `RecordFindsFile`); what follows after it
is shown by the runs `_two_writers` and `_overwritten`; `NothingLeftBehind` holds
in any case.

`CleanUp` is the removal of a temporary file and of the secrets at a cancel: either may
fail, and the code ignores it. `RemoveRecord` is the call of that name, `RemoveHistory`
the one of the file service: the latter does not clear secrets, which completion
has cleared before.

`Handoff` puts the pending store in front of it: `Accept` parks a request and
its answer may be lost, so that the native host forwards it again; `Claim`
starts a creation in `Files`, `Settle` ends it with `Complete` or `Release`.
Expiry is a step that may come at any time; every use of the store sweeps.

### 3.7 Scheduler

Time is counted in half minutes. `Tick` is the ticker with its channel of one;
`loop` is where `RunDue` is, with the occurrences still to handle; `history` is
the table whose unique key makes a claim. `ExecuteSchedule` is two steps,
`SetQueueEnabled` and `Apply`. `ran` is a history variable that counts how often
an action was begun. The clock stops in the last half minute of the last day,
which stands for the rest of that day.

## 4. The runs

Passing runs:

| run | instance | asks |
| --- | --- | --- |
| `MC_DownloadService_pause` | 2 downloads, 2 workers, 2 callers, slice of 1; each download started and paused once, one of them resumed | transfers are controllable and so exclusive, a paused download is quiet, nothing is stranded, a completed row is final, every start comes to rest: `ServiceTypeOK TransferIsControllable PausedIsQuiet NothingStranded CompletedIsFinal Settles` |
| `MC_DownloadService_calls` | 2 downloads, 2 workers, 1 caller, a slice of 2, two queues; four scenarios: two starts and a restart in a queue whose policy is edited (parallel, sequential, gone); start, cancel, restart and shutdown; a start, a move to another queue, a queue-wide operation and shutdown; two starts and a cancel for one slot, and shutdown | the pool under the whole lifecycle: `SlotsAccounted CapacityRespected NoLostWakeup EventuallyDispatched CloseReturns`; every admitted download is let go of: `Quiesces` |
| `MC_ConnectionController_gate` | 3 segments, 3 slots, 2 attempts | `TypeOK SlotsHeld StreakWithinWindow NoLostWakeup EveryCallReturns` |
| `MC_CheckpointRecovery_runs` | 4 bytes, 2 workers, 2 connections (splits make up to 4 segments), one attempt for each segment, one crash or shutdown and one user call | `RecoveryTypeOK SegmentsCover WritersDisjoint NothingForgotten FinalReportIsLast CheckpointBacked RecoveryAlwaysPossible RunEnds ProgressIsKept` |
| `MC_Handoff_files` | 2 downloads, 2 names, 2 callers, one browser request forwarded up to twice, 2 failing steps, 1 crash | `TypeOK FailuresKeepFiles RecordFindsFile NothingLeftBehind ConfirmedOnce ClaimsHeld GoneForGood` |
| `MC_Scheduler_days` | a start and a stop schedule, which an edit may change, two days of three half minutes; one failing step, one crash, one user call | `TypeOK AtMostOnce LastScheduleDecides ClaimsInOrder CatchesUp` |

`QueuedHasJob`, `OnlyLiveControls` and `OwnControlOnly` are
proved (section 5) and not run again. `PublishedIsComplete` follows from
`ProgressIsKept`, since `Transfer` publishes only what is whole; the theorem
`CheckpointsAreBacked` has it too.

Why the bounds are enough. Two workers and two downloads give every race of the
pool: a claim against a claim, a release or a registration of the same download,
and a sleeper against a free slot; a slice of two is full and can hold two jobs
of one download. The theorems of section 5 repeat each safety answer for
every size. In `_pause`, a slice of one job makes refusals happen, and two
workers let the resumed run begin while the paused one unwinds. Each download
is started and paused once there: a second start or a second pause breaks these
properties, as `_double_start` and `_second_pause` show.
`_calls` has the other calls; a pause or a resume is made there only by a queue-wide
operation. One budget with all of them would be out of reach, so each scenario combines
the calls that meet in the code: limits captured at enqueueing against policy edits, a
job left behind by a cancel against the restart, queue-wide operations against a row
that moves, one slot and two downloads; three of the four also with a shutdown at any
point. In the gate, three segments are the smallest number for which one token must
wake two sleepers.

With four bytes in two segments a tail can be split off while the other segment
is being written, fails or is retried by a later run; two workers give every race
of the coordinator with a result in its channel, and a single attempt makes
refused ranges and fallbacks frequent, since a further attempt repeats what the
first did. One crash and one user call in either order give checkpoint, crash,
recovery, resume and a second run from restored cursors. Two callers and two
downloads give every pair of file operations that can meet at a name, and three
troubles are what it takes for a compensation to fail and the process to crash
afterwards. Two schedules give an order; two days give an occurrence that is
missed for good and one that is caught up.

`Settles` is about starts, pauses and resumes. With a failed download retried at
the wrong moment it does not hold (see the list below), nor with a shutdown.
`CatchesUp` presumes that downloads come to rest: a post action that waits for
them holds up the loop. `RecordFindsFile` presumes no crash and at most one
failing step: a crash between a move and the write of its row separates them.

Runs that end in a violation, each a disagreement of code and documentation:

| run | what happens |
| --- | --- |
| `MC_DownloadService_double_start` | A second `Start` between the claim (826) and the registration (790) is accepted: `queued` no longer and `running` not yet has the download. Its run replaces the control of the first; one `Pause` then reaches the second run only, and the row reads `paused` while the engine of the first transfers. |
| `MC_DownloadService_second_pause` | A second `Pause` before the run has returned from its engine sets the intent, finds the row `pausing` and resets the intent (388), also for the first. The run finds its request cancelled for no reason it knows and records a failure. |
| `MC_DownloadService_lost_completion` | `SetDownloadBandwidthLimit` (or `AssignDownloads`) reads a row that says `downloading`; the run completes; the whole row is written back (635). A finished download reads `downloading`, and the next startup, which finds no temporary file, makes it `failed`. |
| `MC_CheckpointRecovery_hole` | A run starts from no bytes, saves a checkpoint and meets an unreliable range; the fallback empties the file and gives it its full length again. A crash before its first checkpoint leaves cursors for bytes that are gone; recovery cannot tell, and the download completes with a hole. |
| `MC_Handoff_overwritten` | A completed file is renamed to the name an unfinished download has reserved: `availableFilePath` looks for the file, not for its `.fluxpart`. The completion of the other download replaces it. |
| `MC_Handoff_two_writers` | A download is cancelled, another is created under the name that is free again, and the first is restarted: `Restart` truncates the temporary file of the other (434) and both rows name it from then on. |

### Behaviour worth knowing

What the models also show, and no run is spent on. In the life of a download:

* A pause accepted after the row says `downloading` and before the engine runs turns
  into a failure, like the second pause of `_second_pause`, when `GetQueue` (922) meets
  the cancelled context.
* `Cancel` of a run that has not reached its engine returns success; the run's
  next write fails, `process` returns, and the row stays `queued`, `probing` or
  `preparing`.
* `Start`, `Restart` and `Cancel` of a row write back what they read as well: a run
  that began in between is overwritten, and writes over them in turn.
* `finishPause` writes `paused` before it removes the control; a `Resume` in
  between is answered with success and nothing runs; the row stays `paused`. After
  `finishWithError` the same window is worse: `Start` writes `retrying`, `enqueue`
  finds the control of the failed run (737) and adds no job, and no operation takes a
  row that says `retrying`.
* A job that a cancel left in the slice may be taken instead of the one a retry has
  added, since the mark is common to both: a stale start does not fit `retrying`, is
  dropped by `process`, and the row stays `retrying`.
* A `Pause` after an accepted `Cancel` replaces its intent and leaves a paused
  download; a run writes the queue it read at its start over a newer assignment;
  a job that waits for a slot starts with the limit and priority of its
  enqueueing, also when its queue has been stopped since.
* A job of a cancelled download stays in the slice and counts towards its bound.

In its bytes:

* A crash in `preparing`, after several segments were planned and before the file
  was preallocated, leaves a row whose file has the wrong length: recovery makes
  it `failed`. A crash between the rename and the completed row leaves a row
  without its file: also `failed`.
* A download with several segments whose server no longer supports ranges, and
  that has no progress, is given to the single stream with its old plan.
* A segment that was cancelled for a split is started again with a fresh context
  even when another has failed meanwhile: the call returns its error only when
  that segment has ended too. `NothingForgotten` and `RunEnds` hold all the same.
* The coordinator starts all segments before it reads a result. That never blocks
  for good, since the job channel, the workers and the result channel hold four
  times as many segments as there are workers, the very bound of splitting; the
  instance stays below that bound.
* While the context of the call is cancelled the coordinator's select finds it
  done over and over, and spins until the last worker has returned.

In its files:

* `ReserveDestination` looks for the name before it reserves the temporary one,
  not after: a move or a completion may take the name in between, and the download
  will replace that file. `Restart` leaves its temporary file behind when the row of a
  cancelled download cannot be saved. So does a cancel whose `os.Remove` fails.
* A failed or paused download keeps its temporary file and its cookies; a failed
  one cannot be cancelled.
* A handoff whose answer is lost is parked twice. Entries that are claimed are
  swept when they expire, and `Discard` removes them too: the confirmation under
  way still creates its download.

In the scheduler:

* A `skip` occurrence can run late: ticks carry their time, and one may wait in
  the channel while the loop waits for downloads. A queued download in a stopped
  queue makes it wait for good, and all schedules with it.
* A crash leaves the row of its occurrence "running" for ever. Erasing private
  data, or deleting and saving a schedule again, erases claims, and an occurrence
  can be repeated. An occurrence of a schedule deleted meanwhile cannot be
  claimed: the error ends the round.

### Fairness

Worker loops, `process` and the steps of a call are weakly fair: goroutines are
scheduled, and mutexes are held only for the steps shown. `EngineReturns` is
strongly fair, and so is no other step: requests have timeouts and bounded
retries, so a transfer ends however many checkpoints interrupt it. New calls,
edits, shutdown and the outcomes themselves are not fair. In
`ConnectionController` each call is weakly fair: a request ends, a sleep ends.
The number of retries bounds how often others can overtake a sleeper.
In `CheckpointRecovery` each segment worker, the taking of jobs, the coordinator,
deliveries and the steps of `process` are weakly fair, and a process that went
away is started again; splits, calls of the user, shutdown and crashes are not
fair. In `Scheduler` the clock and the loop are: a tick that is not taken waits.
`Handoff` states safety only.

Every property has a mutant of the code that breaks it, listed in `PROJECT.json`;
the mutated definitions stand in the modules, each marked as a slip.

## 5. The proofs

All for any number of downloads, workers, queues, policies, calls, bytes, segments,
names, schedules and days, from the named assumptions on the constants only:
workers (calls) are a finite set, limits and bounds are positive, a policy and a
setting have the fields of their rows (`DispatcherAssumption`, `ControllerAssumption`,
`EngineAssumption`, `RecoveryAssumption`, `FilesAssumption`, `HandoffAssumption`,
`SchedulerAssumption`, `ServiceAssumption`, `NoJobAssumption`). Two groups of
theorems need more, and say so in their statements: `~CrashInFallback` (bytes) and
conditions on the order of steps (two theorems of the lifecycle). What they exclude is
what a run that ends in a violation shows to be harmful. The theorems about files have
no condition; two of them speak of the time until a name is shared, and say so in the
property (`~shared`).

**DispatcherProofs.** The inductive invariant is `IInv`: types, `HoldsJob` (a
worker holds a job exactly in the steps claimed, register and run),
`SlotsAccounted`, `CapacityBound`, `QueuedHasJob`, `OnlyLiveControls`,
`NoLostWakeup`. `HoldsJob` is what makes the count of slots inductive: a claim adds
its worker to the holders of one queue and a release removes it. Capacity then
follows at the claim alone: the job claimed has a limit n and the counter, which
is the number of all holders, was below n, so of the holders admitted under any
m >= n there are still at most m (and those under m < n have not changed).
`NoLostWakeup` goes by where the token is: each step that could free a job for a
sleeper ends with its worker in a step that still sends or scans.
`RemoveAtProperties` says what the removal from the slice leaves. Results:
`TypeCorrect`, `SlotsNeverLeak`, `CapacityHolds`, `QueuedIsBacked`,
`ControlsAreLive`, `WakeupsAreKept`, and `OwnControls` for the action property.

**DownloadServiceProofs.** `ServiceTypeCorrect`; and `ServiceKeepsThePool`: what was
proved of the pool holds of the whole service. The lemma it goes by, that every step
of the service is one of `Dispatcher` or leaves its variables alone, is only the form
of the definitions; the work is in `DispatcherProofs`.

`TransfersAreControllable` and `PausedDownloadsAreQuiet` are the two properties that
run `_double_start` shows to fail without help, proved under what the code leaves to
chance. `NoneQueuedInTheGap` is a condition on steps: no call is accepted for a
download between its claim and its registration. Then `OneRun` is inductive (a
download waits, is in that gap, or has a control, and only one of these), and with it
`Controlled`: a run loses its control only when it has nothing left to do, because no
registration overwrites another's. That is all `TransferIsControllable` needs, and it
holds through cancels, restarts, edits and shutdown. `PausedIsQuiet` takes `Quiet` (from
the row "downloading" to the end of the engine the row never says "paused"), which a
stale write of `AssignDownloads` could break: the second condition, `EditsAreFresh`, is
that an edit writes back the state the row still has. Both conditions hold of every
behaviour of run `_pause`, and both are races the code has (section 4).

What becomes of rows and intents beyond this, `NothingStranded`, `CompletedIsFinal`
and `PauseIsNotFailure`, is only model-checked: the code has stale writes, second
pauses and leftover jobs that break them, and a theorem that assumed all of these away
would say little. The runs show on which calls they hold (`_pause`) and two ways in
which they do not.

**ConnectionControllerProofs.** `IInv` is the conjunction of the type invariant,
`SlotsHeld`, `StreakWithinWindow` and `NoLostWakeup`. `SlotsHeld` shows that
`release` never meets a counter of zero, so its guard never hides a leak; the
streak needs the range of the limit and conversely.

**SegmentsProofs.** `PlanIsValid`: for any positive size and number of
connections, the plan is an exact cover whose cursors stand at the starts. The
argument is on `StartOf`: it is a natural number, grows by at least one from
index to index as long as there are no more segments than bytes, and is 0 and the
size at the two ends. `AdvanceKeepsValid` and `SplitKeepsValid` are the two
changes of the reporter: both halves of a tail of two bytes or more are not
empty, and the new segment begins where the last one now ends. Together they say
that `SegmentsCover` is kept by every change of segments, for any size. The module
also holds what the proofs about the engine need of plans: segments follow each
other (`ValidOrder`), every byte lies in one of them (`ValidCovers`), and what the
cursors claim moves with them (the lemmas on `Claimed`). Their inductions go by the
smallest counterexample (`LeastNumber`), since no induction theorem is available.

**CheckpointRecoveryProofs.** Two layers, for any size, any number of workers,
connections, attempts, crashes and calls. `PoolInv` holds without further
assumption. `Pool` says where a segment is: waiting to be sent, in the job channel,
with its worker or in the result channel, and in one place only, so that nobody else
changes it while a worker has it and the channels never overflow. `Plans` says that
all segments held anywhere (reporter, callback, snapshots, the call's own) divide the
resource, `Outcome` that "ok" means complete: a worker's, a result's, and that of the
whole call, which needs every segment to be out of `active` and `toStart` with nothing
remaining. `Length` and `Row` say what the length of the file and the state of the row
tell. It gives `RecoveryTypeCorrect`, `SegmentsAlwaysCover`, `WritersAreDisjoint` (the
end a worker writes up to is the end of its segment), `NothingIsForgotten`,
`LastReportIsFinal` and `RecoveryIsAlwaysPossible`.

`BytesInv` adds `Backed`: what may still be written into a row (the row itself,
snapshots not yet delivered, what was told) claims only synced bytes, except while one
stream fills an emptied file, and that one starts from nothing. This layer
needs `~CrashInFallback`, since run `_hole` is what happens when that window is
open; a first, smaller `Torn` turned out to be too weak for the induction, and was
corrected. Results: `CheckpointsAreBacked` and `ProgressKept`, the refinement of
`Transfer`. Its steps: `Run` is Begin, a byte written Fetch, a request for the whole
and the fallback StartOver, the rename Publish, the last report Stop, `Crash` Crash,
`Restart` by the user Discard, and everything else stutters.

**SchedulerProofs.** `AtMostOnce` is inductive once it is made precise (`Paid`):
an occurrence was begun at most once if its row is in `history`, and once more for
each time a user erased that row. A claim inserts the row only where there is
none, so it pays for the beginning that follows; a crash or an error between the
two only wastes it. `SchedulerTypeCorrect` is needed with it.

The order of claims holds while the user leaves schedules and history alone
(`OrderInv`). Its core is `NothingLate`: an unclaimed occurrence that something of a
later time has passed, by a claim or by being in the round, is in the same round of
`RunDue` or `Gone`, that is, of an earlier day, or missed and not to be caught up; and
what is gone stays gone as the clock moves on. So a round that is given up after a
failure loses nothing earlier than what it claimed, a new round never contains
anything earlier than a claim (`RoundInOrder`), and what is carried out is the latest
claim ever (`DoingLatest`). From this `ClaimsAreInOrder` and, with the queue as
`SetQueueEnabled` left it (`QueueSet`), `TheLastScheduleDecides`. The lemmas on `Day`
are the arithmetic of division by a length of day that is not known.

**HandoffProofs.** `HInv`: types, with the facts about a call that each of its
steps relies on (`Fits`: it has its download and its names; a row that was
inserted keeps a name); `Occupied`, a caller with a claim does nothing but create a
download; and `StoreInv`, the entry it holds is claimed or gone, held by nobody
else and not yet confirmed. The last is what makes expiry during a confirmation
harmless: the sweep may take the entry from its holder, but a gone entry is never
claimed again, so the download that results is still the only one. Results:
`HandoffTypeCorrect`, `ClaimsAreHeld`, `OneDownloadPerHandoff` and
`GoneHandoffsStayGone`.

**FilesProofs.** Proofs about `Files` under all operations of `Handoff`; nothing is
assumed of how names are chosen. One part of the invariant `FInv` holds always.
`RowInv`: calls are about different downloads and find the rows as they left them, and
only an open row has a run. `Counted`: the undoing fails only after a first fault.
`AllKept`: each temporary file and each saved cookie has a keeper, a row or a call.
It needs no owner of a name, since whoever keeps a name keeps it for all who use it.
This gives `NothingIsLeftBehind`.

The other part holds while `~shared`. `NameInv` is about owners: a name
belongs to one row or to the one call that has it for a row, and files follow: at the
name of a row lies its own file or none, the target of a reservation or move stays
empty until it is used, and a run that has published finds its file at the name of its
row. The step that would give a name a second owner is the one that sets `shared`, and
nothing else is asked of it; every other step of a creation, a move with its
compensation, a deletion and a run either keeps owners apart or passes a name from a
call to its row. `Found` follows a file through a move: where the row points, or with a
call that is about to write the row or to move the file back. Results:
`PublishedFilesSurvive` and `RecordsFindTheirFile`. They do not say that published
files are safe in this program: the code lets names be shared, and then they are not
(runs `_overwritten`, `_two_writers`). They say that the operations
modelled here lose one in no other way.

Model-checked only: all liveness (`EventuallyDispatched`, `CloseReturns`, `Quiesces`,
`Settles`, `EveryCallReturns`, `RunEnds`, `CatchesUp`), because the prover has no
reasoning about fairness or ENABLED. Results about recursive definitions
are out of the prover's reach, so the modules avoid them; numbers of segments and
bytes are reasoned about by the smallest counterexample.

## 6. Not modelled

The bandwidth limiter: it delays writes, and a worker may take any time here. The
resource of unknown length: one stream without segments, whose cursor recovery
takes from the length of the file (the branch of `Reconcile` for one segment is
there, for a file that is shorter than expected). A server that changes the length
or the validators of a resource between two probes is the failing choice of
`Continue`. Sync and write errors of the temporary file. Categories, duplicate
detection, profiles, and queries for display. Opening, migrating and backing up
the database.

Left out for good: parsing of HTTP headers, names and framed messages,
encryption, logging, the event bus, the single-instance lock and the shell, the
frontend, the extension and the scripts. They keep no state the core decides by,
or consist of calls to the operating system.
