# TLA+ verification of TelegramDownloader

TelegramDownloader (`src/src/telegram_downloader`) is a Windows desktop program: an asyncio event
loop with worker threads, SQLite for tasks and the catalogue, a Telegram client that streams media
into files, and a helper process that replaces the program by its next version. This directory holds
TLA+ models of it, TLC configurations that check them, and TLAPS proofs. Paths such as
`scheduler.py:576` are relative to `src/src/telegram_downloader`; documents named by a date are in
`src/docs/superpowers/specs`.

## 1. Inventory

| Component | State | Operations | Interacts with | What is hard |
|---|---|---|---|---|
| Media limiter, `resource_control.py` | limit, permits in use, deque of waiters, last key | acquire, release, set_limit, cancellation | scheduler (tasks and files wait at it) | a cancellation that crosses a grant; rotation between tasks |
| Persistence coordinator, `download_persistence.py` | merged progress in memory, a lock, a worker, a sticky fault | record_progress, execute (item and global barriers), drain, close | the only way to the task rows | threads that cannot be cancelled, merged values against later states, a failing batch |
| Scheduler, `scheduler.py` | queue of operations, pause flags and reasons, runners, coroutines per file | run, pause, resume, window, repair, recover, shutdown | controller, window controller, limiter, coordinator, downloader | a row, a flag, an operation and a coroutine are four records of one task, written across awaits |
| Window controller, `download_schedule.py` | last evaluation, the sleeping loop | evaluate, refresh, reconfigure | scheduler, settings | a refresh that waits for what it started; weeks without a boundary |
| Downloader, `downloader.py`, `download_io.py` | `.part`, buffer, digest, target | download, write, flush, finish | gateway stream, coordinator | resuming from the right offset; stops between write, rename and row |
| Integrity service, `file_integrity.py` | baseline digest, status, `.corrupt` files | verify, prepare_repairs | rows, files, scheduler | renames and a row write that may each fail |
| Task rows, `repository.py` | task and item rows | transactions | everything above | recomputed states, recovery |
| Task planner, `planner.py`, `batch_import.py`, `links.py` | previews, inserted tasks | scan, preview, commit | gateway, repository, controller | four flows that plan at once on what each has read |
| Task refresh, `task_refresh.py`, `task_center.py` | dirty revisions, generation, waiters, the view | mark, refresh, reconcile, replace, close | task page | stale loads, coalesced requests |
| Subscriptions, `subscription_*.py` | rules with a cursor, back-off, the due line | baseline, run due rules, edit, pause, enqueue matches | gateway, planner, scheduler | cursor against stops, edits and the account switch |
| Content browser, `content_browser.py`, `catalog.py` | search sessions, cursor, results, ticks | search, load more, stop, delete, recover, enqueue | gateway, catalogue | pages left in threads, generations, ticks against new pages |
| Activity registry and storage maintenance, `maintenance_activity.py`, `storage_*.py` | activity counts, plans, confirmations, policy | track, scan, confirm, clean up, idle loop | scheduler, updates, subscriptions | exclusivity, continuous idleness, entries that changed since they were listed |
| Account access, `controller.py`, `account_access.py`, `connectivity.py` | current and candidate gateway, schedulers, bindings, vault | log in, commit, roll back, cancel, expire, recover | everything bound to an account | four coroutines that replace the same fields |
| QR log-in, `controller.py`, `ui/login.py` | code generation, lock, the waiting task | begin, refresh, wait, cancel | gateway, dialog | requests that outlive their code |
| Update check and download, `update*.py` | partial package, its metadata, sources | check, reconcile, download, verify, start helper | update transaction | resumption, sources that disagree, stops |
| Update transaction, `update_helper.py` | runtime files, backup, extraction, journal | apply, recover_interrupted, roll back | the program's own files | stops and failures between any two renames |
| Diagnostics, `diagnostic*.py` | running checks, report, file | run, cancel, save, load, export | page, store | a white list kept apart from the checks; cancellation between checks |
| Settings, `runtime_settings.py`, `settings.py` | settings in memory, file, registry, vault, tray, window | open, save, undo, record a check | registry, window controller, vault | one effect of several failing |
| Application run, `app.py`, `background.py`, `instance_guard.py`, `activation.py` | window, icon, mutex, services that run | start, activate, hide, exit, shut down | every service | exits in the middle of the start-up; a service that refuses to stop |
| Keyed actions, `ui/async_actions.py` | table of tasks, busy marks | start, replace, cancel, finish, shutdown | window signals | a task that ends after its successor was entered |
| Notifications, `notifications.py` | batches, deadlines, timer | record, flush | scheduler, tray | the one-shot timer against several deadlines |
| Thumbnails, bandwidth limiter, user interface, release tooling | | | | sequential or presentation; section 6 |

PROJECT.json lists every component with its status, and the hazards: the places where this code is
hard to test, each with its line and the properties that cover it.

What makes the components correct: permits are conserved and no wakeup is lost; what was
acknowledged is committed and nothing older overwrites it; a queued task is served, a paused one
stays paused, and no state outlives its operation; a completed file is the whole medium; every
matching message is queued, once; a search skips nothing and keeps the user's ticks; maintenance
runs alone and removes what was listed; whatever a log-in comes to, all parts work for one account;
a save of the settings and an update are all or nothing; a page shows what is, and the user can
always get at the program.

## 2. Modules

Tasks and files:

- `ConcurrencyLimiter` is `AdjustableConcurrencyLimiter`. `acquire` is one action when a permit is
  free (`AcquireNow`), else `AcquireWait` up to its `await`, `Resume` after a grant, and
  `AbandonWait` or `ReturnPermit` when the cancellation that `RequestCancel` asked for is delivered
  before or after a grant. `WakeWaiters` is the loop of `_wake_waiters`, unrolled as often as the
  largest limit lets it run, `NextIndex` the choice of `_pop_next_waiter`. `passed` counts, as a
  history variable, how often the head of the deque was bypassed.
- `DownloadPersistence` is `DownloadPersistenceCoordinator`: callers of `execute` with an item
  barrier, the worker with its merging window, a manager with the global barrier, and drain and
  close. A repository call runs in a thread (`ThreadCommits`, `ThreadFails`) that a cancellation
  cannot stop (`_run_shielded`). An update is represented by its number, so "older" and "newer" can
  be compared. `ProgressStore` states what the download code expects of any persistence layer: rows
  go forward along the writer's numbers and an acknowledged number is durable. `ImplementsStore` is
  the refinement `durable <- db`. Its state and its promises are in `CoordinatorState`, which a run
  composed with another component extends too.
- `DownloadScheduler` is the scheduler with its rows, the user, the window controller, the repair,
  and the life of the process. Commands pass the coordinator's lock in the order in which they came
  (`lock`); this is the abstraction of DownloadPersistence that its properties justify (one owner,
  first come first served). A command and the code up to the caller's next await is one action;
  everything else interleaves. `op`, `runner`, `worker`, `flag`, `row` and `item` are `_operations`,
  `_perform`, `_guarded_item`, `_pause_flags` and the two tables. A file's end is two writes, as in
  the code: `Settle` is `complete_item`'s commit inside `download()`, which recomputes the row, and
  `Confirms` the `_set_item_state` that its caller awaits afterwards; the end of the grace may come
  between them. A FloodWait (`FloodWaits`) is retried without being counted. History variables:
  `asked` is what the user last asked of a task, `cut` holds the completed files whose coroutine was
  cancelled before the second write, `defied` the operations from which a continue or a repair has
  taken the pause since the window closed.
- `DownloadWindow` evaluates the weekly window minute by minute (`evaluate_download_schedule`, its
  next boundary, the loop `_run`); for the scheduler the window is the boolean it yields.
- `MediaFile` is one file: the part file, the target, what fsync has confirmed, the row, and the two
  state machines of `download` (with its writer) and of the integrity service. Content is a sequence
  of block numbers, a digest is the content it was computed of, so that "whole" means `<<1, ...,
  N>>`. The scheduler is reduced to what one file sees of it; broken streams are counted against the
  attempts (`StreamBreaks`), waits that Telegram asks for are not (`FloodWaits`). After a shutdown's
  cancellation (`ending`) nothing begins before the restart. `touched` is a history variable: the
  file, or what a verification has read or recorded of it, may be one that somebody else has
  changed; the rename of a new file clears it, unless such a verification is still under way or has
  been recorded.
- `TaskPlanning` is the way from links, ticked results or a subscription's matches to a task: four
  flows scan, build their preview with its targets, wait for the user and commit. Names are
  sequences of what the code joins, so that two names are equal when their parts are. The key of a
  medium names the peer as its flow does: a scan takes the text of the link (`Served`), a content
  page and a subscription the peer's id (`Ticked`).
- `TaskRefresh` is `TaskRefreshCoordinator` with the loads and the view of the task centre. A row is
  the number of its changes. `TaskView` is what the page promises of its rows (each value was once
  the row's, none goes back); `TaskRefresh` implements it, also while accounts and generations are
  replaced.

Messages and account:

- `Subscriptions` holds the rules in the catalogue, the service that reads the messages behind a
  rule's cursor page by page, the loop that runs due rules, the user who edits and pauses, and
  stops. Each transaction is an action; `run` and `edit` are the coroutines between their awaits.
  `line` is the order of the due times, which leaves rules with equal times in either order.
- `ContentSearch` is one search with its rows and ticks. A database call that outlives its cancelled
  coroutine is an element of `threads`. The search's state and its promises are in `SearchState`,
  which a run composed with another component extends too.
- `AccountSession` has the gateways in the order they are made, the scheduler of each, and what
  every part is bound to, changed by four coroutines: finishing a log-in (with commit and
  roll-back), its cancellation, the expiry handler and the connection monitor. `crossed` is a
  history variable: two of them have crossed where the code does nothing about it (section 5).
  `QrLogin` is the generation counter, the lock and the waiting task of the QR code.

Program and environment:

- `StorageMaintenance` is the activity registry with the service's scans, plans, confirmations and
  clean-ups, the validation of an entry before its removal, and the loop that cleans when the
  program has been idle. Thumbnails are written and dropped at any time (`WriteThumbnail`,
  `DropThumbnail`): pages do that without an activity.
- `DiagnosticProbes` gives each of the nine checks as an ordered list of findings, and the white
  list of the report store; `Diagnostics` runs, cancels, saves, loads and exports.
- `UpdateFetch` leads from the answers of the two sources to the start of the helper (`begun`, a
  history variable, is the issue for which the partial file was begun); `UpdateTransaction` is the
  helper: `apply`, `recover_interrupted` and `_rollback` with every rename, journal write and
  removal as a step; the journal on disk and the dict in memory are two variables. `Fails` is an
  exception in the `try`, `RollbackFails` one in the roll-back, `Stop` the end of the process. The
  constant `Windows` names the windows in which a failure has consequences the code does not handle
  (section 5): the passing run excludes them and thereby shows that there are no others.
- `RuntimeSettings` is a save with its effects one after the other and their undoing; `loose` is a
  history variable, set where the code takes nothing back (a second failure, a save cut by the
  exit).
- `AppRun` is one run of `app.py` with the mutex, the window and its icon, the start-up task and the
  shutdown; `AsyncActions` is the bridge from signals to coroutines; `Notifications` the batches and
  their timer.

How they meet. The scheduler model contains the window controller, the callers and the commands of
the coordinator; MediaFile contains what the scheduler and the coordinator do to one file;
Subscriptions and ContentSearch contain the planner's deduplicating commit, whose own interleavings
are TaskPlanning; StorageMaintenance contains every business as a holder of the registry; what
UpdateFetch launches is where UpdateTransaction begins. `MCTasks` (the scheduler, the task page and
a search), `MCMediaFile` (a file and the coordinator) and `MCDesk` (twelve components) put
components into one run that share no state in their models: a variable (`kind`, `which`) chooses
the one that moves, the others rest in a first state, fairness is a module's own under the condition
that it is the one chosen, so that the behaviours are the sum of the components' behaviours and the
number of states the sum of theirs. That a step of `MCDesk` is one of each component or leaves it
alone is a lemma (`DeskSteps`).

The other `MC*` modules hold values of constants; the `*Proofs` modules hold the theorems. A
definition whose comment starts with "Mutant" is a plausible bug of the definition after it: every
checked property is violated when that definition is replaced by it, which shows that the property
depends on the code.

## 3. Runs

| Run | Instance and bounds | Result |
|---|---|---|
| `scheduler` | two tasks of one file, which the window may have paused before the start, one permit, two attempts, full disks, two user calls, one window edge, one exit | queued is served, a closed window starts nothing but after a continue |
| `tasks` | "repairs": one task of two files, verification and repair, four user calls; "page": two rows with two changes, two callers, one change of the account or the generation; "search": four messages with an album that one limit cuts, pages of two, two limits, two searches, one fault, one tick | a repaired file is not forgotten; the page implements `TaskView` and shows what a refresh was asked for; nothing is skipped and the limit kept, ticks survive, asking for more comes to an end |
| `scheduler_faults` | two tasks of one file, one permit, two attempts, failing commands, refused starts, one user call, one window edge, one exit | rows, operations and coroutines end together, a completed task has completed files, a paused one starts none, every call and every shutdown ends |
| `media` | "media": two blocks, two attempts, two edits by somebody else, one stop; "persistence": two items (two updates of one, one of the other), one manager, the worker, one close, every write may fail, every call may be cancelled once | completed is whole, recorded progress is on the disk, written is kept, a queued file settles; accepted updates are kept and written by one writer (`UpdatesAreKept`), the coordinator is a `ProgressStore`, everything ends |
| `storage` | two thumbnails and two backups of which one each is kept, a part file, one business | maintenance is exclusive, what is removed is still what was listed (but for thumbnails), an idle program cleans in the end |
| `subscriptions` | two rules with two matchers on a dialog of up to two messages and three media (one album), three actions of the user, one failure or stop | queued once, nothing behind a baseline missed, an enabled rule catches up |
| `desk` | twelve components one after the other, see below | each component's own properties |
| `planning_names`, `update_resume`, `window_default`, `grace_completed`, `user_file` | the smallest instances that show the case | violated: section 5 |

The instances of `desk`: the limiter with four callers (two of one task, one of another, one without
a key) and limits 1 to 3; a change of account with three gateways, where a log-in is cancelled only
while a gateway is left to be made and the session is revoked, or the connection breaks, only while
two are (`Early`); six generations of QR codes; two diagnoses; a fetch with every trouble of the
sources and one kill; two plans of three equally named posts of two peers and five links, which name
one of the peers in two ways; a save with two failing effects; a program run with a service that
refuses to stop; two events of each kind in a notification window of two; three tasks alive under
four keys; a week of three days with three minutes, whose window is set anew from the default or
when it could not be evaluated (`Anew`), which reaches every window; an update with three old and
three new files (one replaced, one gone, one new, the manifest), three stops and three failing
calls. Its properties are the modules' (`TypesOK` is the type invariant of the one that moves).

A property that is a conjunction has one subject and a part for each way it can fail:
`PermitsInOrder` (conservation, exact deque, no idle permit, no second bypass), `UpdatesAreKept`,
`EverythingEnds`, `FileIsSound`, `RuntimeIsWhole`, `SearchIsExact`, `NoZombie`, `EndsInTime`,
`PageKeepsUp`, `QrIsCurrent` and `ReportsAreRight`; the parts are defined and commented in the
modules.

Sizes: `scheduler` has 1.8 million distinct states, `media` 0.9, `tasks` 0.7 and `desk` 0.3 million;
the runs take from a few seconds to about three minutes each with two workers.

Why the bounds are enough. Two callers of one key, one of another and one without a key are the
smallest population in which every branch of the rotation is taken, and limit 3 lets one change of
the limit wake several. Two updates of an item are needed for one to be older than the other, and
the second item for a batch to carry a foreign value. In the scheduler one permit for two tasks
makes one wait for the other, two user calls are a pause and a continue in either order (with
failing commands one is enough: a second would be one more caller that is told of the fault), the
window starts open with a task it had paused and may close once, one exit lets a restart find every
state. Two blocks make a beginning and an end of a file, a batch of two and a part of one, and the
block too much makes a middle; a second edit is needed to change a file while a verification judges
the first. The three files of a runtime are the three ways a file changes; three stops and three
failures allow a failing recovery of a failing recovery. Two callers of the task page are what
coalescing needs, and two changes what a stale value needs. One message before and one after a
baseline, the second in an album with the first, reach every branch of the incremental read with
pages of one; two rules make one wait in the line for the other. In the search the album lies across
a page and does not fit under the smaller limit; a second search makes the first's late calls
foreign; one fault (counted for a failure, a cancellation or a stop) leaves up to two calls in
threads. One business is enough for maintenance, which looks only at whether there is any. Three
gateways make one change and its roll-back with an expiry that crosses them. Two failures in a save
are a failing effect and a failing undo.

Deadlock is not checked: in every run the system may stop (a bound is used up, the process is gone,
nobody has work). That nobody waits for ever is stated as liveness instead.

Fairness. asyncio runs every ready callback and a thread ends, so the steps of a coroutine that can
go on are weakly fair; a user's call, a cancellation, a fault, a stop and a window edge never are,
with two exceptions: the search of `tasks` assumes that the user asks for more again (`SearchEnds`
is about that user), and `update_resume` that he checks again. Of Telegram, `scheduler_faults` and
`media` assume that it stops asking a file to wait (`<>[][~FloodWaits]_vars`): `_run_item`
(`scheduler.py:648`) waits as long as it is told and as often, without counting, so that without
this assumption `EndsInTime` (a caller gets his answer) and `FileSettles` do not hold; nothing in
the code bounds it. A stream is fair to end (`StreamEnds`, `DownloadEnds`) because the gateway
iterates a bounded file with timeouts. The limiter's fairness of `Resume`, `AbandonWait`,
`ReturnPermit` and `Release` is written as what they bring about, which is the same since they stay
enabled until they happen. `Begin` of a queued file in `media` is fair by what `QueuedIsServed` and
`CallsEnd` show of the scheduler. A storage scan is strongly fair to end: the thread that reads the
directories goes on while its coroutine is cancelled. The due times of subscriptions and of storage
pass. The update transaction needs no fairness: it states what holds when the helper is not running,
and nothing in the code starts it again. `CaughtUp` is stated for behaviours in which the runner
does not end (section 5), and only for rules that nobody edits during a run.

Stated in the modules, and held by the models when tried, but not kept as properties of the runs:
`Rotation`, `NoGrantPastLimit` (proved),  `ShutdownCompletes`, `PendingOK`, `FetchEnds`,
`LoginEnds`, `DiagnosisEnds`, `ExitEnds`, `ShutdownReturns`, and `Settles` and `CallsEnd` of the
task page.

## 4. Proofs

Eight modules hold proofs; each is about every value of the constants under the assumptions it
names. A proof begins with an inductive invariant, which TLC checked on the run's instance before;
one lemma per action keeps it, and the properties follow from it. Every invariant that a passing run
checks, and every property that is not liveness, is a theorem, some under a hypothesis that is named
here.

The limiter, in `DeskProofs`: for every finite set of callers, every assignment of keys and every
limit up to `MaxLimit` (at most 5, `_validate_limit`) the type invariant, `PermitConservation`,
`QueueIsWaiting`, `NoIdlePermit`, `BoundedBypass` (together `PermitsInOrder`) and
`NoGrantPastLimit`. None is inductive alone: that no permit idles needs the deque to be exact, or a
grant could find nobody to wake, and that the bypass is bounded needs to know that only the head is
ever bypassed and that its key then differs from the last one granted, so that it is next. The
inductive invariant `IInv` is the conjunction of `QueueOK` (types, exactness, conservation and the
bypass) with `NoIdlePermit`. Its core is `GrantOK`, a single grant preserves `QueueOK`, lifted to
the whole loop by `WakeWaitersOK`, while `WakeWaitersExit` shows that the loop ends only with the
permits or the deque used up. The loop runs at most as often as there are permits, which are at most
five; therefore the loop is unrolled and no induction over data is needed. The lemmas on sequences
(`RemoveAtIs`, `LeastPosition`, `RemoveFirstIs`) say what deleting a position does.

`DownloadSchedulerProofs`: for any tasks with any number of files, any limits and bounds, and
whichever of the disturbances happen (refusals, failing commands, repairs, window edges, exits),
`NoZombie`. The inductive invariant `SchedulerInv` holds the four records of a task together:
`Seated` (an operation has a runner exactly while it is active), `Gathered` (a coroutine runs only
while its runner gathers), `Written` and `Rows` (an item or a row says DOWNLOADING or WAITING_RETRY
only while somebody is there who will write it again), `Selected` and `Finals` (what an operation is
for and what it is about to write), and `Keyed` (a dispatch key is in the lock once, and only for an
operation that waits for it). The last is what lets a pause take an operation out of the table while
its key is on the way. They hold while no command has failed and the grace period has not run out;
after that only `Typed` remains, the process ends, and `RecoveredRow` restores the rest.

`CompletedMeansAll` (of a completed task every item is completed, but for those of `cut`, over which
the end of the grace wrote) and `QueuedIsServed` are proved for a scheduler without repairs
(`Integrity = FALSE`), the second also without refused starts (`Maintenance = FALSE`): section 5
shows how either breaks them. `WholeInv` adds that a coroutine's result is the row of its item
unless it was cut (`Results`), so that what a runner decides from the results of its coroutines is
true of the rows (`Decided`), and that a cancelled runner decides nothing more (`Halted`), although
its coroutines may still complete an item. `Served` follows a queued row to the operation or to the
pause that is on its way to it, through every step that takes an operation out of the table; the
lemmas `AmongAppend`, `AmongTail`, `AmongJoin` and `LockTurns` say that whoever waits for the lock
goes on waiting until its turn.

`PauseStops` is proved for every value of the constants, repairs and failing commands included. A
file starts only where its coroutine looks at the flag (`StartsAtTop`). `Stopped` says why the flag
is set whenever a coroutine of a paused task gets there: nothing that waits for the lock, and
nothing the opening window has chosen, would queue the task again; an operation it still has carries
the flag and the user's reason and has no selected items left, so that it can only end; and neither
its row nor the row its runner is about to write is one the window would resume. `Steady` collects
what a step must not take back of this, and each action is shown to be steady or to be the pause,
the continue or the repair that begins or ends the obligation. A crash keeps only the row, which is
why the row is in the invariant.

`ClosedStartsNothing` is proved for every value of the constants: behind the closed gate a file
starts only in an operation of `defied`, that is one at work from which a continue or a repair has
taken the pause back since the window closed; that user has the better of the window, as section 5
says, and nothing else has. `Shut` needs two reasons for the flag of what is at work: the gate is
closed, or a fault was handled, after which the window may open the gate again although the
coroutines of ended operations still run.

`RepairServed` is proved for a scheduler without repairs, where it follows from `CompletedMeansAll`,
and for one with repairs that no failure, refusal or stop disturbs (`Calm`), each of which drops the
repair that would have asked for the file again. A task completes over a queued file only when its
operation listed the files before the repair took that one back (`Missed`); the invariant
`Remembered` says that then the repair is still about to ask (`Attended`), and, once it has asked,
that the operation it finds either is its own or began after the file was queued and will list it.

`DownloadPersistenceProofs`: for any items, any number of updates, and whatever fails or is
cancelled, `UpdatesAreKept`, `NoStaleOverwrite`, `ClosedIsFinal` and the refinement
`ImplementsStore`. `PersistInv` keeps two arguments apart. `Locked` is about who may write: the
lock's queue holds each waiter once, an agent is in it exactly while it waits or works, and only its
head has a repository call in flight, also when the caller of that call was cancelled and its thread
goes on. `InOrder` is about what is written: of every item the batch in flight is newer than the row
and older than what is pending, an item's own command runs with nothing of it pending, and what a
global barrier has to see is in the rows when it is behind the lock. Neither says enough alone: a
batch stays newer than the row only because nobody else writes meanwhile. `Ending` adds that the
close queues behind every call it accepted. A commit is then `Store!Commit` with larger numbers, and
every other step acknowledges what is durable or changes nothing the store knows.

`MediaFileProofs`: `FileIsSound` and `NothingLost` for a file of any size, any number of attempts,
edits and stops. `PartIsStraight` says that block k of the part is block k of the medium, `Offsets`
that the three records of one offset are equal wherever download() streams: the part's length, the
writer's count, and the digest's input; the buffer continues them. A failed write leaves them apart,
and is followed by nothing that would append. So a part of the expected length is the medium and its
digest is the medium's. `RepairAlone` says that nothing is in the way of what a repair has moved,
`Untouched` follows the medium to whoever holds it (target, repair, a verification's reading, the
row), and `Progress` that what is counted, pending or recorded is on the disk.

`TaskRefreshProofs`: `PageKeepsUp` for any rows, callers, changes and events, that is the refinement
of `TaskView` (no value goes back, and none is shown that the row never had), that a caller is
answered with what he asked for, and that nothing of a replaced scheduler is shown. `Between` orders
the page, what the worker has read, and the rows; `OfThisScheduler` says that a load of the current
generation has read the scheduler in use; and `Wanted` follows each caller's wish to whatever
carries a revision as late as his: the page for what was applied, the load for its batch. Coalescing
keeps `Wanted` because a later mark takes the number the earlier load does not have.

`StorageMaintenanceProofs`: `MaintenanceIsExclusive` and `RemovedAsListed` for any businesses,
files, limits and initial directory. The strengthening says that what was validated is unchanged
until it is removed, which holds because whoever writes a part file or a backup is a business, and a
business excludes maintenance; thumbnails are excepted, which pages write without being one.

`SubscriptionsProofs`: `QueuedOnce` for any rules, matchers, albums, edits, failures and stops. A
task is counted only where none was, because the commit takes the media no row has; this is what
makes reading the messages of an unadvanced cursor again harmless. `NothingMissed` for any dialog
(`DialogAssumption`: messages are numbered from 1, and the first of an album comes before the
others). `ReadInv` follows a run from its read to its commit: what the run has collected together
with what it has passed are all messages between the rule's cursor and its own position (`InStep`),
and behind the start of a rule everything up to its cursor was queued or does not match (`Passed`).
A rule that is edited during its run is `crossed` and leaves the invariant until its next baseline.

`ContentSearchProofs`: `SearchIsExact` for any account, albums that follow each other
(`SearchAssumption`), pages and limits, with any number of searches, faults and calls left in
threads. The difficulty is that an album that does not fit is skipped and a smaller one behind it
still taken, so that what two overlapping pages may add depends on what each has seen. `Best(limit)`
is what an undisturbed search would take, the only set that is `Greedy`: whole albums, newest first,
that still fit. The invariant says that all that was taken, and all that any commit under way will
add, is in `Best(limit)` (so that two of them together keep the limit), consists of whole albums
(`Whole`), and that every hit down to the offset has its album in it (`Passed`). It holds of the
session, of the operation between its awaits and of each job in a thread whose generation is the
session's (`Pending`); a job of another generation writes nothing. That a page's loop (`Accepted`, a
function on the page's units) takes what the greedy search takes there is an induction over the
units, and that `Best` exists one over the messages.

`SelectionSurvives` in the same module: only the actions that take an intent off the deque may take
a tick away, and taking one changes the deque, which is why the only invariant needed is that it is
a sequence.

`DeskProofs` holds the theorems about the components that run `desk` puts side by side, the
limiter's above and these:

- `SwitchCutsNothing` and `Coherent` of the account session for any gateways, accounts and
  downloads. The invariant says, for each place of the finishing log-in and of the expiry handler,
  which of the bindings are already the new gateway's; gateways are numbered in the order in which
  they are made, so that a new one is nobody's yet.
- `QrIsCurrent` for any number of codes: the last request for a code is the one that waits, what was
  replaced is not waited for again, and between requests what is displayed is current.
- `ResumesItsOwn` of the update's download for any number of kills (`OwnPartIsResumed`): whatever
  the sources re-issue, break off or spoil, a download goes on only from a partial file begun for
  the issue it asks for. `FetchInv` says that a partial file has metadata, and that they name the
  issue it was begun for at every place where the program can stop.
- `AppliedOrUndone` for any number of failures, if no check for updates records its time during a
  save (`Overlap = FALSE`). `Forward` says which effects have the new value at each step,
  `Unchanged` that those not in `done` have the old one, `Undone` what the way back has restored,
  and `Counted` that a second failure is one the code takes nothing back after (`loose`).
- `AppInReach` for any services that refuse to stop. `Reachable` relates window, icon and exit;
  `Stopping` says that after a complete start-up what still runs has its turn to come
  (`Left(shutdown)`) or failed to stop.
- `ActionsAreKnown` for any number of tasks alive at a time (`MaxAlive \in Nat`). That no task is
  unknown needs `TableIsAlive` (an entry is a living task of its key), without which a finishing
  task could take its successor's entry away, and `BusyIsKnown` (a mark has an entry of its page).

- `ReportsAreRight` for any number of diagnoses and any findings: `EveryOutcomeIsListed` compares
  each of the nine checks with the white list, which the code keeps apart from them; `DxRunning` and
  `DxReported` say that what is collected, and what is on its way to the store, ends with cancelled
  results only, and `DxOneAtATime` that no second diagnosis writes between them.
- `MediaApart` and `ConfirmedIsQueued` of the planner for any posts whose messages differ, any
  links, batch size and number of plans. `AvailableIs` shows that `_available_target` finds a name
  nobody has (there are more numbers than names in use), `TargetedIs` and `BuiltIs` carry that
  through a preview of any length; `KeyedIs` says that posts stay apart under the keys of a flow,
  whichever of a peer's names it takes, and `PlanRows` keeps for the rows of one task that their
  targets differ.
- `FollowsTheWeek` for a week of any number of days and minutes (`WeekAssumption`): the evaluation
  of `evaluate_download_schedule` agrees with the minutes the settings describe, also across
  midnight and the end of the week, and the change it announces is the first one. It rests on the
  lemmas about quotient and remainder (`DivisionIs`, `MinuteOfWindow`, `DayBefore`), because the
  code divides where the settings name days.
- `RuntimeIsWhole` of the update transaction for every pair of runtimes and every number of stops
  and failures, if the three windows in which they have consequences are excluded (`Windows
  \subseteq {"user"}`: the user may add files at any time); each of them alone breaks it, as section
  5 says. The invariant states at each place of the program what the directory is: `UpdateForward`
  that old files up to index `i` are in the backup and new ones up to `i` are installed, with the
  journal on disk at most one entry behind the files, `UpdateBackward` what the roll-back has put
  back, `AtHome` what a start of the helper may find. What connects them is `Undoable`: a journal
  lists every file that has changed, so that the roll-back from it, by this process or a later one,
  ends with the old runtime.
- `TypesOK` for every value of the constants (`DeskNumbers`: gateways are numbered and bounds are
  numbers; `Windows \subseteq {"user"}`). Most of the types are inductive only together with the
  invariants above. The lists of a journal repeat no file, which `load_update_journal` would refuse,
  because they are beginnings of the two runtimes' lists, as long as the helper has got
  (`UpdateLists`); the sources of a download that still needs one are never used up (`FetchTypes`);
  what was notified and what waits add up to what was counted (`NoticeTypes`).
- `DeskIsSafe` puts them together: all the safety properties of the run, in the specification that
  the run checks.

Assumptions: the named ASSUMEs of the modules (`FilesAssumption`, `PostsAssumption`,
`WeekAssumption`, `SearchAssumption`, `DialogAssumption` and those of the limiter and the stores),
which the runs evaluate, and the hypotheses named above. Where a property holds under a hypothesis
only (`Integrity = FALSE`, `Overlap = FALSE`, `Windows`), section 5 says what breaks it otherwise.

Only model-checked: liveness (`EverythingEnds`, `EndsInTime`, `FileSettles`, `CleansInTheEnd`,
`CaughtUp`, `SearchEnds`, `WaitEnds`, `EventsAreGiven`), which is out of the prover's reach, like
ENABLED. Induction over data is not available as a theorem with an operator for its parameter; where
a proof needs it (the limits of a page, the names of a preview, the minutes of a week) it takes the
least number at which the claim fails (`LeastPosition`, `UpTo`), and that a recursive function is
what its definition says is shown from the set of its beginnings (`StepByStep`, `OutcomesExist`).
RECURSIVE operators the modules have none.

## 5. Promises the code does not keep

Found by the runs named (the counterexample is the run's output):

- **Two messages get one file** (`planning_names`). `_available_target` (`planner.py:434`) looks at
  the targets of its own preview and at the disk, not at the rows that are queued and not downloaded
  yet. 2026-08-13-telegram-downloader-design.md:170 promises a name with the message's number. The
  second medium of equal size is then recorded as completed with the first one's content, one of
  another size fails for good; run together they share a `.part`.
- **A whole partial package is never installed** (`update_resume`). A stop between the last piece
  and the rename leaves a partial file of full size; every later check asks for the range behind its
  end, and the answer 416 neither verifies nor drops it (`update_download.py:132`).
  `src/README.md:204` promises resumption.
- **Equal times on every day end the window** (`window_default`). `evaluate_download_schedule`
  raises when no minute of eight days changes its answer (`download_schedule.py:57`), which is the
  case with the default times when the window is enabled.
  2026-08-22-tray-background-notifications-scheduling-design.md:96 says that equal times open the
  whole day.

- **A completed file is paused by the end of the grace** (`grace_completed`). `complete_item`
  commits the item and recomputes its task; a shutdown whose grace runs out before the caller's
  `_set_item_state` has confirmed it cancels the coroutine, whose handler (`scheduler.py:709`)
  writes PAUSED over the item only. A completed task with a paused item remains, also after the next
  start. 2026-08-24-download-persistence-responsiveness-design.md:102 says that a cancellation
  cannot take back a final state that has entered the channel. `CompletedMeansAll` excepts these
  items.
- **A file of the user is overwritten** (`user_file`). The helper looks for unmanaged files once
  (`update_helper.py:84`) and then waits up to two minutes for the application to exit; a file that
  the user puts into the directory meanwhile, under the name of a new file, is replaced.
  `src/README.md:204` promises that the updater overwrites no such file.

Further cases that TLC showed on the way, stated in the modules and not kept as runs.

Tasks and files:

- A continue during the end of a pause is lost: it writes `queued` and joins the operation that is
  still ending (`scheduler.py:287`), which then writes `paused` over it (`ResumeHonoured`;
  2026-08-16-download-resource-control-design.md:66 promises the queue).
- A verification result can be overwritten: the final state of an operation comes from the results
  of its coroutines (`scheduler.py:576`), so a failure recorded meanwhile ends as a completed task.
  A repair writes the damaged item before its task's row, and a continue that crosses a repair may
  leave a queued row outside the queue; therefore `CompletedMeansAll` and `QueuedIsServed` are
  stated for schedulers without repairs.
- A window that closes is not seen while the downloads it resumed run (`WindowCloses`): `refresh`
  waits for them under its lock (`scheduler.py:280`). An exception that `refresh` raises inside
  `_run` ends the loop (`download_schedule.py:117`).
- A verification judges a file it has read against a baseline it read before, and writes its result
  over whatever the row has become (`file_integrity.py:157`): a user who removes the file and
  retries the download meanwhile may get the old file's digest for the new one. It takes two edits
  of the file; `touched` excludes it.
- The progress of a file that the user removes between its rename and its completion is recorded
  with nothing on the disk.
- A FloodWait is retried without being counted (`scheduler.py:648`): if Telegram keeps asking for
  waits, a caller of `run_task` waits for ever and a file never settles; `EndsInTime` and
  `FileSettles` assume that it stops asking (section 3).
- One medium may be queued in two tasks: the key of a medium names its peer by the text of the link
  for scans (`gateway.py:493`, `links.py:84`) and by its id for content pages and subscriptions
  (`gateway.py:605`), so that the UNIQUE of `repository.py:63` does not see that they are one.
  `MediaApart` only says that the targets of a task differ;
  2026-08-13-telegram-downloader-design.md:147 counts a medium by its peer.
- A damaged file is accepted by a retry (`BaselineKept`): after a verification found a wrong digest,
  a retry finds a file of the right size, registers its content as verified (`downloader.py:129`)
  and overwrites the baseline that 2026-08-16-file-integrity-repair-design.md:40 keeps until a
  repair.
- A pause that a window edge or another operation overtakes (`PauseHonoured`; also the restored
  queue, which was read before the pause), and the reason recorded then: the window's
  (`UserPauseWins`), so the task comes back by itself at the next window.
- A window that reopens while paused operations are still ending leaves them paused
  (`ReopenedResumes`).
- A continue outside the window clears the flag of an operation that is still active, and a repair's
  selection does the same (`scheduler.py:278`); the operation then starts its remaining files behind
  the closed gate, although 2026-08-22-tray-background-notifications-scheduling-design.md:107 and
  :174 say that outside the window no download starts. `ClosedStartsNothing` excepts these
  operations (`defied`).
- A repair that queues a file while an operation that listed the files before is still to write its
  result (`scheduler.py:576`), and is then lost with an exit, a refused start or a failing command,
  leaves the file queued in a completed task (`RepairServed`).
- A task whose row was recomputed in the middle of its files by the completion of one of them is not
  found by `recover_interrupted` (`RecoversRunning`).
- A continue that is accepted for a task whose operation then refuses its items leaves a queued row
  without an operation until the next start.
- `execute()` drops the command of a caller that is cancelled while it waits for the lock
  (`download_persistence.py:177`), although
  2026-08-24-download-persistence-responsiveness-design.md:102 says that a cancellation cannot take
  back a final state that has entered the channel.
- `start()` of the task refresh during a replacement raises.

Storage:

- A thumbnail that a page has just written or read can be removed by a clean-up: nothing tracks it
  between the look at it (`storage_cleanup.py:267`) and the removal (`:190`), although
  2026-08-22-storage-maintenance-design.md:151 protects thumbnails in use. `RemovedAsListed` excepts
  thumbnails. A cancellation that comes after a scan's last look at its event is lost, since the
  execution gets a new one (`storage_maintenance.py:412`).

Update, settings, program:

- A failed roll-back of an update cannot be repeated (`RollbackRepeats`): the journal is not
  advanced during the roll-back, so the second one removes the old files that the first had restored
  (`update_helper.py:180`).
- A stop of the update helper between a rename and the journal that records it loses a file
  (`Windows = {"unrecorded"}`: `NothingLost`, `AllOrNothing`, `LaunchesWhole`); one during the
  roll-back of an update whose journal already says committed, or is gone, leaves a mixture
  (`{"committed"}`). Only `helper_main` recovers, and only the running program starts the helper:
  after a stop that took the executable away nobody does.
- A save of the settings that the exit cancels takes nothing back; a second failure during the undo
  leaves the effects apart; with `Overlap = TRUE`, a check for updates that records its time during
  a save, that time is lost (`NothingForgotten`, `controller.py:2306` and `:3564`) or the old
  settings are written back over the saved ones, which breaks `AppliedOrUndone` too. `app.py:1019`
  reads and writes the settings in the same way.
- An exit during the start-up: `storage_scheduler.start` raises "already closed", which `run()` lets
  through; a `DownloadScheduleController.start` after its shutdown leaves a loop that nobody
  cancels; the start of the controller goes on after its shutdown. `AppInReach` therefore promises
  stopped services only to a run whose start-up had ended.
- A second launch during the shutdown is answered "ok", and then nothing runs.
- Storage keys of the bridge share one busy mark: an `activate` that finishes clears it while a scan
  runs. A request after the bridge's shutdown is still accepted, and a task cancelled before its
  first step runs no hook.
- The completion of a task that was retried is silenced by the record of its first end; the tray
  keeps one route, so a click on an older balloon opens the newest. Batches that wait when the
  program exits are dropped: the module of the notifications has no exit, and `EventsAreGiven` is
  about a program that runs.

Messages and accounts:

- A rule edited during its run can lose the messages the old run passes (`crossed`); a pause during
  a baseline is overwritten by the saved copy; after the newest message is deleted the advance
  refuses; an account changed at the wrong moment ends the runner of all rules with a KeyError
  (`RunnerLives`), and a deleted rule can be written back (`DeletedStaysDeleted`).
- A search can stay RUNNING without an operation after a cancellation before its `try`; a commit
  left in a thread can write RUNNING over INCOMPLETE; a late `finish_cancelled` finds its search by
  the id only; a stop between the queueing and `finalize` leaves queued rows ticked.
- An expiry that takes the services down while a commit replaces them leaves the scheduler, the
  subscriptions and the pages with different gateways, since the roll-back of the one and the
  binding of the other do not look at what is current; a code's waiter that is stopped after
  Telegram's yes leaves a session that is not saved (`crossed`, which `Coherent` excludes).
- A roll-back of a log-in restores gateways and vault but not the account that the pages show
  (`RollbackRestoresAccount`;
  2026-08-23-account-safe-relogin-manual-update-tg-quick-fetch-design.md:234); `cancel_login` during
  the commit may disconnect the current gateway; a recovery in progress can reconnect a gateway that
  was replaced; the expiry handler does not ask which gateway failed; the roll-back's
  `set_admission_open(True)` ignores the download window.
- A user name or a saved secret that is a word of the report's vocabulary makes every diagnosis
  unsavable, and so does a negative `PRAGMA user_version`; `activate_diagnostics` can replace a
  newer report on the page.

## 6. What is not modelled

- Unknown file sizes (`expected_size` None): nothing tells an early end from the end.
- Time: delays, expiries and back-off are steps that may happen whenever they are pending; the
  weekly window is counted in minutes of a small week, notification windows in ticks.
- Priorities (`prioritize_task`): operations are admitted by creation; `configure_resources` is the
  limiter's `SetLimit` and not repeated in the scheduler.
- Parsing, validation, signatures and hashing of packages, manifests and journals: one guard or one
  outcome. Journal writes are atomic and renames durable in order.
- A verification or repair thread that overlaps a retry of the same file (its renames take
  milliseconds); without that exclusion `CompletedIsWhole` fails when the download falls between
  them (`file_integrity.py:219`).
- Two cancellations of one call of the coordinator: no code path cancels such a caller twice.
- The queue restored at the start is read and run in one step (`controller.py:906`).
- QR: a cancelled wait ends before Telegram's next answer. Changing the API credentials
  (`submit_credentials`).
- Archiving, statistics, migrations of the databases; deletion of tasks; the matching of texts (a
  table); histories of runs and clean-ups; the privacy scan of reports; the proxy test; the routes
  of notifications; the start-up indicator.
- The thumbnail cache's own sizes and order (its reads, writes and drops are steps of
  `StorageMaintenance`): losing an entry costs a request. Bandwidth limiter: floating-point start
  times; to a file its wait is any wait. User interface: Qt models and widgets, driven by the
  controller. Release tooling: scripts on a developer's machine.

Components with status `partly` or `not_modelled` say in PROJECT.json what is missing.

## 7. Plan

Done, in the order of importance for the user's data: limiter, coordinator and its abstract store,
scheduler, media file, update transaction; then the task page, subscriptions, storage maintenance,
search, planning; then accounts, QR codes, settings, diagnostics, the update's way to the helper,
the window and the life of the program.

The proofs followed the same order; no invariant of a run is left without its theorem.

Left to model: priorities in the scheduler, `submit_credentials`, archiving and deletion of tasks
against running operations, the thumbnail cache with several requests for one key.
