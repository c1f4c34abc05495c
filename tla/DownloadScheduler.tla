--------------------------- MODULE DownloadScheduler ---------------------------
(***************************************************************************)
(* DownloadScheduler (scheduler.py) over the task rows of repository.py,   *)
(* with the callers that drive it: the user's pause and resume             *)
(* (controller.py), the download window (download_schedule.py), the        *)
(* integrity repair and the start, shutdown and crash of the process.      *)
(*                                                                         *)
(* Every access to a row is a command behind the persistence coordinator's *)
(* lock (module DownloadPersistence): `lock` holds its callers in order.   *)
(* The lock is released when the caller resumes, so a command and the      *)
(* caller's code up to its next await are one action here, and everything  *)
(* else may happen between two of them.  Rows of items are written by      *)
(* _set_item_state in two commands that nothing separates but reads; they  *)
(* are one.  The bytes of an item are module MediaFile's.                  *)
(***************************************************************************)
EXTENDS Integers, FiniteSets, SequencesExt

CONSTANTS Tasks,        \* numbers; the order is (created_at, id)
          Size,         \* how many media items each task has
          Limit,        \* the permit limit, the same for tasks and items
          Attempts,     \* RetryPolicy.attempts
          Waits,        \* transient errors happen and are retried
          FullDisk,     \* the disk may be full
          Maintenance,  \* exclusive maintenance may refuse a starting task
          Integrity,    \* files are verified and repaired
          Faults,       \* a repository call may fail
          WasPaused,    \* tasks may be found paused by the window at the start
          MaxCalls, MaxFlips, MaxStops   \* bounds: user calls, window edges, exits

Items == {i \in Tasks \X (1..5) : i[2] <= Size[i[1]]}
ItemsOf(t) == {i \in Items : i[1] = t}

ASSUME TasksAssumption == Tasks \subseteq Nat /\ IsFiniteSet(Tasks)
ASSUME SizeAssumption == Size \in [Tasks -> 1..5]
ASSUME LimitAssumption == Limit \in 1..5 /\ Attempts \in Nat \ {0}
ASSUME SwitchAssumption ==
  {Waits, FullDisk, Maintenance, Integrity, Faults, WasPaused} \subseteq BOOLEAN
ASSUME BoundAssumption == {MaxCalls, MaxFlips, MaxStops} \subseteq Nat

VARIABLES row,       \* the task's status and pause_reason in the database
          item,      \* the item's status in the database
          flag,      \* _pause_flags
          reason,    \* _pause_reasons
          op,        \* the task's entry in _operations and where it is
          want,      \* its item_ids; {} stands for None
          runner,    \* where _perform of the active operation stands
          final,     \* the status the runner is about to write
          worker,    \* where the _guarded_item coroutine of each item stands
          tries,     \* transient_attempts
          lock,      \* callers of persistence.execute() in order
          admission, \* _admission_open
          window,    \* the wall clock is inside the download window
          allowed,   \* DownloadScheduleController._last_allowed
          refresh,   \* where DownloadScheduleController.refresh stands
          chosen,    \* the tasks it resumes or waits for
          repair,    \* where the integrity operation stands
          target,    \* its item
          process,   \* up, in shutdown, or gone
          restored,  \* the queue was restored after the start
          fault,     \* the persistence coordinator's sticky fault
          calls, flips, stops,
          asked,     \* auxiliary: the last thing the user asked of a task
          cut,       \* auxiliary: completed items whose coroutine was cancelled
                     \* before download()'s caller had confirmed them
          defied     \* auxiliary: tasks at work whose pause by the window was
                     \* taken back while the window is closed

db == <<row, item>>
memory == <<flag, reason, op, want>>
coroutines == <<runner, final, worker, tries>>
schedule == <<window, allowed, refresh, chosen, flips>>
integrity == <<repair, target>>
life == <<process, restored, fault, stops, cut, defied>>
user == <<calls, asked>>
vars == <<db, memory, coroutines, lock, admission, schedule, integrity, life, user>>

Row(status, why) == [status |-> status, why |-> why]
Statuses == {"QUEUED", "DOWNLOADING", "WAITING_RETRY", "PAUSED", "PARTIAL_FAILURE",
             "COMPLETED"}
Reasons == {"none", "user", "schedule"}
ItemStatuses == {"QUEUED", "DOWNLOADING", "WAITING_RETRY", "PAUSED", "FAILED", "COMPLETED"}

Pauser(t) == <<"pause", t, 0>>
Resumer(t) == <<"resume", t, 0>>
Dispatcher(t) == <<"dispatch", t, 0>>
Runner(t) == <<"run", t, 0>>
Worker(i) == <<"item", i[1], i[2]>>
Refresher == <<"refresh", 0, 0>>
Repairer == <<"repair", 0, 0>>
Callers == {Refresher, Repairer} \cup {Worker(i) : i \in Items} \cup
  UNION {{Pauser(t), Resumer(t), Dispatcher(t), Runner(t)} : t \in Tasks}

(* A caller's turn: its command runs.  A runner that ended is out of the   *)
(* table before the thread of the next command is back: its done callback  *)
(* is already scheduled.                                                   *)
Turn(a) == lock # <<>> /\ lock[1] = a /\ ~fault /\ \A t \in Tasks : runner[t] # "ended"
Alive == process \in {"up", "grace", "cancelled"}
ShuttingDown == process # "up"

Active == {t \in Tasks : op[t] = "active"}
(* Item coroutines that hold a permit.                                     *)
Holding == {i \in Items : worker[i] \notin {"none", "permit", "paused", "failed",
                                            "completed", "raised"}}
Ended(i) == worker[i] \in {"none", "paused", "failed", "completed", "raised"}
-----------------------------------------------------------------------------
(***************************************************************************)
(* The queue.  Completes: the completions of the tasks in S are resolved,  *)
(* and whoever shields one of them is resumed.                             *)
(***************************************************************************)
Completes(S) ==
  /\ chosen' = IF refresh = "waiting" THEN chosen \ S ELSE chosen
  /\ repair' = IF target[1] \in S /\ repair = "joined" THEN "check"
               ELSE IF target[1] \in S /\ repair = "own" THEN "idle" ELSE repair

(* _admit_available: waiting operations in dispatch order while there is   *)
(* room.                                                                   *)
Admitted(ops, open, rc) ==
  LET room == Limit - Cardinality({t \in Tasks : ops[t] = "active"})
      before(t) == {u \in Tasks : ops[u] = "pending" /\ u < t}
      new == {t \in Tasks : /\ process = "up" /\ open /\ ops[t] = "pending"
                            /\ Cardinality(before(t)) < room}
  IN  /\ op' = [t \in Tasks |-> IF t \in new THEN "active" ELSE ops[t]]
      /\ runner' = [t \in Tasks |-> IF t \in new THEN "begin" ELSE rc[t]]

(* The head of `lock` leaves it; the callers in `then` queue up.           *)
Leaves(then) == lock' = Tail(lock) \o then

(* The numbers of a finite set in ascending order: the only member.        *)
Ascending(S) == {f \in [1..Cardinality(S) -> S] :
                   \A j, k \in 1..Cardinality(S) : j < k => f[j] < f[k]}

(* run_task for the tasks in S: a new operation whose coroutine reads the  *)
(* dispatch key, or the existing one.                                      *)
New(S) == {t \in S : op[t] = "none"}
Queues(S) == {[k \in DOMAIN order |-> Dispatcher(order[k])] : order \in Ascending(New(S))}
RunTasks(S) ==
  /\ op' = [t \in Tasks |-> IF t \in New(S) THEN "dispatch" ELSE op[t]]
  /\ want' = [t \in Tasks |-> IF t \in New(S) THEN {} ELSE want[t]]

(* _queue_operation after its dispatch key is known.                       *)
Dispatch(t) ==
  /\ Turn(Dispatcher(t))
  /\ Leaves(<<>>)
  /\ Admitted([op EXCEPT ![t] = "pending"], admission, runner)
  /\ UNCHANGED <<db, flag, reason, want, final, worker, tries, admission, schedule,
                 integrity, life, user>>
-----------------------------------------------------------------------------
(* A pause is overtaken by a resume on its way, by the operation's own     *)
(* pause on its way, and by run_items, which clears the flag.              *)
Overtaken(t) == \/ \E k \in DOMAIN lock : lock[k] = Resumer(t)
                \/ refresh = "resume" /\ t \in chosen
                \/ final[t].status = "PAUSED"
                \/ want[t] # {}

(* pause_tasks up to its command: an operation that is not active is gone. *)
CallPause(t) ==
  /\ Alive /\ calls < MaxCalls
  /\ row[t].status \in {"QUEUED", "DOWNLOADING", "WAITING_RETRY"}
  /\ flag' = [flag EXCEPT ![t] = TRUE]
  /\ reason' = [reason EXCEPT ![t] = IF op[t] = "active" THEN "user" ELSE @]
  /\ LET gone == IF op[t] \in {"dispatch", "pending"} THEN {t} ELSE {}
     IN  /\ op' = [op EXCEPT ![t] = IF t \in gone THEN "none" ELSE @]
         /\ Completes(gone)
         /\ lock' = Append(IF t \in gone THEN RemoveFirst(lock, Dispatcher(t)) ELSE lock,
                           Pauser(t))
  /\ calls' = calls + 1
  /\ asked' = [asked EXCEPT ![t] = IF Overtaken(t) THEN "overtaken" ELSE "pause"]
  /\ UNCHANGED <<db, want, coroutines, admission, window, allowed, refresh, flips,
                 target, life>>

(* Its command, update_task_statuses.                                      *)
Pause(t) ==
  /\ Turn(Pauser(t))
  /\ Leaves(<<>>)
  /\ row' = [row EXCEPT ![t] =
               IF @.status \in {"QUEUED", "DOWNLOADING", "WAITING_RETRY"}
               THEN Row("PAUSED", "user") ELSE @]
  /\ UNCHANGED <<item, memory, coroutines, admission, schedule, integrity, life, user>>

CallResume(t) ==
  /\ process = "up" /\ calls < MaxCalls
  /\ row[t].status \in {"PAUSED", "PARTIAL_FAILURE"}
  /\ lock' = Append(lock, Resumer(t))
  /\ calls' = calls + 1
  /\ asked' = [asked EXCEPT ![t] = "resume"]
  /\ UNCHANGED <<db, memory, coroutines, admission, schedule, integrity, life>>

(* resume_tasks after its command: what was accepted is queued.            *)
Resumable(S) ==
  {t \in S : row[t].status \in {"PAUSED", "PARTIAL_FAILURE", "WAITING_RETRY"}}

(* Mutant: outside the window a resumed task is not queued.                      *)
ResumesWhenOpen(S) ==
  /\ row' = [t \in Tasks |-> IF t \in S THEN Row("QUEUED", "none") ELSE row[t]]
  /\ flag' = [t \in Tasks |-> IF t \in S THEN FALSE ELSE flag[t]]
  /\ reason' = [t \in Tasks |-> IF t \in S THEN "none" ELSE reason[t]]
  /\ IF ShuttingDown \/ ~admission THEN Leaves(<<>>) /\ UNCHANGED <<op, want>>
     ELSE RunTasks(S) /\ \E queue \in Queues(S) : Leaves(queue)

Resumes(S) ==
  /\ row' = [t \in Tasks |-> IF t \in S THEN Row("QUEUED", "none") ELSE row[t]]
  /\ flag' = [t \in Tasks |-> IF t \in S THEN FALSE ELSE flag[t]]
  /\ reason' = [t \in Tasks |-> IF t \in S THEN "none" ELSE reason[t]]
  /\ IF ShuttingDown THEN Leaves(<<>>) /\ UNCHANGED <<op, want>>
     ELSE RunTasks(S) /\ \E queue \in Queues(S) : Leaves(queue)

Resume(t) ==
  /\ Turn(Resumer(t))
  /\ Resumes(Resumable({t}))
  /\ defied' = IF op[t] = "active" /\ ~admission THEN defied \cup {t} ELSE defied
  /\ UNCHANGED <<item, coroutines, admission, schedule, integrity, process, restored,
                 fault, stops, cut, user>>
-----------------------------------------------------------------------------
(* _perform starts: activity.track may refuse.                             *)
RunnerBegins(t) ==
  /\ runner[t] = "begin"
  /\ \/ /\ runner' = [runner EXCEPT ![t] = "priority"]
        /\ lock' = Append(lock, Runner(t))
     \/ /\ Maintenance
        /\ runner' = [runner EXCEPT ![t] = "raised"]
        /\ UNCHANGED lock
  /\ UNCHANGED <<db, memory, final, worker, tries, admission, schedule, integrity,
                 life, user>>

(* clear_task_priority, then _execute_task or _execute_items.              *)
RunnerCleared(t) ==
  /\ Turn(Runner(t)) /\ runner[t] = "priority"
  /\ runner' = [runner EXCEPT ![t] = IF want[t] = {} THEN "downloading" ELSE "selected"]
  /\ Leaves(<<Runner(t)>>)
  /\ UNCHANGED <<db, memory, final, worker, tries, admission, schedule, integrity,
                 life, user>>

(* _execute_items checks its items and clears the pause flag.              *)
RunnerSelected(t) ==
  /\ Turn(Runner(t)) /\ runner[t] = "selected"
  /\ IF \A i \in want[t] : item[i] = "QUEUED"
     THEN /\ flag' = [flag EXCEPT ![t] = FALSE]
          /\ runner' = [runner EXCEPT ![t] = "downloading"]
          /\ Leaves(<<Runner(t)>>)
          /\ defied' = IF admission THEN defied ELSE defied \cup {t}
          /\ UNCHANGED reason
     ELSE /\ reason' = [reason EXCEPT ![t] = "none"]
          /\ runner' = [runner EXCEPT ![t] = "raised"]
          /\ Leaves(<<>>)
          /\ UNCHANGED <<flag, defied>>
  /\ UNCHANGED <<db, op, want, final, worker, tries, admission, schedule, integrity,
                 process, restored, fault, stops, cut, user>>

(* One coroutine per item of S, each waiting for a permit.                 *)
Spawns(t, S) ==
  /\ worker' = [i \in Items |-> IF i \in S THEN "permit" ELSE worker[i]]
  /\ tries' = [i \in Items |-> IF i \in S THEN 0 ELSE tries[i]]
  /\ cut' = cut \ S

(* update_task_status(DOWNLOADING).                                        *)
RunnerDownloading(t) ==
  /\ Turn(Runner(t)) /\ runner[t] = "downloading"
  /\ row' = [row EXCEPT ![t] = Row("DOWNLOADING", "none")]
  /\ IF want[t] = {}
     THEN /\ runner' = [runner EXCEPT ![t] = "list"]
          /\ Leaves(<<Runner(t)>>)
          /\ UNCHANGED <<worker, tries, cut>>
     ELSE /\ runner' = [runner EXCEPT ![t] = "gather"]
          /\ Leaves(<<>>)
          /\ Spawns(t, want[t])
  /\ UNCHANGED <<item, memory, final, admission, schedule, integrity, process, restored,
                 fault, stops, defied, user>>

(* Mutant: failed items are left out.                                            *)
UnfinishedShort(t) ==
  {i \in ItemsOf(t) : item[i] \in {"QUEUED", "PAUSED", "WAITING_RETRY"}}

Unfinished(t) ==
  {i \in ItemsOf(t) : item[i] \in {"QUEUED", "PAUSED", "WAITING_RETRY", "FAILED"}}

(* list_items.                                                             *)
RunnerLists(t) ==
  /\ Turn(Runner(t)) /\ runner[t] = "list"
  /\ runner' = [runner EXCEPT ![t] = "gather"]
  /\ Leaves(<<>>)
  /\ Spawns(t, Unfinished(t))
  /\ UNCHANGED <<db, memory, final, admission, schedule, integrity, process, restored,
                 fault, stops, defied, user>>

(* _recompute_task_status, from the rows its transaction sees.             *)
Recomputed(t, it) ==
  LET seen == {it[i] : i \in ItemsOf(t)}
  IN  CASE "DOWNLOADING" \in seen -> Row("DOWNLOADING", "none")
        [] "WAITING_RETRY" \in seen /\ "DOWNLOADING" \notin seen ->
             Row("WAITING_RETRY", "none")
        [] "FAILED" \in seen /\ {"DOWNLOADING", "WAITING_RETRY"} \cap seen = {} ->
             Row("PARTIAL_FAILURE", "none")
        [] "PAUSED" \in seen
             /\ {"DOWNLOADING", "WAITING_RETRY", "FAILED"} \cap seen = {} ->
             Row("PAUSED", "user")
        [] seen = {"COMPLETED"} -> Row("COMPLETED", "none")
        [] OTHER -> Row("QUEUED", "none")

(* asyncio.gather returns: the results decide the status to write; a       *)
(* cancelled one raises.                                                   *)
RunnerGathered(t) ==
  /\ runner[t] = "gather" /\ \A i \in ItemsOf(t) : Ended(i)
  /\ LET some(s) == \E i \in ItemsOf(t) : worker[i] = s
     IN  IF process = "cancelled"
         THEN /\ runner' = [runner EXCEPT ![t] = "ended"]
              /\ reason' = [reason EXCEPT ![t] = "none"]
              /\ UNCHANGED <<final, lock>>
         ELSE /\ runner' = [runner EXCEPT ![t] = "final"]
              /\ lock' = Append(lock, Runner(t))
              /\ final' = [final EXCEPT ![t] =
                   CASE some("paused") ->
                          Row("PAUSED", IF reason[t] = "none" THEN "user" ELSE reason[t])
                     [] ~some("paused") /\ want[t] # {} -> Row("recompute", "none")
                     [] ~some("paused") /\ want[t] = {} /\ some("failed") ->
                          Row("PARTIAL_FAILURE", "none")
                     [] OTHER -> Row("COMPLETED", "none")]
              /\ reason' = [reason EXCEPT ![t] = IF some("paused") THEN "none" ELSE @]
  /\ worker' = [i \in Items |-> IF i \in ItemsOf(t) THEN "none" ELSE worker[i]]
  /\ UNCHANGED <<db, flag, op, want, tries, admission, schedule, integrity, life, user>>

(* The final write; `finally` drops the reason.                            *)
RunnerWrites(t) ==
  /\ Turn(Runner(t)) /\ runner[t] = "final"
  /\ row' = [row EXCEPT ![t] =
               IF final[t].status = "recompute" THEN Recomputed(t, item) ELSE final[t]]
  /\ final' = [final EXCEPT ![t] = Row("none", "none")]
  /\ reason' = [reason EXCEPT ![t] = "none"]
  /\ runner' = [runner EXCEPT ![t] = "ended"]
  /\ Leaves(<<>>)
  /\ UNCHANGED <<item, flag, op, want, worker, tries, admission, schedule, integrity,
                 life, user>>

(* _finish_operation, the runner's done callback: an error is raised in    *)
(* everyone who shields the completion.                                    *)
FinishOperation(t) ==
  /\ runner[t] \in {"ended", "raised"}
  /\ Admitted([op EXCEPT ![t] = "none"], admission, [runner EXCEPT ![t] = "none"])
  /\ want' = [want EXCEPT ![t] = {}]
  /\ defied' = defied \ {t}
  /\ IF runner[t] = "ended"
     THEN Completes({t}) /\ UNCHANGED refresh
     ELSE /\ refresh' = IF refresh = "waiting" /\ t \in chosen THEN "dead" ELSE refresh
          /\ repair' = IF repair \in {"joined", "own"} /\ target[1] = t THEN "idle" ELSE repair
          /\ UNCHANGED chosen
  /\ UNCHANGED <<db, flag, reason, final, worker, tries, lock, admission, window,
                 allowed, flips, target, process, restored, fault, stops, cut, user>>
-----------------------------------------------------------------------------
(***************************************************************************)
(* _guarded_item and _run_item.                                            *)
(***************************************************************************)
Stopping(t) == flag[t] \/ ShuttingDown

(* Mutant: the pause flag is not looked at before a start.                       *)
TopWithoutFlag(i) == IF ShuttingDown THEN "pausing" ELSE "download"

(* The head of _run_item's loop.                                           *)
Top(i) == IF Stopping(i[1]) THEN "pausing" ELSE "download"

(* A coroutine goes on to phase p, behind the lock unless p is download.   *)
Goes(i, p) ==
  /\ worker' = [worker EXCEPT ![i] = p]
  /\ lock' = IF p = "download" THEN lock ELSE Append(lock, Worker(i))

Acquire(i) ==
  /\ worker[i] = "permit" /\ Cardinality(Holding) < Limit
  /\ Goes(i, Top(i))
  /\ UNCHANGED <<db, memory, runner, final, tries, admission, schedule, integrity,
                 life, user>>

(* Telegram asks to wait: no attempt is counted, however often it asks.    *)
FloodWaits(i) == worker[i] = "download" /\ Goes(i, "waiting") /\ UNCHANGED tries

(* downloader.download returns or raises.                                  *)
DownloadEnds(i) ==
  /\ worker[i] = "download"
  /\ \/ Goes(i, "completing") /\ UNCHANGED <<tries, reason>>
     \/ Goes(i, "failing") /\ UNCHANGED <<tries, reason>>
     \/ /\ Stopping(i[1])                                       \* DownloadPaused
        /\ Goes(i, "pausing") /\ UNCHANGED <<tries, reason>>
     \/ /\ FullDisk                                             \* InsufficientSpace
        /\ Goes(i, "pausing")
        /\ reason' = [reason EXCEPT ![i[1]] = "user"]
        /\ UNCHANGED tries
     \/ /\ Waits                                                \* a transient error
        /\ tries' = [tries EXCEPT ![i] = @ + 1]
        /\ Goes(i, IF tries[i] + 1 >= Attempts THEN "failing" ELSE "waiting")
        /\ UNCHANGED reason
     \/ Waits /\ FloodWaits(i) /\ UNCHANGED reason
  /\ UNCHANGED <<db, flag, op, want, runner, final, admission, schedule, integrity,
                 life, user>>

(* The first chunk: the item's row becomes downloading.                    *)
Chunk(i) ==
  /\ worker[i] = "download" /\ item[i] # "DOWNLOADING" /\ ~fault
  /\ item' = [item EXCEPT ![i] = "DOWNLOADING"]
  /\ UNCHANGED <<row, memory, coroutines, lock, admission, schedule, integrity, life,
                 user>>

(* The item's last command: its row, its result, its permit.  complete_item*)
(* also recomputes the task's row, whatever it says; it runs inside        *)
(* download(), and _set_item_state confirms it behind it.                  *)
Settle(i) ==
  /\ Turn(Worker(i)) /\ worker[i] \in {"completing", "failing", "pausing"}
  /\ LET s == CASE worker[i] = "completing" -> <<"COMPLETED", "confirming">>
                [] worker[i] = "failing" -> <<"FAILED", "failed">>
                [] OTHER -> <<"PAUSED", "paused">>
     IN  /\ item' = [item EXCEPT ![i] = s[1]]
         /\ worker' = [worker EXCEPT ![i] = s[2]]
         /\ row' = IF worker[i] = "completing"
                   THEN [row EXCEPT ![i[1]] = Recomputed(i[1], item')] ELSE row
  /\ Leaves(IF worker[i] = "completing" THEN <<Worker(i)>> ELSE <<>>)
  /\ UNCHANGED <<memory, runner, final, tries, admission, schedule, integrity,
                 life, user>>

(* _set_item_state(COMPLETED), which writes only over another status.      *)
Confirms(i) ==
  /\ Turn(Worker(i)) /\ worker[i] = "confirming"
  /\ item' = [item EXCEPT ![i] = "COMPLETED"]
  /\ worker' = [worker EXCEPT ![i] = "completed"]
  /\ Leaves(<<>>)
  /\ UNCHANGED <<row, memory, runner, final, tries, admission, schedule, integrity,
                 life, user>>

(* A wait before a retry: the item's row, then the task's, then a sleep.   *)
RetryItem(i) ==
  /\ Turn(Worker(i)) /\ worker[i] = "waiting"
  /\ item' = [item EXCEPT ![i] = "WAITING_RETRY"]
  /\ worker' = [worker EXCEPT ![i] = "waitingTask"]
  /\ Leaves(<<Worker(i)>>)
  /\ UNCHANGED <<row, memory, runner, final, tries, admission, schedule, integrity,
                 life, user>>

RetryTask(i) ==
  /\ Turn(Worker(i)) /\ worker[i] = "waitingTask"
  /\ row' = [row EXCEPT ![i[1]] = Row("WAITING_RETRY", "none")]
  /\ worker' = [worker EXCEPT ![i] = "sleep"]
  /\ Leaves(<<>>)
  /\ UNCHANGED <<item, memory, runner, final, tries, admission, schedule, integrity,
                 life, user>>

Wakes(i) ==
  /\ worker[i] = "sleep"
  /\ Goes(i, IF Stopping(i[1]) THEN "pausing" ELSE "retrying")
  /\ UNCHANGED <<db, memory, runner, final, tries, admission, schedule, integrity,
                 life, user>>

(* The task's row goes back to downloading, and the loop starts over.      *)
Retries(i) ==
  /\ Turn(Worker(i)) /\ worker[i] = "retrying"
  /\ row' = [row EXCEPT ![i[1]] = Row("DOWNLOADING", "none")]
  /\ worker' = [worker EXCEPT ![i] = Top(i)]
  /\ Leaves(IF Top(i) = "download" THEN <<>> ELSE <<Worker(i)>>)
  /\ UNCHANGED <<item, memory, runner, final, tries, admission, schedule, integrity,
                 life, user>>
-----------------------------------------------------------------------------
(***************************************************************************)
(* DownloadScheduleController: refresh() when its timer fires, under its   *)
(* lock, so one at a time.                                                 *)
(***************************************************************************)
Edge ==
  /\ flips < MaxFlips
  /\ flips' = flips + 1
  /\ window' = ~window
  /\ UNCHANGED <<db, memory, coroutines, lock, admission, allowed, refresh, chosen,
                 integrity, life, user>>

(* Mutant: only the gate closes, nothing active pauses.                          *)
RefreshClosesGate ==
  /\ Alive /\ refresh = "idle" /\ ~window /\ allowed
  /\ allowed' = FALSE /\ admission' = FALSE
  /\ reason' = [t \in Tasks |-> IF t \in Active /\ reason[t] = "none" THEN "schedule"
                                ELSE reason[t]]
  /\ flag' = flag
  /\ defied' = {}
  /\ UNCHANGED <<db, op, want, coroutines, lock, window, refresh, chosen, flips,
                 integrity, process, restored, fault, stops, cut, user>>

(* set_schedule_open(False).                                               *)
RefreshCloses ==
  /\ Alive /\ refresh = "idle" /\ ~window /\ allowed
  /\ allowed' = FALSE /\ admission' = FALSE
  /\ reason' = [t \in Tasks |-> IF t \in Active /\ reason[t] = "none" THEN "schedule"
                                ELSE reason[t]]
  /\ flag' = [t \in Tasks |-> flag[t] \/ t \in Active]
  /\ defied' = {}
  /\ UNCHANGED <<db, op, want, coroutines, lock, window, refresh, chosen, flips,
                 integrity, process, restored, fault, stops, cut, user>>

(* set_schedule_open(True) up to list_paused_by_reason.                    *)
RefreshOpens ==
  /\ Alive /\ refresh = "idle" /\ window /\ ~allowed
  /\ admission' = TRUE
  /\ Admitted(op, TRUE, runner)
  /\ refresh' = "list"
  /\ lock' = Append(lock, Refresher)
  /\ UNCHANGED <<db, flag, reason, want, final, worker, tries, window, allowed, chosen,
                 flips, integrity, life, user>>

(* resume_tasks refuses during a shutdown.                                 *)
RefreshLists ==
  /\ Turn(Refresher) /\ refresh = "list"
  /\ IF ShuttingDown
     THEN refresh' = "idle" /\ allowed' = TRUE /\ Leaves(<<>>) /\ UNCHANGED chosen
     ELSE /\ chosen' = {t \in Tasks : row[t] = Row("PAUSED", "schedule")}
          /\ refresh' = "resume" /\ Leaves(<<Refresher>>) /\ UNCHANGED allowed
  /\ UNCHANGED <<db, memory, coroutines, admission, window, flips, integrity, life,
                 user>>

(* resume_tasks waits for the downloads it resumed.                        *)
RefreshResumes ==
  /\ Turn(Refresher) /\ refresh = "resume"
  /\ Resumes(Resumable(chosen))
  /\ chosen' = IF ShuttingDown THEN {} ELSE Resumable(chosen)
  /\ refresh' = "waiting"
  /\ UNCHANGED <<item, coroutines, admission, window, allowed, flips, integrity, life,
                 user>>

RefreshReturns ==
  /\ refresh = "waiting" /\ chosen = {}
  /\ refresh' = "idle" /\ allowed' = TRUE
  /\ UNCHANGED <<db, memory, coroutines, lock, admission, window, chosen, flips,
                 integrity, life, user>>
-----------------------------------------------------------------------------
(***************************************************************************)
(* The integrity service and repair_media: a verification that finds a     *)
(* damaged file, the preparation of its repair, run_items.                 *)
(***************************************************************************)
VerifyStarts(i) ==
  /\ Integrity /\ process = "up" /\ repair = "idle" /\ calls < MaxCalls
  /\ item[i] = "COMPLETED" /\ row[i[1]].status \in {"COMPLETED", "PARTIAL_FAILURE"}
  /\ repair' = "verify" /\ target' = i
  /\ calls' = calls + 1
  /\ UNCHANGED <<db, memory, coroutines, lock, admission, schedule, life, asked>>

(* record_integrity_failure and _success, not behind the lock.             *)
VerifyEnds ==
  /\ repair = "verify"
  /\ \/ /\ item' = [item EXCEPT ![target] = "FAILED"]
        /\ row' = [row EXCEPT ![target[1]] = Row("PARTIAL_FAILURE", "none")]
        /\ repair' = "damaged"
     \/ /\ item' = [item EXCEPT ![target] = "COMPLETED"]
        /\ row' = [row EXCEPT ![target[1]] = Recomputed(target[1], item')]
        /\ repair' = "idle"
  /\ UNCHANGED <<memory, coroutines, lock, admission, schedule, target, life, user>>

(* prepare_integrity_repair, not behind the lock, then run_items.          *)
RepairPrepares ==
  /\ repair = "damaged"
  /\ IF item[target] = "FAILED"
     THEN /\ item' = [item EXCEPT ![target] = "QUEUED"]
          /\ row' = [row EXCEPT ![target[1]] = Recomputed(target[1], item')]
          /\ repair' = "run"
     ELSE repair' = "idle" /\ UNCHANGED db
  /\ UNCHANGED <<memory, coroutines, lock, admission, schedule, target, life, user>>

(* _queue_operation for the selected item: a new operation, or whichever   *)
(* operation the task has by now.                                          *)
RepairQueues ==
  LET t == target[1]
  IN  IF op[t] = "none"
      THEN /\ op' = [op EXCEPT ![t] = "dispatch"]
           /\ want' = [want EXCEPT ![t] = {target}]
           /\ asked' = [asked EXCEPT ![t] = "resume"]
      ELSE UNCHANGED <<op, want, asked>>

RepairRuns ==
  /\ repair = "run" /\ process = "up"
  /\ IF op[target[1]] = "none"
     THEN /\ RepairQueues
          /\ lock' = Append(lock, Dispatcher(target[1]))
          /\ repair' = "own"
     ELSE repair' = "joined" /\ UNCHANGED <<op, want, asked, lock>>
  /\ UNCHANGED <<db, flag, reason, coroutines, admission, schedule, target, life, calls>>

(* run_items after the operation it joined: is the item still queued?      *)
RepairAsks ==
  /\ repair = "check"
  /\ IF ShuttingDown THEN repair' = "idle" /\ UNCHANGED lock
     ELSE repair' = "read" /\ lock' = Append(lock, Repairer)
  /\ UNCHANGED <<db, memory, coroutines, admission, schedule, target, life, user>>

(* Mutant: a file that is still queued is not run.                               *)
RepairChecksOnly ==
  /\ Turn(Repairer) /\ repair = "read"
  /\ IF FALSE
     THEN /\ RepairQueues
          /\ Leaves(IF op[target[1]] = "none" THEN <<Dispatcher(target[1])>> ELSE <<>>)
          /\ repair' = "own"
     ELSE /\ IF item[target] = "COMPLETED"
             THEN repair' = "recompute" /\ Leaves(<<Repairer>>)
             ELSE repair' = "idle" /\ Leaves(<<>>)
          /\ UNCHANGED <<op, want, asked>>
  /\ UNCHANGED <<db, flag, reason, coroutines, admission, schedule, target, life, calls>>

RepairChecks ==
  /\ Turn(Repairer) /\ repair = "read"
  /\ IF item[target] = "QUEUED"
     THEN /\ RepairQueues
          /\ Leaves(IF op[target[1]] = "none" THEN <<Dispatcher(target[1])>> ELSE <<>>)
          /\ repair' = "own"
     ELSE /\ IF item[target] = "COMPLETED"
             THEN repair' = "recompute" /\ Leaves(<<Repairer>>)
             ELSE repair' = "idle" /\ Leaves(<<>>)
          /\ UNCHANGED <<op, want, asked>>
  /\ UNCHANGED <<db, flag, reason, coroutines, admission, schedule, target, life, calls>>

RepairRecomputes ==
  /\ Turn(Repairer) /\ repair = "recompute"
  /\ row' = [row EXCEPT ![target[1]] = Recomputed(target[1], item)]
  /\ repair' = "idle"
  /\ Leaves(<<>>)
  /\ UNCHANGED <<item, memory, coroutines, admission, schedule, target, life, user>>
-----------------------------------------------------------------------------
(***************************************************************************)
(* A failing repository call.  The coordinator's fault sticks: the head of *)
(* the lock gets the error, and from then on everyone who reaches it.      *)
(***************************************************************************)
(* _handle_persistence_fault, at the first error: admission is closed,     *)
(* what waits is resolved with the error, what is active is asked to pause.*)
HandleFault ==
  /\ fault' = TRUE
  /\ admission' = IF fault THEN admission ELSE FALSE
  /\ flag' = [t \in Tasks |-> flag[t] \/ (~fault /\ t \in Active)]

(* Mutant: waiting operations are not resolved by a fault.                       *)
CommandFailsAlone ==
  /\ lock # <<>> /\ (fault \/ Faults)
  /\ lock' = Tail(lock)
  /\ HandleFault
  /\ LET kind == lock[1][1]
         t == lock[1][2]
         hit == {u \in Tasks : kind = "dispatch" /\ u = t}
         \* the runner raises, or its gather does at an item's first error
         raises == kind = "run" \/ (kind = "item" /\ runner[t] = "gather")
     IN  /\ op' = [u \in Tasks |-> IF u \in hit THEN "none" ELSE op[u]]
         /\ refresh' = IF kind = "refresh" \/ (refresh = "waiting" /\ chosen \cap hit # {})
                       THEN "dead" ELSE refresh
         /\ repair' = IF kind = "repair" \/ (repair \in {"joined", "own"} /\ target[1] \in hit)
                      THEN "idle" ELSE repair
         /\ worker' = IF kind = "item"
                      THEN [worker EXCEPT ![<<t, lock[1][3]>>] = "raised"] ELSE worker
         /\ runner' = IF raises THEN [runner EXCEPT ![t] = "raised"] ELSE runner
         /\ reason' = IF raises THEN [reason EXCEPT ![t] = "none"] ELSE reason
  /\ UNCHANGED <<db, want, final, tries, window, allowed, chosen, flips, target,
                 process, restored, stops, cut, defied, user>>

CommandFails ==
  /\ lock # <<>> /\ (fault \/ Faults)
  /\ lock' = Tail(lock)
  /\ HandleFault
  /\ LET kind == lock[1][1]
         t == lock[1][2]
         hit == {u \in Tasks : \/ (op[u] = "pending" /\ ~fault)
                              \/ (kind = "dispatch" /\ u = t)}
         \* the runner raises, or its gather does at an item's first error
         raises == kind = "run" \/ (kind = "item" /\ runner[t] = "gather")
     IN  /\ op' = [u \in Tasks |-> IF u \in hit THEN "none" ELSE op[u]]
         /\ refresh' = IF kind = "refresh" \/ (refresh = "waiting" /\ chosen \cap hit # {})
                       THEN "dead" ELSE refresh
         /\ repair' = IF kind = "repair" \/ (repair \in {"joined", "own"} /\ target[1] \in hit)
                      THEN "idle" ELSE repair
         /\ worker' = IF kind = "item"
                      THEN [worker EXCEPT ![<<t, lock[1][3]>>] = "raised"] ELSE worker
         /\ runner' = IF raises THEN [runner EXCEPT ![t] = "raised"] ELSE runner
         /\ reason' = IF raises THEN [reason EXCEPT ![t] = "none"] ELSE reason
  /\ UNCHANGED <<db, want, final, tries, window, allowed, chosen, flips, target,
                 process, restored, stops, cut, defied, user>>
-----------------------------------------------------------------------------
(***************************************************************************)
(* shutdown(): what waits is resolved, what is active is asked to pause,   *)
(* and cancelled when the grace period ends; then the persistence closes   *)
(* behind the commands it was given, and the process is gone.              *)
(***************************************************************************)
Shutdown ==
  /\ process = "up" /\ stops < MaxStops
  /\ process' = "grace"
  /\ stops' = stops + 1
  /\ flag' = [t \in Tasks |-> flag[t] \/ t \in Active]
  /\ op' = [t \in Tasks |-> IF t \in Active THEN "active" ELSE "none"]
  /\ Completes(Tasks \ Active)
  /\ \E kept \in Ascending({k \in DOMAIN lock : lock[k][1] # "dispatch"}) :
       lock' = [k \in DOMAIN kept |-> lock[kept[k]]]
  /\ UNCHANGED <<db, reason, want, coroutines, admission, window, allowed, refresh, flips,
                 target, restored, fault, cut, defied, user>>

(* The runners are cancelled: a download is abandoned and its item paused, *)
(* also one whose completion is written and not yet confirmed; whoever     *)
(* sleeps or waits for the lock or a permit raises as it stands.           *)
GraceEnds ==
  /\ process = "grace" /\ Active # {}
  /\ process' = "cancelled"
  /\ LET abandoned == {i \in Items : worker[i] \in {"download", "completing", "confirming"}}
         kept == SelectSeq(lock, LAMBDA a : a[1] \notin {"run", "item"})
     IN  /\ worker' = [i \in Items |-> IF i \in abandoned THEN "pausing"
                                       ELSE IF Ended(i) THEN worker[i] ELSE "raised"]
         /\ lock' = kept \o SetToSeq({Worker(i) : i \in abandoned})
  /\ runner' = [t \in Tasks |-> IF t \in Active /\ runner[t] # "gather" THEN "ended"
                                 ELSE runner[t]]
  /\ reason' = [t \in Tasks |-> IF t \in Active /\ runner[t] # "gather" THEN "none"
                                 ELSE reason[t]]
  /\ cut' = cut \cup {i \in Items : worker[i] = "confirming"}
  /\ UNCHANGED <<db, flag, op, want, final, tries, admission, schedule, integrity,
                 restored, fault, stops, defied, user>>

Gone ==
  /\ process' = "gone"
  /\ lock' = <<>>
  /\ asked' = [t \in Tasks |->
       CASE Contains(lock, Pauser(t)) \/ Contains(lock, Resumer(t)) -> "none"
         [] ~Contains(lock, Pauser(t)) /\ ~Contains(lock, Resumer(t))
            /\ asked[t] = "pause" /\ row[t].status # "PAUSED" -> "overtaken"
         [] OTHER -> asked[t]]
  /\ UNCHANGED <<db, memory, coroutines, admission, schedule, integrity, restored, fault,
                 cut, defied, calls>>

Exits == /\ process \in {"grace", "cancelled"} /\ Active = {} /\ lock = <<>>
         /\ Gone /\ UNCHANGED stops

Crashes == /\ Alive /\ stops < MaxStops
           /\ Gone /\ stops' = stops + 1

(* Mutant: a task waiting for a retry is not recovered.                          *)
RecoveredRowShort(r) ==
  IF r.status \in {"DOWNLOADING"} THEN Row("QUEUED", "none") ELSE r

(* recover_interrupted, run on the rows before anything else.              *)
RecoveredRow(r) ==
  IF r.status \in {"DOWNLOADING", "WAITING_RETRY"} THEN Row("QUEUED", "none") ELSE r

RecoveredItem(s) == IF s \in {"DOWNLOADING", "WAITING_RETRY"} THEN "QUEUED" ELSE s

(* A new process over the rows: the gate is set from the wall clock, and   *)
(* start() awaits the first refresh before it restores the queue.          *)
Memory(open) ==
  [flag |-> [t \in Tasks |-> FALSE], reason |-> [t \in Tasks |-> "none"],
   op |-> [t \in Tasks |-> "none"], want |-> [t \in Tasks |-> {}],
   runner |-> [t \in Tasks |-> "none"], final |-> [t \in Tasks |-> Row("none", "none")],
   worker |-> [i \in Items |-> "none"], tries |-> [i \in Items |-> 0],
   lock |-> IF open THEN <<Refresher>> ELSE <<>>,
   refresh |-> IF open THEN "list" ELSE "idle"]

Restart ==
  /\ process = "gone"
  /\ row' = [t \in Tasks |-> RecoveredRow(row[t])]
  /\ item' = [i \in Items |-> RecoveredItem(item[i])]
  /\ LET m == Memory(window)
     IN  /\ flag' = m.flag /\ reason' = m.reason /\ op' = m.op /\ want' = m.want
         /\ runner' = m.runner /\ final' = m.final
         /\ worker' = m.worker /\ tries' = m.tries
         /\ lock' = m.lock /\ refresh' = m.refresh
  /\ admission' = window /\ allowed' = FALSE /\ chosen' = {}
  /\ repair' = "idle" /\ fault' = FALSE
  /\ process' = "up" /\ restored' = FALSE /\ defied' = {}
  /\ UNCHANGED <<window, flips, target, stops, cut, user>>

(* _restore_saved_session: every queued task is run, and overtakes a pause *)
(* on its way to it.                                                       *)
RestoreQueue ==
  /\ process = "up" /\ ~restored /\ refresh = "idle" /\ ~fault
  /\ restored' = TRUE
  /\ LET S == {t \in Tasks : row[t].status = "QUEUED"}
     IN  /\ RunTasks(S)
         /\ \E queue \in Queues(S) : lock' = lock \o queue
         /\ asked' = [t \in Tasks |-> IF t \in New(S) /\ asked[t] = "pause" THEN "overtaken"
                                     ELSE asked[t]]
  /\ UNCHANGED <<db, flag, reason, coroutines, admission, schedule, integrity, process,
                 fault, stops, cut, defied, calls>>

Init ==
  /\ row \in [Tasks -> {Row("QUEUED", "none")} \cup
                        (IF WasPaused THEN {Row("PAUSED", "schedule")} ELSE {})]
  /\ item = [i \in Items |-> IF row[i[1]].status = "PAUSED" THEN "PAUSED" ELSE "QUEUED"]
  /\ LET m == Memory(TRUE)
     IN  /\ flag = m.flag /\ reason = m.reason /\ op = m.op /\ want = m.want
         /\ runner = m.runner /\ final = m.final
         /\ worker = m.worker /\ tries = m.tries
         /\ lock = m.lock /\ refresh = m.refresh
  /\ admission = TRUE /\ window = TRUE /\ allowed = FALSE /\ chosen = {}
  /\ repair = "idle" /\ target \in {i \in Items : \A j \in Items : i[1] <= j[1] /\ i[2] <= j[2]}
  /\ process = "up" /\ restored = FALSE /\ fault = FALSE
  /\ calls = 0 /\ flips = 0 /\ stops = 0 /\ cut = {} /\ defied = {}
  /\ asked = [t \in Tasks |-> "none"]
-----------------------------------------------------------------------------
RunnerStep(t) ==
  \/ RunnerBegins(t) \/ RunnerCleared(t) \/ RunnerSelected(t) \/ RunnerDownloading(t)
  \/ RunnerLists(t) \/ RunnerGathered(t) \/ RunnerWrites(t) \/ FinishOperation(t)
WorkerStep(i) ==
  \/ Acquire(i) \/ Settle(i) \/ Confirms(i) \/ RetryItem(i) \/ RetryTask(i)
  \/ Wakes(i) \/ Retries(i)
RefreshStep ==
  RefreshCloses \/ RefreshOpens \/ RefreshLists \/ RefreshResumes \/ RefreshReturns
RepairStep ==
  VerifyEnds \/ RepairPrepares \/ RepairRuns \/ RepairAsks \/ RepairChecks
  \/ RepairRecomputes

(* With process gone only a restart is left.                               *)
Next ==
  \/ /\ Alive
     /\ \/ \E t \in Tasks : \/ CallPause(t) \/ Pause(t) \/ CallResume(t) \/ Resume(t)
                            \/ Dispatch(t) \/ RunnerStep(t)
        \/ \E i \in Items : WorkerStep(i) \/ Chunk(i) \/ DownloadEnds(i) \/ VerifyStarts(i)
        \/ Edge \/ RefreshStep \/ RepairStep
        \/ CommandFails
        \/ Shutdown \/ GraceEnds \/ Exits \/ Crashes \/ RestoreQueue
  \/ Restart

Spec == Init /\ [][Next]_vars

(* The event loop runs what is ready and threads come back.  A download    *)
(* notices a pause at its next chunk; PatientSpec lets it take for ever    *)
(* otherwise.  FairSpec has it end, and assumes of Telegram what no code   *)
(* ensures: that it stops asking a file to wait.                           *)
PatientSpec ==
  /\ Spec
  /\ \A t \in Tasks : /\ WF_vars(Pause(t)) /\ WF_vars(Resume(t))
                      /\ WF_vars(Dispatch(t)) /\ WF_vars(RunnerStep(t))
  /\ \A i \in Items : /\ WF_vars(WorkerStep(i))
                      /\ WF_vars(Stopping(i[1]) /\ DownloadEnds(i))
  /\ WF_vars(RefreshStep) /\ WF_vars(RepairStep) /\ WF_vars(RestoreQueue)
  /\ WF_vars(fault /\ CommandFails) /\ WF_vars(Exits) /\ WF_vars(GraceEnds)

FairSpec ==
  PatientSpec /\ \A i \in Items : WF_vars(DownloadEnds(i)) /\ <>[][~FloodWaits(i)]_vars
-----------------------------------------------------------------------------
(* Every variable has its type.                                            *)
TypeOK ==
  /\ row \in [Tasks -> [status : Statuses, why : Reasons]]
  /\ item \in [Items -> ItemStatuses]
  /\ flag \in [Tasks -> BOOLEAN] /\ reason \in [Tasks -> Reasons]
  /\ op \in [Tasks -> {"none", "dispatch", "pending", "active"}]
  /\ want \in [Tasks -> SUBSET Items]
  /\ runner \in [Tasks -> {"none", "begin", "priority", "selected", "downloading",
                           "list", "gather", "final", "ended", "raised"}]
  /\ final \in [Tasks -> [status : Statuses \cup {"none", "recompute"}, why : Reasons]]
  /\ worker \in [Items -> {"none", "permit", "download", "completing", "confirming",
                           "failing", "pausing", "waiting", "waitingTask", "sleep",
                           "retrying", "paused", "failed", "completed", "raised"}]
  /\ tries \in [Items -> 0..Attempts]
  /\ lock \in Seq(Callers)
  /\ {admission, window, allowed, restored, fault} \subseteq BOOLEAN
  /\ refresh \in {"idle", "list", "resume", "waiting", "dead"}
  /\ chosen \in SUBSET Tasks
  /\ repair \in {"idle", "verify", "damaged", "run", "joined", "own", "check", "read",
                 "recompute"}
  /\ target \in Items
  /\ process \in {"up", "grace", "cancelled", "gone"}
  /\ calls \in 0..MaxCalls /\ flips \in 0..MaxFlips /\ stops \in 0..MaxStops
  /\ asked \in [Tasks -> {"none", "pause", "overtaken", "resume"}]
  /\ cut \subseteq Items /\ defied \subseteq Tasks

Healthy == process = "up" /\ ~fault
InLock(a) == Contains(lock, a)
Settled(t) == op[t] = "none" /\ ~InLock(Pauser(t)) /\ ~InLock(Resumer(t))

(* An operation leaves the table only after every coroutine of its items   *)
(* has ended, so the same item is never downloaded by two operations.      *)
NothingOutlivesItsOperation ==
  Healthy => \A t \in Tasks : op[t] # "active" =>
               /\ runner[t] = "none"
               /\ \A i \in ItemsOf(t) : worker[i] = "none"

(* No task is left as downloading or waiting by an operation that has      *)
(* ended, whatever its items, the user and the window wrote meanwhile.     *)
NoZombieRow ==
  Healthy => \A t \in Tasks :
    op[t] = "none" => row[t].status \notin {"DOWNLOADING", "WAITING_RETRY"}

(* Rows, operations and coroutines end together.                           *)
NoZombie == NothingOutlivesItsOperation /\ NoZombieRow

(* A completed task has only completed items, but for the one whose result *)
(* a cancel at the end of the grace wrote over.                            *)
CompletedMeansAll ==
  \A t \in Tasks : row[t].status = "COMPLETED" => \A i \in ItemsOf(t) :
    item[i] = "COMPLETED" \/ (i \in cut /\ item[i] = "PAUSED")

(* "A cancel cannot take back a final command that has entered the ordered *)
(* channel" (2026-08-24-download-persistence-responsiveness-design.md:102):*)
(* what complete_item has written is not undone by the end of the grace.   *)
FinalStateStands == \A i \in cut : item[i] = "COMPLETED"

(* A queued task is in the queue: nothing accepted is forgotten, neither   *)
(* by a race of pause and resume nor by a restart.                         *)
QueuedIsServed ==
  Healthy /\ restored => \A t \in Tasks :
    row[t].status = "QUEUED" => \/ op[t] # "none" \/ InLock(Pauser(t))
                                \/ repair \notin {"idle", "own"} /\ target[1] = t

(* A file goes on downloading or starts to.                                *)
Starts(i) == worker[i] # "download" /\ worker'[i] = "download"

(* "Pausing a waiting task never starts it briefly, an active one gives    *)
(* its slot back" (2026-08-16-download-resource-control-design.md:64-65):  *)
(* after a pause has returned no file of the task starts until the user    *)
(* asks for it, through retries, permits, window edges and restarts.       *)
(* Pauses that something overtakes are PauseHonoured's; so is one whose row*)
(* its own running operation had overwritten when the process went.        *)
NoPausedStart ==
  \A i \in Items : Starts(i) => ~(asked[i[1]] = "pause" /\ ~InLock(Pauser(i[1])))

PauseStops == [][NoPausedStart]_vars

(* The same of every pause.                                                *)
PauseHonoured ==
  [][\A i \in Items : Starts(i) =>
       ~(asked[i[1]] \in {"pause", "overtaken"} /\ ~InLock(Pauser(i[1])))]_vars

(* "A user's pause takes precedence over the window's" (2026-08-22-tray-   *)
(* background-notifications-scheduling-design.md:105).                     *)
UserPauseWins ==
  refresh = "resume" => \A t \in chosen : asked[t] \notin {"pause", "overtaken"}

(* "Continuing a task: it becomes queued, then enters the queue" (2026-08- *)
(* 16-download-resource-control-design.md:66): a task the user continued   *)
(* last does not end as paused by the user.                                *)
ResumeHonoured ==
  Healthy => \A t \in Tasks :
    asked[t] = "resume" /\ Settled(t) => row[t] # Row("PAUSED", "user")

(* "When the window opens, the tasks it paused are resumed" (ibid.:106):   *)
(* in an open window whose refresh is done, none of them is left.          *)
ReopenedResumes ==
  Healthy /\ window /\ allowed /\ refresh = "idle" =>
    \A t \in Tasks : Settled(t) => row[t] # Row("PAUSED", "schedule")

(* "Outside the window no download starts" (ibid.:102, 107, 174): behind a *)
(* closed gate no file starts, through retries, permits, faults and        *)
(* restarts, but in an operation whose pause was taken back after the      *)
(* window had closed, by a continue or a repair (which the lines quoted    *)
(* rule out as well).                                                      *)
ClosedStartsNothing ==
  [][\A i \in Items : Starts(i) => admission \/ i[1] \in defied]_vars

(* "When the window closes, the active tasks pause at a safe boundary"     *)
(* (ibid.:104): if it stays closed, no operation stays active.             *)
WindowCloses == []<>(window \/ Active = {} \/ process # "up")

(* Whoever waits for an operation gets an answer: a queued one that the    *)
(* gate lets pass ends, even when it is paused, refused or hit by a fault. *)
CallsEnd ==
  \A t \in Tasks : []<>(op[t] = "none" \/ process = "gone" \/ (~admission /\ ~fault))

(* A shutdown ends with the process gone, within its grace or after it.    *)
ShutdownEnds == []<>(process \in {"up", "gone"})

(* Nobody waits for ever: neither a caller nor the exit.                   *)
EndsInTime == CallsEnd /\ ShutdownEnds

(* "Tasks that were downloading or waiting for a retry go back to queued"  *)
(* (2026-08-16-download-resource-control-design.md:60): a task that was    *)
(* lost in the middle of its files, with no pause asked of it, is queued   *)
(* after the restart.                                                      *)
RecoversRunning ==
  [][process = "gone" /\ process' = "up" =>
       \A t \in Tasks : /\ runner[t] = "gather" /\ ~flag[t]
                        /\ \E i \in ItemsOf(t) : worker[i] \in {"permit", "download"}
                        => row'[t].status = "QUEUED"]_vars

(* A repaired file is not forgotten in a task that counts as completed.    *)
RepairServed ==
  Healthy => \A i \in Items :
    item[i] = "QUEUED" /\ op[i[1]] = "none" /\ repair = "idle" =>
      row[i[1]].status # "COMPLETED"
=============================================================================
