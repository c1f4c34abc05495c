------------------------- MODULE StorageMaintenance -------------------------
(***************************************************************************)
(* Storage maintenance: the activity registry (maintenance_activity.py),   *)
(* the service with its scans, plans, confirmations and clean-ups          *)
(* (storage_maintenance.py, storage_inventory.py, storage_cleanup.py) and  *)
(* the scheduler that cleans when the program is idle                      *)
(* (storage_scheduler.py).                                                 *)
(*                                                                         *)
(* Data: a file is gone (0), as old as the retention asks (1) or new (2);  *)
(* a plan is the state each of its files was listed with.  Files of one    *)
(* size: limits of bytes are numbers of files.  Time: a delay, an expiry,  *)
(* a due date and a stretch of idleness may end whenever they are pending. *)
(***************************************************************************)
EXTENDS Integers, FiniteSetsExt

CONSTANTS Actors,          \* businesses that track an activity
          Files,
          Category,        \* [Files -> "thumbnail", "temp", "backup" or "part"]
          Rank,            \* order of equally old files of a category
          ThumbnailLimit, ThumbnailTarget, BackupKeep,  \* StoragePolicy
          JournalBackup,   \* the files of the backup the journal names (a
                           \* damaged journal protects every backup)
          InitialFiles     \* the directories the program may find

ASSUME FilesAssumption ==
  /\ IsFiniteSet(Files) /\ JournalBackup \subseteq Files
  /\ Category \in [Files -> {"thumbnail", "temp", "backup", "part"}]
  /\ InitialFiles \subseteq [Files -> 0..2]
  /\ Rank \in [Files -> Nat]

VARIABLES busy,        \* activities in progress
          file, media, \* media: the part's medium is complete and verified
          journal,     \* an update's journal is there
          op,          \* the service's operation, holder of its lock
          safeConf, manualConf,  \* plans that wait for the user's confirmation
          downloads,   \* the inventory a manual selection is made from
          enabled, due, invalid, \* settings; next_due_at passed; unreadable state
          sched, session, changed, \* the scheduler's loop, its change event
          shut         \* progress of shutdown()

service == <<op, safeConf, manualConf, downloads, invalid>>
loop == <<sched, session, changed>>
vars == <<busy, file, media, journal, service, enabled, due, loop, shut>>

NoPlan == [f \in Files |-> 0]
Listed(plan) == {f \in Files : plan[f] # 0}
Users == {"scan", "scanDownloads", "prepareSafe"}   \* the user's scans
NoOp == [pc |-> "idle", kind |-> "none", plan |-> NoPlan, cur |-> {},
         cancel |-> FALSE, failed |-> FALSE]
Open == shut \in {"no", "runner"}                   \* _ensure_available

Init == /\ busy = {}
        /\ file \in InitialFiles
        /\ media \in BOOLEAN
        /\ journal \in BOOLEAN
        /\ op = NoOp
        /\ safeConf = NoPlan /\ manualConf = NoPlan /\ downloads = NoPlan
        /\ enabled \in BOOLEAN /\ due \in BOOLEAN /\ invalid \in BOOLEAN
        /\ sched = "top" /\ session = FALSE /\ changed = FALSE
        /\ shut = "no"
-----------------------------------------------------------------------------
(* The registry.  track refuses while maintenance holds its token, which   *)
(* is as long as the operation lasts.                                      *)
Track(a) ==
  /\ a \notin busy /\ op.pc = "idle"
  /\ busy' = busy \cup {a}
  /\ UNCHANGED <<file, media, journal, service, enabled, due, loop, shut>>

Release(a) ==
  /\ a \in busy
  /\ busy' = busy \ {a}
  /\ UNCHANGED <<file, media, journal, service, enabled, due, loop, shut>>

(* Mutant: running businesses are not looked at.                           *)
TryTrackMaintenanceAlways == op.pc = "idle"

TryTrackMaintenance == op.pc = "idle" /\ busy = {}

(* A business writes part files as long as its activity is tracked; a      *)
(* user's retry or repair opens a medium at any time.                      *)
WriteFile(f) ==
  /\ busy # {} /\ Category[f] = "part" /\ file[f] = 1
  /\ file' = [file EXCEPT ![f] = 2]
  /\ UNCHANGED <<busy, media, journal, service, enabled, due, loop, shut>>

(* Thumbnails are read and written while a page shows them, and nobody     *)
(* tracks that: get() and put() of the cache make one new.                 *)
WriteThumbnail(f) ==
  /\ Category[f] = "thumbnail" /\ file[f] # 2
  /\ file' = [file EXCEPT ![f] = 2]
  /\ UNCHANGED <<busy, media, journal, service, enabled, due, loop, shut>>

(* delete(), clear() and the pruning behind put(), which is left free to   *)
(* choose; it runs in one of several threads.                              *)
DropThumbnail(f) ==
  /\ Category[f] = "thumbnail" /\ file[f] # 0
  /\ file' = [file EXCEPT ![f] = 0]
  /\ UNCHANGED <<busy, media, journal, service, enabled, due, loop, shut>>

ChangeMedia ==
  /\ media' = ~media
  /\ UNCHANGED <<busy, file, journal, service, enabled, due, loop, shut>>
-----------------------------------------------------------------------------
(* The inventory. *)
Of(c) == {f \in Files : Category[f] = c /\ file[f] # 0}
Older(f, g) == file[f] < file[g] \/ (file[f] = file[g] /\ Rank[f] < Rank[g])

(* UpdateProtectionProvider.snapshot, and protects()                       *)
Protected(f) == journal /\ f \in JournalBackup

(* _thumbnail_candidates: above the limit, the oldest until the target.    *)
ThumbnailCandidates ==
  IF Cardinality(Of("thumbnail")) <= ThumbnailLimit THEN {}
  ELSE {f \in Of("thumbnail") :
          Cardinality({g \in Of("thumbnail") : Older(g, f)})
            < Cardinality(Of("thumbnail")) - ThumbnailTarget}

(* _backup_candidates: all but the newest valid backups.                   *)
BackupCandidates ==
  {f \in Of("backup") : /\ ~Protected(f)
                        /\ Cardinality({g \in Of("backup") : Older(f, g)}) >= BackupKeep}

(* scan_automatic, with the age of temporary files; a plan of the planner  *)
(* is everything selectable.                                               *)
AutomaticPlan ==
  LET chosen == ThumbnailCandidates \cup BackupCandidates
                  \cup {f \in Of("temp") : file[f] = 1}
  IN  [f \in Files |-> IF f \in chosen THEN file[f] ELSE 0]

(* scan_download_candidates: leftovers of verified media.                  *)
DownloadCandidates ==
  [f \in Files |-> IF f \in Of("part") /\ media THEN file[f] ELSE 0]
-----------------------------------------------------------------------------
(* The user's operations up to their thread.  A held lock, a running       *)
(* business or a shutdown refuses them without a change of state.          *)
StartScan(kind) ==
  /\ Open /\ TryTrackMaintenance
  /\ op' = [NoOp EXCEPT !.pc = "scan", !.kind = kind]
  /\ UNCHANGED <<busy, file, media, journal, safeConf, manualConf, downloads, enabled,
                 due, invalid, loop, shut>>

(* prepare_manual; the inventory must not be older than five minutes.      *)
PrepareManual(selected) ==
  /\ Open /\ op.pc = "idle"
  /\ selected # {} /\ selected \subseteq Listed(downloads)
  /\ manualConf' = [f \in Files |-> IF f \in selected THEN downloads[f] ELSE 0]
  /\ UNCHANGED <<busy, file, media, journal, op, safeConf, downloads, enabled, due,
                 invalid, loop, shut>>

InventoryAges ==
  /\ downloads # NoPlan
  /\ downloads' = NoPlan
  /\ UNCHANGED <<busy, file, media, journal, op, safeConf, manualConf, enabled, due,
                 invalid, loop, shut>>

(* _execute_confirmation.  A business that runs leaves the confirmation    *)
(* usable, an expired one is taken away (ConfirmationExpires).             *)
ExecuteSafe ==
  /\ Open /\ TryTrackMaintenance /\ safeConf # NoPlan
  /\ op' = [NoOp EXCEPT !.pc = "exec", !.kind = "safe", !.plan = safeConf]
  /\ safeConf' = NoPlan
  /\ UNCHANGED <<busy, file, media, journal, manualConf, downloads, enabled, due,
                 invalid, loop, shut>>

ExecuteManual ==
  /\ Open /\ TryTrackMaintenance /\ manualConf # NoPlan
  /\ op' = [NoOp EXCEPT !.pc = "exec", !.kind = "manual", !.plan = manualConf]
  /\ manualConf' = NoPlan
  /\ UNCHANGED <<busy, file, media, journal, safeConf, downloads, enabled, due,
                 invalid, loop, shut>>

ConfirmationExpires ==
  /\ \/ safeConf # NoPlan /\ safeConf' = NoPlan /\ UNCHANGED manualConf
     \/ manualConf # NoPlan /\ manualConf' = NoPlan /\ UNCHANGED safeConf
  /\ UNCHANGED <<busy, file, media, journal, op, downloads, enabled, due, invalid, loop, shut>>

Cancel ==
  /\ op.pc # "idle" /\ ~op.cancel
  /\ op' = [op EXCEPT !.cancel = TRUE]
  /\ UNCHANGED <<busy, file, media, journal, safeConf, manualConf, downloads, enabled,
                 due, invalid, loop, shut>>
-----------------------------------------------------------------------------
(* The worker's thread.  A scan of the user becomes an inventory and,      *)
(* after prepare_safe, a confirmation; the scheduler's goes on to execute, *)
(* with a cancel event of its own: a cancel behind the scan's last look at *)
(* its event is lost, unless it was the runner that was cancelled.         *)
ScanEnds ==
  /\ op.pc = "scan" /\ ~(op.kind = "automatic" /\ shut # "no")
  /\ op' = IF op.kind = "automatic"
           THEN [op EXCEPT !.pc = "exec", !.plan = AutomaticPlan, !.cancel = FALSE]
           ELSE NoOp
  /\ safeConf' = CASE op.kind = "scanDownloads" -> safeConf
                   [] op.kind = "prepareSafe" -> AutomaticPlan
                   [] OTHER -> NoPlan
  /\ manualConf' = IF op.kind = "scanDownloads" THEN NoPlan ELSE manualConf
  /\ downloads' = IF op.kind = "scanDownloads" THEN DownloadCandidates ELSE downloads
  /\ invalid' = FALSE
  /\ UNCHANGED <<busy, file, media, journal, enabled, due, loop, shut>>

(* What the scheduler's loop does when its clean-up has ended: after a     *)
(* cancelled runner it is gone.                                            *)
AfterCleaning(ok) ==
  sched' = CASE op.kind # "automatic" -> sched
             [] op.kind = "automatic" /\ shut # "no" -> "stopped"
             [] op.kind = "automatic" /\ shut = "no" -> IF ok THEN "top" ELSE "retry"

(* The scan fails, is cancelled, or its state cannot be saved.             *)
ScanFails ==
  /\ op.pc = "scan"
  /\ op' = NoOp /\ AfterCleaning(FALSE)
  /\ changed' = IF sched' = "retry" THEN FALSE ELSE changed
  /\ UNCHANGED <<busy, file, media, journal, safeConf, manualConf, downloads, enabled,
                 due, invalid, session, shut>>

(* Mutant: the file is not looked at again.                                *)
StillSelectableUnchecked(f) == ~Protected(f)

(* _validated_target, _validate_manual_target and the new snapshot of the  *)
(* update's protection.                                                    *)
StillSelectable(f) == /\ file[f] = op.plan[f]
                      /\ Category[f] = "part" => media
                      /\ ~Protected(f)

(* _execute_entry, in two steps: what was validated is then removed, if it *)
(* is still there.                                                         *)
Validate(f) ==
  /\ op.pc = "exec" /\ ~op.cancel /\ f \in Listed(op.plan)
  /\ op' = IF StillSelectable(f) THEN [op EXCEPT !.pc = "remove", !.cur = {f}]
           ELSE [op EXCEPT !.plan[f] = 0]
  /\ UNCHANGED <<busy, file, media, journal, safeConf, manualConf, downloads, enabled,
                 due, invalid, loop, shut>>

Remove(f) ==
  /\ op.pc = "remove" /\ op.cur = {f}
  /\ \/ /\ file[f] # 0 /\ file' = [file EXCEPT ![f] = 0]
        /\ op' = [op EXCEPT !.pc = "exec", !.plan[f] = 0, !.cur = {}]
     \/ /\ op' = [op EXCEPT !.pc = "exec", !.plan[f] = 0, !.cur = {}, !.failed = TRUE]
        /\ UNCHANGED file
  /\ UNCHANGED <<busy, media, journal, safeConf, manualConf, downloads, enabled, due,
                 invalid, loop, shut>>

(* The end of execute(), _record_result: only a clean-up that came through *)
(* moves the due date, and a state that cannot be saved keeps it in memory.*)
(* The runner that shutdown cancelled records nothing.                     *)
ExecuteEnds ==
  /\ op.pc = "exec" /\ (op.cancel \/ Listed(op.plan) = {})
  /\ LET whole == ~op.failed /\ Listed(op.plan) = {}
         recorded == ~(op.kind = "automatic" /\ shut # "no")
     IN  /\ \E saved \in BOOLEAN : AfterCleaning(whole /\ saved)
         /\ due' = (due /\ ~(whole /\ recorded))
  /\ changed' = IF sched' = "retry" THEN FALSE ELSE changed
  /\ op' = NoOp
  /\ UNCHANGED <<busy, file, media, journal, safeConf, manualConf, downloads, enabled,
                 invalid, session, shut>>

DueAgain ==
  /\ ~due
  /\ due' = TRUE
  /\ UNCHANGED <<busy, file, media, journal, service, enabled, loop, shut>>
-----------------------------------------------------------------------------
(* The scheduler.  set_automatic_storage reconfigures it at any time.      *)
(* Mutant: only switching it off wakes the loop.                           *)
WakenedByDisabling == changed \/ enabled

Wakened == TRUE

Reconfigure ==
  /\ shut = "no"
  /\ enabled' = ~enabled /\ changed' = Wakened
  /\ UNCHANGED <<busy, file, media, journal, service, due, sched, session, shut>>

Await(where) == sched' = where /\ changed' = FALSE  \* _take_change_event, then wait

(* _run from the head of its loop to the next wait.                        *)
Top ==
  /\ sched = "top"
  /\ CASE ~enabled -> session' = FALSE /\ Await("disabled")
       [] enabled /\ ~session -> UNCHANGED session /\ Await("startup")
       [] enabled /\ session -> UNCHANGED session /\
            Await(IF due \/ invalid THEN "idle" ELSE "due")
  /\ UNCHANGED <<busy, file, media, journal, service, enabled, due, shut>>

(* A change of settings ends every wait.                                   *)
Wakes == changed /\ sched \in {"disabled", "startup", "due", "idle", "retry"}

ChangeSeen ==
  /\ Wakes
  /\ sched' = "top"
  /\ session' = (session /\ sched # "startup")
  /\ UNCHANGED <<busy, file, media, journal, service, enabled, due, changed, shut>>

StartupEnds ==
  /\ sched = "startup" /\ ~changed
  /\ session' = TRUE
  /\ Await(IF due \/ invalid THEN "idle" ELSE "due")
  /\ UNCHANGED <<busy, file, media, journal, service, enabled, due, shut>>

DueArrives ==
  /\ sched = "due" /\ ~changed /\ due
  /\ Await("idle")
  /\ UNCHANGED <<busy, file, media, journal, service, enabled, due, session, shut>>

(* wait_for_continuous_idle returns; a few callbacks later clean_safe.     *)
IdleElapses ==
  /\ sched = "idle" /\ ~changed /\ busy = {} /\ op.pc = "idle"
  /\ sched' = "ready"
  /\ UNCHANGED <<busy, file, media, journal, service, enabled, due, session, changed, shut>>

MayClean == enabled /\ TryTrackMaintenance /\ ~invalid

(* clean_safe up to its thread: it may have been disabled, and a business  *)
(* or another operation may have come first.                               *)
CleanSafe ==
  /\ sched = "ready"
  /\ IF MayClean
     THEN /\ op' = [NoOp EXCEPT !.pc = "scan", !.kind = "automatic"]
          /\ sched' = "clean" /\ UNCHANGED changed
     ELSE /\ IF enabled THEN Await("retry") ELSE sched' = "top" /\ UNCHANGED changed
          /\ UNCHANGED op
  /\ UNCHANGED <<busy, file, media, journal, safeConf, manualConf, downloads, enabled,
                 due, invalid, session, shut>>

RetryEnds ==
  /\ sched = "retry" /\ ~changed
  /\ sched' = "top"
  /\ UNCHANGED <<busy, file, media, journal, service, enabled, due, session, changed, shut>>

(* shutdown: cancel the runner, which ends at its wait or when its worker  *)
(* has ended; then the service's, which cancels and waits for the lock.    *)
ShutdownBegins ==
  /\ shut = "no"
  /\ shut' = "runner" /\ changed' = TRUE
  /\ op' = IF sched = "clean" THEN [op EXCEPT !.cancel = TRUE] ELSE op
  /\ sched' = IF sched = "clean" THEN "clean" ELSE "stopped"
  /\ UNCHANGED <<busy, file, media, journal, safeConf, manualConf, downloads, enabled,
                 due, invalid, session>>

ServiceShutdown ==
  /\ shut = "runner" /\ sched = "stopped"
  /\ shut' = "service"
  /\ op' = IF op.pc = "idle" THEN op ELSE [op EXCEPT !.cancel = TRUE]
  /\ UNCHANGED <<busy, file, media, journal, safeConf, manualConf, downloads, enabled,
                 due, invalid, loop>>

ShutdownEnds ==
  /\ shut = "service" /\ op.pc = "idle"
  /\ shut' = "done"
  /\ UNCHANGED <<busy, file, media, journal, service, enabled, due, loop>>
-----------------------------------------------------------------------------
Thread == ScanEnds \/ ScanFails \/ ExecuteEnds \/ \E f \in Files : Validate(f) \/ Remove(f)
Runner == Top \/ ChangeSeen \/ StartupEnds \/ DueArrives \/ IdleElapses \/ CleanSafe \/ RetryEnds
Shutting == ServiceShutdown \/ ShutdownEnds

Next == \/ \E a \in Actors : Track(a) \/ Release(a)
        \/ \E f \in Files : WriteFile(f) \/ WriteThumbnail(f) \/ DropThumbnail(f)
        \/ ChangeMedia \/ Reconfigure \/ DueAgain
        \/ \E k \in Users : StartScan(k)
        \/ \E S \in SUBSET Files : PrepareManual(S)
        \/ ExecuteSafe \/ ExecuteManual \/ InventoryAges \/ ConfirmationExpires \/ Cancel
        \/ Thread \/ Runner \/ ShutdownBegins \/ Shutting

Spec == Init /\ [][Next]_vars

Fairness == /\ WF_vars(Thread) /\ WF_vars(Runner) /\ WF_vars(Shutting) /\ WF_vars(DueAgain)
            /\ SF_vars(ScanEnds)

FairSpec == Spec /\ Fairness
-----------------------------------------------------------------------------
Operations == [pc : {"idle", "scan", "exec", "remove"},
               kind : Users \cup {"none", "automatic", "safe", "manual"},
               plan : [Files -> 0..2], cur : SUBSET Files,
               cancel : BOOLEAN, failed : BOOLEAN]

TypeOK ==
  /\ busy \subseteq Actors
  /\ file \in [Files -> 0..2] /\ {media, journal} \subseteq BOOLEAN
  /\ op \in Operations
  /\ {safeConf, manualConf, downloads} \subseteq [Files -> 0..2]
  /\ {enabled, due, invalid, session, changed} \subseteq BOOLEAN
  /\ sched \in {"top", "disabled", "startup", "due", "idle", "ready", "clean", "retry", "stopped"}
  /\ shut \in {"no", "runner", "service", "done"}

(* No business runs while maintenance does, whichever came first: the      *)
(* registry's two tests together are a lock of many readers and one writer.*)
MaintenanceIsExclusive == TypeOK /\ (op.pc # "idle" => busy = {})

(* A file of the user, a backup or a temporary file is removed only in the *)
(* state it was listed and shown with, even though it was validated a step *)
(* earlier and listed long before.  A thumbnail may be read or written     *)
(* between the two.                                                        *)
RemovedAsListed ==
  [][\A f \in Files : Category[f] # "thumbnail" /\ file[f] # 0 /\ file'[f] = 0 =>
       file[f] = op.plan[f]]_vars

(* A clean-up begins only when it was asked for: by a confirmation that is *)
(* thereby used up, or automatically while the setting is on.              *)
CleansAsAsked ==
  [][op.pc = "idle" /\ op'.pc # "idle" =>
       CASE op'.kind = "safe" -> op'.plan = safeConf /\ safeConf' = NoPlan
         [] op'.kind = "manual" -> op'.plan = manualConf /\ manualConf' = NoPlan
         [] op'.kind = "automatic" -> enabled
         [] OTHER -> op'.pc = "scan"]_vars

(* When the setting stays on, the state can be read and the program stays  *)
(* idle, the files are cleaned again and again: no change of the settings  *)
(* leaves the loop waiting for something that has happened.                *)
Quiet == enabled /\ ~invalid /\ busy = {} /\ op.kind \in {"none", "automatic"} /\ shut = "no"
CleansInTheEnd == <>[]Quiet => []<>(op.kind = "automatic" /\ op.pc = "exec")

(* shutdown() ends: a thread that runs is waited for, and none runs after. *)
ShutdownCompletes == /\ (shut = "runner" ~> shut = "done")
                     /\ [](shut = "done" => op.pc = "idle")
=============================================================================
