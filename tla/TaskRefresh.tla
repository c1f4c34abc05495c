---------------------------- MODULE TaskRefresh -----------------------------
(***************************************************************************)
(* TaskRefreshCoordinator (task_refresh.py) between the rows and the task  *)
(* page, with the loads and the incremental view that the controller and   *)
(* task_center.py give it.  One worker loads one thing at a time; callers  *)
(* wait for a revision to be applied.                                      *)
(*                                                                         *)
(* Data: a row is the number of its changes; its contribution to the       *)
(* dashboard is a number that differs between changes.  A load reads rows  *)
(* and scheduler in one step, its thread's return.  Time: a deadline that  *)
(* is set may pass at any moment, or have passed at any look at the clock. *)
(***************************************************************************)
EXTENDS Integers, FiniteSetsExt

CONSTANTS Tasks, Callers,
          MaxChanges,  \* bound: changes of all rows together
          MaxEvents    \* bound: marks, failed loads, hidings and switches

VARIABLES row, view,        \* see TaskView
          dash,             \* the dashboard's total, kept incrementally
          epoch, switching, \* scheduler in use; it is not announced yet
          gen, active, closed,
          rev, dirty,       \* _revision, _dirty_revisions (0: no entry)
          immediate, applied,
          fullRev, pendingFull,
          progress, reconcile,  \* the deadline is set
          worker, wake,
          load,             \* what the worker is loading
          call,             \* the callers of refresh_now and reconcile_now
          spent             \* the bounded events so far

queue == <<rev, dirty, immediate, applied, progress>>
fulls == <<fullRev, pendingFull, reconcile>>
life == <<gen, active, closed, epoch, switching>>
vars == <<row, view, dash, life, queue, fulls, worker, wake, load, call, spent>>

Zero == [t \in Tasks |-> 0]
Dirty == {t \in Tasks : dirty[t] # 0}
Waiting == {"patch", "full"}

Call(kind, target, r, want) ==
  [kind |-> kind, target |-> target, rev |-> r, want |-> want]
NoLoad == [kind |-> "none", gen |-> 0, rev |-> 0, batch |-> Zero,
           rows |-> Zero, epoch |-> 0]
Answer(S, how) ==
  [c \in Callers |-> IF c \in S THEN Call(how, Zero, 0, Zero) ELSE call[c]]
Larger(f, g) == [t \in Tasks |-> IF f[t] > g[t] THEN f[t] ELSE g[t]]

(* _dashboard_contribution: every other change deletes or archives.        *)
Contribution(v) == IF v % 2 = 0 THEN 0 ELSE v

(* build_task_view: all rows, the total from scratch.                      *)
FullView == load.rows
FullDash == MapThenSumSet(LAMBDA t : Contribution(load.rows[t]), Tasks)

(* patch_task_view with _patched_dashboard: the requested ids are replaced *)
(* or removed, their old shares subtracted, their new ones added.          *)
PatchedView == [t \in Tasks |-> IF load.batch[t] # 0 THEN load.rows[t] ELSE view[t]]
PatchedDash ==
  LET ids == {t \in Tasks : load.batch[t] # 0}
      sum == dash + MapThenSumSet(LAMBDA t : Contribution(load.rows[t])
                                             - Contribution(view[t]), ids)
  IN  IF sum < 0 THEN 0 ELSE sum

IsStale(g) == closed \/ g # gen

Init == /\ row = Zero /\ view = Zero /\ dash = 0
        /\ epoch = 0 /\ switching = FALSE
        /\ gen = 0 /\ active = FALSE /\ closed = FALSE
        /\ rev = 0 /\ dirty = Zero /\ immediate = {} /\ applied = Zero
        /\ fullRev = 0 /\ pendingFull = 0
        /\ progress = FALSE /\ reconcile = FALSE
        /\ worker = "none" /\ wake = FALSE /\ load = NoLoad
        /\ call = [c \in Callers |-> Call("idle", Zero, 0, Zero)]
        /\ spent = 0

Spend == spent < MaxEvents /\ spent' = spent + 1
EnsureWorker == worker' = IF worker = "none" THEN "awake" ELSE worker

(* _mark_dirty                                                             *)
MarkDirty(ids) ==
  /\ rev' = rev + 1
  /\ dirty' = [t \in Tasks |-> IF t \in ids THEN rev + 1 ELSE dirty[t]]
-----------------------------------------------------------------------------
(* The rest of the program changes a row, or replaces the scheduler (login,*)
(* account switch, expiry), which it announces by replace_generation only  *)
(* after further awaits.                                                   *)
ChangeRow(t) ==
  /\ MapThenSumSet(LAMBDA u : row[u], Tasks) < MaxChanges
  /\ row' = [row EXCEPT ![t] = @ + 1]
  /\ UNCHANGED <<view, dash, life, queue, fulls, worker, wake, load, call, spent>>

SwitchScheduler ==
  /\ ~switching /\ ~closed /\ Spend
  /\ epoch' = epoch + 1 /\ switching' = TRUE
  /\ UNCHANGED <<row, view, dash, gen, active, closed, queue, fulls, worker, wake,
                 load, call>>

(* mark_progress of the active tasks, every refresh interval.              *)
MarkProgress(ids) ==
  /\ ~closed /\ ids # {} /\ Spend
  /\ MarkDirty(ids) /\ progress' = TRUE
  /\ wake' = TRUE /\ EnsureWorker
  /\ UNCHANGED <<row, view, dash, life, immediate, applied, fulls, load, call>>

(* refresh_now, up to its await.                                           *)
RefreshNow(c, ids) ==
  /\ ~closed /\ ids # {} /\ call[c].kind = "idle"
  /\ MarkDirty(ids)
  /\ immediate' = immediate \cup ids
  /\ call' = [call EXCEPT ![c] = Call("patch",
                [t \in Tasks |-> IF t \in ids THEN rev + 1 ELSE 0], 0,
                [t \in Tasks |-> IF t \in ids THEN row[t] ELSE 0])]
  /\ wake' = TRUE /\ EnsureWorker
  /\ UNCHANGED <<row, view, dash, life, applied, progress, fulls, load, spent>>

(* reconcile_now, up to its await.                                         *)
ReconcileNow(c) ==
  /\ ~closed /\ call[c].kind = "idle"
  /\ fullRev' = fullRev + 1 /\ pendingFull' = fullRev + 1
  /\ call' = [call EXCEPT ![c] = Call("full", Zero, fullRev + 1, row)]
  /\ wake' = TRUE /\ EnsureWorker
  /\ UNCHANGED <<row, view, dash, life, queue, reconcile, load, spent>>

(* activate: the page becomes visible; the rest is reconcile_now.          *)
Activate(c) ==
  /\ ~closed /\ ~active /\ call[c].kind = "idle"
  /\ active' = TRUE
  /\ fullRev' = fullRev + 1 /\ pendingFull' = fullRev + 1
  /\ call' = [call EXCEPT ![c] = Call("full", Zero, fullRev + 1, row)]
  /\ wake' = TRUE /\ EnsureWorker
  /\ UNCHANGED <<row, view, dash, gen, closed, epoch, switching, queue, reconcile,
                 load, spent>>

(* _advance_generation with _clear_pending and _fail_all_waiters.          *)
AdvanceGeneration ==
  /\ gen' = gen + 1 /\ wake' = TRUE
  /\ dirty' = Zero /\ immediate' = {} /\ applied' = Zero /\ progress' = FALSE
  /\ reconcile' = FALSE
  /\ call' = Answer({c \in Callers : call[c].kind \in Waiting}, "failed")

Deactivate ==
  /\ ~closed /\ active /\ Spend
  /\ active' = FALSE
  /\ AdvanceGeneration
  /\ pendingFull' = 0
  /\ UNCHANGED <<row, view, dash, closed, epoch, switching, rev, fullRev, worker, load>>

(* replace_generation: an active page asks for a full load at once.        *)
ReplaceGeneration ==
  /\ ~closed /\ switching
  /\ switching' = FALSE
  /\ AdvanceGeneration
  /\ fullRev' = IF active THEN fullRev + 1 ELSE fullRev
  /\ pendingFull' = IF active THEN fullRev + 1 ELSE 0
  /\ UNCHANGED <<row, view, dash, active, closed, epoch, rev, worker, load, spent>>

(* close, up to its await of the worker.                                   *)
Close ==
  /\ ~closed
  /\ closed' = TRUE /\ active' = FALSE
  /\ AdvanceGeneration
  /\ pendingFull' = 0
  /\ UNCHANGED <<row, view, dash, epoch, switching, rev, fullRev, worker, load, spent>>
-----------------------------------------------------------------------------
(* _run.  The worker passes its loop when it was woken or a deadline has   *)
(* passed.  MustPatch and MustFull are the branches that ask for no clock. *)
Awake == worker = "awake" \/ (worker = "asleep" /\ (wake \/ progress \/ reconcile))
MustPatch == immediate # {} /\ Dirty # {}
MustFull == pendingFull # 0 \/ (active /\ ~reconcile)

FullIsDue == ~MustPatch /\ (MustFull \/ reconcile)

(* _take_dirty_batch, _run_patch up to the load.                           *)
StartPatch ==
  /\ Awake /\ ~closed
  /\ MustPatch \/ (pendingFull = 0 /\ progress /\ Dirty # {})
  /\ load' = [NoLoad EXCEPT !.kind = "patch", !.gen = gen, !.batch = dirty]
  /\ dirty' = Zero /\ immediate' = immediate \ Dirty /\ progress' = FALSE
  /\ worker' = "reading"
  /\ UNCHANGED <<row, view, dash, life, rev, applied, fulls, wake, call, spent>>

(* _run_full up to the load.  A load the worker asks for itself has the    *)
(* latest revision: nobody else waits for it, so it is not counted.        *)
StartFull ==
  /\ Awake /\ ~closed /\ FullIsDue
  /\ load' = [NoLoad EXCEPT !.kind = "full", !.gen = gen,
                !.rev = IF pendingFull # 0 THEN pendingFull ELSE fullRev]
  /\ pendingFull' = 0
  /\ worker' = "reading"
  /\ UNCHANGED <<row, view, dash, life, queue, fullRev, reconcile, wake, call, spent>>

Sleep ==
  /\ worker = "awake" \/ (worker = "asleep" /\ wake)
  /\ IF closed THEN worker' = "none" /\ UNCHANGED wake
     ELSE ~MustPatch /\ ~MustFull /\ worker' = "asleep" /\ wake' = FALSE
  /\ UNCHANGED <<row, view, dash, life, queue, fulls, load, call, spent>>

(* _load_full_task_view, _load_task_patch: the rows and the scheduler are  *)
(* read, the view is then built in a thread.                               *)
ReadRows ==
  /\ worker = "reading"
  /\ load' = [load EXCEPT !.rows = row, !.epoch = epoch]
  /\ worker' = "building"
  /\ UNCHANGED <<row, view, dash, life, queue, fulls, wake, call, spent>>

(* Mutant: a patch answers every caller.                                   *)
PatchDoneAll(revs) == {c \in Callers : call[c].kind = "patch"}

(* _resolve_patch_waiters, _resolve_full_waiters                           *)
PatchDone(revs) == {c \in Callers : /\ call[c].kind = "patch"
                                    /\ \A t \in Tasks : call[c].target[t] <= revs[t]}
FullDone == {c \in Callers : call[c].kind = "full" /\ call[c].rev <= load.rev}

ApplyPatch ==
  /\ worker = "building" /\ load.kind = "patch" /\ ~IsStale(load.gen)
  /\ view' = PatchedView /\ dash' = PatchedDash
  /\ applied' = Larger(load.batch, applied)
  /\ call' = Answer(PatchDone(Larger(load.batch, applied)), "done")
  /\ worker' = "awake" /\ load' = NoLoad
  /\ UNCHANGED <<row, life, rev, dirty, immediate, progress, fulls, wake, spent>>

(* The rest of _run_full: the next reconciliation is due later, whatever   *)
(* became of this one.                                                     *)
ScheduleReconcile == reconcile' = (active \/ reconcile)

ApplyFull ==
  /\ worker = "building" /\ load.kind = "full" /\ ~IsStale(load.gen)
  /\ view' = FullView /\ dash' = FullDash
  /\ call' = Answer(FullDone, "done")
  /\ ScheduleReconcile
  /\ worker' = "awake" /\ load' = NoLoad
  /\ UNCHANGED <<row, life, queue, fullRev, pendingFull, wake, spent>>

(* A failing patch goes back to the dirty ids and answers those it would   *)
(* have satisfied (_restore_failed_batch, _fail_covered_patch_waiters).    *)
FailPatch ==
  /\ worker \in {"reading", "building"} /\ load.kind = "patch" /\ ~IsStale(load.gen)
  /\ Spend
  /\ dirty' = Larger(load.batch, dirty)
  /\ progress' = TRUE
  /\ call' = Answer(PatchDone(load.batch), "failed")
  /\ wake' = TRUE /\ worker' = "awake" /\ load' = NoLoad
  /\ UNCHANGED <<row, view, dash, life, rev, immediate, applied, fulls>>

FailFull ==
  /\ worker \in {"reading", "building"} /\ load.kind = "full" /\ ~IsStale(load.gen)
  /\ Spend
  /\ call' = Answer(FullDone, "failed")
  /\ ScheduleReconcile
  /\ worker' = "awake" /\ load' = NoLoad
  /\ UNCHANGED <<row, view, dash, life, queue, fullRev, pendingFull, wake>>

(* A load of an older generation, or one that a close overtook, ends       *)
(* without effect, well or badly.                                          *)
DropLoad ==
  /\ worker = "building" /\ IsStale(load.gen)
  /\ worker' = "awake" /\ load' = NoLoad
  /\ UNCHANGED <<row, view, dash, life, queue, fulls, wake, call, spent>>

-----------------------------------------------------------------------------
Worker == \/ StartPatch \/ StartFull \/ Sleep \/ ReadRows
          \/ ApplyPatch \/ ApplyFull \/ DropLoad

Next == \/ \E t \in Tasks : ChangeRow(t)
        \/ SwitchScheduler \/ Deactivate \/ ReplaceGeneration \/ Close
        \/ \E ids \in SUBSET Tasks : MarkProgress(ids)
        \/ \E c \in Callers : \/ \E ids \in SUBSET Tasks : RefreshNow(c, ids)
                              \/ ReconcileNow(c) \/ Activate(c)
        \/ Worker \/ FailPatch \/ FailFull

Spec == Init /\ [][Next]_vars

(* The event loop runs what is ready, threads end and time passes; a load  *)
(* fails or succeeds.                                                      *)
FairSpec == Spec /\ WF_vars(Worker \/ FailPatch \/ FailFull) /\ SF_vars(StartPatch)
-----------------------------------------------------------------------------
TypeOK ==
  /\ row \in [Tasks -> Nat] /\ view \in [Tasks -> Nat] /\ dash \in Nat
  /\ gen \in Nat /\ epoch \in Nat /\ {active, closed, switching, wake} \subseteq BOOLEAN
  /\ rev \in Nat /\ dirty \in [Tasks -> 0..rev] /\ applied \in [Tasks -> 0..rev]
  /\ fullRev \in Nat /\ pendingFull \in 0..fullRev
  /\ {progress, reconcile} \subseteq BOOLEAN
  /\ worker \in {"none", "awake", "asleep", "reading", "building"}
  /\ load.kind \in {"none", "patch", "full"}
  /\ \A c \in Callers : call[c].kind \in {"idle", "patch", "full", "done", "failed"}

(* An id that somebody wants at once is dirty, a progress deadline has     *)
(* something to flush, and a hidden page reconciles nothing: otherwise the *)
(* worker's loop would pass a deadline again and again without work, or    *)
(* the caller of refresh_now would wait for a batch that is never taken.   *)
PendingOK ==
  /\ TypeOK
  /\ immediate \subseteq Dirty
  /\ progress => Dirty # {}
  /\ reconcile => active

(* The incremental dashboard of _patched_dashboard is always the total of  *)
(* the tasks on the page, however patches and full views alternate.        *)
DashboardIsTotal == dash = MapThenSumSet(LAMBDA t : Contribution(view[t]), Tasks)

(* A call that returns normally finds the page at least as new as the rows *)
(* were when it was made (refresh_now for its ids, reconcile_now for all). *)
RefreshedIsShown ==
  [][\A c \in Callers : call[c].kind \in Waiting /\ call'[c].kind = "done" =>
       \A t \in Tasks : view'[t] >= call[c].want[t]]_vars

(* Once a replaced scheduler has been announced, no load that still read   *)
(* the old one reaches the page.                                           *)
NoStaleApplied ==
  [][view' # view /\ ~switching => load.epoch = epoch]_vars

(* The page shows rows, and never goes back (TaskView).                    *)
PageOfRows == INSTANCE TaskView
ImplementsView == PageOfRows!Spec

(* Every refresh_now and reconcile_now ends, with a failed load, a hidden  *)
(* page, a replaced generation or a close too, and close() finds its       *)
(* worker gone.                                                            *)
CallsEnd == /\ \A c \in Callers : call[c].kind \in Waiting ~> call[c].kind \notin Waiting
            /\ closed ~> worker = "none"

(* On a page that stays visible every change is shown in the end, the one  *)
(* whose load failed too: the reconciliation repeats.                      *)
Settles == <>[]active => <>[](view = row)

(* The page keeps up with the rows: it implements TaskView, shows what was  *)
(* asked for, and nothing of a scheduler that has been replaced.            *)
PageKeepsUp == ImplementsView /\ RefreshedIsShown /\ NoStaleApplied
=============================================================================
