-------------------------------- MODULE MCDesk --------------------------------
(***************************************************************************)
(* The components that share no state with one another in the models, in   *)
(* one run: `which` chooses the one that moves, the others stay in their   *)
(* first state.  The behaviours are the sum of those of the modules, and   *)
(* each property below is the module's own.                                 *)
(***************************************************************************)
EXTENDS ConcurrencyLimiter

CONSTANTS
  a1, a2, b1, n1, taskA, taskB,                       \* the limiter's callers and tasks
  Gateways, Accounts, MaxActive, Events,              \* AccountSession
  MaxGeneration,                                      \* QrLogin
  MaxRuns,                                            \* Diagnostics
  Trouble, MaxKills,                                  \* UpdateFetch
  Posts, Lines, MaxBatchMedia, MaxPlans,              \* TaskPlanning
  MaxFaults, Overlap,                                 \* RuntimeSettings
  MaxBroken,                                          \* AppRun
  Tasks, Window, MaxEvents,                           \* Notifications
  MaxAlive,                                           \* AsyncActions
  Days, Minutes,                                      \* DownloadWindow
  OldFiles, NewFiles, Exe, Windows, MaxStops, MaxFailures   \* UpdateTransaction

(* Two callers of one download task, one of another, and one without key.  *)
MCCallers == {a1, a2, b1, n1}
MCKey == [c \in MCCallers |-> CASE c \in {a1, a2} -> taskA
                                [] c = b1 -> taskB
                                [] OTHER -> NoKey]

(* Two peers that number their messages alike, and three files of one name. *)
ThreePosts ==
  <<[peer |-> "p", names |-> {"p", "chan"}, msg |-> 1, name |-> "clip"],
    [peer |-> "q", names |-> {"q"}, msg |-> 1, name |-> "clip"],
    [peer |-> "p", names |-> {"p", "chan"}, msg |-> 2, name |-> "clip"]>>
FiveLines ==
  <<[form |-> "preview", ref |-> "chan", msg |-> -1], [form |-> "public", ref |-> "chan", msg |-> 0],
    [form |-> "public", ref |-> "chan", msg |-> -1], [form |-> "private", ref |-> "p", msg |-> 2],
    [form |-> "private", ref |-> "q", msg |-> -1]>>

(* A runtime and its successor: one file is replaced, one disappears, one is *)
(* new, and the manifest is the last of both.                                 *)
OldList == <<"exe", "gone", "manifest">>
NewList == <<"added", "exe", "manifest">>

VARIABLES
  which,
  gws, gw, bound, accShown, scheds, sched, accDisk, mem, cand, asking, fin, cxl, mon, handled, crossed,
  qrGen, cur, waits, ops, lock, qrShown, qrSpent,
  first, run, service, child, event, results, report, page, cancelling, loading, dxDisk, package,
  stage, target, order, pack, part, meta, stream, begun, kills,
  rows, planned, files, naming, flow, plans,
  saved, memory, registry, vault, tray, window, told, draft, checking, step, was, want, back, done,
  faults, loose,
  holder, phase, avail, hidden, toTray, visible, icon, server, startup, on, exiting, shutdown, broken, whole,
  pending, ended, ready, timer, counted, given,
  tasks, table, busy, leaving, awaited,
  set, now, state, loop,
  root, backup, extraction, disk, journal, helper, spot, launched, kept, stops, failures

account  == <<gws, gw, bound, accShown, scheds, sched, accDisk, mem, cand, asking, fin, cxl, mon, handled, crossed>>
qr       == <<qrGen, cur, waits, ops, lock, qrShown, qrSpent>>
dx       == <<first, run, service, child, event, results, report, page, cancelling, loading, dxDisk, package>>
fetch    == <<stage, target, order, pack, part, meta, stream, begun, kills>>
planning == <<rows, planned, files, naming, flow, plans>>
settings == <<saved, memory, registry, vault, tray, window, told, draft, checking, step, was, want, back,
              done, faults, loose>>
app      == <<holder, phase, avail, hidden, toTray, visible, icon, server, startup, on, exiting, shutdown,
              broken, whole>>
notices  == <<pending, ended, ready, timer, counted, given>>
actions  == <<tasks, table, busy, leaving, awaited>>
hours    == <<set, now, state, loop>>
update   == <<root, backup, extraction, disk, journal, helper, spot, launched, kept, stops, failures>>

Account == INSTANCE AccountSession WITH shown <- accShown, disk <- accDisk
Qr      == INSTANCE QrLogin WITH gen <- qrGen, shown <- qrShown, spent <- qrSpent
Dx      == INSTANCE Diagnostics WITH disk <- dxDisk
Fetch   == INSTANCE UpdateFetch
Plan    == INSTANCE TaskPlanning WITH tasks <- planned
Setting == INSTANCE RuntimeSettings
App     == INSTANCE AppRun
Notice  == INSTANCE Notifications
Action  == INSTANCE AsyncActions
Hours   == INSTANCE DownloadWindow
Update  == INSTANCE UpdateTransaction WITH MaxFaults <- MaxFailures, pc <- helper, i <- spot, faults <- failures

ASSUME UpdateAssumption ==
  Update!FilesAssumption /\ Update!WindowsAssumption /\ Update!BoundAssumption
ASSUME PostsAssumption == Plan!PostsAssumption
ASSUME WeekAssumption == Hours!WeekAssumption

(* Of a component that is not chosen, one of the first states is enough; the *)
(* accounts are alike.                                                         *)
MCInit ==
  /\ which \in {"limiter", "account", "qr", "diagnostics", "fetch", "planning", "settings",
                "app", "notifications", "actions", "window", "update"}
  /\ Init         /\ (which = "limiter" \/ limit = 1)
  /\ Account!Init /\ accDisk = CHOOSE a \in Accounts : TRUE
  /\ Qr!Init
  /\ Dx!Init      /\ (which = "diagnostics" \/ first = 1)
  /\ Fetch!Init
  /\ Plan!Init    /\ (which = "planning" \/ files = {})
  /\ Setting!Init /\ App!Init /\ Notice!Init /\ Action!Init /\ Hours!Init
  /\ Update!Init

-----------------------------------------------------------------------------
(* Bounds: a log-in is cancelled only while a gateway is left to be made, and *)
(* the connection breaks, or the session is revoked, only while two are; the  *)
(* window is changed from the default, or when it cannot be evaluated.          *)
Early == /\ Account!CancelLogin => Account!Unmade # {}
         /\ Account!Drop \/ Account!Revoke => Cardinality(Account!Unmade) > 1
Anew  == Hours!Reconfigure => set = Hours!Default \/ state = Hours!Failed

MCNext ==
  /\ UNCHANGED which
  /\ IF which = "limiter"       THEN Next          ELSE UNCHANGED vars
  /\ IF which = "account"       THEN Account!Next /\ Early ELSE UNCHANGED account
  /\ IF which = "qr"            THEN Qr!Next       ELSE UNCHANGED qr
  /\ IF which = "diagnostics"   THEN Dx!Next       ELSE UNCHANGED dx
  /\ IF which = "fetch"         THEN Fetch!Next    ELSE UNCHANGED fetch
  /\ IF which = "planning"      THEN Plan!Next     ELSE UNCHANGED planning
  /\ IF which = "settings"      THEN Setting!Next  ELSE UNCHANGED settings
  /\ IF which = "app"           THEN App!Next      ELSE UNCHANGED app
  /\ IF which = "notifications" THEN Notice!Next   ELSE UNCHANGED notices
  /\ IF which = "actions"       THEN Action!Next   ELSE UNCHANGED actions
  /\ IF which = "window"        THEN Hours!Next /\ Anew ELSE UNCHANGED hours
  /\ IF which = "update"        THEN Update!Next   ELSE UNCHANGED update

MCvars == <<which, vars, account, qr, dx, fetch, planning, settings, app, notices, actions, hours, update>>

(* The fairness of the modules whose liveness is checked: the limiter's, in *)
(* the form it has there, and that of the notification timer.               *)
MCFairness ==
  /\ \A c \in Callers : /\ []<>(which # "limiter" \/ pc[c] # "granted")
                        /\ []<>(which # "limiter" \/ c \notin cancelled)
                        /\ []<>(which # "limiter" \/ pc[c] # "holding")
  /\ WF_notices(which = "notifications" /\ Notice!Setup)
  /\ WF_notices(which = "notifications" /\ Notice!Fire)
  /\ WF_notices(which = "notifications" /\ Notice!Tick)

MCSpec == MCInit /\ [][MCNext]_MCvars /\ MCFairness
-----------------------------------------------------------------------------
(* PermitsInOrder and WaitEnds are the limiter's own.                        *)

(* Every variable of the component that moves has its type (the others keep  *)
(* their first value).                                                        *)
TypesOK ==
  CASE which = "limiter"     -> TypeOK          [] which = "account"       -> Account!TypeOK
    [] which = "diagnostics" -> Dx!TypeOK       [] which = "fetch"         -> Fetch!TypeOK
    [] which = "planning"    -> Plan!TypeOK     [] which = "qr"            -> TRUE
    [] which = "settings"    -> Setting!TypeOK  [] which = "app"           -> App!TypeOK
    [] which = "actions"     -> Action!TypeOK   [] which = "notifications" -> Notice!TypeOK
    [] which = "window"      -> Hours!TypeOK    [] which = "update"        -> Update!TypeOK

(* Changing the account never ends a download that runs for the old one.     *)
SwitchCutsNothing == Account!SwitchCutsNothing

(* Between log-ins the content pages, the subscriptions, the scheduler and   *)
(* the saved session are all those of the current gateway.                    *)
Coherent == Account!Coherent

(* When nobody is asking for a QR code, the one on display is the one a task *)
(* waits for; there is one such task, and no code is replaced twice.          *)
QrIsCurrent == Qr!ShownIsAwaited /\ Qr!OneWaiter /\ Qr!RefreshedOnce

(* Every report the diagnostic checks lead to passes the store's white list, *)
(* and in it everything after a cancelled result is cancelled.                *)
ReportsAreRight == Dx!ReportsAreAccepted /\ Dx!CancelledIsSuffix

(* A download goes on only from a partial file begun for the accepted issue.  *)
ResumesItsOwn == Fetch!ResumesItsOwn

(* Within one plan and one task no two media share a file.                    *)
MediaApart == Plan!TargetsApart

(* What the user confirms is queued, by this plan or by a quicker one.        *)
ConfirmedIsQueued == Plan!ConfirmedIsQueued

(* A save of the settings is applied everywhere or undone everywhere.         *)
AppliedOrUndone == Setting!AppliedOrUndone

(* While the program runs its user can get at it, and a run that had started *)
(* completely stops every service before it gives the mutex back.             *)
AppInReach == App!AppInReach

(* Every recorded event is counted in a notification in the end.              *)
EventsAreGiven == Notice!EventsAreGiven

(* A user action that was not told to stop is the one known under its key,   *)
(* and no page is marked busy without one.                                     *)
ActionsAreKnown == Action!ActionsAreKnown

(* The evaluation of the download window agrees with the settings' minutes.   *)
FollowsTheWeek == Hours!FollowsTheWeek

(* Where an update fails, or is stopped outside the windows of its module     *)
(* (here none is hit), the program is one whole runtime.                       *)
RuntimeIsWhole == Update!RuntimeIsWhole
=============================================================================
