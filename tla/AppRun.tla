--------------------------------- MODULE AppRun ---------------------------------
(***************************************************************************)
(* One run of the application (app.py run, __main__.py, background.py,     *)
(* activation.py, instance_guard.py): the start-up task, the window and    *)
(* its tray icon, the ways to exit, and the shutdown that stops the        *)
(* services, each even when the one before it failed.                       *)
(***************************************************************************)
EXTENDS Naturals, FiniteSets

CONSTANT MaxBroken    \* bound: services of one run whose stop fails

VARIABLES
  holder,    \* whose mutex it is
  phase,     \* where run stands
  avail,     \* tray.available, asked once per run
  hidden,    \* started with --background
  toTray,    \* close_to_tray
  visible, icon, server,     \* the window, the tray icon, the activation server
  startup,   \* the start-up task
  on,        \* services that run
  exiting,   \* BackgroundModeController._exit_requested
  shutdown,  \* the service _GracefulShutdown stops next
  broken,    \* services whose stop failed
  whole      \* the start-up had ended when the shutdown was requested

vars == <<holder, phase, avail, hidden, toTray, visible, icon, server, startup, on, exiting, shutdown,
          broken, whole>>
run  == <<holder, phase, avail, hidden, server>>
rest == <<avail, hidden, server, toTray, visible, icon, startup, on, exiting, shutdown, broken, whole>>

Init == /\ holder = "none" /\ phase = "off" /\ startup = "none" /\ shutdown = "none"
        /\ avail = FALSE /\ hidden = FALSE /\ toTray = TRUE
        /\ visible = FALSE /\ icon = FALSE /\ server = FALSE
        /\ on = {} /\ broken = {} /\ exiting = FALSE /\ whole = FALSE

-----------------------------------------------------------------------------
(* run: the mutex, the application and the controller, the tray, the server. *)
Launch ==
  /\ phase = "off" /\ holder = "none"
  /\ holder' = "app" /\ phase' = "building"
  /\ avail' \in BOOLEAN /\ hidden' \in BOOLEAN
  /\ startup' = "none" /\ shutdown' = "none" /\ exiting' = FALSE /\ whole' = FALSE
  /\ on' = {} /\ broken' = {}
  /\ UNCHANGED <<toTray, visible, icon, server>>

Build ==
  /\ phase = "building"
  /\ \/ /\ phase' = "loop" /\ startup' = "show" /\ on' = {"actions"}
        /\ icon' = avail /\ server' \in BOOLEAN
     \/ phase' = "cleanup" /\ UNCHANGED <<startup, on, icon, server>>
  /\ UNCHANGED <<holder, avail, hidden, toTray, visible, exiting, shutdown, broken, whole>>

(* A second start finds the mutex taken and asks for the window.  It tells    *)
(* the user itself when nobody answers, which changes nothing here.            *)
Activate ==
  /\ holder = "app" /\ phase = "loop" /\ server
  /\ visible' = TRUE
  /\ UNCHANGED <<run, toTray, icon, startup, on, exiting, shutdown, broken, whole>>

(* _run_health_command *)
HealthCheck ==
  /\ \/ holder = "none" /\ holder' = "health"
     \/ holder = "health" /\ holder' = "none"
  /\ UNCHANGED <<phase, rest>>

-----------------------------------------------------------------------------
(* _GracefulShutdown.request: once. *)
Request == /\ shutdown' = IF shutdown = "none" THEN "storage" ELSE shutdown
           /\ whole' = IF shutdown = "none" THEN startup \in {"done", "failed"} ELSE whole

(* _show_initial_window *)
ShowInitial == visible' = (visible \/ ~(hidden /\ avail))

Show ==
  /\ phase = "loop" /\ startup = "show"
  /\ ShowInitial
  /\ startup' = "schedule"
  /\ UNCHANGED <<run, toTray, icon, on, exiting, shutdown, broken, whole>>

After == [schedule |-> "controller", controller |-> "storage", storage |-> "done"]

(* The next service is started; the storage scheduler refuses after its stop. *)
StartService ==
  /\ phase = "loop" /\ startup \in DOMAIN After
  /\ startup = "storage" => shutdown \in {"none", "storage"}
  /\ on' = on \cup {startup} /\ startup' = After[startup]
  /\ UNCHANGED <<run, toTray, visible, icon, exiting, shutdown, broken, whole>>

(* startup_finished: a start-up that fails requests the shutdown. *)
StartFails ==
  /\ phase = "loop" /\ startup \in DOMAIN After
  /\ startup' = "failed"
  /\ shutdown' = IF shutdown = "none" THEN "storage" ELSE shutdown
  /\ whole' = (whole \/ shutdown = "none")
  /\ UNCHANGED <<run, toTray, visible, icon, on, exiting, broken>>

-----------------------------------------------------------------------------
(* request_exit *)
RequestExit == IF exiting THEN UNCHANGED <<exiting, icon, shutdown, whole>>
                          ELSE exiting' = TRUE /\ icon' = FALSE /\ Request

(* The window's close button: WindowCloseFilter and handle_window_close. *)
CloseWindow ==
  /\ phase = "loop" /\ visible
  /\ IF shutdown = "quit" \/ (toTray /\ avail)
       THEN visible' = FALSE /\ UNCHANGED <<exiting, icon, shutdown, whole>>
       ELSE RequestExit /\ UNCHANGED visible
  /\ UNCHANGED <<run, toTray, startup, on, broken>>

(* The tray's menu and its notifications, while its icon is there. *)
Tray ==
  /\ phase = "loop" /\ icon
  /\ \/ visible' \in BOOLEAN /\ UNCHANGED <<exiting, icon, shutdown, whole>>
     \/ RequestExit /\ UNCHANGED visible
  /\ UNCHANGED <<run, toTray, startup, on, broken>>

(* The session ends, or an update was started. *)
OtherExit ==
  /\ phase = "loop" /\ ~exiting /\ RequestExit
  /\ UNCHANGED <<run, toTray, visible, startup, on, broken>>

(* background.configure *)
Configure ==
  /\ phase = "loop" /\ toTray' = ~toTray
  /\ UNCHANGED <<run, visible, icon, startup, on, exiting, shutdown, broken, whole>>

-----------------------------------------------------------------------------
Following == [storage |-> "actions", actions |-> "controller", controller |-> "schedule", schedule |-> "quit"]

(* Mutant: a failure skips the stops that are left. *)
StopOrQuit ==
  /\ phase \in {"loop", "unwinding"} /\ shutdown \in DOMAIN Following
  /\ \/ on' = on \ {shutdown} /\ shutdown' = Following[shutdown] /\ UNCHANGED broken
     \/ /\ Cardinality(broken) < MaxBroken /\ broken' = broken \cup {shutdown}
        /\ shutdown' = "quit" /\ UNCHANGED on
  /\ UNCHANGED <<run, toTray, visible, icon, startup, exiting, whole>>

(* One step of _GracefulShutdown._run: `finally` leads to the next one. *)
Stop ==
  /\ phase \in {"loop", "unwinding"} /\ shutdown \in DOMAIN Following
  /\ shutdown' = Following[shutdown]
  /\ \/ on' = on \ {shutdown} /\ UNCHANGED broken
     \/ Cardinality(broken) < MaxBroken /\ broken' = broken \cup {shutdown} /\ UNCHANGED on
  /\ UNCHANGED <<run, toTray, visible, icon, startup, exiting, whole>>

(* quit_application ends the loop. *)
Quit ==
  /\ phase = "loop" /\ shutdown = "quit"
  /\ phase' = "unwinding"
  /\ UNCHANGED <<holder, rest>>

(* When the session ends Qt may end the loop before the shutdown does. *)
SessionQuits ==
  /\ phase = "loop" /\ exiting
  /\ phase' = "unwinding"
  /\ UNCHANGED <<holder, rest>>

CancelStartup ==
  /\ phase = "unwinding" /\ startup \in {"show"} \cup DOMAIN After
  /\ startup' = "cancelled"
  /\ UNCHANGED <<run, toTray, visible, icon, on, exiting, shutdown, broken, whole>>

(* graceful_shutdown.wait *)
Waited ==
  /\ phase = "unwinding" /\ startup \in {"done", "failed", "cancelled"} /\ shutdown = "quit"
  /\ phase' = "cleanup"
  /\ UNCHANGED <<holder, rest>>

Gone == /\ phase' = "off" /\ holder' = "none" /\ server' = FALSE /\ icon' = FALSE /\ visible' = FALSE
        /\ UNCHANGED <<avail, hidden, toTray, startup, on, exiting, shutdown, broken, whole>>

(* The `finally` of run. *)
Cleanup == phase = "cleanup" /\ Gone

(* The process is killed: the system releases its mutex. *)
Kill == phase # "off" /\ Gone

UI == Activate \/ CloseWindow \/ Tray \/ OtherExit \/ Configure
Unwind == Stop \/ Quit \/ CancelStartup \/ Waited \/ Cleanup
Next == \/ Launch \/ Build \/ HealthCheck \/ Show \/ StartService \/ StartFails
        \/ UI \/ Unwind \/ SessionQuits \/ Kill

(* The event loop runs what is ready, and every stop returns. *)
Fairness == WF_vars(Unwind)
Spec == Init /\ [][Next]_vars /\ Fairness

-----------------------------------------------------------------------------
TypeOK ==
  /\ holder \in {"none", "app", "health"} /\ phase \in {"off", "building", "loop", "unwinding", "cleanup"}
  /\ startup \in {"none", "show", "done", "failed", "cancelled"} \cup DOMAIN After
  /\ shutdown \in {"none", "quit"} \cup DOMAIN Following
  /\ on \cup broken \subseteq DOMAIN Following
  /\ {avail, hidden, toTray, visible, icon, server, exiting, whole} \subseteq BOOLEAN

(* Once the start-up has come to its window the user can always get at the   *)
(* program: it shows its window, or an icon, or it is going to exit.          *)
NeverHeadless ==
  phase = "loop" /\ startup # "show" => visible \/ icon \/ shutdown # "none"

(* A run whose start-up had ended before the exit was asked for stops every  *)
(* service, whichever of the stops fails, before it gives the mutex back.    *)
AllStopped == phase = "cleanup" /\ whole => on \subseteq broken

(* The user can get at the program while it runs, and what it had started    *)
(* is stopped before another run may begin.                                    *)
AppInReach == NeverHeadless /\ AllStopped

(* A requested exit ends the process. *)
ExitEnds == shutdown # "none" ~> phase = "off"
=============================================================================
