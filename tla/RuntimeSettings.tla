---------------------------- MODULE RuntimeSettings ----------------------------
(***************************************************************************)
(* Saving the settings (controller.py, runtime_settings.py, settings.py,   *)
(* autostart.py, download_schedule.py, the dialog's wiring in app.py): a   *)
(* save changes the registry, settings.json, the tray's behaviour, the     *)
(* download window and the vault one after the other, and takes back what  *)
(* it did when one of them fails.  A setting is [auto, stamp]: everything   *)
(* the dialog edits, and the time of the last check for updates, which the  *)
(* program writes on its own.                                               *)
(***************************************************************************)
EXTENDS Naturals

CONSTANTS
  MaxFaults,    \* bound: effects of one save that fail
  Overlap       \* whether a check's time may be written during a save, or unseen by the dialog

VARIABLES
  saved, memory,          \* settings.json, and controller.settings
  registry, vault,        \* the start with Windows, and the secrets on disk
  tray, window, told,     \* BackgroundModeController, the window's settings, what the scheduler was told
  draft,                  \* the stamp the dialog carries, none while it is closed
  checking,               \* a check wrote its time and has not told the dialog
  step, was, want, back, done,  \* apply: the settings it goes from and to, and what it changed
  faults,
  loose                   \* a save was stopped or failed twice, and none was applied since

vars == <<saved, memory, registry, vault, tray, window, told, draft, checking, step, was, want, back, done,
          faults, loose>>
settings == <<saved, memory, registry, vault, tray, window, told>>
plan == <<was, want, back, done>>

Start == [auto |-> "off", stamp |-> FALSE]
Init == /\ saved = Start /\ memory = Start /\ was = Start /\ want = Start
        /\ registry = "off" /\ vault = "off" /\ tray = "off" /\ window = "off" /\ told = "off"
        /\ draft = {} /\ checking = FALSE
        /\ step = "idle" /\ back = FALSE /\ done = {} /\ faults = 0 /\ loose = FALSE

-----------------------------------------------------------------------------
Open == /\ draft = {} /\ step = "idle" /\ ~checking
        /\ draft' = {memory.stamp}
        /\ UNCHANGED <<settings, checking, step, plan, faults, loose>>

Close == /\ draft # {} /\ step = "idle" /\ ~checking
         /\ draft' = {}
         /\ UNCHANGED <<settings, checking, step, plan, faults, loose>>

(* _record_successful_update_check, from the check the dialog offers. *)
Record ==
  /\ draft # {} /\ ~checking
  /\ step = "idle" \/ Overlap
  /\ memory' = [memory EXCEPT !.stamp = TRUE] /\ saved' = memory'
  /\ checking' = TRUE
  /\ UNCHANGED <<registry, vault, tray, window, told, draft, step, plan, faults, loose>>

(* check_updates of the dialog, when its check returns. *)
Report == /\ checking /\ checking' = FALSE
          /\ draft' = IF draft = {} THEN {} ELSE {memory.stamp}
          /\ UNCHANGED <<settings, step, plan, faults, loose>>

(* apply_settings with what the dialog holds; preparing the download folder *)
(* may refuse before anything is changed.                                    *)
Save ==
  /\ step = "idle" /\ draft # {}
  /\ ~checking \/ Overlap
  /\ \E auto \in {"off", "on"}, stamp \in draft : want' = [auto |-> auto, stamp |-> stamp]
  /\ was' = memory /\ back' = FALSE /\ done' = {} /\ faults' = 0
  /\ step' = "registry"
  /\ UNCHANGED <<settings, draft, checking, loose>>

-----------------------------------------------------------------------------
From == IF back THEN want ELSE was
To   == IF back THEN was ELSE want

Fault == faults < MaxFaults /\ faults' = faults + 1 /\ loose' = (loose \/ faults = 1)

(* An effect that fails: the ones before it are taken back. *)
Fails == Fault /\ step' = "unwindow" /\ UNCHANGED <<settings, plan>>

(* autostart.reconcile *)
Register ==
  /\ step = "registry"
  /\ \/ Fails
     \/ /\ registry' = To.auto /\ done' = {"registry"} /\ step' = "store"
        /\ UNCHANGED <<saved, memory, vault, tray, window, told, was, want, back, faults, loose>>
  /\ UNCHANGED <<draft, checking>>

(* settings_store.save: an atomic replacement of settings.json. *)
Store ==
  /\ step = "store"
  /\ \/ Fails
     \/ /\ saved' = To /\ done' = done \cup {"store"} /\ step' = "window"
        /\ UNCHANGED <<memory, registry, vault, tray, window, told, was, want, back, faults, loose>>
  /\ UNCHANGED <<draft, checking>>

(* background.configure, and schedule.reconfigure up to its lock. *)
Configure ==
  /\ step = "window"
  /\ tray' = To.auto /\ window' = To.auto /\ step' = "tell"
  /\ UNCHANGED <<saved, memory, registry, vault, told, draft, checking, plan, faults, loose>>

(* DownloadScheduleController.refresh: the scheduler is told what changed. *)
Tell ==
  /\ step = "tell"
  /\ \/ Fails
     \/ /\ told' = window
        /\ step' = IF back THEN "idle" ELSE "vault"
        /\ UNCHANGED <<saved, memory, registry, vault, tray, window, plan, faults, loose>>
  /\ UNCHANGED <<draft, checking>>

(* The vault is last: when it fails the whole application is applied back. *)
SaveVault ==
  /\ step = "vault"
  /\ \/ Fault /\ back' = TRUE /\ done' = {} /\ step' = "registry" /\ UNCHANGED vault
     \/ vault' = want.auto /\ step' = "commit" /\ UNCHANGED <<back, done, faults, loose>>
  /\ UNCHANGED <<saved, memory, registry, tray, window, told, draft, checking, was, want>>

Commit ==
  /\ step = "commit"
  /\ memory' = want /\ draft' = {} /\ step' = "idle" /\ loose' = FALSE
  /\ UNCHANGED <<saved, registry, vault, tray, window, told, checking, plan, faults>>

-----------------------------------------------------------------------------
(* What is taken back, each on its own: a failure is suppressed.  The        *)
(* scheduler is told the window again only if what it was told differs.       *)
Unwindow ==
  /\ step = "unwindow"
  /\ window' = From.auto /\ tray' = From.auto /\ told' = window'
  /\ step' = "unstore"
  /\ UNCHANGED <<saved, memory, registry, vault, draft, checking, plan, faults, loose>>

(* Mutant: the file is left as it is. *)
UnstoreNothing ==
  /\ step = "unstore" /\ step' = "unregister"
  /\ UNCHANGED <<settings, draft, checking, plan, faults, loose>>

Unstore ==
  /\ step = "unstore"
  /\ \/ "store" \in done /\ saved' = From /\ UNCHANGED <<faults, loose>>
     \/ "store" \in done /\ Fault /\ UNCHANGED saved
     \/ "store" \notin done /\ UNCHANGED <<saved, faults, loose>>
  /\ step' = "unregister"
  /\ UNCHANGED <<memory, registry, vault, tray, window, told, draft, checking, plan>>

Unregister ==
  /\ step = "unregister"
  /\ \/ "registry" \in done /\ registry' = From.auto /\ UNCHANGED <<faults, loose>>
     \/ "registry" \in done /\ Fault /\ UNCHANGED registry
     \/ "registry" \notin done /\ UNCHANGED <<registry, faults, loose>>
  /\ step' = "idle"
  /\ UNCHANGED <<saved, memory, vault, tray, window, told, draft, checking, plan>>

(* The program stops (an exit cancels the save where it is) and starts from  *)
(* its file; a start with Windows that is asked for is written again.         *)
Restart ==
  /\ loose' = (loose \/ step # "idle")
  /\ memory' = saved /\ tray' = saved.auto /\ window' = saved.auto /\ told' = saved.auto
  /\ registry' = IF saved.auto = "on" THEN "on" ELSE registry
  /\ draft' = {} /\ checking' = FALSE /\ step' = "idle"
  /\ UNCHANGED <<saved, vault, plan, faults>>

Work == \/ Register \/ Store \/ Configure \/ Tell \/ SaveVault \/ Commit
        \/ Unwindow \/ Unstore \/ Unregister
Next == Open \/ Close \/ Record \/ Report \/ Save \/ Work \/ Restart
Spec == Init /\ [][Next]_vars

-----------------------------------------------------------------------------
TypeOK ==
  /\ {saved, memory, was, want} \subseteq [auto : {"off", "on"}, stamp : BOOLEAN]
  /\ {registry, vault, tray, window, told} \subseteq {"off", "on"}
  /\ draft \in SUBSET BOOLEAN
  /\ done \subseteq {"registry", "store"} /\ faults \in 0 .. MaxFaults

(* A save is applied everywhere or undone everywhere: when none is running,  *)
(* whichever of its effects failed, the registry, the file, the tray, the    *)
(* window, the scheduler and the vault are those of the settings in memory.   *)
(* (A stop inside a save takes nothing back, nor does a second failure.)       *)
AppliedOrUndone ==
  step = "idle" /\ ~loose =>
    /\ saved = memory
    /\ {registry, vault, tray, window, told} = {memory.auto}

(* A time of a check once written to the file is never overwritten by the    *)
(* settings a dialog was opened with.                                          *)
NothingForgotten == [][saved.stamp => saved'.stamp]_vars
=============================================================================
