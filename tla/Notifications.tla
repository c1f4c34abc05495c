------------------------------ MODULE Notifications ------------------------------
(***************************************************************************)
(* The batching of notifications (notifications.py, and the timer of       *)
(* app.py): events of one kind are counted together until their window is  *)
(* over, and a one-shot timer is armed for the earliest deadline.  Times    *)
(* are what is left of them; the kinds are those that announce a task's     *)
(* end, once per task, and one of the others.                               *)
(***************************************************************************)
EXTENDS Integers, FiniteSetsExt

CONSTANTS
  Tasks,       \* tasks whose end is announced
  Window,      \* window_seconds
  MaxEvents    \* bound: events recorded of a kind

VARIABLES
  pending,     \* kind -> its batch
  ended,       \* _terminal_identities
  ready,       \* the timer has been made: notification_arm
  timer,       \* what is left until it fires, Off when it is not active
  counted,     \* kind -> what was recorded
  given        \* kind -> what the payloads handed to show_notification said

vars == <<pending, ended, ready, timer, counted, given>>

Terminals == {"completed", "failed"}
Kinds == Terminals \cup {"other"}
Off   == -1
Empty == [count |-> 0, left |-> 0]
Full(p) == {k \in Kinds : p[k] # Empty}

Init == /\ pending = [k \in Kinds |-> Empty] /\ ended = {} /\ ready = FALSE /\ timer = Off
        /\ counted = [k \in Kinds |-> 0] /\ given = [k \in Kinds |-> 0]

(* arm_notification_timer: nothing while the timer runs or nothing waits. *)
Armed(p, t) == IF t # Off \/ Full(p) = {} THEN t ELSE Min({p[k].left : k \in Full(p)})

(* record, and the arming that follows it: the first event of a batch sets   *)
(* its deadline.                                                              *)
Add(k, n) ==
  /\ counted[k] + n <= MaxEvents
  /\ counted' = [counted EXCEPT ![k] = @ + n]
  /\ pending' = [pending EXCEPT ![k] = [count |-> @.count + n, left |-> IF @ = Empty THEN Window ELSE @.left]]
  /\ timer' = IF ready THEN Armed(pending', timer) ELSE timer
  /\ UNCHANGED <<ready, given>>

RecordTask == \E k \in Terminals, t \in Tasks \ ended : Add(k, 1) /\ ended' = ended \cup {t}
RecordOther == \E n \in 1 .. 2 : Add("other", n) /\ UNCHANGED ended

(* run makes the timer once the window is there, and arms it for what was    *)
(* recorded before.                                                           *)
Setup == /\ ~ready /\ ready' = TRUE
         /\ timer' = Armed(pending, timer)
         /\ UNCHANGED <<pending, ended, counted, given>>

Due == {k \in Kinds : pending[k] # Empty /\ pending[k].left = 0}

(* Mutant: the timer is armed again by the next event only. *)
FireOnce ==
  /\ timer \in {0, 1}
  /\ given' = [k \in Kinds |-> given[k] + IF k \in Due THEN pending[k].count ELSE 0]
  /\ pending' = [k \in Kinds |-> IF k \in Due THEN Empty ELSE pending[k]]
  /\ timer' = Off
  /\ UNCHANGED <<ended, ready, counted>>

(* flush_notifications.  A Qt timer of this length may fire a little early:  *)
(* then nothing is due yet.                                                    *)
Fire ==
  /\ timer \in {0, 1}
  /\ given' = [k \in Kinds |-> given[k] + IF k \in Due THEN pending[k].count ELSE 0]
  /\ pending' = [k \in Kinds |-> IF k \in Due THEN Empty ELSE pending[k]]
  /\ timer' = Armed(pending', Off)
  /\ UNCHANGED <<ended, ready, counted>>

(* Time passes; the event loop may be late. *)
Tick ==
  /\ timer > 0 \/ \E k \in Full(pending) : pending[k].left > 0
  /\ timer' = IF timer > 0 THEN timer - 1 ELSE timer
  /\ pending' = [k \in Kinds |-> IF pending[k].left > 0 THEN [pending[k] EXCEPT !.left = @ - 1] ELSE pending[k]]
  /\ UNCHANGED <<ended, ready, counted, given>>

Next == RecordTask \/ RecordOther \/ Setup \/ Fire \/ Tick
Fairness == WF_vars(Setup) /\ WF_vars(Fire) /\ WF_vars(Tick)
Spec == Init /\ [][Next]_vars /\ Fairness

-----------------------------------------------------------------------------
TypeOK ==
  /\ \A k \in Kinds : pending[k].left \in 0 .. Window /\ given[k] + pending[k].count = counted[k]
  /\ ended \subseteq Tasks /\ ready \in BOOLEAN /\ timer \in Off .. Window

(* Every recorded event is counted in a notification in the end, whatever    *)
(* came before the timer was made, between two deadlines, or when the timer   *)
(* fired before its time: what was given catches up with what was counted.    *)
(* (No more than MaxEvents of a kind are counted, so no event is behind then   *)
(* because another has come.)                                                  *)
EventsAreGiven == []<>(given = counted)
=============================================================================
