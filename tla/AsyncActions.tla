------------------------------ MODULE AsyncActions ------------------------------
(***************************************************************************)
(* The bridge from the window's signals to coroutines                      *)
(* (ui/async_actions.py) with a sample of the keys app.py wires to it: one  *)
(* task per key, a second request for a key is dropped or replaces the      *)
(* first, hooks mark the page as busy, and the exit cancels what runs.      *)
(***************************************************************************)
EXTENDS Naturals

CONSTANT MaxAlive     \* bound: tasks alive at a time

VARIABLES
  tasks,     \* slot -> a task: its key and its state
  table,     \* _tasks: key -> the slot of its task, 0 when it has none or a finished one
  busy,      \* the pages that are marked busy
  leaving,   \* shutdown of the bridge: "no", "waiting" or "done"
  awaited    \* the tasks it waits for

vars == <<tasks, table, busy, leaving, awaited>>

Slots == 1 .. MaxAlive
Replacing == {"content.search"}
Keys == Replacing \cup {"content.queue", "storage.activate", "storage.scan"}
(* The hooks' page: both keys of the storage page share its busy mark. *)
Pages == {"queue", "storage"}
Page(key) == IF key \in Replacing THEN {} ELSE IF key = "content.queue" THEN {"queue"} ELSE {"storage"}

Ended == [key |-> "none", state |-> "ended"]
Alive == {s \in Slots : tasks[s].state # "ended"}

Init == /\ tasks = [s \in Slots |-> Ended] /\ table = [key \in Keys |-> 0]
        /\ busy = {} /\ leaving = "no" /\ awaited = {}

-----------------------------------------------------------------------------
(* task.cancel: a task that has not begun never runs, and neither do its     *)
(* hooks.                                                                      *)
Cancelled(all, gone) ==
  [s \in Slots |-> IF s \notin gone \/ all[s].state = "ended" THEN all[s]
                   ELSE IF all[s].state = "new" THEN Ended
                   ELSE [all[s] EXCEPT !.state = "stopping"]]

(* start *)
Begin(key) ==
  /\ table[key] = 0 \/ key \in Replacing
  /\ LET stopped == Cancelled(tasks, {table[key]}) IN
     \E s \in {t \in Slots : stopped[t].state = "ended"} :
       /\ tasks' = [stopped EXCEPT ![s] = [key |-> key, state |-> "new"]]
       /\ table' = [table EXCEPT ![key] = s]
  /\ busy' = busy \cup Page(key)
  /\ UNCHANGED <<leaving, awaited>>

Run(s) ==
  /\ tasks[s].state = "new"
  /\ tasks' = [tasks EXCEPT ![s].state = "running"]
  /\ UNCHANGED <<table, busy, leaving, awaited>>

(* Mutant: the entry of the key is removed whoever holds it. *)
ForgetKey(s) == /\ table' = [table EXCEPT ![tasks[s].key] = 0]
                /\ busy' = busy \ Page(tasks[s].key)

(* The `finally` of _run: only the task the table names removes its entry     *)
(* and runs the hook that ends the mark.                                       *)
Forget(s) == IF table[tasks[s].key] = s
               THEN /\ table' = [table EXCEPT ![tasks[s].key] = 0]
                    /\ busy' = busy \ Page(tasks[s].key)
               ELSE UNCHANGED <<table, busy>>

(* The coroutine returns, fails or is cancelled. *)
End(s) ==
  /\ tasks[s].state \in {"running", "stopping"}
  /\ Forget(s)
  /\ tasks' = [tasks EXCEPT ![s] = Ended] /\ awaited' = awaited \ {s}
  /\ UNCHANGED leaving

(* shutdown; requests that come later are still accepted. *)
Shutdown ==
  /\ leaving = "no" /\ leaving' = "waiting"
  /\ LET pending == {table[key] : key \in Keys} \ {0} IN
     /\ tasks' = Cancelled(tasks, pending)
     /\ awaited' = {s \in pending : tasks'[s] # Ended}
     /\ table' = [key \in Keys |-> IF table[key] \in awaited' THEN table[key] ELSE 0]
  /\ UNCHANGED busy

ShutdownDone ==
  /\ leaving = "waiting" /\ awaited = {}
  /\ leaving' = "done"
  /\ UNCHANGED <<tasks, table, busy, awaited>>

Next == \/ \E key \in Keys : Begin(key)
        \/ \E s \in Slots : Run(s) \/ End(s)
        \/ Shutdown \/ ShutdownDone

(* A cancelled coroutine ends; one that is not may wait for ever. *)
Fairness == /\ \A s \in Slots : WF_vars(tasks[s].state = "stopping" /\ End(s))
            /\ WF_vars(ShutdownDone)
Spec == Init /\ [][Next]_vars /\ Fairness

-----------------------------------------------------------------------------
TypeOK ==
  /\ tasks \in [Slots -> [key : Keys \cup {"none"}, state : {"new", "running", "stopping", "ended"}]]
  /\ table \in [Keys -> {0} \cup Slots] /\ busy \subseteq Pages
  /\ leaving \in {"no", "waiting", "done"} /\ awaited \subseteq Slots

(* A task that was not told to stop is the one the table names for its key:  *)
(* there are never two of a key, and the exit reaches every one.              *)
EveryTaskIsKnown ==
  \A s \in Alive : tasks[s].state # "stopping" => table[tasks[s].key] = s

(* A page is never left busy: while the program is not going to exit, the     *)
(* mark means that an action of that page is alive.                            *)
NeverStuckBusy ==
  leaving = "no" => \A p \in busy : \E s \in Alive : p \in Page(tasks[s].key)

(* An action that was not told to stop is the one known under its key, and   *)
(* no page is marked busy without one.                                         *)
ActionsAreKnown == EveryTaskIsKnown /\ NeverStuckBusy

(* The exit is not held up by an action, whatever it waits for. *)
ShutdownReturns == leaving = "waiting" ~> leaving = "done"
=============================================================================
