-------------------------------- MODULE QrLogin --------------------------------
(***************************************************************************)
(* The QR code of the log-in dialog: who asks Telegram for a code, which   *)
(* code is on display and which task waits for it to be scanned.  A code   *)
(* is asked for when a log-in begins, by the button, by the dialog's       *)
(* countdown and by the waiting task itself when the code times out; all   *)
(* of them may be at work together.  The generation counter decides whose  *)
(* answer is shown; the refreshes share a lock (controller.py, gateway.py, *)
(* ui/login.py).  A request may outlive the code it was made for.          *)
(***************************************************************************)
EXTENDS Integers, FiniteSets

CONSTANT MaxGeneration      \* bound on _qr_generation

Refreshers == {"button", "countdown"}
Operations == Refreshers \cup {"begin", "waiter"}
Gens == 1 .. MaxGeneration

VARIABLES
  gen,      \* _qr_generation
  cur,      \* _qr_wait_task: the generation it waits for, 0 is None
  waits,    \* waits[g]: the task started for generation g
  ops,      \* ops[c]: [pc, want, req, mine] of a request for a code
  lock,     \* who holds _qr_refresh_lock
  shown,    \* the dialog: the generation on display (0 is none), is an error shown with it?
  spent     \* spent[g]: codes asked for to replace the one of generation g

vars == <<gen, cur, waits, ops, lock, shown, spent>>

Quiet == [pc |-> "idle", want |-> 0, req |-> 0, mine |-> 0]

Init ==
  /\ gen = 0 /\ cur = 0 /\ lock = "free"
  /\ waits = [g \in Gens |-> "none"]
  /\ ops = [c \in Operations |-> Quiet]
  /\ shown = [gen |-> 0, error |-> FALSE]
  /\ spent = [g \in 0 .. MaxGeneration |-> 0]

Room(n)   == gen + n <= MaxGeneration
Unlock(c) == lock' = IF lock = c THEN "free" ELSE lock
(* The task of a waiter that refreshed its own code ends with the request. *)
Return(c) == /\ ops' = [ops EXCEPT ![c] = Quiet] /\ Unlock(c)
             /\ waits' = [g \in Gens |-> IF c = "waiter" /\ waits[g] = "refreshing"
                                         THEN "done" ELSE waits[g]]

Bumped(g) == g + 1

(* _cancel_qr_wait up to its await: nobody waits any more, the generation   *)
(* moves on; a task found waiting is cancelled and waited for, which lets   *)
(* others run before the generation of the request is read.                 *)
CancelWait(c, op) ==
  /\ Room(1)
  /\ gen' = Bumped(gen) /\ cur' = 0
  /\ waits' = [g \in Gens |-> IF g = cur /\ waits[g] # "refreshing" THEN "done" ELSE waits[g]]
  /\ ops' = [ops EXCEPT ![c] = [op EXCEPT !.pc = IF cur = 0 THEN "asked" ELSE "await",
                                          !.req = gen']]

(* begin_qr_login *)
Begin ==
  /\ ops["begin"].pc = "idle"
  /\ CancelWait("begin", Quiet)
  /\ UNCHANGED <<lock, shown, spent>>

(* refresh_qr_login and refresh_expired_qr: the generation to replace is    *)
(* the current one, or the one whose countdown ended.                       *)
Refresh(c) ==
  /\ ops[c].pc = "idle" /\ shown.gen # 0
  /\ ops' = [ops EXCEPT ![c].pc = "lock",
                        ![c].want = IF c = "button" THEN gen ELSE shown.gen]
  /\ UNCHANGED <<gen, cur, waits, lock, shown, spent>>

(* _refresh_qr under its lock: a generation already replaced is left alone. *)
Stale(c) == ops[c].want # gen

Locked(c) ==
  /\ ops[c].pc = "lock" /\ lock = "free"
  /\ IF Stale(c) THEN /\ ops' = [ops EXCEPT ![c] = Quiet]
                      /\ UNCHANGED <<gen, cur, waits, lock, spent>>
     ELSE /\ CancelWait(c, ops[c])
          /\ lock' = c /\ spent' = [spent EXCEPT ![gen] = @ + 1]
  /\ UNCHANGED shown

Awaited(c) ==                         \* request_generation is read only now
  /\ ops[c].pc = "await"
  /\ ops' = [ops EXCEPT ![c].pc = "asked", ![c].req = gen]
  /\ UNCHANGED <<gen, cur, waits, lock, shown, spent>>

(* Telegram answers (a cancelled wait ends within the turns of the event    *)
(* loop that follow, before any answer).  An answer for a generation that   *)
(* is gone is dropped; otherwise a task for the next one starts to wait.    *)
Current(c) == ops[c].req = gen

Answer(c) ==
  /\ ops[c].pc = "asked" /\ \A d \in Operations : ops[d].pc # "await"
  /\ IF Current(c)
     THEN /\ Room(1) /\ gen' = gen + 1 /\ cur' = gen'
          /\ waits' = [waits EXCEPT ![gen'] = "waiting"]
          /\ ops' = [ops EXCEPT ![c].pc = "show", ![c].mine = gen']
          /\ UNCHANGED lock
     ELSE Return(c) /\ UNCHANGED <<gen, cur>>
  /\ UNCHANGED <<shown, spent>>

(* No answer: the error is shown, on the credentials page or, while a       *)
(* candidate logs in, beside the old code; one that is stale is not shown.  *)
NoAnswer(c) ==
  /\ ops[c].pc = "asked"
  /\ Return(c)
  /\ \/ ops[c].req = gen /\ shown' = [shown EXCEPT !.error = TRUE]
     \/ ops[c].req = gen /\ shown' = [gen |-> 0, error |-> TRUE]
     \/ ops[c].req # gen /\ UNCHANGED shown
  /\ UNCHANGED <<gen, cur, spent>>

(* Mutant: the code is shown whatever happened meanwhile. *)
ShowableAlways(c) == TRUE

Showable(c) == ops[c].mine = gen /\ waits[gen] # "done"

(* _show_qr_and_wait after its pause: shown unless replaced or answered.    *)
Show(c) ==
  /\ ops[c].pc = "show"
  /\ Return(c)
  /\ shown' = IF Showable(c) THEN [gen |-> ops[c].mine, error |-> FALSE] ELSE shown
  /\ UNCHANGED <<gen, cur, spent>>

(* _wait_for_qr: the phone confirms (or asks for the password), the log-in  *)
(* is finished; or the code times out and the task asks for the next one.   *)
Confirmed(g) ==
  /\ waits[g] = "waiting" /\ waits' = [waits EXCEPT ![g] = "done"]
  /\ cur' = IF cur = g THEN 0 ELSE cur
  /\ shown' = IF g = gen THEN [gen |-> 0, error |-> FALSE] ELSE shown
  /\ UNCHANGED <<gen, ops, lock, spent>>

TimedOut(g) ==
  /\ waits[g] = "waiting" /\ waits' = [waits EXCEPT ![g] = "late"]
  /\ UNCHANGED <<gen, cur, ops, lock, shown, spent>>

LateRefresh(g) ==
  /\ waits[g] = "late" /\ lock = "free"
  /\ IF g # gen
     THEN /\ waits' = [waits EXCEPT ![g] = "done"] /\ cur' = IF cur = g THEN 0 ELSE cur
          /\ UNCHANGED <<gen, ops, lock, spent>>
     ELSE /\ Room(1) /\ gen' = Bumped(gen) /\ cur' = 0 /\ lock' = "waiter"
          /\ waits' = [waits EXCEPT ![g] = "refreshing"]
          /\ ops' = [ops EXCEPT !["waiter"] = [Quiet EXCEPT !.pc = "asked", !.req = gen']]
          /\ spent' = [spent EXCEPT ![g] = @ + 1]
  /\ UNCHANGED shown

(* The dialog is closed, or leaves for the phone number: cancel_login,      *)
(* use_phone_fallback, edit_credentials.                                    *)
Leave ==
  /\ shown.gen # 0 /\ Room(1)
  /\ gen' = gen + 1 /\ cur' = 0
  /\ waits' = [g \in Gens |-> IF g = cur THEN "done" ELSE waits[g]]
  /\ shown' = [gen |-> 0, error |-> FALSE]
  /\ UNCHANGED <<ops, lock, spent>>

Step(c) == Locked(c) \/ Awaited(c) \/ Answer(c) \/ NoAnswer(c) \/ Show(c)
Late    == \E g \in Gens : LateRefresh(g)

Next ==
  \/ Begin \/ Leave \/ Late
  \/ \E c \in Refreshers : Refresh(c)
  \/ \E c \in Operations : Step(c)
  \/ \E g \in Gens : Confirmed(g) \/ TimedOut(g)

Spec == Init /\ [][Next]_vars
-----------------------------------------------------------------------------
AtRest == (\A c \in Operations : ops[c].pc = "idle") /\ \A g \in Gens : waits[g] # "late"

(* At most one task waits for a scan at any time.                           *)
OneWaiter == Cardinality({g \in Gens : waits[g] \in {"waiting", "late"}}) <= 1

(* A code is replaced once, however many of the button, the countdown and   *)
(* the waiting task ask for it together.                                    *)
RefreshedOnce == \A g \in Gens : spent[g] <= 1

(* When nobody is asking for a code, the code on display (without an error  *)
(* beside it) is the one a task waits for.                                  *)
ShownIsAwaited == AtRest /\ shown.gen # 0 /\ ~shown.error
                    => shown.gen = gen /\ waits[gen] = "waiting"
=============================================================================
