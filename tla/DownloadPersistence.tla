------------------------ MODULE DownloadPersistence -------------------------
(***************************************************************************)
(* DownloadPersistenceCoordinator (download_persistence.py): progress      *)
(* updates are merged in memory and written by a worker, commands run in   *)
(* order behind an asyncio lock, and each repository call runs in a thread *)
(* that the caller's cancellation does not stop.                           *)
(*                                                                         *)
(* Data: every update of an item (a byte count, a status) is the next      *)
(* number of that item, so an older value is a smaller number.  Time: the  *)
(* 0.5 s flush window ends at any moment after it was opened.              *)
(***************************************************************************)
EXTENDS CoordinatorState, SequencesExt

vars == <<issued, accepted, pending, db, lockq, phase, cancelled, thread, batch,
          wake, fault, closing, closed, acked, mustSee, outcome>>

Phases == {"idle", "queued", "flush", "command",       \* execute(), drain()
           "none", "top", "asleep", "window", "exited", \* the worker
           "closeQueued", "closeFlush", "join", "closed"}

NoBatch == [i \in Items |-> 0]

(* _raise_if_unavailable does not raise.                                   *)
Available == ~fault /\ ~closing /\ ~closed

(* The items an agent's flush writes: an item's barrier its own, every     *)
(* other flush all of them.                                                *)
Selected(a) == {i \in Items : pending[i] # 0 /\ (a \in Items => i = a)}

(* Mutant: a selective flush empties the whole map.                             *)
StartFlushClearing(a) ==
  /\ batch' = [i \in Items |-> IF i \in Selected(a) THEN pending[i] ELSE 0]
  /\ pending' = NoBatch
  /\ thread' = "running"

(* The first half of _flush_locked: pop the selected updates and hand them *)
(* to a thread.                                                            *)
StartFlush(a) ==
  /\ batch' = [i \in Items |-> IF i \in Selected(a) THEN pending[i] ELSE 0]
  /\ pending' = [i \in Items |-> IF i \in Selected(a) THEN 0 ELSE pending[i]]
  /\ thread' = "running"

(* _set_fault: the first error sticks and wakes the worker.                *)
SetFault == fault' = TRUE /\ wake' = TRUE

Init == /\ issued = [i \in Items |-> 0]
        /\ accepted = [i \in Items |-> 0]
        /\ pending = [i \in Items |-> 0]
        /\ db = [i \in Items |-> 0]
        /\ lockq = <<>>
        /\ phase = [a \in Agents |-> IF a = Worker THEN "none" ELSE "idle"]
        /\ cancelled = {}
        /\ thread = "none"
        /\ batch = NoBatch
        /\ wake = FALSE
        /\ fault = FALSE /\ closing = FALSE /\ closed = FALSE
        /\ acked = [i \in Items |-> 0]
        /\ mustSee = [i \in Items |-> 0]
        /\ outcome = [c \in Callers |-> "none"]
-----------------------------------------------------------------------------
(* record_progress: constant time, in memory.                              *)
RecordProgress(i) ==
  /\ phase[i] = "idle" /\ issued[i] < MaxUpdates[i]
  /\ Available
  /\ issued' = [issued EXCEPT ![i] = @ + 1]
  /\ accepted' = [accepted EXCEPT ![i] = issued[i] + 1]
  /\ pending' = [pending EXCEPT ![i] = issued[i] + 1]
  /\ wake' = TRUE
  /\ phase' = [phase EXCEPT ![Worker] = IF @ = "none" THEN "top" ELSE @]
  /\ UNCHANGED <<db, lockq, cancelled, thread, batch, fault, closing, closed,
                 acked, mustSee, outcome>>

(* execute(): a command for one item behind that item's barrier, or a      *)
(* task command behind the global barrier.                                 *)
CallExecute(c) ==
  /\ phase[c] = "idle"
  /\ Available
  /\ \/ /\ c \in Items /\ issued[c] < MaxUpdates[c]
        /\ issued' = [issued EXCEPT ![c] = @ + 1]
        /\ UNCHANGED mustSee
     \/ /\ c = Manager
        /\ mustSee' = accepted
        /\ UNCHANGED issued
  /\ phase' = [phase EXCEPT ![c] = "queued"]
  /\ lockq' = Append(lockq, c)
  /\ outcome' = [outcome EXCEPT ![c] = "none"]
  /\ UNCHANGED <<accepted, pending, db, cancelled, thread, batch, wake, fault,
                 closing, closed, acked>>

(* The caller leaves execute() and the lock.                               *)
Leave(c, how) ==
  /\ lockq' = RemoveFirst(lockq, c)
  /\ phase' = [phase EXCEPT ![c] = "idle"]
  /\ cancelled' = cancelled \ {c}
  /\ outcome' = [outcome EXCEPT ![c] = how]

(* The lock is acquired; from here to the next await nothing interferes.   *)
EnterExecute(c) ==
  /\ phase[c] = "queued" /\ Owner(c) /\ c \notin cancelled
  /\ IF ~Available
     THEN /\ Leave(c, "error")
          /\ UNCHANGED <<pending, thread, batch>>
     ELSE /\ IF Selected(c) # {}
             THEN /\ StartFlush(c)
                  /\ phase' = [phase EXCEPT ![c] = "flush"]
             ELSE /\ thread' = "running"
                  /\ phase' = [phase EXCEPT ![c] = "command"]
                  /\ UNCHANGED <<pending, batch>>
          /\ UNCHANGED <<lockq, cancelled, outcome>>
  /\ UNCHANGED <<issued, accepted, db, wake, fault, closing, closed, acked, mustSee>>

Cancel(c) ==
  /\ phase[c] \in {"queued", "flush", "command"} /\ c \notin cancelled
  /\ cancelled' = cancelled \cup {c}
  /\ UNCHANGED <<issued, accepted, pending, db, lockq, phase, thread, batch, wake,
                 fault, closing, closed, acked, mustSee, outcome>>

(* A cancellation takes a caller out of the lock's queue.                  *)
CancelQueued(c) ==
  /\ c \in cancelled /\ phase[c] = "queued"
  /\ Leave(c, "cancelled")
  /\ UNCHANGED <<issued, accepted, pending, db, thread, batch, wake, fault, closing,
                 closed, acked, mustSee>>

(***************************************************************************)
(* The thread ends: one transaction, committed whole or not at all.  The   *)
(* loop learns of it later, when it resumes the owner.                     *)
(***************************************************************************)
ThreadCommits ==
  /\ thread = "running"
  /\ thread' = "committed"
  /\ LET c == lockq[1]
     IN  db' = [i \in Items |->
                  IF phase[c] = "command" THEN IF i = c THEN issued[i] ELSE db[i]
                                          ELSE IF batch[i] # 0 THEN batch[i] ELSE db[i]]
  /\ UNCHANGED <<issued, accepted, pending, lockq, phase, cancelled, batch, wake,
                 fault, closing, closed, acked, mustSee, outcome>>

ThreadFails ==
  /\ thread = "running"
  /\ thread' = "failed"
  /\ UNCHANGED <<issued, accepted, pending, db, lockq, phase, cancelled, batch, wake,
                 fault, closing, closed, acked, mustSee, outcome>>

(* _run_shielded returns to execute() after the barrier's flush: an error  *)
(* ends the call, a cancellation is raised now, else the command starts.   *)
BarrierDone(c) ==
  /\ phase[c] = "flush" /\ thread \in {"committed", "failed"}
  /\ batch' = NoBatch
  /\ \/ /\ thread = "failed"
        /\ SetFault
        /\ Leave(c, "error")
        /\ thread' = "none"
     \/ /\ thread = "committed" /\ c \in cancelled
        /\ Leave(c, "cancelled")
        /\ thread' = "none"
        /\ UNCHANGED <<fault, wake>>
     \/ /\ thread = "committed" /\ c \notin cancelled
        /\ phase' = [phase EXCEPT ![c] = "command"]
        /\ thread' = "running"
        /\ UNCHANGED <<lockq, cancelled, outcome, fault, wake>>
  /\ UNCHANGED <<issued, accepted, pending, db, closing, closed, acked, mustSee>>

(* Mutant: a failed command is reported as done.                                *)
CommandDoneSwallowing(c) ==
  /\ phase[c] = "command" /\ thread \in {"committed", "failed"}
  /\ thread' = "none"
  /\ \/ /\ thread = "failed"
        /\ SetFault
        /\ Leave(c, "ok")
        /\ acked' = IF c \in Items THEN [acked EXCEPT ![c] = issued[c]] ELSE acked
     \/ /\ thread = "committed"
        /\ Leave(c, IF c \in cancelled THEN "cancelled" ELSE "ok")
        /\ acked' = IF c \in Items /\ c \notin cancelled
                    THEN [acked EXCEPT ![c] = issued[c]] ELSE acked
        /\ UNCHANGED <<fault, wake>>
  /\ UNCHANGED <<issued, accepted, pending, db, batch, closing, closed, mustSee>>

(* The command's own thread ended.                                         *)
CommandDone(c) ==
  /\ phase[c] = "command" /\ thread \in {"committed", "failed"}
  /\ thread' = "none"
  /\ \/ /\ thread = "failed"
        /\ SetFault
        /\ Leave(c, "error")
        /\ UNCHANGED acked
     \/ /\ thread = "committed"
        /\ Leave(c, IF c \in cancelled THEN "cancelled" ELSE "ok")
        /\ acked' = IF c \in Items /\ c \notin cancelled
                    THEN [acked EXCEPT ![c] = issued[c]] ELSE acked
        /\ UNCHANGED <<fault, wake>>
  /\ UNCHANGED <<issued, accepted, pending, db, batch, closing, closed, mustSee>>
-----------------------------------------------------------------------------
(* One pass of _worker_loop up to its next await.                          *)
WorkerTop ==
  /\ phase[Worker] = "top"
  /\ \/ /\ fault \/ (closing /\ pending = NoBatch)
        /\ phase' = [phase EXCEPT ![Worker] = "exited"]
        /\ UNCHANGED <<wake, lockq>>
     \/ /\ ~fault /\ ~closing /\ pending = NoBatch
        /\ wake' = FALSE
        /\ phase' = [phase EXCEPT ![Worker] = "asleep"]
        /\ UNCHANGED lockq
     \/ /\ ~fault /\ pending # NoBatch       \* the window is still open
        /\ wake' = FALSE
        /\ phase' = [phase EXCEPT ![Worker] = "window"]
        /\ UNCHANGED lockq
     \/ /\ ~fault /\ pending # NoBatch       \* the window has ended
        /\ phase' = [phase EXCEPT ![Worker] = "queued"]
        /\ lockq' = Append(lockq, Worker)
        /\ UNCHANGED wake
  /\ UNCHANGED <<issued, accepted, pending, db, cancelled, thread, batch, fault,
                 closing, closed, acked, mustSee, outcome>>

WorkerWoken ==
  /\ phase[Worker] \in {"asleep", "window"} /\ wake
  /\ phase' = [phase EXCEPT ![Worker] = "top"]
  /\ UNCHANGED <<issued, accepted, pending, db, lockq, cancelled, thread, batch, wake,
                 fault, closing, closed, acked, mustSee, outcome>>

WindowEnds ==
  /\ phase[Worker] = "window"
  /\ phase' = [phase EXCEPT ![Worker] = "queued"]
  /\ lockq' = Append(lockq, Worker)
  /\ UNCHANGED <<issued, accepted, pending, db, cancelled, thread, batch, wake, fault,
                 closing, closed, acked, mustSee, outcome>>

WorkerEnter ==
  /\ phase[Worker] = "queued" /\ Owner(Worker)
  /\ \/ /\ fault
        /\ lockq' = Tail(lockq)
        /\ phase' = [phase EXCEPT ![Worker] = "exited"]
        /\ UNCHANGED <<pending, thread, batch>>
     \/ /\ ~fault /\ Selected(Worker) = {}
        /\ lockq' = Tail(lockq)
        /\ phase' = [phase EXCEPT ![Worker] = "top"]
        /\ UNCHANGED <<pending, thread, batch>>
     \/ /\ ~fault /\ Selected(Worker) # {}
        /\ StartFlush(Worker)
        /\ phase' = [phase EXCEPT ![Worker] = "flush"]
        /\ UNCHANGED lockq
  /\ UNCHANGED <<issued, accepted, db, cancelled, wake, fault, closing, closed, acked,
                 mustSee, outcome>>

WorkerFlushed ==
  /\ phase[Worker] = "flush" /\ thread \in {"committed", "failed"}
  /\ thread' = "none" /\ batch' = NoBatch
  /\ lockq' = Tail(lockq)
  /\ IF thread = "failed"
     THEN /\ SetFault
          /\ phase' = [phase EXCEPT ![Worker] = "exited"]
     ELSE /\ phase' = [phase EXCEPT ![Worker] = "top"]
          /\ UNCHANGED <<fault, wake>>
  /\ UNCHANGED <<issued, accepted, pending, db, cancelled, closing, closed, acked,
                 mustSee, outcome>>
-----------------------------------------------------------------------------
(* shutdown: drain(), and whatever it does, close().                       *)
BeginClose == /\ closing' = TRUE
              /\ lockq' = Append(RemoveFirst(lockq, Closer), Closer)
              /\ phase' = [phase EXCEPT ![Closer] = "closeQueued"]

CallDrain ==
  /\ phase[Closer] = "idle"
  /\ IF Available
     THEN /\ lockq' = Append(lockq, Closer)
          /\ phase' = [phase EXCEPT ![Closer] = "queued"]
          /\ UNCHANGED closing
     ELSE BeginClose
  /\ UNCHANGED <<issued, accepted, pending, db, cancelled, thread, batch, wake, fault,
                 closed, acked, mustSee, outcome>>

(* One round of drain's loop, at its head or after a flush.                *)
DrainRound ==
  /\ \/ phase[Closer] = "queued" /\ Owner(Closer)
     \/ phase[Closer] = "flush" /\ thread = "committed"
  /\ \/ /\ ~fault /\ pending # NoBatch
        /\ StartFlush(Closer)
        /\ phase' = [phase EXCEPT ![Closer] = "flush"]
        /\ UNCHANGED <<lockq, closing>>
     \/ /\ fault \/ pending = NoBatch
        /\ BeginClose
        /\ thread' = "none" /\ batch' = NoBatch
        /\ UNCHANGED pending
  /\ UNCHANGED <<issued, accepted, db, cancelled, wake, fault, closed, acked, mustSee,
                 outcome>>

DrainFails ==
  /\ phase[Closer] = "flush" /\ thread = "failed"
  /\ SetFault
  /\ BeginClose
  /\ thread' = "none" /\ batch' = NoBatch
  /\ UNCHANGED <<issued, accepted, pending, db, cancelled, closed, acked, mustSee,
                 outcome>>

(* Mutant: close() forgets to wake the worker.                                  *)
CloseRoundSilently ==
  /\ \/ phase[Closer] = "closeQueued" /\ Owner(Closer)
     \/ phase[Closer] = "closeFlush" /\ thread = "committed"
  /\ \/ /\ pending # NoBatch
        /\ StartFlush(Closer)
        /\ phase' = [phase EXCEPT ![Closer] = "closeFlush"]
        /\ UNCHANGED <<lockq>>
     \/ /\ pending = NoBatch
        /\ lockq' = Tail(lockq)
        /\ phase' = [phase EXCEPT ![Closer] = "join"]
        /\ thread' = "none" /\ batch' = NoBatch
        /\ UNCHANGED pending
  /\ UNCHANGED <<issued, accepted, db, cancelled, wake, fault, closing, closed, acked,
                 mustSee, outcome>>

(* close(): the same loop without looking at the fault; then the worker is *)
(* woken and awaited.                                                      *)
CloseRound ==
  /\ \/ phase[Closer] = "closeQueued" /\ Owner(Closer)
     \/ phase[Closer] = "closeFlush" /\ thread = "committed"
  /\ \/ /\ pending # NoBatch
        /\ StartFlush(Closer)
        /\ phase' = [phase EXCEPT ![Closer] = "closeFlush"]
        /\ UNCHANGED <<lockq, wake>>
     \/ /\ pending = NoBatch
        /\ lockq' = Tail(lockq)
        /\ phase' = [phase EXCEPT ![Closer] = "join"]
        /\ wake' = TRUE
        /\ thread' = "none" /\ batch' = NoBatch
        /\ UNCHANGED pending
  /\ UNCHANGED <<issued, accepted, db, cancelled, fault, closing, closed, acked,
                 mustSee, outcome>>

CloseFails ==
  /\ phase[Closer] = "closeFlush" /\ thread = "failed"
  /\ SetFault
  /\ lockq' = Tail(lockq)
  /\ phase' = [phase EXCEPT ![Closer] = "join"]
  /\ thread' = "none" /\ batch' = NoBatch
  /\ UNCHANGED <<issued, accepted, pending, db, cancelled, closing, closed, acked,
                 mustSee, outcome>>

Join ==
  /\ phase[Closer] = "join" /\ phase[Worker] \in {"none", "exited"}
  /\ phase' = [phase EXCEPT ![Closer] = "closed"]
  /\ closed' = TRUE /\ closing' = FALSE
  /\ UNCHANGED <<issued, accepted, pending, db, lockq, cancelled, thread, batch, wake,
                 fault, acked, mustSee, outcome>>
-----------------------------------------------------------------------------
CallerStep(c) == EnterExecute(c) \/ CancelQueued(c) \/ BarrierDone(c) \/ CommandDone(c)
WorkerStep == WorkerTop \/ WorkerWoken \/ WindowEnds \/ WorkerEnter \/ WorkerFlushed
CloserStep == DrainRound \/ DrainFails \/ CloseRound \/ CloseFails \/ Join

Next == \/ \E i \in Items : RecordProgress(i)
        \/ \E c \in Callers : CallExecute(c) \/ Cancel(c) \/ CallerStep(c)
        \/ ThreadCommits \/ ThreadFails
        \/ WorkerStep
        \/ CallDrain \/ CloserStep

(* The event loop resumes what is ready, a thread ends, a window ends.     *)
Fairness == /\ \A c \in Callers : WF_vars(CallerStep(c))
            /\ WF_vars(ThreadCommits \/ ThreadFails)
            /\ WF_vars(WorkerStep)
            /\ WF_vars(CloserStep)

Spec == Init /\ [][Next]_vars
FairSpec == Spec /\ Fairness
-----------------------------------------------------------------------------
(* Every variable has its type.                                            *)
TypeOK == /\ issued \in [Items -> Numbers] /\ accepted \in [Items -> Numbers]
          /\ pending \in [Items -> Numbers] /\ batch \in [Items -> Numbers]
          /\ db \in [Items -> Numbers] /\ acked \in [Items -> Numbers]
          /\ mustSee \in [Items -> Numbers]
          /\ lockq \in Seq(Agents)
          /\ phase \in [Agents -> Phases]
          /\ cancelled \in SUBSET Callers
          /\ thread \in {"none", "running", "committed", "failed"}
          /\ {wake, fault, closing, closed} \subseteq BOOLEAN
          /\ outcome \in [Callers -> {"none", "ok", "error", "cancelled"}]

(* "Old progress cannot be written later than a pause, failure or          *)
(* completion": an item's row never goes back to an older update, although *)
(* barriers, the worker, drain and close all write batches and any of them *)
(* may be cancelled around a thread that cannot be stopped.                *)
NoStaleOverwrite == [][\A i \in Items : db'[i] >= db[i]]_vars

(* close() is final: afterwards no row changes, no thread runs, nothing    *)
(* accepted is left in memory unless a write has failed, and no later call *)
(* is accepted or gets a command through.                                  *)
ClosedIsFinal ==
  [][closed => /\ UNCHANGED <<db, pending, accepted>>
               /\ thread' = "none"
               /\ pending # NoBatch => fault]_vars

(* Every accepted update reaches the database (itself or a newer one), is  *)
(* dropped by a failure, or the process ends with it: no wakeup of the     *)
(* worker is lost.                                                         *)
ProgressSettles == \A i \in Items : []<>(pending[i] = 0 \/ fault)

(* Every call of execute() ends, and a close() that began finishes.        *)
CallsReturn == \A c \in Callers : []<>(phase[c] = "idle")
CloseFinishes == []<>(phase[Closer] = "idle" \/ closed)

(* Nothing stays under way: accepted progress is written or fails, every    *)
(* call returns, and a close() that began finishes and is final.            *)
EverythingEnds == ProgressSettles /\ CallsReturn /\ CloseFinishes /\ ClosedIsFinal
=============================================================================
