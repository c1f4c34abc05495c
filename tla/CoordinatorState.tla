-------------------------- MODULE CoordinatorState --------------------------
(***************************************************************************)
(* The state of the persistence coordinator (download_persistence.py), who *)
(* uses it, and what it promises: that accepted updates are kept, and that *)
(* it is a ProgressStore.  Module DownloadPersistence says how it changes. *)
(***************************************************************************)
EXTENDS Integers, SequencesExt

CONSTANTS Items,       \* media items; an item is its own downloader's name
          Manager,     \* a caller that reads or writes task rows (flush_all)
          Worker,      \* the task of _worker_loop
          Closer,      \* DownloadScheduler.shutdown: drain(), then close()
          MaxUpdates   \* bound: updates made for one item

ASSUME AgentsAssumption ==
  /\ {Manager, Worker, Closer} \cap Items = {}
  /\ Manager # Worker /\ Manager # Closer /\ Worker # Closer
ASSUME MaxUpdatesAssumption == MaxUpdates \in [Items -> Nat]

Callers == Items \cup {Manager}
Agents == Callers \cup {Worker, Closer}
Numbers == UNION {0..MaxUpdates[i] : i \in Items}

VARIABLES issued,     \* the number of the last update made for each item
          accepted,   \* the number of the last update given to record_progress
          pending,    \* _pending; 0 stands for no entry
          db,         \* the number of the update in the item's row
          lockq,      \* _operation_lock: the owner, then the waiters in order
          phase,      \* where each agent's coroutine stands
          cancelled,  \* callers whose cancellation is not delivered yet
          thread,     \* the repository call in flight, always the lock owner's
          batch,      \* the updates that call writes; 0 stands for none
          wake,       \* the _wake event
          fault,      \* _fault is set
          closing, closed,
          acked,      \* the last command of each item that returned
          mustSee,    \* auxiliary: `accepted` when the Manager made its call
          outcome     \* auxiliary: how the last execute() of a caller ended

Owner(a) == lockq # <<>> /\ lockq[1] = a

-----------------------------------------------------------------------------
(* A command of an item that returned normally is in the database.         *)
ReturnedIsCommitted == \A i \in Items : acked[i] <= db[i]

(* A call behind the global barrier reads every update accepted before it. *)
GlobalBarrierSees ==
  phase[Manager] = "command" => \A i \in Items : db[i] >= mustSee[i]

(* Merging loses nothing but merged values: until a repository call has    *)
(* failed, the newest accepted update of an item is in its row (or an even *)
(* newer one is), in the batch of a live thread, or still pending.         *)
AcceptedIsKept ==
  ~fault => \A i \in Items :
              \/ db[i] >= accepted[i]
              \/ batch[i] = accepted[i] /\ thread \in {"running", "committed", "failed"}
              \/ pending[i] = accepted[i]

(* Only the lock's owner has a repository call in flight, so two threads   *)
(* never write at once.                                                    *)
OneWriter ==
  /\ \A a \in Agents : phase[a] \in {"flush", "command", "closeFlush"} => Owner(a)
  /\ thread # "none" <=> \E a \in Agents : phase[a] \in {"flush", "command", "closeFlush"}

(* The coordinator implements the store that the download code expects.    *)
Store == INSTANCE ProgressStore WITH durable <- db
ImplementsStore == Store!Spec

(* An update that was accepted is neither lost nor overtaken: it is         *)
(* committed when its command returns, seen behind the global barrier, kept *)
(* in one place until it is written, and written by one thread at a time.   *)
UpdatesAreKept == ReturnedIsCommitted /\ GlobalBarrierSees /\ AcceptedIsKept /\ OneWriter

=============================================================================
