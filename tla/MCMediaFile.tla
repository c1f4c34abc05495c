----------------------------- MODULE MCMediaFile -----------------------------
(***************************************************************************)
(* One file of a few blocks (MediaFile), and the coordinator that writes   *)
(* its row (DownloadPersistence) with two media items, a caller of whole   *)
(* tasks, the worker and a shutdown, in one run: `kind` chooses the one    *)
(* that moves, the other stays in its first state.                          *)
(***************************************************************************)
EXTENDS MediaFile, CoordinatorState

CONSTANTS i1, i2

MCItems == {i1, i2}
MCUpdates == i1 :> 2 @@ i2 :> 1

VARIABLES kind

coordinator == <<issued, accepted, pending, db, lockq, phase, cancelled, thread, batch, wake,
                 fault, closing, closed, acked, mustSee, outcome>>

Persistence == INSTANCE DownloadPersistence

MCInit == kind \in {"media", "persistence"} /\ Init /\ Persistence!Init
MCNext == /\ UNCHANGED kind
          /\ \/ kind = "media" /\ Next /\ UNCHANGED coordinator
             \/ kind = "persistence" /\ Persistence!Next /\ UNCHANGED vars

(* The fairness of both modules.                                             *)
MCSpec ==
  /\ MCInit /\ [][MCNext]_<<kind, vars, coordinator>>
  /\ WF_vars(kind = "media" /\ Download) /\ WF_vars(kind = "media" /\ StreamEnds)
  /\ WF_vars(kind = "media" /\ Restart) /\ WF_vars(kind = "media" /\ Repairing)
  /\ WF_vars(kind = "media" /\ Begin /\ row.status = "QUEUED")
  /\ WF_vars(kind = "media" /\ ending /\ dl = "idle" /\ Dies)
  /\ <>[][~FloodWaits]_vars
  /\ \A c \in Persistence!Callers :
       WF_coordinator(kind = "persistence" /\ Persistence!CallerStep(c))
  /\ WF_coordinator(kind = "persistence" /\ (Persistence!ThreadCommits \/ Persistence!ThreadFails))
  /\ WF_coordinator(kind = "persistence" /\ Persistence!WorkerStep)
  /\ WF_coordinator(kind = "persistence" /\ Persistence!CloserStep)
-----------------------------------------------------------------------------
(* A queued file is completed, paused or failed in the end.                  *)
FileSettles == []<>(kind = "media" => row.status \in {"COMPLETED", "PAUSED", "FAILED"})

(* Accepted progress, calls and a close() come to an end.                    *)
EverythingEnds == Persistence!EverythingEnds
=============================================================================
