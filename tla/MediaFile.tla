------------------------------ MODULE MediaFile ------------------------------
(***************************************************************************)
(* One media file: MediaDownloader (downloader.py) with its                *)
(* BufferedPartWriter (download_io.py), FileIntegrityService               *)
(* (file_integrity.py) that verifies and repairs it, the item's row        *)
(* (repository.py), the user who pauses, retries or touches the file, and  *)
(* the stops of the process.                                               *)
(*                                                                         *)
(* A file's content is the sequence of its blocks; block k of the medium   *)
(* is k, 0 is a block somebody else wrote, N + 1 a block the server sent   *)
(* too much.  A SHA-256 is the content it was computed of.  An absent      *)
(* `.part` is an empty one.  Writes of the row wait behind the persistence *)
(* coordinator (module DownloadPersistence), whose merged progress is      *)
(* `progress`; the integrity service writes the row directly.               *)
(***************************************************************************)
EXTENDS Integers, FiniteSets, SequencesExt

CONSTANTS N,          \* expected_size, in blocks
          Attempts,   \* RetryPolicy.attempts
          MaxTouches, MaxStops   \* bounds: user edits of the file, process stops

ASSUME SizeAssumption == N \in Nat \ {0}
ASSUME AttemptsAssumption == Attempts \in Nat \ {0}
ASSUME BoundAssumption == {MaxTouches, MaxStops} \subseteq Nat

VARIABLES part,       \* content of <target>.part
          synced,     \* how much of it fsync has confirmed
          target,     \* the file at target_path: {} or its content
          archive,    \* contents kept as .corrupt files
          moved,      \* what the running repair has moved away
          row,        \* the item's row in media_items
          progress,   \* progress given to record_progress and not yet written
          dl,         \* where download() or its caller stands
          buffer,     \* BufferedPartWriter._buffer
          written,    \* BufferedPartWriter.persisted_bytes
          hashed,     \* what the digest has seen
          tries,      \* transient errors of this run
          stop,       \* the pause flag
          check,      \* where verify() stands
          seen,       \* what its thread read, and the baseline it compares with
          repair,     \* where prepare_repairs() stands
          up,         \* the process is running
          ending,     \* ... and a shutdown has cancelled the coroutine
          touched,    \* auxiliary: the file, or what was last read or recorded of
                      \* it, may be one that somebody else has changed
          touches, stops

files == <<part, synced, target, archive, moved>>
loop == <<dl, buffer, written, hashed, tries, stop>>
service == <<check, seen, repair>>
outside == <<up, ending, touched, touches, stops>>
vars == <<files, row, progress, loop, service, outside>>

Whole == [k \in 1..N |-> k]
None == {}
Damages == {"missing", "size_mismatch", "hash_mismatch"}
Damaged == row.integrity \in Damages
-----------------------------------------------------------------------------
(***************************************************************************)
(* The row.  Every command flushes the item's merged progress first, so a *)
(* status is written over the bytes it holds.                              *)
(***************************************************************************)
Bytes == IF progress = None THEN row.bytes ELSE CHOOSE b \in progress : TRUE
Sets(bytes, status) ==
  /\ row' = [row EXCEPT !.bytes = bytes, !.status = status]
  /\ progress' = None

(* The coordinator's window ends.                                          *)
ProgressWritten ==
  /\ up /\ progress # None
  /\ Sets(Bytes, "DOWNLOADING")
  /\ UNCHANGED <<files, loop, service, outside>>

(* A user's pause; the scheduler's loop looks at it before each try.       *)
Pause ==
  /\ up /\ ~stop /\ dl # "idle"
  /\ stop' = TRUE
  /\ UNCHANGED <<files, row, progress, dl, buffer, written, hashed, tries, service,
                 outside>>

(* The scheduler has run this item's coroutine to its end, and the writer  *)
(* and the digest are gone with it.                                        *)
Ends == /\ dl' = "idle" /\ stop' = FALSE /\ tries' = 0
        /\ buffer' = <<>> /\ written' = 0 /\ hashed' = <<>>

Goes(p) == dl' = p /\ UNCHANGED <<stop, tries>>

(* Mutant: a download goes on where the row stands, not the part.                *)
OpensAtRow ==
  /\ IF target # None
     THEN /\ Goes(IF \E c \in target : Len(c) = N THEN "hashTarget" ELSE "failing")
          /\ UNCHANGED <<part, synced, archive, written>>
     ELSE /\ IF Len(part) > N
             THEN /\ archive' = archive \cup {part}
                  /\ part' = <<>> /\ synced' = 0
             ELSE UNCHANGED <<part, synced, archive>>
          /\ written' = Bytes
          /\ \/ Goes("starting") /\ ~stop
             \/ Goes("pausing")            \* a pause, or _ensure_space raises
  /\ buffer' = <<>> /\ hashed' = <<>>

(* Mutant: an oversized part replaces what was put aside before.                 *)
OpensOverArchive ==
  /\ IF target # None
     THEN /\ Goes(IF \E c \in target : Len(c) = N THEN "hashTarget" ELSE "failing")
          /\ UNCHANGED <<part, synced, archive, written>>
     ELSE /\ IF Len(part) > N
             THEN /\ archive' = {part}
                  /\ part' = <<>> /\ synced' = 0
             ELSE UNCHANGED <<part, synced, archive>>
          /\ written' = Len(part')
          /\ \/ Goes("starting") /\ ~stop
             \/ Goes("pausing")            \* a pause, or _ensure_space raises
  /\ buffer' = <<>> /\ hashed' = <<>>

(* download() up to its first await.  A file at the target of the expected *)
(* size counts as downloaded; a part longer than expected is put aside.    *)
Opens ==
  /\ IF target # None
     THEN /\ Goes(IF \E c \in target : Len(c) = N THEN "hashTarget" ELSE "failing")
          /\ UNCHANGED <<part, synced, archive, written>>
     ELSE /\ IF Len(part) > N
             THEN /\ archive' = archive \cup {part}
                  /\ part' = <<>> /\ synced' = 0
             ELSE UNCHANGED <<part, synced, archive>>
          /\ written' = Len(part')
          /\ \/ Goes("starting") /\ ~stop
             \/ Goes("pausing")            \* a pause, or _ensure_space raises
  /\ buffer' = <<>> /\ hashed' = <<>>

(* The item is due, or its task is retried by the user (not in the moment  *)
(* in which a repair moves its files).                                     *)
Begin ==
  /\ up /\ ~ending /\ dl = "idle"
  /\ row.status \in {"QUEUED", "PAUSED", "FAILED"}
  /\ repair = "idle"
  /\ Opens
  /\ UNCHANGED <<row, progress, target, moved, service, outside>>

Retry ==
  /\ up /\ dl = "sleep"
  /\ \/ stop /\ Goes("stopped") /\ UNCHANGED <<part, synced, archive, buffer, written, hashed>>
     \/ ~stop /\ Opens
  /\ UNCHANGED <<row, progress, target, moved, service, outside>>
-----------------------------------------------------------------------------
(* The row becomes DOWNLOADING at the part's length.                       *)
Start ==
  /\ up /\ dl = "starting"
  /\ Sets(written, "DOWNLOADING")
  /\ Goes(IF written > 0 THEN "hashPart" ELSE "stream")
  /\ UNCHANGED <<files, buffer, written, hashed, service, outside>>

(* The digest of what a previous run left, read in a thread.               *)
HashPart ==
  /\ up /\ dl = "hashPart"
  /\ hashed' = part
  /\ Goes(IF part = <<>> THEN "failing" ELSE "stream")
  /\ UNCHANGED <<files, row, progress, buffer, written, service, outside>>

HashTarget ==
  /\ up /\ dl = "hashTarget"
  /\ IF target = None THEN Goes("failing") /\ UNCHANGED <<hashed, written>>
     ELSE /\ hashed' = CHOOSE c \in target : TRUE
          /\ written' = Len(hashed')
          /\ Goes("complete")
  /\ UNCHANGED <<files, row, progress, buffer, service, outside>>

(* The next chunk, after its bandwidth: dropped if a pause came meanwhile, *)
(* else buffered, and written when the batch is full or old.               *)
Receive ==
  /\ up /\ dl = "stream"
  /\ LET k == written + Len(buffer) + 1
     IN  /\ k <= N + 1
         /\ IF stop THEN Goes("syncing") /\ UNCHANGED buffer
            ELSE /\ buffer' = Append(buffer, k)
                 /\ \/ Goes("write")
                    \/ Goes(IF k > N THEN "failing" ELSE "checks")
  /\ UNCHANGED <<files, row, progress, written, hashed, service, outside>>

(* append_batch, in a thread.                                              *)
Appends ==
  /\ part' = part \o buffer
  /\ hashed' = hashed \o buffer
  /\ written' = written + Len(buffer)
  /\ buffer' = <<>>

Write ==
  /\ up /\ dl = "write"
  /\ Appends
  /\ Goes(IF written' > N THEN "failing" ELSE "checks")
  /\ UNCHANGED <<synced, target, archive, moved, row, progress, service, outside>>

(* A write fails after any part of the batch.                              *)
WriteFails ==
  /\ up /\ dl \in {"write", "syncing", "finishing"}
  /\ \E k \in 0..Len(buffer) : part' = part \o SubSeq(buffer, 1, k)
  /\ Goes("failing")
  /\ UNCHANGED <<synced, target, archive, moved, row, progress, buffer, written, hashed,
                 service, outside>>

(* After a chunk: progress now and then, the free space, the pause.        *)
Checks ==
  /\ up /\ dl = "checks"
  /\ \/ progress' = {written} \/ UNCHANGED progress
  /\ \/ ~stop /\ Goes("stream")
     \/ Goes("syncing")
  /\ UNCHANGED <<files, row, buffer, written, hashed, service, outside>>

(* persist_writer: what is buffered is written and synced, then the row.   *)
Sync ==
  /\ up /\ dl = "syncing"
  /\ Appends
  /\ synced' = Len(part')
  /\ Goes("pausing")
  /\ UNCHANGED <<target, archive, moved, row, progress, service, outside>>

Pauses ==
  /\ up /\ dl = "pausing"
  /\ Sets(written, "PAUSED")
  /\ Ends
  /\ UNCHANGED <<files, service, outside>>
-----------------------------------------------------------------------------
(* The stream ends, perhaps too early, or breaks.                          *)
StreamEnds ==
  /\ up /\ dl = "stream"
  /\ Goes("finishing")
  /\ UNCHANGED <<files, row, progress, buffer, written, hashed, service, outside>>

StreamBreaks ==
  /\ up /\ dl = "stream"
  /\ tries' = tries + 1
  /\ dl' = IF tries' < Attempts THEN "waiting" ELSE "failing"
  /\ UNCHANGED <<files, row, progress, buffer, written, hashed, stop, service, outside>>

(* Telegram asks to wait: no attempt is counted, however often it asks.    *)
FloodWaits ==
  /\ up /\ dl = "stream"
  /\ Goes("waiting")
  /\ UNCHANGED <<files, row, progress, buffer, written, hashed, service, outside>>

Wait ==
  /\ up /\ dl = "waiting"
  /\ Sets(Bytes, "WAITING_RETRY")
  /\ Goes("sleep")
  /\ UNCHANGED <<files, buffer, written, hashed, service, outside>>

Fail ==
  /\ up /\ dl = "failing"
  /\ Sets(Bytes, "FAILED")
  /\ Ends
  /\ UNCHANGED <<files, service, outside>>

(* The last bytes are synced, their number is checked, the part is renamed.*)
Finish ==
  /\ up /\ dl = "finishing"
  /\ Appends
  /\ synced' = Len(part')
  /\ Goes(IF written' = N THEN "rename" ELSE "failing")
  /\ UNCHANGED <<target, archive, moved, row, progress, service, outside>>

(* A new file is untouched, unless a verification of the one before it is  *)
(* still under way or was recorded meanwhile.                              *)
Rename ==
  /\ up /\ dl = "rename"
  /\ IF part = <<>> THEN Goes("failing") /\ UNCHANGED <<part, synced, target, touched>>
     ELSE /\ target' = {part}
          /\ touched' = (touched /\ (check # "idle" \/ row.status = "COMPLETED"))
          /\ part' = <<>> /\ synced' = 0
          /\ Goes("complete")
  /\ UNCHANGED <<archive, moved, row, progress, buffer, written, hashed, service, up,
                 ending, touches, stops>>

(* complete_item.                                                          *)
Completed == [bytes |-> written, status |-> "COMPLETED", integrity |-> "verified",
              digest |-> {hashed}]
Complete ==
  /\ up /\ dl = "complete"
  /\ row' = Completed /\ progress' = None
  /\ Ends
  /\ UNCHANGED <<files, service, outside>>

(* A shutdown's grace is over and the coroutine is cancelled where it      *)
(* awaits: what is buffered is saved; a completion that is on its way to   *)
(* the database is dropped or written, and the scheduler then writes       *)
(* PAUSED.  The controller has ended a verification before, and nothing    *)
(* starts again before the restart.                                        *)
Cancel ==
  /\ up /\ ~ending /\ stops < MaxStops /\ check = "idle"
  /\ ending' = TRUE
  /\ \/ /\ dl \in {"stream", "write", "finishing", "syncing"}
        /\ Goes("syncing")
        /\ UNCHANGED <<row, progress>>
     \/ dl = "hashPart" /\ Goes("pausing") /\ UNCHANGED <<row, progress>>
     \/ /\ dl \in {"starting", "hashTarget", "complete", "waiting", "sleep"}
        /\ Goes("stopped")
        /\ \/ UNCHANGED <<row, progress>>
           \/ dl = "complete" /\ row' = Completed /\ progress' = None
  /\ UNCHANGED <<files, buffer, written, hashed, service, up, touched, touches, stops>>

Stopped ==
  /\ up /\ dl = "stopped"
  /\ Sets(Bytes, "PAUSED")
  /\ Ends
  /\ UNCHANGED <<files, service, outside>>
-----------------------------------------------------------------------------
(***************************************************************************)
(* verify(): the target is looked at, read in a thread and judged against  *)
(* the row as it was read first.  One integrity operation at a time.       *)
(***************************************************************************)
Records(integrity, status, digest) ==
  row' = [row EXCEPT !.integrity = integrity, !.status = status, !.digest = digest]

Verify ==
  /\ up /\ ~ending /\ check = "idle" /\ repair = "idle"
  /\ row.status = "COMPLETED" \/ Damaged
  /\ IF \E c \in target : Len(c) = N
     THEN /\ check' = "hash" /\ seen' = [content |-> None, base |-> row.digest]
          /\ UNCHANGED row
     ELSE /\ Records(IF target = None THEN "missing" ELSE "size_mismatch", "FAILED", row.digest)
          /\ UNCHANGED <<check, seen>>
  /\ UNCHANGED <<files, progress, loop, repair, outside>>

VerifyReads ==
  /\ up /\ check = "hash"
  /\ seen' = [seen EXCEPT !.content = target]
  /\ check' = "record"
  /\ UNCHANGED <<files, row, progress, loop, repair, outside>>

(* The result, or the user's cancellation.                                 *)
VerifyEnds ==
  /\ up /\ check \in {"hash", "record"}
  /\ \/ UNCHANGED row
     \/ /\ check = "record"
        /\ CASE seen.content = None -> Records("missing", "FAILED", row.digest)
             [] seen.content # None /\ seen.base \notin {None, seen.content} ->
                  Records("hash_mismatch", "FAILED", row.digest)
             [] OTHER -> Records("verified", "COMPLETED", seen.content)
  /\ check' = "idle" /\ seen' = [content |-> None, base |-> None]
  /\ UNCHANGED <<files, progress, loop, repair, outside>>
-----------------------------------------------------------------------------
(***************************************************************************)
(* prepare_repairs(), in a thread of its own: the damaged file, then its   *)
(* part, are renamed, then the row is reset; if a step fails, the files go *)
(* back.                                                                   *)
(***************************************************************************)
Repair ==
  /\ up /\ ~ending /\ repair = "idle" /\ check = "idle"
  /\ dl = "idle"
  /\ row.status = "FAILED" /\ Damaged
  /\ repair' = "target"
  /\ UNCHANGED <<files, row, progress, loop, check, seen, outside>>

MoveTarget ==
  /\ up /\ repair = "target"
  /\ \/ repair' = "part" /\ target' = None /\ moved' = [moved EXCEPT !.target = target]
     \/ repair' = "idle" /\ target # None /\ UNCHANGED <<target, moved>>  \* OSError
  /\ UNCHANGED <<part, synced, archive, row, progress, loop, check, seen, outside>>

MovePart ==
  /\ up /\ repair = "part"
  /\ \/ /\ repair' = "prepare"
        /\ part' = <<>> /\ synced' = 0
        /\ moved' = [moved EXCEPT !.part = IF part = <<>> THEN None ELSE {part}]
     \/ /\ part # <<>> /\ repair' = "restore"                             \* OSError
        /\ UNCHANGED <<part, synced, moved>>
  /\ UNCHANGED <<target, archive, row, progress, loop, check, seen, outside>>

(* prepare_integrity_repair; a raised error also restores.                 *)
Prepare ==
  /\ up /\ repair = "prepare"
  /\ \/ /\ row.status = "FAILED" /\ Damaged
        /\ row' = [bytes |-> 0, status |-> "QUEUED", integrity |-> "unverified", digest |-> None]
        /\ archive' = archive \cup moved.target \cup moved.part
        /\ moved' = [target |-> None, part |-> None]
        /\ repair' = "idle"
     \/ /\ repair' = "restore"
        /\ UNCHANGED <<row, archive, moved>>
  /\ UNCHANGED <<part, synced, target, progress, loop, check, seen, outside>>

Restore ==
  /\ up /\ repair = "restore"
  /\ part' = IF moved.part = None THEN part ELSE CHOOSE c \in moved.part : TRUE
  /\ synced' = IF moved.part = None THEN synced ELSE 0
  /\ target' = IF moved.target = None THEN target ELSE moved.target
  /\ moved' = [target |-> None, part |-> None]
  /\ repair' = "idle"
  /\ UNCHANGED <<archive, row, progress, loop, check, seen, outside>>
-----------------------------------------------------------------------------
(* The finished file is changed, cut or removed by somebody else.          *)
Touch ==
  /\ up /\ touches < MaxTouches /\ row.status = "COMPLETED" /\ target # None
  /\ target' \in {None} \cup {{[c EXCEPT ![1] = 0]} : c \in target} \cup
                 {{Front(c)} : c \in target}
  /\ touched' = TRUE /\ touches' = touches + 1
  /\ UNCHANGED <<part, synced, archive, moved, row, progress, loop, service, up, ending, stops>>

(* The process stops where it stands; with the power gone, so are bytes    *)
(* that no fsync has confirmed.  The files a repair had moved stay so.     *)
Forget ==
  /\ dl' = "idle" /\ buffer' = <<>> /\ written' = 0 /\ hashed' = <<>> /\ tries' = 0
  /\ stop' = FALSE /\ progress' = None
  /\ check' = "idle" /\ seen' = [content |-> None, base |-> None] /\ repair' = "idle"
  /\ moved' = [target |-> None, part |-> None]
Dies ==
  /\ up /\ stops < MaxStops
  /\ up' = FALSE /\ ending' = FALSE /\ stops' = stops + 1
  /\ \E k \in synced..Len(part) : part' = SubSeq(part, 1, k)
  /\ archive' = archive \cup moved.target \cup moved.part
  /\ Forget
  /\ UNCHANGED <<synced, target, row, touched, touches>>

(* Mutant: an item that waits for a retry is not recovered.                      *)
RestartShort ==
  /\ ~up /\ up' = TRUE
  /\ row' = [row EXCEPT !.status = IF @ = "DOWNLOADING" THEN "QUEUED" ELSE @]
  /\ UNCHANGED <<files, progress, loop, service, ending, touched, touches, stops>>

(* recover_interrupted.                                                    *)
Restart ==
  /\ ~up /\ up' = TRUE
  /\ row' = [row EXCEPT !.status = IF @ \in {"DOWNLOADING", "WAITING_RETRY"} THEN "QUEUED"
                                   ELSE @]
  /\ UNCHANGED <<files, progress, loop, service, ending, touched, touches, stops>>

Init ==
  /\ part = <<>> /\ synced = 0 /\ target = None /\ archive = {}
  /\ moved = [target |-> None, part |-> None]
  /\ row = [bytes |-> 0, status |-> "QUEUED", integrity |-> "unverified", digest |-> None]
  /\ progress = None
  /\ dl = "idle" /\ buffer = <<>> /\ written = 0 /\ hashed = <<>> /\ tries = 0 /\ stop = FALSE
  /\ check = "idle" /\ seen = [content |-> None, base |-> None] /\ repair = "idle"
  /\ up = TRUE /\ ending = FALSE /\ touched = FALSE /\ touches = 0 /\ stops = 0

Download == \/ Retry \/ Start \/ HashPart \/ HashTarget \/ Receive \/ Write \/ Checks
            \/ Sync \/ Pauses \/ Wait \/ Fail \/ Finish \/ Rename \/ Complete \/ Stopped
Repairing == MoveTarget \/ MovePart \/ Prepare \/ Restore
Next == \/ ProgressWritten \/ Pause \/ Begin \/ Download
        \/ WriteFails \/ StreamEnds \/ StreamBreaks \/ FloodWaits \/ Cancel
        \/ Verify \/ VerifyReads \/ VerifyEnds \/ Repair \/ Repairing
        \/ Touch \/ Dies \/ Restart

Spec == Init /\ [][Next]_vars

(* The event loop and the threads go on; a stream that has delivered more  *)
(* than it should ends; the scheduler runs what is queued; a shutdown ends *)
(* with the process gone.  Of Telegram it is assumed, which no code        *)
(* ensures, that it stops asking the file to wait: the attempts do not     *)
(* count these waits.                                                      *)
FairSpec == /\ Spec
            /\ WF_vars(Download) /\ WF_vars(StreamEnds) /\ WF_vars(Restart)
            /\ WF_vars(Begin /\ row.status = "QUEUED")
            /\ WF_vars(Repairing) /\ WF_vars(ending /\ dl = "idle" /\ Dies)
            /\ <>[][~FloodWaits]_vars
-----------------------------------------------------------------------------
(* Every variable has its type.                                            *)
TypeOK ==
  /\ part \in Seq(0..(N + 1)) /\ synced \in 0..Len(part)
  /\ \A c \in target \cup archive \cup row.digest : c \in Seq(0..(N + 1))
  /\ Cardinality(target) <= 1 /\ Cardinality(row.digest) <= 1
  /\ row.bytes \in 0..(N + 1)
  /\ row.status \in {"QUEUED", "DOWNLOADING", "PAUSED", "WAITING_RETRY", "FAILED", "COMPLETED"}
  /\ row.integrity \in {"unverified", "verified"} \cup Damages
  /\ progress \subseteq 0..(N + 1) /\ Cardinality(progress) <= 1
  /\ dl \in {"idle", "starting", "hashPart", "hashTarget", "stream", "write", "checks",
             "syncing", "pausing", "waiting", "sleep", "failing", "finishing", "rename",
             "complete", "stopped"}
  /\ buffer \in Seq(1..(N + 1)) /\ written \in 0..(N + 1) /\ hashed \in Seq(0..(N + 1))
  /\ tries \in 0..Attempts /\ {stop, up, ending, touched} \subseteq BOOLEAN
  /\ check \in {"idle", "hash", "record"}
  /\ repair \in {"idle", "target", "part", "prepare", "restore"}

(* "Only when it is complete and its size is checked is the file renamed,  *)
(* and its SHA-256 recorded" (README.md:170): whatever pauses, broken      *)
(* streams, failed writes, stops and repairs a file went through, what the *)
(* program puts at the target is the medium, whole and in order, and a     *)
(* completed row has its digest.                                           *)
CompletedIsWhole ==
  ~touched => /\ target \subseteq {Whole}
              /\ row.status = "COMPLETED" => target = {Whole} /\ row.digest = {Whole}

(* The progress in the row counts bytes that are in the part, not bytes    *)
(* that are still in a buffer (2026-08-21-download-search-interaction-     *)
(* performance-design.md:54), or in the file that it became, unless        *)
(* somebody else has removed that before it was recorded.                  *)
ProgressIsOnDisk ==
  dl # "idle" /\ row.status = "DOWNLOADING" =>
    \/ row.bytes <= Len(part)
    \/ dl \in {"complete", "stopped"} /\ (target # None \/ touched)

(* No content is lost: a part only grows, becomes the file or is put aside *)
(* whole, a damaged file stays at its place or in the archive, through     *)
(* repairs that fail or are cut off; only the power takes unsynced bytes.  *)
Kept == {part} \cup target \cup archive \cup moved.target \cup moved.part
NothingLost ==
  [][touches' = touches =>
       \A c \in Kept : \/ c \in Kept'
                       \/ c = part /\ (IsPrefix(part, part') \/ ~up')]_vars

(* "An abnormal state keeps its last hash until the user confirms a        *)
(* repair" (2026-08-16-file-integrity-repair-design.md:40): a file whose   *)
(* content was found not to be the one that was downloaded never counts as *)
(* verified.                                                               *)
BaselineKept ==
  [][row.integrity = "hash_mismatch" /\ row'.digest # row.digest => row'.status = "QUEUED"]_vars

(* A queued file does not stay in between: it is completed, paused or      *)
(* failed in the end, through broken streams, which the attempts bound, and*)
(* a stop of the process; waits Telegram asks for must end (FairSpec).     *)
Settles == []<>(row.status \in {"COMPLETED", "PAUSED", "FAILED"})

(* What counts is there: a completed file is the whole medium, and the      *)
(* progress of one that is not completed is on the disk.                    *)
FileIsSound == CompletedIsWhole /\ ProgressIsOnDisk
=============================================================================
