-------------------------- MODULE UpdateTransaction --------------------------
(***************************************************************************)
(* UpdateTransaction (update_helper.py): the helper process replaces the   *)
(* runtime's files by those of an extracted package, under a journal, and  *)
(* puts the old ones back when anything fails.  helper_main first recovers *)
(* a journal it finds, then applies its package.  Every call may raise,    *)
(* the process may stop between any two steps, and the helper is started   *)
(* again any number of times.                                              *)
(*                                                                         *)
(* A file's content is the runtime it belongs to, "user" for a file of the *)
(* user, "none" for no file.  A transaction's backup and extraction        *)
(* directories have names of their own, so a new transaction finds them    *)
(* empty.  Renames and the journal's atomic writes are durable in order.   *)
(***************************************************************************)
EXTENDS Integers, FiniteSets, Sequences, Functions

CONSTANTS OldFiles, NewFiles,   \* oldFiles, newFiles: the manifest is the last
          Exe,                  \* TelegramDownloader.exe
          Windows,    \* the windows that a stop, a failing rollback or the
                      \* user may hit
          MaxStops, MaxFaults   \* bounds: stops of the helper, failing calls

Managed == Range(OldFiles) \cup Range(NewFiles)
Unmanaged == Range(NewFiles) \ Range(OldFiles)
Manifest == OldFiles[Len(OldFiles)]

(* What the module asks of its constants; assumed where it is used.        *)
FilesAssumption ==
  /\ OldFiles \in Seq(Managed) /\ IsInjective(OldFiles) /\ OldFiles # <<>>
  /\ NewFiles \in Seq(Managed) /\ IsInjective(NewFiles) /\ NewFiles # <<>>
  /\ NewFiles[Len(NewFiles)] = Manifest
  /\ Exe \in Range(OldFiles) \cap Range(NewFiles)
WindowsAssumption == Windows \subseteq {"unrecorded", "restored", "committed", "user"}
BoundAssumption == {MaxStops, MaxFaults} \subseteq Nat

VARIABLES root,        \* the application's directory
          backup,      \* the transaction's backup directory
          extraction,  \* its extraction directory
          disk,        \* the journal's file: {} or its value
          journal,     \* the dict in memory
          pc,          \* where the helper stands
          i,           \* its place in the list it walks
          launched,    \* what the last launched application was made of
          kept,        \* auxiliary: the files of the user
          stops, faults

places == <<root, backup, extraction>>
vars == <<places, disk, journal, pc, i, launched, kept, stops, faults>>

Content == {"none", "old", "new", "user"}
Empty == [f \in Managed |-> "none"]
Fresh == [state |-> "prepared", backedUp |-> <<>>, installed |-> <<>>]

Init ==
  /\ root = [f \in Managed |-> IF f \in Range(OldFiles) THEN "old" ELSE "none"]
  /\ backup = Empty /\ extraction = Empty
  /\ disk = {} /\ journal = Fresh
  /\ pc = "idle" /\ i = 0
  /\ launched = {} /\ kept = {} /\ stops = 0 /\ faults = 0

Goes(step, place) == pc' = step /\ i' = place
-----------------------------------------------------------------------------
(***************************************************************************)
(* apply, up to the journal.                                               *)
(***************************************************************************)

(* No journal: the package and the installed inventory are read, and a     *)
(* file of the package that is there and not managed refuses the update.   *)
(* An inventory of another runtime is the next update, another instance.   *)
Check ==
  /\ pc = "idle" /\ disk = {}
  /\ root[Manifest] = "old"
  /\ \A f \in Unmanaged : root[f] = "none"
  /\ Goes("wait", 0)
  /\ UNCHANGED <<places, disk, journal, launched, kept, stops, faults>>

(* The application has exited: extract, make the backup directory, write   *)
(* the first journal.  What fails before that leaves the runtime alone.    *)
Prepare ==
  /\ pc = "wait"
  /\ extraction' = [f \in Managed |-> IF f \in Range(NewFiles) THEN "new" ELSE "none"]
  /\ backup' = Empty
  /\ journal' = Fresh /\ disk' = {Fresh}
  /\ Goes("backup", 1)
  /\ UNCHANGED <<root, launched, kept, stops, faults>>

(* The application does not exit in time, or the package is bad.           *)
GivesUp ==
  /\ pc = "wait"
  /\ Goes("idle", 0)
  /\ UNCHANGED <<places, disk, journal, launched, kept, stops, faults>>
-----------------------------------------------------------------------------
(***************************************************************************)
(* apply, inside its try.                                                  *)
(***************************************************************************)

(* Each old file is renamed into the backup, and then recorded.            *)
Backup ==
  /\ pc = "backup" /\ i <= Len(OldFiles)
  /\ LET f == OldFiles[i] IN
     IF root[f] = "none"
     THEN Goes("backup", i + 1) /\ UNCHANGED <<root, backup, journal>>
     ELSE /\ root' = [root EXCEPT ![f] = "none"]
          /\ backup' = [backup EXCEPT ![f] = root[f]]
          /\ journal' = [journal EXCEPT !.state = "backing-up",
                                        !.backedUp = Append(@, f)]
          /\ Goes("noteBackup", i)
  /\ UNCHANGED <<extraction, disk, launched, kept, stops, faults>>

NoteBackup ==
  /\ pc = "noteBackup"
  /\ disk' = {journal}
  /\ Goes("backup", i + 1)
  /\ UNCHANGED <<places, journal, launched, kept, stops, faults>>

BackedUp ==
  /\ pc = "backup" /\ i > Len(OldFiles)
  /\ Goes("install", 1)
  /\ UNCHANGED <<places, disk, journal, launched, kept, stops, faults>>

(* Each new file is renamed into the root, over whatever is there.         *)
Install ==
  /\ pc = "install" /\ i <= Len(NewFiles)
  /\ LET f == NewFiles[i] IN
     /\ root' = [root EXCEPT ![f] = extraction[f]]
     /\ extraction' = [extraction EXCEPT ![f] = "none"]
     /\ journal' = [journal EXCEPT !.state = "installing",
                                   !.installed = Append(@, f)]
  /\ Goes("noteInstall", i)
  /\ UNCHANGED <<backup, disk, launched, kept, stops, faults>>

NoteInstall ==
  /\ pc = "noteInstall"
  /\ disk' = {journal}
  /\ Goes("install", i + 1)
  /\ UNCHANGED <<places, journal, launched, kept, stops, faults>>

(* The new application's health check succeeds and confirms.               *)
Healthy ==
  /\ pc = "install" /\ i > Len(NewFiles)
  /\ journal' = [journal EXCEPT !.state = "committed"]
  /\ Goes("commit", 0)
  /\ UNCHANGED <<places, disk, launched, kept, stops, faults>>

Commit ==
  /\ pc = "commit"
  /\ disk' = {journal}
  /\ Goes("committed", 0)
  /\ UNCHANGED <<places, journal, launched, kept, stops, faults>>

(* The result is recorded and the journal removed.                         *)
Close ==
  /\ pc = "committed"
  /\ disk' = {}
  /\ Goes("clean", 0)
  /\ UNCHANGED <<places, journal, launched, kept, stops, faults>>

(* The extraction is removed, the new application started; the backup      *)
(* stays.                                                                  *)
Clean ==
  /\ pc = "clean"
  /\ extraction' = Empty
  /\ launched' = {root}
  /\ Goes("idle", 0)
  /\ UNCHANGED <<root, backup, disk, journal, kept, stops, faults>>

Trying == {"backup", "noteBackup", "install", "noteInstall", "commit", "committed",
           "clean"}

Rollback == Goes("unlink", Len(journal.installed))

(* The health check fails, is late, or the new process ends.               *)
Unhealthy ==
  /\ pc = "install" /\ i > Len(NewFiles)
  /\ Rollback
  /\ UNCHANGED <<places, disk, journal, launched, kept, stops, faults>>

(* Any call of the try raises; the rollback uses the dict in memory.       *)
Fails ==
  /\ pc \in Trying /\ faults < MaxFaults
  /\ faults' = faults + 1
  /\ Rollback
  /\ UNCHANGED <<places, disk, journal, launched, kept, stops>>
-----------------------------------------------------------------------------
(***************************************************************************)
(* _rollback, and recover_interrupted that starts it from the file.        *)
(***************************************************************************)

(* Mutant: a recovery restores over what was installed, without removing it.     *)
RecoverInPlace ==
  /\ pc = "idle" /\ disk # {}
  /\ \A j \in disk :
       IF j.state = "committed"
       THEN disk' = {} /\ UNCHANGED <<journal, pc, i>>
       ELSE journal' = j /\ Goes("restore", Len(j.backedUp)) /\ UNCHANGED disk
  /\ UNCHANGED <<places, launched, kept, stops, faults>>

Recover ==
  /\ pc = "idle" /\ disk # {}
  /\ \A j \in disk :
       IF j.state = "committed"
       THEN disk' = {} /\ UNCHANGED <<journal, pc, i>>
       ELSE journal' = j /\ Goes("unlink", Len(j.installed)) /\ UNCHANGED disk
  /\ UNCHANGED <<places, launched, kept, stops, faults>>

(* What was installed is removed, last first.                              *)
Unlink ==
  /\ pc = "unlink"
  /\ IF i = 0
     THEN Goes("restore", Len(journal.backedUp)) /\ UNCHANGED root
     ELSE /\ root' = [root EXCEPT ![journal.installed[i]] = "none"]
          /\ Goes("unlink", i - 1)
  /\ UNCHANGED <<backup, extraction, disk, journal, launched, kept, stops, faults>>

(* What was backed up is renamed back, if it is still in the backup.       *)
Restore ==
  /\ pc = "restore" /\ i > 0
  /\ LET f == journal.backedUp[i] IN
     IF backup[f] = "none"
     THEN UNCHANGED <<root, backup>>
     ELSE /\ root' = [root EXCEPT ![f] = backup[f]]
          /\ backup' = [backup EXCEPT ![f] = "none"]
  /\ Goes("restore", i - 1)
  /\ UNCHANGED <<extraction, disk, journal, launched, kept, stops, faults>>

RemoveExtraction ==
  /\ pc = "restore" /\ i = 0
  /\ extraction' = Empty
  /\ Goes("rmBackup", 0)
  /\ UNCHANGED <<root, backup, disk, journal, launched, kept, stops, faults>>

RemoveBackup ==
  /\ pc = "rmBackup"
  /\ backup' = Empty
  /\ Goes("rmJournal", 0)
  /\ UNCHANGED <<root, extraction, disk, journal, launched, kept, stops, faults>>

RemoveJournal ==
  /\ pc = "rmJournal"
  /\ disk' = {}
  /\ Goes("relaunch", 0)
  /\ UNCHANGED <<places, journal, launched, kept, stops, faults>>

(* The old application is started if it is there.                          *)
Relaunch ==
  /\ pc = "relaunch"
  /\ launched' = IF root[Exe] = "none" THEN launched ELSE {root}
  /\ Goes("idle", 0)
  /\ UNCHANGED <<places, disk, journal, kept, stops, faults>>
-----------------------------------------------------------------------------
(***************************************************************************)
(* The world.  A window is a state in which a stop of the helper, or an    *)
(* exception of the rollback, has consequences the code does not handle;   *)
(* only those of Windows are hit.                                          *)
(***************************************************************************)
RollingBack == pc \in {"unlink", "restore", "rmBackup", "rmJournal"}

(* The journal's file does not have what the helper has renamed: it has    *)
(* not written it yet, or could not.                                       *)
Unrecorded == \E j \in disk : <<j.backedUp, j.installed>> # <<journal.backedUp, journal.installed>>

(* The rollback has restored a file which the journal also has among the   *)
(* installed ones.                                                         *)
Restored == RollingBack /\ \E j \in disk : \E f \in Range(j.installed) : root[f] = "old"

(* An update is rolled back whose journal says committed, or is gone.      *)
CommittedBack == RollingBack /\ \A j \in disk : j.state = "committed"

Allowed ==
  /\ Unrecorded => "unrecorded" \in Windows
  /\ Restored => "restored" \in Windows
  /\ CommittedBack => "committed" \in Windows

(* The process is killed, or the machine stops.                            *)
Stop ==
  /\ pc # "idle" /\ Allowed /\ stops < MaxStops
  /\ stops' = stops + 1
  /\ Goes("idle", 0) /\ journal' = Fresh
  /\ UNCHANGED <<places, disk, launched, kept, faults>>

(* An exception of the rollback ends the helper.                           *)
RollbackFails ==
  /\ RollingBack /\ Allowed /\ faults < MaxFaults
  /\ faults' = faults + 1
  /\ Goes("idle", 0) /\ journal' = Fresh
  /\ UNCHANGED <<places, disk, launched, kept, stops>>

(* The user puts a file of his own where the package has one.              *)
UserFile(f) ==
  /\ f \notin Range(OldFiles) /\ root[f] = "none"
  /\ (pc = "idle" /\ disk = {}) \/ "user" \in Windows
  /\ root' = [root EXCEPT ![f] = "user"]
  /\ kept' = kept \cup {f}
  /\ UNCHANGED <<backup, extraction, disk, journal, pc, i, launched, stops, faults>>

Applies == Check \/ Prepare \/ GivesUp \/ Backup \/ NoteBackup \/ BackedUp \/ Install
           \/ NoteInstall \/ Healthy \/ Commit \/ Close \/ Clean \/ Unhealthy \/ Fails
RollsBack == Recover \/ Unlink \/ Restore \/ RemoveExtraction \/ RemoveBackup
             \/ RemoveJournal \/ Relaunch
World == Stop \/ RollbackFails \/ \E f \in Managed : UserFile(f)

Next == Applies \/ RollsBack \/ World

Spec == Init /\ [][Next]_vars
-----------------------------------------------------------------------------
(***************************************************************************)
(* Properties.                                                             *)
(***************************************************************************)

Journals == [state : {"prepared", "backing-up", "installing", "committed"},
             backedUp : Seq(Range(OldFiles)), installed : Seq(Range(NewFiles))]

(* Every variable keeps its type, and the lists of a journal have no       *)
(* duplicates, which load_update_journal would refuse.                     *)
TypeOK ==
  /\ root \in [Managed -> Content]
  /\ backup \in [Managed -> {"none", "old"}]
  /\ extraction \in [Managed -> {"none", "new"}]
  /\ disk \subseteq Journals /\ Cardinality(disk) <= 1
  /\ journal \in Journals
  /\ \A j \in disk \cup {journal} : IsInjective(j.backedUp) /\ IsInjective(j.installed)
  /\ pc \in Trying \cup {"idle", "wait", "unlink", "restore", "rmBackup", "rmJournal",
                         "relaunch"}
  /\ i \in 0..(Len(OldFiles) + Len(NewFiles) + 1)
  /\ launched \subseteq [Managed -> Content]
  /\ kept \subseteq Managed
  /\ stops \in 0..MaxStops /\ faults \in 0..MaxFaults

(* A directory holds exactly the runtime `version` and files of the user.  *)
Is(dir, version, files) ==
  \A f \in Managed : dir[f] = version <=> f \in Range(files)
IsOld(dir) == Is(dir, "old", OldFiles) /\ \A f \in Managed : dir[f] # "new"
IsNew(dir) == Is(dir, "new", NewFiles) /\ \A f \in Managed : dir[f] # "old"

(* All or nothing: when no helper runs and no journal waits for one, the   *)
(* directory holds the whole old runtime or the whole new one, and no file *)
(* of the other, whatever failed and wherever the helper was stopped.      *)
AllOrNothing == pc = "idle" /\ disk = {} => IsOld(root) \/ IsNew(root)

(* The helper starts no mixture: what it launches, after a commit, after a *)
(* rollback or after a recovery, is one whole runtime.                     *)
LaunchesWhole == \A dir \in launched : IsOld(dir) \/ IsNew(dir)

(* Nothing of the old runtime is lost, whether the update is committed or  *)
(* not: each file is in the root or in the transaction's backup.           *)
NothingLost == \A f \in Range(OldFiles) : root[f] = "old" \/ backup[f] = "old"

(* A file of the user is never overwritten, moved or removed.              *)
UserFilesKept == \A f \in kept : root[f] = "user"

(* A rollback that has failed can be repeated from its journal (design     *)
(* 2026-08-13: a recoverable journal after a failed rollback): one that    *)
(* gets to its end leaves the old runtime.                                 *)
RollbackRepeats == pc = "rmJournal" => IsOld(root)

(* Wherever the helper fails or is stopped, there is one whole runtime: at  *)
(* rest in the directory, in whatever is launched, and of the old one every *)
(* file until the end.                                                      *)
RuntimeIsWhole == AllOrNothing /\ LaunchesWhole /\ NothingLost
=============================================================================
