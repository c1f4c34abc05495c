--------------------- MODULE StorageMaintenanceProofs ---------------------
(***************************************************************************)
(* For any number of businesses and files, any limits and any directory    *)
(* the program starts on: maintenance and business exclude each other, and *)
(* what is removed is what was listed.                                     *)
(***************************************************************************)
EXTENDS StorageMaintenance, TLAPS

(* The strengthening: what was validated is unchanged until it is removed, *)
(* because whoever writes it is a business; but for thumbnails, which the  *)
(* pages read and write without being one.                                 *)
IInv == /\ TypeOK
        /\ op.pc # "idle" => busy = {}
        /\ op.pc = "remove" =>
             \A f \in op.cur : Category[f] # "thumbnail" => file[f] = op.plan[f]

(* The operation that has ended, and the one that begins.                  *)
LEMMA NoOpIsIdle == NoOp \in Operations /\ NoOp.pc = "idle" /\ NoPlan \in [Files -> 0..2]
<1>1. NoPlan \in [Files -> 0..2]
  BY DEF NoPlan
<1> QED
  BY <1>1 DEF NoOp, Operations

LEMMA Begins ==
  ASSUME NEW k \in Users \cup {"automatic", "safe", "manual"}, NEW P \in [Files -> 0..2]
  PROVE  /\ [NoOp EXCEPT !.pc = "scan", !.kind = k] \in Operations
         /\ [NoOp EXCEPT !.pc = "scan", !.kind = k].pc = "scan"
         /\ [NoOp EXCEPT !.pc = "exec", !.kind = k, !.plan = P] \in Operations
         /\ [NoOp EXCEPT !.pc = "exec", !.kind = k, !.plan = P].pc = "exec"
BY NoOpIsIdle DEF NoOp, Operations

(* Nothing is listed or removed when the program starts.                   *)
LEMMA InitIInv == Init => IInv
BY FilesAssumption, NoOpIsIdle DEF Init, IInv, TypeOK

(* Every step of a business, the user, the thread, the scheduler and of    *)
(* shutdown keeps the strengthened invariant.                              *)
LEMMA NextIInv == IInv /\ [Next]_vars => IInv'
<1> USE FilesAssumption
<1> SUFFICES ASSUME IInv, [Next]_vars
             PROVE  IInv'
  OBVIOUS
<1>1. ASSUME NEW a \in Actors, Track(a)
      PROVE  IInv'
  BY <1>1 DEF IInv, TypeOK, service, loop, Track
<1>2. ASSUME NEW a \in Actors, Release(a)
      PROVE  IInv'
  BY <1>2 DEF IInv, TypeOK, service, loop, Release
<1>3. ASSUME NEW f \in Files, WriteFile(f)
      PROVE  IInv'
  BY <1>3 DEF IInv, TypeOK, service, loop, WriteFile
<1>30. ASSUME NEW f \in Files, WriteThumbnail(f) \/ DropThumbnail(f)
      PROVE  IInv'
  <2>1. PICK s \in {0, 2} : file' = [file EXCEPT ![f] = s] /\ Category[f] = "thumbnail"
    BY <1>30 DEF WriteThumbnail, DropThumbnail
  <2>2. UNCHANGED <<busy, media, journal, service, enabled, due, loop, shut>>
    BY <1>30 DEF WriteThumbnail, DropThumbnail
  <2>3. \A g \in Files : Category[g] # "thumbnail" => file'[g] = file[g]
    BY <2>1 DEF IInv, TypeOK
  <2>4. op.cur \subseteq Files
    BY DEF IInv, TypeOK, Operations
  <2> QED  BY <2>1, <2>2, <2>3, <2>4 DEF IInv, TypeOK, service, loop
<1>4. CASE ChangeMedia
  BY <1>4 DEF IInv, TypeOK, service, loop, ChangeMedia
<1>5. CASE Reconfigure
  BY <1>5 DEF IInv, TypeOK, service, Reconfigure, Wakened
<1>6. CASE DueAgain
  BY <1>6 DEF IInv, TypeOK, service, loop, DueAgain
<1>7. ASSUME NEW k \in Users, StartScan(k)
      PROVE  IInv'
  BY <1>7, Begins, NoOpIsIdle DEF IInv, TypeOK, loop, StartScan, TryTrackMaintenance
<1>8. ASSUME NEW S \in SUBSET Files, PrepareManual(S)
      PROVE  IInv'
  BY <1>8 DEF IInv, TypeOK, loop, PrepareManual, Listed
<1>9. CASE ExecuteSafe
  BY <1>9, Begins, NoOpIsIdle DEF IInv, TypeOK, loop, ExecuteSafe, TryTrackMaintenance
<1>10. CASE ExecuteManual
  BY <1>10, Begins, NoOpIsIdle DEF IInv, TypeOK, loop, ExecuteManual, TryTrackMaintenance
<1>11. CASE InventoryAges
  BY <1>11, NoOpIsIdle DEF IInv, TypeOK, loop, InventoryAges, NoPlan
<1>12. CASE ConfirmationExpires
  BY <1>12, NoOpIsIdle DEF IInv, TypeOK, loop, ConfirmationExpires, NoPlan
<1>13. CASE Cancel
  <2>1. op' \in Operations /\ op'.pc = op.pc /\ op'.cur = op.cur /\ op'.plan = op.plan
    BY <1>13 DEF Cancel, IInv, TypeOK, Operations
  <2> QED
    BY <1>13, <2>1 DEF IInv, TypeOK, Cancel, loop
<1>14. CASE ScanEnds
  <2>1. AutomaticPlan \in [Files -> 0..2] /\ DownloadCandidates \in [Files -> 0..2]
    BY DEF IInv, TypeOK, AutomaticPlan, DownloadCandidates
  <2>2. op' \in Operations /\ op'.pc \in {"exec", "idle"}
    BY <1>14, <2>1, NoOpIsIdle DEF ScanEnds, IInv, TypeOK, Operations
  <2>3. {safeConf', manualConf', downloads'} \subseteq [Files -> 0..2]
    BY <1>14, <2>1, NoOpIsIdle DEF ScanEnds, IInv, TypeOK
  <2> QED
    BY <1>14, <2>2, <2>3 DEF IInv, TypeOK, ScanEnds, loop
<1>15. CASE ScanFails
  BY <1>15, NoOpIsIdle DEF IInv, TypeOK, ScanFails, AfterCleaning
<1>16. CASE ExecuteEnds
  BY <1>16, NoOpIsIdle DEF IInv, TypeOK, ExecuteEnds, AfterCleaning
<1>17. ASSUME NEW f \in Files, Validate(f)
      PROVE  IInv'
  <2>0. op.plan \in [Files -> 0..2] /\ [op.plan EXCEPT ![f] = 0] \in [Files -> 0..2]
    BY DEF IInv, TypeOK, Operations
  <2>1. op' \in Operations /\ op'.pc \in {"exec", "remove"}
    BY <1>17, <2>0 DEF Validate, IInv, TypeOK, Operations
  <2>2. ASSUME op'.pc = "remove", NEW g \in op'.cur, Category[g] # "thumbnail"
        PROVE  file'[g] = op'.plan[g]
    BY <1>17, <2>2 DEF Validate, IInv, TypeOK, Operations, StillSelectable
  <2> QED
    BY <1>17, <2>1, <2>2 DEF IInv, TypeOK, Validate, loop
<1>18. ASSUME NEW f \in Files, Remove(f)
      PROVE  IInv'
  <2>0. op.plan \in [Files -> 0..2] /\ [op.plan EXCEPT ![f] = 0] \in [Files -> 0..2]
    BY DEF IInv, TypeOK, Operations
  <2>1. op' \in Operations /\ op'.pc = "exec"
    BY <1>18, <2>0 DEF Remove, IInv, TypeOK, Operations
  <2> QED
    BY <1>18, <2>1 DEF IInv, TypeOK, Remove, loop
<1>19. CASE Top
  BY <1>19 DEF IInv, TypeOK, service, Top, Await
<1>20. CASE ChangeSeen
  BY <1>20 DEF IInv, TypeOK, service, ChangeSeen, Wakes
<1>21. CASE StartupEnds
  BY <1>21 DEF IInv, TypeOK, service, StartupEnds, Await
<1>22. CASE DueArrives
  BY <1>22 DEF IInv, TypeOK, service, DueArrives, Await
<1>23. CASE IdleElapses
  BY <1>23 DEF IInv, TypeOK, service, IdleElapses
<1>24. CASE CleanSafe
  <2>1. CASE MayClean
    <3>1. op' = [NoOp EXCEPT !.pc = "scan", !.kind = "automatic"]
      BY <1>24, <2>1 DEF CleanSafe
    <3>2. op' \in Operations /\ op'.pc = "scan"
      BY <3>1, NoOpIsIdle, Begins
    <3> QED
      BY <1>24, <2>1, <3>2 DEF IInv, TypeOK, CleanSafe, MayClean, TryTrackMaintenance
  <2>2. CASE ~MayClean
    BY <1>24, <2>2 DEF IInv, TypeOK, CleanSafe, Await
  <2> QED
    BY <2>1, <2>2
<1>25. CASE RetryEnds
  BY <1>25 DEF IInv, TypeOK, service, RetryEnds
<1>26. CASE ShutdownBegins
  <2>1. op' \in Operations /\ op'.pc = op.pc /\ op'.cur = op.cur /\ op'.plan = op.plan
    BY <1>26 DEF ShutdownBegins, IInv, TypeOK, Operations
  <2> QED
    BY <1>26, <2>1 DEF IInv, TypeOK, ShutdownBegins
<1>27. CASE ServiceShutdown
  <2>1. op' \in Operations /\ op'.pc = op.pc /\ op'.cur = op.cur /\ op'.plan = op.plan
    BY <1>27 DEF ServiceShutdown, IInv, TypeOK, Operations
  <2> QED
    BY <1>27, <2>1 DEF IInv, TypeOK, ServiceShutdown, loop
<1>28. CASE ShutdownEnds
  BY <1>28 DEF IInv, TypeOK, service, loop, ShutdownEnds
<1>29. CASE UNCHANGED vars
  BY <1>29 DEF vars, IInv, TypeOK, service, loop
<1> QED
  BY <1>1, <1>2, <1>3, <1>4, <1>5, <1>6, <1>7, <1>8, <1>9, <1>10, <1>11, <1>12, <1>13, <1>14,
     <1>15, <1>16, <1>17, <1>18, <1>19, <1>20, <1>21, <1>22, <1>23, <1>24, <1>25, <1>26, <1>27,
     <1>28, <1>29, <1>30 DEF Next, Thread, Runner, Shutting

(* The registry is a lock of many readers and one writer for every number  *)
(* of businesses (maintenance_activity.py).                                *)
THEOREM Exclusion == Spec => []MaintenanceIsExclusive
<1>1. IInv => MaintenanceIsExclusive
  BY DEF IInv, MaintenanceIsExclusive
<1> QED
  BY <1>1, InitIInv, NextIInv, PTL DEF Spec

(* What a clean-up removes is still what its plan lists, but for thumbnails *)
(* (storage_cleanup.py).                                                   *)
THEOREM Removal == Spec => RemovedAsListed
<1>1. IInv /\ [Next]_vars =>
        [\A f \in Files : Category[f] # "thumbnail" /\ file[f] # 0 /\ file'[f] = 0 =>
           file[f] = op.plan[f]]_vars
  <2> SUFFICES ASSUME IInv, Next, NEW f \in Files, Category[f] # "thumbnail", file[f] # 0,
                      file'[f] = 0
               PROVE  file[f] = op.plan[f]
    BY DEF vars
  <2>1. ASSUME NEW g \in Files, WriteFile(g) \/ WriteThumbnail(g) \/ DropThumbnail(g)
        PROVE  FALSE
    BY <2>1 DEF WriteFile, WriteThumbnail, DropThumbnail, IInv, TypeOK
  <2>2. ASSUME NEW g \in Files, Remove(g)
        PROVE  file[f] = op.plan[f]
    BY <2>2 DEF Remove, IInv, TypeOK
  <2>3. CASE file' = file
    BY <2>3
  <2> QED
    BY <2>1, <2>2, <2>3 DEF Next, Thread, Runner, Shutting, Track, Release, ChangeMedia,
       Reconfigure,
       DueAgain, StartScan, PrepareManual, ExecuteSafe, ExecuteManual, InventoryAges,
       ConfirmationExpires, Cancel, ScanEnds, ScanFails, ExecuteEnds, Validate, Top, ChangeSeen,
       StartupEnds, DueArrives, IdleElapses, CleanSafe, RetryEnds, ShutdownBegins, ServiceShutdown,
       ShutdownEnds
<1> QED
  BY <1>1, InitIInv, NextIInv, PTL DEF Spec, RemovedAsListed
=============================================================================
