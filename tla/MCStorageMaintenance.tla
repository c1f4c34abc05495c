------------------------ MODULE MCStorageMaintenance ------------------------
(* Two thumbnails of which one is kept, two backups of which one is kept,  *)
(* or a part file.                                                         *)
EXTENDS StorageMaintenance, TLC

CONSTANTS t1, t2, b1, b2, p

MCCategory == t1 :> "thumbnail" @@ t2 :> "thumbnail" @@ b1 :> "backup" @@ b2 :> "backup"
                @@ p :> "part"
MCRank == t1 :> 1 @@ t2 :> 2 @@ b1 :> 1 @@ b2 :> 2 @@ p :> 1
MCInitial == {[f \in Files |-> IF f = p THEN 0 ELSE 1],
              [f \in Files |-> IF f = p THEN 1 ELSE 0]}

(* Of the thumbnails one is looked at, and only where there is no part.    *)
MCNext == /\ Next
          /\ file[p] # 0 => file'[t1] = file[t1]
          /\ file'[t2] # file[t2] => op.pc = "remove" /\ file'[t2] = 0
MCSpec == Init /\ [][MCNext]_vars /\ Fairness
=============================================================================
