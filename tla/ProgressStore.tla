---------------------------- MODULE ProgressStore ---------------------------
(***************************************************************************)
(* What the download code expects from its persistence layer, whatever the *)
(* implementation: each media item has one writer, the writer numbers its  *)
(* updates, the database only moves forward along those numbers, and an    *)
(* acknowledged update is durable.  (The contract of DownloadPersistence,  *)
(* download_persistence.py; both of its classes are meant to satisfy it.)  *)
(***************************************************************************)
EXTENDS Integers

CONSTANTS Items

VARIABLES issued,   \* the number of the last update each item's writer made
          durable,  \* the number of the update the database holds
          acked     \* the number of the last update reported as committed

vars == <<issued, durable, acked>>

Init == /\ issued = [i \in Items |-> 0]
        /\ durable = [i \in Items |-> 0]
        /\ acked = [i \in Items |-> 0]

Issue(i) == /\ issued' = [issued EXCEPT ![i] = @ + 1]
            /\ UNCHANGED <<durable, acked>>

(* One transaction moves any items forward, to updates that were made.     *)
Commit == /\ durable' \in [Items -> Nat]
          /\ \A i \in Items : durable[i] <= durable'[i] /\ durable'[i] <= issued[i]
          /\ UNCHANGED <<issued, acked>>

Acknowledge(i) == /\ durable[i] = issued[i]
                  /\ acked' = [acked EXCEPT ![i] = issued[i]]
                  /\ UNCHANGED <<issued, durable>>

Next == Commit \/ \E i \in Items : Issue(i) \/ Acknowledge(i)

Spec == Init /\ [][Next]_vars
=============================================================================
