-------------------------- MODULE MCSubscriptions --------------------------
(* Message 2 belongs to an album with message 1's medium; the second       *)
(* matcher wants one of them.                                              *)
EXTENDS Subscriptions

MCHits == [k \in {1, 2} |-> [m \in 1..2 |->
            IF m = 1 THEN {"x"} ELSE IF k = 1 THEN {"x", "y"} ELSE {"z"}]]
=============================================================================
