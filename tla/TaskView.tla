------------------------------ MODULE TaskView ------------------------------
(***************************************************************************)
(* What the task page promises of the rows it shows: every value on the    *)
(* page was once in the row, and no row ever goes back on the page.        *)
(***************************************************************************)
EXTENDS Naturals

CONSTANT Tasks

VARIABLES row,    \* the number of changes made to each task's row
          view    \* the change each task is shown with

Init == row = [t \in Tasks |-> 0] /\ view = [t \in Tasks |-> 0]

Write(t) == row' = [row EXCEPT ![t] = @ + 1] /\ UNCHANGED view

Show == /\ view' \in [Tasks -> Nat]
        /\ \A t \in Tasks : view[t] <= view'[t] /\ view'[t] <= row[t]
        /\ UNCHANGED row

Next == Show \/ \E t \in Tasks : Write(t)

Spec == Init /\ [][Next]_<<row, view>>
=============================================================================
