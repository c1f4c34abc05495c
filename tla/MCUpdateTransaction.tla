------------------------ MODULE MCUpdateTransaction ------------------------
(* One update that replaces two files and brings a third, of whose name    *)
(* the user may have a file of his own, also while the update runs.         *)
EXTENDS UpdateTransaction

OldList == <<"exe", "inventory">>
NewList == <<"exe", "extra", "inventory">>
=============================================================================
