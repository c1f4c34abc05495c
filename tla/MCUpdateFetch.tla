----------------------------- MODULE MCUpdateFetch -----------------------------
(* Two sources that serve one signed package, and one stop of the program.    *)
EXTENDS UpdateFetch
=============================================================================
