--------------------------- MODULE MCDownloadWindow ---------------------------
(* A week of three days of three minutes.                                    *)
EXTENDS DownloadWindow
=============================================================================
